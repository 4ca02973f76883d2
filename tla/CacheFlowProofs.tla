---------------------------- MODULE CacheFlowProofs ----------------------------
(***************************************************************************)
(* TLAPS proofs about CacheFlow, for any number of requests, gateways and  *)
(* Stores, any requests clients send, and any number of faults.            *)
(*                                                                         *)
(* The order is: keys and types; what every action leaves alone; what the  *)
(* tasks of one key share; what a body may be and where it is kept; the    *)
(* step kinds, by what a step does to the Master and the Stores, and the   *)
(* properties of reservations and commits that follow kind by kind;        *)
(* that CacheFlow implements Cache; and last, that the counters add up.    *)
(***************************************************************************)
EXTENDS CacheFlow, StateProofs
SFP == INSTANCE SingleflightProofs WITH SfKeys <- SfKeySpace, Results <- Responses

-----------------------------------------------------------------------------
(* Keys: a digest is the number of one document. *)

\* The sequence of a finite set contains every element of the set.
LEMMA SetToSeqOnto ==
  ASSUME NEW X, IsFiniteSet(X)
  PROVE  \A x \in X : \E i \in DOMAIN S!SetToSeq(X) : S!SetToSeq(X)[i] = x
<1> DEFINE n == Cardinality(X)
           f == S!SetToSeq(X)
<1>1. n \in Nat /\ \E g : g \in Bijection(1..n, X)
  BY FS_CardinalityType DEF ExistsBijection
<1>2. f = CHOOSE g \in [1..n -> X] : S!IsInjective(g)
  <2>1. S!Cardinality(X) = n
    BY DEF S!Cardinality, Cardinality
  <2>2. QED BY <2>1 DEF S!SetToSeq
<1>3. \E g \in [1..n -> X] : S!IsInjective(g)
  BY <1>1 DEF Bijection, Injection, IsInjective, S!IsInjective
<1>4. f \in [1..n -> X] /\ S!IsInjective(f)
  BY <1>2, <1>3
<1>5. f \in Injection(1..n, X)
  BY <1>4 DEF Injection, IsInjective, S!IsInjective
<1>6. Cardinality(1..n) = n
  BY <1>1, FS_Interval
<1>7. f \in Surjection(1..n, X)
  BY <1>5, <1>6, FS_Injection
<1>8. QED BY <1>4, <1>7 DEF Surjection

\* The documents that are hashed.
LEMMA DigestOfDocument ==
  ASSUME NEW q \in RequestKinds, Served(q)
  PROVE  /\ Digest(Documents, CacheKey(q)) \in DOMAIN Documents
         /\ Documents[Digest(Documents, CacheKey(q))] = CacheKey(q)
<1> DEFINE K == {k \in RequestKinds : Served(k)}
           X == {CacheKey(k) : k \in K}
           f == [k \in K |-> CacheKey(k)]
<1>1. IsFiniteSet(K)
  BY RequestAssumption, FS_Subset
<1>2. f \in Surjection(K, X)
  BY DEF Surjection
<1>3. IsFiniteSet(X)
  BY <1>1, <1>2, FS_Surjection
<1>4. CacheKey(q) \in X
  OBVIOUS
<1>5. Documents = S!SetToSeq(X)
  BY DEF Documents
<1> HIDE DEF X
<1>6. \E i \in DOMAIN Documents : Documents[i] = CacheKey(q)
  BY <1>3, <1>4, <1>5, SetToSeqOnto
<1>7. QED BY <1>6 DEF Digest

\* A request that is served asks for an id of the Master.
LEMMA IdInIds ==
  ASSUME NEW q \in RequestKinds, Served(q)
  PROVE  IdOf[q] \in Ids
<1>1. IdOf[q] = <<Authenticate(q), Digest(Documents, CacheKey(q))>>
  BY DEF IdOf
<1>2. QED BY <1>1, DigestOfDocument, RequestAssumption DEF Ids

\* Two requests with one id are served, and were sent for the same thing: an id
\* is never shared by clients that asked for something else.
LEMMA SameIdSameRequest ==
  ASSUME NEW q \in RequestKinds, NEW p \in RequestKinds, Served(q), IdOf[p] = IdOf[q]
  PROVE  Served(p) /\ Sent[p] = Sent[q]
<1>1. Served(p)
  BY DEF IdOf, NoId
<1>2. Authenticate(p) = Authenticate(q) /\ Digest(Documents, CacheKey(p)) = Digest(Documents, CacheKey(q))
  BY <1>1 DEF IdOf
<1>3. CacheKey(p) = CacheKey(q)
  BY <1>1, <1>2, DigestOfDocument
<1>4. /\ ResolvedModel(p) = ResolvedModel(q)
      /\ FingerprintBody(p) = FingerprintBody(q)
      /\ Policy(p) = Policy(q)
  BY <1>3 DEF CacheKey
<1>5. (Control(p) = "ForceReplay") = (Control(q) = "ForceReplay")
  BY <1>4 DEF Policy
<1>6. QED BY <1>1, <1>2, <1>4, <1>5 DEF Sent

-----------------------------------------------------------------------------
(* Which requests are served. *)

\* None of the reasons to turn a request away applies to one that is served.
LEMMA ServedPasses ==
  ASSUME NEW q \in RequestKinds, Served(q)
  PROVE  \A i \in 1..7 : ~Refuses(q, Serving(q), Authenticate(q), Reasons[i])
<1> DEFINE I == {i \in 1..Len(Reasons) : Refuses(q, Serving(q), Authenticate(q), Reasons[i])}
           first == IF I # {} THEN S!Min(I) ELSE 0
<1>1. Refusal[q] = IF first = 0 THEN "None" ELSE Reasons[first]
  BY DEF Refusal, S!SelectInSeq
<1>2. Len(Reasons) = 7
  BY DEF Reasons
<1>3. ASSUME I # {} PROVE S!Min(I) \in I
  <2>1. I \subseteq Nat
    BY <1>2
  <2> HIDE DEF I
  <2>3. \E x \in I : \A y \in I : x <= y
    BY <1>3, <2>1, MinimalNat
  <2>4. QED BY <2>3 DEF S!Min
<1>4. ASSUME I # {} PROVE FALSE
  <2>1. first \in 1..7 /\ first # 0
    BY <1>2, <1>3, <1>4
  <2> HIDE DEF first
  <2>2. Reasons[first] = "None"
    BY <1>1, <2>1 DEF Served
  <2>3. QED BY <2>1, <2>2 DEF Reasons
<1>5. QED BY <1>2, <1>4

\* What it means for a request to be served: its gateway runs, it comes with the
\* token of a tenant that may use the vendor, and it names a model.
LEMMA ServedMeans ==
  ASSUME NEW q \in RequestKinds, Served(q)
  PROVE  /\ Serving(q).up
         /\ Authenticate(q) # Blank
         /\ AllowsVendor(Serving(q).tenants, Authenticate(q))
         /\ Control(q) # "Invalid"
<1>1. \A i \in {1, 4, 5, 6} : ~Refuses(q, Serving(q), Authenticate(q), Reasons[i])
  BY ServedPasses
<1>2. Reasons[1] = "Down" /\ Reasons[4] = "Unauthorized" /\ Reasons[5] = "Forbidden" /\ Reasons[6] = "BadControl"
  BY DEF Reasons
<1>3. QED BY <1>1, <1>2 DEF Refuses

-----------------------------------------------------------------------------
(* What the gateways can do to the Master's objects and segments. *)

SameObjects(ms, new) ==
  new \in MasterStates /\ new.segments = ms.segments /\ new.objects = ms.objects

\* The object gets another status.
Restated(ms, new, id, status) ==
  /\ new \in MasterStates
  /\ new.segments = ms.segments
  /\ \A i \in Ids \ {id} : new.objects[i] = ms.objects[i]
  /\ new.objects[id].status = status
  /\ new.objects[id].replicas = ms.objects[id].replicas

Forgotten(ms, new, id) ==
  /\ new \in MasterStates
  /\ new.segments = ms.segments
  /\ \A i \in Ids \ {id} : new.objects[i] = ms.objects[i]
  /\ new.objects[id].status = "Absent"

\* A chunk that lies within the part of a segment that was handed out.
PlacedIn(segs, x) ==
  /\ x \in Replica
  /\ x.seg \in DOMAIN segs
  /\ x.node = segs[x.seg].node
  /\ x.len > 0
  /\ x.offset + x.len <= segs[x.seg].next

\* The object is reserved at a chunk x cut off at the pointer of its segment.
ReservedAt(ms, new, id, len, x) ==
  /\ new \in MasterStates
  /\ DOMAIN new.segments = DOMAIN ms.segments
  /\ \A i \in DOMAIN ms.segments : /\ new.segments[i].node = ms.segments[i].node
                                   /\ new.segments[i].next >= ms.segments[i].next
  /\ PlacedIn(new.segments, x)
  /\ x.offset = ms.segments[x.seg].next
  /\ x.len = len
  /\ \A i \in Ids \ {id} : new.objects[i] = ms.objects[i]
  /\ ms.objects[id].status = "Absent"
  /\ new.objects[id].status = "Reserving"
  /\ new.objects[id].replicas = {x}

\* Segments, and objects, of a Master.
LEMMA PartsType ==
  ASSUME NEW ms \in MasterStates
  PROVE  /\ ms.objects \in [Ids -> ObjectMeta]
         /\ \A i \in DOMAIN ms.segments : ms.segments[i] \in Segment /\ ms.segments[i].next \in U64
<1>1. ms.objects \in [Ids -> ObjectMeta] /\ ms.segments \in Seq(Segment)
  BY DEF MasterStates
<1>2. \A i \in DOMAIN ms.segments : ms.segments[i] \in Segment
  BY <1>1
<1>3. QED BY <1>1, <1>2 DEF Segment

\* put_start for one replica.
LEMMA PutStartCase ==
  ASSUME NEW ms \in MasterStates, NEW id \in Ids, NEW len \in U64
  PROVE  LET new == PutStart(ms, id, len, REPLICA_COUNT)
             ok == PutStartOk(ms, id, len, REPLICA_COUNT)
         IN  /\ ~ok => SameObjects(ms, new)
             /\ ok => \E x : ReservedAt(ms, new, id, len, x)
<1> DEFINE n == REPLICA_COUNT
           new == PutStart(ms, id, len, n)
<1>0. n \in Nat /\ n = 1
  BY DEF REPLICA_COUNT
<1>1. new \in MasterStates
  BY <1>0, PutStartType
<1> HIDE DEF n
<1>2. ASSUME ~PutStartOk(ms, id, len, n) PROVE SameObjects(ms, new)
  BY <1>0, <1>1, <1>2, PutStartFailed DEF SameObjects
<1>3. ASSUME PutStartOk(ms, id, len, n) PROVE \E x : ReservedAt(ms, new, id, len, x)
  <2>1. /\ new.objects = [ms.objects EXCEPT ![id] = Reservation(ms, len, n)]
        /\ new.segments = AdvanceSegments(ms.segments, len, n)
    BY <1>0, <1>3, PutStartSucceeded
  <2> HIDE DEF new
  <2>2. PICK k : Picked(ms.segments, len, n) = {k}
    <3>1. Picked(ms.segments, len, n) \subseteq 1..Len(ms.segments) /\ Len(ms.segments) \in Nat
      BY DEF Picked, MasterStates
    <3>2. IsFiniteSet(Picked(ms.segments, len, n))
      <4>1. IsFiniteSet(1..Len(ms.segments))
        BY <3>1, FS_Interval
      <4>2. QED BY <3>1, <4>1, FS_Subset
    <3>3. QED BY <1>0, <1>3, <3>2, FS_Singleton DEF PutStartOk, CanAllocate
  <2> DEFINE x == [seg |-> k, node |-> ms.segments[k].node, offset |-> ms.segments[k].next, len |-> len]
  <2>3. NewReplicas(ms.segments, len, n) = {x}
    BY <2>2 DEF NewReplicas
  <2>4. new.objects[id].status = "Reserving" /\ new.objects[id].replicas = {x}
    <3>1. new.objects[id] = Reservation(ms, len, n)
      BY <2>1 DEF MasterStates
    <3>2. QED BY <3>1, <2>3 DEF Reservation
  <2>5. \A i \in Ids \ {id} : new.objects[i] = ms.objects[i]
    BY <2>1 DEF MasterStates
  <2>6. ms.objects[id].status = "Absent" /\ len > 0
    BY <1>3 DEF PutStartOk, CanAllocate
  <2>7. k \in DOMAIN ms.segments /\ ms.segments[k] \in Segment
    BY <2>2, PartsType DEF Picked
  <2>8. /\ DOMAIN new.segments = DOMAIN ms.segments
        /\ new.segments[k] = [ms.segments[k] EXCEPT !.next = @ + len]
        /\ \A i \in DOMAIN ms.segments : i # k => new.segments[i] = ms.segments[i]
    BY <2>1, <2>2, <2>7 DEF AdvanceSegments
  <2>9. new.segments[k].node = ms.segments[k].node /\ new.segments[k].next = ms.segments[k].next + len
    BY <2>7, <2>8 DEF Segment
  <2>10. \A i \in DOMAIN ms.segments : /\ new.segments[i].node = ms.segments[i].node
                                       /\ new.segments[i].next >= ms.segments[i].next
    <3> TAKE i \in DOMAIN ms.segments
    <3>1. ms.segments[i].next \in U64 /\ ms.segments[k].next \in U64
      BY <2>7, PartsType
    <3>2. CASE i = k
      BY <2>6, <2>9, <3>1, <3>2, U64MaxAssumption DEF U64
    <3>3. CASE i # k
      <4>1. new.segments[i] = ms.segments[i]
        BY <2>8, <3>3
      <4>2. QED BY <3>1, <4>1, U64MaxAssumption DEF U64
    <3>4. QED BY <3>2, <3>3
  <2>11. x \in Replica
    <3>1. new.objects[id] \in ObjectMeta
      BY <1>1 DEF MasterStates
    <3>2. QED BY <2>4, <3>1 DEF ObjectMeta
  <2>12. PlacedIn(new.segments, x)
    BY <2>6, <2>7, <2>8, <2>9, <2>11, U64MaxAssumption DEF PlacedIn, Segment, U64
  <2> HIDE DEF x
  <2>13. x.offset = ms.segments[x.seg].next /\ x.len = len
    BY DEF x
  <2>14. QED BY <1>1, <2>4, <2>5, <2>6, <2>8, <2>10, <2>12, <2>13 DEF ReservedAt
<1>4. QED BY <1>2, <1>3 DEF n

\* put_end: an object that is reserved is committed.
LEMMA PutEndCase ==
  ASSUME NEW ms \in MasterStates, NEW id \in Ids
  PROVE  /\ ~PutEndOk(ms, id) => SameObjects(ms, PutEnd(ms, id))
         /\ PutEndOk(ms, id) => Restated(ms, PutEnd(ms, id), id, "Committed")
<1> DEFINE new == PutEnd(ms, id)
<1>1. new \in MasterStates /\ ms.objects \in [Ids -> ObjectMeta]
  BY PutEndType, PartsType
<1>2. /\ new.segments = ms.segments
      /\ ~PutEndOk(ms, id) => new.objects = ms.objects
      /\ PutEndOk(ms, id) => new.objects = [ms.objects EXCEPT ![id].status = "Committed"]
  BY PutEndFrame
<1> HIDE DEF new
<1>3. QED BY <1>1, <1>2 DEF SameObjects, Restated, ObjectMeta, new

\* put_revoke: an object that exists is revoked.
LEMMA PutRevokeCase ==
  ASSUME NEW ms \in MasterStates, NEW id \in Ids
  PROVE  /\ ~PutRevokeOk(ms, id) => SameObjects(ms, PutRevoke(ms, id))
         /\ PutRevokeOk(ms, id) => Restated(ms, PutRevoke(ms, id), id, "Revoked")
<1> DEFINE new == PutRevoke(ms, id)
<1>1. new \in MasterStates /\ ms.objects \in [Ids -> ObjectMeta]
  BY PutRevokeType, PartsType
<1>2. /\ new.segments = ms.segments
      /\ ~PutRevokeOk(ms, id) => new.objects = ms.objects
      /\ PutRevokeOk(ms, id) => new.objects = [ms.objects EXCEPT ![id].status = "Revoked"]
  BY PutRevokeFrame
<1> HIDE DEF new
<1>3. QED BY <1>1, <1>2 DEF SameObjects, Restated, ObjectMeta, new

\* A lookup grants a lease and leaves the objects alone.
LEMMA GetReplicaListCase ==
  ASSUME NEW ms \in MasterStates, NEW id \in Ids
  PROVE  SameObjects(ms, GetReplicaList(ms, id, 0))
<1>1. GetReplicaList(ms, id, 0) \in MasterStates
  BY GetReplicaListType, U64MaxAssumption DEF U64
<1>2. /\ GetReplicaList(ms, id, 0).segments = ms.segments
      /\ GetReplicaList(ms, id, 0).objects = ms.objects
  BY GetReplicaListFrame
<1>3. QED BY <1>1, <1>2 DEF SameObjects

\* An operator's removal forgets the object.
LEMMA RemoveCase ==
  ASSUME NEW ms \in MasterStates, NEW id \in Ids, RemoveOk(ms, id)
  PROVE  Forgotten(ms, Remove(ms, id), id)
<1> DEFINE new == Remove(ms, id)
<1>1. new \in MasterStates /\ ms.objects \in [Ids -> ObjectMeta]
  BY RemoveType, PartsType
<1>2. new.segments = ms.segments /\ new.objects = [ms.objects EXCEPT ![id] = NoObject]
  BY RemoveFrame
<1> HIDE DEF new
<1>3. QED BY <1>1, <1>2 DEF Forgotten, NoObject, new

\* Every object is at one chunk; the places that were handed out stay.
OneReplica(ms) ==
  \A id \in Ids : ms.objects[id].status # "Absent" =>
    \E x : ms.objects[id].replicas = {x} /\ PlacedIn(ms.segments, x)

\* Whatever happens to the objects, each is at one chunk that was handed out.
LEMMA OneReplicaKept ==
  ASSUME NEW ms \in MasterStates, NEW new \in MasterStates, NEW id \in Ids, OneReplica(ms),
         \/ SameObjects(ms, new)
         \/ Forgotten(ms, new, id)
         \/ \E status : Restated(ms, new, id, status) /\ ms.objects[id].status # "Absent"
         \/ \E len, x : ReservedAt(ms, new, id, len, x)
  PROVE  OneReplica(new) /\ \A x : PlacedIn(ms.segments, x) => PlacedIn(new.segments, x)
<1>1. \A x : PlacedIn(ms.segments, x) => PlacedIn(new.segments, x)
  <2>1. CASE new.segments = ms.segments
    BY <2>1
  <2>2. ASSUME NEW len, NEW y, ReservedAt(ms, new, id, len, y), NEW x, PlacedIn(ms.segments, x)
        PROVE  PlacedIn(new.segments, x)
    <3>1. /\ x.seg \in DOMAIN ms.segments /\ x.seg \in DOMAIN new.segments
          /\ ms.segments[x.seg].next \in U64 /\ new.segments[x.seg].next \in U64
          /\ x.offset \in U64 /\ x.len \in U64
          /\ new.segments[x.seg].next >= ms.segments[x.seg].next
          /\ new.segments[x.seg].node = ms.segments[x.seg].node
      BY <2>2, PartsType DEF ReservedAt, PlacedIn, Replica
    <3>2. QED BY <2>2, <3>1, U64MaxAssumption DEF PlacedIn, U64
  <2>3. QED BY <2>1, <2>2 DEF SameObjects, Forgotten, Restated
<1>2. OneReplica(new)
  <2> SUFFICES ASSUME NEW i \in Ids, new.objects[i].status # "Absent"
               PROVE  \E x : new.objects[i].replicas = {x} /\ PlacedIn(new.segments, x)
    BY DEF OneReplica
  <2>1. CASE new.objects[i].replicas = ms.objects[i].replicas /\ ms.objects[i].status # "Absent"
    BY <1>1, <2>1 DEF OneReplica
  <2>2. CASE \E len, x : ReservedAt(ms, new, id, len, x) /\ i = id
    BY <2>2 DEF ReservedAt
  <2>3. QED BY <2>1, <2>2 DEF SameObjects, Forgotten, Restated, ReservedAt
<1>3. QED BY <1>1, <1>2

\* The first replica of an object with one replica.
LEMMA FirstReplicaOne ==
  ASSUME NEW o, NEW x \in Replica, o.replicas = {x}
  PROVE  FirstReplica(o) = x
BY DEF FirstReplica, Replica

-----------------------------------------------------------------------------
(* Where a task is and what singleflight made of it. *)

Busy == {"put_start", "write", "put_end", "put_revoke"}
Ended == {"finish", "publish", "done"}
Holding == {"read", "write", "put_end", "put_revoke"}

RolesAt(pc) ==
  CASE pc \in {"start", "get", "read", "begin"} -> {"idle"}
    [] pc = "wait" -> {"waiting"}
    [] pc \in Busy \cup {"vendor"} -> {"idle", "leading", "solo"}
    [] pc = "finish" -> {"leading", "solo"}
    [] pc = "publish" -> {"publishing"}
    [] pc = "done" -> {"idle", "done"}
    [] pc = "cancelled" -> {"idle", "solo", "cancelled"}

\* The requests that look into the cache, and those that call the vendor when
\* they find nothing there.
Cacheable(q) == Served(q) /\ Eligible(q) /\ Control(q) # "Bypass"
Misses(q) == Cacheable(q) /\ Control(q) # "CacheOnly"

\* What is known of a task t with the role ro that serves the request q.
FlowOk(q, t, ro) ==
  /\ ro \in RolesAt(t.pc)
  /\ t.pc \notin {"start", "done"} => Served(q)
  /\ t.pc \in {"get", "read"} => Cacheable(q)
  /\ t.served = "Miss" => Misses(q)
  /\ t.pc \in {"begin", "wait"} \/ ro # "idle" => t.served = "Miss" /\ ~Streaming(q)
  /\ t.pc \in Busy \cup {"vendor"} => t.served # "None"
  /\ t.pc \in Busy => t.body # NoBody
  /\ t.pc \in Holding => t.handle.len > 0
  /\ t.body # NoBody => /\ t.served = "Miss" /\ Control(q) # "ReadOnly"
                        /\ t.pc \in Busy \cup Ended \cup {"cancelled"}
  /\ t.pc \in Ended => t.resp.status # "None"
  /\ t.pc \notin Ended => t.resp = NoResponse

FlowInv == \A r \in Requests : FlowOk(req[r], task[r], role[r])
KeysFixed == sfKey = [r \in Requests |-> SfKeyOf(req[r])]

\* A late call is a call of a task that has a response to write.
LateInv == \A c \in late : task[c.r].body # NoBody

\* A handle is for a chunk that was handed out.
HandlesPlaced ==
  \A r \in Requests : task[r].handle.len > 0 => PlacedIn(master.segments, task[r].handle)

DramSealed == \A n \in Nodes : Sealed(dram[n])

CoreInv ==
  /\ TypeOK
  /\ SFP!SfInv
  /\ KeysFixed
  /\ FlowInv
  /\ LateInv
  /\ OneReplica(master)
  /\ HandlesPlaced
  /\ DramSealed

\* The assumptions of Singleflight hold of the instance.
LEMMA SfAssumptions ==
  SFP!MaxWaitersAssumption /\ SFP!NobodyAssumption /\ SFP!DroppedAssumption
BY NoneAssumption, BoundsAssumption
   DEF SFP!MaxWaitersAssumption, SFP!NobodyAssumption, SFP!DroppedAssumption

\* A step of singleflight keeps its invariant.
LEMMA SfKept ==
  ASSUME SFP!SfInv, SF!Next \/ UNCHANGED gatewayVars
  PROVE  SFP!SfInv'
<1>1. CASE SF!Next
  <2>1. SFP!Next
    BY <1>1
    DEF SF!Next, SFP!Next, SF!BeginLeader, SFP!BeginLeader,
        SF!BeginWaiter, SFP!BeginWaiter, SF!BeginOverCapacity, SFP!BeginOverCapacity,
        SF!PublishRemove, SFP!PublishRemove, SF!PublishSend, SFP!PublishSend,
        SF!CancelLeader, SFP!CancelLeader, SF!CancelWaiter, SFP!CancelWaiter,
        SF!WaitReceive, SFP!WaitReceive, SF!WaitClosed, SFP!WaitClosed,
        SF!SoloFinish, SFP!SoloFinish, SF!RemoveEntry, SFP!RemoveEntry,
        SF!NoEntry, SFP!NoEntry
  <2>2. QED BY <2>1, SfAssumptions, SFP!SfStep
<1>2. CASE UNCHANGED gatewayVars
  <2>1. UNCHANGED SFP!sfVars
    BY <1>2 DEF gatewayVars, SFP!sfVars
  <2>2. QED BY <2>1, SfAssumptions, SFP!SfStep
<1>3. QED BY <1>1, <1>2

-----------------------------------------------------------------------------
(* A step changes the record of one task. *)

Moved(t, pc) == [t EXCEPT !.pc = pc]

Followed(t, to) ==
  [t EXCEPT !.pc = to.pc, !.served = to.status,
            !.resp = [t.resp EXCEPT !.status = IF to.pc = "done" THEN to.status ELSE "None"]]

Answered(t, ro, response) ==
  [t EXCEPT !.pc = IF ro \in {"leading", "solo"} THEN "finish" ELSE "done", !.resp = response]

\* Task r becomes t, the others stay.
Becomes(r, t) == t \in Tasks /\ task' = [task EXCEPT ![r] = t]

\* Goto moves the task and changes nothing else of it.
LEMMA GotoTask ==
  ASSUME TypeOK, NEW r \in Requests, NEW pc \in PCs, Goto(r, pc)
  PROVE  Becomes(r, Moved(task[r], pc))
BY DEF TypeOK, Tasks, Goto, Becomes, Moved

\* An answer is kept in the task, for singleflight or for the client.
LEMMA FinishTask ==
  ASSUME TypeOK, NEW r \in Requests, NEW status \in ResponseStatuses, NEW write \in WriteStatuses,
         NEW body \in Bodies \cup {NoBody}, Finish(r, status, write, body)
  PROVE  Becomes(r, Answered(task[r], role[r], [status |-> status, write |-> write, body |-> body]))
<1> DEFINE response == [status |-> status, write |-> write, body |-> body]
<1>1. response \in Responses
  BY DEF Responses
<1>2. task' = [task EXCEPT ![r].pc = IF role[r] \in {"leading", "solo"} THEN "finish" ELSE "done",
                           ![r].resp = response]
  BY DEF Finish
<1> HIDE DEF response
<1> DEFINE pc == IF role[r] \in {"leading", "solo"} THEN "finish" ELSE "done"
<1>3. pc \in PCs /\ task \in [Requests -> Tasks] /\ task[r] \in Tasks
  BY DEF TypeOK, PCs
<1>4. task' = [task EXCEPT ![r].pc = pc, ![r].resp = response]
  BY <1>2
<1> HIDE DEF pc
<1>5. /\ [task[r] EXCEPT !.pc = pc, !.resp = response] \in Tasks
      /\ task' = [task EXCEPT ![r] = [task[r] EXCEPT !.pc = pc, !.resp = response]]
  BY <1>1, <1>3, <1>4 DEF Tasks
<1>6. QED BY <1>5 DEF Becomes, Answered, pc, response

\* Where a task goes, with the status it will report.
LEMMA FollowTask ==
  ASSUME TypeOK, NEW r \in Requests, NEW to, to.pc \in PCs, to.status \in CacheStatuses, Follow(r, to)
  PROVE  Becomes(r, Followed(task[r], to))
<1> DEFINE status == IF to.pc = "done" THEN to.status ELSE "None"
<1>1. status \in ResponseStatuses
  BY DEF ResponseStatuses
<1>2. task' = [task EXCEPT ![r].pc = to.pc, ![r].served = to.status, ![r].resp.status = status]
  BY DEF Follow
<1>3. Followed(task[r], to) = [task[r] EXCEPT !.pc = to.pc, !.served = to.status,
                                 !.resp = [task[r].resp EXCEPT !.status = status]]
  BY DEF Followed
<1> HIDE DEF status
<1> DEFINE response == [task[r].resp EXCEPT !.status = status]
<1>4. response \in Responses
  <2>1. task[r].resp \in Responses
    BY DEF TypeOK, Tasks
  <2>2. QED BY <1>1, <2>1 DEF Responses
<1>5. task' = [task EXCEPT ![r] = [task[r] EXCEPT !.pc = to.pc, !.served = to.status, !.resp = response]]
  BY <1>2 DEF TypeOK, Tasks
<1> HIDE DEF response
<1>6. [task[r] EXCEPT !.pc = to.pc, !.served = to.status, !.resp = response] \in Tasks
  BY <1>4 DEF TypeOK, Tasks
<1>7. QED BY <1>3, <1>5, <1>6 DEF Becomes, response

\* The other tasks are as they were.
LEMMA FlowKept ==
  ASSUME CoreInv, NEW r \in Requests, NEW t, Becomes(r, t), req' = req,
         \A s \in Requests \ {r} : role'[s] = role[s],
         FlowOk(req[r], t, role'[r])
  PROVE  FlowInv' /\ task' \in [Requests -> Tasks]
<1>1. task' \in [Requests -> Tasks] /\ task'[r] = t /\ \A s \in Requests \ {r} : task'[s] = task[s]
  BY DEF CoreInv, TypeOK, Becomes
<1>2. ASSUME NEW s \in Requests PROVE FlowOk(req'[s], task'[s], role'[s])
  BY <1>1 DEF CoreInv, FlowInv
<1>3. QED BY <1>1, <1>2 DEF FlowInv

\* What a step of one task has to respect for the invariant to be kept.
RestTyped ==
  /\ dram \in [Nodes -> Drams(Bodies)]
  /\ DramSealed
  /\ faults \in 0..MaxFaults
  /\ removes \in 0..MaxRemoves
  /\ metrics \in [Gateways -> [Counters -> Nat]]

LateOf(r, t) ==
  \A c \in late' : c \in late \/ (c \in [op : Updates, r : Requests] /\ c.r = r /\ t.body # NoBody)

\* The Master still knows the chunks it handed out.
MasterKept ==
  /\ master' \in MasterStates
  /\ OneReplica(master)'
  /\ \A x : PlacedIn(master.segments, x) => PlacedIn(master'.segments, x)

HandleOf(r, t) == t.handle = task[r].handle \/ PlacedIn(master'.segments, t.handle)

\* The roles that a step of r leaves alone.
OthersKeepRole(r) == \A s \in Requests \ {r} : role'[s] = role[s]

\* What has to be shown of a step that makes the task of r the record t.
LEMMA CoreKept ==
  ASSUME CoreInv, NEW r \in Requests, NEW t, Becomes(r, t), req' = req, RestTyped',
         MasterKept, HandleOf(r, t), SF!Next \/ UNCHANGED gatewayVars, OthersKeepRole(r), FlowOk(req[r], t, role'[r]),
         task[r].body # NoBody => t.body # NoBody, LateOf(r, t)
  PROVE  CoreInv'
<1>1. FlowInv' /\ task' \in [Requests -> Tasks]
  BY FlowKept DEF OthersKeepRole
<1>2. SFP!SfInv'
  BY SfKept DEF CoreInv
<1>3. sfKey' = sfKey
  BY DEF gatewayVars, SF!Next, SF!BeginLeader, SF!BeginWaiter, SF!BeginOverCapacity,
         SF!PublishRemove, SF!PublishSend, SF!CancelLeader, SF!CancelWaiter, SF!WaitReceive,
         SF!WaitClosed, SF!SoloFinish
<1>4. KeysFixed'
  BY <1>3 DEF CoreInv, KeysFixed
<1>5. late' \subseteq [op : Updates, r : Requests]
  BY DEF CoreInv, TypeOK, LateOf
<1>6. LateInv'
  <2> SUFFICES ASSUME NEW c \in late' PROVE task'[c.r].body # NoBody
    BY DEF LateInv
  <2>1. c.r \in Requests
    BY <1>5
  <2>2. task'[r] = t /\ \A s \in Requests \ {r} : task'[s] = task[s]
    BY DEF CoreInv, TypeOK, Becomes
  <2>3. QED BY <2>1, <2>2 DEF CoreInv, LateInv, LateOf
<1>7. TypeOK'
  BY <1>1, <1>5 DEF CoreInv, TypeOK, RestTyped, MasterKept
<1>8. HandlesPlaced'
  <2> SUFFICES ASSUME NEW s \in Requests, task'[s].handle.len > 0
               PROVE  PlacedIn(master'.segments, task'[s].handle)
    BY DEF HandlesPlaced
  <2>1. task'[r] = t /\ (s # r => task'[s] = task[s])
    BY DEF CoreInv, TypeOK, Becomes
  <2>2. QED BY <2>1 DEF CoreInv, HandlesPlaced, MasterKept, HandleOf
<1>9. QED BY <1>1, <1>2, <1>4, <1>6, <1>7, <1>8 DEF CoreInv, MasterKept, RestTyped

\* The four things that happen to the Master keep what it knows.
LEMMA MasterKeeps ==
  ASSUME CoreInv, NEW id \in Ids,
         \/ master' = master
         \/ SameObjects(master, master')
         \/ Forgotten(master, master', id)
         \/ \E status : Restated(master, master', id, status) /\ master.objects[id].status # "Absent"
         \/ \E len, x : ReservedAt(master, master', id, len, x)
  PROVE  MasterKept
<1>1. master \in MasterStates /\ OneReplica(master)
  BY DEF CoreInv, TypeOK
<1>2. CASE master' = master
  BY <1>1, <1>2 DEF MasterKept, OneReplica
<1>3. CASE master' # master
  <2>1. master' \in MasterStates
    BY <1>3 DEF SameObjects, Forgotten, Restated, ReservedAt
  <2>2. OneReplica(master') /\ \A x : PlacedIn(master.segments, x) => PlacedIn(master'.segments, x)
    BY <1>1, <1>3, <2>1, OneReplicaKept
  <2>3. QED BY <2>1, <2>2 DEF MasterKept
<1>4. QED BY <1>2, <1>3

\* A task that touches nothing but itself keeps the rest.
LEMMA MasterStays ==
  ASSUME CoreInv, master' = master
  PROVE  MasterKept
BY DEF CoreInv, TypeOK, MasterKept, OneReplica

\* Counting keeps the counters natural numbers.
LEMMA CountType ==
  ASSUME TypeOK, NEW r \in Requests, NEW cs, Count(r, cs)
  PROVE  metrics' \in [Gateways -> [Counters -> Nat]]
<1> DEFINE g == req[r].gateway
           new == [c \in Counters |-> IF c \in cs THEN metrics[g][c] + 1 ELSE metrics[g][c]]
<1>1. g \in Gateways
  BY RequestAssumption DEF TypeOK
<1>2. metrics[g] \in [Counters -> Nat]
  BY <1>1 DEF TypeOK
<1>3. new \in [Counters -> Nat]
  BY <1>2
<1>4. metrics' = [metrics EXCEPT ![g] = new]
  BY DEF Count
<1> HIDE DEF new, g
<1>5. QED BY <1>1, <1>3, <1>4 DEF TypeOK

\* What a route leads to.
RouteOk(q, to) ==
  /\ to.pc \in {"vendor", "done", "get", "begin"}
  /\ to.status \in CacheStatuses
  /\ to.pc = "get" => Cacheable(q)
  /\ to.status = "Miss" => Misses(q) /\ to.pc \in {"begin", "vendor"}
  /\ to.pc = "begin" => to.status = "Miss" /\ ~Streaming(q)

\* Where Route and RouteMiss lead.
LEMMA RoutesOk ==
  ASSUME NEW q
  PROVE  /\ Served(q) => RouteOk(q, Route(q))
         /\ Cacheable(q) => RouteOk(q, RouteMiss(q))
<1>1. ASSUME Served(q) PROVE RouteOk(q, Route(q))
  BY <1>1 DEF Route, To, RouteOk, Cacheable, Misses, CacheStatuses
<1>2. ASSUME Cacheable(q) PROVE RouteOk(q, RouteMiss(q))
  BY <1>2 DEF RouteMiss, To, RouteOk, Misses, CacheStatuses
<1>3. QED BY <1>1, <1>2

\* Following a route keeps what is known of a task that is still looking.
LEMMA FollowOk ==
  ASSUME NEW q, NEW t \in Tasks, NEW to, RouteOk(q, to), Served(q), t.pc \in {"start", "get", "read"},
         FlowOk(q, t, "idle")
  PROVE  /\ FlowOk(q, Followed(t, to), "idle")
         /\ Followed(t, to).body = t.body
         /\ Followed(t, to).handle = t.handle
<1> DEFINE new == Followed(t, to)
           response == [t.resp EXCEPT !.status = IF to.pc = "done" THEN to.status ELSE "None"]
<1>1. t.resp = NoResponse /\ t.body = NoBody
  BY DEF FlowOk, Ended, Busy
<1>2. /\ to.pc # "done" => response = NoResponse
      /\ to.pc = "done" => response.status # "None"
  BY <1>1 DEF NoResponse, RouteOk, CacheStatuses
<1>3. new = [t EXCEPT !.pc = to.pc, !.served = to.status, !.resp = response]
  BY DEF Followed
<1> HIDE DEF response
<1>4. /\ new.pc = to.pc /\ new.served = to.status /\ new.resp = response /\ new.body = t.body
      /\ new.handle = t.handle
  BY <1>3 DEF Tasks
<1> HIDE DEF new
<1>5. FlowOk(q, new, "idle")
  BY <1>1, <1>2, <1>4 DEF FlowOk, RouteOk, RolesAt, Ended, Busy, Holding, CacheStatuses
<1>6. QED BY <1>4, <1>5 DEF new

\* An answer ends the flow of a task, or hands it to singleflight.
LEMMA AnswerOk ==
  ASSUME NEW q, NEW t \in Tasks, NEW ro, NEW response, FlowOk(q, t, ro),
         t.pc \in {"start", "get", "read", "vendor"} \cup Busy, response.status # "None"
  PROVE  /\ FlowOk(q, Answered(t, ro, response), ro)
         /\ Answered(t, ro, response).body = t.body
         /\ Answered(t, ro, response).handle = t.handle
<1> DEFINE new == Answered(t, ro, response)
<1>1. /\ new.pc = IF ro \in {"leading", "solo"} THEN "finish" ELSE "done"
      /\ new.resp = response
      /\ new.body = t.body
      /\ new.handle = t.handle
      /\ new.served = t.served
  BY DEF Answered, Tasks
<1>2. ro \in {"idle", "leading", "solo"} /\ (t.pc = "start" => ro = "idle")
  BY DEF FlowOk, RolesAt, Busy
<1> HIDE DEF new
<1>3. FlowOk(q, new, ro)
  BY <1>1, <1>2 DEF FlowOk, RolesAt, Ended, Busy, Holding
<1>4. QED BY <1>1, <1>3 DEF new

\* The ways in which a task moves on, with its old and its new role.
Moves(t, old, pc, new) ==
  \/ t.pc \in Busy /\ pc \in Busy /\ new = old /\ t.handle.len > 0
  \/ t.pc \in Awaits /\ pc = "cancelled" /\ old \in {"idle", "solo"} /\ new = old
  \/ t.pc \in Awaits /\ pc = "cancelled" /\ old \in {"leading", "waiting"} /\ new = "cancelled"
  \/ t.pc = "begin" /\ pc = "wait" /\ new = "waiting"
  \/ t.pc = "begin" /\ pc = "vendor" /\ new \in {"leading", "solo"}
  \/ t.pc = "finish" /\ pc = "publish" /\ new = "publishing"
  \/ t.pc = "finish" /\ pc = "done" /\ new = "done"
  \/ t.pc = "publish" /\ pc = "done" /\ new = "done"

\* A call of the write back, or an await, is left for the next one.
LEMMA MoveOk ==
  ASSUME NEW q, NEW t \in Tasks, NEW ro, NEW pc, NEW new, FlowOk(q, t, ro),
         Moves(t, ro, pc, new)
  PROVE  /\ FlowOk(q, Moved(t, pc), new)
         /\ Moved(t, pc).body = t.body
         /\ Moved(t, pc).handle = t.handle
<1> DEFINE moved == Moved(t, pc)
<1>1. /\ moved.pc = pc /\ moved.served = t.served /\ moved.body = t.body /\ moved.resp = t.resp
      /\ moved.handle = t.handle
  BY DEF Moved, Tasks
<1> HIDE DEF moved
<1>2. FlowOk(q, moved, new)
  BY <1>1 DEF Moves, FlowOk, RolesAt, Ended, Busy, Holding, Awaits
<1>3. QED BY <1>1, <1>2 DEF moved

\* The invariant, for one task.
LEMMA TaskKnown ==
  ASSUME CoreInv, NEW r \in Requests
  PROVE  task[r] \in Tasks /\ req[r] \in RequestKinds /\ FlowOk(req[r], task[r], role[r])
BY DEF CoreInv, TypeOK, FlowInv

\* A task has no role before it begins.
LEMMA StillIdle ==
  ASSUME CoreInv, NEW r \in Requests, task[r].pc \in {"start", "get", "read", "begin"}
  PROVE  role[r] = "idle"
<1>1. role[r] \in RolesAt(task[r].pc)
  BY TaskKnown DEF FlowOk
<1>2. QED BY <1>1 DEF RolesAt, Busy

-----------------------------------------------------------------------------
(* Every step keeps the invariant: the kinds of steps, then the actions. *)

\* Only calls of r that write a response become late.
NewLate(r) ==
  \A c \in late' : c \in late \/ (c \in [op : Updates, r : Requests] /\ c.r = r /\ task[r].body # NoBody)

\* A step that answers the client.
LEMMA AnswerStep ==
  ASSUME CoreInv, NEW r \in Requests, NEW status \in ResponseStatuses \ {"None"},
         NEW write \in WriteStatuses, NEW body \in Bodies \cup {NoBody},
         task[r].pc \in {"start", "get", "read", "vendor"} \cup Busy,
         Finish(r, status, write, body), req' = req, MasterKept, RestTyped', NewLate(r),
         UNCHANGED gatewayVars
  PROVE  CoreInv'
<1> DEFINE response == [status |-> status, write |-> write, body |-> body]
           t == Answered(task[r], role[r], response)
<1>1. Becomes(r, t)
  BY FinishTask DEF CoreInv
<1>2. response.status # "None" /\ task[r] \in Tasks /\ FlowOk(req[r], task[r], role[r])
  BY TaskKnown
<1> HIDE DEF response
<1>3. FlowOk(req[r], t, role[r]) /\ t.body = task[r].body /\ t.handle = task[r].handle
  BY <1>2, AnswerOk
<1> HIDE DEF t
<1>4. QED BY <1>1, <1>3, CoreKept DEF OthersKeepRole, HandleOf, NewLate, LateOf, gatewayVars

\* A step that follows a route.
LEMMA FollowStep ==
  ASSUME CoreInv, NEW r \in Requests, NEW to, RouteOk(req[r], to), Served(req[r]),
         task[r].pc \in {"start", "get", "read"},
         Follow(r, to), req' = req, MasterKept, RestTyped', NewLate(r), UNCHANGED gatewayVars
  PROVE  CoreInv'
<1> DEFINE t == Followed(task[r], to)
<1>1. role[r] = "idle" /\ FlowOk(req[r], task[r], "idle") /\ task[r] \in Tasks
  BY TaskKnown, StillIdle
<1>2. Becomes(r, t)
  BY FollowTask DEF CoreInv, RouteOk, PCs
<1>3. FlowOk(req[r], t, "idle") /\ t.body = task[r].body /\ t.handle = task[r].handle
  BY <1>1, FollowOk
<1> HIDE DEF t
<1>4. QED BY <1>1, <1>2, <1>3, CoreKept DEF OthersKeepRole, HandleOf, NewLate, LateOf, gatewayVars

\* A step that moves a task on, with or without singleflight.
LEMMA MoveStep ==
  ASSUME CoreInv, NEW r \in Requests, NEW pc, Moves(task[r], role[r], pc, role'[r]),
         Goto(r, pc), req' = req, MasterKept, RestTyped', NewLate(r), OthersKeepRole(r),
         SF!Next \/ UNCHANGED gatewayVars
  PROVE  CoreInv'
<1> DEFINE t == Moved(task[r], pc)
<1>1. task[r] \in Tasks /\ FlowOk(req[r], task[r], role[r])
  BY TaskKnown
<1>2. pc \in PCs
  BY DEF Moves, Busy, PCs
<1>3. Becomes(r, t)
  BY <1>2, GotoTask DEF CoreInv
<1>4. FlowOk(req[r], t, role'[r]) /\ t.body = task[r].body /\ t.handle = task[r].handle
  BY <1>1, MoveOk
<1> HIDE DEF t
<1>5. QED BY <1>3, <1>4, CoreKept DEF HandleOf, NewLate, LateOf

\* A request that is refused is answered at once.
LEMMA CoreRefuse ==
  ASSUME CoreInv, NEW r \in Requests, Refuse(r)
  PROVE  CoreInv'
<1>1. RestTyped'
  BY CountType DEF Refuse, CoreInv, TypeOK, RestTyped, DramSealed
<1>2. MasterKept
  BY MasterStays DEF Refuse
<1>3. QED BY <1>1, <1>2, AnswerStep DEF Refuse, At, NewLate, ResponseStatuses, WriteStatuses

\* A request is routed by what the client sent and what its gateway is.
LEMMA CoreStart ==
  ASSUME CoreInv, NEW r \in Requests, Start(r)
  PROVE  CoreInv'
<1>1. RestTyped'
  BY CountType DEF Start, Follow, CoreInv, TypeOK, RestTyped, DramSealed
<1>2. MasterKept
  BY MasterStays DEF Start
<1>3. RouteOk(req[r], Route(req[r]))
  BY RoutesOk DEF Start
<1>4. QED BY <1>1, <1>2, <1>3, FollowStep DEF Start, At, NewLate

\* A request that is served asks for an id of the Master.
LEMMA IdKnown ==
  ASSUME CoreInv, NEW r \in Requests, Served(req[r])
  PROVE  Id(r) \in Ids
BY TaskKnown, IdInIds DEF Id

\* A task that has a response to write.
LEMMA WriterKnown ==
  ASSUME CoreInv, NEW r \in Requests, task[r].body # NoBody
  PROVE  /\ Id(r) \in Ids
         /\ Misses(req[r]) /\ Control(req[r]) # "ReadOnly"
         /\ task[r].body \in Bodies /\ task[r].body.len \in U64
<1>1. task[r] \in Tasks /\ FlowOk(req[r], task[r], role[r])
  BY TaskKnown
<1>2. task[r].body \in Bodies /\ Misses(req[r]) /\ Control(req[r]) # "ReadOnly"
  BY <1>1 DEF FlowOk, Tasks
<1>3. Served(req[r])
  BY <1>2 DEF Misses, Cacheable
<1>4. QED BY <1>2, <1>3, IdKnown, StoreAssumption DEF Bodies

\* A task takes the handle of an object's chunk.
LEMMA TakeHandle ==
  ASSUME CoreInv, NEW r \in Requests, NEW pc, NEW x,
         (task[r].pc = "get" /\ pc = "read") \/ (task[r].pc = "put_start" /\ pc = "write"),
         PlacedIn(master'.segments, x),
         task' = [task EXCEPT ![r].pc = pc, ![r].handle = x],
         req' = req, MasterKept, RestTyped', late' = late, UNCHANGED gatewayVars
  PROVE  CoreInv'
<1> DEFINE t == [task[r] EXCEPT !.pc = pc, !.handle = x]
<1>1. task[r] \in Tasks /\ FlowOk(req[r], task[r], role[r])
  BY TaskKnown
<1>2. x \in Replica /\ x.len > 0 /\ pc \in PCs
  BY DEF PlacedIn, PCs
<1>3. t \in Tasks
  BY <1>1, <1>2 DEF Tasks
<1>4. /\ t.pc = pc /\ t.handle = x /\ t.body = task[r].body /\ t.served = task[r].served
      /\ t.resp = task[r].resp
  BY <1>1 DEF Tasks
<1>5. Becomes(r, t)
  BY <1>1, <1>3 DEF Becomes, CoreInv, TypeOK
<1> HIDE DEF t
<1>6. FlowOk(req[r], t, role[r])
  BY <1>1, <1>2, <1>4 DEF FlowOk, RolesAt, Ended, Busy, Holding
<1>7. QED BY <1>4, <1>5, <1>6, CoreKept DEF OthersKeepRole, HandleOf, LateOf, gatewayVars

\* A lookup answers with the chunk of the object, or that there is none.
LEMMA CoreGetReply ==
  ASSUME CoreInv, NEW r \in Requests, GetReply(r)
  PROVE  CoreInv'
<1>1. RestTyped'
  BY CountType DEF GetReply, Follow, CoreInv, TypeOK, RestTyped, DramSealed
<1>2. Cacheable(req[r]) /\ Served(req[r]) /\ task[r].pc = "get"
  BY TaskKnown DEF GetReply, At, FlowOk, Cacheable
<1>3. Id(r) \in Ids /\ master \in MasterStates /\ OneReplica(master)
  BY <1>2, IdKnown DEF CoreInv, TypeOK
<1>4. master' = GetReplicaList(master, Id(r), 0)
  BY DEF GetReply
<1>5. SameObjects(master, master')
  BY <1>3, <1>4, GetReplicaListCase
<1>6. MasterKept
  BY <1>3, <1>5, MasterKeeps
<1>7. CASE GetReplicaListOk(master, Id(r))
  <2>1. PICK x : master.objects[Id(r)].replicas = {x} /\ PlacedIn(master.segments, x)
    BY <1>3, <1>7 DEF OneReplica, GetReplicaListOk
  <2>2. FirstReplica(master.objects[Id(r)]) = x
    BY <2>1, FirstReplicaOne DEF PlacedIn
  <2>3. PlacedIn(master'.segments, x)
    BY <1>6, <2>1 DEF MasterKept
  <2>4. QED BY <1>1, <1>2, <1>6, <1>7, <2>2, <2>3, TakeHandle DEF GetReply
<1>8. CASE ~GetReplicaListOk(master, Id(r))
  <2>1. RouteOk(req[r], RouteMiss(req[r]))
    BY <1>2, RoutesOk
  <2>2. QED BY <1>1, <1>2, <1>6, <1>8, <2>1, FollowStep DEF GetReply, NewLate
<1>9. QED BY <1>7, <1>8

\* The store that a gateway reads from.
LEMMA ReadFromNode ==
  ASSUME CoreInv, NEW r \in Requests, Served(req[r])
  PROVE  ReadFrom(r) \in Nodes /\ dram[ReadFrom(r)] \in Drams(Bodies) /\ Sealed(dram[ReadFrom(r)])
<1>1. req[r] \in RequestKinds /\ req[r].gateway \in Gateways
  BY TaskKnown, RequestAssumption
<1>2. Deployed[req[r].gateway].up
  BY <1>1, ServedMeans DEF Serving
<1>3. ReadNode[req[r].gateway] \in Range(Deployed[req[r].gateway].nodes)
  BY <1>1, <1>2, ReadNodeAssumption
<1>4. ReadFrom(r) \in Nodes
  BY <1>1, <1>3, StoreAssumption DEF ReadFrom
<1>5. QED BY <1>4 DEF CoreInv, TypeOK, DramSealed

\* A chunk is read, with its checksum verified.
LEMMA BodyRead ==
  ASSUME CoreInv, NEW r \in Requests, task[r].pc = "read",
         ReadOutcome(dram[ReadFrom(r)], task[r].handle.offset, task[r].handle.len) = "Ok"
  PROVE  LET b == ReadContent(dram[ReadFrom(r)], task[r].handle.offset, task[r].handle.len)
         IN  b \in Bodies /\ b = dram[ReadFrom(r)].allocations[task[r].handle.offset].checksum
<1>1. task[r] \in Tasks /\ FlowOk(req[r], task[r], role[r])
  BY TaskKnown
<1>2. Served(req[r]) /\ task[r].handle.len > 0
  BY <1>1 DEF FlowOk, Holding
<1>3. task[r].handle \in Replica
  BY <1>2 DEF CoreInv, HandlesPlaced, PlacedIn
<1>4. task[r].handle.offset \in Nat /\ task[r].handle.len \in Nat
  BY <1>3, U64MaxAssumption DEF Replica, U64
<1>5. Proper(Bodies)
  BY NoneAssumption DEF Proper
<1>6. QED BY <1>2, <1>4, <1>5, ReadFromNode, ReadOk

\* A hit, a mismatch of the form, or an error of the Store.
LEMMA CoreReadReply ==
  ASSUME CoreInv, NEW r \in Requests, ReadReply(r)
  PROVE  CoreInv'
<1> DEFINE outcome == ReadOutcome(dram[ReadFrom(r)], task[r].handle.offset, task[r].handle.len)
           b == ReadContent(dram[ReadFrom(r)], task[r].handle.offset, task[r].handle.len)
<1>1. RestTyped'
  BY CountType DEF ReadReply, Follow, Return, CoreInv, TypeOK, RestTyped, DramSealed
<1>2. MasterKept
  BY MasterStays DEF ReadReply
<1>3. Cacheable(req[r]) /\ Served(req[r]) /\ task[r].pc = "read"
  BY TaskKnown DEF ReadReply, At, FlowOk, Cacheable
<1>4. req' = req /\ NewLate(r) /\ UNCHANGED gatewayVars
  BY DEF ReadReply, NewLate
<1>5. CASE outcome # "Ok"
  <2>1. Finish(r, "CacheError", "Skipped", NoBody)
    BY <1>5 DEF ReadReply, Return
  <2>2. QED BY <1>1, <1>2, <1>3, <1>4, <2>1, AnswerStep DEF ResponseStatuses, WriteStatuses
<1>6. CASE outcome = "Ok" /\ Streaming(req[r]) /\ ~b.stream
  <2>1. RouteOk(req[r], RouteMiss(req[r]))
    BY <1>3, RoutesOk
  <2>2. Follow(r, RouteMiss(req[r]))
    BY <1>6 DEF ReadReply
  <2>3. QED BY <1>1, <1>2, <1>3, <1>4, <2>1, <2>2, FollowStep
<1>7. CASE outcome = "Ok" /\ ~(Streaming(req[r]) /\ ~b.stream)
  <2>1. Finish(r, "Hit", "Skipped", b)
    BY <1>7 DEF ReadReply, Return
  <2>2. b \in Bodies
    BY <1>3, <1>7, BodyRead
  <2> HIDE DEF b
  <2>3. QED BY <1>1, <1>2, <1>3, <1>4, <2>1, <2>2, AnswerStep DEF ResponseStatuses, CacheStatuses, WriteStatuses
<1>8. QED BY <1>5, <1>6, <1>7

\* begin: the task leads, waits or goes on alone.
LEMMA CoreBegin ==
  ASSUME CoreInv, NEW r \in Requests, Begin(r)
  PROVE  CoreInv'
<1>1. RestTyped'
  BY CountType DEF Begin, CoreInv, TypeOK, RestTyped, DramSealed
<1>2. MasterKept
  BY MasterStays DEF Begin
<1>3. SF!BeginLeader(r) \/ SF!BeginWaiter(r) \/ SF!BeginOverCapacity(r)
  BY DEF Begin
<1>4. SF!Next
  BY <1>3 DEF SF!Next
<1>5. role \in [Requests -> SFP!Roles]
  BY DEF CoreInv, SFP!SfInv, SFP!TypeOK
<1>6. OthersKeepRole(r)
  BY <1>3, <1>5 DEF SF!BeginLeader, SF!BeginWaiter, SF!BeginOverCapacity, OthersKeepRole
<1>7. \E pc : Goto(r, pc) /\ Moves(task[r], role[r], pc, role'[r])
  BY <1>5 DEF Begin, At, Moves, SF!BeginLeader, SF!BeginWaiter, SF!BeginOverCapacity
<1>8. QED BY <1>1, <1>2, <1>4, <1>6, <1>7, MoveStep DEF Begin, NewLate

\* What the vendor answers to a request that is served.
LEMMA VendorBody ==
  ASSUME CoreInv, NEW r \in Requests, NEW len \in BodyLens, Served(req[r])
  PROVE  [id |-> Id(r), by |-> r, stream |-> Streaming(req[r]), len |-> len] \in Bodies
<1>1. Streaming(req[r]) \in BOOLEAN
  BY DEF Streaming
<1>2. QED BY <1>1, IdKnown DEF Bodies

\* The vendor's response is written back or returned at once.
LEMMA CoreVendorReply ==
  ASSUME CoreInv, NEW r \in Requests, NEW len \in BodyLens, VendorReply(r, len)
  PROVE  CoreInv'
<1> DEFINE b == [id |-> Id(r), by |-> r, stream |-> Streaming(req[r]), len |-> len]
           write == IF task[r].served = "Degraded" THEN "Failed" ELSE "Skipped"
<1>1. RestTyped'
  BY CountType DEF VendorReply, CoreInv, TypeOK, RestTyped, DramSealed
<1>2. MasterKept
  BY MasterStays DEF VendorReply
<1>3. task[r] \in Tasks /\ FlowOk(req[r], task[r], role[r]) /\ task[r].pc = "vendor"
  BY TaskKnown DEF VendorReply, At
<1>4. Served(req[r]) /\ task[r].served # "None"
  BY <1>3 DEF FlowOk
<1>5. b \in Bodies /\ write \in WriteStatuses
  BY <1>4, VendorBody DEF WriteStatuses
<1>6. req' = req /\ late' = late /\ UNCHANGED gatewayVars
  BY DEF VendorReply
<1>7. CASE WritesBack(r)
  <2>1. task' = [task EXCEPT ![r].pc = "put_start", ![r].body = b]
    BY <1>7 DEF VendorReply
  <2> HIDE DEF b
  <2> DEFINE t == [task[r] EXCEPT !.pc = "put_start", !.body = b]
  <2>2. t \in Tasks
    BY <1>3, <1>5 DEF Tasks, PCs
  <2>3. /\ t.pc = "put_start" /\ t.body = b /\ t.handle = task[r].handle /\ t.served = task[r].served
        /\ t.resp = task[r].resp
    BY <1>3 DEF Tasks
  <2>4. Becomes(r, t)
    BY <2>1, <2>2 DEF Becomes, CoreInv, TypeOK
  <2> HIDE DEF t
  <2>5. b # NoBody
    BY <1>5, NoneAssumption DEF NoBody
  <2>6. FlowOk(req[r], t, role[r])
    BY <1>3, <1>7, <2>3, <2>5 DEF WritesBack, FlowOk, RolesAt, Ended, Busy, Holding
  <2>7. QED BY <1>1, <1>2, <1>6, <2>3, <2>4, <2>5, <2>6, CoreKept DEF OthersKeepRole, HandleOf, LateOf, gatewayVars
<1>8. CASE ~WritesBack(r)
  <2>1. Finish(r, task[r].served, write, b)
    BY <1>8 DEF VendorReply
  <2> HIDE DEF b, write
  <2>2. task[r].served \in ResponseStatuses \ {"None"}
    BY <1>3, <1>4 DEF Tasks, ResponseStatuses
  <2>3. QED BY <1>1, <1>2, <1>3, <1>5, <1>6, <2>1, <2>2, AnswerStep DEF NewLate
<1>9. QED BY <1>7, <1>8

\* The vendor's error is the task's.
LEMMA CoreVendorFails ==
  ASSUME CoreInv, NEW r \in Requests, VendorFails(r)
  PROVE  CoreInv'
<1>1. RestTyped'
  BY CountType DEF VendorFails, CoreInv, TypeOK, RestTyped, DramSealed
<1>2. MasterKept
  BY MasterStays DEF VendorFails
<1>3. QED BY <1>1, <1>2, AnswerStep DEF VendorFails, At, NewLate, ResponseStatuses, WriteStatuses

\* What the write back does to the Master.
LEMMA WriteBackKeeps ==
  ASSUME CoreInv, NEW r \in Requests, task[r].body # NoBody,
         \/ master' = master
         \/ master' = PutStart(master, Id(r), task[r].body.len, REPLICA_COUNT)
         \/ master' = PutEnd(master, Id(r))
         \/ master' = PutRevoke(master, Id(r))
  PROVE  MasterKept
<1>1. Id(r) \in Ids /\ task[r].body.len \in U64 /\ master \in MasterStates
  BY WriterKnown DEF CoreInv, TypeOK
<1>2. CASE master' = master
  BY <1>2, MasterStays
<1>3. CASE master' = PutStart(master, Id(r), task[r].body.len, REPLICA_COUNT)
  <2>1. SameObjects(master, master') \/ \E len, x : ReservedAt(master, master', Id(r), len, x)
    BY <1>1, <1>3, PutStartCase
  <2>2. QED BY <1>1, <2>1, MasterKeeps
<1>4. CASE master' = PutEnd(master, Id(r))
  <2>1. SameObjects(master, master') \/ (PutEndOk(master, Id(r)) /\ Restated(master, master', Id(r), "Committed"))
    BY <1>1, <1>4, PutEndCase
  <2>2. PutEndOk(master, Id(r)) => master.objects[Id(r)].status # "Absent"
    BY DEF PutEndOk
  <2>3. QED BY <1>1, <2>1, <2>2, MasterKeeps
<1>5. CASE master' = PutRevoke(master, Id(r))
  <2>1. SameObjects(master, master') \/ (PutRevokeOk(master, Id(r)) /\ Restated(master, master', Id(r), "Revoked"))
    BY <1>1, <1>5, PutRevokeCase
  <2>2. PutRevokeOk(master, Id(r)) => master.objects[Id(r)].status # "Absent"
    BY DEF PutRevokeOk
  <2>3. QED BY <1>1, <2>1, <2>2, MasterKeeps
<1>6. QED BY <1>2, <1>3, <1>4, <1>5

\* The answer of a task that tried to write its response.
LEMMA WroteStep ==
  ASSUME CoreInv, NEW r \in Requests, NEW write \in WriteStatuses, task[r].pc \in Busy,
         Wrote(r, write), req' = req, MasterKept, RestTyped', NewLate(r), UNCHANGED gatewayVars
  PROVE  CoreInv'
<1>1. Finish(r, "Miss", write, task[r].body) /\ task[r].body \in Bodies \cup {NoBody}
  BY TaskKnown DEF Wrote, Return, Tasks
<1>2. QED BY <1>1, AnswerStep DEF ResponseStatuses, CacheStatuses

\* put_start reserves a chunk, or the write back ends.
LEMMA CorePutStartReply ==
  ASSUME CoreInv, NEW r \in Requests, PutStartReply(r)
  PROVE  CoreInv'
<1>1. RestTyped'
  BY CountType DEF PutStartReply, Wrote, Return, CoreInv, TypeOK, RestTyped, DramSealed
<1>2. task[r].pc = "put_start" /\ task[r].body # NoBody
  BY TaskKnown DEF PutStartReply, At, FlowOk, Busy
<1>3. Id(r) \in Ids /\ task[r].body.len \in U64 /\ master \in MasterStates
  BY <1>2, WriterKnown DEF CoreInv, TypeOK
<1>4. MasterKept
  BY <1>2, WriteBackKeeps DEF PutStartReply
<1>5. CASE PutStartOk(master, Id(r), task[r].body.len, REPLICA_COUNT)
  <2>1. PICK x : ReservedAt(master, master', Id(r), task[r].body.len, x)
    BY <1>3, <1>5, PutStartCase DEF PutStartReply
  <2>2. PlacedIn(master'.segments, x) /\ FirstReplica(master'.objects[Id(r)]) = x
    BY <2>1, FirstReplicaOne DEF ReservedAt, PlacedIn
  <2>3. QED BY <1>1, <1>2, <1>4, <1>5, <2>2, TakeHandle DEF PutStartReply
<1>6. CASE ~PutStartOk(master, Id(r), task[r].body.len, REPLICA_COUNT)
  BY <1>1, <1>2, <1>4, <1>6, WroteStep DEF PutStartReply, Busy, WriteStatuses, NewLate
<1>7. QED BY <1>5, <1>6

\* A Store stays well formed when a response is written.
LEMMA StoreWriteType ==
  ASSUME CoreInv, NEW r \in Requests, task[r].body # NoBody
  PROVE  StoreWrite(r) \in [Nodes -> Drams(Bodies)] /\ \A n \in Nodes : Sealed(StoreWrite(r)[n])
<1> DEFINE h == task[r].handle
           b == task[r].body
           node == Serving(req[r]).nodes[h.node]
           new == WritePreallocated(dram[node], h.offset, h.len, b)
<1>1. dram \in [Nodes -> Drams(Bodies)] /\ \A n \in Nodes : Sealed(dram[n])
  BY DEF CoreInv, TypeOK, DramSealed
<1>2. CASE ~Configured(r)
  BY <1>1, <1>2 DEF StoreWrite
<1>3. CASE Configured(r)
  <2>1. StoreWrite(r) = [dram EXCEPT ![node] = new]
    BY <1>3 DEF StoreWrite
  <2>2. req[r] \in RequestKinds /\ req[r].gateway \in Gateways /\ task[r] \in Tasks
    BY TaskKnown, RequestAssumption
  <2>3. node \in Nodes
    BY <1>3, <2>2, StoreAssumption DEF Configured, Serving, Range
  <2>4. h.offset \in Nat /\ h.len \in Nat
    BY <2>2, U64MaxAssumption DEF Tasks, NoHandle, Replica, U64
  <2>5. b \in Bodies
    BY WriterKnown
  <2>6. new \in Drams(Bodies) /\ Sealed(new)
    BY <1>1, <2>3, <2>4, <2>5, WritePreallocatedType
  <2> HIDE DEF new, node
  <2>7. QED BY <1>1, <2>1, <2>3, <2>6
<1>4. QED BY <1>2, <1>3

\* The chunk is written, or the reservation is going to be revoked.
LEMMA CoreWriteReply ==
  ASSUME CoreInv, NEW r \in Requests, WriteReply(r)
  PROVE  CoreInv'
<1>1. task[r].pc = "write" /\ task[r].body # NoBody /\ task[r].handle.len > 0
  BY TaskKnown DEF WriteReply, At, FlowOk, Busy, Holding
<1>2. dram' = StoreWrite(r)
  BY DEF WriteReply
<1>3. RestTyped'
  BY <1>1, <1>2, StoreWriteType DEF WriteReply, CoreInv, TypeOK, RestTyped, DramSealed
<1>4. MasterKept
  BY MasterStays DEF WriteReply
<1>5. role' = role
  BY DEF WriteReply, gatewayVars
<1>6. \E pc \in {"put_end", "put_revoke"} : Goto(r, pc)
  BY DEF WriteReply
<1>7. \A pc \in {"put_end", "put_revoke"} : Moves(task[r], role[r], pc, role'[r])
  BY <1>1, <1>5 DEF Moves, Busy
<1>8. QED BY <1>3, <1>4, <1>5, <1>6, <1>7, MoveStep DEF WriteReply, NewLate, OthersKeepRole

\* put_end commits the object, or it is going to be revoked.
LEMMA CorePutEndReply ==
  ASSUME CoreInv, NEW r \in Requests, PutEndReply(r)
  PROVE  CoreInv'
<1>1. task[r].pc = "put_end" /\ task[r].body # NoBody /\ task[r].handle.len > 0
  BY TaskKnown DEF PutEndReply, At, FlowOk, Busy, Holding
<1>2. RestTyped'
  BY CountType DEF PutEndReply, Wrote, Return, CoreInv, TypeOK, RestTyped, DramSealed
<1>3. MasterKept
  BY <1>1, WriteBackKeeps DEF PutEndReply
<1>4. CASE PutEndOk(master, Id(r))
  BY <1>1, <1>2, <1>3, <1>4, WroteStep DEF PutEndReply, Busy, WriteStatuses, NewLate
<1>5. CASE ~PutEndOk(master, Id(r))
  <2>1. role' = role /\ Goto(r, "put_revoke")
    BY <1>5 DEF PutEndReply, gatewayVars
  <2>2. Moves(task[r], role[r], "put_revoke", role'[r])
    BY <1>1, <2>1 DEF Moves, Busy
  <2>3. QED BY <1>2, <1>3, <2>1, <2>2, MoveStep DEF PutEndReply, NewLate, OthersKeepRole
<1>6. QED BY <1>4, <1>5

\* The reservation is revoked.
LEMMA CorePutRevokeReply ==
  ASSUME CoreInv, NEW r \in Requests, PutRevokeReply(r)
  PROVE  CoreInv'
<1>1. task[r].pc = "put_revoke" /\ task[r].body # NoBody
  BY TaskKnown DEF PutRevokeReply, At, FlowOk, Busy
<1>2. RestTyped'
  BY CountType DEF PutRevokeReply, Wrote, Return, CoreInv, TypeOK, RestTyped, DramSealed
<1>3. MasterKept
  BY <1>1, WriteBackKeeps DEF PutRevokeReply
<1>4. QED BY <1>1, <1>2, <1>3, WroteStep DEF PutRevokeReply, Busy, WriteStatuses, NewLate

\* The singleflight variables stay of their types.
LEMMA RoleType ==
  ASSUME CoreInv
  PROVE  role \in [Requests -> SFP!Roles] /\ result \in [Requests -> Responses \cup {Nobody, Dropped}]
BY DEF CoreInv, SFP!SfInv, SFP!TypeOK

\* A leader or an over-capacity request hands its answer to singleflight.
LEMMA CorePublish ==
  ASSUME CoreInv, NEW r \in Requests, Publish(r)
  PROVE  CoreInv'
<1>1. RestTyped'
  BY DEF Publish, CoreInv, TypeOK, RestTyped, DramSealed
<1>2. MasterKept
  BY MasterStays DEF Publish
<1>3. task[r].resp \in Responses
  BY TaskKnown DEF Tasks
<1>4. SF!Next
  BY <1>3 DEF Publish, SF!Next
<1>5. OthersKeepRole(r)
  BY RoleType DEF Publish, OthersKeepRole, SF!PublishRemove, SF!SoloFinish
<1>6. \E pc : Goto(r, pc) /\ Moves(task[r], role[r], pc, role'[r])
  BY RoleType DEF Publish, At, Moves, SF!PublishRemove, SF!SoloFinish
<1>7. QED BY <1>1, <1>2, <1>4, <1>5, <1>6, MoveStep DEF Publish, NewLate

\* The leader sends its result to the waiters.
LEMMA CoreSend ==
  ASSUME CoreInv, NEW r \in Requests, Send(r)
  PROVE  CoreInv'
<1>1. RestTyped'
  BY DEF Send, CoreInv, TypeOK, RestTyped, DramSealed
<1>2. MasterKept
  BY MasterStays DEF Send
<1>3. SF!Next
  BY DEF Send, SF!Next
<1>4. OthersKeepRole(r)
  BY RoleType DEF Send, OthersKeepRole, SF!PublishSend
<1>5. Goto(r, "done") /\ Moves(task[r], role[r], "done", role'[r])
  BY RoleType DEF Send, At, Moves, SF!PublishSend
<1>6. QED BY <1>1, <1>2, <1>3, <1>4, <1>5, MoveStep DEF Send, NewLate

\* What a waiter answers with.
WaiterResponse(res) ==
  IF Usable(res) THEN [res EXCEPT !.write = "Skipped"] ELSE [NoResponse EXCEPT !.status = "LeaderFailed"]

\* The leader's response becomes the waiter's, without its write.
LEMMA WaiterResponseType ==
  ASSUME NEW res \in Responses \cup {Dropped}
  PROVE  /\ WaiterResponse(res) \in Responses /\ WaiterResponse(res).status # "None"
         /\ WaiterResponse(res).write = "Skipped"
         /\ Usable(res) => WaiterResponse(res).body = res.body /\ WaiterResponse(res).status = "Miss"
         /\ ~Usable(res) => WaiterResponse(res).body = NoBody /\ WaiterResponse(res).status = "LeaderFailed"
<1>1. CASE Usable(res)
  <2>1. res \in Responses /\ res.status = "Miss"
    BY <1>1 DEF Usable
  <2>2. QED BY <1>1, <2>1 DEF WaiterResponse, Responses, WriteStatuses
<1>2. CASE ~Usable(res)
  BY <1>2 DEF WaiterResponse, NoResponse, Responses, ResponseStatuses, WriteStatuses
<1>3. QED BY <1>1, <1>2

\* What a waiter receives is a response, or the error of a dropped leader.
LEMMA WaiterReceives ==
  ASSUME CoreInv, NEW r \in Requests, SF!WaitReceive(r) \/ SF!WaitClosed(r)
  PROVE  result'[r] \in Responses \cup {Dropped} /\ role'[r] = "done" /\ role[r] = "waiting"
<1>1. /\ result \in [Requests -> Responses \cup {Nobody, Dropped}]
      /\ channel \in [Requests -> [open : BOOLEAN, value : Responses \cup {Nobody}]]
      /\ source \in [Requests -> Requests \cup {Nobody}]
      /\ role \in [Requests -> SFP!Roles]
      /\ role[r] = "waiting" => source[r] # Nobody
  BY DEF CoreInv, SFP!SfInv, SFP!TypeOK, SFP!SourceState
<1>2. CASE SF!WaitReceive(r)
  <2>1. source[r] \in Requests
    BY <1>1, <1>2 DEF SF!WaitReceive
  <2>2. QED BY <1>1, <1>2, <2>1 DEF SF!WaitReceive
<1>3. CASE SF!WaitClosed(r)
  BY <1>1, <1>3 DEF SF!WaitClosed
<1>4. QED BY <1>2, <1>3

\* A waiter is answered.
LEMMA CoreWaitReply ==
  ASSUME CoreInv, NEW r \in Requests, WaitReply(r)
  PROVE  CoreInv'
<1>1. RestTyped'
  BY CountType DEF WaitReply, CoreInv, TypeOK, RestTyped, DramSealed
<1>2. MasterKept
  BY MasterStays DEF WaitReply
<1>3. SF!WaitReceive(r) \/ SF!WaitClosed(r)
  BY DEF WaitReply
<1>4. SF!Next
  BY <1>3 DEF SF!Next
<1>5. OthersKeepRole(r)
  BY <1>3, RoleType DEF OthersKeepRole, SF!WaitReceive, SF!WaitClosed
<1>6. result'[r] \in Responses \cup {Dropped} /\ role'[r] = "done" /\ role[r] = "waiting"
  BY <1>3, WaiterReceives
<1> DEFINE response == WaiterResponse(result'[r])
           t == [task[r] EXCEPT !.pc = "done", !.resp = response]
<1>7. response \in Responses /\ response.status # "None"
  BY <1>6, WaiterResponseType
<1>8. task' = [task EXCEPT ![r].pc = "done", ![r].resp = response]
  BY DEF WaitReply, WaiterResponse
<1> HIDE DEF response
<1>9. task[r] \in Tasks /\ FlowOk(req[r], task[r], role[r]) /\ task[r].pc = "wait"
  BY TaskKnown DEF WaitReply, At
<1>10. t \in Tasks
  BY <1>7, <1>9 DEF Tasks, PCs
<1>11. /\ t.pc = "done" /\ t.resp = response /\ t.body = task[r].body /\ t.handle = task[r].handle
       /\ t.served = task[r].served
  BY <1>9 DEF Tasks
<1>12. Becomes(r, t)
  BY <1>8, <1>10 DEF Becomes, CoreInv, TypeOK
<1> HIDE DEF t
<1>13. FlowOk(req[r], t, role'[r])
  BY <1>6, <1>7, <1>9, <1>11 DEF FlowOk, RolesAt, Ended, Busy, Holding
<1>14. req' = req /\ late' = late
  BY DEF WaitReply
<1>15. QED BY <1>1, <1>2, <1>4, <1>5, <1>11, <1>12, <1>13, <1>14, CoreKept DEF HandleOf, LateOf

\* A call that its task gives up is one that writes a response.
LEMMA AbandonLate ==
  ASSUME CoreInv, NEW r \in Requests, Abandon(r)
  PROVE  NewLate(r)
<1>1. FlowOk(req[r], task[r], role[r])
  BY TaskKnown
<1>2. task[r].pc \in Updates => task[r].body # NoBody
  BY <1>1 DEF FlowOk, Updates, Busy
<1>3. QED BY <1>2 DEF Abandon, NewLate

\* The number of faults stays within its bound.
LEMMA FaultsType ==
  ASSUME CoreInv, faults < MaxFaults, faults' = faults + 1
  PROVE  faults' \in 0..MaxFaults
BY BoundsAssumption DEF CoreInv, TypeOK

\* A call fails: the task answers with an error, or goes on to revoke.
LEMMA CoreCallFails ==
  ASSUME CoreInv, NEW r \in Requests, CallFails(r)
  PROVE  CoreInv'
<1>1. RestTyped'
  <2>1. metrics' \in [Gateways -> [Counters -> Nat]]
    BY CountType DEF CallFails, Calls, OnError, Wrote, Return, CoreInv, TypeOK
  <2>2. QED BY <2>1, FaultsType DEF CallFails, CoreInv, TypeOK, RestTyped, DramSealed
<1>2. MasterKept
  BY MasterStays DEF CallFails
<1>3. NewLate(r) /\ req' = req /\ UNCHANGED gatewayVars /\ role' = role
  BY AbandonLate DEF CallFails, gatewayVars
<1>4. CASE task[r].pc \in {"get", "read"}
  <2>1. Finish(r, "CacheError", "Skipped", NoBody)
    BY <1>4 DEF CallFails, OnError, Return
  <2>2. QED BY <1>1, <1>2, <1>3, <1>4, <2>1, AnswerStep DEF ResponseStatuses, WriteStatuses
<1>5. CASE task[r].pc \in {"put_start", "put_revoke"}
  <2>1. Wrote(r, "Failed")
    BY <1>5 DEF CallFails, OnError
  <2>2. QED BY <1>1, <1>2, <1>3, <1>5, <2>1, WroteStep DEF WriteStatuses, Busy
<1>6. CASE task[r].pc \in {"write", "put_end"}
  <2>1. Goto(r, "put_revoke")
    BY <1>6 DEF CallFails, OnError
  <2>2. task[r].handle.len > 0
    BY <1>6, TaskKnown DEF FlowOk, Holding
  <2>3. Moves(task[r], role[r], "put_revoke", role'[r])
    BY <1>3, <1>6, <2>2 DEF Moves, Busy
  <2>4. QED BY <1>1, <1>2, <1>3, <2>1, <2>3, MoveStep DEF OthersKeepRole
<1>7. QED BY <1>4, <1>5, <1>6 DEF CallFails, Calls

\* A task is dropped.
LEMMA CoreCancel ==
  ASSUME CoreInv, NEW r \in Requests, Cancel(r)
  PROVE  CoreInv'
<1>1. RestTyped'
  BY FaultsType DEF Cancel, CoreInv, TypeOK, RestTyped, DramSealed
<1>2. MasterKept
  BY MasterStays DEF Cancel
<1>3. NewLate(r) /\ req' = req /\ Goto(r, "cancelled") /\ task[r].pc \in Awaits
  BY AbandonLate DEF Cancel
<1>4. SF!Next \/ UNCHANGED gatewayVars
  BY DEF Cancel, SF!Next
<1>5. OthersKeepRole(r)
  BY RoleType DEF Cancel, OthersKeepRole, SF!CancelLeader, SF!CancelWaiter, gatewayVars
<1>6. role[r] \in RolesAt(task[r].pc)
  BY TaskKnown DEF FlowOk
<1>7. role[r] \in {"idle", "solo", "leading", "waiting"}
  BY <1>3, <1>6 DEF RolesAt, Awaits, Busy
<1>8. Moves(task[r], role[r], "cancelled", role'[r])
  BY <1>3, <1>7, RoleType DEF Cancel, Moves, SF!CancelLeader, SF!CancelWaiter, gatewayVars
<1>9. QED BY <1>1, <1>2, <1>3, <1>4, <1>5, <1>8, MoveStep

\* A step of the Master or of a Store on its own.
LEMMA ServerStep ==
  ASSUME CoreInv, UNCHANGED <<req, task, gatewayVars>>, late' \subseteq late, MasterKept, RestTyped'
  PROVE  CoreInv'
<1>1. SFP!SfInv'
  BY SfKept DEF CoreInv
<1>2. TypeOK'
  BY DEF CoreInv, TypeOK, RestTyped, MasterKept
<1>3. KeysFixed' /\ FlowInv'
  BY DEF CoreInv, KeysFixed, FlowInv, gatewayVars
<1>4. LateInv'
  BY DEF CoreInv, LateInv
<1>5. HandlesPlaced'
  BY DEF CoreInv, HandlesPlaced, MasterKept
<1>6. QED BY <1>1, <1>2, <1>3, <1>4, <1>5 DEF CoreInv, RestTyped, MasterKept

\* A late call changes the Master or a Store as it would have done in time.
LEMMA CoreLateCall ==
  ASSUME CoreInv, NEW c \in late, LateCall(c)
  PROVE  CoreInv'
<1>1. c.r \in Requests /\ c.op \in Updates /\ task[c.r].body # NoBody
  BY DEF CoreInv, TypeOK, LateInv
<1>2. MasterKept
  BY <1>1, WriteBackKeeps DEF LateCall, Updates
<1>3. dram' \in [Nodes -> Drams(Bodies)] /\ DramSealed'
  <2>1. dram' = dram \/ dram' = StoreWrite(c.r)
    BY DEF LateCall
  <2>2. QED BY <1>1, <2>1, StoreWriteType DEF CoreInv, TypeOK, DramSealed
<1>4. RestTyped'
  BY <1>3 DEF LateCall, CoreInv, TypeOK, RestTyped
<1>5. UNCHANGED <<req, task, gatewayVars>> /\ late' \subseteq late
  BY DEF LateCall
<1>6. QED BY <1>2, <1>4, <1>5, ServerStep

\* An operator removes an object.
LEMMA CoreRemoveObject ==
  ASSUME CoreInv, NEW id \in Ids, RemoveObject(id)
  PROVE  CoreInv'
<1>1. Forgotten(master, master', id)
  BY RemoveCase DEF RemoveObject, CoreInv, TypeOK
<1>2. MasterKept
  BY <1>1, MasterKeeps
<1>3. removes' \in 0..MaxRemoves
  BY BoundsAssumption DEF RemoveObject, CoreInv, TypeOK
<1>4. RestTyped'
  BY <1>3 DEF RemoveObject, CoreInv, TypeOK, RestTyped, DramSealed
<1>5. UNCHANGED <<req, task, gatewayVars>> /\ late' \subseteq late
  BY DEF RemoveObject
<1>6. QED BY <1>2, <1>4, <1>5, ServerStep

\* The state in which the system starts.
LEMMA CoreInit == Init => CoreInv
<1> SUFFICES ASSUME Init PROVE CoreInv
  OBVIOUS
<1>1. SFP!SfInv
  <2>1. SFP!Init
    BY DEF Init, SF!Init, SFP!Init, SF!NoEntry, SFP!NoEntry
  <2>2. QED BY <2>1, SfAssumptions, SFP!SfInit
<1> DEFINE segs == [i \in DOMAIN Layout |-> [node |-> Layout[i][1], len |-> Layout[i][2], next |-> 0]]
<1>2. segs \in Seq(Segment)
  <2>1. Len(Layout) \in Nat /\ DOMAIN Layout = 1..Len(Layout)
    BY StoreAssumption
  <2>2. \A i \in 1..Len(Layout) : Layout[i] \in Nodes \X U64
    BY StoreAssumption
  <2>3. \A i \in 1..Len(Layout) : [node |-> Layout[i][1], len |-> Layout[i][2], next |-> 0] \in Segment
    BY <2>2, U64MaxAssumption DEF Segment, U64
  <2>4. segs \in [1..Len(Layout) -> Segment]
    BY <2>1, <2>3
  <2>5. QED BY <2>1, <2>4
<1>3. master = [NewMaster EXCEPT !.segments = segs]
  BY DEF Init
<1> HIDE DEF segs
<1>4. master \in MasterStates /\ master.objects = [id \in Ids |-> NoObject]
  <2>1. master \in MasterStates
    BY <1>2, <1>3, NewMasterType DEF MasterStates
  <2>2. QED BY <1>3, <2>1 DEF NewMaster
<1>5. OneReplica(master)
  BY <1>4 DEF OneReplica, NoObject
<1>6. dram \in [Nodes -> Drams(Bodies)] /\ DramSealed
  BY EmptyDramType DEF Init, DramSealed
<1> DEFINE t0 == [pc |-> "start", served |-> "None", handle |-> NoHandle,
                  body |-> NoBody, resp |-> NoResponse]
<1>7. t0 \in Tasks
  BY DEF Tasks, PCs, NoResponse, Responses, ResponseStatuses, WriteStatuses
<1>8. task = [r \in Requests |-> t0]
  BY DEF Init
<1>9. NoHandle.len = 0 /\ role = [r \in Requests |-> "idle"]
  BY DEF NoHandle, Init, SF!Init
<1>10. t0.pc = "start" /\ t0.served = "None" /\ t0.handle = NoHandle /\ t0.body = NoBody /\ t0.resp = NoResponse
  OBVIOUS
<1> HIDE DEF t0
<1>11. \A q : FlowOk(q, t0, "idle")
  BY <1>10 DEF FlowOk, RolesAt, Busy, Ended, Holding
<1>12. FlowInv /\ HandlesPlaced
  BY <1>8, <1>9, <1>10, <1>11 DEF FlowInv, HandlesPlaced
<1>13. LateInv /\ KeysFixed
  BY DEF Init, LateInv, KeysFixed
<1>14. TypeOK
  BY <1>4, <1>6, <1>7, <1>8, BoundsAssumption DEF Init, TypeOK
<1>15. QED BY <1>1, <1>5, <1>6, <1>12, <1>13, <1>14 DEF CoreInv

\* Every step of the system keeps the invariant.
LEMMA CoreStep ==
  ASSUME CoreInv, [Next]_vars
  PROVE  CoreInv'
<1>1. CASE UNCHANGED vars
  <2>1. UNCHANGED <<req, task, gatewayVars>> /\ late' \subseteq late /\ master' = master
    BY <1>1 DEF vars
  <2>2. RestTyped'
    BY <1>1 DEF vars, CoreInv, TypeOK, RestTyped, DramSealed
  <2>3. QED BY <2>1, <2>2, MasterStays, ServerStep
<1>2. ASSUME NEW r \in Requests, Step(r) PROVE CoreInv'
  BY <1>2, CoreRefuse, CoreStart, CoreGetReply, CoreReadReply, CoreBegin, CoreVendorReply,
     CorePutStartReply, CoreWriteReply, CorePutEndReply, CorePutRevokeReply, CorePublish, CoreSend,
     CoreWaitReply DEF Step
<1>3. ASSUME NEW r \in Requests, VendorFails(r) \/ CallFails(r) \/ Cancel(r) PROVE CoreInv'
  BY <1>3, CoreVendorFails, CoreCallFails, CoreCancel
<1>4. QED BY <1>1, <1>2, <1>3, CoreLateCall, CoreRemoveObject DEF Next

\* The core invariant holds throughout, with TypeOK among its conjuncts.
THEOREM FlowTypeCorrect == Spec => []TypeOK
<1>1. CoreInv => TypeOK
  BY DEF CoreInv
<1>2. QED BY <1>1, CoreInit, CoreStep, PTL DEF Spec

\* Whatever is dropped, fails or arrives late, no singleflight entry outlives the
\* task that leads it and every waiting task has a channel that somebody serves.
THEOREM CoalescingAlwaysSound == Spec => []CoalescingSound
<1>1. CoreInv => CoalescingSound
  <2> SUFFICES ASSUME CoreInv PROVE CoalescingSound
    OBVIOUS
  <2>1. SF!EntryHasLeader
    BY DEF CoreInv, SFP!SfInv, SFP!EntryHasLeader, SF!EntryHasLeader
  <2>2. SF!WaitersServed
    BY DEF CoreInv, SFP!SfInv, SFP!TypeOK, SFP!LeaderState, SFP!SourceState, SF!WaitersServed
  <2>3. ASSUME NEW r \in Requests
        PROVE  /\ role[r] = "leading" =>
                    task[r].pc \in {"vendor", "put_start", "write", "put_end", "put_revoke", "finish"}
               /\ role[r] = "waiting" <=> task[r].pc = "wait"
    <3>1. task[r].pc \in PCs /\ role[r] \in RolesAt(task[r].pc)
      BY TaskKnown DEF Tasks, FlowOk
    <3>2. QED BY <3>1 DEF RolesAt, Busy, PCs
  <2>4. QED BY <2>1, <2>2, <2>3 DEF CoalescingSound
<1>2. QED BY <1>1, CoreInit, CoreStep, PTL DEF Spec

\* A waiter's leader serves a request of its gateway, for its id, in its mode.
LEMMA SourceShares ==
  ASSUME CoreInv, NEW r \in Requests, source[r] # Nobody
  PROVE  /\ source[r] \in Requests
         /\ WriteMode(req[r]) = WriteMode(req[source[r]])
         /\ Id(r) = Id(source[r])
         /\ req[r].gateway = req[source[r]].gateway
<1>1. source[r] \in Requests /\ sfKey[source[r]] = sfKey[r]
  BY DEF CoreInv, SFP!SfInv, SFP!TypeOK, SFP!SourceState
<1>2. SfKeyOf(req[source[r]]) = SfKeyOf(req[r])
  BY <1>1 DEF CoreInv, KeysFixed
<1>3. QED BY <1>1, <1>2 DEF SfKeyOf, Id

\* A waiter shares the response of a leader that treats the cache as it would
\* itself, on its own gateway and for its own id.
THEOREM WaitersAlwaysShareMode == Spec => []WaitersShareMode
<1>1. CoreInv => WaitersShareMode
  BY SourceShares DEF WaitersShareMode
<1>2. QED BY <1>1, CoreInit, CoreStep, PTL DEF Spec

-----------------------------------------------------------------------------
(* What a step does to the tasks, in the terms that the invariants about   *)
(* responses and chunks need.                                              *)

\* A response that the vendor gave to r.
Own(r, b) == b \in Bodies /\ b.id = Id(r) /\ b.by = r /\ b.stream = Streaming(req[r])

\* A response that r reads in its Store.
Hit(r, b) ==
  /\ task[r].pc = "read"
  /\ b \in Bodies
  /\ b = Readable(ReadFrom(r), task[r].handle)
  /\ b = dram[ReadFrom(r)].allocations[task[r].handle.offset].checksum
  /\ Streaming(req[r]) => b.stream

\* Where handle, response to write, and answer of r come from.
HandleEffect(r) ==
  \/ task'[r].handle = task[r].handle
  \/ /\ task[r].pc \in {"get", "put_start"}
     /\ Served(req[r])
     /\ master'.objects[Id(r)].status # "Absent"
     /\ task'[r].handle \in master'.objects[Id(r)].replicas

BodyEffect(r) ==
  \/ task'[r].body = task[r].body
  \/ task[r].pc = "vendor" /\ task[r].body = NoBody /\ Own(r, task'[r].body)

AnswerEffect(r) ==
  \/ task'[r].resp.body = task[r].resp.body
  \/ task'[r].resp.body = NoBody
  \/ /\ Served(req[r])
     /\ \/ task'[r].resp.body = task[r].body
        \/ Own(r, task'[r].resp.body)
        \/ Hit(r, task'[r].resp.body)
        \/ /\ role[r] = "waiting" /\ role'[r] = "done" /\ source'[r] = source[r]
           /\ result'[r] \in Responses /\ result'[r].status = "Miss"
           /\ task'[r].resp.body = result'[r].body

ResultEffect(r) ==
  \/ source'[r] # Nobody
  \/ /\ UNCHANGED <<result[r], source[r]>>
     /\ \/ task[r].pc \notin {"publish", "done"}
        \/ task'[r].resp = task[r].resp /\ task'[r].pc \in {"publish", "done"}
  \/ result'[r] = task'[r].resp /\ source'[r] = source[r] /\ task'[r].pc \in {"publish", "done"}

TaskEffects(r) == HandleEffect(r) /\ BodyEffect(r) /\ AnswerEffect(r) /\ ResultEffect(r)

OthersSame(r) ==
  \A s \in Requests \ {r} : UNCHANGED <<task[s], result[s], source[s]>>

\* A step of r away from the write back. It claims no new commit.
Writing == {"write", "put_end", "put_revoke"}
Aside(r) ==
  /\ SameObjects(master, master')
  /\ UNCHANGED <<req, dram, late, faults, removes>>
  /\ OthersSame(r)
  /\ task[r].pc \notin Busy
  /\ task'[r].pc \notin Writing
  /\ task[r].body # NoBody => task'[r].pc # "put_start"
  /\ task'[r].resp.write = "Committed" => task'[r].resp = task[r].resp
  /\ TaskEffects(r)

\* An operation that does not touch the Master.
LEMMA MasterSame ==
  ASSUME CoreInv, master' = master
  PROVE  SameObjects(master, master')
BY DEF CoreInv, TypeOK, SameObjects

\* The record that a task becomes.
LEMMA BecomesMeans ==
  ASSUME CoreInv, NEW r \in Requests, NEW t, Becomes(r, t),
         \A s \in Requests \ {r} : UNCHANGED <<result[s], source[s]>>
  PROVE  task'[r] = t /\ OthersSame(r)
BY DEF CoreInv, TypeOK, Becomes, OthersSame

\* An answer, as an effect on the task.
LEMMA AnswerEffects ==
  ASSUME CoreInv, NEW r \in Requests, NEW status \in ResponseStatuses, NEW write \in WriteStatuses,
         NEW body \in Bodies \cup {NoBody}, Finish(r, status, write, body), UNCHANGED gatewayVars,
         task[r].pc \notin {"publish", "done"}
  PROVE  /\ OthersSame(r)
         /\ task'[r].pc \in {"finish", "done"}
         /\ task'[r].handle = task[r].handle
         /\ task'[r].body = task[r].body
         /\ task'[r].resp = [status |-> status, write |-> write, body |-> body]
         /\ task'[r].served = task[r].served
         /\ HandleEffect(r) /\ BodyEffect(r) /\ ResultEffect(r)
<1> DEFINE response == [status |-> status, write |-> write, body |-> body]
           t == Answered(task[r], role[r], response)
<1>1. Becomes(r, t)
  BY FinishTask DEF CoreInv
<1>2. task[r] \in Tasks
  BY TaskKnown
<1>3. /\ t.pc \in {"finish", "done"} /\ t.resp = response /\ t.body = task[r].body
      /\ t.handle = task[r].handle /\ t.served = task[r].served
  BY <1>2 DEF Answered, Tasks
<1> HIDE DEF t, response
<1>4. task'[r] = t /\ OthersSame(r)
  BY <1>1, BecomesMeans DEF gatewayVars
<1>5. HandleEffect(r) /\ BodyEffect(r) /\ ResultEffect(r)
  BY <1>3, <1>4 DEF HandleEffect, BodyEffect, ResultEffect, gatewayVars
<1>6. QED BY <1>3, <1>4, <1>5 DEF response

\* Following a route, as an effect on the task.
LEMMA FollowEffects ==
  ASSUME CoreInv, NEW r \in Requests, NEW to, RouteOk(req[r], to), Follow(r, to),
         UNCHANGED gatewayVars, task[r].pc \in {"start", "get", "read"}
  PROVE  /\ OthersSame(r)
         /\ task'[r].pc \notin Busy
         /\ task'[r].resp.write # "Committed"
         /\ task'[r].handle = task[r].handle
         /\ task'[r].body = task[r].body
         /\ task'[r].resp.body = NoBody
         /\ TaskEffects(r)
<1> DEFINE t == Followed(task[r], to)
           response == [task[r].resp EXCEPT !.status = IF to.pc = "done" THEN to.status ELSE "None"]
<1>1. Becomes(r, t)
  BY FollowTask DEF CoreInv, RouteOk, PCs
<1>2. task[r] \in Tasks /\ task[r].resp = NoResponse
  BY TaskKnown DEF FlowOk, Ended
<1>3. response.write = "Skipped" /\ response.body = NoBody
  BY <1>2 DEF NoResponse
<1>4. t = [task[r] EXCEPT !.pc = to.pc, !.served = to.status, !.resp = response]
  BY DEF Followed
<1> HIDE DEF response
<1>5. t.pc = to.pc /\ t.handle = task[r].handle /\ t.body = task[r].body /\ t.resp = response
  BY <1>2, <1>4 DEF Tasks
<1> HIDE DEF t
<1>6. task'[r] = t /\ OthersSame(r)
  BY <1>1, BecomesMeans DEF gatewayVars
<1>7. TaskEffects(r)
  BY <1>3, <1>5, <1>6
  DEF TaskEffects, HandleEffect, BodyEffect, AnswerEffect, ResultEffect, gatewayVars
<1>8. QED BY <1>3, <1>5, <1>6, <1>7 DEF RouteOk, Busy

\* Moving on, as an effect on the task.
LEMMA MoveEffects ==
  ASSUME CoreInv, NEW r \in Requests, NEW pc \in PCs, Goto(r, pc),
         \A s \in Requests \ {r} : UNCHANGED <<result[s], source[s]>>
  PROVE  /\ OthersSame(r)
         /\ task'[r].pc = pc
         /\ task'[r].handle = task[r].handle
         /\ task'[r].body = task[r].body
         /\ task'[r].resp = task[r].resp
         /\ HandleEffect(r) /\ BodyEffect(r) /\ AnswerEffect(r)
<1> DEFINE t == Moved(task[r], pc)
<1>1. Becomes(r, t)
  BY GotoTask DEF CoreInv
<1>2. t.pc = pc /\ t.handle = task[r].handle /\ t.body = task[r].body /\ t.resp = task[r].resp
  BY TaskKnown DEF Moved, Tasks
<1> HIDE DEF t
<1>3. task'[r] = t /\ OthersSame(r)
  BY <1>1, BecomesMeans
<1>4. QED BY <1>2, <1>3 DEF HandleEffect, BodyEffect, AnswerEffect

\* A request is refused, or routed.
LEMMA AsideStart ==
  ASSUME CoreInv, NEW r \in Requests, Refuse(r) \/ Start(r)
  PROVE  Aside(r)
<1>1. SameObjects(master, master') /\ UNCHANGED <<req, dram, late, faults, removes>> /\ task[r].pc = "start"
  BY MasterSame DEF Refuse, Start, At
<1>2. CASE Refuse(r)
  <2>1. /\ OthersSame(r)
        /\ task'[r].pc \in {"finish", "done"}
        /\ task'[r].resp = [status |-> "Rejected", write |-> "Skipped", body |-> NoBody]
        /\ HandleEffect(r) /\ BodyEffect(r) /\ ResultEffect(r)
    BY <1>1, <1>2, AnswerEffects DEF Refuse, ResponseStatuses, WriteStatuses
  <2>2. QED BY <1>1, <2>1 DEF Aside, TaskEffects, AnswerEffect, Busy, Writing
<1>3. CASE Start(r)
  <2>1. RouteOk(req[r], Route(req[r])) /\ Follow(r, Route(req[r])) /\ UNCHANGED gatewayVars
    BY <1>3, RoutesOk DEF Start
  <2>2. /\ OthersSame(r) /\ task'[r].pc \notin Busy /\ task'[r].resp.write # "Committed" /\ TaskEffects(r)
    BY <1>1, <2>1, FollowEffects
  <2>3. QED BY <1>1, <2>2 DEF Aside, Busy, Writing
<1>4. QED BY <1>2, <1>3

\* A lookup that finds the object: the task takes the handle of its chunk.
LEMMA GetFinds ==
  ASSUME CoreInv, NEW r \in Requests, GetReply(r), GetReplicaListOk(master, Id(r))
  PROVE  /\ Aside(r)
         /\ task'[r].pc = "read"
         /\ task'[r].resp = task[r].resp
         /\ master.objects[Id(r)].replicas = {task'[r].handle}
<1>1. Served(req[r]) /\ task[r].pc = "get" /\ task[r] \in Tasks /\ task[r].resp = NoResponse
  BY TaskKnown DEF GetReply, At, FlowOk, Cacheable, Ended
<1>2. Id(r) \in Ids /\ master \in MasterStates /\ OneReplica(master)
  BY <1>1, IdKnown DEF CoreInv, TypeOK
<1>3. SameObjects(master, master') /\ UNCHANGED <<req, dram, late, faults, removes>> /\ UNCHANGED gatewayVars
  BY <1>2, GetReplicaListCase DEF GetReply
<1>4. PICK x : master.objects[Id(r)].replicas = {x} /\ PlacedIn(master.segments, x)
  BY <1>2 DEF OneReplica, GetReplicaListOk
<1>5. FirstReplica(master.objects[Id(r)]) = x /\ x \in Replica
  BY <1>4, FirstReplicaOne DEF PlacedIn
<1> DEFINE t == [task[r] EXCEPT !.pc = "read", !.handle = x]
<1>6. task' = [task EXCEPT ![r].pc = "read", ![r].handle = x]
  BY <1>5 DEF GetReply
<1>7. t \in Tasks
  BY <1>1, <1>5 DEF Tasks, PCs
<1>8. t.pc = "read" /\ t.handle = x /\ t.body = task[r].body /\ t.resp = task[r].resp
  BY <1>1 DEF Tasks
<1>9. Becomes(r, t)
  BY <1>6, <1>7 DEF Becomes, CoreInv, TypeOK
<1> HIDE DEF t
<1>10. task'[r] = t /\ OthersSame(r)
  BY <1>3, <1>9, BecomesMeans DEF gatewayVars
<1>11. HandleEffect(r)
  BY <1>1, <1>3, <1>4, <1>8, <1>10 DEF HandleEffect, SameObjects, GetReplicaListOk
<1>12. TaskEffects(r)
  BY <1>1, <1>3, <1>8, <1>10, <1>11 DEF TaskEffects, BodyEffect, AnswerEffect, ResultEffect, gatewayVars
<1>13. Aside(r)
  BY <1>1, <1>3, <1>8, <1>10, <1>12 DEF Aside, Busy, Writing, NoResponse
<1>14. QED BY <1>4, <1>8, <1>10, <1>13

\* A lookup, and what comes of reading the chunk.
LEMMA AsideRead ==
  ASSUME CoreInv, NEW r \in Requests, GetReply(r) \/ ReadReply(r)
  PROVE  Aside(r)
<1>1. Cacheable(req[r]) /\ Served(req[r]) /\ task[r].pc \in {"get", "read"}
  BY TaskKnown DEF GetReply, ReadReply, At, FlowOk, Cacheable
<1>2. SameObjects(master, master') /\ UNCHANGED <<req, dram, late, faults, removes>> /\ UNCHANGED gatewayVars
  <2>1. Id(r) \in Ids /\ master \in MasterStates
    BY <1>1, IdKnown DEF CoreInv, TypeOK
  <2>2. QED BY <2>1, GetReplicaListCase, MasterSame DEF GetReply, ReadReply
<1>3. CASE Follow(r, RouteMiss(req[r]))
  <2>1. RouteOk(req[r], RouteMiss(req[r]))
    BY <1>1, RoutesOk
  <2>2. OthersSame(r) /\ task'[r].pc \notin Busy /\ task'[r].resp.write # "Committed" /\ TaskEffects(r)
    BY <1>1, <1>2, <1>3, <2>1, FollowEffects
  <2>3. QED BY <1>1, <1>2, <2>2 DEF Aside, Busy, Writing
<1>4. ASSUME NEW status \in ResponseStatuses, NEW body \in Bodies \cup {NoBody},
             body = NoBody \/ Hit(r, body), Return(r, status, "Skipped", body)
      PROVE  Aside(r)
  <2>1. Finish(r, status, "Skipped", body) /\ "Skipped" \in WriteStatuses
    BY <1>4 DEF Return, WriteStatuses
  <2>2. /\ OthersSame(r)
        /\ task'[r].pc \in {"finish", "done"}
        /\ task'[r].resp = [status |-> status, write |-> "Skipped", body |-> body]
        /\ HandleEffect(r) /\ BodyEffect(r) /\ ResultEffect(r)
    BY <1>1, <1>2, <2>1, AnswerEffects
  <2>3. AnswerEffect(r)
    BY <1>1, <1>4, <2>2 DEF AnswerEffect
  <2>4. QED BY <1>1, <1>2, <2>2, <2>3 DEF Aside, TaskEffects, Busy, Writing
<1>5. CASE GetReply(r)
  BY <1>3, <1>5, GetFinds DEF GetReply
<1>6. CASE ReadReply(r)
  <2> DEFINE outcome == ReadOutcome(dram[ReadFrom(r)], task[r].handle.offset, task[r].handle.len)
             b == ReadContent(dram[ReadFrom(r)], task[r].handle.offset, task[r].handle.len)
  <2>1. CASE outcome # "Ok"
    BY <1>4, <1>6, <2>1 DEF ReadReply, ResponseStatuses
  <2>2. CASE outcome = "Ok" /\ Streaming(req[r]) /\ ~b.stream
    BY <1>3, <1>6, <2>2 DEF ReadReply
  <2>3. CASE outcome = "Ok" /\ ~(Streaming(req[r]) /\ ~b.stream)
    <3>1. Return(r, "Hit", "Skipped", b)
      BY <1>6, <2>3 DEF ReadReply
    <3>2. task[r].pc = "read"
      BY <1>6 DEF ReadReply, At
    <3>3. b \in Bodies /\ b = dram[ReadFrom(r)].allocations[task[r].handle.offset].checksum
      BY <2>3, <3>2, BodyRead
    <3>4. b = Readable(ReadFrom(r), task[r].handle)
      BY <2>3 DEF Readable
    <3>5. Streaming(req[r]) => b.stream
      BY <2>3
    <3> HIDE DEF b
    <3>6. Hit(r, b)
      BY <3>2, <3>3, <3>4, <3>5 DEF Hit
    <3>7. "Hit" \in ResponseStatuses
      BY DEF ResponseStatuses, CacheStatuses
    <3>8. QED BY <1>4, <3>1, <3>3, <3>6, <3>7
  <2>4. QED BY <2>1, <2>2, <2>3
<1>7. QED BY <1>5, <1>6

\* begin changes who waits for whom.
LEMMA AsideBegin ==
  ASSUME CoreInv, NEW r \in Requests, Begin(r)
  PROVE  Aside(r)
<1>1. SameObjects(master, master') /\ UNCHANGED <<req, dram, late, faults, removes>> /\ task[r].pc = "begin"
  BY MasterSame DEF Begin, At
<1>2. /\ result' = result
      /\ source \in [Requests -> Requests \cup {Nobody}]
      /\ source' = source \/ \E l : source' = [source EXCEPT ![r] = l]
  BY DEF Begin, SF!BeginLeader, SF!BeginWaiter, SF!BeginOverCapacity, CoreInv, SFP!SfInv, SFP!TypeOK
<1>3. \A s \in Requests \ {r} : UNCHANGED <<result[s], source[s]>>
  BY <1>2
<1>4. ResultEffect(r)
  <2>1. \/ source' = source
        \/ source' = [source EXCEPT ![r] = inFlight[sfKey[r]].leader] /\ inFlight[sfKey[r]].leader # Nobody
    BY DEF Begin, SF!BeginLeader, SF!BeginWaiter, SF!BeginOverCapacity
  <2>2. source'[r] = source[r] \/ source'[r] # Nobody
    BY <1>2, <2>1
  <2>3. QED BY <1>1, <1>2, <2>2 DEF ResultEffect
<1>5. PICK pc \in {"vendor", "wait"} : Goto(r, pc)
  BY DEF Begin
<1>6. /\ OthersSame(r) /\ task'[r].pc = pc /\ task'[r].resp = task[r].resp
      /\ HandleEffect(r) /\ BodyEffect(r) /\ AnswerEffect(r)
  BY <1>3, <1>5, MoveEffects DEF PCs
<1>7. QED BY <1>1, <1>4, <1>5, <1>6 DEF Aside, TaskEffects, Busy, Writing

\* The vendor fails.
LEMMA AsideVendorFails ==
  ASSUME CoreInv, NEW r \in Requests, VendorFails(r)
  PROVE  Aside(r)
<1>1. /\ SameObjects(master, master') /\ UNCHANGED <<req, dram, late, faults, removes>>
      /\ UNCHANGED gatewayVars /\ task[r].pc = "vendor"
  BY MasterSame DEF VendorFails, At
<1>2. /\ OthersSame(r)
      /\ task'[r].pc \in {"finish", "done"}
      /\ task'[r].resp = [status |-> "VendorError", write |-> "Skipped", body |-> NoBody]
      /\ HandleEffect(r) /\ BodyEffect(r) /\ ResultEffect(r)
  BY <1>1, AnswerEffects DEF VendorFails, ResponseStatuses, WriteStatuses
<1>3. QED BY <1>1, <1>2 DEF Aside, TaskEffects, AnswerEffect, Busy, Writing

\* The vendor answers, with what the request asked for.
LEMMA AsideVendor ==
  ASSUME CoreInv, NEW r \in Requests, NEW len \in BodyLens, VendorReply(r, len)
  PROVE  Aside(r)
<1> DEFINE b == [id |-> Id(r), by |-> r, stream |-> Streaming(req[r]), len |-> len]
           write == IF task[r].served = "Degraded" THEN "Failed" ELSE "Skipped"
<1>1. /\ SameObjects(master, master') /\ UNCHANGED <<req, dram, late, faults, removes>>
      /\ UNCHANGED gatewayVars /\ task[r].pc = "vendor"
  BY MasterSame DEF VendorReply, At
<1>2. task[r] \in Tasks /\ FlowOk(req[r], task[r], role[r])
  BY TaskKnown
<1>3. Served(req[r]) /\ task[r].body = NoBody /\ task[r].resp = NoResponse
  BY <1>1, <1>2 DEF FlowOk, Busy, Ended
<1>4. b \in Bodies /\ write \in WriteStatuses \ {"Committed"}
  BY <1>3, VendorBody DEF WriteStatuses
<1>5. Own(r, b)
  BY <1>4 DEF Own
<1> HIDE DEF b, write
<1>6. ASSUME NEW status \in ResponseStatuses, NEW w \in WriteStatuses \ {"Committed"},
             NEW body \in Bodies \cup {NoBody}, body \in {b, NoBody}, Finish(r, status, w, body)
      PROVE  Aside(r)
  <2>1. /\ OthersSame(r)
        /\ task'[r].pc \in {"finish", "done"}
        /\ task'[r].resp = [status |-> status, write |-> w, body |-> body]
        /\ HandleEffect(r) /\ BodyEffect(r) /\ ResultEffect(r)
    BY <1>1, <1>6, AnswerEffects
  <2>2. AnswerEffect(r)
    BY <1>3, <1>5, <1>6, <2>1 DEF AnswerEffect
  <2>3. QED BY <1>1, <1>6, <2>1, <2>2 DEF Aside, TaskEffects, Busy, Writing
<1>8. CASE ~WritesBack(r)
  <2>1. Finish(r, task[r].served, write, b)
    BY <1>8 DEF VendorReply, b, write
  <2>2. task[r].served \in ResponseStatuses
    BY <1>2 DEF Tasks, ResponseStatuses
  <2>3. QED BY <1>4, <1>6, <2>1, <2>2
<1>9. CASE WritesBack(r)
  <2>1. task' = [task EXCEPT ![r].pc = "put_start", ![r].body = b]
    BY <1>9 DEF VendorReply, b
  <2> DEFINE t == [task[r] EXCEPT !.pc = "put_start", !.body = b]
  <2>2. t \in Tasks
    BY <1>2, <1>4 DEF Tasks, PCs
  <2>3. t.pc = "put_start" /\ t.body = b /\ t.handle = task[r].handle /\ t.resp = task[r].resp
    BY <1>2 DEF Tasks
  <2>4. Becomes(r, t)
    BY <2>1, <2>2 DEF Becomes, CoreInv, TypeOK
  <2> HIDE DEF t
  <2>5. task'[r] = t /\ OthersSame(r)
    BY <1>1, <2>4, BecomesMeans DEF gatewayVars
  <2>6. TaskEffects(r)
    BY <1>1, <1>3, <1>5, <2>3, <2>5
    DEF TaskEffects, HandleEffect, BodyEffect, AnswerEffect, ResultEffect, gatewayVars
  <2>7. QED BY <1>1, <1>3, <2>3, <2>5, <2>6 DEF Aside, Busy, Writing
<1>10. QED BY <1>8, <1>9

\* A result is handed to singleflight and sent.
LEMMA AsidePublish ==
  ASSUME CoreInv, NEW r \in Requests, Publish(r) \/ Send(r)
  PROVE  Aside(r)
<1>1. /\ SameObjects(master, master') /\ UNCHANGED <<req, dram, late, faults, removes>>
      /\ task[r].pc \in {"finish", "publish"}
  BY MasterSame DEF Publish, Send, At
<1>2. PICK pc \in {"publish", "done"} : Goto(r, pc)
  BY DEF Publish, Send
<1>3. /\ result \in [Requests -> Responses \cup {Nobody, Dropped}]
      /\ source' = source
      /\ \/ Publish(r) /\ result' = [result EXCEPT ![r] = task[r].resp]
         \/ Send(r) /\ result' = result
  BY RoleType DEF Publish, Send, SF!PublishRemove, SF!SoloFinish, SF!PublishSend
<1>4. \A s \in Requests \ {r} : UNCHANGED <<result[s], source[s]>>
  BY <1>3
<1>5. /\ OthersSame(r) /\ task'[r].pc = pc /\ task'[r].resp = task[r].resp
      /\ HandleEffect(r) /\ BodyEffect(r) /\ AnswerEffect(r)
  BY <1>2, <1>4, MoveEffects DEF PCs
<1>6. ResultEffect(r)
  BY <1>2, <1>3, <1>5 DEF ResultEffect
<1>7. QED BY <1>1, <1>2, <1>5, <1>6 DEF Aside, TaskEffects, Busy, Writing

\* A waiter answers with what it received.
LEMMA AsideWait ==
  ASSUME CoreInv, NEW r \in Requests, WaitReply(r)
  PROVE  /\ Aside(r)
         /\ task'[r].pc = "done"
         /\ task'[r].resp = WaiterResponse(result'[r])
         /\ result'[r] \in Responses \cup {Dropped}
<1>1. /\ SameObjects(master, master') /\ UNCHANGED <<req, dram, late, faults, removes>>
      /\ task[r].pc = "wait"
  BY MasterSame DEF WaitReply, At
<1>2. SF!WaitReceive(r) \/ SF!WaitClosed(r)
  BY DEF WaitReply
<1>3. result'[r] \in Responses \cup {Dropped} /\ role'[r] = "done" /\ role[r] = "waiting"
  BY <1>2, WaiterReceives
<1>4. source' = source /\ source[r] # Nobody
  BY <1>2, <1>3 DEF SF!WaitReceive, SF!WaitClosed, CoreInv, SFP!SfInv, SFP!SourceState
<1>5. \A s \in Requests \ {r} : UNCHANGED <<result[s], source[s]>>
  BY <1>2, <1>4, RoleType DEF SF!WaitReceive, SF!WaitClosed
<1> DEFINE response == WaiterResponse(result'[r])
           t == [task[r] EXCEPT !.pc = "done", !.resp = response]
<1>6. /\ response \in Responses /\ response.write = "Skipped"
      /\ Usable(result'[r]) => response.body = result'[r].body
      /\ ~Usable(result'[r]) => response.body = NoBody
  BY <1>3, WaiterResponseType
<1>7. task' = [task EXCEPT ![r].pc = "done", ![r].resp = response]
  BY DEF WaitReply, WaiterResponse
<1> HIDE DEF response
<1>8. task[r] \in Tasks /\ Served(req[r])
  BY <1>1, TaskKnown DEF FlowOk
<1>9. t \in Tasks
  BY <1>6, <1>8 DEF Tasks, PCs
<1>10. t.pc = "done" /\ t.resp = response /\ t.body = task[r].body /\ t.handle = task[r].handle
  BY <1>8 DEF Tasks
<1>11. Becomes(r, t)
  BY <1>7, <1>9 DEF Becomes, CoreInv, TypeOK
<1> HIDE DEF t
<1>12. task'[r] = t /\ OthersSame(r)
  BY <1>5, <1>11, BecomesMeans
<1>13. AnswerEffect(r)
  <2>1. CASE Usable(result'[r])
    BY <1>3, <1>4, <1>6, <1>8, <1>10, <1>12, <2>1 DEF AnswerEffect, Usable
  <2>2. CASE ~Usable(result'[r])
    BY <1>6, <1>10, <1>12, <2>2 DEF AnswerEffect
  <2>3. QED BY <2>1, <2>2
<1>14. TaskEffects(r)
  BY <1>4, <1>10, <1>12, <1>13 DEF TaskEffects, HandleEffect, BodyEffect, ResultEffect
<1>15. Aside(r)
  BY <1>1, <1>6, <1>10, <1>12, <1>14 DEF Aside, Busy, Writing
<1>16. QED BY <1>3, <1>10, <1>12, <1>15 DEF response

\* The steps of r away from the write back.
LEMMA AsideSteps ==
  ASSUME CoreInv, NEW r \in Requests,
         \/ Refuse(r) \/ Start(r) \/ GetReply(r) \/ ReadReply(r) \/ Begin(r)
         \/ (\E len \in BodyLens : VendorReply(r, len)) \/ VendorFails(r)
         \/ Publish(r) \/ Send(r) \/ WaitReply(r)
  PROVE  Aside(r)
BY AsideStart, AsideRead, AsideBegin, AsideVendor, AsideVendorFails, AsidePublish, AsideWait

\* The answer of a task that tried to write its response is that response.
LEMMA WroteEffects ==
  ASSUME CoreInv, NEW r \in Requests, NEW write \in WriteStatuses, task[r].pc \in Busy,
         Wrote(r, write), UNCHANGED gatewayVars
  PROVE  /\ OthersSame(r)
         /\ task'[r].pc \in {"finish", "done"}
         /\ task'[r].handle = task[r].handle
         /\ task'[r].body = task[r].body
         /\ task'[r].resp = [status |-> "Miss", write |-> write, body |-> task[r].body]
         /\ TaskEffects(r)
<1>1. task[r] \in Tasks /\ Served(req[r]) /\ task[r].pc \notin {"publish", "done"}
  BY TaskKnown DEF FlowOk, Busy
<1>2. "Miss" \in ResponseStatuses /\ task[r].body \in Bodies \cup {NoBody}
  BY <1>1 DEF ResponseStatuses, CacheStatuses, Tasks
<1>3. /\ OthersSame(r)
      /\ task'[r].pc \in {"finish", "done"}
      /\ task'[r].handle = task[r].handle
      /\ task'[r].body = task[r].body
      /\ task'[r].resp = [status |-> "Miss", write |-> write, body |-> task[r].body]
      /\ HandleEffect(r) /\ BodyEffect(r) /\ ResultEffect(r)
  BY <1>1, <1>2, AnswerEffects DEF Wrote, Return
<1>4. AnswerEffect(r)
  BY <1>1, <1>3 DEF AnswerEffect
<1>5. QED BY <1>3, <1>4 DEF TaskEffects

\* Moving on within the write back, or being dropped.
LEMMA MoveOnEffects ==
  ASSUME CoreInv, NEW r \in Requests, NEW pc \in PCs, Goto(r, pc), task[r].pc \in Awaits,
         result' = result, source' = source
  PROVE  /\ OthersSame(r)
         /\ task'[r].pc = pc
         /\ task'[r].handle = task[r].handle
         /\ task'[r].body = task[r].body
         /\ task'[r].resp = task[r].resp
         /\ TaskEffects(r)
<1>1. /\ OthersSame(r)
      /\ task'[r].pc = pc
      /\ task'[r].handle = task[r].handle
      /\ task'[r].body = task[r].body
      /\ task'[r].resp = task[r].resp
      /\ HandleEffect(r) /\ BodyEffect(r) /\ AnswerEffect(r)
  BY MoveEffects
<1>2. ResultEffect(r)
  BY DEF ResultEffect, Awaits
<1>3. QED BY <1>1, <1>2 DEF TaskEffects

\* A reservation: the task takes the handle of the new chunk.
LEMMA ReserveEffects ==
  ASSUME CoreInv, NEW r \in Requests, PutStartReply(r),
         PutStartOk(master, Id(r), task[r].body.len, REPLICA_COUNT)
  PROVE  /\ OthersSame(r)
         /\ task'[r].pc = "write"
         /\ task'[r].body = task[r].body
         /\ task'[r].resp = task[r].resp
         /\ ReservedAt(master, master', Id(r), task[r].body.len, task'[r].handle)
         /\ TaskEffects(r)
<1>1. task[r].pc = "put_start" /\ task[r].body # NoBody /\ Served(req[r]) /\ task[r] \in Tasks
  BY TaskKnown DEF PutStartReply, At, FlowOk, Busy
<1>2. Id(r) \in Ids /\ task[r].body.len \in U64 /\ master \in MasterStates
  BY <1>1, WriterKnown DEF CoreInv, TypeOK
<1>3. PICK x : ReservedAt(master, master', Id(r), task[r].body.len, x)
  BY <1>2, PutStartCase DEF PutStartReply
<1>4. x \in Replica /\ FirstReplica(master'.objects[Id(r)]) = x
  BY <1>3, FirstReplicaOne DEF ReservedAt, PlacedIn
<1>5. task' = [task EXCEPT ![r].pc = "write", ![r].handle = x] /\ UNCHANGED gatewayVars
  BY <1>4 DEF PutStartReply
<1> DEFINE t == [task[r] EXCEPT !.pc = "write", !.handle = x]
<1>6. t \in Tasks
  BY <1>1, <1>4 DEF Tasks, PCs
<1>7. t.pc = "write" /\ t.handle = x /\ t.body = task[r].body /\ t.resp = task[r].resp
  BY <1>1 DEF Tasks
<1>8. Becomes(r, t)
  BY <1>5, <1>6 DEF Becomes, CoreInv, TypeOK
<1> HIDE DEF t
<1>9. task'[r] = t /\ OthersSame(r)
  BY <1>5, <1>8, BecomesMeans DEF gatewayVars
<1>10. HandleEffect(r)
  BY <1>1, <1>3, <1>7, <1>9 DEF HandleEffect, ReservedAt
<1>11. TaskEffects(r)
  BY <1>1, <1>5, <1>7, <1>9, <1>10 DEF TaskEffects, BodyEffect, AnswerEffect, ResultEffect, gatewayVars
<1>12. QED BY <1>3, <1>7, <1>9, <1>11

\* What happens to the Master and the Stores.
WritesTo(r) ==
  \/ \E status : Restated(master, master', Id(r), status) /\ master.objects[Id(r)].status # "Absent"
  \/ \E x : ReservedAt(master, master', Id(r), task[r].body.len, x)
MasterEffect ==
  \/ SameObjects(master, master')
  \/ \E r \in Requests : task[r].body # NoBody /\ WritesTo(r)
  \/ \E id \in Ids : Forgotten(master, master', id)
DramEffect ==
  dram' = dram \/ \E r \in Requests : task[r].body # NoBody /\ dram' = StoreWrite(r)

Effects ==
  /\ req' = req
  /\ MasterEffect
  /\ DramEffect
  /\ \A r \in Requests : TaskEffects(r)

\* The operations of the write back, as effects on the Master.
LEMMA WriteBackEffects ==
  ASSUME CoreInv, NEW r \in Requests, task[r].body # NoBody,
         \/ master' = master
         \/ master' = PutStart(master, Id(r), task[r].body.len, REPLICA_COUNT)
         \/ master' = PutEnd(master, Id(r))
         \/ master' = PutRevoke(master, Id(r))
  PROVE  MasterEffect
<1>1. Id(r) \in Ids /\ task[r].body.len \in U64 /\ master \in MasterStates
  BY WriterKnown DEF CoreInv, TypeOK
<1>2. CASE master' = master
  BY <1>2, MasterSame DEF MasterEffect
<1>3. CASE master' = PutStart(master, Id(r), task[r].body.len, REPLICA_COUNT)
  <2>1. SameObjects(master, master') \/ \E x : ReservedAt(master, master', Id(r), task[r].body.len, x)
    BY <1>1, <1>3, PutStartCase
  <2>2. QED BY <2>1 DEF MasterEffect, WritesTo
<1>4. CASE master' = PutEnd(master, Id(r))
  <2>1. SameObjects(master, master') \/ (PutEndOk(master, Id(r)) /\ Restated(master, master', Id(r), "Committed"))
    BY <1>1, <1>4, PutEndCase
  <2>2. QED BY <2>1 DEF MasterEffect, WritesTo, PutEndOk
<1>5. CASE master' = PutRevoke(master, Id(r))
  <2>1. SameObjects(master, master') \/ (PutRevokeOk(master, Id(r)) /\ Restated(master, master', Id(r), "Revoked"))
    BY <1>1, <1>5, PutRevokeCase
  <2>2. QED BY <2>1 DEF MasterEffect, WritesTo, PutRevokeOk
<1>6. QED BY <1>2, <1>3, <1>4, <1>5

\* A step that leaves a task alone has no effect on it.
LEMMA NoTaskEffect ==
  ASSUME CoreInv, NEW s \in Requests, UNCHANGED <<task[s], result[s], source[s]>>
  PROVE  TaskEffects(s)
BY DEF TaskEffects, HandleEffect, BodyEffect, AnswerEffect, ResultEffect

\* The effects on the task that takes a step of the write back.
LEMMA BusyEffects ==
  ASSUME CoreInv, NEW r \in Requests,
         PutStartReply(r) \/ WriteReply(r) \/ PutEndReply(r) \/ PutRevokeReply(r) \/ CallFails(r) \/ Cancel(r)
  PROVE  OthersSame(r) /\ TaskEffects(r)
<1>1. CASE PutStartReply(r)
  <2>1. CASE PutStartOk(master, Id(r), task[r].body.len, REPLICA_COUNT)
    BY <1>1, <2>1, ReserveEffects
  <2>2. CASE ~PutStartOk(master, Id(r), task[r].body.len, REPLICA_COUNT)
    BY <1>1, <2>2, WroteEffects DEF PutStartReply, At, Busy, WriteStatuses
  <2>3. QED BY <2>1, <2>2
<1>2. CASE WriteReply(r)
  BY <1>2, MoveOnEffects DEF WriteReply, At, Awaits, PCs, gatewayVars
<1>3. CASE PutEndReply(r)
  <2>1. CASE PutEndOk(master, Id(r))
    BY <1>3, <2>1, WroteEffects DEF PutEndReply, At, Busy, WriteStatuses
  <2>2. CASE ~PutEndOk(master, Id(r))
    BY <1>3, <2>2, MoveOnEffects DEF PutEndReply, At, Awaits, PCs, gatewayVars
  <2>3. QED BY <2>1, <2>2
<1>4. CASE PutRevokeReply(r)
  BY <1>4, WroteEffects DEF PutRevokeReply, At, Busy, WriteStatuses
<1>5. CASE CallFails(r)
  <2>1. CASE task[r].pc \in {"get", "read"}
    <3>1. Finish(r, "CacheError", "Skipped", NoBody) /\ UNCHANGED gatewayVars
      BY <1>5, <2>1 DEF CallFails, OnError, Return
    <3>2. /\ OthersSame(r)
          /\ task'[r].resp = [status |-> "CacheError", write |-> "Skipped", body |-> NoBody]
          /\ HandleEffect(r) /\ BodyEffect(r) /\ ResultEffect(r)
      BY <2>1, <3>1, AnswerEffects DEF ResponseStatuses, WriteStatuses
    <3>3. QED BY <3>2 DEF TaskEffects, AnswerEffect
  <2>2. CASE task[r].pc \in {"put_start", "put_revoke"}
    <3>1. Wrote(r, "Failed") /\ UNCHANGED gatewayVars
      BY <1>5, <2>2 DEF CallFails, OnError
    <3>2. QED BY <2>2, <3>1, WroteEffects DEF Busy, WriteStatuses
  <2>3. CASE task[r].pc \in {"write", "put_end"}
    <3>1. Goto(r, "put_revoke") /\ UNCHANGED gatewayVars
      BY <1>5, <2>3 DEF CallFails, OnError
    <3>2. QED BY <2>3, <3>1, MoveOnEffects DEF Awaits, PCs, gatewayVars
  <2>4. QED BY <1>5, <2>1, <2>2, <2>3 DEF CallFails, Calls
<1>6. CASE Cancel(r)
  BY <1>6, MoveOnEffects DEF Cancel, PCs, gatewayVars, SF!CancelLeader, SF!CancelWaiter
<1>7. QED BY <1>1, <1>2, <1>3, <1>4, <1>5, <1>6

\* Every step has these effects.
LEMMA StepEffects ==
  ASSUME CoreInv, [Next]_vars
  PROVE  Effects
<1>1. ASSUME NEW r \in Requests, Aside(r) PROVE Effects
  BY <1>1, NoTaskEffect DEF Aside, OthersSame, Effects, MasterEffect, DramEffect
<1>2. ASSUME NEW r \in Requests,
             PutStartReply(r) \/ WriteReply(r) \/ PutEndReply(r) \/ PutRevokeReply(r) \/ CallFails(r) \/ Cancel(r)
      PROVE  Effects
  <2>1. OthersSame(r) /\ TaskEffects(r)
    BY <1>2, BusyEffects
  <2>2. \A s \in Requests : TaskEffects(s)
    BY <2>1, NoTaskEffect DEF OthersSame
  <2>3. req' = req /\ (task[r].pc \in Busy => task[r].body # NoBody)
    BY <1>2, TaskKnown DEF FlowOk, PutStartReply, WriteReply, PutEndReply, PutRevokeReply, CallFails, Cancel
  <2>4. MasterEffect
    <3>1. CASE CallFails(r) \/ Cancel(r)
      BY <3>1, MasterSame DEF CallFails, Cancel, MasterEffect
    <3>2. CASE ~(CallFails(r) \/ Cancel(r))
      <4>1. task[r].body # NoBody
        BY <1>2, <2>3, <3>2 DEF PutStartReply, WriteReply, PutEndReply, PutRevokeReply, At, Busy
      <4>2. QED BY <1>2, <3>2, <4>1, WriteBackEffects DEF PutStartReply, WriteReply, PutEndReply, PutRevokeReply
    <3>3. QED BY <3>1, <3>2
  <2>5. DramEffect
    <3>1. CASE WriteReply(r)
      BY <2>3, <3>1 DEF WriteReply, At, Busy, DramEffect
    <3>2. QED BY <1>2, <3>1 DEF PutStartReply, PutEndReply, PutRevokeReply, CallFails, Cancel, DramEffect
  <2>6. QED BY <2>2, <2>3, <2>4, <2>5 DEF Effects
<1>3. ASSUME NEW c \in late, LateCall(c) PROVE Effects
  <2>1. c.r \in Requests /\ c.op \in Updates /\ task[c.r].body # NoBody
    BY DEF CoreInv, TypeOK, LateInv
  <2>2. MasterEffect
    BY <1>3, <2>1, WriteBackEffects DEF LateCall, Updates
  <2>3. DramEffect
    BY <1>3, <2>1 DEF LateCall, DramEffect
  <2>4. QED BY <1>3, <2>2, <2>3, NoTaskEffect DEF LateCall, Effects, gatewayVars
<1>4. ASSUME NEW id \in Ids, RemoveObject(id) PROVE Effects
  <2>1. Forgotten(master, master', id)
    BY <1>4, RemoveCase DEF RemoveObject, CoreInv, TypeOK
  <2>2. QED BY <1>4, <2>1, NoTaskEffect DEF RemoveObject, Effects, MasterEffect, DramEffect, gatewayVars
<1>5. CASE UNCHANGED vars
  BY <1>5, MasterSame, NoTaskEffect DEF vars, gatewayVars, Effects, MasterEffect, DramEffect
<1>6. QED BY <1>1, <1>2, <1>3, <1>4, <1>5, AsideSteps DEF Next, Step

-----------------------------------------------------------------------------
(* What the cache holds was written on behalf of an eligible request. *)

\* The tenant of a request that is served: it is enabled, the token is its own,
\* and it may use the vendor. Ids of tenants are unique in a file that loads.
LEMMA TenantKnown ==
  ASSUME NEW q \in RequestKinds, Served(q)
  PROVE  \E t \in Serving(q).tenants :
           /\ t.id = Authenticate(q) /\ t.enabled
           /\ t.digest = Sha256(q.token) /\ VendorId \in t.allowed
<1> DEFINE g == q.gateway
           tenants == Serving(q).tenants
           found == {t \in tenants : t.enabled /\ t.digest = Sha256(q.token)}
           ids == {t.id : t \in found}
<1>1. Serving(q).up /\ Authenticate(q) # Blank /\ AllowsVendor(tenants, Authenticate(q)) /\ g \in Gateways
  BY ServedMeans, RequestAssumption
<1>2. found # {} /\ Authenticate(q) = First(found).id
  BY <1>1 DEF Authenticate, TenantForBearerToken
<1>3. \A t \in tenants : t.id \in Nat
  BY <1>1, RequestAssumption DEF Serving
<1>4. First(found) \in found
  <2>1. ids \subseteq Nat /\ ids # {}
    BY <1>2, <1>3
  <2>2. PICK n \in ids : \A m \in ids : n <= m
    BY <2>1, MinimalNat
  <2>3. \E e \in found : \A o \in found : e.id <= o.id
    BY <2>2
  <2> HIDE DEF found
  <2>4. QED BY <2>3 DEF First
<1>5. PICK u \in tenants : u.id = Authenticate(q) /\ VendorId \in u.allowed
  BY <1>1 DEF AllowsVendor
<1>6. ASSUME NEW t \in tenants, t.id = u.id PROVE t = u
  <2> DEFINE d == Deployments[g]
             cfg == ParseConfig(d)
             path == cfg.path["tenant-config"]
  <2>1. Serving(q) = RunServer(d, cfg)
    BY <1>1 DEF Serving, Deployed, BuildGateway
  <2> HIDE DEF cfg
  <2>2. ComesUp(d, cfg)
    BY <1>1, <2>1 DEF RunServer, NotServing
  <2>3. tenants = S!ToSet(d.tenants[path]) /\ Loads(d.tenants, path)
    <3>1. Loads(d.tenants, path)
      BY <2>2 DEF ComesUp
    <3>2. tenants = TenantsOf(d, cfg)
      BY <2>1, <2>2 DEF RunServer
    <3>3. QED BY <3>1, <3>2 DEF TenantsOf
  <2>4. PICK i \in DOMAIN d.tenants[path], j \in DOMAIN d.tenants[path] :
          t = d.tenants[path][i] /\ u = d.tenants[path][j]
    BY <1>5, <1>6, <2>3 DEF S!ToSet
  <2>5. QED BY <1>6, <2>3, <2>4 DEF Loads
<1>7. QED BY <1>2, <1>4, <1>5, <1>6

\* Every object was reserved for a task that has a response to write.
HasWriter ==
  \A id \in Ids : master.objects[id].status # "Absent" =>
    \E r \in Requests : Id(r) = id /\ task[r].body # NoBody

\* A task keeps the response that it is to write.
LEMMA BodyStays ==
  ASSUME CoreInv, Effects, NEW r \in Requests, task[r].body # NoBody
  PROVE  task'[r].body = task[r].body /\ Id(r)' = Id(r)
BY DEF Effects, TaskEffects, BodyEffect, Id

\* Reservations are made for such tasks only.
LEMMA HasWriterStep ==
  ASSUME CoreInv, HasWriter, Effects
  PROVE  HasWriter'
<1> SUFFICES ASSUME NEW id \in Ids, master'.objects[id].status # "Absent"
             PROVE  \E r \in Requests : Id(r)' = id /\ task'[r].body # NoBody
  BY DEF HasWriter
<1>1. \E r \in Requests : Id(r) = id /\ task[r].body # NoBody
  <2>1. CASE master.objects[id].status # "Absent"
    BY <2>1 DEF HasWriter
  <2>2. CASE master.objects[id].status = "Absent"
    <3>1. PICK r \in Requests : task[r].body # NoBody /\ WritesTo(r)
      BY <2>2 DEF Effects, MasterEffect, SameObjects, Forgotten
    <3>2. id = Id(r)
      BY <2>2, <3>1 DEF WritesTo, Restated, ReservedAt
    <3>3. QED BY <3>1, <3>2
  <2>3. QED BY <2>1, <2>2
<1>2. QED BY <1>1, BodyStays

\* Refused, read-only, cache-only, bypass and stochastic requests leave no trace
\* in the cache, whatever interleaves, fails, arrives late or is removed.
THEOREM CacheAlwaysEligibleOnly == Spec => []CacheHoldsEligibleOnly
<1>1. CoreInv /\ HasWriter => CacheHoldsEligibleOnly
  <2> SUFFICES ASSUME CoreInv, HasWriter, NEW id \in Ids, Stored(id) # "Absent"
               PROVE  \E r \in Requests :
                        /\ Id(r) = id
                        /\ Eligible(req[r])
                        /\ Control(req[r]) \in {"Default", "WriteOnly", "ForceReplay"}
                        /\ \E t \in Serving(req[r]).tenants :
                             t.id = id[1] /\ t.enabled /\ t.digest = Sha256(req[r].token) /\ VendorId \in t.allowed
    BY DEF CacheHoldsEligibleOnly
  <2>1. PICK r \in Requests : Id(r) = id /\ task[r].body # NoBody
    BY DEF HasWriter, Stored
  <2>2. Misses(req[r]) /\ Control(req[r]) # "ReadOnly" /\ req[r] \in RequestKinds
    BY <2>1, WriterKnown, TaskKnown
  <2>3. Served(req[r]) /\ Eligible(req[r]) /\ Control(req[r]) \notin {"Bypass", "CacheOnly", "ReadOnly", "Invalid"}
    BY <2>2, ServedMeans DEF Misses, Cacheable
  <2>4. Control(req[r]) \in {"Default", "WriteOnly", "ForceReplay"}
    BY <2>3 DEF Control, ParseControl
  <2>5. id[1] = Authenticate(req[r])
    BY <2>1, <2>2, <2>3 DEF Id, IdOf
  <2>6. QED BY <2>1, <2>2, <2>3, <2>4, <2>5, TenantKnown
<1>2. Init => HasWriter
  BY DEF Init, HasWriter, NewMaster, NoObject
<1>3. CoreInv /\ HasWriter /\ [Next]_vars => HasWriter'
  BY StepEffects, HasWriterStep
<1>4. QED BY <1>1, <1>2, <1>3, CoreInit, CoreStep, PTL DEF Spec

-----------------------------------------------------------------------------
(* Chunks: no place is handed out twice. *)

\* The chunk x is, or was, reserved for id: an object lists it, or a task holds it.
HoldsPlace(id, x) ==
  \/ master.objects[id].status # "Absent" /\ x \in master.objects[id].replicas
  \/ \E r \in Requests : Id(r) = id /\ task[r].handle = x /\ x.len > 0

\* Two chunks of a segment are the same chunk of one object, or do not overlap.
PlacesApart ==
  \A i, j \in Ids : \A x, y :
    HoldsPlace(i, x) /\ HoldsPlace(j, y) /\ x.seg = y.seg =>
      (i = j /\ x = y) \/ Apart(x.offset, x.len, y.offset, y.len)

SegmentsFixed ==
  /\ DOMAIN master.segments = DOMAIN Layout
  /\ \A i \in DOMAIN Layout : master.segments[i].node = Layout[i][1]

GrantInv == SegmentsFixed /\ PlacesApart

\* A chunk that is held lies in the part of its segment that was handed out.
LEMMA HeldIsPlaced ==
  ASSUME CoreInv, NEW id \in Ids, NEW x, HoldsPlace(id, x)
  PROVE  PlacedIn(master.segments, x)
<1>1. CASE master.objects[id].status # "Absent" /\ x \in master.objects[id].replicas
  BY <1>1 DEF CoreInv, OneReplica
<1>2. CASE \E r \in Requests : Id(r) = id /\ task[r].handle = x /\ x.len > 0
  BY <1>2 DEF CoreInv, HandlesPlaced
<1>3. QED BY <1>1, <1>2 DEF HoldsPlace

\* The chunk cut off for id in this step.
NewPlace(id, x) ==
  \E r \in Requests : Id(r) = id /\ task[r].body # NoBody
                      /\ ReservedAt(master, master', id, task[r].body.len, x)

\* A chunk that is held after a step was held before it, or is the new one.
LEMMA HeldBefore ==
  ASSUME CoreInv, Effects, NEW id \in Ids, NEW x, HoldsPlace(id, x)'
  PROVE  HoldsPlace(id, x) \/ NewPlace(id, x)
<1>1. ASSUME master'.objects[id].status # "Absent", x \in master'.objects[id].replicas
      PROVE  HoldsPlace(id, x) \/ NewPlace(id, x)
  <2>1. CASE /\ master'.objects[id].replicas = master.objects[id].replicas
             /\ master.objects[id].status # "Absent"
    BY <1>1, <2>1 DEF HoldsPlace
  <2>2. ASSUME NEW r \in Requests, task[r].body # NoBody, NEW y,
               ReservedAt(master, master', Id(r), task[r].body.len, y)
        PROVE  HoldsPlace(id, x) \/ NewPlace(id, x)
    <3>1. CASE id = Id(r)
      <4>1. x = y
        BY <1>1, <2>2, <3>1 DEF ReservedAt
      <4>2. QED BY <2>2, <3>1, <4>1 DEF NewPlace
    <3>2. CASE id # Id(r)
      <4>1. master'.objects[id] = master.objects[id]
        BY <2>2, <3>2 DEF ReservedAt
      <4>2. QED BY <2>1, <1>1, <4>1
    <3>3. QED BY <3>1, <3>2
  <2>3. ASSUME NEW r \in Requests, NEW status, Restated(master, master', Id(r), status),
               master.objects[Id(r)].status # "Absent"
        PROVE  HoldsPlace(id, x) \/ NewPlace(id, x)
    BY <1>1, <2>1, <2>3 DEF Restated
  <2>4. CASE SameObjects(master, master') \/ \E i \in Ids : Forgotten(master, master', i)
    BY <1>1, <2>1, <2>4 DEF SameObjects, Forgotten
  <2>5. QED BY <2>2, <2>3, <2>4 DEF Effects, MasterEffect, WritesTo
<1>2. ASSUME NEW r \in Requests, Id(r)' = id, task'[r].handle = x, x.len > 0
      PROVE  HoldsPlace(id, x) \/ NewPlace(id, x)
  <2>1. Id(r) = id /\ HandleEffect(r)
    BY <1>2 DEF Effects, TaskEffects, Id
  <2>2. CASE task'[r].handle = task[r].handle
    BY <1>2, <2>1, <2>2 DEF HoldsPlace
  <2>3. CASE task'[r].handle # task[r].handle
    BY <1>1, <1>2, <2>1, <2>3 DEF HandleEffect
  <2>4. QED BY <2>2, <2>3
<1>3. QED BY <1>1, <1>2 DEF HoldsPlace

\* The new chunk lies beyond every chunk of its segment.
LEMMA NewIsBeyond ==
  ASSUME CoreInv, NEW i \in Ids, NEW x, NEW id, NEW len, NEW y, HoldsPlace(i, x),
         ReservedAt(master, master', id, len, y), x.seg = y.seg
  PROVE  x.offset + x.len <= y.offset /\ x.offset < y.offset
<1>1. PlacedIn(master.segments, x)
  BY HeldIsPlaced
<1>2. x \in Replica /\ x.len > 0 /\ x.offset + x.len <= master.segments[x.seg].next
  BY <1>1 DEF PlacedIn
<1>3. y.offset = master.segments[x.seg].next /\ x.seg \in DOMAIN master.segments
  BY <1>1 DEF ReservedAt, PlacedIn
<1>4. y.offset \in Nat /\ x.offset \in Nat /\ x.len \in Nat
  BY <1>2, <1>3, PartsType, U64MaxAssumption DEF Replica, U64, CoreInv, TypeOK
<1>5. QED BY <1>2, <1>3, <1>4

\* Segments keep their nodes, and new chunks overlap none.
LEMMA GrantStep ==
  ASSUME CoreInv, GrantInv, Effects
  PROVE  GrantInv'
<1>1. SegmentsFixed'
  <2>1. master'.segments = master.segments \/ \E id, len, x : ReservedAt(master, master', id, len, x)
    BY DEF Effects, MasterEffect, WritesTo, SameObjects, Restated, Forgotten
  <2>2. QED BY <2>1 DEF GrantInv, SegmentsFixed, ReservedAt
<1>2. PlacesApart'
  <2> SUFFICES ASSUME NEW i \in Ids, NEW j \in Ids, NEW x, NEW y,
                      HoldsPlace(i, x)', HoldsPlace(j, y)', x.seg = y.seg
               PROVE  (i = j /\ x = y) \/ Apart(x.offset, x.len, y.offset, y.len)
    BY DEF PlacesApart
  <2>1. (HoldsPlace(i, x) \/ NewPlace(i, x)) /\ (HoldsPlace(j, y) \/ NewPlace(j, y))
    BY HeldBefore
  <2>2. CASE HoldsPlace(i, x) /\ HoldsPlace(j, y)
    BY <2>2 DEF GrantInv, PlacesApart
  <2>3. CASE NewPlace(i, x) /\ HoldsPlace(j, y)
    BY <2>3, NewIsBeyond DEF NewPlace, Apart
  <2>4. CASE HoldsPlace(i, x) /\ NewPlace(j, y)
    BY <2>4, NewIsBeyond DEF NewPlace, Apart
  <2>5. CASE NewPlace(i, x) /\ NewPlace(j, y)
    <3>1. /\ master.objects[i].status = "Absent" /\ master'.objects[i].replicas = {x}
          /\ master.objects[j].status = "Absent" /\ master'.objects[j].replicas = {y}
          /\ master'.objects[j].status = "Reserving"
          /\ i # j => master'.objects[j] = master.objects[j]
      BY <2>5 DEF NewPlace, ReservedAt
    <3>2. i = j
      BY <3>1
    <3>3. QED BY <3>1, <3>2
  <2>6. QED BY <2>1, <2>2, <2>3, <2>4, <2>5
<1>3. QED BY <1>1, <1>2 DEF GrantInv

\* Nothing is held at first.
LEMMA GrantInit == Init => GrantInv
<1> SUFFICES ASSUME Init PROVE GrantInv
  OBVIOUS
<1>1. /\ master.objects = [id \in Ids |-> NoObject]
      /\ master.segments = [i \in DOMAIN Layout |-> [node |-> Layout[i][1], len |-> Layout[i][2], next |-> 0]]
  BY DEF Init, NewMaster
<1>2. \A r \in Requests : task[r].handle.len = 0
  BY DEF Init, NoHandle
<1>3. \A id \in Ids : \A x : ~HoldsPlace(id, x)
  BY <1>1, <1>2 DEF HoldsPlace, NoObject
<1>4. QED BY <1>1, <1>3 DEF GrantInv, SegmentsFixed, PlacesApart

-----------------------------------------------------------------------------
(* Responses: where they come from, when there is one segment. A handle    *)
(* carries no node, so with two segments a gateway reads the chunk of      *)
(* another object; with one, an offset belongs to one object on every      *)
(* Store, whatever the configured URLs are.                                *)

OneSegment == Len(Layout) <= 1

\* A response that was produced for a request with the id.
MadeFor(kinds, b, id) ==
  b \in Bodies /\ b.id = id /\ IdOf[kinds[b.by]] = id /\ b.stream = Streaming(kinds[b.by])

ChunksFit ==
  \A n \in Nodes : \A o \in Offsets : dram[n].allocations[o].checksum # NoContent =>
    /\ \E i \in DOMAIN master.segments : o < master.segments[i].next
    /\ \E id \in Ids : /\ MadeFor(req, dram[n].allocations[o].checksum, id)
                       /\ \A j \in Ids : \A x : HoldsPlace(j, x) /\ x.offset = o => j = id

BodiesFit == \A r \in Requests : task[r].body # NoBody => Own(r, task[r].body)

ResultsFit ==
  \A r \in Requests : result[r] # Nobody /\ source[r] = Nobody =>
    task[r].pc \in {"publish", "done"} /\ result[r] = task[r].resp

Fits(r, b) == Served(req[r]) /\ MadeFor(req, b, Id(r)) /\ (Streaming(req[r]) => b.stream)
AnswersFit == \A r \in Requests : task[r].resp.body # NoBody => Fits(r, task[r].resp.body)

FitInv == ChunksFit /\ BodiesFit /\ ResultsFit /\ AnswersFit

\* A write of a response changes at most the chunk of the task's handle, on the
\* node that is configured for it.
LEMMA StoreWriteChunks ==
  ASSUME CoreInv, NEW r \in Requests, task[r].body # NoBody, NEW n \in Nodes, NEW o \in Offsets
  PROVE  \/ StoreWrite(r)[n].allocations[o] = dram[n].allocations[o]
         \/ /\ o = task[r].handle.offset /\ task[r].handle.len > 0
            /\ StoreWrite(r)[n].allocations[o].checksum = task[r].body
<1> DEFINE h == task[r].handle
           b == task[r].body
           node == Serving(req[r]).nodes[h.node]
           new == WritePreallocated(dram[node], h.offset, h.len, b)
<1>1. dram \in [Nodes -> Drams(Bodies)]
  BY DEF CoreInv, TypeOK
<1>2. CASE ~Configured(r)
  BY <1>2 DEF StoreWrite
<1>3. CASE Configured(r) /\ ~WritePreallocatedOk(h.offset, h.len, b)
  <2>1. StoreWrite(r) = [dram EXCEPT ![node] = dram[node]]
    BY <1>3 DEF StoreWrite, WritePreallocated
  <2>2. QED BY <1>1, <2>1
<1>4. CASE Configured(r) /\ WritePreallocatedOk(h.offset, h.len, b)
  <2>1. StoreWrite(r) = [dram EXCEPT ![node] = new]
    BY <1>4 DEF StoreWrite
  <2>2. CASE n # node
    BY <1>1, <2>1, <2>2
  <2>3. CASE n = node
    <3>1. task[r] \in Tasks /\ b \in Bodies
      BY TaskKnown, WriterKnown
    <3>2. h.offset \in Nat /\ h.len \in Nat /\ h.len > 0
      BY <1>4, <3>1, U64MaxAssumption DEF Tasks, NoHandle, Replica, U64, WritePreallocatedOk
    <3>3. WroteChunk(dram[node], new, h.offset, h.len, b)
      BY <1>1, <1>4, <2>3, <3>1, <3>2, WritePreallocatedEffect
    <3> HIDE DEF new
    <3>4. StoreWrite(r)[n] = new
      BY <1>1, <2>1, <2>3
    <3>5. CASE o = h.offset
      <4> HIDE DEF node, h, b
      <4>1. new.allocations[h.offset] = [len |-> h.len, checksum |-> b]
        BY <3>3 DEF WroteChunk
      <4>2. new.allocations[o].checksum = b
        BY <3>5, <4>1
      <4>3. StoreWrite(r)[n].allocations[o].checksum = b
        BY <3>4, <4>2
      <4>4. QED BY <3>2, <3>5, <4>3 DEF h, b
    <3>6. CASE o # h.offset
      <4>1. new.allocations[o] = dram[node].allocations[o]
        BY <3>3, <3>6 DEF WroteChunk
      <4> HIDE DEF node, h
      <4>2. QED BY <2>3, <3>4, <4>1
    <3>7. QED BY <3>5, <3>6
  <2>4. QED BY <2>2, <2>3
<1>5. QED BY <1>2, <1>3, <1>4

\* The pointers of the segments only grow.
LEMMA PointersGrow ==
  ASSUME CoreInv, Effects, NEW i \in DOMAIN master.segments
  PROVE  i \in DOMAIN master'.segments /\ master'.segments[i].next >= master.segments[i].next
<1>1. master'.segments = master.segments \/ \E id, len, x : ReservedAt(master, master', id, len, x)
  BY DEF Effects, MasterEffect, WritesTo, SameObjects, Restated, Forgotten
<1>2. master.segments[i].next \in U64
  BY PartsType DEF CoreInv, TypeOK
<1>3. QED BY <1>1, <1>2, U64MaxAssumption DEF ReservedAt, U64

\* In one segment, a chunk that is held is known by its offset.
LEMMA SameSegment ==
  ASSUME OneSegment, CoreInv, GrantInv, NEW i \in Ids, NEW j \in Ids, NEW x, NEW y,
         HoldsPlace(i, x), HoldsPlace(j, y)
  PROVE  x.seg = y.seg /\ (x.offset = y.offset => i = j /\ x = y)
<1>1. PlacedIn(master.segments, x) /\ PlacedIn(master.segments, y)
  BY HeldIsPlaced
<1>2. DOMAIN master.segments = DOMAIN Layout /\ Layout \in Seq(Nodes \X U64)
  BY StoreAssumption DEF GrantInv, SegmentsFixed
<1>3. x.seg = 1 /\ y.seg = 1
  BY <1>1, <1>2 DEF PlacedIn, OneSegment
<1>4. /\ x.offset \in Nat /\ x.len \in Nat /\ x.len > 0
      /\ y.offset \in Nat /\ y.len \in Nat /\ y.len > 0
  BY <1>1, U64MaxAssumption DEF PlacedIn, Replica, U64
<1>5. (i = j /\ x = y) \/ Apart(x.offset, x.len, y.offset, y.len)
  BY <1>3 DEF GrantInv, PlacesApart
<1>6. QED BY <1>3, <1>4, <1>5 DEF Apart

\* The chunks of the Stores after a step.
LEMMA ChunksFitStep ==
  ASSUME OneSegment, CoreInv, GrantInv, FitInv, Effects, CoreInv', GrantInv'
  PROVE  ChunksFit'
<1> SUFFICES ASSUME NEW n \in Nodes, NEW o \in Offsets, dram'[n].allocations[o].checksum # NoContent
             PROVE  /\ \E i \in DOMAIN master'.segments : o < master'.segments[i].next
                    /\ \E id \in Ids : /\ MadeFor(req', dram'[n].allocations[o].checksum, id)
                                       /\ \A j \in Ids : \A x : HoldsPlace(j, x)' /\ x.offset = o => j = id
  BY DEF ChunksFit
<1> DEFINE c == dram'[n].allocations[o].checksum
<1>1. ASSUME NEW i \in DOMAIN master.segments, o < master.segments[i].next
      PROVE  \E k \in DOMAIN master'.segments : o < master'.segments[k].next
  <2>1. i \in DOMAIN master'.segments /\ master'.segments[i].next >= master.segments[i].next
    BY PointersGrow
  <2>2. master.segments[i].next \in U64 /\ master'.segments[i].next \in U64
    BY <2>1, PartsType DEF CoreInv, TypeOK
  <2>3. QED BY <1>1, <2>1, <2>2, U64MaxAssumption, ArenaSizeAssumption DEF U64, Offsets
<1>2. ASSUME NEW i \in DOMAIN master.segments, o < master.segments[i].next,
             NEW j \in Ids, NEW x, HoldsPlace(j, x)', x.offset = o
      PROVE  HoldsPlace(j, x)
  <2>1. HoldsPlace(j, x) \/ NewPlace(j, x)
    BY <1>2, HeldBefore
  <2>2. ASSUME NewPlace(j, x) PROVE FALSE
    <3>1. x.offset = master.segments[x.seg].next /\ x.seg \in DOMAIN master.segments
      BY <2>2 DEF NewPlace, ReservedAt, PlacedIn
    <3>2. DOMAIN master.segments = DOMAIN Layout /\ Layout \in Seq(Nodes \X U64)
      BY StoreAssumption DEF GrantInv, SegmentsFixed
    <3>3. x.seg = i
      BY <3>1, <3>2 DEF OneSegment
    <3>4. master.segments[i].next \in Nat
      BY PartsType, U64MaxAssumption DEF CoreInv, TypeOK, U64
    <3>5. QED BY <1>2, <3>1, <3>3, <3>4
  <2>3. QED BY <2>1, <2>2
<1>3. CASE dram'[n].allocations[o] = dram[n].allocations[o]
  <2>1. PICK i \in DOMAIN master.segments : o < master.segments[i].next
    BY <1>3 DEF FitInv, ChunksFit
  <2>2. PICK id \in Ids : /\ MadeFor(req, c, id)
                          /\ \A j \in Ids : \A x : HoldsPlace(j, x) /\ x.offset = o => j = id
    BY <1>3 DEF FitInv, ChunksFit
  <2>3. MadeFor(req', c, id)
    BY <2>2 DEF Effects
  <2>4. QED BY <1>1, <1>2, <2>1, <2>2, <2>3
<1>4. ASSUME NEW r \in Requests, task[r].body # NoBody, o = task[r].handle.offset,
             task[r].handle.len > 0, c = task[r].body
      PROVE  /\ \E i \in DOMAIN master'.segments : o < master'.segments[i].next
             /\ \E id \in Ids : /\ MadeFor(req', c, id)
                                /\ \A j \in Ids : \A x : HoldsPlace(j, x)' /\ x.offset = o => j = id
  <2>1. Id(r) \in Ids /\ Own(r, c)
    BY <1>4, WriterKnown DEF FitInv, BodiesFit
  <2>2. MadeFor(req, c, Id(r))
    BY <2>1 DEF Own, MadeFor, Id
  <2>3. MadeFor(req', c, Id(r))
    BY <2>2 DEF Effects
  <2>4. HoldsPlace(Id(r), task[r].handle) /\ PlacedIn(master.segments, task[r].handle)
    BY <1>4, <2>1, HeldIsPlaced DEF HoldsPlace
  <2>5. /\ task[r].handle.seg \in DOMAIN master.segments
        /\ o < master.segments[task[r].handle.seg].next
    <3>1. /\ task[r].handle \in Replica /\ task[r].handle.seg \in DOMAIN master.segments
          /\ task[r].handle.offset + task[r].handle.len <= master.segments[task[r].handle.seg].next
      BY <2>4 DEF PlacedIn
    <3>2. master.segments[task[r].handle.seg].next \in Nat
      BY <3>1, PartsType, U64MaxAssumption DEF CoreInv, TypeOK, U64
    <3>3. QED BY <1>4, <3>1, <3>2, U64MaxAssumption DEF Replica, U64
  <2>6. ASSUME NEW j \in Ids, NEW x, HoldsPlace(j, x)', x.offset = o PROVE j = Id(r)
    <3>1. HoldsPlace(j, x)
      BY <1>2, <2>5, <2>6
    <3>2. QED BY <1>4, <2>1, <2>4, <2>6, <3>1, SameSegment
  <2>7. QED BY <1>1, <2>1, <2>3, <2>5, <2>6
<1>5. QED
  <2>1. CASE dram' = dram
    BY <1>3, <2>1
  <2>2. ASSUME NEW r \in Requests, task[r].body # NoBody, dram' = StoreWrite(r)
        PROVE  \/ dram'[n].allocations[o] = dram[n].allocations[o]
               \/ /\ o = task[r].handle.offset /\ task[r].handle.len > 0
                  /\ c = task[r].body
    BY <2>2, StoreWriteChunks
  <2>3. QED BY <1>3, <1>4, <2>1, <2>2 DEF Effects, DramEffect

\* A response that was written, or published, stays the one the vendor gave.
LEMMA BodiesFitStep ==
  ASSUME CoreInv, BodiesFit, ResultsFit, Effects
  PROVE  BodiesFit' /\ ResultsFit'
<1>1. ASSUME NEW r \in Requests, task'[r].body # NoBody PROVE Own(r, task'[r].body)
  BY <1>1 DEF BodiesFit, Effects, TaskEffects, BodyEffect
<1>2. ASSUME NEW r \in Requests, NEW b, Own(r, b)
      PROVE  b \in Bodies /\ b.id = Id(r)' /\ b.by = r /\ b.stream = Streaming(req'[r])
  BY <1>2 DEF Own, Effects, Id
<1>3. BodiesFit'
  <2> SUFFICES ASSUME NEW r \in Requests, task'[r].body # NoBody PROVE Own(r, task[r].body)'
    BY DEF BodiesFit
  <2>1. QED BY <1>1, <1>2 DEF Own
<1>4. ResultsFit'
  <2> SUFFICES ASSUME NEW r \in Requests, result'[r] # Nobody, source'[r] = Nobody
               PROVE  task'[r].pc \in {"publish", "done"} /\ result'[r] = task'[r].resp
    BY DEF ResultsFit
  <2>1. ResultEffect(r)
    BY DEF Effects, TaskEffects
  <2>2. QED BY <2>1 DEF ResultEffect, ResultsFit
<1>5. QED BY <1>3, <1>4

\* Every answer is for what its client asked, hits and shared answers included.
LEMMA AnswersFitStep ==
  ASSUME OneSegment, CoreInv, GrantInv, FitInv, Effects, CoreInv', ResultsFit'
  PROVE  AnswersFit'
<1>1. req' = req /\ \A r \in Requests : Id(r)' = Id(r) /\ \A b : Fits(r, b) <=> Fits(r, b)'
  BY DEF Effects, Fits, Id
<1>2. ASSUME NEW r \in Requests, NEW b, Own(r, b), Served(req[r]) PROVE Fits(r, b)
  BY <1>2 DEF Own, Fits, MadeFor, Id
<1>3. ASSUME NEW r \in Requests, NEW b, Hit(r, b), Served(req[r]) PROVE Fits(r, b)
  <2>1. task[r].pc = "read" /\ task[r].handle.len > 0
    BY <1>3, TaskKnown DEF Hit, FlowOk, Holding
  <2>2. Id(r) \in Ids /\ HoldsPlace(Id(r), task[r].handle)
    BY <1>3, <2>1, IdKnown DEF HoldsPlace
  <2>3. /\ b \in Bodies
        /\ b = dram[ReadFrom(r)].allocations[task[r].handle.offset].checksum
        /\ ReadFrom(r) \in Nodes
        /\ Streaming(req[r]) => b.stream
    BY <1>3, ReadFromNode DEF Hit
  <2>4. task[r].handle.offset \in Offsets
    <3>1. b # NoContent
      BY <2>3, NoneAssumption
    <3>2. ReadOutcome(dram[ReadFrom(r)], task[r].handle.offset, task[r].handle.len) = "Ok"
      BY <1>3, <3>1 DEF Hit, Readable
    <3>3. QED BY <3>2 DEF ReadOutcome, ValidHandle
  <2>5. PICK id \in Ids : /\ MadeFor(req, b, id)
                          /\ \A j \in Ids : \A x : HoldsPlace(j, x) /\ x.offset = task[r].handle.offset => j = id
    BY <2>3, <2>4, NoneAssumption DEF FitInv, ChunksFit
  <2>6. id = Id(r)
    BY <2>2, <2>5
  <2>7. QED BY <1>3, <2>3, <2>5, <2>6 DEF Fits
<1>4. ASSUME NEW r \in Requests, task'[r].resp.body # NoBody, source'[r] = Nobody
      PROVE  Fits(r, task'[r].resp.body)
  <2>1. AnswerEffect(r)
    BY DEF Effects, TaskEffects
  <2>2. CASE task'[r].resp.body = task[r].resp.body
    BY <1>4, <2>2 DEF FitInv, AnswersFit
  <2>3. CASE Served(req[r]) /\ task'[r].resp.body = task[r].body
    BY <1>2, <1>4, <2>3 DEF FitInv, BodiesFit
  <2>4. CASE Served(req[r]) /\ (Own(r, task'[r].resp.body) \/ Hit(r, task'[r].resp.body))
    BY <1>2, <1>3, <2>4
  <2>5. role[r] = "waiting" => source[r] # Nobody
    BY DEF CoreInv, SFP!SfInv, SFP!SourceState
  <2>6. QED BY <1>4, <2>1, <2>2, <2>3, <2>4, <2>5 DEF AnswerEffect
<1>5. ASSUME NEW r \in Requests, task'[r].resp.body # NoBody PROVE Fits(r, task'[r].resp.body)
  <2>1. AnswerEffect(r)
    BY DEF Effects, TaskEffects
  <2>2. CASE task'[r].resp.body = task[r].resp.body
    BY <1>5, <2>2 DEF FitInv, AnswersFit
  <2>3. CASE Served(req[r]) /\ task'[r].resp.body = task[r].body
    BY <1>2, <1>5, <2>3 DEF FitInv, BodiesFit
  <2>4. CASE Served(req[r]) /\ (Own(r, task'[r].resp.body) \/ Hit(r, task'[r].resp.body))
    BY <1>2, <1>3, <2>4
  <2>5. ASSUME Served(req[r]), role[r] = "waiting", role'[r] = "done", source'[r] = source[r],
               result'[r] \in Responses, task'[r].resp.body = result'[r].body
        PROVE  Fits(r, task'[r].resp.body)
    <3> DEFINE s == source[r]
    <3>1. s # Nobody /\ s \in Requests
      BY <2>5 DEF CoreInv, SFP!SfInv, SFP!TypeOK, SFP!SourceState
    <3>2. SFP!WaitersAgree' /\ SFP!SourceState'
      BY DEF CoreInv, SFP!SfInv
    <3>3. result'[r] # Dropped
      BY <2>5, NoneAssumption
    <3>4. result'[r] = result'[s] /\ source'[s] = Nobody
      BY <2>5, <3>1, <3>2, <3>3 DEF SFP!WaitersAgree, SFP!SourceState
    <3>5. result'[s] # Nobody
      BY <2>5, <3>4, NoneAssumption
    <3>6. result'[s] = task'[s].resp
      BY <3>1, <3>4, <3>5 DEF ResultsFit
    <3>7. task'[s].resp.body = task'[r].resp.body
      BY <2>5, <3>4, <3>6
    <3>8. Fits(s, task'[r].resp.body)
      BY <1>4, <1>5, <3>1, <3>4, <3>7
    <3>9. Id(s) = Id(r)
      BY <3>1, SourceShares
    <3>10. ~Streaming(req[r])
      BY <2>5, TaskKnown DEF FlowOk
    <3>11. QED BY <2>5, <3>8, <3>9, <3>10 DEF Fits
  <2>6. QED BY <1>5, <2>1, <2>2, <2>3, <2>4, <2>5 DEF AnswerEffect
<1>6. QED BY <1>1, <1>5 DEF AnswersFit

\* The invariants about chunks and responses together.
AllFit == CoreInv /\ GrantInv /\ FitInv

\* Nothing is written or answered at first.
LEMMA FitInit == Init => FitInv
<1> SUFFICES ASSUME Init PROVE FitInv
  OBVIOUS
<1>1. ChunksFit
  BY DEF Init, ChunksFit, EmptyDram, NoChunk
<1>2. BodiesFit /\ AnswersFit
  BY DEF Init, BodiesFit, AnswersFit, NoResponse
<1>3. ResultsFit
  BY DEF Init, SF!Init, ResultsFit
<1>4. QED BY <1>1, <1>2, <1>3 DEF FitInv

\* Every step keeps chunks and responses fitting.
LEMMA FitStep ==
  ASSUME OneSegment, AllFit, [Next]_vars
  PROVE  AllFit'
<1>1. CoreInv' /\ Effects
  BY CoreStep, StepEffects DEF AllFit
<1>2. GrantInv'
  BY <1>1, GrantStep DEF AllFit
<1>3. ChunksFit' /\ BodiesFit' /\ ResultsFit'
  BY <1>1, <1>2, ChunksFitStep, BodiesFitStep DEF AllFit, FitInv
<1>4. AnswersFit'
  BY <1>1, <1>3, AnswersFitStep DEF AllFit
<1>5. QED BY <1>1, <1>2, <1>3, <1>4 DEF AllFit, FitInv

\* With one segment mounted, every body a client receives, from a hit, from the
\* vendor or from a leader it waited for, was produced for a request like its
\* own, whatever interleaves, fails, arrives late or is removed.
THEOREM ResponsesMatch ==
  ASSUME OneSegment
  PROVE  Spec => []ResponseMatchesRequest
<1>1. AllFit => ResponseMatchesRequest
  <2> SUFFICES ASSUME AllFit, NEW r \in Requests, task[r].resp.body # NoBody
               PROVE  /\ Served(req[r])
                      /\ req[task[r].resp.body.by] # req[r] => Sent[req[task[r].resp.body.by]] = Sent[req[r]]
                      /\ Streaming(req[r]) => task[r].resp.body.stream
    BY DEF ResponseMatchesRequest
  <2> DEFINE b == task[r].resp.body
  <2>1. Fits(r, b)
    BY DEF AllFit, FitInv, AnswersFit
  <2>2. Served(req[r]) /\ b \in Bodies /\ b.id = Id(r) /\ IdOf[req[b.by]] = Id(r) /\ (Streaming(req[r]) => b.stream)
    BY <2>1 DEF Fits, MadeFor
  <2>3. b.by \in Requests
    BY <2>2 DEF Bodies
  <2>4. req[r] \in RequestKinds /\ req[b.by] \in RequestKinds
    BY <2>3, TaskKnown DEF AllFit
  <2> HIDE DEF b
  <2>5. Sent[req[b.by]] = Sent[req[r]]
    BY <2>2, <2>4, SameIdSameRequest DEF Id
  <2>6. QED BY <2>2, <2>5 DEF b
<1>2. Init => AllFit
  BY CoreInit, GrantInit, FitInit DEF AllFit
<1>3. AllFit /\ [Next]_vars => AllFit'
  BY FitStep
<1>4. QED BY <1>1, <1>2, <1>3, PTL DEF Spec
-----------------------------------------------------------------------------
(* The write back, step by step. *)

\* A step of r that leaves its handle and its response to write alone.
Keeps(r) == OthersSame(r) /\ UNCHANGED <<req, removes, task[r].handle, task[r].body>>
InTime == UNCHANGED <<late, faults>>

Reserves(r) ==
  /\ OthersSame(r) /\ UNCHANGED <<req, removes, task[r].body, task[r].resp, dram>> /\ InTime
  /\ task[r].pc = "put_start" /\ task'[r].pc = "write"
  /\ ReservedAt(master, master', Id(r), task[r].body.len, task'[r].handle)

\* The steps after which the client is answered.
Answers(r, write) ==
  /\ Keeps(r) /\ InTime /\ dram' = dram
  /\ task'[r].pc \in {"finish", "done"} /\ task'[r].resp.write = write
NotReserved(r) == Answers(r, "Failed") /\ task[r].pc = "put_start" /\ SameObjects(master, master')
Commits(r) ==
  /\ Answers(r, "Committed") /\ task[r].pc = "put_end"
  /\ PutEndOk(master, Id(r)) /\ Restated(master, master', Id(r), "Committed")
Revokes(r) ==
  /\ Answers(r, "Failed") /\ task[r].pc = "put_revoke"
  /\ \/ SameObjects(master, master') /\ master.objects[Id(r)].status = "Absent"
     \/ Restated(master, master', Id(r), "Revoked") /\ master.objects[Id(r)].status # "Absent"

\* The steps within the write back.
Writes(r) ==
  /\ Keeps(r) /\ InTime /\ task'[r].resp = task[r].resp /\ SameObjects(master, master')
  /\ task[r].pc = "write" /\ dram' = StoreWrite(r)
  /\ task'[r].pc = IF StoreWriteOk(r) THEN "put_end" ELSE "put_revoke"
NotCommitted(r) ==
  /\ Keeps(r) /\ InTime /\ task'[r].resp = task[r].resp /\ SameObjects(master, master') /\ dram' = dram
  /\ task[r].pc = "put_end" /\ task'[r].pc = "put_revoke" /\ ~PutEndOk(master, Id(r))

\* The call that r awaits is lost, or r is dropped.
GivesUp(r) ==
  /\ Keeps(r) /\ SameObjects(master, master') /\ dram' = dram
  /\ task'[r].resp.write # "Committed"
  /\ task[r].pc \in Awaits
  /\ \/ task'[r].pc \in {"finish", "done", "cancelled"}
     \/ task[r].pc \in {"write", "put_end"} /\ task'[r].pc = "put_revoke"
  /\ Abandon(r)
  /\ faults < MaxFaults /\ faults' = faults + 1

\* A call of c.r takes effect late.
Lately(c) ==
  /\ UNCHANGED <<req, task, faults, removes>> /\ late' = late \ {c}
  /\ \/ c.op = "put_start" /\ dram' = dram
        /\ \/ SameObjects(master, master')
           \/ \E x : ReservedAt(master, master', Id(c.r), task[c.r].body.len, x)
     \/ c.op = "write" /\ dram' = StoreWrite(c.r) /\ SameObjects(master, master')
     \/ c.op = "put_end" /\ dram' = dram
        /\ \/ SameObjects(master, master')
           \/ PutEndOk(master, Id(c.r)) /\ Restated(master, master', Id(c.r), "Committed")
     \/ c.op = "put_revoke" /\ dram' = dram
        /\ \/ SameObjects(master, master')
           \/ /\ master.objects[Id(c.r)].status # "Absent"
              /\ Restated(master, master', Id(c.r), "Revoked")

Removes(id) ==
  /\ UNCHANGED <<req, task, dram, late, faults>> /\ removes < MaxRemoves /\ removes' = removes + 1
  /\ Forgotten(master, master', id)

\* The step of a task in the write back.
WriteBack(r) ==
  Reserves(r) \/ NotReserved(r) \/ Writes(r) \/ Commits(r) \/ NotCommitted(r) \/ Revokes(r)

\* put_start.
LEMMA PutStartKind ==
  ASSUME CoreInv, NEW r \in Requests, PutStartReply(r)
  PROVE  Reserves(r) \/ NotReserved(r)
<1>1. /\ task[r].pc = "put_start" /\ task[r].pc \in Busy
      /\ UNCHANGED <<req, dram, late, faults, removes, gatewayVars>>
  BY DEF PutStartReply, At, Busy
<1>2. CASE PutStartOk(master, Id(r), task[r].body.len, REPLICA_COUNT)
  BY <1>1, <1>2, ReserveEffects DEF Reserves, InTime
<1>3. CASE ~PutStartOk(master, Id(r), task[r].body.len, REPLICA_COUNT)
  <2>1. /\ OthersSame(r)
        /\ task'[r].pc \in {"finish", "done"}
        /\ task'[r].handle = task[r].handle
        /\ task'[r].body = task[r].body
        /\ task'[r].resp = [status |-> "Miss", write |-> "Failed", body |-> task[r].body]
    BY <1>1, <1>3, WroteEffects DEF PutStartReply, WriteStatuses
  <2>2. task[r].body # NoBody
    BY <1>1, TaskKnown DEF FlowOk
  <2>3. SameObjects(master, master')
    BY <1>3, <2>2, WriterKnown, PutStartCase DEF PutStartReply, CoreInv, TypeOK
  <2>4. QED BY <1>1, <2>1, <2>3 DEF NotReserved, Answers, Keeps, InTime
<1>4. QED BY <1>2, <1>3

\* The chunk.
LEMMA WriteKind ==
  ASSUME CoreInv, NEW r \in Requests, WriteReply(r)
  PROVE  Writes(r)
<1> DEFINE pc == IF StoreWriteOk(r) THEN "put_end" ELSE "put_revoke"
<1>1. /\ task[r].pc = "write" /\ Goto(r, pc) /\ dram' = StoreWrite(r)
      /\ UNCHANGED <<req, master, late, faults, removes, gatewayVars>>
  BY DEF WriteReply, At
<1>2. pc \in PCs
  BY DEF PCs
<1> HIDE DEF pc
<1>3. /\ OthersSame(r) /\ task'[r].pc = pc /\ task'[r].handle = task[r].handle
      /\ task'[r].body = task[r].body /\ task'[r].resp = task[r].resp
  BY <1>1, <1>2, MoveOnEffects DEF gatewayVars, Awaits
<1>4. QED BY <1>1, <1>3, MasterSame DEF Writes, Keeps, InTime, pc

\* put_end.
LEMMA PutEndKind ==
  ASSUME CoreInv, NEW r \in Requests, PutEndReply(r)
  PROVE  Commits(r) \/ NotCommitted(r)
<1>1. /\ task[r].pc = "put_end" /\ task[r].pc \in Busy /\ task[r].pc \in Awaits
      /\ UNCHANGED <<req, dram, late, faults, removes, gatewayVars>> /\ master' = PutEnd(master, Id(r))
  BY DEF PutEndReply, At, Busy, Awaits
<1>2. Id(r) \in Ids /\ master \in MasterStates
  BY <1>1, TaskKnown, WriterKnown DEF FlowOk, CoreInv, TypeOK
<1>3. CASE PutEndOk(master, Id(r))
  <2>1. /\ OthersSame(r)
        /\ task'[r].pc \in {"finish", "done"}
        /\ task'[r].handle = task[r].handle
        /\ task'[r].body = task[r].body
        /\ task'[r].resp = [status |-> "Miss", write |-> "Committed", body |-> task[r].body]
    BY <1>1, <1>3, WroteEffects DEF PutEndReply, WriteStatuses
  <2>2. Restated(master, master', Id(r), "Committed")
    BY <1>1, <1>2, <1>3, PutEndCase
  <2>3. QED BY <1>1, <1>3, <2>1, <2>2 DEF Commits, Answers, Keeps, InTime
<1>4. CASE ~PutEndOk(master, Id(r))
  <2>1. /\ OthersSame(r) /\ task'[r].pc = "put_revoke" /\ task'[r].handle = task[r].handle
        /\ task'[r].body = task[r].body /\ task'[r].resp = task[r].resp
    BY <1>1, <1>4, MoveOnEffects DEF PutEndReply, PCs, gatewayVars
  <2>2. SameObjects(master, master')
    BY <1>1, <1>2, <1>4, PutEndCase
  <2>3. QED BY <1>1, <1>4, <2>1, <2>2 DEF NotCommitted, Keeps, InTime
<1>5. QED BY <1>3, <1>4

\* put_revoke.
LEMMA PutRevokeKind ==
  ASSUME CoreInv, NEW r \in Requests, PutRevokeReply(r)
  PROVE  Revokes(r)
<1>1. /\ task[r].pc = "put_revoke" /\ task[r].pc \in Busy
      /\ UNCHANGED <<req, dram, late, faults, removes, gatewayVars>> /\ master' = PutRevoke(master, Id(r))
  BY DEF PutRevokeReply, At, Busy
<1>2. Id(r) \in Ids /\ master \in MasterStates
  BY <1>1, TaskKnown, WriterKnown DEF FlowOk, CoreInv, TypeOK
<1>3. /\ OthersSame(r)
      /\ task'[r].pc \in {"finish", "done"}
      /\ task'[r].handle = task[r].handle
      /\ task'[r].body = task[r].body
      /\ task'[r].resp = [status |-> "Miss", write |-> "Failed", body |-> task[r].body]
  BY <1>1, WroteEffects DEF PutRevokeReply, WriteStatuses
<1>4. \/ SameObjects(master, master') /\ master.objects[Id(r)].status = "Absent"
      \/ Restated(master, master', Id(r), "Revoked") /\ master.objects[Id(r)].status # "Absent"
  BY <1>1, <1>2, PutRevokeCase DEF PutRevokeOk
<1>5. QED BY <1>1, <1>3, <1>4 DEF Revokes, Answers, Keeps, InTime

\* A call that fails, and a task that is dropped.
LEMMA GivesUpKind ==
  ASSUME CoreInv, NEW r \in Requests, CallFails(r) \/ Cancel(r)
  PROVE  GivesUp(r)
<1>1. /\ UNCHANGED <<req, master, dram, removes>> /\ Abandon(r)
      /\ faults < MaxFaults /\ faults' = faults + 1 /\ task[r].pc \in Awaits
      /\ CallFails(r) => UNCHANGED gatewayVars /\ task[r].pc \in Calls
  BY DEF CallFails, Cancel, Calls, Awaits
<1>2. task[r].resp = NoResponse /\ NoResponse.write # "Committed"
  BY <1>1, TaskKnown DEF FlowOk, Awaits, Ended, NoResponse
<1>3. /\ OthersSame(r) /\ task'[r].handle = task[r].handle /\ task'[r].body = task[r].body
      /\ task'[r].resp.write # "Committed"
      /\ \/ task'[r].pc \in {"finish", "done", "cancelled"}
         \/ task[r].pc \in {"write", "put_end"} /\ task'[r].pc = "put_revoke"
  <2>1. CASE Cancel(r)
    <3>1. Goto(r, "cancelled") /\ result' = result /\ source' = source
      BY <2>1 DEF Cancel, gatewayVars, SF!CancelLeader, SF!CancelWaiter
    <3>2. QED BY <1>1, <1>2, <3>1, MoveOnEffects DEF PCs
  <2>2. CASE CallFails(r) /\ task[r].pc \in {"get", "read"}
    <3>1. Finish(r, "CacheError", "Skipped", NoBody) /\ UNCHANGED gatewayVars
      BY <2>2 DEF CallFails, OnError, Return
    <3>2. /\ OthersSame(r)
          /\ task'[r].pc \in {"finish", "done"}
          /\ task'[r].handle = task[r].handle
          /\ task'[r].body = task[r].body
          /\ task'[r].resp = [status |-> "CacheError", write |-> "Skipped", body |-> NoBody]
      BY <2>2, <3>1, AnswerEffects DEF ResponseStatuses, WriteStatuses
    <3>3. QED BY <3>2
  <2>3. CASE CallFails(r) /\ task[r].pc \in {"put_start", "put_revoke"}
    <3>1. Wrote(r, "Failed") /\ UNCHANGED gatewayVars
      BY <2>3 DEF CallFails, OnError
    <3>2. /\ OthersSame(r)
          /\ task'[r].pc \in {"finish", "done"}
          /\ task'[r].handle = task[r].handle
          /\ task'[r].body = task[r].body
          /\ task'[r].resp = [status |-> "Miss", write |-> "Failed", body |-> task[r].body]
      BY <2>3, <3>1, WroteEffects DEF Busy, WriteStatuses
    <3>3. QED BY <3>2
  <2>4. CASE CallFails(r) /\ task[r].pc \in {"write", "put_end"}
    <3>1. Goto(r, "put_revoke") /\ UNCHANGED gatewayVars
      BY <2>4 DEF CallFails, OnError
    <3>2. QED BY <1>1, <1>2, <2>4, <3>1, MoveOnEffects DEF PCs, gatewayVars
  <2>5. QED BY <1>1, <2>1, <2>2, <2>3, <2>4 DEF Calls
<1>4. QED BY <1>1, <1>3, MasterSame DEF GivesUp, Keeps

\* A call that takes effect late.
LEMMA LatelyKind ==
  ASSUME CoreInv, NEW c \in late, LateCall(c)
  PROVE  Lately(c)
<1>1. c.r \in Requests /\ c.op \in Updates /\ task[c.r].body # NoBody /\ master \in MasterStates
  BY DEF CoreInv, TypeOK, LateInv
<1>2. Id(c.r) \in Ids /\ task[c.r].body.len \in U64
  BY <1>1, WriterKnown
<1>3. UNCHANGED <<req, task, faults, removes>> /\ late' = late \ {c}
  BY DEF LateCall
<1>4. CASE c.op = "put_start"
  <2>1. dram' = dram /\ master' = PutStart(master, Id(c.r), task[c.r].body.len, REPLICA_COUNT)
    BY <1>4 DEF LateCall
  <2>2. \/ SameObjects(master, master')
        \/ \E x : ReservedAt(master, master', Id(c.r), task[c.r].body.len, x)
    BY <1>1, <1>2, <2>1, PutStartCase
  <2>3. QED BY <1>3, <1>4, <2>1, <2>2 DEF Lately
<1>5. CASE c.op = "write"
  BY <1>3, <1>5, MasterSame DEF LateCall, Lately
<1>6. CASE c.op = "put_end"
  <2>1. dram' = dram /\ master' = PutEnd(master, Id(c.r))
    BY <1>6 DEF LateCall
  <2>2. \/ SameObjects(master, master')
        \/ PutEndOk(master, Id(c.r)) /\ Restated(master, master', Id(c.r), "Committed")
    BY <1>1, <1>2, <2>1, PutEndCase
  <2>3. QED BY <1>3, <1>6, <2>1, <2>2 DEF Lately
<1>7. CASE c.op = "put_revoke"
  <2>1. dram' = dram /\ master' = PutRevoke(master, Id(c.r))
    BY <1>7 DEF LateCall
  <2>2. \/ SameObjects(master, master')
        \/ /\ master.objects[Id(c.r)].status # "Absent"
           /\ Restated(master, master', Id(c.r), "Revoked")
    BY <1>1, <1>2, <2>1, PutRevokeCase DEF PutRevokeOk
  <2>3. QED BY <1>3, <1>7, <2>1, <2>2 DEF Lately
<1>8. QED BY <1>1, <1>4, <1>5, <1>6, <1>7 DEF Updates

Idle == SameObjects(master, master') /\ UNCHANGED <<req, task, dram, late, faults, removes>>

\* Every step is one of these.
LEMMA StepKinds ==
  ASSUME CoreInv, [Next]_vars
  PROVE  \/ \E r \in Requests : Aside(r) \/ WriteBack(r) \/ GivesUp(r)
         \/ \E c \in late : Lately(c)
         \/ \E id \in Ids : Removes(id)
         \/ Idle
<1>1. CASE UNCHANGED vars
  BY <1>1, MasterSame DEF Idle, vars
<1>2. ASSUME NEW id \in Ids, RemoveObject(id) PROVE Removes(id)
  BY <1>2, RemoveCase DEF RemoveObject, Removes, CoreInv, TypeOK
<1>3. ASSUME NEW r \in Requests,
             PutStartReply(r) \/ WriteReply(r) \/ PutEndReply(r) \/ PutRevokeReply(r)
      PROVE  WriteBack(r)
  BY <1>3, PutStartKind, WriteKind, PutEndKind, PutRevokeKind DEF WriteBack
<1>4. QED BY <1>1, <1>2, <1>3, AsideSteps, GivesUpKind, LatelyKind DEF Next, Step

-----------------------------------------------------------------------------
(* Reservations: somebody will commit or revoke them. *)

\* A call takes effect late only after a fault.
LateNeedsFault == faults = 0 => late = {}

\* The task that made a reservation keeps it until it commits or revokes it.
LEMMA ReservationStep ==
  ASSUME CoreInv, LateNeedsFault, ReservationOwned, [Next]_vars
  PROVE  LateNeedsFault' /\ ReservationOwned'
<1>0. faults \in Nat
  BY BoundsAssumption DEF CoreInv, TypeOK
<1>1. ASSUME NEW r \in Requests, GivesUp(r) PROVE LateNeedsFault' /\ ReservationOwned'
  BY <1>0, <1>1 DEF GivesUp, LateNeedsFault, ReservationOwned
<1>2. ASSUME NEW c \in late, Lately(c) PROVE LateNeedsFault' /\ ReservationOwned'
  BY <1>0, <1>2 DEF Lately, LateNeedsFault, ReservationOwned
<1> SUFFICES ASSUME \/ \E r \in Requests : Aside(r) \/ WriteBack(r)
                    \/ \E id \in Ids : Removes(id)
                    \/ Idle
             PROVE  LateNeedsFault' /\ ReservationOwned'
  BY <1>1, <1>2, StepKinds
<1>3. UNCHANGED <<req, late, faults>>
  BY DEF Aside, WriteBack, Reserves, NotReserved, Writes, Commits, NotCommitted, Revokes, Removes, Idle,
         Answers, Keeps, InTime
<1>4. LateNeedsFault'
  BY <1>3 DEF LateNeedsFault
<1> SUFFICES ASSUME NEW id \in Ids, master'.objects[id].status = "Reserving", faults = 0
             PROVE  \E r \in Requests : Id(r)' = id /\ task'[r].pc \in Writing
  BY <1>0, <1>3, <1>4 DEF ReservationOwned, Stored, Writing
<1>5. \A r \in Requests : Id(r)' = Id(r)
  BY <1>3 DEF Id
<1>6. ASSUME master.objects[id].status = "Reserving"
      PROVE  \E r \in Requests : Id(r) = id /\ task[r].pc \in Writing
  BY <1>0, <1>6 DEF ReservationOwned, Stored, Writing
<1>7. CASE \E i \in Ids : Removes(i)
  <2>1. task' = task /\ master.objects[id].status = "Reserving"
    BY <1>7 DEF Removes, Forgotten
  <2>2. QED BY <1>5, <1>6, <2>1
<1>8. CASE Idle
  BY <1>5, <1>6, <1>8 DEF Idle, SameObjects
<1>9. ASSUME NEW r \in Requests, Aside(r) \/ WriteBack(r)
      PROVE  \E s \in Requests : Id(s)' = id /\ task'[s].pc \in Writing
  <2>1. OthersSame(r)
    BY <1>9 DEF Aside, WriteBack, Reserves, NotReserved, Writes, Commits, NotCommitted, Revokes, Answers, Keeps
  <2>2. CASE task'[r].pc \in Writing /\ id = Id(r)
    BY <1>5, <2>2
  <2>3. CASE master.objects[id].status = "Reserving" /\ (task[r].pc \notin Writing \/ id # Id(r))
    BY <1>5, <1>6, <2>1, <2>3 DEF OthersSame
  <2>4. CASE Aside(r)
    BY <2>3, <2>4 DEF Aside, Busy, Writing, SameObjects
  <2>5. CASE Reserves(r)
    BY <2>2, <2>3, <2>5 DEF Reserves, ReservedAt, Writing
  <2>6. CASE NotReserved(r)
    BY <2>3, <2>6 DEF NotReserved, SameObjects, Writing
  <2>7. CASE Writes(r) \/ NotCommitted(r)
    BY <2>2, <2>3, <2>7 DEF Writes, NotCommitted, SameObjects, Writing
  <2>8. CASE Commits(r)
    BY <2>3, <2>8 DEF Commits, Restated
  <2>9. CASE Revokes(r)
    BY <2>3, <2>9 DEF Revokes, Restated, SameObjects
  <2>10. QED BY <1>9, <2>4, <2>5, <2>6, <2>7, <2>8, <2>9 DEF WriteBack
<1>10. QED BY <1>7, <1>8, <1>9

\* As long as no call failed and no task was dropped, every reservation has a
\* task that will commit or revoke it, also when an operator removes objects.
THEOREM ReservationsAlwaysOwned == Spec => []ReservationOwned
<1> DEFINE Inv == CoreInv /\ LateNeedsFault /\ ReservationOwned
<1>1. Init => Inv
  <2>1. Init => LateNeedsFault /\ ReservationOwned
    BY DEF Init, LateNeedsFault, ReservationOwned, Stored, NewMaster, NoObject
  <2>2. QED BY <2>1, CoreInit
<1>2. Inv /\ [Next]_vars => Inv'
  BY CoreStep, ReservationStep
<1>3. QED BY <1>1, <1>2, PTL DEF Spec

-----------------------------------------------------------------------------
(* Commits: what is committed was written. While no operator removes       *)
(* objects an id is reserved once, so the task that reserved it is the only*)
(* one that writes its chunk, commits it or revokes it, in time or late.   *)

\* No two segments lie on one node, and the URL that a gateway is told for a node
\* leads to that node.
OneSegmentPerNode == \A i, j \in DOMAIN Layout : Layout[i][1] = Layout[j][1] => i = j
UrlsRight == \A g \in Gateways : \A n \in DOMAIN Deployed[g].nodes : Deployed[g].nodes[n] = n
SoundLayout == OneSegmentPerNode /\ UrlsRight

LateOp(r, ops) == \E c \in late : c.r = r /\ c.op \in ops

\* The task that reserved its id: it still has to write, commit or revoke, it
\* left such a call behind, or it committed.
Owner(r) == task[r].pc \in Writing \/ LateOp(r, Writing) \/ task[r].resp.write = "Committed"

\* The chunk x holds the response b, in the Stores d.
HoldsIn(d, x, b) == x.offset + x.len <= ArenaSize /\ Holds(d[x.node], x.offset, x.len, b)

Taken(id) == master.objects[id].status # "Absent"

OwnersPlace ==
  \A r \in Requests : Owner(r) => Taken(Id(r)) /\ master.objects[Id(r)].replicas = {task[r].handle}

OneOwner == \A r, s \in Requests : Owner(r) /\ Owner(s) /\ Id(r) = Id(s) => r = s

\* A task leaves no call behind unless it gives the write back up.
NothingLate ==
  \A r \in Requests :
    task[r].pc \in {"put_start", "write", "put_end"} \/ task[r].resp.write = "Committed" =>
      \A c \in late : c.r # r

\* put_end is called when the chunk is written.
MayCommit(r) == task[r].pc = "put_end" \/ LateOp(r, {"put_end"})
WrittenFirst == \A r \in Requests : MayCommit(r) => HoldsIn(dram, task[r].handle, task[r].body)

CommitHolds(id, b) ==
  /\ b \in Bodies /\ b.id = id
  /\ \A x \in master.objects[id].replicas : HoldsIn(dram, x, b)
  /\ \A r \in Requests : Owner(r) /\ Id(r) = id => task[r].body = b
CommitsHold ==
  \A id \in Ids : master.objects[id].status = "Committed" => \E b : CommitHolds(id, b)

AckedCommitted ==
  \A r \in Requests : task[r].resp.write = "Committed" =>
    task[r].body # NoBody /\ master.objects[Id(r)].status = "Committed"

OwnInv == OwnersPlace /\ OneOwner /\ NothingLate /\ WrittenFirst /\ CommitsHold /\ AckedCommitted

\* An owner is served, has a response, and holds a chunk.
LEMMA OwnerKnown ==
  ASSUME CoreInv, OwnInv, NEW r \in Requests, Owner(r)
  PROVE  /\ task[r].body # NoBody /\ Id(r) \in Ids
         /\ HoldsPlace(Id(r), task[r].handle) /\ PlacedIn(master.segments, task[r].handle)
<1>1. task[r].body # NoBody
  <2>1. CASE task[r].pc \in Writing
    BY <2>1, TaskKnown DEF FlowOk, Writing, Busy
  <2>2. CASE LateOp(r, Writing)
    BY <2>2 DEF LateOp, CoreInv, LateInv
  <2>3. CASE task[r].resp.write = "Committed"
    BY <2>3 DEF OwnInv, AckedCommitted
  <2>4. QED BY <2>1, <2>2, <2>3 DEF Owner
<1>2. Id(r) \in Ids
  BY <1>1, WriterKnown
<1>3. HoldsPlace(Id(r), task[r].handle)
  BY DEF OwnInv, OwnersPlace, Taken, HoldsPlace
<1>4. QED BY <1>1, <1>2, <1>3, HeldIsPlaced

\* Two chunks on one node that are held for two ids do not overlap.
LEMMA ChunksApart ==
  ASSUME SoundLayout, CoreInv, GrantInv, NEW i \in Ids, NEW j \in Ids, NEW x, NEW y,
         HoldsPlace(i, x), HoldsPlace(j, y), x.node = y.node
  PROVE  (i = j /\ x = y) \/ Apart(x.offset, x.len, y.offset, y.len)
<1>1. PlacedIn(master.segments, x) /\ PlacedIn(master.segments, y)
  BY HeldIsPlaced
<1>2. x.seg \in DOMAIN Layout /\ y.seg \in DOMAIN Layout /\ Layout[x.seg][1] = Layout[y.seg][1]
  BY <1>1 DEF PlacedIn, GrantInv, SegmentsFixed
<1>3. x.seg = y.seg
  BY <1>2 DEF SoundLayout, OneSegmentPerNode
<1>4. QED BY <1>3 DEF GrantInv, PlacesApart

\* A chunk belongs to one id.
LEMMA OneId ==
  ASSUME SoundLayout, CoreInv, GrantInv, NEW i \in Ids, NEW j \in Ids, NEW x,
         HoldsPlace(i, x), HoldsPlace(j, x)
  PROVE  i = j
<1>1. PlacedIn(master.segments, x)
  BY HeldIsPlaced
<1>2. x.offset \in Nat /\ x.len \in Nat /\ x.len > 0
  BY <1>1, U64MaxAssumption DEF PlacedIn, Replica, U64
<1>3. QED BY <1>2, ChunksApart DEF Apart

\* Where a response is written.
LEMMA WrittenTo ==
  ASSUME UrlsRight, CoreInv, NEW r \in Requests, Configured(r)
  PROVE  /\ Serving(req[r]).nodes[task[r].handle.node] = task[r].handle.node
         /\ task[r].handle.node \in Nodes
<1>1. req[r] \in RequestKinds /\ req[r].gateway \in Gateways
  BY TaskKnown, RequestAssumption
<1>2. task[r].handle.node \in DOMAIN Deployed[req[r].gateway].nodes
  BY DEF Configured, Serving
<1>3. Deployed[req[r].gateway].nodes[task[r].handle.node] = task[r].handle.node
  BY <1>1, <1>2 DEF UrlsRight
<1>4. task[r].handle.node \in Range(Deployed[req[r].gateway].nodes)
  BY <1>2, <1>3 DEF Range
<1>5. QED BY <1>1, <1>3, <1>4, StoreAssumption DEF Serving

\* After a write that succeeds, the chunk holds the response.
LEMMA StoreWriteHolds ==
  ASSUME SoundLayout, CoreInv, NEW r \in Requests, task[r].body # NoBody, StoreWriteOk(r)
  PROVE  HoldsIn(StoreWrite(r), task[r].handle, task[r].body)
<1> DEFINE h == task[r].handle
           b == task[r].body
<1>1. Configured(r) /\ WritePreallocatedOk(h.offset, h.len, b)
  BY DEF StoreWriteOk
<1>2. h.node \in Nodes /\ StoreWrite(r) = [dram EXCEPT ![h.node] = WritePreallocated(@, h.offset, h.len, b)]
  BY <1>1, WrittenTo DEF StoreWrite, SoundLayout
<1>3. dram \in [Nodes -> Drams(Bodies)]
  BY DEF CoreInv, TypeOK
<1>4. StoreWrite(r)[h.node] = WritePreallocated(dram[h.node], h.offset, h.len, b)
  BY <1>2, <1>3
<1>5. task[r] \in Tasks /\ b \in Bodies
  BY TaskKnown, WriterKnown
<1>6. h.offset \in Nat /\ h.len \in Nat
  BY <1>5, U64MaxAssumption DEF Tasks, NoHandle, Replica, U64
<1>7. Holds(WritePreallocated(dram[h.node], h.offset, h.len, b), h.offset, h.len, b)
  BY <1>1, <1>2, <1>3, <1>5, <1>6, WritePreallocatedHolds
<1>8. h.offset + h.len <= ArenaSize
  BY <1>1 DEF WritePreallocatedOk
<1>9. QED BY <1>4, <1>7, <1>8 DEF HoldsIn

\* A write leaves the other chunks alone.
LEMMA StoreWriteKeeps ==
  ASSUME SoundLayout, CoreInv, GrantInv, NEW r \in Requests, task[r].body # NoBody, Id(r) \in Ids,
         HoldsPlace(Id(r), task[r].handle), NEW id \in Ids, NEW x, NEW b, HoldsPlace(id, x),
         HoldsIn(dram, x, b), x = task[r].handle => b = task[r].body
  PROVE  HoldsIn(StoreWrite(r), x, b)
<1> DEFINE h == task[r].handle
           w == task[r].body
           new == WritePreallocated(dram[h.node], h.offset, h.len, w)
<1>1. dram \in [Nodes -> Drams(Bodies)]
  BY DEF CoreInv, TypeOK
<1>2. CASE ~Configured(r)
  BY <1>2 DEF StoreWrite
<1>3. CASE StoreWriteOk(r) /\ x = h
  BY <1>3, StoreWriteHolds
<1>4. CASE Configured(r) /\ ~StoreWriteOk(r)
  <2>1. StoreWrite(r) = [dram EXCEPT ![h.node] = dram[h.node]] /\ h.node \in Nodes
    BY <1>4, WrittenTo DEF SoundLayout, StoreWrite, StoreWriteOk, WritePreallocated
  <2>2. StoreWrite(r) = dram
    BY <1>1, <2>1
  <2>3. QED BY <2>2
<1>5. CASE Configured(r) /\ x # h
  <2>1. StoreWrite(r) = [dram EXCEPT ![h.node] = new] /\ h.node \in Nodes
    BY <1>5, WrittenTo DEF StoreWrite, SoundLayout
  <2>2. CASE x.node # h.node
    <3>1. StoreWrite(r)[x.node] = dram[x.node]
      BY <1>1, <2>1, <2>2
    <3>2. QED BY <3>1 DEF HoldsIn
  <2>3. CASE x.node = h.node
    <3>1. Apart(h.offset, h.len, x.offset, x.len)
      BY <1>5, <2>3, ChunksApart
    <3>2. PlacedIn(master.segments, x) /\ PlacedIn(master.segments, h)
      BY HeldIsPlaced
    <3>3. h.offset \in Nat /\ h.len \in Nat /\ x.offset \in Nat /\ x.len \in Nat \ {0} /\ w \in Bodies
      BY <3>2, WriterKnown, U64MaxAssumption DEF PlacedIn, Replica, U64
    <3>4. x.offset + x.len <= ArenaSize /\ Holds(dram[h.node], x.offset, x.len, b)
      BY <2>3 DEF HoldsIn
    <3>5. dram[h.node] \in Drams(Bodies)
      BY <1>1, <2>1
    <3> DEFINE d == dram[h.node]
               o1 == h.offset
               l1 == h.len
               o2 == x.offset
               l2 == x.len
    <3> HIDE DEF h, w, d, o1, l1, o2, l2
    <3>6. /\ d \in Drams(Bodies) /\ w \in Bodies
          /\ o1 \in Nat /\ l1 \in Nat /\ o2 \in Nat /\ l2 \in Nat \ {0}
          /\ o2 + l2 <= ArenaSize /\ Apart(o1, l1, o2, l2)
      BY <3>1, <3>3, <3>4, <3>5 DEF d, o1, l1, o2, l2
    <3>7. /\ WritePreallocated(d, o1, l1, w).allocations[o2] = d.allocations[o2]
          /\ \A o \in Span(o2, l2) : WritePreallocated(d, o1, l1, w).arena[o] = d.arena[o]
      BY <3>6, WritePreallocatedElsewhere
    <3>8. /\ new.allocations[x.offset] = dram[h.node].allocations[x.offset]
          /\ \A o \in Span(x.offset, x.len) : new.arena[o] = dram[h.node].arena[o]
      BY <3>7 DEF d, o1, l1, o2, l2
    <3>9. StoreWrite(r)[x.node] = new
      BY <1>1, <2>1, <2>3
    <3> HIDE DEF new
    <3>10. Holds(new, x.offset, x.len, b)
      BY <3>4, <3>8 DEF Holds
    <3>11. QED BY <3>4, <3>9, <3>10 DEF HoldsIn
  <2>4. QED BY <2>2, <2>3
<1>6. QED BY <1>2, <1>3, <1>4, <1>5 DEF StoreWriteOk

\* What a step may do to owners, objects and chunks.
OldOwner(r) == Owner(r) /\ UNCHANGED <<task[r].handle, task[r].body>>
NewOwner(r) ==
  /\ ~Taken(Id(r))
  /\ Taken(Id(r))' /\ master'.objects[Id(r)].replicas = {task'[r].handle}
OwnersFrom ==
  \/ \A s \in Requests : Owner(s)' => OldOwner(s)
  \/ \E r \in Requests : NewOwner(r) /\ \A s \in Requests \ {r} : Owner(s)' => OldOwner(s)

ObjectsStay ==
  \A id \in Ids : Taken(id) => Taken(id)' /\ master'.objects[id].replicas = master.objects[id].replicas

DramOwned == dram' = dram \/ \E r \in Requests : Owner(r) /\ dram' = StoreWrite(r)

WrittenBefore ==
  \A s \in Requests : MayCommit(s)' =>
    MayCommit(s) \/ (Owner(s) /\ HoldsIn(dram', task[s].handle, task[s].body))

CommitOf(id) ==
  \E r \in Requests : /\ Owner(r) /\ Id(r) = id
                      /\ HoldsIn(dram', task[r].handle, task[r].body)
CommitFrom ==
  \A id \in Ids : master'.objects[id].status = "Committed" =>
    master.objects[id].status = "Committed" \/ CommitOf(id)

\* Chunks that are held keep what owners wrote there.
LEMMA HoldsKept ==
  ASSUME SoundLayout, CoreInv, GrantInv, OwnInv, DramOwned, NEW id \in Ids, NEW x, NEW b,
         HoldsPlace(id, x), HoldsIn(dram, x, b),
         \A r \in Requests : Owner(r) /\ Id(r) = id => b = task[r].body
  PROVE  HoldsIn(dram', x, b)
<1>1. CASE dram' = dram
  BY <1>1
<1>2. ASSUME NEW r \in Requests, Owner(r), dram' = StoreWrite(r) PROVE HoldsIn(dram', x, b)
  <2>1. task[r].body # NoBody /\ Id(r) \in Ids /\ HoldsPlace(Id(r), task[r].handle)
    BY <1>2, OwnerKnown
  <2>2. x = task[r].handle => id = Id(r)
    BY <2>1, OneId
  <2>3. HoldsIn(StoreWrite(r), x, b)
    BY <1>2, <2>1, <2>2, StoreWriteKeeps
  <2>4. QED BY <1>2, <2>3
<1>3. QED BY <1>1, <1>2 DEF DramOwned

\* Such a step keeps the invariant.
LEMMA OwnKept ==
  ASSUME SoundLayout, CoreInv, GrantInv, BodiesFit, OwnInv, req' = req,
         OwnersFrom, ObjectsStay, DramOwned, WrittenBefore, CommitFrom
  PROVE  OwnersPlace' /\ OneOwner' /\ WrittenFirst' /\ CommitsHold'
<1>1. \A r \in Requests : Id(r)' = Id(r)
  BY DEF Id
<1>2. ASSUME NEW r \in Requests, Owner(r)' PROVE OldOwner(r) \/ NewOwner(r)
  BY <1>2 DEF OwnersFrom
<1>3. ASSUME NEW r \in Requests, Owner(r) PROVE Taken(Id(r)) /\ Id(r) \in Ids
  BY <1>3, OwnerKnown DEF OwnInv, OwnersPlace
<1>4. OwnersPlace'
  <2> SUFFICES ASSUME NEW r \in Requests, Owner(r)'
               PROVE  Taken(Id(r))' /\ master'.objects[Id(r)].replicas = {task'[r].handle}
    BY <1>1 DEF OwnersPlace, Taken
  <2>1. CASE OldOwner(r)
    <3>1. Taken(Id(r)) /\ Id(r) \in Ids /\ master.objects[Id(r)].replicas = {task[r].handle}
      BY <1>3, <2>1 DEF OldOwner, OwnInv, OwnersPlace
    <3>2. Taken(Id(r))' /\ master'.objects[Id(r)].replicas = master.objects[Id(r)].replicas
      BY <1>1, <3>1 DEF ObjectsStay, Taken
    <3>3. QED BY <2>1, <3>1, <3>2 DEF OldOwner
  <2>2. QED BY <1>2, <2>1 DEF NewOwner
<1>5. OneOwner'
  <2> SUFFICES ASSUME NEW r \in Requests, NEW s \in Requests, Owner(r)', Owner(s)', Id(r) = Id(s)
               PROVE  r = s
    BY <1>1 DEF OneOwner
  <2>1. CASE OldOwner(r) /\ OldOwner(s)
    BY <2>1 DEF OldOwner, OwnInv, OneOwner
  <2>2. CASE OldOwner(r) /\ NewOwner(s)
    BY <1>3, <2>2 DEF OldOwner, NewOwner
  <2>3. CASE NewOwner(r) /\ OldOwner(s)
    BY <1>3, <2>3 DEF OldOwner, NewOwner
  <2>4. CASE ~OldOwner(r) /\ ~OldOwner(s)
    BY <2>4 DEF OwnersFrom
  <2>5. QED BY <1>2, <2>1, <2>2, <2>3, <2>4
<1>6. ASSUME NEW r \in Requests, MayCommit(r)' PROVE HoldsIn(dram', task'[r].handle, task'[r].body)
  <2>1. Owner(r) /\ Owner(r)'
    BY <1>6 DEF WrittenBefore, MayCommit, Owner, LateOp, Writing
  <2>2. UNCHANGED <<task[r].handle, task[r].body>>
    BY <1>2, <1>3, <2>1 DEF OldOwner, NewOwner
  <2>3. CASE MayCommit(r)
    <3>1. HoldsPlace(Id(r), task[r].handle) /\ Id(r) \in Ids
      BY <2>1, OwnerKnown
    <3>2. HoldsIn(dram, task[r].handle, task[r].body)
      BY <2>3 DEF OwnInv, WrittenFirst
    <3>3. \A s \in Requests : Owner(s) /\ Id(s) = Id(r) => task[r].body = task[s].body
      BY <2>1 DEF OwnInv, OneOwner
    <3>4. HoldsIn(dram', task[r].handle, task[r].body)
      BY <3>1, <3>2, <3>3, HoldsKept
    <3>5. QED BY <2>2, <3>4
  <2>4. QED BY <1>6, <2>2, <2>3 DEF WrittenBefore
<1>7. WrittenFirst'
  BY <1>6 DEF WrittenFirst
<1>8. CommitsHold'
  <2> SUFFICES ASSUME NEW id \in Ids, master'.objects[id].status = "Committed"
               PROVE  \E b : CommitHolds(id, b)'
    BY DEF CommitsHold
  <2>1. CASE master.objects[id].status = "Committed"
    <3>1. PICK b : CommitHolds(id, b)
      BY <2>1 DEF OwnInv, CommitsHold
    <3>2. Taken(id) /\ master'.objects[id].replicas = master.objects[id].replicas
      BY <2>1 DEF ObjectsStay, Taken
    <3>3. ASSUME NEW x \in master'.objects[id].replicas PROVE HoldsIn(dram', x, b)
      <4>1. HoldsPlace(id, x) /\ HoldsIn(dram, x, b)
        BY <3>1, <3>2, <3>3 DEF HoldsPlace, Taken, CommitHolds
      <4>2. \A r \in Requests : Owner(r) /\ Id(r) = id => b = task[r].body
        BY <3>1 DEF CommitHolds
      <4>3. QED BY <4>1, <4>2, HoldsKept
    <3>4. ASSUME NEW r \in Requests, Owner(r)', Id(r)' = id PROVE task'[r].body = b
      <4>1. OldOwner(r)
        BY <1>1, <1>2, <3>2, <3>4 DEF NewOwner
      <4>2. QED BY <1>1, <3>1, <3>4, <4>1 DEF OldOwner, CommitHolds
    <3>5. CommitHolds(id, b)'
      BY <3>1, <3>3, <3>4 DEF CommitHolds
    <3>6. QED BY <3>5
  <2>2. ASSUME CommitOf(id) PROVE \E b : CommitHolds(id, b)'
    <3>1. PICK r \in Requests : Owner(r) /\ Id(r) = id /\ HoldsIn(dram', task[r].handle, task[r].body)
      BY <2>2 DEF CommitOf
    <3>2. task[r].body # NoBody /\ Taken(id) /\ master'.objects[id].replicas = {task[r].handle}
      <4>1. Taken(id) /\ master.objects[id].replicas = {task[r].handle}
        BY <3>1 DEF OwnInv, OwnersPlace
      <4>2. QED BY <3>1, <4>1, OwnerKnown DEF ObjectsStay
    <3>3. task[r].body \in Bodies /\ task[r].body.id = id
      BY <3>1, <3>2 DEF BodiesFit, Own
    <3>4. ASSUME NEW s \in Requests, Owner(s)', Id(s)' = id PROVE task'[s].body = task[r].body
      <4>1. OldOwner(s)
        BY <1>1, <1>2, <3>2, <3>4 DEF NewOwner
      <4>2. s = r
        BY <1>1, <3>1, <3>4, <4>1 DEF OldOwner, OwnInv, OneOwner
      <4>3. QED BY <4>1, <4>2 DEF OldOwner
    <3>5. PICK b : b = task[r].body
      OBVIOUS
    <3>6. CommitHolds(id, b)'
      BY <3>1, <3>2, <3>3, <3>4, <3>5 DEF CommitHolds
    <3>7. QED BY <3>6
  <2>3. QED BY <2>1, <2>2 DEF CommitFrom
<1>9. QED BY <1>4, <1>5, <1>7, <1>8

\* A step that leaves no new late call of another task.
OthersLate(r) == \A c : c.r # r => (c \in late' => c \in late)

\* The other tasks stay owners, or may commit, as before.
LEMMA OthersStay ==
  ASSUME NEW r \in Requests, NEW s \in Requests, s # r, OthersSame(r), OthersLate(r)
  PROVE  /\ Owner(s)' => OldOwner(s)
         /\ MayCommit(s)' => MayCommit(s)
<1>1. task'[s] = task[s]
  BY DEF OthersSame
<1>2. \A ops : LateOp(s, ops)' => LateOp(s, ops)
  BY DEF LateOp, OthersLate
<1>3. QED BY <1>1, <1>2 DEF Owner, OldOwner, MayCommit

\* What happens to the objects: nothing is forgotten.
LEMMA ObjectsKept ==
  ASSUME \/ SameObjects(master, master')
         \/ \E id : \E status \in {"Committed", "Revoked"} :
              Restated(master, master', id, status) /\ master.objects[id].status # "Absent"
         \/ \E id, len, x : ReservedAt(master, master', id, len, x)
  PROVE  ObjectsStay
<1> SUFFICES ASSUME NEW i \in Ids, Taken(i)
             PROVE  Taken(i)' /\ master'.objects[i].replicas = master.objects[i].replicas
  BY DEF ObjectsStay
<1>1. CASE SameObjects(master, master')
  BY <1>1 DEF SameObjects, Taken
<1>2. ASSUME NEW id, NEW status \in {"Committed", "Revoked"}, Restated(master, master', id, status)
      PROVE  Taken(i)' /\ master'.objects[i].replicas = master.objects[i].replicas
  <2>1. CASE i = id
    BY <1>2, <2>1 DEF Restated, Taken
  <2>2. CASE i # id
    BY <1>2, <2>2 DEF Restated, Taken
  <2>3. QED BY <2>1, <2>2
<1>3. ASSUME NEW id, NEW len, NEW x, ReservedAt(master, master', id, len, x)
      PROVE  Taken(i)' /\ master'.objects[i].replicas = master.objects[i].replicas
  BY <1>3 DEF ReservedAt, Taken
<1>4. QED BY <1>1, <1>2, <1>3

\* The steps away from the write back.
LEMMA OwnAside ==
  ASSUME SoundLayout, CoreInv, GrantInv, BodiesFit, OwnInv, NEW r \in Requests, Aside(r)
  PROVE  OwnInv'
<1>1. /\ SameObjects(master, master') /\ UNCHANGED <<req, dram, late>> /\ OthersSame(r) /\ OthersLate(r)
      /\ \A s \in Requests : Id(s)' = Id(s)
  BY DEF Aside, OthersLate, Id
<1>2. /\ task[r].pc \notin Busy /\ task'[r].pc \notin Writing
      /\ task[r].body # NoBody => task'[r].pc # "put_start"
      /\ task'[r].resp.write = "Committed" => task'[r].resp = task[r].resp
      /\ HandleEffect(r) /\ BodyEffect(r) /\ FlowOk(req[r], task[r], role[r])
  BY TaskKnown DEF Aside, TaskEffects
<1>3. ASSUME task[r].body # NoBody
      PROVE  UNCHANGED <<task[r].handle, task[r].body>> /\ task'[r].pc \notin Busy
  BY <1>2, <1>3 DEF HandleEffect, BodyEffect, FlowOk, Busy, Ended, Writing
<1>4. Owner(r)' => OldOwner(r)
  <2> SUFFICES ASSUME Owner(r)' PROVE OldOwner(r)
    OBVIOUS
  <2>1. Owner(r)
    BY <1>1, <1>2 DEF Owner, LateOp
  <2>2. QED BY <1>3, <2>1, OwnerKnown DEF OldOwner
<1>5. MayCommit(r)' => MayCommit(r)
  BY <1>1, <1>2 DEF MayCommit, LateOp, Writing
<1>6. OwnersFrom /\ WrittenBefore
  BY <1>1, <1>4, <1>5, OthersStay DEF OwnersFrom, WrittenBefore
<1>7. ObjectsStay /\ DramOwned /\ CommitFrom
  BY <1>1, ObjectsKept DEF DramOwned, CommitFrom, SameObjects
<1>8. NothingLate'
  <2> SUFFICES ASSUME NEW s \in Requests, NEW c \in late, c.r = s,
                      \/ task'[s].pc \in {"put_start", "write", "put_end"}
                      \/ task'[s].resp.write = "Committed"
               PROVE  FALSE
    BY <1>1 DEF NothingLate
  <2>1. CASE s # r
    BY <1>1, <2>1 DEF OwnInv, NothingLate, OthersSame
  <2>2. CASE s = r
    <3>1. task[r].body # NoBody
      BY <2>2 DEF CoreInv, LateInv
    <3>2. task'[r].resp.write = "Committed"
      BY <1>3, <2>2, <3>1 DEF Busy
    <3>3. QED BY <1>2, <2>2, <3>2 DEF OwnInv, NothingLate
  <2>3. QED BY <2>1, <2>2
<1>9. AckedCommitted'
  <2> SUFFICES ASSUME NEW s \in Requests, task'[s].resp.write = "Committed"
               PROVE  task'[s].body # NoBody /\ master'.objects[Id(s)].status = "Committed"
    BY <1>1 DEF AckedCommitted
  <2>1. task[s].resp.write = "Committed"
    BY <1>1, <1>2 DEF OthersSame
  <2>2. task[s].body # NoBody /\ master.objects[Id(s)].status = "Committed"
    BY <2>1 DEF OwnInv, AckedCommitted
  <2>3. QED BY <1>1, <1>3, <2>2 DEF OthersSame, SameObjects
<1>10. QED BY <1>1, <1>6, <1>7, <1>8, <1>9, OwnKept DEF OwnInv

\* The acknowledged commits of the other tasks stay, unless their object changes.
LEMMA OthersAcked ==
  ASSUME CoreInv, OwnInv, NEW r \in Requests, NEW s \in Requests, s # r, OthersSame(r), req' = req,
         task'[s].resp.write = "Committed",
         \A id \in Ids : master.objects[id].status = "Committed" =>
           \/ master'.objects[id].status = "Committed"
           \/ id = Id(r) /\ Owner(r)
  PROVE  task'[s].body # NoBody /\ master'.objects[Id(s)].status = "Committed" /\ Id(s)' = Id(s)
<1>1. task'[s] = task[s] /\ Id(s)' = Id(s)
  BY DEF OthersSame, Id
<1>2. task[s].body # NoBody /\ master.objects[Id(s)].status = "Committed" /\ Owner(s)
  BY <1>1 DEF OwnInv, AckedCommitted, Owner
<1>3. Id(s) \in Ids /\ (Owner(r) => Id(s) # Id(r))
  BY <1>2, WriterKnown DEF OwnInv, OneOwner
<1>4. QED BY <1>1, <1>2, <1>3

\* The steps of the write back.
LEMMA OwnWriteBack ==
  ASSUME SoundLayout, CoreInv, GrantInv, BodiesFit, OwnInv, NEW r \in Requests, WriteBack(r)
  PROVE  OwnInv'
<1>1. UNCHANGED <<req, late>> /\ OthersSame(r) /\ OthersLate(r) /\ task'[r].body = task[r].body
  BY DEF WriteBack, Reserves, NotReserved, Writes, Commits, NotCommitted, Revokes, Answers, Keeps, InTime, OthersLate
<1>2. task[r].pc \in Busy
  BY DEF WriteBack, Reserves, NotReserved, Writes, Commits, NotCommitted, Revokes, Busy
<1>3. /\ task[r].body # NoBody /\ task[r].resp.write # "Committed" /\ Id(r) \in Ids
      /\ Id(r)' = Id(r)
  BY <1>1, <1>2, TaskKnown, WriterKnown DEF FlowOk, Busy, Ended, NoResponse, Id
<1>4. ASSUME task[r].pc \in {"put_start", "write", "put_end"} PROVE \A ops : ~LateOp(r, ops) /\ ~LateOp(r, ops)'
  BY <1>1, <1>4 DEF OwnInv, NothingLate, LateOp
<1>5. task'[r].pc \in {"put_start", "write", "put_end"} \/ task'[r].resp.write = "Committed" =>
        task[r].pc \in {"put_start", "write", "put_end"}
  BY <1>3 DEF WriteBack, Reserves, NotReserved, Writes, Commits, NotCommitted, Revokes, Answers
<1>6. NothingLate'
  <2> SUFFICES ASSUME NEW s \in Requests, NEW c \in late, c.r = s,
                      \/ task'[s].pc \in {"put_start", "write", "put_end"}
                      \/ task'[s].resp.write = "Committed"
               PROVE  FALSE
    BY <1>1 DEF NothingLate
  <2>1. QED BY <1>1, <1>5 DEF OwnInv, NothingLate, OthersSame
<1>7. ASSUME ~Reserves(r) PROVE (Owner(r)' => OldOwner(r)) /\ OwnersFrom
  <2>1. task'[r].handle = task[r].handle
    BY <1>7 DEF WriteBack, NotReserved, Writes, Commits, NotCommitted, Revokes, Answers, Keeps
  <2>2. Owner(r)' => Owner(r)
    <3>1. CASE task[r].pc \in Writing
      BY <3>1 DEF Owner
    <3>2. CASE NotReserved(r)
      BY <1>4, <3>2 DEF NotReserved, Answers, Owner, Writing
    <3>3. QED BY <1>7, <3>1, <3>2 DEF WriteBack, Writes, Commits, NotCommitted, Revokes, Writing
  <2>3. QED BY <1>1, <2>1, <2>2, OthersStay DEF OldOwner, OwnersFrom
<1>8. ASSUME MayCommit(r)' => MayCommit(r) \/ (Owner(r) /\ HoldsIn(dram', task[r].handle, task[r].body))
      PROVE  WrittenBefore
  BY <1>1, <1>8, OthersStay DEF WrittenBefore
<1>9. ASSUME \A id \in Ids : master.objects[id].status = "Committed" =>
               \/ master'.objects[id].status = "Committed"
               \/ id = Id(r) /\ Owner(r),
             task'[r].resp.write = "Committed" => master'.objects[Id(r)].status = "Committed"
      PROVE  AckedCommitted'
  <2> SUFFICES ASSUME NEW s \in Requests, task'[s].resp.write = "Committed"
               PROVE  task'[s].body # NoBody /\ master'.objects[Id(s)].status = "Committed" /\ Id(s)' = Id(s)
    BY DEF AckedCommitted
  <2>1. CASE s = r
    BY <1>1, <1>3, <1>9, <2>1
  <2>2. CASE s # r
    BY <1>1, <1>9, <2>2, OthersAcked
  <2>3. QED BY <2>1, <2>2
<1>10. ASSUME OwnersFrom, ObjectsStay, DramOwned, WrittenBefore, CommitFrom, AckedCommitted'
       PROVE  OwnInv'
  BY <1>1, <1>6, <1>10, OwnKept DEF OwnInv
<1>11. CASE Reserves(r)
  <2>1. /\ ReservedAt(master, master', Id(r), task[r].body.len, task'[r].handle)
        /\ task[r].pc = "put_start" /\ task'[r].pc = "write" /\ task'[r].resp = task[r].resp /\ dram' = dram
    BY <1>11 DEF Reserves
  <2>2. ObjectsStay
    BY <2>1, ObjectsKept
  <2>3. NewOwner(r)
    BY <1>3, <2>1 DEF NewOwner, Taken, ReservedAt
  <2>4. OwnersFrom
    BY <1>1, <2>3, OthersStay DEF OwnersFrom
  <2>5. WrittenBefore
    BY <1>4, <1>8, <2>1 DEF MayCommit
  <2>6. \A id \in Ids : master'.objects[id].status = "Committed" <=> master.objects[id].status = "Committed"
    BY <2>1 DEF ReservedAt
  <2>7. QED BY <1>3, <1>9, <1>10, <2>1, <2>2, <2>4, <2>5, <2>6 DEF CommitFrom, DramOwned
<1>12. CASE NotReserved(r) \/ NotCommitted(r)
  <2>1. SameObjects(master, master') /\ dram' = dram /\ task'[r].resp.write # "Committed"
    BY <1>3, <1>12 DEF NotReserved, NotCommitted, Answers
  <2>2. MayCommit(r)' => MayCommit(r)
    BY <1>4, <1>12 DEF NotReserved, NotCommitted, Answers, MayCommit
  <2>3. ~Reserves(r)
    BY <1>12 DEF Reserves, NotReserved, NotCommitted, Answers
  <2>4. QED BY <1>7, <1>8, <1>9, <1>10, <2>1, <2>2, <2>3, ObjectsKept DEF CommitFrom, DramOwned, SameObjects
<1>13. CASE Writes(r)
  <2>1. /\ SameObjects(master, master') /\ dram' = StoreWrite(r) /\ task'[r].resp = task[r].resp
        /\ task[r].pc = "write" /\ (task'[r].pc = "put_end" => StoreWriteOk(r))
    BY <1>13 DEF Writes
  <2>2. Owner(r)
    BY <2>1 DEF Owner, Writing
  <2>3. MayCommit(r)' => HoldsIn(dram', task[r].handle, task[r].body)
    BY <1>3, <1>4, <2>1, StoreWriteHolds DEF MayCommit
  <2>4. ~Reserves(r)
    BY <2>1 DEF Reserves
  <2>5. DramOwned
    BY <2>1, <2>2 DEF DramOwned
  <2>6. QED BY <1>3, <1>7, <1>8, <1>9, <1>10, <2>1, <2>2, <2>3, <2>4, <2>5, ObjectsKept DEF CommitFrom, SameObjects
<1>14. CASE Commits(r)
  <2>1. /\ Restated(master, master', Id(r), "Committed") /\ dram' = dram /\ task[r].pc = "put_end"
        /\ master.objects[Id(r)].status # "Absent"
    BY <1>14 DEF Commits, Answers, PutEndOk
  <2>2. Owner(r) /\ MayCommit(r)
    BY <2>1 DEF Owner, Writing, MayCommit
  <2>3. CommitOf(Id(r))
    BY <2>1, <2>2 DEF CommitOf, OwnInv, WrittenFirst
  <2>4. CommitFrom
    BY <2>1, <2>3 DEF CommitFrom, Restated
  <2>5. ~Reserves(r)
    BY <2>1 DEF Reserves
  <2>6. ObjectsStay
    BY <2>1, ObjectsKept
  <2>7. /\ \A id \in Ids : master.objects[id].status = "Committed" => master'.objects[id].status = "Committed"
        /\ master'.objects[Id(r)].status = "Committed"
    BY <2>1 DEF Restated
  <2>8. QED BY <1>7, <1>8, <1>9, <1>10, <2>1, <2>2, <2>4, <2>5, <2>6, <2>7 DEF DramOwned
<1>15. CASE Revokes(r)
  <2>1. /\ dram' = dram /\ task[r].pc = "put_revoke" /\ task'[r].pc \in {"finish", "done"}
        /\ task'[r].resp.write = "Failed"
        /\ \/ SameObjects(master, master')
           \/ Restated(master, master', Id(r), "Revoked") /\ master.objects[Id(r)].status # "Absent"
    BY <1>15 DEF Revokes, Answers
  <2>2. Owner(r)
    BY <2>1 DEF Owner, Writing
  <2>3. MayCommit(r)' => MayCommit(r)
    BY <1>1, <2>1 DEF MayCommit, LateOp
  <2>4. ~Reserves(r)
    BY <2>1 DEF Reserves
  <2>5. ObjectsStay
    BY <2>1, ObjectsKept
  <2>6. \A id \in Ids : /\ master'.objects[id].status = "Committed" => master.objects[id].status = "Committed"
                        /\ id # Id(r) => master'.objects[id].status = master.objects[id].status
    BY <2>1 DEF SameObjects, Restated
  <2>7. QED BY <1>7, <1>8, <1>9, <1>10, <2>1, <2>2, <2>3, <2>4, <2>5, <2>6 DEF CommitFrom, DramOwned
<1>16. QED BY <1>11, <1>12, <1>13, <1>14, <1>15 DEF WriteBack

\* A call fails, or a task is dropped.
LEMMA OwnGivesUp ==
  ASSUME SoundLayout, CoreInv, GrantInv, BodiesFit, OwnInv, NEW r \in Requests, GivesUp(r)
  PROVE  OwnInv'
<1>1. /\ OthersSame(r) /\ UNCHANGED <<req, dram, task[r].handle, task[r].body>> /\ SameObjects(master, master')
      /\ task'[r].resp.write # "Committed"
      /\ task'[r].pc \notin {"put_start", "write", "put_end"}
      /\ task'[r].pc \in Writing => task[r].pc \in Writing
  BY DEF GivesUp, Keeps, Writing
<1>2. \A c \in late' : c \in late \/ (c.r = r /\ c.op = task[r].pc)
  BY DEF GivesUp, Abandon
<1>3. OthersLate(r)
  BY <1>2 DEF OthersLate
<1>4. Owner(r)' => OldOwner(r)
  BY <1>1, <1>2 DEF Owner, OldOwner, LateOp
<1>5. MayCommit(r)' => MayCommit(r)
  BY <1>1, <1>2 DEF MayCommit, LateOp
<1>6. OwnersFrom /\ WrittenBefore
  BY <1>1, <1>3, <1>4, <1>5, OthersStay DEF OwnersFrom, WrittenBefore
<1>7. ObjectsStay /\ DramOwned /\ CommitFrom
  BY <1>1, ObjectsKept DEF DramOwned, CommitFrom, SameObjects
<1>8. NothingLate'
  <2> SUFFICES ASSUME NEW s \in Requests, NEW c \in late', c.r = s,
                      \/ task'[s].pc \in {"put_start", "write", "put_end"}
                      \/ task'[s].resp.write = "Committed"
               PROVE  FALSE
    BY DEF NothingLate
  <2>1. QED BY <1>1, <1>2 DEF OwnInv, NothingLate, OthersSame
<1>9. AckedCommitted'
  <2> SUFFICES ASSUME NEW s \in Requests, task'[s].resp.write = "Committed"
               PROVE  task'[s].body # NoBody /\ master'.objects[Id(s)].status = "Committed" /\ Id(s)' = Id(s)
    BY DEF AckedCommitted
  <2>1. s # r
    BY <1>1
  <2>2. \A id \in Ids : master'.objects[id] = master.objects[id]
    BY <1>1 DEF SameObjects
  <2>3. QED BY <1>1, <2>1, <2>2, OthersAcked
<1>10. QED BY <1>1, <1>6, <1>7, <1>8, <1>9, OwnKept DEF OwnInv

\* A call takes effect late.
LEMMA OwnLately ==
  ASSUME SoundLayout, CoreInv, GrantInv, BodiesFit, OwnInv, NEW c \in late, Lately(c)
  PROVE  OwnInv'
<1> DEFINE r == c.r
<1>1. UNCHANGED <<req, task>> /\ late' \subseteq late /\ r \in Requests /\ task[r].body # NoBody /\ Id(r) \in Ids
  <2>1. r \in Requests /\ task[r].body # NoBody
    BY DEF CoreInv, TypeOK, LateInv
  <2>2. QED BY <2>1, WriterKnown DEF Lately
<1>2. /\ c.op \in Writing => Owner(r)
      /\ c.op = "put_end" => MayCommit(r)
  BY DEF Owner, MayCommit, LateOp
<1>3. OwnersFrom /\ WrittenBefore
  BY <1>1 DEF OwnersFrom, WrittenBefore, Owner, OldOwner, MayCommit, LateOp
<1>4. NothingLate'
  BY <1>1 DEF OwnInv, NothingLate
<1> HIDE DEF r
<1>5. ASSUME \A id \in Ids : master.objects[id].status = "Committed" =>
               master'.objects[id].status = "Committed" \/ (id = Id(r) /\ Owner(r))
      PROVE  AckedCommitted'
  <2> SUFFICES ASSUME NEW s \in Requests, task[s].resp.write = "Committed"
               PROVE  task[s].body # NoBody /\ master'.objects[Id(s)].status = "Committed" /\ Id(s)' = Id(s)
    BY <1>1 DEF AckedCommitted
  <2>1. task[s].body # NoBody /\ master.objects[Id(s)].status = "Committed" /\ Owner(s) /\ Id(s)' = Id(s)
    BY <1>1 DEF OwnInv, AckedCommitted, Owner, Id
  <2>2. Id(s) \in Ids /\ s # r
    BY <2>1, WriterKnown DEF OwnInv, NothingLate, r
  <2>3. QED BY <1>1, <1>5, <2>1, <2>2 DEF OwnInv, OneOwner
<1>6. ASSUME ObjectsStay, DramOwned, CommitFrom, AckedCommitted' PROVE OwnInv'
  BY <1>1, <1>3, <1>4, <1>6, OwnKept DEF OwnInv
<1>7. CASE SameObjects(master, master') /\ dram' = dram
  BY <1>5, <1>6, <1>7, ObjectsKept DEF SameObjects, CommitFrom, DramOwned
<1>8. CASE c.op = "write" /\ dram' = StoreWrite(r) /\ SameObjects(master, master')
  <2>1. DramOwned
    BY <1>1, <1>2, <1>8 DEF DramOwned, Writing
  <2>2. QED BY <1>5, <1>6, <1>8, <2>1, ObjectsKept DEF SameObjects, CommitFrom
<1>9. ASSUME NEW x, ReservedAt(master, master', Id(r), task[r].body.len, x), dram' = dram PROVE OwnInv'
  <2>1. ObjectsStay
    BY <1>9, ObjectsKept
  <2>2. \A id \in Ids : master'.objects[id].status = "Committed" <=> master.objects[id].status = "Committed"
    BY <1>9 DEF ReservedAt
  <2>3. QED BY <1>5, <1>6, <1>9, <2>1, <2>2 DEF CommitFrom, DramOwned
<1>10. CASE /\ c.op = "put_end" /\ dram' = dram
            /\ PutEndOk(master, Id(r)) /\ Restated(master, master', Id(r), "Committed")
  <2>1. ObjectsStay
    BY <1>10, ObjectsKept DEF PutEndOk
  <2>2. CommitOf(Id(r))
    BY <1>1, <1>2, <1>10 DEF CommitOf, OwnInv, WrittenFirst, Writing
  <2>3. CommitFrom
    BY <1>10, <2>2 DEF CommitFrom, Restated
  <2>4. \A id \in Ids : master.objects[id].status = "Committed" => master'.objects[id].status = "Committed"
    BY <1>10 DEF Restated
  <2>5. QED BY <1>5, <1>6, <1>10, <2>1, <2>3, <2>4 DEF DramOwned
<1>11. CASE /\ c.op = "put_revoke" /\ dram' = dram
            /\ master.objects[Id(r)].status # "Absent" /\ Restated(master, master', Id(r), "Revoked")
  <2>1. ObjectsStay
    BY <1>11, ObjectsKept
  <2>2. \A id \in Ids : /\ master'.objects[id].status = "Committed" => master.objects[id].status = "Committed"
                        /\ id # Id(r) => master'.objects[id].status = master.objects[id].status
    BY <1>11 DEF Restated
  <2>3. Owner(r)
    BY <1>2, <1>11 DEF Writing
  <2>4. QED BY <1>5, <1>6, <1>11, <2>1, <2>2, <2>3 DEF CommitFrom, DramOwned
<1>12. QED BY <1>7, <1>8, <1>9, <1>10, <1>11 DEF Lately, r

\* The invariants that make commits sound, until an operator removes an object.
CommitInv == CoreInv /\ GrantInv /\ BodiesFit /\ ResultsFit /\ (removes = 0 => OwnInv)

\* Every step keeps them.
LEMMA CommitStep ==
  ASSUME SoundLayout, CommitInv, [Next]_vars
  PROVE  CommitInv'
<1>1. CoreInv' /\ Effects /\ GrantInv' /\ BodiesFit' /\ ResultsFit'
  BY CoreStep, StepEffects, GrantStep, BodiesFitStep DEF CommitInv
<1>2. ASSUME removes = 0 => OwnInv', removes' = 0 => removes = 0 PROVE CommitInv'
  BY <1>1, <1>2 DEF CommitInv
<1>3. ASSUME NEW id \in Ids, Removes(id) PROVE CommitInv'
  <2>1. removes' # 0
    BY <1>3, BoundsAssumption DEF Removes, CommitInv, CoreInv, TypeOK
  <2>2. QED BY <1>1, <2>1 DEF CommitInv
<1>4. CASE Idle
  <2> SUFFICES ASSUME removes = 0 PROVE OwnInv'
    BY <1>2, <1>4 DEF Idle
  <2>1. \A s \in Requests : (Owner(s)' => OldOwner(s)) /\ (MayCommit(s)' => MayCommit(s))
    BY <1>4 DEF Idle, Owner, OldOwner, MayCommit, LateOp
  <2>2. OwnersFrom /\ WrittenBefore /\ ObjectsStay /\ DramOwned /\ CommitFrom
    BY <1>4, <2>1, ObjectsKept DEF Idle, OwnersFrom, WrittenBefore, DramOwned, CommitFrom, SameObjects
  <2>3. NothingLate' /\ AckedCommitted'
    BY <1>4 DEF Idle, SameObjects, CommitInv, OwnInv, NothingLate, AckedCommitted, Id
  <2>4. QED BY <1>4, <2>2, <2>3, OwnKept DEF Idle, OwnInv, CommitInv
<1>5. ASSUME NEW r \in Requests, Aside(r) \/ WriteBack(r) \/ GivesUp(r) PROVE CommitInv'
  <2>1. removes' = removes
    BY <1>5 DEF Aside, WriteBack, Reserves, NotReserved, Writes, Commits, NotCommitted, Revokes, GivesUp,
                Answers, Keeps
  <2>2. removes = 0 => OwnInv'
    BY <1>5, OwnAside, OwnWriteBack, OwnGivesUp DEF CommitInv
  <2>3. QED BY <1>2, <2>1, <2>2
<1>6. ASSUME NEW c \in late, Lately(c) PROVE CommitInv'
  <2>1. removes = 0 => OwnInv'
    BY <1>6, OwnLately DEF CommitInv
  <2>2. QED BY <1>2, <1>6, <2>1 DEF Lately
<1>7. QED BY <1>3, <1>4, <1>5, <1>6, StepKinds DEF CommitInv

\* They hold at first.
LEMMA CommitInit == Init => CommitInv
<1> SUFFICES ASSUME Init PROVE CommitInv
  OBVIOUS
<1>1. \A r \in Requests : task[r].pc = "start" /\ task[r].resp.write = "Skipped"
  BY DEF Init, NoResponse
<1>2. late = {} /\ \A id \in Ids : master.objects[id].status = "Absent"
  BY DEF Init, NewMaster, NoObject
<1>3. \A r \in Requests : ~Owner(r) /\ ~MayCommit(r)
  BY <1>1, <1>2 DEF Owner, MayCommit, LateOp, Writing
<1>4. OwnInv
  BY <1>1, <1>2, <1>3
  DEF OwnInv, OwnersPlace, OneOwner, NothingLate, WrittenFirst, CommitsHold, AckedCommitted
<1>5. QED BY <1>4, CoreInit, GrantInit, FitInit DEF CommitInv, FitInv

\* What a chunk that holds a response reads as.
LEMMA HoldsReads ==
  ASSUME CoreInv, NEW x, NEW b \in Bodies, PlacedIn(master.segments, x), HoldsIn(dram, x, b)
  PROVE  /\ ReadOutcome(dram[x.node], x.offset, x.len) = "Ok"
         /\ ReadContent(dram[x.node], x.offset, x.len) = b
<1>1. x.offset \in Nat /\ x.len \in Nat \ {0} /\ x.node \in Nodes
  BY U64MaxAssumption DEF PlacedIn, Replica, U64
<1>2. dram[x.node] \in Drams(Bodies) /\ Sealed(dram[x.node])
  BY <1>1 DEF CoreInv, TypeOK, DramSealed
<1>3. Proper(Bodies)
  BY NoneAssumption DEF Proper
<1>4. x.offset + x.len <= ArenaSize /\ Holds(dram[x.node], x.offset, x.len, b)
  BY DEF HoldsIn
<1>5. QED BY <1>1, <1>2, <1>3, <1>4, ReadHolds

\* With one segment on each node and URLs that lead to the node they are
\* configured for, and until an operator removes an object, a committed object
\* can be read where its replica says, whatever interleaves, fails or arrives
\* late.
THEOREM CommitsAlwaysWritten ==
  ASSUME SoundLayout
  PROVE  Spec => [](removes = 0 => CommittedIsWritten)
<1> DEFINE UntilRemoved == removes = 0 => CommittedIsWritten
<1>1. CommitInv => UntilRemoved
  <2> SUFFICES ASSUME CommitInv, removes = 0, NEW id \in Ids, Stored(id) = "Committed",
                      NEW x \in master.objects[id].replicas
               PROVE  /\ ReadOutcome(dram[x.node], x.offset, x.len) = "Ok"
                      /\ ReadContent(dram[x.node], x.offset, x.len).id = id
    BY DEF CommittedIsWritten
  <2>1. PICK b : CommitHolds(id, b)
    BY DEF CommitInv, OwnInv, CommitsHold, Stored
  <2>2. b \in Bodies /\ b.id = id /\ HoldsIn(dram, x, b)
    BY <2>1 DEF CommitHolds
  <2>3. PlacedIn(master.segments, x)
    BY HeldIsPlaced DEF HoldsPlace, Stored, CommitInv
  <2>4. QED BY <2>2, <2>3, HoldsReads DEF CommitInv
<1>2. CommitInv /\ [Next]_vars => CommitInv'
  BY CommitStep
<1>3. QED BY <1>1, <1>2, CommitInit, PTL DEF Spec

\* Under the same conditions, and for as long, a client told "committed" finds its
\* own response in the cache from then on.
THEOREM AckedCommitsStay ==
  ASSUME SoundLayout
  PROVE  Spec => [](removes = 0 => AckedCommitStays)
<1> DEFINE UntilRemoved == removes = 0 => AckedCommitStays
<1>1. CommitInv => UntilRemoved
  <2> SUFFICES ASSUME CommitInv, removes = 0, NEW r \in Requests, task[r].resp.write = "Committed"
               PROVE  /\ Stored(Id(r)) = "Committed"
                      /\ \A x \in master.objects[Id(r)].replicas :
                           ReadContent(dram[x.node], x.offset, x.len).by = r
    BY DEF AckedCommitStays
  <2>1. task[r].body # NoBody /\ master.objects[Id(r)].status = "Committed" /\ Owner(r)
    BY DEF CommitInv, OwnInv, AckedCommitted, Owner
  <2>2. Id(r) \in Ids /\ task[r].body \in Bodies /\ task[r].body.by = r
    BY <2>1, WriterKnown DEF CommitInv, BodiesFit, Own
  <2>3. PICK b : CommitHolds(Id(r), b)
    BY <2>1, <2>2 DEF CommitInv, OwnInv, CommitsHold
  <2>4. b = task[r].body /\ \A x \in master.objects[Id(r)].replicas : HoldsIn(dram, x, b)
    BY <2>1, <2>3 DEF CommitHolds
  <2>5. \A x \in master.objects[Id(r)].replicas : PlacedIn(master.segments, x)
    BY <2>1, <2>2, HeldIsPlaced DEF HoldsPlace, CommitInv
  <2>6. \A x \in master.objects[Id(r)].replicas : ReadContent(dram[x.node], x.offset, x.len) = b
    BY <2>2, <2>4, <2>5, HoldsReads DEF CommitInv
  <2>7. QED BY <2>1, <2>2, <2>4, <2>6 DEF Stored
<1>2. CommitInv /\ [Next]_vars => CommitInv'
  BY CommitStep
<1>3. QED BY <1>1, <1>2, CommitInit, PTL DEF Spec

-----------------------------------------------------------------------------
(* The cache that clients see: CacheFlow implements Cache, when there is   *)
(* one segment and the URLs are right. A chunk is written at most once, by *)
(* the task that reserved it, whatever became of its object in the meantime*)

\* One task moves in a step.
LEMMA OneMoves ==
  ASSUME CoreInv, NEW m \in Requests, Step(m) \/ VendorFails(m) \/ CallFails(m) \/ Cancel(m)
  PROVE  OthersSame(m)
<1>1. CASE CallFails(m) \/ Cancel(m)
  BY <1>1, GivesUpKind DEF GivesUp, Keeps
<1>2. CASE PutStartReply(m)
  BY <1>2, PutStartKind DEF Reserves, NotReserved, Answers, Keeps
<1>3. CASE WriteReply(m)
  BY <1>3, WriteKind DEF Writes, Keeps
<1>4. CASE PutEndReply(m)
  BY <1>4, PutEndKind DEF Commits, NotCommitted, Answers, Keeps
<1>5. CASE PutRevokeReply(m)
  BY <1>5, PutRevokeKind DEF Revokes, Answers, Keeps
<1>6. CASE ~(PutStartReply(m) \/ WriteReply(m) \/ PutEndReply(m) \/ PutRevokeReply(m) \/ CallFails(m) \/ Cancel(m))
  BY <1>6, AsideSteps DEF Step, Aside
<1>7. QED BY <1>1, <1>2, <1>3, <1>4, <1>5, <1>6

\* What a task becomes: it keeps its record, or the step is one of its own.
LEMMA MovesItself ==
  ASSUME CoreInv, [Next]_vars, NEW r \in Requests
  PROVE  task'[r] = task[r] \/ Step(r) \/ VendorFails(r) \/ CallFails(r) \/ Cancel(r)
<1>1. ASSUME NEW m \in Requests, Step(m) \/ VendorFails(m) \/ CallFails(m) \/ Cancel(m), m # r
      PROVE  task'[r] = task[r]
  BY <1>1, OneMoves DEF OthersSame
<1>2. CASE (\E c \in late : LateCall(c)) \/ (\E id \in Ids : RemoveObject(id)) \/ UNCHANGED vars
  BY <1>2 DEF LateCall, RemoveObject, vars
<1>3. QED BY <1>1, <1>2 DEF Next

\* A client is answered once, and a task that has answered stays away from the
\* Master and the Stores.
LEMMA AnsweredOnce ==
  ASSUME CoreInv, [Next]_vars, NEW r \in Requests, task[r].pc \in Ended
  PROVE  task'[r].resp = task[r].resp
<1>1. CASE Publish(r) \/ Send(r)
  <2>1. PICK pc \in PCs : Goto(r, pc)
    BY <1>1 DEF Publish, Send, PCs
  <2>2. Becomes(r, Moved(task[r], pc))
    BY <2>1, GotoTask DEF CoreInv
  <2>3. QED BY <2>2, TaskKnown DEF Becomes, Moved, Tasks, CoreInv, TypeOK
<1>2. CASE ~(Publish(r) \/ Send(r))
  <2>1. ~(Step(r) \/ VendorFails(r) \/ CallFails(r) \/ Cancel(r))
    BY <1>2 DEF Step, Refuse, Start, GetReply, ReadReply, Begin, VendorReply, VendorFails, PutStartReply, WriteReply,
       PutEndReply, PutRevokeReply, WaitReply, CallFails, Cancel, At, Ended, Calls, Awaits
  <2>2. QED BY <2>1, MovesItself
<1>3. QED BY <1>1, <1>2

\* A lookup ends with a hit, an error, or without an answer.
LEMMA LookupAnswers ==
  ASSUME CoreInv, [Next]_vars, NEW r \in Requests, task[r].pc = "read"
  PROVE  \/ task'[r].resp.status # "Miss" /\ task'[r].pc # "read"
         \/ task'[r] = task[r]
<1>1. task[r].resp = NoResponse /\ Cacheable(req[r]) /\ task[r] \in Tasks /\ task[r].resp.status = "None"
  BY TaskKnown DEF FlowOk, Ended, NoResponse
<1>2. CASE ReadReply(r)
  <2>1. \/ Follow(r, RouteMiss(req[r]))
        \/ \E status \in {"CacheError", "Hit"} : \E body \in Bodies \cup {NoBody} : Finish(r, status, "Skipped", body)
    BY <1>2, BodyRead DEF ReadReply, Return
  <2>2. CASE Follow(r, RouteMiss(req[r]))
    <3>1. RouteOk(req[r], RouteMiss(req[r]))
      BY <1>1, RoutesOk
    <3>2. RouteMiss(req[r]).pc # "read" /\ (RouteMiss(req[r]).pc = "done" => RouteMiss(req[r]).status # "Miss")
      BY <3>1 DEF RouteOk
    <3>3. /\ task'[r].pc = RouteMiss(req[r]).pc
          /\ task'[r].resp.status \in {"None", RouteMiss(req[r]).status}
          /\ RouteMiss(req[r]).pc # "done" => task'[r].resp.status = "None"
      BY <1>1, <2>2 DEF Follow, Tasks, Responses, CoreInv, TypeOK
    <3>4. QED BY <3>2, <3>3
  <2>3. ASSUME NEW status \in {"CacheError", "Hit"}, NEW body \in Bodies \cup {NoBody},
               Finish(r, status, "Skipped", body)
        PROVE  task'[r].resp.status # "Miss" /\ task'[r].pc # "read"
    BY <1>1, <2>3 DEF Finish, Tasks, CoreInv, TypeOK
  <2>4. QED BY <2>1, <2>2, <2>3
<1>3. CASE CallFails(r)
  <2>1. Finish(r, "CacheError", "Skipped", NoBody)
    BY <1>3 DEF CallFails, OnError, Return
  <2>2. QED BY <1>1, <2>1 DEF Finish, Tasks, CoreInv, TypeOK
<1>4. CASE Cancel(r)
  BY <1>1, <1>4 DEF Cancel, Goto, Tasks, CoreInv, TypeOK
<1>5. CASE ~(ReadReply(r) \/ CallFails(r) \/ Cancel(r))
  <2>1. ~(Step(r) \/ VendorFails(r) \/ CallFails(r) \/ Cancel(r))
    BY <1>5 DEF Step, Refuse, Start, GetReply, Begin, VendorReply, VendorFails, PutStartReply, WriteReply,
       PutEndReply, PutRevokeReply, WaitReply, Publish, Send, At
  <2>2. QED BY <2>1, MovesItself
<1>6. QED BY <1>2, <1>3, <1>4, <1>5

\* A task that reads has been told where by the Master.
LEMMA ReadsWhereTold ==
  ASSUME CoreInv, [Next]_vars, NEW r \in Requests, task'[r].pc = "read"
  PROVE  \/ task'[r] = task[r]
         \/ /\ master.objects[Id(r)].status = "Committed"
            /\ task'[r].handle = FirstReplica(master.objects[Id(r)])
            /\ task[r].pc = "get" /\ dram' = dram /\ removes' = removes
<1>0. task[r] \in Tasks /\ FlowOk(req[r], task[r], role[r])
  BY TaskKnown
<1>1. CASE GetReply(r)
  <2>1. CASE GetReplicaListOk(master, Id(r))
    <3>1. task' = [task EXCEPT ![r].pc = "read", ![r].handle = FirstReplica(master.objects[Id(r)])]
      BY <1>1, <2>1 DEF GetReply
    <3>2. task'[r].handle = FirstReplica(master.objects[Id(r)])
      BY <1>0, <3>1 DEF Tasks, CoreInv, TypeOK
    <3>3. QED BY <1>1, <2>1, <3>2 DEF GetReply, GetReplicaListOk, At
  <2>2. CASE ~GetReplicaListOk(master, Id(r))
    <3>1. Follow(r, RouteMiss(req[r])) /\ Cacheable(req[r])
      BY <1>0, <1>1, <2>2 DEF GetReply, At, FlowOk
    <3>2. RouteMiss(req[r]).pc # "read"
      BY <3>1, RoutesOk DEF RouteOk
    <3>3. QED BY <1>0, <3>1, <3>2 DEF Follow, Tasks, CoreInv, TypeOK
  <2>3. QED BY <2>1, <2>2
<1>2. ASSUME NEW pc, pc # "read", Goto(r, pc) PROVE FALSE
  BY <1>0, <1>2 DEF Goto, Tasks, CoreInv, TypeOK
<1>3. ASSUME NEW status, NEW write, NEW body, Finish(r, status, write, body) PROVE FALSE
  BY <1>0, <1>3 DEF Finish, Tasks, CoreInv, TypeOK
<1>4. CASE Start(r)
  <2>1. Follow(r, Route(req[r])) /\ Served(req[r])
    BY <1>4 DEF Start
  <2>2. Route(req[r]).pc # "read"
    BY <2>1, RoutesOk DEF RouteOk
  <2>3. QED BY <1>0, <2>1, <2>2 DEF Follow, Tasks, CoreInv, TypeOK
<1>5. CASE task[r].pc = "read"
  BY <1>5, LookupAnswers
<1>6. CASE Refuse(r) \/ Publish(r) \/ Send(r) \/ VendorFails(r) \/ WriteReply(r) \/ PutEndReply(r)
           \/ PutRevokeReply(r) \/ Cancel(r)
  BY <1>2, <1>3, <1>6 DEF Refuse, Publish, Send, VendorFails, WriteReply, PutEndReply, PutRevokeReply, Cancel,
     Wrote, Return
<1>7. CASE CallFails(r)
  BY <1>2, <1>3, <1>7 DEF CallFails, OnError, Wrote, Return, Calls
<1>8. ASSUME Begin(r) \/ WaitReply(r) \/ PutStartReply(r) \/ \E len \in BodyLens : VendorReply(r, len) PROVE FALSE
  <2>1. CASE WaitReply(r)
    BY <2>1, AsideWait
  <2>2. CASE Begin(r)
    BY <1>2, <2>2 DEF Begin
  <2>3. CASE PutStartReply(r)
    BY <2>3, PutStartKind DEF Reserves, NotReserved, Answers
  <2>4. ASSUME NEW len \in BodyLens, VendorReply(r, len) PROVE FALSE
    <3>1. CASE WritesBack(r)
      <4>1. PICK b : task' = [task EXCEPT ![r].pc = "put_start", ![r].body = b]
        BY <2>4, <3>1 DEF VendorReply
      <4>2. QED BY <1>0, <4>1 DEF Tasks, CoreInv, TypeOK
    <3>2. CASE ~WritesBack(r)
      BY <1>3, <2>4, <3>2 DEF VendorReply
    <3>3. QED BY <3>1, <3>2
  <2>5. QED BY <1>8, <2>1, <2>2, <2>3, <2>4
<1>9. CASE ReadReply(r)
  BY <1>5, <1>9 DEF ReadReply, At
<1>10. QED BY <1>1, <1>4, <1>6, <1>7, <1>8, <1>9, MovesItself DEF Step

-----------------------------------------------------------------------------
(* A chunk is written once. *)

\* A task that will still write its chunk, or left the write behind.
Pending(r) == task[r].pc = "write" \/ LateOp(r, {"write"})

\* A task leaves no call behind before it has reserved.
NoLateYet == \A r \in Requests : task[r].pc \in {"put_start", "write"} => \A c \in late : c.r # r

\* No Store has a chunk at the offset.
Unwritten(d, offset) ==
  \A n \in Nodes : \A o \in Offsets : o = offset => d[n].allocations[o].checksum = NoContent

PendingUnwritten ==
  \A r \in Requests : Pending(r) => task[r].handle.len > 0 /\ Unwritten(dram, task[r].handle.offset)

PendingApart ==
  \A r, s \in Requests : Pending(r) /\ Pending(s) /\ r # s => task[r].handle.offset # task[s].handle.offset

\* What is written lies within the arena of a node that has a segment.
DramPlaced ==
  \A n \in Nodes : \A o \in Offsets : dram[n].allocations[o].checksum # NoContent =>
    /\ o + dram[n].allocations[o].len <= ArenaSize
    /\ \E i \in DOMAIN Layout : Layout[i][1] = n

OnceInv == NoLateYet /\ PendingUnwritten /\ PendingApart /\ DramPlaced

\* A task with a write to come has a response and a chunk of its own.
LEMMA PendingKnown ==
  ASSUME CoreInv, OnceInv, NEW r \in Requests, Pending(r)
  PROVE  /\ task[r].body # NoBody /\ task[r].body \in Bodies /\ Id(r) \in Ids
         /\ HoldsPlace(Id(r), task[r].handle) /\ PlacedIn(master.segments, task[r].handle)
<1>1. task[r].body # NoBody
  BY TaskKnown DEF Pending, LateOp, FlowOk, Busy, CoreInv, LateInv
<1>2. Id(r) \in Ids /\ task[r].body \in Bodies
  BY <1>1, WriterKnown
<1>3. HoldsPlace(Id(r), task[r].handle)
  BY DEF OnceInv, PendingUnwritten, HoldsPlace
<1>4. QED BY <1>1, <1>2, <1>3, HeldIsPlaced

\* A write goes to the node of the chunk, or has no effect.
LEMMA WriteCase ==
  ASSUME UrlsRight, CoreInv, NEW r \in Requests, task[r].body # NoBody, NEW n \in Nodes
  PROVE  \/ StoreWrite(r)[n] = dram[n]
         \/ /\ n = task[r].handle.node /\ StoreWriteOk(r)
            /\ StoreWrite(r)[n] = WritePreallocated(dram[n], task[r].handle.offset, task[r].handle.len, task[r].body)
<1> DEFINE h == task[r].handle
           b == task[r].body
<1>1. dram \in [Nodes -> Drams(Bodies)]
  BY DEF CoreInv, TypeOK
<1>2. CASE ~Configured(r)
  BY <1>2 DEF StoreWrite
<1>3. CASE Configured(r)
  <2>1. Serving(req[r]).nodes[h.node] = h.node /\ h.node \in Nodes
    BY <1>3, WrittenTo
  <2>2. StoreWrite(r) = [dram EXCEPT ![h.node] = WritePreallocated(dram[h.node], h.offset, h.len, b)]
    BY <1>3, <2>1 DEF StoreWrite
  <2>3. CASE n # h.node
    BY <1>1, <2>2, <2>3
  <2>4. CASE n = h.node /\ ~StoreWriteOk(r)
    <3>1. WritePreallocated(dram[h.node], h.offset, h.len, b) = dram[h.node]
      BY <1>3, <2>4 DEF StoreWriteOk, WritePreallocated
    <3>2. QED BY <1>1, <2>2, <2>4, <3>1
  <2>5. CASE n = h.node /\ StoreWriteOk(r)
    BY <1>1, <2>2, <2>5
  <2>6. QED BY <2>3, <2>4, <2>5
<1>4. QED BY <1>2, <1>3

\* What a write puts into a chunk.
LEMMA WriteChunks ==
  ASSUME UrlsRight, CoreInv, NEW r \in Requests, task[r].body # NoBody, NEW n \in Nodes, NEW o \in Offsets
  PROVE  \/ StoreWrite(r)[n].allocations[o] = dram[n].allocations[o]
         \/ /\ o = task[r].handle.offset /\ n = task[r].handle.node
            /\ o + task[r].handle.len <= ArenaSize
            /\ StoreWrite(r)[n].allocations[o] = [len |-> task[r].handle.len, checksum |-> task[r].body]
<1> DEFINE h == task[r].handle
           b == task[r].body
           new == WritePreallocated(dram[n], h.offset, h.len, b)
<1>1. CASE StoreWrite(r)[n] = dram[n]
  BY <1>1
<1>2. CASE n = h.node /\ StoreWriteOk(r) /\ StoreWrite(r)[n] = new
  <2>1. dram[n] \in Drams(Bodies) /\ task[r] \in Tasks /\ b \in Bodies
    BY TaskKnown, WriterKnown DEF CoreInv, TypeOK
  <2>2. h.offset \in Nat /\ h.len \in Nat
    BY <2>1, U64MaxAssumption DEF Tasks, NoHandle, Replica, U64
  <2>3. WritePreallocatedOk(h.offset, h.len, b)
    BY <1>2 DEF StoreWriteOk
  <2>4. WroteChunk(dram[n], new, h.offset, h.len, b) /\ h.offset + h.len <= ArenaSize
    BY <2>1, <2>2, <2>3, WritePreallocatedEffect DEF WritePreallocatedOk
  <2> HIDE DEF new, h, b
  <2>5. CASE o = h.offset
    <3>1. new.allocations[o] = [len |-> h.len, checksum |-> b]
      BY <2>4, <2>5 DEF WroteChunk
    <3>2. StoreWrite(r)[n].allocations[o] = [len |-> h.len, checksum |-> b]
      BY <1>2, <3>1
    <3>3. QED BY <1>2, <2>4, <2>5, <3>2 DEF h, b
  <2>6. CASE o # h.offset
    <3>1. new.allocations[o] = dram[n].allocations[o]
      BY <2>4, <2>6 DEF WroteChunk
    <3>2. QED BY <1>2, <3>1
  <2>7. QED BY <2>5, <2>6
<1>3. QED BY <1>1, <1>2, WriteCase

\* Who may write, after a step that reserves nothing.
PendingFrom == \A s \in Requests : Pending(s)' => Pending(s) /\ task'[s].handle = task[s].handle

\* The Stores are written by a task whose write was to come, and no longer is.
DramOnce == dram' = dram \/ \E r \in Requests : Pending(r) /\ ~Pending(r)' /\ dram' = StoreWrite(r)

\* A step that reserves nothing keeps chunks written once.
LEMMA OnceKept ==
  ASSUME UrlsRight, CoreInv, GrantInv, OnceInv, NoLateYet', PendingFrom, DramOnce
  PROVE  OnceInv'
<1>1. PendingApart'
  BY DEF OnceInv, PendingApart, PendingFrom
<1>2. CASE dram' = dram
  <2>1. PendingUnwritten'
    BY <1>2 DEF OnceInv, PendingUnwritten, PendingFrom, Unwritten
  <2>2. DramPlaced'
    BY <1>2 DEF OnceInv, DramPlaced
  <2>3. QED BY <1>1, <2>1, <2>2 DEF OnceInv
<1>3. ASSUME NEW r \in Requests, Pending(r), ~Pending(r)', dram' = StoreWrite(r) PROVE OnceInv'
  <2>0. task[r].body # NoBody /\ PlacedIn(master.segments, task[r].handle)
    BY <1>3, PendingKnown
  <2>1. PendingUnwritten'
    <3> SUFFICES ASSUME NEW s \in Requests, Pending(s)'
                 PROVE  task'[s].handle.len > 0 /\ Unwritten(dram', task'[s].handle.offset)
      BY DEF PendingUnwritten, Unwritten
    <3>1. Pending(s) /\ task'[s].handle = task[s].handle /\ s # r
      BY <1>3 DEF PendingFrom
    <3>2. task[s].handle.len > 0 /\ Unwritten(dram, task[s].handle.offset)
      BY <3>1 DEF OnceInv, PendingUnwritten
    <3>3. task[s].handle.offset # task[r].handle.offset
      BY <1>3, <3>1 DEF OnceInv, PendingApart
    <3>4. ASSUME NEW n \in Nodes, NEW o \in Offsets, o = task[s].handle.offset
          PROVE  dram'[n].allocations[o] = dram[n].allocations[o]
      BY <1>3, <2>0, <3>3, <3>4, WriteChunks
    <3>5. QED BY <3>1, <3>2, <3>4 DEF Unwritten
  <2>2. DramPlaced'
    <3> SUFFICES ASSUME NEW n \in Nodes, NEW o \in Offsets, dram'[n].allocations[o].checksum # NoContent
                 PROVE  /\ o + dram'[n].allocations[o].len <= ArenaSize
                        /\ \E i \in DOMAIN Layout : Layout[i][1] = n
      BY DEF DramPlaced
    <3>1. CASE dram'[n].allocations[o] = dram[n].allocations[o]
      BY <3>1 DEF OnceInv, DramPlaced
    <3>2. CASE /\ n = task[r].handle.node /\ o + task[r].handle.len <= ArenaSize
               /\ dram'[n].allocations[o] = [len |-> task[r].handle.len, checksum |-> task[r].body]
      <4>1. task[r].handle.seg \in DOMAIN Layout /\ Layout[task[r].handle.seg][1] = n
        BY <2>0, <3>2 DEF PlacedIn, GrantInv, SegmentsFixed
      <4>2. QED BY <3>2, <4>1
    <3>3. QED BY <1>3, <2>0, <3>1, <3>2, WriteChunks
  <2>3. QED BY <1>1, <2>1, <2>2 DEF OnceInv
<1>4. QED BY <1>2, <1>3 DEF DramOnce

\* There is one segment.
LEMMA OnlySegment ==
  ASSUME OneSegment, GrantInv, NEW i \in DOMAIN master.segments, NEW j \in DOMAIN master.segments
  PROVE  i = j
<1>1. DOMAIN master.segments = DOMAIN Layout /\ Layout \in Seq(Nodes \X U64)
  BY StoreAssumption DEF GrantInv, SegmentsFixed
<1>2. QED BY <1>1 DEF OneSegment

\* A reservation is for a chunk that was never written.
LEMMA OnceReserves ==
  ASSUME OneSegment, CoreInv, GrantInv, ChunksFit, OnceInv, NEW r \in Requests, Reserves(r)
  PROVE  OnceInv'
<1> DEFINE x == task'[r].handle
<1>1. /\ OthersSame(r) /\ UNCHANGED <<late, dram>> /\ task'[r].pc = "write" /\ task[r].pc = "put_start"
      /\ ReservedAt(master, master', Id(r), task[r].body.len, x)
  BY DEF Reserves, InTime
<1>2. NoLateYet'
  <2> SUFFICES ASSUME NEW s \in Requests, task'[s].pc \in {"put_start", "write"}, NEW c \in late
               PROVE  c.r # s
    BY <1>1 DEF NoLateYet
  <2>1. CASE s = r
    BY <1>1, <2>1 DEF OnceInv, NoLateYet
  <2>2. CASE s # r
    BY <1>1, <2>2 DEF OnceInv, NoLateYet, OthersSame
  <2>3. QED BY <2>1, <2>2
<1>3. ASSUME NEW s \in Requests, s # r, Pending(s)' PROVE Pending(s) /\ task'[s] = task[s]
  BY <1>1, <1>3 DEF Pending, LateOp, OthersSame
<1>4. x.len > 0 /\ x.seg \in DOMAIN master.segments /\ x.offset = master.segments[x.seg].next
  BY <1>1 DEF ReservedAt, PlacedIn
<1>5. Unwritten(dram, x.offset)
  <2> SUFFICES ASSUME NEW n \in Nodes, NEW o \in Offsets, o = x.offset, dram[n].allocations[o].checksum # NoContent
               PROVE  FALSE
    BY DEF Unwritten
  <2>1. PICK i \in DOMAIN master.segments : o < master.segments[i].next
    BY DEF ChunksFit
  <2>3. x.seg = i
    BY <1>4, OnlySegment
  <2>4. master.segments[i].next \in Nat
    BY PartsType, U64MaxAssumption DEF CoreInv, TypeOK, U64
  <2>5. QED BY <1>4, <2>1, <2>3, <2>4
<1>6. ASSUME NEW s \in Requests, s # r, Pending(s)' PROVE task'[s].handle.offset # x.offset
  <2>1. Id(s) \in Ids /\ HoldsPlace(Id(s), task[s].handle) /\ PlacedIn(master.segments, task[s].handle)
    BY <1>3, <1>6, PendingKnown
  <2>2. task[s].handle.seg = x.seg
    BY <1>4, <2>1, OnlySegment DEF PlacedIn
  <2>3. task[s].handle.offset < x.offset
    BY <1>1, <2>1, <2>2, NewIsBeyond
  <2>4. task[s].handle.offset \in Nat
    BY <2>1, U64MaxAssumption DEF PlacedIn, Replica, U64
  <2>5. x.offset \in Nat
    BY <1>4, PartsType, U64MaxAssumption DEF CoreInv, TypeOK, U64
  <2> HIDE DEF x
  <2>6. QED BY <1>3, <1>6, <2>3, <2>4, <2>5
<1>7. PendingUnwritten'
  <2> SUFFICES ASSUME NEW s \in Requests, Pending(s)'
               PROVE  task'[s].handle.len > 0 /\ Unwritten(dram, task'[s].handle.offset)
    BY <1>1 DEF PendingUnwritten, Unwritten
  <2>1. QED BY <1>3, <1>4, <1>5 DEF OnceInv, PendingUnwritten
<1>8. PendingApart'
  <2> SUFFICES ASSUME NEW s \in Requests, NEW q \in Requests, Pending(s)', Pending(q)', s # q
               PROVE  task'[s].handle.offset # task'[q].handle.offset
    BY DEF PendingApart
  <2>1. CASE s # r /\ q # r
    BY <1>3, <2>1 DEF OnceInv, PendingApart
  <2>2. QED BY <1>6, <2>1
<1>9. DramPlaced'
  BY <1>1 DEF OnceInv, DramPlaced
<1>10. QED BY <1>2, <1>7, <1>8, <1>9 DEF OnceInv

\* The other steps write no chunk that was written.
LEMMA OnceAside ==
  ASSUME UrlsRight, CoreInv, GrantInv, OnceInv, NEW r \in Requests, Aside(r)
  PROVE  OnceInv'
<1>1. OthersSame(r) /\ UNCHANGED <<dram, late>>
  BY DEF Aside
<1>2. /\ task'[r].pc # "write" /\ task[r].pc \notin Busy
      /\ task[r].body # NoBody => task'[r].pc # "put_start"
      /\ HandleEffect(r) /\ FlowOk(req[r], task[r], role[r])
  BY TaskKnown DEF Aside, TaskEffects, Writing
<1>3. \A c \in late : c.r = r => task[r].body # NoBody
  BY DEF CoreInv, LateInv
<1>4. NoLateYet'
  <2> SUFFICES ASSUME NEW s \in Requests, task'[s].pc \in {"put_start", "write"}, NEW c \in late
               PROVE  c.r # s
    BY <1>1 DEF NoLateYet
  <2>1. CASE s = r
    BY <1>2, <1>3, <2>1
  <2>2. CASE s # r
    BY <1>1, <2>2 DEF OnceInv, NoLateYet, OthersSame
  <2>3. QED BY <2>1, <2>2
<1>5. PendingFrom
  <2> SUFFICES ASSUME NEW s \in Requests, Pending(s)' PROVE Pending(s) /\ task'[s].handle = task[s].handle
    BY DEF PendingFrom
  <2>1. CASE s # r
    BY <1>1, <2>1 DEF Pending, LateOp, OthersSame
  <2>2. CASE s = r
    <3>1. LateOp(r, {"write"}) /\ task[r].body # NoBody
      BY <1>1, <1>2, <1>3, <2>2 DEF Pending, LateOp
    <3>2. task'[r].handle = task[r].handle
      BY <1>2, <3>1 DEF HandleEffect, FlowOk, Busy, Ended
    <3>3. QED BY <2>2, <3>1, <3>2 DEF Pending
  <2>3. QED BY <2>1, <2>2
<1>6. QED BY <1>1, <1>4, <1>5, OnceKept DEF DramOnce

\* The steps of the write back write a chunk once.
LEMMA OnceWriteBack ==
  ASSUME UrlsRight, OneSegment, CoreInv, GrantInv, ChunksFit, OnceInv, NEW r \in Requests, WriteBack(r) \/ GivesUp(r)
  PROVE  OnceInv'
<1>1. CASE Reserves(r)
  BY <1>1, OnceReserves
<1> SUFFICES ASSUME ~Reserves(r) PROVE OnceInv'
  BY <1>1
<1>2. /\ Keeps(r) /\ task'[r].pc \notin {"put_start", "write"}
      /\ dram' = dram \/ (task[r].pc = "write" /\ dram' = StoreWrite(r) /\ late' = late)
      /\ late' = late \/ (Abandon(r) /\ dram' = dram)
  BY DEF WriteBack, NotReserved, Writes, Commits, NotCommitted, Revokes, GivesUp, Answers, InTime
<1>3. OthersSame(r) /\ task'[r].handle = task[r].handle
  BY <1>2 DEF Keeps
<1>4. \A c \in late' : c \in late \/ (c.r = r /\ c.op = task[r].pc)
  BY <1>2 DEF Abandon
<1>5. NoLateYet'
  BY <1>2, <1>3, <1>4 DEF OnceInv, NoLateYet, OthersSame
<1>6. PendingFrom
  <2> SUFFICES ASSUME NEW s \in Requests, Pending(s)' PROVE Pending(s) /\ task'[s].handle = task[s].handle
    BY DEF PendingFrom
  <2>1. CASE s # r
    BY <1>3, <1>4, <2>1 DEF Pending, LateOp, OthersSame
  <2>2. CASE s = r
    BY <1>2, <1>3, <1>4, <2>2 DEF Pending, LateOp
  <2>3. QED BY <2>1, <2>2
<1>7. DramOnce
  <2>1. CASE task[r].pc = "write" /\ dram' = StoreWrite(r) /\ late' = late
    BY <1>2, <2>1 DEF DramOnce, Pending, LateOp, OnceInv, NoLateYet
  <2>2. QED BY <1>2, <2>1 DEF DramOnce
<1>8. QED BY <1>5, <1>6, <1>7, OnceKept

\* So does a call that takes effect late.
LEMMA OnceLately ==
  ASSUME UrlsRight, CoreInv, GrantInv, OnceInv, NEW c \in late, Lately(c)
  PROVE  OnceInv'
<1>1. /\ UNCHANGED task /\ late' = late \ {c}
      /\ c \in [op : Updates, r : Requests] /\ late \subseteq [op : Updates, r : Requests]
  BY DEF Lately, CoreInv, TypeOK
<1>2. NoLateYet' /\ PendingFrom
  BY <1>1 DEF OnceInv, NoLateYet, PendingFrom, Pending, LateOp
<1>3. dram' = dram \/ (c.op = "write" /\ dram' = StoreWrite(c.r))
  BY DEF Lately
<1>4. ASSUME c.op = "write" PROVE Pending(c.r) /\ ~Pending(c.r)'
  <2>1. Pending(c.r) /\ task[c.r].pc # "write"
    BY <1>1, <1>4 DEF Pending, LateOp, OnceInv, NoLateYet
  <2>2. \A e \in late : e.r = c.r /\ e.op = "write" => e = c
    BY <1>1, <1>4
  <2>3. QED BY <1>1, <2>1, <2>2 DEF Pending, LateOp
<1>5. DramOnce
  BY <1>1, <1>3, <1>4 DEF DramOnce
<1>6. QED BY <1>2, <1>5, OnceKept

\* Every step keeps chunks written once.
LEMMA OnceStep ==
  ASSUME UrlsRight, OneSegment, CoreInv, GrantInv, ChunksFit, OnceInv, [Next]_vars
  PROVE  OnceInv'
<1>1. CASE Idle \/ \E id \in Ids : Removes(id)
  <2>1. UNCHANGED <<task, late, dram>>
    BY <1>1 DEF Idle, Removes
  <2>2. NoLateYet' /\ PendingFrom /\ DramOnce
    BY <2>1 DEF OnceInv, NoLateYet, PendingFrom, Pending, LateOp, DramOnce
  <2>3. QED BY <2>2, OnceKept
<1>2. QED BY <1>1, StepKinds, OnceAside, OnceWriteBack, OnceLately

\* Nothing is written, or will be, at first.
LEMMA OnceInit == Init => OnceInv
<1> SUFFICES ASSUME Init PROVE OnceInv
  OBVIOUS
<1>1. late = {} /\ \A r \in Requests : task[r].pc = "start"
  BY DEF Init
<1>2. \A n \in Nodes : \A o \in Offsets : dram[n].allocations[o].checksum = NoContent
  BY DEF Init, EmptyDram, NoChunk
<1>3. QED BY <1>1, <1>2 DEF OnceInv, NoLateYet, PendingUnwritten, PendingApart, DramPlaced, Pending, LateOp

\* Until an operator removes an object, whoever reads has been sent to a chunk
\* that is written.
ReadsWritten ==
  removes = 0 => \A q \in Requests : task[q].pc = "read" => ~Unwritten(dram, task[q].handle.offset)

\* What is written stays written.
LEMMA WrittenStays ==
  ASSUME UrlsRight, CoreInv, Effects, NEW o, ~Unwritten(dram, o)
  PROVE  ~Unwritten(dram', o)
<1>1. PICK n \in Nodes : o \in Offsets /\ dram[n].allocations[o].checksum # NoContent
  BY DEF Unwritten
<1>2. ASSUME NEW r \in Requests, task[r].body # NoBody, dram' = StoreWrite(r)
      PROVE  dram'[n].allocations[o].checksum # NoContent
  <2>1. CASE StoreWrite(r)[n].allocations[o] = dram[n].allocations[o]
    BY <1>1, <1>2, <2>1
  <2>2. CASE StoreWrite(r)[n].allocations[o] = [len |-> task[r].handle.len, checksum |-> task[r].body]
    <3>1. StoreWrite(r)[n].allocations[o].checksum = task[r].body
      BY <2>2
    <3>2. QED BY <1>2, <3>1 DEF NoBody
  <2>3. QED BY <1>1, <1>2, <2>1, <2>2, WriteChunks
<1>3. QED BY <1>1, <1>2 DEF Effects, DramEffect, Unwritten

\* Removals are counted.
LEMMA RemovesCounted ==
  ASSUME CoreInv, [Next]_vars
  PROVE  removes \in Nat /\ removes' \in {removes, removes + 1}
<1>1. removes \in Nat
  BY BoundsAssumption DEF CoreInv, TypeOK
<1>2. ASSUME NEW r \in Requests, Aside(r) \/ WriteBack(r) \/ GivesUp(r) PROVE removes' = removes
  BY <1>2 DEF Aside, WriteBack, Reserves, NotReserved, Writes, Commits, NotCommitted, Revokes, GivesUp, Answers, Keeps
<1>3. ASSUME NEW c \in late, Lately(c) PROVE removes' = removes
  BY <1>3 DEF Lately
<1>4. CASE Idle \/ \E id \in Ids : Removes(id)
  BY <1>1, <1>4 DEF Idle, Removes
<1>5. QED BY <1>1, <1>2, <1>3, <1>4, StepKinds

\* Every step keeps readers at chunks that are written.
LEMMA ReadsWrittenStep ==
  ASSUME UrlsRight, CommitInv, ReadsWritten, [Next]_vars
  PROVE  ReadsWritten'
<1>0. CoreInv /\ Effects
  BY StepEffects DEF CommitInv
<1>1. removes' = 0 => removes = 0
  BY <1>0, RemovesCounted
<1> SUFFICES ASSUME removes = 0, NEW q \in Requests, task'[q].pc = "read"
             PROVE  ~Unwritten(dram', task'[q].handle.offset)
  BY <1>1 DEF ReadsWritten, Unwritten
<1>2. CASE task'[q] = task[q]
  BY <1>0, <1>2, WrittenStays DEF ReadsWritten
<1>3. CASE /\ master.objects[Id(q)].status = "Committed" /\ task[q].pc = "get"
           /\ task'[q].handle = FirstReplica(master.objects[Id(q)]) /\ dram' = dram
  <2>1. Id(q) \in Ids
    BY <1>0, <1>3, TaskKnown, IdKnown DEF FlowOk
  <2>2. PICK b : CommitHolds(Id(q), b)
    BY <1>3, <2>1 DEF CommitInv, OwnInv, CommitsHold
  <2>3. PICK x : master.objects[Id(q)].replicas = {x} /\ PlacedIn(master.segments, x)
    BY <1>0, <1>3, <2>1 DEF CoreInv, OneReplica
  <2>4. task'[q].handle = x /\ x.offset \in Nat /\ x.len \in Nat /\ x.len > 0 /\ x.node \in Nodes
    BY <1>3, <2>3, FirstReplicaOne, U64MaxAssumption DEF PlacedIn, Replica, U64
  <2>5. /\ x.offset + x.len <= ArenaSize /\ b \in Bodies
        /\ dram[x.node].allocations[x.offset] = [len |-> x.len, checksum |-> b]
    BY <2>2, <2>3 DEF CommitHolds, HoldsIn, Holds
  <2>6. x.offset \in Offsets
    BY <2>4, <2>5, ArenaSizeAssumption DEF Offsets
  <2>7. dram[x.node].allocations[x.offset].checksum # NoContent
    BY <2>5, NoneAssumption
  <2>8. QED BY <1>3, <2>4, <2>6, <2>7 DEF Unwritten
<1>4. QED BY <1>0, <1>2, <1>3, ReadsWhereTold

\* A miss that is not shared is answered with what the vendor gave.
OwnMisses ==
  \A s \in Requests : task[s].resp.status = "Miss" /\ source[s] = Nobody /\ task[s].resp.body # NoBody =>
    Own(s, task[s].resp.body)

\* Every step keeps that.
LEMMA OwnMissesStep ==
  ASSUME CommitInv, OwnMisses, [Next]_vars
  PROVE  OwnMisses'
<1>0. CoreInv /\ Effects /\ BodiesFit
  BY StepEffects DEF CommitInv
<1> SUFFICES ASSUME NEW s \in Requests, task'[s].resp.status = "Miss", source'[s] = Nobody,
                    task'[s].resp.body # NoBody
             PROVE  Own(s, task'[s].resp.body)
  BY <1>0 DEF OwnMisses, Own, Id, Effects
<1>1. AnswerEffect(s) /\ source[s] = Nobody
  BY <1>0 DEF Effects, TaskEffects, ResultEffect
<1>2. CASE task'[s].resp.body = task[s].resp.body
  <2>1. task[s].pc \in Ended
    BY <1>0, <1>2, TaskKnown DEF FlowOk, NoResponse
  <2>2. task'[s].resp = task[s].resp
    BY <1>0, <2>1, AnsweredOnce
  <2>3. QED BY <1>1, <2>2 DEF OwnMisses
<1>3. CASE task'[s].resp.body = task[s].body
  BY <1>0, <1>3 DEF BodiesFit
<1>4. ASSUME Hit(s, task'[s].resp.body) PROVE FALSE
  <2>1. task[s].pc = "read" /\ task[s].resp = NoResponse
    BY <1>0, <1>4, TaskKnown DEF Hit, FlowOk, Ended
  <2>2. QED BY <1>0, <2>1, LookupAnswers DEF NoResponse
<1>5. role[s] = "waiting" => source[s] # Nobody
  BY <1>0 DEF CoreInv, SFP!SfInv, SFP!SourceState
<1>6. QED BY <1>1, <1>2, <1>3, <1>4, <1>5 DEF AnswerEffect

-----------------------------------------------------------------------------
(* The variables of Cache, of one request, task or id at a time. *)

AskOf(r) == IF Id(r) = NoId THEN NoContent ELSE Id(r)

AnswerOf(t) ==
  IF t.resp.status = "None" THEN NoContent
  ELSE IF t.resp.body = NoBody THEN Dropped ELSE t.resp.body

\* What the Stores d return for the chunk x on the node n.
ReadIn(d, n, x) ==
  IF ReadOutcome(d[n], x.offset, x.len) = "Ok" THEN ReadContent(d[n], x.offset, x.len) ELSE NoContent

FoundOf(d, n, t) == IF t.pc = "read" THEN ReadIn(d, n, t.handle) ELSE NoContent

StoredOf(ms, d, id) ==
  IF ms.objects[id].status # "Committed" THEN NoContent
  ELSE ReadIn(d, FirstReplica(ms.objects[id]).node, FirstReplica(ms.objects[id]))

\* The vendor gave b to q.
Gave(q, b) == b \in Bodies /\ b.by = q /\ b.id = AskOf(q)

\* A request that is served asks for its id.
LEMMA AskKnown ==
  ASSUME NEW r \in Requests, Id(r) \in Ids
  PROVE  AskOf(r) = Id(r) /\ AskOf(r) # NoContent /\ (\A b : Own(r, b) => Gave(r, b))
<1>1. Id(r) # NoId
  <2>1. \E t \in Tenants, k \in Keys : Id(r) = <<t, k>>
    BY DEF Ids
  <2>2. \A t, k : <<t, k>> # <<>>
    OBVIOUS
  <2>3. QED BY <2>1, <2>2 DEF NoId
<1>2. QED BY <1>1, NoneAssumption DEF AskOf, Own, Gave

\* A request is answered once: with an error, with what it found, with what its
\* vendor gave, or with the answer of the leader it waited for.
LEMMA ReplyStep ==
  ASSUME AllFit, OwnMisses', AllFit', [Next]_vars, NEW r \in Requests
  PROVE  \/ AnswerOf(task'[r]) = AnswerOf(task[r])
         \/ /\ AnswerOf(task[r]) = NoContent
            /\ \/ AnswerOf(task'[r]) = Dropped
               \/ /\ AskOf(r) # NoContent
                  /\ \/ /\ FoundOf(dram, ReadFrom(r), task[r]) # NoContent
                        /\ AnswerOf(task'[r]) = FoundOf(dram, ReadFrom(r), task[r])
                     \/ Gave(r, AnswerOf(task'[r]))
                     \/ \E q \in Requests : /\ AskOf(q) = AskOf(r)
                                            /\ Gave(q, AnswerOf(task'[r]))
                                            /\ AnswerOf(task[q]) = AnswerOf(task'[r])
<1>0. CoreInv /\ Effects /\ FitInv /\ CoreInv' /\ FitInv'
  BY StepEffects DEF AllFit
<1>1. CASE task[r].pc \in Ended
  BY <1>0, <1>1, AnsweredOnce DEF AnswerOf
<1> SUFFICES ASSUME task[r].pc \notin Ended, task'[r].resp.status # "None", task'[r].resp.body # NoBody
             PROVE  /\ AskOf(r) # NoContent
                    /\ \/ /\ FoundOf(dram, ReadFrom(r), task[r]) # NoContent
                          /\ AnswerOf(task'[r]) = FoundOf(dram, ReadFrom(r), task[r])
                       \/ Gave(r, AnswerOf(task'[r]))
                       \/ \E q \in Requests : /\ AskOf(q) = AskOf(r)
                                              /\ Gave(q, AnswerOf(task'[r]))
                                              /\ AnswerOf(task[q]) = AnswerOf(task'[r])
  <2>1. CASE task[r].pc \notin Ended
    <3>1. AnswerOf(task[r]) = NoContent
      BY <1>0, <2>1, TaskKnown DEF FlowOk, AnswerOf, NoResponse
    <3>2. task'[r].resp.status = "None" => AnswerOf(task'[r]) = NoContent
      BY DEF AnswerOf
    <3>3. task'[r].resp.status # "None" /\ task'[r].resp.body = NoBody => AnswerOf(task'[r]) = Dropped
      BY DEF AnswerOf
    <3>4. QED BY <2>1, <3>1, <3>2, <3>3
  <2>2. QED BY <1>1, <2>1
<1> DEFINE b == task'[r].resp.body
<1>2. task[r].resp = NoResponse /\ AnswerOf(task'[r]) = b
  BY <1>0, TaskKnown DEF FlowOk, AnswerOf
<1>3. Served(req[r]) /\ Id(r) \in Ids
  <2>1. Served(req'[r])
    BY <1>0 DEF FitInv, AnswersFit, Fits
  <2>2. QED BY <1>0, <2>1, IdKnown DEF Effects
<1>4. AskOf(r) = Id(r) /\ AskOf(r) # NoContent
  BY <1>3, AskKnown
<1>5. CASE Own(r, b)
  BY <1>2, <1>3, <1>4, <1>5, AskKnown
<1>6. CASE b = task[r].body
  BY <1>0, <1>5, <1>6 DEF FitInv, BodiesFit
<1>7. CASE Hit(r, b)
  <2>1. FoundOf(dram, ReadFrom(r), task[r]) = b /\ b # NoContent
    BY <1>7, NoneAssumption DEF Hit, FoundOf, ReadIn, Readable
  <2>2. QED BY <1>2, <1>4, <2>1
<1>8. ASSUME role[r] = "waiting", role'[r] = "done", source'[r] = source[r],
             result'[r] \in Responses, result'[r].status = "Miss", b = result'[r].body
      PROVE  \E q \in Requests : AskOf(q) = AskOf(r) /\ Gave(q, b) /\ AnswerOf(task[q]) = b
  <2> DEFINE s == source[r]
  <2>1. s # Nobody /\ s \in Requests
    BY <1>0, <1>8 DEF CoreInv, SFP!SfInv, SFP!TypeOK, SFP!SourceState
  <2>2. SFP!WaitersAgree' /\ SFP!SourceState'
    BY <1>0 DEF CoreInv, SFP!SfInv
  <2>3. result'[r] # Dropped /\ result'[r] # Nobody
    BY <1>8, NoneAssumption
  <2>4. result'[r] = result'[s] /\ source'[s] = Nobody
    BY <1>8, <2>1, <2>2, <2>3 DEF SFP!WaitersAgree, SFP!SourceState
  <2>5. result'[s] = task'[s].resp
    BY <1>0, <2>1, <2>3, <2>4 DEF FitInv, ResultsFit
  <2>6. task'[s].resp.body = b /\ task'[s].resp.status = "Miss"
    BY <1>8, <2>4, <2>5
  <2>7. Own(s, b)
    BY <1>0, <2>1, <2>4, <2>6 DEF OwnMisses, Own, Id, Effects
  <2>8. s # r
    BY <1>8, <2>1, <2>4
  <2>9. task'[s] = task[s]
    <3>1. task'[r] # task[r]
      BY <1>2 DEF NoResponse
    <3>2. Step(r) \/ VendorFails(r) \/ CallFails(r) \/ Cancel(r)
      BY <1>0, <3>1, MovesItself
    <3>3. QED BY <1>0, <2>1, <2>8, <3>2, OneMoves DEF OthersSame
  <2>10. AnswerOf(task[s]) = b
    BY <2>6, <2>9 DEF AnswerOf
  <2>11. Id(s) = Id(r)
    BY <1>0, <2>1, SourceShares
  <2>12. QED BY <1>3, <2>1, <2>7, <2>10, <2>11, AskKnown
<1>9. AnswerEffect(r) /\ b # task[r].resp.body
  BY <1>0, <1>2 DEF Effects, TaskEffects, NoResponse
<1> HIDE DEF b
<1>10. QED BY <1>2, <1>4, <1>5, <1>6, <1>7, <1>8, <1>9 DEF AnswerEffect, b

-----------------------------------------------------------------------------
(* What a step changes of what can be read. *)

\* The layout that the gateways are built for.
OneStore == OneSegment /\ UrlsRight

\* One segment is at most one segment on each node.
LEMMA OneStoreSound ==
  ASSUME OneStore
  PROVE  SoundLayout /\ OneSegment /\ UrlsRight
<1>1. Layout \in Seq(Nodes \X U64)
  BY StoreAssumption
<1>2. QED BY <1>1 DEF OneStore, OneSegment, SoundLayout, OneSegmentPerNode

\* Two arenas that agree on a chunk return the same.
LEMMA ReadSame ==
  ASSUME NEW d, NEW e, NEW offset \in Nat, NEW len \in Nat \ {0},
         e.allocations[offset] = d.allocations[offset],
         \A o \in Span(offset, len) : e.arena[o] = d.arena[o]
  PROVE  /\ ReadOutcome(e, offset, len) = ReadOutcome(d, offset, len)
         /\ ReadContent(e, offset, len) = ReadContent(d, offset, len)
<1>1. offset \in Span(offset, len)
  BY DEF Span
<1>2. ReadOutcome(e, offset, len) = ReadOutcome(d, offset, len)
  BY DEF ReadOutcome, ValidHandle
<1>3. ReadContent(e, offset, len) = ReadContent(d, offset, len)
  BY <1>1 DEF ReadContent
<1>4. QED BY <1>2, <1>3

\* What is read at a chunk is what its checksum is of.
LEMMA ReadChunk ==
  ASSUME NEW d, d \in [Nodes -> Drams(Bodies)], NEW n \in Nodes, Sealed(d[n]), NEW x \in Replica,
         ReadIn(d, n, x) # NoContent
  PROVE  /\ ReadIn(d, n, x) \in Bodies /\ x.offset \in Offsets
         /\ d[n].allocations[x.offset] = [len |-> x.len, checksum |-> ReadIn(d, n, x)]
<1>1. x.offset \in Nat /\ x.len \in Nat /\ Proper(Bodies) /\ d[n] \in Drams(Bodies)
  BY U64MaxAssumption, NoneAssumption DEF Replica, U64, Proper
<1>2. ReadOutcome(d[n], x.offset, x.len) = "Ok" /\ ReadIn(d, n, x) = ReadContent(d[n], x.offset, x.len)
  BY DEF ReadIn
<1>3. x.offset \in Offsets /\ d[n].allocations[x.offset].len = x.len
  BY <1>2 DEF ReadOutcome, ValidHandle
<1>4. /\ ReadContent(d[n], x.offset, x.len) = d[n].allocations[x.offset].checksum
      /\ ReadContent(d[n], x.offset, x.len) \in Bodies
  BY <1>1, <1>2, ReadOk
<1>5. d[n].allocations[x.offset] \in [len : 0..ArenaSize, checksum : Bodies \cup {NoContent}]
  BY <1>1, <1>3 DEF Drams
<1>6. QED BY <1>2, <1>3, <1>4, <1>5

\* What is read at a chunk that is held was produced for its id; it is within the
\* arena of the chunk's node.
LEMMA ReadFits ==
  ASSUME OneStore, AllFit, OnceInv, NEW id \in Ids, NEW x, HoldsPlace(id, x), NEW n \in Nodes,
         ReadIn(dram, n, x) # NoContent
  PROVE  /\ MadeFor(req, ReadIn(dram, n, x), id)
         /\ n = x.node /\ x.offset + x.len <= ArenaSize /\ ~Unwritten(dram, x.offset)
<1>1. PlacedIn(master.segments, x) /\ x \in Replica
  BY HeldIsPlaced DEF AllFit, PlacedIn
<1>2. dram \in [Nodes -> Drams(Bodies)] /\ Sealed(dram[n])
  BY DEF AllFit, CoreInv, TypeOK, DramSealed
<1> DEFINE b == ReadIn(dram, n, x)
<1>3. b \in Bodies /\ x.offset \in Offsets /\ dram[n].allocations[x.offset] = [len |-> x.len, checksum |-> b]
  BY <1>1, <1>2, ReadChunk
<1> HIDE DEF b
<1>4. dram[n].allocations[x.offset].checksum = b /\ dram[n].allocations[x.offset].len = x.len /\ b # NoContent
  BY <1>3, NoneAssumption
<1>5. MadeFor(req, b, id)
  BY <1>3, <1>4 DEF AllFit, FitInv, ChunksFit
<1>6. x.offset + x.len <= ArenaSize /\ \E i \in DOMAIN Layout : Layout[i][1] = n
  BY <1>3, <1>4 DEF OnceInv, DramPlaced
<1>7. n = x.node
  <2>1. PICK i \in DOMAIN Layout : Layout[i][1] = n
    BY <1>6
  <2>2. i \in DOMAIN master.segments /\ master.segments[i].node = n
    BY <2>1 DEF AllFit, GrantInv, SegmentsFixed
  <2>3. i = x.seg
    BY <1>1, <2>2, OnlySegment DEF PlacedIn, AllFit, OneStore
  <2>4. QED BY <1>1, <2>2, <2>3 DEF PlacedIn
<1>8. ~Unwritten(dram, x.offset)
  BY <1>3, <1>4 DEF Unwritten
<1>9. QED BY <1>5, <1>6, <1>7, <1>8 DEF b

\* A write changes what is read at the writer's chunk, where nothing was, and
\* nowhere else.
LEMMA WriteSeen ==
  ASSUME OneStore, AllFit, OnceInv, CoreInv', OnceInv', NEW r \in Requests, Pending(r), dram' = StoreWrite(r),
         NEW id \in Ids, NEW x, HoldsPlace(id, x), NEW n \in Nodes
  PROVE  \/ ReadIn(dram', n, x) = ReadIn(dram, n, x)
         \/ /\ id = Id(r) /\ x = task[r].handle /\ n = x.node
            /\ ReadIn(dram, n, x) = NoContent /\ ReadIn(dram', n, x) = task[r].body
<1> DEFINE h == task[r].handle
           w == task[r].body
<1>1. CoreInv /\ GrantInv /\ SoundLayout /\ OneSegment /\ UrlsRight
  BY OneStoreSound DEF AllFit
<1>2. w # NoBody /\ w \in Bodies /\ Id(r) \in Ids /\ HoldsPlace(Id(r), h) /\ PlacedIn(master.segments, h)
  BY <1>1, PendingKnown
<1>3. PlacedIn(master.segments, x) /\ x.seg = h.seg /\ (x = h => id = Id(r))
  BY <1>1, <1>2, HeldIsPlaced, SameSegment
<1>4. x \in Replica /\ x.offset \in Nat /\ x.len \in Nat \ {0}
  BY <1>3, U64MaxAssumption DEF PlacedIn, Replica, U64
<1>5. h.offset \in Nat /\ h.len \in Nat \ {0}
  BY <1>2, U64MaxAssumption DEF PlacedIn, Replica, U64
<1>6. /\ dram \in [Nodes -> Drams(Bodies)] /\ Sealed(dram[n])
      /\ dram' \in [Nodes -> Drams(Bodies)] /\ Sealed(dram'[n])
  BY <1>1 DEF CoreInv, TypeOK, DramSealed
<1>7. CASE StoreWrite(r)[n] = dram[n]
  BY <1>7 DEF ReadIn
<1>8. CASE x = h /\ n = h.node /\ StoreWriteOk(r)
  <2>1. ReadIn(dram, n, x) = NoContent
    <3>1. Unwritten(dram, x.offset)
      BY <1>8 DEF OnceInv, PendingUnwritten
    <3>2. QED BY <3>1, ReadFits
  <2>2. HoldsIn(dram', h, w)
    BY <1>1, <1>2, <1>8, StoreWriteHolds
  <2>3. h.offset + h.len <= ArenaSize /\ Holds(dram'[n], h.offset, h.len, w)
    BY <1>8, <2>2 DEF HoldsIn
  <2>4. dram'[n] \in Drams(Bodies) /\ Proper(Bodies)
    BY <1>6, NoneAssumption DEF Proper
  <2>5. ReadOutcome(dram'[n], h.offset, h.len) = "Ok" /\ ReadContent(dram'[n], h.offset, h.len) = w
    BY <1>2, <1>5, <1>6, <2>3, <2>4, ReadHolds
  <2>6. ReadIn(dram', n, x) = w
    BY <1>8, <2>5 DEF ReadIn
  <2>7. QED BY <1>3, <1>8, <2>1, <2>6
<1>9. CASE /\ x # h /\ x.offset + x.len <= ArenaSize
           /\ StoreWrite(r)[n] = WritePreallocated(dram[n], h.offset, h.len, w)
  <2>1. Apart(h.offset, h.len, x.offset, x.len)
    BY <1>1, <1>2, <1>3, <1>9 DEF GrantInv, PlacesApart
  <2> DEFINE d == dram[n]
             o1 == h.offset
             l1 == h.len
             o2 == x.offset
             l2 == x.len
  <2> HIDE DEF h, w, d, o1, l1, o2, l2
  <2>2. /\ d \in Drams(Bodies) /\ w \in Bodies
        /\ o1 \in Nat /\ l1 \in Nat /\ o2 \in Nat /\ l2 \in Nat \ {0}
        /\ o2 + l2 <= ArenaSize /\ Apart(o1, l1, o2, l2)
    BY <1>2, <1>4, <1>5, <1>6, <1>9, <2>1 DEF d, o1, l1, o2, l2
  <2>3. /\ WritePreallocated(d, o1, l1, w).allocations[o2] = d.allocations[o2]
        /\ \A o \in Span(o2, l2) : WritePreallocated(d, o1, l1, w).arena[o] = d.arena[o]
    BY <2>2, WritePreallocatedElsewhere
  <2> DEFINE e == WritePreallocated(d, o1, l1, w)
  <2>4. e.allocations[o2] = d.allocations[o2] /\ \A o \in Span(o2, l2) : e.arena[o] = d.arena[o]
    BY <2>3
  <2> HIDE DEF e
  <2>5. ReadOutcome(e, o2, l2) = ReadOutcome(d, o2, l2) /\ ReadContent(e, o2, l2) = ReadContent(d, o2, l2)
    BY <2>2, <2>4, ReadSame
  <2>6. dram'[n] = e
    BY <1>9 DEF e, d, o1, l1, h, w
  <2>7. QED BY <2>5, <2>6 DEF ReadIn, d, o2, l2
<1>10. CASE x.offset + x.len > ArenaSize
  <2>1. ReadIn(dram, n, x) = NoContent
    BY <1>4, <1>10, ReadFits, ArenaSizeAssumption
  <2>2. ASSUME ReadIn(dram', n, x) # NoContent PROVE FALSE
    <3>1. /\ ReadIn(dram', n, x) \in Bodies /\ x.offset \in Offsets
          /\ dram'[n].allocations[x.offset] = [len |-> x.len, checksum |-> ReadIn(dram', n, x)]
      BY <1>4, <1>6, <2>2, ReadChunk
    <3>2. dram'[n].allocations[x.offset].checksum # NoContent /\ dram'[n].allocations[x.offset].len = x.len
      BY <2>2, <3>1
    <3>3. x.offset + x.len <= ArenaSize
      BY <3>1, <3>2 DEF OnceInv, DramPlaced
    <3>4. QED BY <1>4, <1>10, <3>3, ArenaSizeAssumption
  <2>3. QED BY <2>1, <2>2
<1>11. x.offset + x.len <= ArenaSize \/ x.offset + x.len > ArenaSize
  BY <1>4, ArenaSizeAssumption
<1>12. \/ StoreWrite(r)[n] = dram[n]
       \/ n = h.node /\ StoreWriteOk(r) /\ StoreWrite(r)[n] = WritePreallocated(dram[n], h.offset, h.len, w)
  BY <1>1, <1>2, WriteCase
<1>13. QED BY <1>7, <1>8, <1>9, <1>10, <1>11, <1>12

\* What a step does to the objects and the chunks that Cache stores.
Fills(id, b) ==
  /\ id \in Ids /\ MadeFor(req, b, id) /\ StoredOf(master, dram, id) = NoContent
  /\ StoredOf(master', dram', id) = b
  /\ \A i \in Ids \ {id} : StoredOf(master', dram', i) = StoredOf(master, dram, i)
Empties(id) ==
  /\ id \in Ids /\ StoredOf(master', dram', id) = NoContent
  /\ \A i \in Ids \ {id} : StoredOf(master', dram', i) = StoredOf(master, dram, i)
StoresSame == \A i \in Ids : StoredOf(master', dram', i) = StoredOf(master, dram, i)

\* What is stored at the one replica of a committed object.
LEMMA StoredAt ==
  ASSUME NEW ms, NEW d, NEW id, NEW x \in Replica,
         ms.objects[id].status = "Committed", ms.objects[id].replicas = {x}
  PROVE  StoredOf(ms, d, id) = ReadIn(d, x.node, x)
<1>1. FirstReplica(ms.objects[id]) = x
  BY FirstReplicaOne
<1>2. QED BY <1>1 DEF StoredOf

\* The chunk of an object.
LEMMA ObjectPlace ==
  ASSUME CoreInv, NEW id \in Ids, master.objects[id].status # "Absent"
  PROVE  \E x \in Replica : /\ master.objects[id].replicas = {x} /\ HoldsPlace(id, x)
                            /\ PlacedIn(master.segments, x) /\ x.node \in Nodes
<1>1. PICK x : master.objects[id].replicas = {x} /\ PlacedIn(master.segments, x)
  BY DEF CoreInv, OneReplica
<1>2. x \in Replica /\ x.node \in Nodes /\ HoldsPlace(id, x)
  BY <1>1 DEF PlacedIn, Replica, HoldsPlace
<1>3. QED BY <1>1, <1>2

\* A write fills the object of its task, if that is committed, or none.
LEMMA StoredWrite ==
  ASSUME OneStore, AllFit, OnceInv, CoreInv', OnceInv', NEW r \in Requests, Pending(r), dram' = StoreWrite(r),
         SameObjects(master, master')
  PROVE  StoresSame \/ \E id, b : Fills(id, b)
<1>1. CoreInv /\ BodiesFit
  BY DEF AllFit, FitInv
<1>2. task[r].body # NoBody /\ task[r].body \in Bodies /\ Id(r) \in Ids /\ Own(r, task[r].body)
  BY <1>1, PendingKnown DEF BodiesFit
<1>3. MadeFor(req, task[r].body, Id(r))
  BY <1>2 DEF Own, MadeFor, Id
<1>4. ASSUME NEW i \in Ids
      PROVE  \/ StoredOf(master', dram', i) = StoredOf(master, dram, i)
             \/ /\ i = Id(r) /\ StoredOf(master, dram, i) = NoContent
                /\ StoredOf(master', dram', i) = task[r].body
  <2>1. CASE master.objects[i].status # "Committed"
    BY <2>1 DEF StoredOf, SameObjects
  <2>2. CASE master.objects[i].status = "Committed"
    <3>1. PICK x \in Replica : master.objects[i].replicas = {x} /\ HoldsPlace(i, x) /\ x.node \in Nodes
      BY <1>1, <2>2, ObjectPlace
    <3>2. StoredOf(master, dram, i) = ReadIn(dram, x.node, x)
      BY <2>2, <3>1, StoredAt
    <3>3. master'.objects[i].status = "Committed" /\ master'.objects[i].replicas = {x}
      BY <2>2, <3>1 DEF SameObjects
    <3>4. StoredOf(master', dram', i) = ReadIn(dram', x.node, x)
      BY <3>3, StoredAt
    <3>5. QED BY <3>1, <3>2, <3>4, WriteSeen
  <2>3. QED BY <2>1, <2>2
<1>5. CASE StoredOf(master', dram', Id(r)) = StoredOf(master, dram, Id(r))
  BY <1>4, <1>5 DEF StoresSame
<1>6. CASE StoredOf(master', dram', Id(r)) # StoredOf(master, dram, Id(r))
  <2>1. Fills(Id(r), task[r].body)
    BY <1>2, <1>3, <1>4, <1>6 DEF Fills
  <2>2. QED BY <2>1
<1>7. QED BY <1>5, <1>6

\* A commit fills its object, or makes one visible at which nothing is written.
LEMMA StoredCommit ==
  ASSUME OneStore, AllFit, OnceInv, CoreInv', NEW id \in Ids, dram' = dram, PutEndOk(master, id),
         Restated(master, master', id, "Committed")
  PROVE  StoresSame \/ \E b : Fills(id, b)
<1>1. CoreInv /\ master.objects[id].status \in {"Reserving", "Writing"}
  BY DEF AllFit, PutEndOk
<1>2. PICK x \in Replica : master.objects[id].replicas = {x} /\ HoldsPlace(id, x) /\ x.node \in Nodes
  BY <1>1, ObjectPlace
<1>3. StoredOf(master, dram, id) = NoContent
  BY <1>1 DEF StoredOf
<1>4. master'.objects[id].status = "Committed" /\ master'.objects[id].replicas = {x}
  BY <1>2 DEF Restated
<1>5. StoredOf(master', dram', id) = ReadIn(dram, x.node, x)
  BY <1>4, StoredAt
<1>6. \A i \in Ids \ {id} : StoredOf(master', dram', i) = StoredOf(master, dram, i)
  BY DEF Restated, StoredOf
<1>7. CASE ReadIn(dram, x.node, x) = NoContent
  BY <1>3, <1>5, <1>6, <1>7 DEF StoresSame
<1>8. CASE ReadIn(dram, x.node, x) # NoContent
  <2>1. MadeFor(req, ReadIn(dram, x.node, x), id)
    BY <1>2, <1>8, ReadFits
  <2>2. Fills(id, ReadIn(dram, x.node, x))
    BY <1>3, <1>5, <1>6, <2>1 DEF Fills
  <2>3. QED BY <2>2
<1>9. QED BY <1>7, <1>8

\* The other calls that the Master answers.
LEMMA StoredCall ==
  ASSUME NEW id \in Ids, dram' = dram,
         \/ SameObjects(master, master')
         \/ \E len, x : ReservedAt(master, master', id, len, x)
         \/ Restated(master, master', id, "Revoked")
         \/ Forgotten(master, master', id)
  PROVE  StoresSame \/ Empties(id)
<1>1. CASE SameObjects(master, master')
  BY <1>1 DEF SameObjects, StoresSame, StoredOf
<1>2. CASE ~SameObjects(master, master')
  <2>1. \A i \in Ids \ {id} : StoredOf(master', dram', i) = StoredOf(master, dram, i)
    BY <1>2 DEF ReservedAt, Restated, Forgotten, StoredOf
  <2>2. StoredOf(master', dram', id) = NoContent
    BY <1>2 DEF ReservedAt, Restated, Forgotten, StoredOf
  <2>3. QED BY <2>1, <2>2 DEF Empties
<1>3. QED BY <1>1, <1>2

\* A step fills one object that was empty, empties one, or changes none.
LEMMA StoredStep ==
  ASSUME OneStore, AllFit, OnceInv, CoreInv', OnceInv', [Next]_vars
  PROVE  StoresSame \/ (\E id, b : Fills(id, b)) \/ (\E id : Empties(id))
<1>1. CoreInv
  BY DEF AllFit
<1>2. ASSUME SameObjects(master, master'), dram' = dram PROVE StoresSame
  BY <1>2 DEF SameObjects, StoresSame, StoredOf
<1>3. CASE Idle
  BY <1>2, <1>3 DEF Idle
<1>4. ASSUME NEW id \in Ids, Removes(id) PROVE StoresSame \/ Empties(id)
  BY <1>4, StoredCall DEF Removes
<1>5. ASSUME NEW r \in Requests, Aside(r) \/ GivesUp(r) PROVE StoresSame
  BY <1>2, <1>5 DEF Aside, GivesUp
<1>6. ASSUME NEW r \in Requests, WriteBack(r)
      PROVE  StoresSame \/ (\E id, b : Fills(id, b)) \/ (\E id : Empties(id))
  <2>1. task[r].pc \in Busy
    BY <1>6 DEF WriteBack, Reserves, NotReserved, Writes, Commits, NotCommitted, Revokes, Busy
  <2>2. Id(r) \in Ids
    BY <1>1, <2>1, TaskKnown, WriterKnown DEF FlowOk
  <2>3. CASE Writes(r)
    BY <2>3, StoredWrite DEF Writes, Pending
  <2>4. CASE Commits(r)
    BY <2>2, <2>4, StoredCommit DEF Commits, Answers
  <2>5. CASE Reserves(r)
    BY <2>2, <2>5, StoredCall DEF Reserves
  <2>6. CASE Revokes(r)
    BY <1>2, <2>2, <2>6, StoredCall DEF Revokes, Answers
  <2>7. CASE NotReserved(r) \/ NotCommitted(r)
    BY <1>2, <2>7 DEF NotReserved, NotCommitted, Answers
  <2>8. QED BY <1>6, <2>3, <2>4, <2>5, <2>6, <2>7 DEF WriteBack
<1>7. ASSUME NEW c \in late, Lately(c)
      PROVE  StoresSame \/ (\E id, b : Fills(id, b)) \/ (\E id : Empties(id))
  <2> DEFINE r == c.r
  <2>1. r \in Requests /\ Id(r) \in Ids
    BY <1>1, WriterKnown DEF CoreInv, TypeOK, LateInv
  <2>2. CASE c.op = "write" /\ dram' = StoreWrite(r) /\ SameObjects(master, master')
    <3>1. Pending(r)
      BY <2>2 DEF Pending, LateOp
    <3>2. QED BY <2>1, <2>2, <3>1, StoredWrite
  <2>3. CASE dram' = dram /\ PutEndOk(master, Id(r)) /\ Restated(master, master', Id(r), "Committed")
    BY <2>1, <2>3, StoredCommit
  <2>4. CASE dram' = dram /\ \/ \E x : ReservedAt(master, master', Id(r), task[r].body.len, x)
                             \/ Restated(master, master', Id(r), "Revoked")
    BY <2>1, <2>4, StoredCall
  <2>5. CASE dram' = dram /\ SameObjects(master, master')
    BY <1>2, <2>5
  <2>6. QED BY <1>7, <2>2, <2>3, <2>4, <2>5 DEF Lately
<1>8. QED BY <1>1, <1>3, <1>4, <1>5, <1>6, <1>7, StepKinds

\* The Stores are written by tasks whose write is to come.
LEMMA WhoWrites ==
  ASSUME CoreInv, [Next]_vars
  PROVE  dram' = dram \/ \E r \in Requests : Pending(r) /\ dram' = StoreWrite(r)
<1>1. ASSUME NEW r \in Requests, Aside(r) \/ WriteBack(r) \/ GivesUp(r)
      PROVE  dram' = dram \/ (Pending(r) /\ dram' = StoreWrite(r))
  BY <1>1 DEF Aside, WriteBack, Reserves, NotReserved, Writes, Commits, NotCommitted, Revokes, GivesUp,
     Answers, Pending
<1>2. ASSUME NEW c \in late, Lately(c)
      PROVE  dram' = dram \/ (c.r \in Requests /\ Pending(c.r) /\ dram' = StoreWrite(c.r))
  <2>1. c.r \in Requests
    BY DEF CoreInv, TypeOK
  <2>2. QED BY <1>2, <2>1 DEF Lately, Pending, LateOp
<1>3. CASE Idle \/ \E id \in Ids : Removes(id)
  BY <1>3 DEF Idle, Removes
<1>4. QED BY <1>1, <1>2, <1>3, StepKinds

\* What a request finds is what is stored when it is told where; what it has found
\* changes only when an operator has removed an object, and to a response for its id.
LEMMA LookStep ==
  ASSUME OneStore, AllFit, OnceInv, ReadsWritten, CoreInv', OnceInv', [Next]_vars, NEW r \in Requests
  PROVE  \/ FoundOf(dram', ReadFrom(r), task'[r]) \in {NoContent, FoundOf(dram, ReadFrom(r), task[r])}
         \/ /\ AskOf(r) # NoContent /\ AskOf(r) \in Ids
            /\ FoundOf(dram', ReadFrom(r), task'[r]) = StoredOf(master, dram, AskOf(r))
         \/ /\ removes > 0 /\ FoundOf(dram, ReadFrom(r), task[r]) = NoContent
            /\ \E q \in Requests : AskOf(q) = AskOf(r) /\ Gave(q, FoundOf(dram', ReadFrom(r), task'[r]))
<1>0. CoreInv /\ BodiesFit
  BY DEF AllFit, FitInv
<1>1. CASE task'[r].pc # "read"
  BY <1>1 DEF FoundOf
<1>2. CASE task'[r].pc = "read" /\ task'[r] = task[r]
  <2>1. /\ FoundOf(dram', ReadFrom(r), task'[r]) = ReadIn(dram', ReadFrom(r), task[r].handle)
        /\ FoundOf(dram, ReadFrom(r), task[r]) = ReadIn(dram, ReadFrom(r), task[r].handle)
    BY <1>2 DEF FoundOf
  <2>2. CASE dram' = dram
    BY <2>1, <2>2
  <2>3. ASSUME NEW w \in Requests, Pending(w), dram' = StoreWrite(w),
               ReadIn(dram', ReadFrom(r), task[r].handle) # ReadIn(dram, ReadFrom(r), task[r].handle)
        PROVE  /\ removes > 0 /\ ReadIn(dram, ReadFrom(r), task[r].handle) = NoContent
               /\ AskOf(w) = AskOf(r) /\ Gave(w, ReadIn(dram', ReadFrom(r), task[r].handle))
    <3>1. task[r].pc = "read" /\ Served(req[r]) /\ task[r].handle.len > 0
      BY <1>0, <1>2, TaskKnown DEF FlowOk, Holding
    <3>2. Id(r) \in Ids /\ HoldsPlace(Id(r), task[r].handle) /\ ReadFrom(r) \in Nodes
      BY <1>0, <3>1, IdKnown, ReadFromNode DEF HoldsPlace
    <3>3. /\ Id(r) = Id(w) /\ task[r].handle = task[w].handle
          /\ ReadIn(dram, ReadFrom(r), task[r].handle) = NoContent
          /\ ReadIn(dram', ReadFrom(r), task[r].handle) = task[w].body
      BY <2>3, <3>2, WriteSeen
    <3>4. Unwritten(dram, task[r].handle.offset)
      BY <2>3, <3>3 DEF OnceInv, PendingUnwritten
    <3>5. removes # 0
      BY <3>1, <3>4 DEF ReadsWritten
    <3>6. removes > 0
      BY <1>0, <3>5, BoundsAssumption DEF CoreInv, TypeOK
    <3>7. Own(w, task[w].body)
      BY <1>0, <2>3, PendingKnown DEF BodiesFit
    <3>8. QED BY <3>2, <3>3, <3>6, <3>7, AskKnown
  <2>4. QED BY <1>0, <2>1, <2>2, <2>3, WhoWrites
<1>3. CASE /\ task'[r].pc = "read" /\ master.objects[Id(r)].status = "Committed" /\ task[r].pc = "get"
           /\ task'[r].handle = FirstReplica(master.objects[Id(r)]) /\ dram' = dram
  <2>1. Served(req[r]) /\ Id(r) \in Ids /\ ReadFrom(r) \in Nodes
    BY <1>0, <1>3, TaskKnown, IdKnown, ReadFromNode DEF FlowOk
  <2>2. AskOf(r) = Id(r) /\ AskOf(r) # NoContent
    BY <2>1, AskKnown
  <2>3. PICK x \in Replica : master.objects[Id(r)].replicas = {x} /\ HoldsPlace(Id(r), x)
    BY <1>0, <1>3, <2>1, ObjectPlace
  <2>4. StoredOf(master, dram, AskOf(r)) = ReadIn(dram, x.node, x)
    BY <1>3, <2>2, <2>3, StoredAt
  <2>5. FoundOf(dram', ReadFrom(r), task'[r]) = ReadIn(dram, ReadFrom(r), x)
    BY <1>3, <2>3, FirstReplicaOne DEF FoundOf
  <2>6. ReadIn(dram, ReadFrom(r), x) # NoContent => ReadFrom(r) = x.node
    BY <2>1, <2>3, ReadFits
  <2>7. QED BY <2>1, <2>2, <2>4, <2>5, <2>6
<1>4. QED BY <1>0, <1>1, <1>2, <1>3, ReadsWhereTold

-----------------------------------------------------------------------------
(* The variables of Cache, as CacheFlow gives them. *)

Ask == [r \in Requests |-> IF Id(r) = NoId THEN NoContent ELSE Id(r)]
Holdings ==
  [id \in Ids |-> IF Stored(id) # "Committed" THEN NoContent
                  ELSE LET x == FirstReplica(master.objects[id]) IN Readable(x.node, x)]
Found ==
  [r \in Requests |-> IF task[r].pc = "read" THEN Readable(ReadFrom(r), task[r].handle) ELSE NoContent]
Answer ==
  [r \in Requests |-> IF task[r].resp.status = "None" THEN NoContent
                      ELSE IF task[r].resp.body = NoBody THEN Dropped ELSE task[r].resp.body]

\* They are made of what is known of each request and id.
LEMMA MappedState ==
  /\ \A r \in Requests : Ask[r] = AskOf(r)
  /\ \A r \in Requests : Found[r] = FoundOf(dram, ReadFrom(r), task[r])
  /\ \A r \in Requests : Answer[r] = AnswerOf(task[r])
  /\ \A id \in Ids : Holdings[id] = StoredOf(master, dram, id)
  BY DEF Ask, AskOf, Found, FoundOf, Answer, AnswerOf, Holdings, StoredOf, Stored, Readable, ReadIn

\* And after a step; what a request asks for stays.
LEMMA MappedNext ==
  ASSUME req' = req
  PROVE  /\ Ask' = Ask
         /\ \A r \in Requests : Found'[r] = FoundOf(dram', ReadFrom(r), task'[r])
         /\ \A r \in Requests : Answer'[r] = AnswerOf(task'[r])
         /\ \A id \in Ids : Holdings'[id] = StoredOf(master', dram', id)
<1>1. Ask' = Ask
  BY DEF Ask, Id
<1>2. \A r \in Requests : Found'[r] = FoundOf(dram', ReadFrom(r), task'[r])
  BY DEF Found, FoundOf, Readable, ReadIn, ReadFrom
<1>3. \A r \in Requests : Answer'[r] = AnswerOf(task'[r])
  BY DEF Answer, AnswerOf
<1>4. \A id \in Ids : Holdings'[id] = StoredOf(master', dram', id)
  BY DEF Holdings, StoredOf, Stored, Readable, ReadIn
<1>5. QED BY <1>1, <1>2, <1>3, <1>4

\* The inductive invariant.
RefInv == AllFit /\ CommitInv /\ OnceInv /\ ReadsWritten /\ OwnMisses

\* It holds at first.
LEMMA RefInit == Init => RefInv
<1>1. Init => AllFit /\ CommitInv /\ OnceInv
  BY CoreInit, GrantInit, FitInit, CommitInit, OnceInit DEF AllFit
<1>2. Init => ReadsWritten /\ OwnMisses
  BY DEF Init, ReadsWritten, OwnMisses, NoResponse
<1>3. QED BY <1>1, <1>2 DEF RefInv

\* Every step keeps it.
LEMMA RefStep ==
  ASSUME OneStore, RefInv, [Next]_vars
  PROVE  RefInv'
<1>1. SoundLayout /\ OneSegment /\ UrlsRight
  BY OneStoreSound
<1>2. AllFit' /\ CommitInv'
  BY <1>1, FitStep, CommitStep DEF RefInv
<1>3. OnceInv'
  BY <1>1, OnceStep DEF RefInv, AllFit, FitInv
<1>4. ReadsWritten' /\ OwnMisses'
  BY <1>1, ReadsWrittenStep, OwnMissesStep DEF RefInv
<1>5. QED BY <1>2, <1>3, <1>4 DEF RefInv

\* The first state is one of an empty cache.
LEMMA CacheInit ==
  ASSUME Init
  PROVE  C!Init
<1>1. CoreInv
  BY CoreInit
<1>2. Ask \in [Requests -> Ids \cup {NoContent}]
  <2>1. \A r \in Requests : req[r] \in RequestKinds /\ (Served(req[r]) => Id(r) \in Ids)
    BY <1>1, TaskKnown, IdKnown
  <2>2. \A r \in Requests : ~Served(req[r]) => Id(r) = NoId
    BY <2>1 DEF Id, IdOf
  <2>3. QED BY <2>1, <2>2 DEF Ask
<1>3. Holdings = [id \in Ids |-> NoContent]
  BY DEF Init, Holdings, Stored, NewMaster, NoObject
<1>4. Found = [r \in Requests |-> NoContent] /\ Answer = [r \in Requests |-> NoContent]
  BY DEF Init, Found, Answer, NoResponse
<1>5. (removes > 0) = FALSE
  BY DEF Init
<1>6. QED BY <1>2, <1>3, <1>4, <1>5 DEF C!Init, Ask, Holdings, Found, Answer

\* An answer is given as Cache gives it.
LEMMA CacheReplies ==
  ASSUME RefInv, RefInv', [Next]_vars, NEW r \in Requests
  PROVE  C!Reply(r)
<1>1. /\ Ask[r] = AskOf(r) /\ Found[r] = FoundOf(dram, ReadFrom(r), task[r])
      /\ Answer'[r] = AnswerOf(task'[r])
      /\ \A q \in Requests : Ask[q] = AskOf(q) /\ Answer[q] = AnswerOf(task[q])
  <2>1. req' = req
    BY StepEffects DEF RefInv, AllFit, Effects
  <2>2. QED BY <2>1, MappedState, MappedNext
<1>2. \/ Answer'[r] = Answer[r]
      \/ /\ Answer[r] = NoContent
         /\ \/ Answer'[r] = Dropped
            \/ Ask[r] # NoContent /\ Found[r] # NoContent /\ Answer'[r] = Found[r]
            \/ /\ Ask[r] # NoContent
               /\ \/ Answer'[r] \in Bodies /\ Answer'[r].by = r /\ Answer'[r].id = Ask[r]
                  \/ \E q \in Requests : /\ Ask[q] = Ask[r]
                                         /\ Answer'[r] \in Bodies /\ Answer'[r].by = q /\ Answer'[r].id = Ask[q]
                                         /\ Answer[q] = Answer'[r]
  BY <1>1, ReplyStep DEF RefInv, Gave
<1>3. QED BY <1>2 DEF C!Reply, C!FromVendor, C!Shared, Ask, Found, Answer

\* So is what a request finds.
LEMMA CacheLooks ==
  ASSUME OneStore, RefInv, RefInv', [Next]_vars, NEW r \in Requests
  PROVE  C!Look(r)
<1>1. /\ Found[r] = FoundOf(dram, ReadFrom(r), task[r]) /\ Found'[r] = FoundOf(dram', ReadFrom(r), task'[r])
      /\ \A q \in Requests : Ask[q] = AskOf(q)
      /\ \A id \in Ids : Holdings[id] = StoredOf(master, dram, id)
  <2>1. req' = req
    BY StepEffects DEF RefInv, AllFit, Effects
  <2>2. QED BY <2>1, MappedState, MappedNext
<1>2. \/ Found'[r] \in {NoContent, Found[r]}
      \/ Ask[r] # NoContent /\ Found'[r] \in {Holdings[Ask[r]], Holdings'[Ask[r]]}
      \/ /\ removes > 0 /\ Found[r] = NoContent
         /\ \E q \in Requests : /\ Ask[q] = Ask[r]
                                /\ Found'[r] \in Bodies /\ Found'[r].by = q /\ Found'[r].id = Ask[q]
  BY <1>1, LookStep DEF RefInv, AllFit, Gave
<1>3. QED BY <1>2 DEF C!Look, C!FromVendor, Ask, Found, Holdings

\* And so is what the cache holds.
LEMMA CacheStores ==
  ASSUME OneStore, RefInv, RefInv', [Next]_vars
  PROVE  \/ Holdings' = Holdings
         \/ \E b \in Bodies : C!Fill(b)
         \/ \E id \in Ids : C!Remove(id)
<1>1. /\ \A id \in Ids : Holdings[id] = StoredOf(master, dram, id) /\ Holdings'[id] = StoredOf(master', dram', id)
      /\ \A q \in Requests : Ask[q] = AskOf(q)
  <2>1. req' = req
    BY StepEffects DEF RefInv, AllFit, Effects
  <2>2. QED BY <2>1, MappedState, MappedNext
<1>2. Holdings = [id \in Ids |-> Holdings[id]] /\ Holdings' = [id \in Ids |-> Holdings'[id]]
  BY DEF Holdings
<1>3. CASE StoresSame
  BY <1>1, <1>2, <1>3 DEF StoresSame
<1>4. ASSUME NEW id, NEW b, Fills(id, b) PROVE b \in Bodies /\ C!Fill(b)
  <2>1. /\ id \in Ids /\ b \in Bodies /\ b.id = id /\ b.by \in Requests /\ Id(b.by) = id
        /\ Holdings[id] = NoContent /\ Holdings'[id] = b
        /\ \A i \in Ids \ {id} : Holdings'[i] = Holdings[i]
    BY <1>1, <1>4 DEF Fills, MadeFor, Bodies, Id
  <2>2. Ask[b.by] = b.id
    BY <1>1, <2>1, AskKnown
  <2>3. Holdings' = [Holdings EXCEPT ![b.id] = b]
    BY <1>2, <2>1
  <2>4. QED BY <2>1, <2>2, <2>3 DEF C!Fill, Holdings, Ask
<1>5. ASSUME NEW id, Empties(id) PROVE id \in Ids /\ C!Remove(id)
  <2>1. /\ id \in Ids /\ Holdings'[id] = NoContent
        /\ \A i \in Ids \ {id} : Holdings'[i] = Holdings[i]
    BY <1>1, <1>5 DEF Empties
  <2>2. Holdings' = [Holdings EXCEPT ![id] = NoContent]
    BY <1>2, <2>1
  <2>3. QED BY <2>1, <2>2 DEF C!Remove, Holdings
<1>6. QED BY <1>3, <1>4, <1>5, StoredStep DEF RefInv, AllFit

\* A step of the gateways, the Master and the Stores is one of the cache.
LEMMA CacheSteps ==
  ASSUME OneStore, RefInv, RefInv', [Next]_vars
  PROVE  C!Next
<1>1. \A r \in Requests : C!Look(r) /\ C!Reply(r)
  BY CacheLooks, CacheReplies
<1>2. DOMAIN Found' = Requests /\ DOMAIN Answer' = Requests
  BY DEF Found, Answer
<1>3. Ask' = Ask
  BY StepEffects, MappedNext DEF RefInv, AllFit, Effects
<1>4. (removes > 0)' \in {removes > 0, TRUE}
  <2>1. removes > 0 => removes' > 0
    BY RemovesCounted DEF RefInv, AllFit
  <2>2. CASE removes' > 0
    BY <2>2, Zenon
  <2>3. CASE ~(removes' > 0)
    <3>1. (removes' > 0) = (removes > 0)
      BY <2>1, <2>3
    <3>2. QED BY <3>1, Zenon
  <2>4. QED BY <2>2, <2>3
<1>5. \/ Holdings' = Holdings
      \/ \E b \in Bodies : C!Fill(b)
      \/ \E id \in Ids : C!Remove(id)
  BY CacheStores
<1>6. QED BY <1>1, <1>2, <1>3, <1>4, <1>5 DEF C!Next, Ask, Holdings, Found, Answer

\* With one Store mounted and URLs that lead to the node they are configured for,
\* clients see the cache of module Cache: whatever interleaves, fails, arrives
\* late or is removed, an object does not change while it is stored, a hit returns
\* what was stored for the client's own id when it looked (or, once an operator
\* has removed something, was at least produced for that id), and a request is
\* answered once.
THEOREM ImplementsTheCache ==
  ASSUME OneStore
  PROVE  Spec => ImplementsCache
<1>1. Init => C!Init
  BY CacheInit
<1>2. RefInv /\ RefInv' /\ [Next]_vars => [C!Next]_(C!vars)
  BY CacheSteps
<1>3. RefInv /\ [Next]_vars => RefInv'
  BY RefStep
<1>4. QED BY <1>1, <1>2, <1>3, RefInit, PTL DEF Spec, ImplementsCache, C!Spec

-----------------------------------------------------------------------------
(* The counters: what each step adds to them, and which tasks it makes     *)
(* that owe an answer or have a vendor call to account for.                *)

\* The answers that needed the vendor, and the counters that stand for its use.
VendorAnswers == {"Miss", "Ineligible", "Degraded"}
VendorUses == {"vendor_calls", "waiter"}

\* A request whose role was counted at begin and whose answer was not.
Owes(r) == role[r] # "idle" /\ source[r] = Nobody /\ task[r].resp.status # "Miss"
\* A request that called the vendor and has not answered yet.
Called(r) == task[r].pc \in Busy

Owing(g) == {r \in Requests : req[r].gateway = g /\ Owes(r)}
Calling(g) == {r \in Requests : req[r].gateway = g /\ Called(r)}

\* The counters m of a gateway, when u of its requests owe an answer and the
\* vendor calls of b are not answered for yet.
Adds(m, u, b) ==
  /\ SumFunctionOnSet(m, CacheStatuses) = SumFunctionOnSet(m, WriteStatuses)
  /\ SumFunctionOnSet(m, SingleflightRoles) = SumFunctionOnSet(m, CacheStatuses) + u
  /\ SumFunctionOnSet(m, VendorAnswers) + b <= SumFunctionOnSet(m, VendorUses)

GatewaysAddUp ==
  \A g \in Gateways : Adds(metrics[g], Cardinality(Owing(g)), Cardinality(Calling(g)))

Bumped(m, cs) == [c \in Counters |-> IF c \in cs THEN m[c] + 1 ELSE m[c]]

\* n of the counters in xs, one at most, are among cs.
Hits(xs, cs, n) == (n = 0 /\ xs \cap cs = {}) \/ (n = 1 /\ \E x : xs \cap cs = {x})

\* A set of four is finite.
LEMMA FourFinite ==
  ASSUME NEW a, NEW b, NEW c, NEW d
  PROVE  IsFiniteSet({a, b, c, d})
<1>1. IsFiniteSet({a} \cup {b})
  BY FS_Singleton, FS_AddElement
<1>2. IsFiniteSet(({a} \cup {b}) \cup {c})
  BY <1>1, FS_AddElement
<1>3. IsFiniteSet((({a} \cup {b}) \cup {c}) \cup {d})
  BY <1>2, FS_AddElement
<1>4. {a, b, c, d} = (({a} \cup {b}) \cup {c}) \cup {d}
  OBVIOUS
<1>5. QED BY <1>3, <1>4

\* There are finitely many counters.
LEMMA CountersFinite == IsFiniteSet(Counters)
<1> DEFINE A == {"Hit", "Miss", "Bypass", "Ineligible"}
           B == {"CacheOnlyMiss", "Degraded", "Committed", "Failed"}
           C4 == {"Skipped", "leader", "waiter", "none"}
           D == {"over_capacity", "vendor_calls", "none", "waiter"}
<1>1. IsFiniteSet(A) /\ IsFiniteSet(B) /\ IsFiniteSet(C4) /\ IsFiniteSet(D)
  BY FourFinite
<1>2. Counters \subseteq (A \cup B) \cup (C4 \cup D)
  BY DEF Counters, CacheStatuses, WriteStatuses, SingleflightRoles
<1> HIDE DEF A, B, C4, D
<1>3. IsFiniteSet(A \cup B) /\ IsFiniteSet(C4 \cup D)
  BY <1>1, FS_Union
<1>4. IsFiniteSet((A \cup B) \cup (C4 \cup D))
  BY <1>3, FS_Union
<1>5. QED BY <1>2, <1>4, FS_Subset

\* Counting adds to a sum one for each counter of it that goes up.
LEMMA BumpSum ==
  ASSUME NEW m \in [Counters -> Nat], NEW cs, NEW xs \in SUBSET Counters, NEW n, Hits(xs, cs, n)
  PROVE  /\ SumFunctionOnSet(Bumped(m, cs), xs) = SumFunctionOnSet(m, xs) + n
         /\ SumFunctionOnSet(m, xs) \in Nat
<1>1. IsFiniteSet(xs)
  BY CountersFinite, FS_Subset
<1>2. NatOn(m, xs) /\ NatOn(Bumped(m, cs), xs)
  BY DEF NatOn, Bumped
<1>3. SumFunctionOnSet(m, xs) \in Nat
  BY <1>1, <1>2, SumType
<1>4. CASE n = 0 /\ xs \cap cs = {}
  <2>1. SameOn(m, Bumped(m, cs), xs)
    BY <1>4 DEF SameOn, Bumped
  <2>2. SumFunctionOnSet(m, xs) = SumFunctionOnSet(Bumped(m, cs), xs)
    BY <1>1, <2>1, SumSame
  <2>3. QED BY <1>3, <1>4, <2>2
<1>5. ASSUME NEW x, n = 1, xs \cap cs = {x} PROVE SumFunctionOnSet(Bumped(m, cs), xs) = SumFunctionOnSet(m, xs) + n
  <2>1. x \in xs /\ x \in cs /\ \A y \in xs \ {x} : y \notin cs
    BY <1>5
  <2>2. SameOn(m, Bumped(m, cs), xs \ {x})
    BY <2>1 DEF SameOn, Bumped
  <2>3. Bumped(m, cs)[x] = m[x] + 1 /\ m[x] \in Nat
    BY <2>1 DEF Bumped
  <2>4. SumFunctionOnSet(Bumped(m, cs), xs) = (SumFunctionOnSet(m, xs) - m[x]) + Bumped(m, cs)[x]
    BY <1>1, <1>2, <2>1, <2>2, SumUpdate
  <2>5. QED BY <1>3, <1>5, <2>3, <2>4
<1>6. QED BY <1>3, <1>4, <1>5 DEF Hits

\* Counters that add up still do after a step that counts a status and a write
\* status, or neither (a), p roles, n answers that needed the vendor, and v uses of
\* it, when it changes what is owed accordingly.
LEMMA AddsBump ==
  ASSUME NEW m \in [Counters -> Nat], NEW cs, NEW a, NEW p, NEW n, NEW v,
         NEW u \in Nat, NEW w \in Nat, NEW b \in Nat, NEW d \in Nat, Adds(m, u, b),
         Hits(CacheStatuses, cs, a), Hits(WriteStatuses, cs, a), Hits(SingleflightRoles, cs, p),
         Hits(VendorAnswers, cs, n), Hits(VendorUses, cs, v), p + u = a + w, n + d <= v + b
  PROVE  Adds(Bumped(m, cs), w, d)
<1>1. /\ CacheStatuses \subseteq Counters /\ WriteStatuses \subseteq Counters /\ SingleflightRoles \subseteq Counters
      /\ VendorAnswers \subseteq Counters /\ VendorUses \subseteq Counters
  BY DEF Counters, CacheStatuses, WriteStatuses, SingleflightRoles, VendorAnswers, VendorUses
<1>2. /\ SumFunctionOnSet(Bumped(m, cs), CacheStatuses) = SumFunctionOnSet(m, CacheStatuses) + a
      /\ SumFunctionOnSet(m, CacheStatuses) \in Nat
  BY <1>1, BumpSum
<1>3. SumFunctionOnSet(Bumped(m, cs), WriteStatuses) = SumFunctionOnSet(m, WriteStatuses) + a
  BY <1>1, BumpSum
<1>4. SumFunctionOnSet(Bumped(m, cs), SingleflightRoles) = SumFunctionOnSet(m, SingleflightRoles) + p
  BY <1>1, BumpSum
<1>5. /\ SumFunctionOnSet(Bumped(m, cs), VendorAnswers) = SumFunctionOnSet(m, VendorAnswers) + n
      /\ SumFunctionOnSet(m, VendorAnswers) \in Nat
  BY <1>1, BumpSum
<1>6. /\ SumFunctionOnSet(Bumped(m, cs), VendorUses) = SumFunctionOnSet(m, VendorUses) + v
      /\ SumFunctionOnSet(m, VendorUses) \in Nat
  BY <1>1, BumpSum
<1>7. a \in 0..1 /\ p \in 0..1 /\ n \in 0..1 /\ v \in 0..1
  BY DEF Hits
<1>8. QED BY <1>2, <1>3, <1>4, <1>5, <1>6, <1>7 DEF Adds

Bit(fact) == IF fact THEN 1 ELSE 0

\* A set in which only r can come or go.
LEMMA OneChanges ==
  ASSUME NEW old, NEW new, NEW r, IsFiniteSet(old), IsFiniteSet(new), old \ {r} = new \ {r}
  PROVE  /\ Cardinality(new) + Bit(r \in old) = Cardinality(old) + Bit(r \in new)
         /\ Cardinality(old) \in Nat /\ Cardinality(new) \in Nat
<1>1. Cardinality(old \ {r}) = IF r \in old THEN Cardinality(old) - 1 ELSE Cardinality(old)
  BY FS_RemoveElement
<1>2. Cardinality(new \ {r}) = IF r \in new THEN Cardinality(new) - 1 ELSE Cardinality(new)
  BY FS_RemoveElement
<1>3. Cardinality(old) \in Nat /\ Cardinality(new) \in Nat
  BY FS_CardinalityType
<1>4. Cardinality(old \ {r}) = Cardinality(new \ {r})
  OBVIOUS
<1>5. Bit(r \in old) = (IF r \in old THEN 1 ELSE 0) /\ Bit(r \in new) = (IF r \in new THEN 1 ELSE 0)
  BY DEF Bit
<1>6. QED BY <1>1, <1>2, <1>3, <1>4, <1>5

\* The step claims a commit for r.
Acks(r) == task'[r].resp.write = "Committed" /\ task[r].resp.write # "Committed"

\* What a step of r counts is what changes in what r owes; "Committed" is counted
\* when the client is told so.
Tallies(r) ==
  \E cs, a, p, n, v :
    /\ Count(r, cs)
    /\ Hits(CacheStatuses, cs, a) /\ Hits(WriteStatuses, cs, a) /\ Hits(SingleflightRoles, cs, p)
    /\ Hits(VendorAnswers, cs, n) /\ Hits(VendorUses, cs, v)
    /\ p + Bit(Owes(r)) = a + Bit(Owes(r)')
    /\ n + Bit(Called(r)') <= v + Bit(Called(r))
    /\ "Committed" \in cs <=> Acks(r)

\* A step of r that tallies keeps the counters of every gateway adding up.
LEMMA TallyKeeps ==
  ASSUME CoreInv, GatewaysAddUp, NEW r \in Requests, Tallies(r), OthersSame(r), OthersKeepRole(r), req' = req
  PROVE  GatewaysAddUp'
<1>1. PICK cs, a, p, n, v :
        /\ Count(r, cs)
        /\ Hits(CacheStatuses, cs, a) /\ Hits(WriteStatuses, cs, a) /\ Hits(SingleflightRoles, cs, p)
        /\ Hits(VendorAnswers, cs, n) /\ Hits(VendorUses, cs, v)
        /\ p + Bit(Owes(r)) = a + Bit(Owes(r)')
        /\ n + Bit(Called(r)') <= v + Bit(Called(r))
  BY DEF Tallies
<1> DEFINE q == req[r].gateway
<1>2. q \in Gateways /\ metrics \in [Gateways -> [Counters -> Nat]]
  BY RequestAssumption DEF CoreInv, TypeOK
<1>3. metrics' = [metrics EXCEPT ![q] = Bumped(metrics[q], cs)]
  BY <1>1 DEF Count, Bumped
<1> SUFFICES ASSUME NEW g \in Gateways
             PROVE  Adds(metrics'[g], Cardinality(Owing(g)'), Cardinality(Calling(g)'))
  BY DEF GatewaysAddUp
<1>4. Adds(metrics[g], Cardinality(Owing(g)), Cardinality(Calling(g)))
  BY DEF GatewaysAddUp
<1>5. ASSUME NEW s \in Requests, s # r PROVE (Owes(s)' <=> Owes(s)) /\ (Called(s)' <=> Called(s))
  BY <1>5 DEF OthersSame, OthersKeepRole, Owes, Called
<1>6. Owing(g) \ {r} = Owing(g)' \ {r} /\ Calling(g) \ {r} = Calling(g)' \ {r}
  BY <1>5 DEF Owing, Calling
<1>7. /\ IsFiniteSet(Owing(g)) /\ IsFiniteSet(Owing(g)')
      /\ IsFiniteSet(Calling(g)) /\ IsFiniteSet(Calling(g)')
  <2>1. /\ Owing(g) \subseteq Requests /\ Owing(g)' \subseteq Requests
        /\ Calling(g) \subseteq Requests /\ Calling(g)' \subseteq Requests
    BY DEF Owing, Calling
  <2>2. QED BY <2>1, RequestAssumption, FS_Subset
<1>8. /\ Cardinality(Owing(g)') + Bit(r \in Owing(g)) = Cardinality(Owing(g)) + Bit(r \in Owing(g)')
      /\ Cardinality(Owing(g)) \in Nat /\ Cardinality(Owing(g)') \in Nat
  BY <1>6, <1>7, OneChanges
<1>9. /\ Cardinality(Calling(g)') + Bit(r \in Calling(g)) = Cardinality(Calling(g)) + Bit(r \in Calling(g)')
      /\ Cardinality(Calling(g)) \in Nat /\ Cardinality(Calling(g)') \in Nat
  BY <1>6, <1>7, OneChanges
<1>10. CASE g # q
  <2>1. r \notin Owing(g) /\ r \notin Owing(g)' /\ r \notin Calling(g) /\ r \notin Calling(g)'
    BY <1>10 DEF Owing, Calling
  <2>2. Cardinality(Owing(g)') = Cardinality(Owing(g)) /\ Cardinality(Calling(g)') = Cardinality(Calling(g))
    BY <1>8, <1>9, <2>1 DEF Bit
  <2>3. metrics'[g] = metrics[g]
    BY <1>2, <1>3, <1>10
  <2>4. QED BY <1>4, <2>2, <2>3
<1>11. CASE g = q
  <2>1. /\ r \in Owing(g) <=> Owes(r)
        /\ r \in Owing(g)' <=> Owes(r)'
        /\ r \in Calling(g) <=> Called(r)
        /\ r \in Calling(g)' <=> Called(r)'
    BY <1>11 DEF Owing, Calling
  <2>2. /\ Cardinality(Owing(g)') + Bit(Owes(r)) = Cardinality(Owing(g)) + Bit(Owes(r)')
        /\ Cardinality(Calling(g)') + Bit(Called(r)) = Cardinality(Calling(g)) + Bit(Called(r)')
    BY <1>8, <1>9, <2>1 DEF Bit
  <2>3. metrics'[g] = Bumped(metrics[g], cs) /\ metrics[g] \in [Counters -> Nat]
    BY <1>2, <1>3, <1>11
  <2>4. a \in 0..1 /\ p \in 0..1 /\ n \in 0..1 /\ v \in 0..1
    BY <1>1 DEF Hits
  <2>5. Bit(Owes(r)) \in 0..1 /\ Bit(Owes(r)') \in 0..1 /\ Bit(Called(r)) \in 0..1 /\ Bit(Called(r)') \in 0..1
    BY DEF Bit
  <2> DEFINE u == Cardinality(Owing(g))
             w == Cardinality(Owing(g)')
             b == Cardinality(Calling(g))
             d == Cardinality(Calling(g)')
  <2>6. p + u = a + w /\ n + d <= v + b
    BY <1>1, <1>8, <1>9, <2>2, <2>4, <2>5
  <2>7. u \in Nat /\ w \in Nat /\ b \in Nat /\ d \in Nat /\ Adds(metrics[g], u, b)
    BY <1>4, <1>8, <1>9
  <2> HIDE DEF u, w, b, d
  <2>8. Adds(Bumped(metrics[g], cs), w, d)
    BY <1>1, <2>3, <2>6, <2>7, AddsBump
  <2>9. QED BY <2>3, <2>8 DEF w, d
<1>12. QED BY <1>10, <1>11

\* Counting nothing leaves the counters as they are.
LEMMA CountNothing ==
  ASSUME CoreInv, NEW r \in Requests, UNCHANGED metrics
  PROVE  Count(r, {})
<1>1. req[r].gateway \in Gateways /\ metrics \in [Gateways -> [Counters -> Nat]]
  BY RequestAssumption DEF CoreInv, TypeOK
<1>2. metrics[req[r].gateway] \in [Counters -> Nat]
  BY <1>1
<1>3. [c \in Counters |-> metrics[req[r].gateway][c]] = metrics[req[r].gateway]
  BY <1>2
<1>4. QED BY <1>1, <1>3 DEF Count

\* A step that counts nothing, or a vendor call that is not answered.
LEMMA TallyQuiet ==
  ASSUME NEW r \in Requests, NEW cs, cs = {} \/ cs = {"vendor_calls"}, Count(r, cs),
         Owes(r)' <=> Owes(r), Called(r)' => Called(r) \/ cs # {}, ~Acks(r)
  PROVE  Tallies(r)
<1> DEFINE v == IF cs = {} THEN 0 ELSE 1
<1>1. /\ Hits(CacheStatuses, cs, 0) /\ Hits(WriteStatuses, cs, 0) /\ Hits(SingleflightRoles, cs, 0)
      /\ Hits(VendorAnswers, cs, 0) /\ "Committed" \notin cs
  BY DEF Hits, CacheStatuses, WriteStatuses, SingleflightRoles, VendorAnswers
<1>2. Hits(VendorUses, cs, v)
  <2>1. CASE cs = {}
    BY <2>1 DEF Hits
  <2>2. CASE cs = {"vendor_calls"}
    <3>1. VendorUses \cap cs = {"vendor_calls"}
      BY <2>2 DEF VendorUses
    <3>2. v = 1
      BY <2>2
    <3>3. QED BY <3>1, <3>2 DEF Hits
  <2>3. QED BY <2>1, <2>2
<1>3. 0 + Bit(Owes(r)) = 0 + Bit(Owes(r)') /\ 0 + Bit(Called(r)') <= v + Bit(Called(r))
  BY DEF Bit
<1> HIDE DEF v
<1>4. QED BY <1>1, <1>2, <1>3 DEF Tallies

\* A role that is counted at begin is answered for later.
LEMMA TallyBegin ==
  ASSUME NEW r \in Requests, NEW ro \in {"leader", "over_capacity"}, Count(r, {ro}),
         ~Owes(r), Owes(r)', ~Called(r)', ~Acks(r)
  PROVE  Tallies(r)
<1>1. /\ Hits(CacheStatuses, {ro}, 0) /\ Hits(WriteStatuses, {ro}, 0)
      /\ Hits(VendorAnswers, {ro}, 0) /\ Hits(VendorUses, {ro}, 0) /\ "Committed" \notin {ro}
  BY DEF Hits, CacheStatuses, WriteStatuses, VendorAnswers, VendorUses
<1>2. Hits(SingleflightRoles, {ro}, 1)
  <2>1. SingleflightRoles \cap {ro} = {ro}
    BY DEF SingleflightRoles
  <2>2. QED BY <2>1 DEF Hits
<1>3. 1 + Bit(Owes(r)) = 0 + Bit(Owes(r)') /\ 0 + Bit(Called(r)') <= 0 + Bit(Called(r))
  BY DEF Bit
<1>4. QED BY <1>1, <1>2, <1>3 DEF Tallies

\* What an answer counts besides its two statuses.
Extras == {{}, {"none"}, {"vendor_calls"}, {"vendor_calls", "none"}, {"waiter"}}

\* An answer is counted once, with the role of a request that has none from begin,
\* and has a vendor call behind it where it needs one.
LEMMA TallyAnswer ==
  ASSUME NEW r \in Requests, NEW s \in CacheStatuses, NEW w \in WriteStatuses, NEW extra \in Extras,
         Count(r, {s, w} \cup extra),
         extra \cap SingleflightRoles # {} => (Owes(r)' <=> Owes(r)),
         extra \cap SingleflightRoles = {} => Owes(r) /\ ~Owes(r)',
         s \in VendorAnswers => Called(r) \/ extra \cap VendorUses # {},
         ~Called(r)', w = "Committed" <=> Acks(r)
  PROVE  Tallies(r)
<1> DEFINE cs == {s, w} \cup extra
           p == Bit(extra \cap SingleflightRoles # {})
           n == Bit(s \in VendorAnswers)
           v == Bit(extra \cap VendorUses # {})
<1>1. CacheStatuses \cap cs = {s} /\ WriteStatuses \cap cs = {w}
  BY DEF Extras, CacheStatuses, WriteStatuses
<1>2. SingleflightRoles \cap cs = extra \cap SingleflightRoles
  BY DEF Extras, SingleflightRoles, CacheStatuses, WriteStatuses
<1>3. VendorUses \cap cs = extra \cap VendorUses
  BY DEF Extras, VendorUses, CacheStatuses, WriteStatuses
<1>4. VendorAnswers \cap cs = IF s \in VendorAnswers THEN {s} ELSE {}
  BY DEF Extras, VendorAnswers, CacheStatuses, WriteStatuses
<1>5. "Committed" \in cs <=> w = "Committed"
  BY DEF Extras, CacheStatuses, WriteStatuses
<1>6. extra \cap SingleflightRoles = {} \/ \E x : extra \cap SingleflightRoles = {x}
  <2>1. \/ extra \cap SingleflightRoles = {} \/ extra \cap SingleflightRoles = {"none"}
        \/ extra \cap SingleflightRoles = {"waiter"}
    BY DEF Extras, SingleflightRoles
  <2>2. QED BY <2>1
<1>7. extra \cap VendorUses = {} \/ \E x : extra \cap VendorUses = {x}
  <2>1. \/ extra \cap VendorUses = {} \/ extra \cap VendorUses = {"vendor_calls"}
        \/ extra \cap VendorUses = {"waiter"}
    BY DEF Extras, VendorUses
  <2>2. QED BY <2>1
<1> HIDE DEF cs
<1>8. Hits(CacheStatuses, cs, 1) /\ Hits(WriteStatuses, cs, 1)
  BY <1>1 DEF Hits
<1>9. Hits(SingleflightRoles, cs, p)
  <2>1. CASE extra \cap SingleflightRoles = {}
    BY <1>2, <2>1 DEF Hits, Bit
  <2>2. CASE extra \cap SingleflightRoles # {}
    BY <1>2, <1>6, <2>2 DEF Hits, Bit
  <2>3. QED BY <2>1, <2>2
<1>10. Hits(VendorUses, cs, v)
  <2>1. CASE extra \cap VendorUses = {}
    BY <1>3, <2>1 DEF Hits, Bit
  <2>2. CASE extra \cap VendorUses # {}
    BY <1>3, <1>7, <2>2 DEF Hits, Bit
  <2>3. QED BY <2>1, <2>2
<1>11. Hits(VendorAnswers, cs, n)
  <2>1. CASE s \in VendorAnswers
    BY <1>4, <2>1 DEF Hits, Bit
  <2>2. CASE s \notin VendorAnswers
    BY <1>4, <2>2 DEF Hits, Bit
  <2>3. QED BY <2>1, <2>2
<1>12. p + Bit(Owes(r)) = 1 + Bit(Owes(r)')
  BY DEF Bit
<1>13. n + Bit(Called(r)') <= v + Bit(Called(r))
  BY DEF Bit
<1>14. Count(r, cs)
  BY DEF cs
<1> HIDE DEF p, n, v
<1>15. QED BY <1>5, <1>8, <1>9, <1>10, <1>11, <1>12, <1>13, <1>14 DEF Tallies

\* A step of r that others are not concerned by.
Alone(r) == OthersSame(r) /\ OthersKeepRole(r) /\ req' = req

\* Nothing changes in singleflight.
LEMMA RolesStay ==
  ASSUME NEW r \in Requests, UNCHANGED gatewayVars
  PROVE  OthersKeepRole(r) /\ role' = role /\ source' = source
BY DEF gatewayVars, OthersKeepRole

\* A request that has not answered owes an answer from begin on, unless it waits.
LEMMA OwesUntil ==
  ASSUME CoreInv, NEW r \in Requests, task[r].pc \notin Ended
  PROVE  /\ task[r].resp.status = "None" /\ task[r].resp.write = "Skipped"
         /\ role[r] \in {"idle", "leading", "solo"} => source[r] = Nobody /\ (Owes(r) <=> role[r] # "idle")
<1>1. task[r].resp = NoResponse
  BY TaskKnown DEF FlowOk
<1>2. role[r] \in {"idle", "leading", "solo"} => source[r] = Nobody
  BY DEF CoreInv, SFP!SfInv, SFP!LeaderState
<1>3. QED BY <1>1, <1>2 DEF NoResponse, Owes

\* The answer of a task that was still at work, with the vendor call it made.
LEMMA TallyReturn ==
  ASSUME CoreInv, NEW r \in Requests, NEW status \in ResponseStatuses, NEW write \in WriteStatuses,
         NEW body \in Bodies \cup {NoBody}, NEW calls, calls = {} \/ calls = {"vendor_calls"},
         Finish(r, status, write, body), Count(r, calls \cup Outcome(r, status, write)),
         UNCHANGED gatewayVars, req' = req,
         task[r].pc \in {"start", "get", "read", "vendor"} \cup Busy,
         role[r] # "idle" /\ status \in CacheStatuses => status = "Miss",
         status \in VendorAnswers => Called(r) \/ calls # {},
         status \in CacheStatuses \/ write = "Skipped"
  PROVE  Tallies(r) /\ Alone(r)
<1>1. task[r].pc \notin Ended /\ role[r] \in {"idle", "leading", "solo"}
  <2>1. role[r] \in RolesAt(task[r].pc)
    BY TaskKnown DEF FlowOk
  <2>2. QED BY <2>1 DEF RolesAt, Busy, Ended
<1>2. /\ task[r].resp.status = "None" /\ task[r].resp.write = "Skipped"
      /\ source[r] = Nobody /\ (Owes(r) <=> role[r] # "idle")
  BY <1>1, OwesUntil
<1>3. /\ OthersSame(r)
      /\ task'[r].pc \in {"finish", "done"}
      /\ task'[r].resp = [status |-> status, write |-> write, body |-> body]
  BY <1>1, AnswerEffects DEF Ended
<1>4. OthersKeepRole(r) /\ role' = role /\ source' = source
  BY RolesStay
<1>5. ~Called(r)' /\ (Acks(r) <=> write = "Committed")
  BY <1>2, <1>3 DEF Called, Busy, Acks
<1>6. Owes(r)' <=> role[r] # "idle" /\ status # "Miss"
  BY <1>2, <1>3, <1>4 DEF Owes
<1>7. CASE status \notin CacheStatuses
  <2>1. Outcome(r, status, write) = {}
    BY <1>7 DEF Outcome
  <2>2. calls \cup Outcome(r, status, write) = calls
    BY <2>1
  <2>3. Count(r, calls) /\ status # "Miss" /\ ~Acks(r)
    BY <1>5, <1>7, <2>2 DEF CacheStatuses
  <2>4. QED BY <1>2, <1>3, <1>4, <1>5, <1>6, <2>3, TallyQuiet DEF Alone
<1>8. CASE status \in CacheStatuses
  <2> DEFINE extra == calls \cup (IF role[r] = "idle" THEN {"none"} ELSE {})
  <2>1. calls \cup Outcome(r, status, write) = {status, write} \cup extra
    BY <1>8 DEF Outcome
  <2>2. Count(r, {status, write} \cup extra)
    BY <2>1
  <2>3. extra \in Extras
    <3>1. CASE role[r] = "idle" /\ calls = {}
      <4>1. extra = {"none"}
        BY <3>1
      <4>2. QED BY <4>1 DEF Extras
    <3>2. CASE role[r] = "idle" /\ calls = {"vendor_calls"}
      <4>1. extra = {"vendor_calls", "none"}
        BY <3>2
      <4>2. QED BY <4>1 DEF Extras
    <3>3. CASE role[r] # "idle"
      <4>1. extra = calls
        BY <3>3
      <4>2. QED BY <4>1 DEF Extras
    <3>4. QED BY <3>1, <3>2, <3>3
  <2>4. extra \cap SingleflightRoles # {} <=> role[r] = "idle"
    BY DEF SingleflightRoles
  <2>5. calls # {} => extra \cap VendorUses # {}
    BY DEF VendorUses
  <2> HIDE DEF extra
  <2>6. Tallies(r)
    BY <1>2, <1>5, <1>6, <1>8, <2>2, <2>3, <2>4, <2>5, TallyAnswer
  <2>7. QED BY <1>3, <1>4, <2>6 DEF Alone
<1>9. QED BY <1>7, <1>8

\* A step that counts nothing and keeps the answer and the role's kind.
LEMMA TallySame ==
  ASSUME CoreInv, NEW r \in Requests, UNCHANGED metrics, task'[r].resp = task[r].resp,
         role'[r] = "idle" <=> role[r] = "idle", source'[r] = source[r],
         task'[r].pc \in Busy => task[r].pc \in Busy
  PROVE  Tallies(r)
<1>1. Count(r, {})
  BY CountNothing
<1>2. (Owes(r)' <=> Owes(r)) /\ (Called(r)' => Called(r)) /\ ~Acks(r)
  BY DEF Owes, Called, Acks
<1>3. QED BY <1>1, <1>2, TallyQuiet

\* A refused request counts as a bypass, or not at all.
LEMMA TallyRefuse ==
  ASSUME CoreInv, NEW r \in Requests, Refuse(r)
  PROVE  Tallies(r) /\ Alone(r)
<1>1. task[r].pc = "start" /\ UNCHANGED gatewayVars /\ req' = req /\ role[r] = "idle"
  BY StillIdle DEF Refuse, At
<1>2. /\ OthersSame(r)
      /\ task'[r].pc \in {"finish", "done"}
      /\ task'[r].resp = [status |-> "Rejected", write |-> "Skipped", body |-> NoBody]
  BY <1>1, AnswerEffects DEF Refuse, ResponseStatuses, WriteStatuses
<1>3. OthersKeepRole(r) /\ role' = role /\ source' = source
  BY <1>1, RolesStay
<1>4. ~Owes(r) /\ ~Owes(r)' /\ ~Called(r)' /\ ~Acks(r)
  BY <1>1, <1>2, <1>3 DEF Owes, Called, Busy, Acks
<1>5. ASSUME Count(r, {}) PROVE Tallies(r)
  BY <1>4, <1>5, TallyQuiet
<1>6. ASSUME Count(r, {"Bypass", "Skipped", "none"}) PROVE Tallies(r)
  <2>1. Count(r, {"Bypass", "Skipped"} \cup {"none"})
    <3>1. {"Bypass", "Skipped", "none"} = {"Bypass", "Skipped"} \cup {"none"}
      OBVIOUS
    <3>2. QED BY <1>6, <3>1
  <2>2. /\ "Bypass" \in CacheStatuses /\ "Skipped" \in WriteStatuses /\ {"none"} \in Extras
        /\ "Bypass" \notin VendorAnswers /\ {"none"} \cap SingleflightRoles # {}
    BY DEF CacheStatuses, WriteStatuses, Extras, VendorAnswers, SingleflightRoles
  <2>3. QED BY <1>4, <2>1, <2>2, TallyAnswer
<1>7. Tallies(r)
  BY <1>5, <1>6 DEF Refuse
<1>8. QED BY <1>1, <1>2, <1>3, <1>7 DEF Alone

\* A route ends at once only when it needs no vendor.
LEMMA RoutesDone ==
  ASSUME NEW q
  PROVE  /\ Route(q).pc = "done" => Route(q).status = "CacheOnlyMiss"
         /\ RouteMiss(q).pc = "done" => RouteMiss(q).status = "CacheOnlyMiss"
BY DEF Route, RouteMiss, To

\* A route counts when it is the answer.
LEMMA TallyFollow ==
  ASSUME CoreInv, NEW r \in Requests, NEW to, RouteOk(req[r], to), Follow(r, to),
         to.pc = "done" => to.status = "CacheOnlyMiss",
         UNCHANGED gatewayVars, req' = req, task[r].pc \in {"start", "get", "read"}
  PROVE  Tallies(r) /\ Alone(r)
<1>1. role[r] = "idle" /\ OthersKeepRole(r) /\ role' = role /\ source' = source
  BY StillIdle, RolesStay
<1>2. OthersSame(r) /\ task'[r].pc \notin Busy /\ task'[r].resp.write # "Committed"
  BY FollowEffects
<1>3. ~Owes(r) /\ ~Owes(r)' /\ ~Called(r)' /\ ~Acks(r)
  BY <1>1, <1>2 DEF Owes, Called, Acks
<1>4. CASE to.pc # "done"
  <2>1. Count(r, {})
    BY <1>4 DEF Follow
  <2>2. QED BY <1>1, <1>2, <1>3, <2>1, TallyQuiet DEF Alone
<1>5. CASE to.pc = "done"
  <2>1. Count(r, Outcome(r, "CacheOnlyMiss", "Skipped"))
    BY <1>5 DEF Follow
  <2>2. Outcome(r, "CacheOnlyMiss", "Skipped") = {"CacheOnlyMiss", "Skipped"} \cup {"none"}
    BY <1>1 DEF Outcome, CacheStatuses
  <2>3. /\ "CacheOnlyMiss" \in CacheStatuses /\ "Skipped" \in WriteStatuses /\ {"none"} \in Extras
        /\ "CacheOnlyMiss" \notin VendorAnswers /\ {"none"} \cap SingleflightRoles # {}
    BY DEF CacheStatuses, WriteStatuses, Extras, VendorAnswers, SingleflightRoles
  <2>4. Tallies(r)
    BY <1>3, <2>1, <2>2, <2>3, TallyAnswer
  <2>5. QED BY <1>1, <1>2, <2>4 DEF Alone
<1>6. QED BY <1>4, <1>5

\* A request starts, and looks into the cache.
LEMMA TallyLookup ==
  ASSUME CoreInv, NEW r \in Requests, Start(r) \/ GetReply(r) \/ ReadReply(r)
  PROVE  Tallies(r) /\ Alone(r)
<1>1. UNCHANGED gatewayVars /\ req' = req /\ task[r].pc \in {"start", "get", "read"}
  BY DEF Start, GetReply, ReadReply, At
<1>2. task[r].pc \in {"get", "read"} => Cacheable(req[r])
  BY TaskKnown DEF FlowOk
<1>3. CASE Start(r)
  <2>1. Follow(r, Route(req[r])) /\ RouteOk(req[r], Route(req[r]))
    BY <1>3, RoutesOk DEF Start
  <2>2. QED BY <1>1, <2>1, RoutesDone, TallyFollow
<1>4. ASSUME Follow(r, RouteMiss(req[r])), task[r].pc \in {"get", "read"} PROVE Tallies(r) /\ Alone(r)
  <2>1. RouteOk(req[r], RouteMiss(req[r]))
    BY <1>2, <1>4, RoutesOk
  <2>2. QED BY <1>1, <1>4, <2>1, RoutesDone, TallyFollow
<1>5. CASE GetReply(r)
  <2>1. task[r].pc = "get"
    BY <1>5 DEF GetReply, At
  <2>2. CASE GetReplicaListOk(master, Id(r))
    <3>1. task' = [task EXCEPT ![r].pc = "read", ![r].handle = FirstReplica(master.objects[Id(r)])]
      BY <1>5, <2>2 DEF GetReply
    <3>2. task \in [Requests -> Tasks] /\ task[r] \in Tasks
      BY TaskKnown DEF CoreInv, TypeOK
    <3>3. task'[r].pc = "read" /\ task'[r].resp = task[r].resp
      BY <3>1, <3>2 DEF Tasks
    <3>4. UNCHANGED metrics
      BY <1>5, <2>2 DEF GetReply
    <3>5. OthersKeepRole(r) /\ role' = role /\ source' = source
      BY <1>1, RolesStay
    <3>6. Tallies(r)
      BY <3>3, <3>4, <3>5, TallySame DEF Busy
    <3>7. OthersSame(r)
      BY <1>5, AsideRead DEF Aside
    <3>8. QED BY <1>1, <3>5, <3>6, <3>7 DEF Alone
  <2>3. CASE ~GetReplicaListOk(master, Id(r))
    BY <1>4, <1>5, <2>1, <2>3 DEF GetReply
  <2>4. QED BY <2>2, <2>3
<1>6. CASE ReadReply(r)
  <2>1. task[r].pc = "read" /\ role[r] = "idle"
    BY <1>6, StillIdle DEF ReadReply, At
  <2> DEFINE outcome == ReadOutcome(dram[ReadFrom(r)], task[r].handle.offset, task[r].handle.len)
             b == ReadContent(dram[ReadFrom(r)], task[r].handle.offset, task[r].handle.len)
  <2>2. ASSUME NEW status \in {"CacheError", "Hit"}, NEW body \in Bodies \cup {NoBody},
               Return(r, status, "Skipped", body)
        PROVE  Tallies(r) /\ Alone(r)
    <3>1. {} \cup Outcome(r, status, "Skipped") = Outcome(r, status, "Skipped")
      OBVIOUS
    <3>2. Finish(r, status, "Skipped", body) /\ Count(r, {} \cup Outcome(r, status, "Skipped"))
      BY <2>2, <3>1 DEF Return
    <3>3. status \in ResponseStatuses /\ "Skipped" \in WriteStatuses /\ status \notin VendorAnswers
      BY DEF ResponseStatuses, CacheStatuses, WriteStatuses, VendorAnswers
    <3>4. QED BY <1>1, <2>1, <3>2, <3>3, TallyReturn
  <2>3. CASE outcome # "Ok"
    <3>1. Return(r, "CacheError", "Skipped", NoBody)
      BY <1>6, <2>3 DEF ReadReply
    <3>2. QED BY <2>2, <3>1
  <2>4. CASE outcome = "Ok" /\ Streaming(req[r]) /\ ~b.stream
    BY <1>4, <1>6, <2>1, <2>4 DEF ReadReply
  <2>5. CASE outcome = "Ok" /\ ~(Streaming(req[r]) /\ ~b.stream)
    <3>1. Return(r, "Hit", "Skipped", b)
      BY <1>6, <2>5 DEF ReadReply
    <3>2. b \in Bodies
      BY <2>1, <2>5, BodyRead
    <3> HIDE DEF b
    <3>3. QED BY <2>2, <3>1, <3>2
  <2>6. QED BY <2>3, <2>4, <2>5
<1>7. QED BY <1>3, <1>5, <1>6

\* begin counts the roles of leaders and of requests over capacity.
LEMMA TallyBegins ==
  ASSUME CoreInv, NEW r \in Requests, Begin(r)
  PROVE  Tallies(r) /\ Alone(r)
<1>1. task[r].pc = "begin" /\ req' = req /\ task[r].pc \notin Ended
  BY DEF Begin, At, Ended
<1>2. role[r] = "idle" /\ source[r] = Nobody /\ task[r].resp.status = "None" /\ task[r].resp.write = "Skipped"
  BY <1>1, StillIdle, OwesUntil
<1>3. OthersSame(r)
  BY AsideBegin DEF Aside
<1>4. /\ role \in [Requests -> SFP!Roles] /\ source \in [Requests -> Requests \cup {Nobody}]
      /\ OthersKeepRole(r)
  BY DEF CoreInv, SFP!SfInv, SFP!TypeOK, OthersKeepRole, Begin, SF!BeginLeader, SF!BeginWaiter,
         SF!BeginOverCapacity
<1>5. PICK pc \in {"vendor", "wait"} : Goto(r, pc)
  BY DEF Begin
<1>6. task'[r].pc = pc /\ task'[r].resp = task[r].resp
  <2>1. Becomes(r, Moved(task[r], pc))
    BY <1>5, GotoTask DEF CoreInv, PCs
  <2>2. QED BY <2>1, TaskKnown DEF Becomes, Moved, Tasks, CoreInv, TypeOK
<1>7. ~Owes(r) /\ ~Called(r)' /\ ~Acks(r)
  BY <1>2, <1>5, <1>6 DEF Owes, Called, Busy, Acks
<1>8. CASE SF!BeginLeader(r) /\ Count(r, {"leader"})
  <2>1. role'[r] = "leading" /\ source' = source
    BY <1>4, <1>8 DEF SF!BeginLeader
  <2>2. Owes(r)'
    BY <1>2, <1>6, <2>1 DEF Owes
  <2>3. QED BY <1>1, <1>3, <1>4, <1>7, <1>8, <2>2, TallyBegin DEF Alone
<1>9. CASE SF!BeginOverCapacity(r) /\ Count(r, {"over_capacity"})
  <2>1. role'[r] = "solo" /\ source' = source
    BY <1>4, <1>9 DEF SF!BeginOverCapacity
  <2>2. Owes(r)'
    BY <1>2, <1>6, <2>1 DEF Owes
  <2>3. QED BY <1>1, <1>3, <1>4, <1>7, <1>9, <2>2, TallyBegin DEF Alone
<1>10. CASE SF!BeginWaiter(r) /\ UNCHANGED metrics
  <2>1. source'[r] # Nobody
    BY <1>4, <1>10 DEF SF!BeginWaiter
  <2>2. ~Owes(r)' /\ Count(r, {})
    BY <1>10, <2>1, CountNothing DEF Owes
  <2>3. QED BY <1>1, <1>3, <1>4, <1>7, <2>2, TallyQuiet DEF Alone
<1>11. QED BY <1>8, <1>9, <1>10 DEF Begin

\* The vendor answers: the call is counted, and the answer when nothing is written.
LEMMA TallyVendor ==
  ASSUME CoreInv, NEW r \in Requests, NEW len \in BodyLens, VendorReply(r, len)
  PROVE  Tallies(r) /\ Alone(r)
<1> DEFINE b == [id |-> Id(r), by |-> r, stream |-> Streaming(req[r]), len |-> len]
           write == IF task[r].served = "Degraded" THEN "Failed" ELSE "Skipped"
<1>1. UNCHANGED gatewayVars /\ task[r].pc = "vendor" /\ req' = req /\ task[r].pc \notin Ended
  BY DEF VendorReply, At, Ended
<1>2. task[r] \in Tasks /\ FlowOk(req[r], task[r], role[r])
  BY TaskKnown
<1>3. /\ Served(req[r]) /\ task[r].served \in CacheStatuses /\ task[r].served \in ResponseStatuses
      /\ role[r] # "idle" => task[r].served = "Miss"
  BY <1>1, <1>2 DEF FlowOk, Busy, Tasks, ResponseStatuses
<1>4. b \in Bodies /\ write \in WriteStatuses
  BY <1>3, VendorBody DEF WriteStatuses
<1> HIDE DEF b, write
<1>5. CASE ~WritesBack(r)
  <2>1. Finish(r, task[r].served, write, b) /\ Count(r, {"vendor_calls"} \cup Outcome(r, task[r].served, write))
    BY <1>5 DEF VendorReply, b, write
  <2>2. QED BY <1>1, <1>3, <1>4, <2>1, TallyReturn
<1>6. CASE WritesBack(r)
  <2>1. task' = [task EXCEPT ![r].pc = "put_start", ![r].body = b] /\ Count(r, {"vendor_calls"})
    BY <1>6 DEF VendorReply, b
  <2>2. task'[r].resp = task[r].resp
    BY <1>2, <2>1 DEF Tasks, CoreInv, TypeOK
  <2>3. OthersKeepRole(r) /\ role' = role /\ source' = source
    BY <1>1, RolesStay
  <2>4. (Owes(r)' <=> Owes(r)) /\ ~Acks(r)
    BY <2>2, <2>3 DEF Owes, Acks
  <2>5. Tallies(r)
    BY <2>1, <2>4, TallyQuiet
  <2>6. OthersSame(r)
    BY AsideVendor DEF Aside
  <2>7. QED BY <1>1, <2>3, <2>5, <2>6 DEF Alone
<1>7. QED BY <1>5, <1>6

\* The vendor fails: the call is counted, or not, and no answer.
LEMMA TallyVendorFails ==
  ASSUME CoreInv, NEW r \in Requests, VendorFails(r)
  PROVE  Tallies(r) /\ Alone(r)
<1> DEFINE calls == IF Streaming(req[r]) THEN {} ELSE {"vendor_calls"}
<1>1. UNCHANGED gatewayVars /\ task[r].pc = "vendor" /\ req' = req
  BY DEF VendorFails, At
<1>2. "VendorError" \in ResponseStatuses /\ "VendorError" \notin CacheStatuses /\ "Skipped" \in WriteStatuses
  BY DEF ResponseStatuses, CacheStatuses, WriteStatuses
<1>3. calls \cup Outcome(r, "VendorError", "Skipped") = calls
  BY <1>2 DEF Outcome
<1>4. Finish(r, "VendorError", "Skipped", NoBody) /\ Count(r, calls \cup Outcome(r, "VendorError", "Skipped"))
  BY <1>3 DEF VendorFails
<1>5. "VendorError" \notin VendorAnswers
  BY DEF VendorAnswers
<1>6. calls = {} \/ calls = {"vendor_calls"}
  OBVIOUS
<1> HIDE DEF calls
<1>7. QED BY <1>1, <1>2, <1>4, <1>5, <1>6, TallyReturn

\* The response that was to be written is the answer, written or not.
LEMMA TallyWrote ==
  ASSUME CoreInv, NEW r \in Requests, NEW write \in WriteStatuses, Wrote(r, write), task[r].pc \in Busy,
         UNCHANGED gatewayVars, req' = req
  PROVE  Tallies(r) /\ Alone(r)
<1>1. {} \cup Outcome(r, "Miss", write) = Outcome(r, "Miss", write)
  OBVIOUS
<1>2. Finish(r, "Miss", write, task[r].body) /\ Count(r, {} \cup Outcome(r, "Miss", write))
  BY <1>1 DEF Wrote, Return
<1>3. task[r].body \in Bodies \cup {NoBody} /\ "Miss" \in ResponseStatuses /\ "Miss" \in CacheStatuses
  BY TaskKnown DEF Tasks, ResponseStatuses, CacheStatuses
<1>4. QED BY <1>2, <1>3, TallyReturn DEF Called

\* Moving on within the write back.
LEMMA TallyMoves ==
  ASSUME CoreInv, NEW r \in Requests, NEW pc \in PCs, Goto(r, pc), UNCHANGED metrics, UNCHANGED gatewayVars,
         req' = req, task[r].pc \in Busy
  PROVE  Tallies(r) /\ Alone(r)
<1>1. OthersKeepRole(r) /\ role' = role /\ source' = source
  BY RolesStay
<1>2. OthersSame(r) /\ task'[r].resp = task[r].resp
  BY MoveEffects DEF gatewayVars
<1>3. Tallies(r)
  BY <1>1, <1>2, TallySame
<1>4. QED BY <1>1, <1>2, <1>3 DEF Alone

\* The calls of the write back.
LEMMA TallyWriteBack ==
  ASSUME CoreInv, NEW r \in Requests, PutStartReply(r) \/ WriteReply(r) \/ PutEndReply(r) \/ PutRevokeReply(r)
  PROVE  Tallies(r) /\ Alone(r)
<1>1. task[r].pc \in Busy /\ UNCHANGED gatewayVars /\ req' = req
  BY DEF PutStartReply, WriteReply, PutEndReply, PutRevokeReply, At, Busy
<1>2. OthersKeepRole(r) /\ role' = role /\ source' = source
  BY <1>1, RolesStay
<1>3. "Failed" \in WriteStatuses /\ "Committed" \in WriteStatuses /\ "put_end" \in PCs /\ "put_revoke" \in PCs
  BY DEF WriteStatuses, PCs
<1>4. ASSUME NEW write \in WriteStatuses, Wrote(r, write) PROVE Tallies(r) /\ Alone(r)
  BY <1>1, <1>4, TallyWrote
<1>5. ASSUME NEW pc \in PCs, Goto(r, pc), UNCHANGED metrics PROVE Tallies(r) /\ Alone(r)
  BY <1>1, <1>5, TallyMoves
<1>6. CASE PutStartReply(r)
  <2>1. CASE PutStartOk(master, Id(r), task[r].body.len, REPLICA_COUNT)
    <3>1. OthersSame(r) /\ task'[r].resp = task[r].resp
      BY <1>6, <2>1, ReserveEffects
    <3>2. UNCHANGED metrics
      BY <1>6, <2>1 DEF PutStartReply
    <3>3. Tallies(r)
      BY <1>1, <1>2, <3>1, <3>2, TallySame
    <3>4. QED BY <1>1, <1>2, <3>1, <3>3 DEF Alone
  <2>2. CASE ~PutStartOk(master, Id(r), task[r].body.len, REPLICA_COUNT)
    BY <1>3, <1>4, <1>6, <2>2 DEF PutStartReply
  <2>3. QED BY <2>1, <2>2
<1>7. CASE WriteReply(r)
  <2>1. PICK pc \in {"put_end", "put_revoke"} : Goto(r, pc)
    BY <1>7 DEF WriteReply
  <2>2. UNCHANGED metrics
    BY <1>7 DEF WriteReply
  <2>3. QED BY <1>3, <1>5, <2>1, <2>2
<1>8. CASE PutEndReply(r)
  BY <1>3, <1>4, <1>5, <1>8 DEF PutEndReply
<1>9. CASE PutRevokeReply(r)
  BY <1>3, <1>4, <1>9 DEF PutRevokeReply
<1>10. QED BY <1>6, <1>7, <1>8, <1>9

\* A result is handed to singleflight and sent, after it was counted.
LEMMA TallyPublish ==
  ASSUME CoreInv, NEW r \in Requests, Publish(r) \/ Send(r)
  PROVE  Tallies(r) /\ Alone(r)
<1>1. OthersSame(r) /\ req' = req /\ UNCHANGED metrics /\ role \in [Requests -> SFP!Roles]
  BY AsidePublish, RoleType DEF Aside, Publish, Send
<1>2. PICK pc \in {"publish", "done"} : Goto(r, pc)
  BY DEF Publish, Send
<1>3. task'[r].pc = pc /\ task'[r].resp = task[r].resp
  <2>1. Becomes(r, Moved(task[r], pc))
    BY <1>2, GotoTask DEF CoreInv, PCs
  <2>2. QED BY <2>1, TaskKnown DEF Becomes, Moved, Tasks, CoreInv, TypeOK
<1>4. source' = source /\ OthersKeepRole(r) /\ role'[r] # "idle" /\ role[r] # "idle"
  BY <1>1 DEF Publish, Send, SF!PublishRemove, SF!SoloFinish, SF!PublishSend, OthersKeepRole
<1>5. Tallies(r)
  BY <1>1, <1>2, <1>3, <1>4, TallySame DEF Busy
<1>6. QED BY <1>1, <1>4, <1>5 DEF Alone

\* A waiter counts its own answer, without the write of its leader.
LEMMA TallyWait ==
  ASSUME CoreInv, NEW r \in Requests, WaitReply(r)
  PROVE  Tallies(r) /\ Alone(r)
<1>1. /\ OthersSame(r) /\ req' = req /\ task'[r].pc = "done" /\ task'[r].resp = WaiterResponse(result'[r])
      /\ result'[r] \in Responses \cup {Dropped}
  BY AsideWait DEF Aside
<1>2. task'[r].resp.write = "Skipped"
  BY <1>1, WaiterResponseType
<1>3. SF!WaitReceive(r) \/ SF!WaitClosed(r)
  BY DEF WaitReply
<1>4. source' = source /\ role[r] = "waiting" /\ OthersKeepRole(r)
  BY <1>3, RoleType DEF SF!WaitReceive, SF!WaitClosed, OthersKeepRole
<1>5. source[r] # Nobody
  BY <1>4 DEF CoreInv, SFP!SfInv, SFP!SourceState
<1>6. ~Owes(r) /\ ~Owes(r)' /\ ~Called(r)' /\ ~Acks(r)
  BY <1>1, <1>2, <1>4, <1>5 DEF Owes, Called, Busy, Acks
<1>7. CASE ~Usable(result'[r])
  <2>1. Count(r, {})
    BY <1>7 DEF WaitReply
  <2>2. QED BY <1>1, <1>4, <1>6, <2>1, TallyQuiet DEF Alone
<1>8. CASE Usable(result'[r])
  <2>1. Count(r, {"waiter", "Miss", "Skipped"})
    BY <1>8 DEF WaitReply
  <2>2. {"waiter", "Miss", "Skipped"} = {"Miss", "Skipped"} \cup {"waiter"}
    OBVIOUS
  <2>3. Count(r, {"Miss", "Skipped"} \cup {"waiter"})
    BY <2>1, <2>2
  <2>4. /\ "Miss" \in CacheStatuses /\ "Skipped" \in WriteStatuses /\ {"waiter"} \in Extras
        /\ {"waiter"} \cap SingleflightRoles # {} /\ {"waiter"} \cap VendorUses # {}
    BY DEF CacheStatuses, WriteStatuses, Extras, SingleflightRoles, VendorUses
  <2>5. Tallies(r)
    BY <1>6, <2>3, <2>4, TallyAnswer
  <2>6. QED BY <1>1, <1>4, <2>5 DEF Alone
<1>9. QED BY <1>7, <1>8

\* A call fails, or the task is dropped: nothing is counted twice, and a vendor
\* call may be left without an answer.
LEMMA TallyGivesUp ==
  ASSUME CoreInv, NEW r \in Requests, CallFails(r) \/ Cancel(r)
  PROVE  Tallies(r) /\ Alone(r)
<1>1. req' = req /\ OthersSame(r)
  BY GivesUpKind DEF GivesUp, Keeps
<1>2. CASE Cancel(r)
  <2>1. Goto(r, "cancelled") /\ UNCHANGED metrics /\ "cancelled" \in PCs
    BY <1>2 DEF Cancel, PCs
  <2>2. task'[r].pc = "cancelled" /\ task'[r].resp = task[r].resp
    <3>1. Becomes(r, Moved(task[r], "cancelled"))
      BY <2>1, GotoTask DEF CoreInv
    <3>2. QED BY <3>1, TaskKnown DEF Becomes, Moved, Tasks, CoreInv, TypeOK
  <2>3. source' = source /\ OthersKeepRole(r) /\ (role'[r] = "idle" <=> role[r] = "idle")
    BY <1>2, RoleType DEF Cancel, gatewayVars, SF!CancelLeader, SF!CancelWaiter, OthersKeepRole
  <2>4. Tallies(r)
    BY <2>1, <2>2, <2>3, TallySame DEF Busy
  <2>5. QED BY <1>1, <2>3, <2>4 DEF Alone
<1>3. CASE CallFails(r)
  <2>1. UNCHANGED gatewayVars /\ task[r].pc \in Calls /\ OnError(r)
    BY <1>3 DEF CallFails
  <2>2. CASE task[r].pc \in {"get", "read"}
    <3>1. Finish(r, "CacheError", "Skipped", NoBody) /\ Count(r, Outcome(r, "CacheError", "Skipped"))
      BY <2>1, <2>2 DEF OnError, Return
    <3>2. {} \cup Outcome(r, "CacheError", "Skipped") = Outcome(r, "CacheError", "Skipped")
      OBVIOUS
    <3>3. Count(r, {} \cup Outcome(r, "CacheError", "Skipped"))
      BY <3>1, <3>2
    <3>4. /\ "CacheError" \in ResponseStatuses /\ "CacheError" \notin CacheStatuses /\ "Skipped" \in WriteStatuses
          /\ "CacheError" \notin VendorAnswers
      BY DEF ResponseStatuses, CacheStatuses, WriteStatuses, VendorAnswers
    <3>5. QED BY <1>1, <2>1, <2>2, <3>1, <3>3, <3>4, TallyReturn
  <2>3. CASE task[r].pc \in {"put_start", "put_revoke"}
    <3>1. Wrote(r, "Failed") /\ "Failed" \in WriteStatuses /\ task[r].pc \in Busy
      BY <2>1, <2>3 DEF OnError, WriteStatuses, Busy
    <3>2. QED BY <1>1, <2>1, <3>1, TallyWrote
  <2>4. CASE task[r].pc \in {"write", "put_end"}
    <3>1. Goto(r, "put_revoke") /\ UNCHANGED metrics /\ "put_revoke" \in PCs /\ task[r].pc \in Busy
      BY <2>1, <2>4 DEF OnError, PCs, Busy
    <3>2. QED BY <1>1, <2>1, <3>1, TallyMoves
  <2>5. QED BY <2>1, <2>2, <2>3, <2>4 DEF Calls
<1>4. QED BY <1>2, <1>3

\* Every step of a task tallies.
LEMMA TallySteps ==
  ASSUME CoreInv, NEW r \in Requests, Step(r) \/ VendorFails(r) \/ CallFails(r) \/ Cancel(r)
  PROVE  Tallies(r) /\ Alone(r)
BY TallyRefuse, TallyLookup, TallyBegins, TallyVendor, TallyVendorFails, TallyWriteBack, TallyPublish, TallyWait,
   TallyGivesUp DEF Step

\* The other steps touch nothing that is counted.
Uncounted == UNCHANGED <<req, task, metrics, gatewayVars>>

\* The counters of every gateway keep adding up.
LEMMA GatewaysStep ==
  ASSUME CoreInv, GatewaysAddUp, [Next]_vars
  PROVE  GatewaysAddUp'
<1>1. ASSUME NEW r \in Requests, Step(r) \/ VendorFails(r) \/ CallFails(r) \/ Cancel(r) PROVE GatewaysAddUp'
  BY <1>1, TallySteps, TallyKeeps DEF Alone
<1>2. CASE Uncounted
  <2>1. \A g : Owing(g)' = Owing(g) /\ Calling(g)' = Calling(g)
    BY <1>2 DEF Uncounted, gatewayVars, Owing, Calling, Owes, Called
  <2>2. QED BY <1>2, <2>1 DEF GatewaysAddUp, Uncounted
<1>3. (\E c \in late : LateCall(c)) \/ (\E id \in Ids : RemoveObject(id)) \/ UNCHANGED vars => Uncounted
  BY DEF LateCall, RemoveObject, vars, Uncounted
<1>4. QED BY <1>1, <1>2, <1>3 DEF Next

-----------------------------------------------------------------------------
(* The commits that the gateways count, and those that the Master holds.   *)

CommittedIds == {id \in Ids : Stored(id) = "Committed"}
CommitCounts == [g \in Gateways |-> metrics[g]["Committed"]]

\* While nothing fails and nothing is removed, a task that writes back has the only
\* reservation of its id: no commit is taken back.
WritersReserve ==
  /\ \A r \in Requests : task[r].pc \in Writing => master.objects[Id(r)].status = "Reserving"
  /\ \A r, s \in Requests : task[r].pc \in Writing /\ task[s].pc \in Writing /\ Id(r) = Id(s) => r = s

CommitsCounted ==
  faults = 0 /\ removes = 0 => WritersReserve /\ SumFunction(CommitCounts) = Cardinality(CommittedIds)

\* What a step of r adds to the commits that the gateways counted.
LEMMA CommitTally ==
  ASSUME CoreInv, NEW r \in Requests, Tallies(r)
  PROVE  /\ SumFunction(CommitCounts)' = SumFunction(CommitCounts) + Bit(Acks(r))
         /\ SumFunction(CommitCounts) \in Nat
<1>1. PICK cs : Count(r, cs) /\ ("Committed" \in cs <=> Acks(r))
  BY DEF Tallies
<1> DEFINE q == req[r].gateway
           old == CommitCounts
           new == [g \in Gateways |-> metrics'[g]["Committed"]]
<1>2. q \in Gateways /\ metrics \in [Gateways -> [Counters -> Nat]] /\ IsFiniteSet(Gateways)
  BY RequestAssumption DEF CoreInv, TypeOK
<1>3. metrics' = [metrics EXCEPT ![q] = Bumped(metrics[q], cs)] /\ "Committed" \in Counters
  BY <1>1 DEF Count, Bumped, Counters, WriteStatuses
<1>4. NatOn(old, Gateways) /\ SameOn(old, new, Gateways \ {q})
  BY <1>2, <1>3 DEF NatOn, SameOn, CommitCounts
<1>5. new[q] = old[q] + Bit("Committed" \in cs) /\ old[q] \in Nat
  BY <1>2, <1>3 DEF CommitCounts, Bumped, Bit
<1>6. NatOn(new, Gateways)
  BY <1>4, <1>5 DEF NatOn, SameOn, Bit
<1>7. DOMAIN old = Gateways /\ DOMAIN new = Gateways
  BY DEF CommitCounts
<1>8. SumFunction(old) = SumFunctionOnSet(old, Gateways) /\ SumFunction(new) = SumFunctionOnSet(new, Gateways)
  BY <1>7 DEF SumFunction
<1>9. SumFunction(CommitCounts)' = SumFunction(new)
  BY DEF CommitCounts
<1> HIDE DEF old, new, q
<1>10. SumFunctionOnSet(new, Gateways) = (SumFunctionOnSet(old, Gateways) - old[q]) + new[q]
  BY <1>2, <1>4, <1>6, SumUpdate
<1>11. SumFunctionOnSet(old, Gateways) \in Nat
  BY <1>2, <1>4, SumType
<1>12. Bit("Committed" \in cs) = Bit(Acks(r)) /\ Bit(Acks(r)) \in Nat
  BY <1>1 DEF Bit
<1>13. QED BY <1>5, <1>8, <1>9, <1>10, <1>11, <1>12 DEF old

\* The ids that are committed are finitely many.
LEMMA CommittedFinite == IsFiniteSet(CommittedIds) /\ IsFiniteSet(CommittedIds')
<1>1. IsFiniteSet(Ids)
  BY FiniteAssumption, FS_Product DEF Ids
<1>2. CommittedIds \subseteq Ids /\ CommittedIds' \subseteq Ids
  BY DEF CommittedIds
<1>3. QED BY <1>1, <1>2, FS_Subset

\* A step of a task while nothing has failed and nothing was removed.
LEMMA CommitsTaskStep ==
  ASSUME CoreInv, WritersReserve, SumFunction(CommitCounts) = Cardinality(CommittedIds),
         NEW r \in Requests, Tallies(r), Aside(r) \/ WriteBack(r)
  PROVE  WritersReserve' /\ SumFunction(CommitCounts)' = Cardinality(CommittedIds')
<1>1. /\ SumFunction(CommitCounts)' = Cardinality(CommittedIds) + Bit(Acks(r))
      /\ Cardinality(CommittedIds) \in Nat
  BY CommitTally
<1>2. req' = req /\ OthersSame(r)
  BY DEF Aside, WriteBack, Reserves, NotReserved, Writes, Commits, NotCommitted, Revokes, Answers, Keeps
<1>3. \A s \in Requests : Id(s)' = Id(s)
  BY <1>2 DEF Id
<1>4. \A s \in Requests \ {r} : task'[s].pc = task[s].pc
  BY <1>2 DEF OthersSame
<1>5. ASSUME SameObjects(master, master'), ~Acks(r), task'[r].pc \in Writing => task[r].pc \in Writing
      PROVE  WritersReserve' /\ SumFunction(CommitCounts)' = Cardinality(CommittedIds')
  <2>1. CommittedIds' = CommittedIds
    BY <1>5 DEF CommittedIds, Stored, SameObjects
  <2>2. WritersReserve'
    BY <1>3, <1>4, <1>5 DEF WritersReserve, SameObjects
  <2>3. QED BY <1>1, <1>5, <2>1, <2>2 DEF Bit
<1>6. CASE Aside(r)
  BY <1>5, <1>6 DEF Aside, Acks
<1>7. CASE NotReserved(r)
  BY <1>5, <1>7 DEF NotReserved, Answers, Acks, Writing
<1>8. CASE Writes(r) \/ NotCommitted(r)
  BY <1>5, <1>8 DEF Writes, NotCommitted, Acks, Writing
<1>9. Id(r) \in Ids \/ Aside(r)
  <2>1. WriteBack(r) => task[r].pc \in Busy
    BY DEF WriteBack, Reserves, NotReserved, Writes, Commits, NotCommitted, Revokes, Busy
  <2>2. task[r].pc \in Busy => Id(r) \in Ids
    BY TaskKnown, WriterKnown DEF FlowOk
  <2>3. QED BY <2>1, <2>2
<1>10. CASE Reserves(r)
  <2>1. ~Acks(r)
    BY <1>10 DEF Reserves, Acks
  <2>2. /\ \A i \in Ids \ {Id(r)} : master'.objects[i] = master.objects[i]
        /\ master.objects[Id(r)].status = "Absent" /\ master'.objects[Id(r)].status = "Reserving"
    BY <1>10 DEF Reserves, ReservedAt
  <2>3. CommittedIds' = CommittedIds
    BY <2>2 DEF CommittedIds, Stored
  <2>4. ASSUME NEW s \in Requests, s # r, task'[s].pc \in Writing
        PROVE  Id(s) # Id(r) /\ master'.objects[Id(s)].status = "Reserving"
    <3>1. task[s].pc \in Writing /\ master.objects[Id(s)].status = "Reserving"
      BY <1>4, <2>4 DEF WritersReserve
    <3>2. Id(s) # Id(r)
      BY <2>2, <3>1
    <3>3. Id(s) \in Ids
      BY <3>1, TaskKnown, WriterKnown DEF FlowOk, Writing, Busy
    <3>4. QED BY <2>2, <3>1, <3>2, <3>3
  <2>5. WritersReserve'
    BY <1>3, <1>4, <2>2, <2>4 DEF WritersReserve
  <2>6. QED BY <1>1, <2>1, <2>3, <2>5 DEF Bit
<1>11. ASSUME task[r].pc \in Writing, task'[r].pc \notin Writing,
              \A i \in Ids \ {Id(r)} : master'.objects[i] = master.objects[i]
       PROVE  WritersReserve'
  <2>1. ASSUME NEW s \in Requests, task'[s].pc \in Writing
        PROVE  task[s].pc \in Writing /\ master'.objects[Id(s)].status = "Reserving"
    <3>1. s # r /\ task[s].pc \in Writing
      BY <1>4, <1>11, <2>1
    <3>2. Id(s) # Id(r) /\ master.objects[Id(s)].status = "Reserving"
      BY <1>11, <3>1 DEF WritersReserve
    <3>3. Id(s) \in Ids
      BY <3>1, TaskKnown, WriterKnown DEF FlowOk, Writing, Busy
    <3>4. QED BY <1>11, <3>1, <3>2, <3>3
  <2>2. QED BY <1>3, <2>1 DEF WritersReserve
<1>12. CASE Commits(r)
  <2>1. /\ task[r].pc = "put_end" /\ task'[r].pc \in {"finish", "done"} /\ task'[r].resp.write = "Committed"
        /\ \A i \in Ids \ {Id(r)} : master'.objects[i] = master.objects[i]
        /\ master'.objects[Id(r)].status = "Committed" /\ master.objects[Id(r)].status # "Committed"
    BY <1>12 DEF Commits, Answers, Restated, PutEndOk
  <2>2. Acks(r)
    BY <2>1, OwesUntil DEF Acks, Ended
  <2>3. Id(r) \in Ids
    BY <2>1, TaskKnown, WriterKnown DEF FlowOk, Busy
  <2>4. CommittedIds' = CommittedIds \cup {Id(r)} /\ Id(r) \notin CommittedIds
    BY <2>1, <2>3 DEF CommittedIds, Stored
  <2>5. Cardinality(CommittedIds') = Cardinality(CommittedIds) + 1
    BY <2>4, CommittedFinite, FS_AddElement
  <2>6. WritersReserve'
    BY <1>11, <2>1 DEF Writing
  <2>7. QED BY <1>1, <2>2, <2>5, <2>6 DEF Bit
<1>13. CASE Revokes(r)
  <2>1. /\ task[r].pc = "put_revoke" /\ task'[r].pc \in {"finish", "done"} /\ task'[r].resp.write = "Failed"
    BY <1>13 DEF Revokes, Answers
  <2>2. ~Acks(r)
    BY <2>1 DEF Acks
  <2>3. master.objects[Id(r)].status = "Reserving"
    BY <2>1 DEF WritersReserve, Writing
  <2>4. Restated(master, master', Id(r), "Revoked")
    BY <1>13, <2>3 DEF Revokes
  <2>5. CommittedIds' = CommittedIds
    BY <2>3, <2>4 DEF CommittedIds, Stored, Restated
  <2>6. WritersReserve'
    BY <1>11, <2>1, <2>4 DEF Writing, Restated
  <2>7. QED BY <1>1, <2>2, <2>5, <2>6 DEF Bit
<1>14. QED BY <1>6, <1>7, <1>8, <1>10, <1>12, <1>13 DEF WriteBack

\* Counted commits and stored commits stay equal until something fails or is removed.
LEMMA CommitsCountedStep ==
  ASSUME CoreInv, LateNeedsFault, CommitsCounted, [Next]_vars
  PROVE  CommitsCounted'
<1> SUFFICES ASSUME faults' = 0, removes' = 0
             PROVE  WritersReserve' /\ SumFunction(CommitCounts)' = Cardinality(CommittedIds')
  BY DEF CommitsCounted
<1>1. faults \in Nat /\ removes \in Nat
  BY BoundsAssumption DEF CoreInv, TypeOK
<1>2. ASSUME NEW r \in Requests, CallFails(r) \/ Cancel(r) PROVE FALSE
  BY <1>1, <1>2 DEF CallFails, Cancel
<1>3. ASSUME NEW id \in Ids, RemoveObject(id) PROVE FALSE
  BY <1>1, <1>3 DEF RemoveObject
<1>4. ASSUME NEW c \in late, LateCall(c) PROVE FALSE
  BY <1>4 DEF LateCall, LateNeedsFault
<1>5. CASE UNCHANGED vars
  <2>1. WritersReserve /\ SumFunction(CommitCounts) = Cardinality(CommittedIds)
    BY <1>5 DEF vars, CommitsCounted
  <2>2. UNCHANGED <<req, task, master, metrics>>
    BY <1>5 DEF vars
  <2>3. WritersReserve'
    BY <2>1, <2>2 DEF WritersReserve, Id
  <2>4. CommitCounts' = CommitCounts /\ CommittedIds' = CommittedIds
    BY <2>2 DEF CommitCounts, CommittedIds, Stored
  <2>5. QED BY <2>1, <2>3, <2>4
<1>6. ASSUME NEW r \in Requests, Step(r) \/ VendorFails(r)
      PROVE  WritersReserve' /\ SumFunction(CommitCounts)' = Cardinality(CommittedIds')
  <2>1. Tallies(r)
    BY <1>6, TallySteps
  <2>2. Aside(r) \/ WriteBack(r)
    BY <1>6, AsideSteps, PutStartKind, WriteKind, PutEndKind, PutRevokeKind DEF Step, WriteBack
  <2>3. faults = 0 /\ removes = 0
    BY <2>2 DEF Aside, WriteBack, Reserves, NotReserved, Writes, Commits, NotCommitted, Revokes, Answers, Keeps,
       InTime
  <2>4. WritersReserve /\ SumFunction(CommitCounts) = Cardinality(CommittedIds)
    BY <2>3 DEF CommitsCounted
  <2>5. QED BY <2>1, <2>2, <2>4, CommitsTaskStep
<1>7. QED BY <1>2, <1>3, <1>4, <1>5, <1>6 DEF Next

CountInv == CoreInv /\ LateNeedsFault /\ ReservationOwned /\ GatewaysAddUp /\ CommitsCounted

\* All counters are 0 at the start, and nothing is owed or committed.
LEMMA CountInit == Init => CountInv
<1> SUFFICES ASSUME Init PROVE CountInv
  OBVIOUS
<1>1. CoreInv
  BY CoreInit
<1>2. LateNeedsFault /\ ReservationOwned
  BY DEF Init, LateNeedsFault, ReservationOwned, Stored, NewMaster, NoObject
<1>3. /\ metrics = [g \in Gateways |-> [c \in Counters |-> 0]]
      /\ \A r \in Requests : task[r].pc = "start" /\ role[r] = "idle"
      /\ \A id \in Ids : Stored(id) = "Absent"
  BY DEF Init, SF!Init, Stored, NewMaster, NoObject
<1>4. ASSUME NEW xs \in SUBSET Counters, NEW g \in Gateways PROVE SumFunctionOnSet(metrics[g], xs) = 0
  <2>1. IsFiniteSet(xs) /\ ZeroOn(metrics[g], xs)
    BY <1>3, CountersFinite, FS_Subset DEF ZeroOn
  <2>2. QED BY <2>1, SumZero
<1>5. \A g \in Gateways : Owing(g) = {} /\ Calling(g) = {}
  BY <1>3 DEF Owing, Calling, Owes, Called, Busy
<1>6. Cardinality({}) = 0
  BY FS_EmptySet
<1>7. /\ CacheStatuses \subseteq Counters /\ WriteStatuses \subseteq Counters /\ SingleflightRoles \subseteq Counters
      /\ VendorAnswers \subseteq Counters /\ VendorUses \subseteq Counters
  BY DEF Counters, CacheStatuses, WriteStatuses, SingleflightRoles, VendorAnswers, VendorUses
<1>8. GatewaysAddUp
  <2> SUFFICES ASSUME NEW g \in Gateways
               PROVE  Adds(metrics[g], Cardinality(Owing(g)), Cardinality(Calling(g)))
    BY DEF GatewaysAddUp
  <2>1. Cardinality(Owing(g)) = 0 /\ Cardinality(Calling(g)) = 0
    BY <1>5, <1>6
  <2>2. /\ SumFunctionOnSet(metrics[g], CacheStatuses) = 0 /\ SumFunctionOnSet(metrics[g], WriteStatuses) = 0
        /\ SumFunctionOnSet(metrics[g], SingleflightRoles) = 0
        /\ SumFunctionOnSet(metrics[g], VendorAnswers) = 0 /\ SumFunctionOnSet(metrics[g], VendorUses) = 0
    BY <1>4, <1>7
  <2>3. QED BY <2>1, <2>2 DEF Adds
<1>9. SumFunction(CommitCounts) = 0
  <2>1. DOMAIN CommitCounts = Gateways /\ ZeroOn(CommitCounts, Gateways) /\ IsFiniteSet(Gateways)
    BY <1>3, RequestAssumption DEF CommitCounts, ZeroOn, Counters, WriteStatuses
  <2>2. QED BY <2>1, SumZero DEF SumFunction
<1>10. CommittedIds = {} /\ WritersReserve
  BY <1>3 DEF CommittedIds, WritersReserve, Writing
<1>11. CommitsCounted
  BY <1>6, <1>9, <1>10 DEF CommitsCounted
<1>12. QED BY <1>1, <1>2, <1>8, <1>11 DEF CountInv

\* Whatever fails, is dropped, arrives late or is removed, the counters of every
\* gateway agree with each other; and until something fails or is removed, the
\* commits that all gateways count are the objects that the Master holds committed.
THEOREM CountersAlwaysAddUp == Spec => []CountersAddUp
<1>1. CountInv => CountersAddUp
  <2> SUFFICES ASSUME CountInv PROVE CountersAddUp
    OBVIOUS
  <2>1. ASSUME NEW g \in Gateways
        PROVE  /\ SumFunctionOnSet(metrics[g], CacheStatuses) = SumFunctionOnSet(metrics[g], WriteStatuses)
               /\ SumFunctionOnSet(metrics[g], SingleflightRoles)
                    = SumFunctionOnSet(metrics[g], CacheStatuses) + Cardinality(Owing(g))
               /\ SumFunctionOnSet(metrics[g], VendorAnswers) <= SumFunctionOnSet(metrics[g], VendorUses)
    <3>1. Adds(metrics[g], Cardinality(Owing(g)), Cardinality(Calling(g)))
      BY DEF CountInv, GatewaysAddUp
    <3>2. Cardinality(Calling(g)) \in Nat
      <4>1. Calling(g) \subseteq Requests
        BY DEF Calling
      <4>2. QED BY <4>1, RequestAssumption, FS_Subset, FS_CardinalityType
    <3>3. SumFunctionOnSet(metrics[g], VendorAnswers) \in Nat /\ SumFunctionOnSet(metrics[g], VendorUses) \in Nat
      <4>1. metrics[g] \in [Counters -> Nat]
        BY DEF CountInv, CoreInv, TypeOK
      <4>2. VendorAnswers \subseteq Counters /\ VendorUses \subseteq Counters
        BY DEF Counters, CacheStatuses, SingleflightRoles, VendorAnswers, VendorUses
      <4>3. Hits(VendorAnswers, {}, 0) /\ Hits(VendorUses, {}, 0)
        BY DEF Hits
      <4>4. QED BY <4>1, <4>2, <4>3, BumpSum
    <3>4. QED BY <3>1, <3>2, <3>3 DEF Adds
  <2>2. \A g : Owing(g) = {r \in Requests : /\ req[r].gateway = g
                                            /\ role[r] # "idle" /\ source[r] = Nobody
                                            /\ task[r].resp.status # "Miss"}
    BY DEF Owing, Owes
  <2>3. faults = 0 /\ removes = 0 =>
          SumFunction([g \in Gateways |-> metrics[g]["Committed"]])
            = Cardinality({id \in Ids : Stored(id) = "Committed"})
    BY DEF CountInv, CommitsCounted, CommitCounts, CommittedIds
  <2>4. QED BY <2>1, <2>2, <2>3 DEF CountersAddUp, VendorAnswers, VendorUses
<1>2. CountInv /\ [Next]_vars => CountInv'
  BY CoreStep, ReservationStep, GatewaysStep, CommitsCountedStep DEF CountInv
<1>3. QED BY <1>1, <1>2, CountInit, PTL DEF Spec

=============================================================================
