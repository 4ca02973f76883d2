------------------------------- MODULE AdminApi -------------------------------
(***************************************************************************)
(* The Admin API process (apps/admin-api/main.rs) and its AdminService     *)
(* (crates/admin-api): role checks, the drain flags of the nodes, purging  *)
(* an object from a MasterState, the audit log and the counters over it.   *)
(*                                                                         *)
(* A handler does not await, but handlers run on several threads, so they  *)
(* interleave wherever none of the four locks is held: the nodes, the      *)
(* audit log and the counters are locked for one access each, the Master   *)
(* from before the role check of a purge until its answer. The counters    *)
(* are bumped and loaded one by one, the atomic ones with Relaxed order.   *)
(*                                                                         *)
(* A counter is the set of calls it has counted. An audit event names its  *)
(* call (actor, role, action and resource are the call's). No code panics  *)
(* while it holds a lock, so no lock is ever poisoned.                     *)
(***************************************************************************)
EXTENDS MasterState

CONSTANTS
  Calls,       \* requests to the API
  CallKinds,   \* [op, role, target] records clients may send
  LocalNodes,  \* the nodes AdminService knows, "local-store" in the binary
  Free,        \* nobody holds the Master's lock
  Seed         \* the object committed in the MasterState the service is given

VARIABLES
  call,      \* the state of each call
  draining,  \* NodeState.draining of each node
  master,    \* the process's own MasterState
  lock,      \* who holds its mutex
  log,       \* InMemoryAuditSink.events
  counted    \* the calls each counter of AdminMetrics has counted

vars == <<call, draining, master, lock, log, counted>>

Ops == {"metrics", "audit_events", "nodes", "drain", "fingerprint", "purge", "warmup"}
AuditedOps == Ops \ {"nodes", "warmup"}
Readers == {"metrics", "audit_events", "nodes"}
\* "Malformed": a bad x-admin-role header, or a tenant id or key that does not
\* parse. A request without the header has role Admin (admin_context).
Roles == {"NoAccess", "Viewer", "Operator", "Admin", "Malformed"}

\* Mutant: viewers may drain.
Allows_ViewerDrains(role, op) ==
  CASE role = "Viewer" -> op \in {"metrics", "nodes", "audit_events", "fingerprint", "drain"}
    [] role \in {"Operator", "Admin"} -> TRUE
    [] OTHER -> FALSE

\* Role::allows, for the actions the routes use.
Allows(role, op) ==
  CASE role = "Viewer" -> op \in {"metrics", "nodes", "audit_events", "fingerprint"}
    [] role \in {"Operator", "Admin"} -> TRUE
    [] OTHER -> FALSE

Results == {"None", "Success", "Denied", "Failed"}
PCs == {"idle", "lock", "act", "audit", "count", "load", "done"}

\* audit_events_total, the three totals per result, and the counts per action.
Counters == {"total", "result", "action"}
Nothing == [k \in Counters |-> {}]
NoView == [log |-> <<>>, counted |-> Nothing, draining |-> [n \in LocalNodes |-> FALSE]]
IdleCall == [pc |-> "idle", kind |-> [op |-> "nodes", role |-> "NoAccess", target |-> Free],
             result |-> "None", before |-> FALSE, todo |-> {}, earlier |-> {}, view |-> NoView]

Event(c) == [call |-> c, result |-> call[c].result, before |-> call[c].before]
Events == [call : Calls, result : Results \ {"None"}, before : BOOLEAN]

ASSUME FreeAssumption == Free \notin Calls
ASSUME KindsAssumption ==
  \A kind \in CallKinds : kind.op \in Ops /\ kind.role \in Roles /\ (kind.op = "purge" => kind.target \in Ids)
ASSUME SeedAssumption == Seed \in Ids /\ Nodes # {}

TypeOK ==
  /\ call \in [Calls -> [pc : PCs, kind : CallKinds \cup {IdleCall.kind}, result : Results,
                         before : BOOLEAN, todo : SUBSET Counters, earlier : SUBSET Calls,
                         view : [log : Seq(Events), counted : [Counters -> SUBSET Calls],
                                 draining : [LocalNodes -> BOOLEAN]]]]
  /\ draining \in [LocalNodes -> BOOLEAN]
  /\ master \in MasterStates
  /\ lock \in Calls \cup {Free}
  /\ log \in Seq(Events)
  /\ counted \in [Counters -> SUBSET Calls]

EmptyMaster == MountSegment(NewMaster, CHOOSE n \in Nodes : TRUE, 1)

\* The binary starts with an empty MasterState of its own; the service is also
\* used with one that holds an object.
Init ==
  /\ call = [c \in Calls |-> IdleCall]
  /\ draining = [n \in LocalNodes |-> FALSE]
  /\ master \in {EmptyMaster, PutEnd(PutStart(EmptyMaster, Seed, 1, 1), Seed)}
  /\ lock = Free
  /\ log = <<>>
  /\ counted = Nothing

-----------------------------------------------------------------------------
(* Handlers. "earlier" is history: the calls answered before a reader came. *)

Op(c) == call[c].kind.op
Permitted(c) == Allows(call[c].kind.role, Op(c))
At(c, pc) == call[c].pc = pc
Become(c, pc, result) == call' = [call EXCEPT ![c].pc = pc, ![c].result = result]
Answered == {c \in Calls : call[c].pc = "done"}

Arrive(c, kind) ==
  /\ At(c, "idle")
  /\ call' = [call EXCEPT ![c].kind = kind, ![c].earlier = IF kind.op \in Readers THEN Answered ELSE {},
                ![c].pc = IF kind.role = "Malformed" THEN "done"
                          ELSE IF kind.op = "purge" THEN "lock" ELSE "act"]
  /\ UNCHANGED <<draining, master, lock, log, counted>>

\* cache_purge takes the lock before the service checks the role.
LockMaster(c) ==
  /\ At(c, "lock")
  /\ lock = Free
  /\ lock' = c
  /\ Become(c, "act", "None")
  /\ UNCHANGED <<draining, master, log, counted>>

\* Mutant: refusals are answered without a trace.
Refuse_Silently(c) ==
  /\ At(c, "act")
  /\ ~Permitted(c)
  /\ Become(c, "done", "Denied")
  /\ lock' = IF lock = c THEN Free ELSE lock
  /\ UNCHANGED <<draining, master, log, counted>>

\* list_nodes and cache_warmup refuse without an audit event.
Refuse(c) ==
  /\ At(c, "act")
  /\ ~Permitted(c)
  /\ Become(c, IF Op(c) \in AuditedOps THEN "audit" ELSE "done", "Denied")
  /\ UNCHANGED <<draining, master, lock, log, counted>>

\* Mutant: the state before the change is read after it.
DrainNode_ReadsBackwards(c) ==
  /\ At(c, "act") /\ Op(c) = "drain" /\ Permitted(c)
  /\ LET n == call[c].kind.target
     IN  IF n \in LocalNodes
         THEN /\ draining' = [draining EXCEPT ![n] = TRUE]
              /\ call' = [call EXCEPT ![c].pc = "audit", ![c].result = "Success", ![c].before = draining'[n]]
         ELSE Become(c, "audit", "Failed") /\ UNCHANGED draining
  /\ UNCHANGED <<master, lock, log, counted>>

\* The flag is read and set under the lock; the event follows after the unlock.
DrainNode(c) ==
  /\ At(c, "act") /\ Op(c) = "drain" /\ Permitted(c)
  /\ LET n == call[c].kind.target
     IN  IF n \in LocalNodes
         THEN /\ draining' = [draining EXCEPT ![n] = TRUE]
              /\ call' = [call EXCEPT ![c].pc = "audit", ![c].result = "Success", ![c].before = draining[n]]
         ELSE Become(c, "audit", "Failed") /\ UNCHANGED draining
  /\ UNCHANGED <<master, lock, log, counted>>

\* Mutant: the lock is given up before the event is written.
DeleteCacheObject_UnlocksEarly(c) ==
  /\ At(c, "act") /\ Op(c) = "purge" /\ Permitted(c)
  /\ master' = Remove(master, call[c].kind.target)
  /\ Become(c, "audit", IF RemoveOk(master, call[c].kind.target) THEN "Success" ELSE "Failed")
  /\ lock' = Free
  /\ UNCHANGED <<draining, log, counted>>

DeleteCacheObject(c) ==
  /\ At(c, "act") /\ Op(c) = "purge" /\ Permitted(c)
  /\ master' = Remove(master, call[c].kind.target)
  /\ Become(c, "audit", IF RemoveOk(master, call[c].kind.target) THEN "Success" ELSE "Failed")
  /\ UNCHANGED <<draining, lock, log, counted>>

\* The fingerprint of a body that cannot be canonicalised is an error.
DebugCacheFingerprint(c) ==
  /\ At(c, "act") /\ Op(c) = "fingerprint" /\ Permitted(c)
  /\ \E result \in {"Success", "Failed"} : Become(c, "audit", result)
  /\ UNCHANGED <<draining, master, lock, log, counted>>

\* audit_events copies the log before it adds its own event.
ListEvents(c) ==
  /\ At(c, "act") /\ Op(c) = "audit_events" /\ Permitted(c)
  /\ call' = [call EXCEPT ![c].pc = "audit", ![c].result = "Success", ![c].view.log = log]
  /\ UNCHANGED <<draining, master, lock, log, counted>>

\* metrics_snapshot writes its event first.
MetricsSnapshot(c) ==
  /\ At(c, "act") /\ Op(c) = "metrics" /\ Permitted(c)
  /\ Become(c, "audit", "Success")
  /\ UNCHANGED <<draining, master, lock, log, counted>>

\* list_nodes answers with the flags.
ListNodes(c) ==
  /\ At(c, "act") /\ Op(c) = "nodes" /\ Permitted(c)
  /\ call' = [call EXCEPT ![c].pc = "done", ![c].result = "Success", ![c].view.draining = draining]
  /\ UNCHANGED <<draining, master, lock, log, counted>>

\* There is no warmup backend: cache_warmup says so.
CacheWarmup(c) ==
  /\ At(c, "act") /\ Op(c) = "warmup" /\ Permitted(c)
  /\ Become(c, "done", "Success")
  /\ UNCHANGED <<draining, master, lock, log, counted>>

-----------------------------------------------------------------------------
(* record_audit, and the answer. *)

\* Mutant: the newest event comes first.
AppendEvent_Newest(c) ==
  /\ At(c, "audit")
  /\ log' = <<Event(c)>> \o log
  /\ call' = [call EXCEPT ![c].pc = "count", ![c].todo = Counters]
  /\ UNCHANGED <<draining, master, lock, counted>>

AppendEvent(c) ==
  /\ At(c, "audit")
  /\ log' = Append(log, Event(c))
  /\ call' = [call EXCEPT ![c].pc = "count", ![c].todo = Counters]
  /\ UNCHANGED <<draining, master, lock, counted>>

\* The counts per action are behind a mutex: what the code bumps or loads before
\* it takes the mutex is done when it gives it back. The atomics have no order.
MayAccess(c, k) == k \in call[c].todo /\ (k = "action" => call[c].todo = {k})

\* After the last counter record_audit returns: metrics_snapshot goes on to load
\* them, any other handler answers, and the guard of a purge drops.
AfterCount(c, k) ==
  /\ call' = [call EXCEPT
       ![c].todo = IF k # "action" THEN @ \ {k}
                   ELSE IF Op(c) = "metrics" /\ Permitted(c) THEN Counters ELSE {},
       ![c].pc = IF k # "action" THEN @
                 ELSE IF Op(c) = "metrics" /\ Permitted(c) THEN "load" ELSE "done"]
  /\ lock' = IF lock = c /\ k = "action" THEN Free ELSE lock
  /\ UNCHANGED <<draining, master, log>>

\* record_action.
Count(c, k) ==
  /\ At(c, "count") /\ MayAccess(c, k)
  /\ counted' = [counted EXCEPT ![k] = @ \cup {c}]
  /\ AfterCount(c, k)

\* AdminMetrics::snapshot.
Load(c, k) ==
  /\ At(c, "load") /\ MayAccess(c, k)
  /\ call' = [call EXCEPT ![c].todo = @ \ {k}, ![c].view.counted[k] = counted[k],
                         ![c].pc = IF k = "action" THEN "done" ELSE @]
  /\ UNCHANGED <<draining, master, lock, log, counted>>

Step(c) ==
  \/ LockMaster(c)
  \/ Refuse(c)
  \/ DrainNode(c)
  \/ DeleteCacheObject(c)
  \/ DebugCacheFingerprint(c)
  \/ ListEvents(c)
  \/ MetricsSnapshot(c)
  \/ ListNodes(c)
  \/ CacheWarmup(c)
  \/ AppendEvent(c)
  \/ \E k \in Counters : Count(c, k) \/ Load(c, k)

Next ==
  \/ \E c \in Calls, kind \in CallKinds : Arrive(c, kind)
  \/ \E c \in Calls : Step(c)
  \/ Answered = Calls /\ UNCHANGED vars

Spec == Init /\ [][Next]_vars

-----------------------------------------------------------------------------
(* Properties. *)

EventsOf(c) == {i \in DOMAIN log : log[i].call = c}
Audited(c) == Op(c) \in AuditedOps /\ call[c].kind.role # "Malformed"

\* Every audited call that was answered, refused or not, has exactly one event
\* with its result, and a call without an answer has at most one. The list of nodes
\* and the warmup, which does nothing yet, are answered without an event.
AuditComplete ==
  \A c \in Calls :
    /\ Cardinality(EventsOf(c)) <= 1
    /\ At(c, "done") /\ Audited(c) => \E i \in EventsOf(c) : log[i].result = call[c].result

\* The object was in the Master and is gone: its chunk is still allocated.
Purged == master.segments[1].next > 0 /\ master.objects[Seed].status = "Absent"

\* "All write operations require audit logging" (the design document, line 218):
\* behind every drained node and the purged object stands a call of an operator
\* or an admin that is in the log as a success, or is not answered yet. (A warmup
\* leaves no event; it has no effect either.)
EffectsAudited ==
  LET Explains(c, op, target) ==
        /\ Op(c) = op /\ call[c].kind.target = target /\ call[c].result = "Success"
        /\ call[c].kind.role \in {"Operator", "Admin"}
        /\ At(c, "done") => EventsOf(c) # {}
  IN  /\ \A n \in LocalNodes : draining[n] => \E c \in Calls : Explains(c, "drain", n)
      /\ Purged => \E c \in Calls : Explains(c, "purge", Seed)

\* However drains of a node interleave, exactly one of them reports that the node
\* was not draining before: the summaries in the log tell who changed it.
OneFirstDrain ==
  \A n \in LocalNodes :
    Cardinality({c \in Calls : /\ Op(c) = "drain" /\ call[c].kind.target = n
                               /\ call[c].result = "Success" /\ ~call[c].before})
      = IF draining[n] THEN 1 ELSE 0

\* The log tells purges of one object in the order in which they happened: the
\* Master stays locked until the event is written, so no failed purge (nothing
\* left to delete) comes before the one that deleted.
PurgesInOrder ==
  \A i, j \in DOMAIN log :
    /\ i < j
    /\ Op(log[i].call) = "purge" /\ Op(log[j].call) = "purge"
    /\ call[log[i].call].kind.target = call[log[j].call].kind.target
    /\ log[j].result = "Success"
    => log[i].result # "Failed"

\* A reader of the log sees a prefix of it, of the counters a part of it, and of
\* the nodes their flags: nothing is missing that had been answered before the
\* reader called.
ViewsCoverEarlier ==
  \A c \in Calls : At(c, "done") /\ call[c].result = "Success" =>
    LET earlier == {d \in call[c].earlier : Audited(d)}
        view == call[c].view
    IN  /\ Op(c) = "audit_events" =>
             /\ view.log = SubSeq(log, 1, Len(view.log))
             /\ earlier \subseteq {view.log[i].call : i \in DOMAIN view.log}
        /\ Op(c) = "metrics" =>
             \A k \in Counters : earlier \cup {c} \subseteq view.counted[k]
        /\ Op(c) = "nodes" =>
             \A d \in call[c].earlier : Op(d) = "drain" /\ call[d].result = "Success" =>
               view.draining[call[d].kind.target]

=============================================================================
