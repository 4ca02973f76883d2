---------------------------- MODULE AdminApiProofs ----------------------------
(***************************************************************************)
(* Proofs about AdminApi, for every number of concurrent calls of every    *)
(* kind, every set of nodes and whatever object the service's Master       *)
(* holds.                                                                  *)
(***************************************************************************)
EXTENDS AdminApi, StateProofs

Kinds == CallKinds \cup {IdleCall.kind}
Views == [log : Seq(Events), counted : [Counters -> SUBSET Calls], draining : [LocalNodes -> BOOLEAN]]
CallStates == [pc : PCs, kind : Kinds, result : Results, before : BOOLEAN, todo : SUBSET Counters,
               earlier : SUBSET Calls, view : Views]

-----------------------------------------------------------------------------
(* The inductive invariant, in parts. *)

Target(c) == call[c].kind.target
Result(c) == call[c].result
Pc(c) == call[c].pc
Written == {"count", "load", "done"}

\* Where a call stands says what it has: no result before it acted, a result and
\* an operation that is audited from then on to its answer.
PhaseOK(c) ==
  /\ Pc(c) = "idle" => call[c].kind = IdleCall.kind
  /\ Pc(c) # "idle" => call[c].kind \in CallKinds
  /\ Pc(c) \in {"idle", "lock", "act"} => Result(c) = "None"
  /\ Pc(c) \in {"audit", "count", "load"} => Result(c) # "None" /\ Audited(c)
  /\ Pc(c) = "lock" => Op(c) = "purge"
  /\ Pc(c) = "load" => Op(c) = "metrics"
  /\ call[c].kind.role = "Malformed" => Pc(c) = "done" /\ Result(c) = "None"
  /\ Result(c) = "Success" => Permitted(c)

Phases == \A c \in Calls : PhaseOK(c)

\* A call has at most one event, and the event is of its result; an audited call
\* past its audit has one.
EventsUnique == \A i, j \in DOMAIN log : log[i].call = log[j].call => i = j
EventsOfCalls ==
  \A i \in DOMAIN log : Pc(log[i].call) \in Written /\ log[i].result = Result(log[i].call)
AuditedLogged ==
  \A c \in Calls : Audited(c) /\ Pc(c) \in Written => \E i \in DOMAIN log : log[i].call = c

\* The Master is locked by the purge that is between its role check and its answer.
LockOwned == \A c \in Calls : lock = c <=> Op(c) = "purge" /\ Pc(c) \in {"act", "audit", "count"}

\* What a failed purge did not find is still not there, and while a purge that
\* deleted something has no event yet, no failed one of the same object has.
FailedGone ==
  \A c \in Calls : Op(c) = "purge" /\ Result(c) = "Failed" => master.objects[Target(c)].status = "Absent"
SuccessFirst ==
  \A c \in Calls : Op(c) = "purge" /\ Result(c) = "Success" /\ Pc(c) = "audit" =>
    \A i \in DOMAIN log :
      Op(log[i].call) = "purge" /\ Target(log[i].call) = Target(c) => log[i].result # "Failed"
PurgeExplained ==
  Purged => \E c \in Calls : Op(c) = "purge" /\ Target(c) = Seed /\ Result(c) = "Success"

\* The drains that report a change.
FirstDrain(c, n) ==
  Op(c) = "drain" /\ Target(c) = n /\ Result(c) = "Success" /\ ~call[c].before
DrainsFlagged ==
  \A c \in Calls : Op(c) = "drain" /\ Result(c) = "Success" => Target(c) \in LocalNodes /\ draining[Target(c)]
FirstUnique == \A n \in LocalNodes, c, d \in Calls : FirstDrain(c, n) /\ FirstDrain(d, n) => c = d
FirstExists == \A n \in LocalNodes : draining[n] => \E c \in Calls : FirstDrain(c, n)

\* What readers see: the calls answered before a reader came are answered; an
\* audited call past a counter is in it; a loaded counter has the reader and the
\* audited earlier calls; a copied log is a prefix and has their events; copied
\* flags are up for their drains.
EarlierOK(c) == \A d \in call[c].earlier : Pc(d) = "done"
CountedOK(c) ==
  \A k \in Counters :
    Audited(c) /\ (Pc(c) \in {"load", "done"} \/ (Pc(c) = "count" /\ k \notin call[c].todo)) => c \in counted[k]
LoadedOK(c) ==
  Op(c) = "metrics" /\ Result(c) = "Success" =>
    \A k \in Counters : Pc(c) = "done" \/ (Pc(c) = "load" /\ k \notin call[c].todo) =>
      c \in call[c].view.counted[k] /\ \A d \in call[c].earlier : Audited(d) => d \in call[c].view.counted[k]
PrefixOK(c) ==
  Op(c) = "audit_events" /\ Result(c) = "Success" =>
    /\ Len(call[c].view.log) <= Len(log)
    /\ \A i \in 1..Len(call[c].view.log) : call[c].view.log[i] = log[i]
CoversOK(c) ==
  Op(c) = "audit_events" /\ Result(c) = "Success" =>
    \A d \in call[c].earlier : Audited(d) => \E i \in 1..Len(call[c].view.log) : call[c].view.log[i].call = d
FlagsOK(c) ==
  Op(c) = "nodes" /\ Result(c) = "Success" =>
    \A d \in call[c].earlier : Op(d) = "drain" /\ Result(d) = "Success" => call[c].view.draining[Target(d)]
ReaderOK(c) == EarlierOK(c) /\ CountedOK(c) /\ LoadedOK(c) /\ PrefixOK(c) /\ CoversOK(c) /\ FlagsOK(c)

AuditInv == TypeOK /\ Phases /\ EventsUnique /\ EventsOfCalls /\ AuditedLogged
PurgeInv == LockOwned /\ FailedGone /\ SuccessFirst /\ PurgesInOrder /\ PurgeExplained
DrainInv == DrainsFlagged /\ FirstUnique /\ FirstExists
ReadersInv == \A c \in Calls : ReaderOK(c)

-----------------------------------------------------------------------------
(* Steps of a call that has arrived. *)

\* Only this call moves; what it asked for, and what was answered before, is kept.
Steps(c, pc, result) ==
  /\ call' \in [Calls -> CallStates]
  /\ call'[c].pc = pc /\ call'[c].result = result
  /\ call'[c].kind = call[c].kind /\ call'[c].earlier = call[c].earlier
  /\ \A d \in Calls \ {c} : call'[d] = call[d]

\* The step that decides the result of a call.
Acts(c, pc, result) ==
  /\ Pc(c) = "act" /\ Steps(c, pc, result)
  /\ pc = (IF Op(c) \in AuditedOps THEN "audit" ELSE "done")
  /\ result \in {"Success", "Denied", "Failed"}
  /\ result = "Success" => Permitted(c)
  /\ log' = log /\ counted' = counted /\ lock' = lock

\* What the rest of the step may do: only drains of the node raise its flag, only
\* purges of the object change the Master, only readers fill their view.
ActsRest(c, result) ==
  /\ IF Op(c) = "drain" /\ result = "Success"
     THEN /\ Target(c) \in LocalNodes
          /\ draining' = [draining EXCEPT ![Target(c)] = TRUE]
          /\ call'[c].before = draining[Target(c)]
     ELSE draining' = draining
  /\ IF Op(c) = "purge" /\ result # "Denied"
     THEN /\ master' = Remove(master, Target(c))
          /\ result = IF RemoveOk(master, Target(c)) THEN "Success" ELSE "Failed"
     ELSE master' = master
  /\ Op(c) = "audit_events" /\ result = "Success" => call'[c].view.log = log
  /\ Op(c) = "nodes" /\ result = "Success" => call'[c].view.draining = draining

\* The types.
LEMMA CallType ==
  ASSUME TypeOK
  PROVE  call \in [Calls -> CallStates]
BY DEF TypeOK, CallStates, Kinds, Views

\* The audit log is a sequence of events, each of a call.
LEMMA LogType ==
  ASSUME TypeOK
  PROVE  log \in Seq(Events) /\ DOMAIN log = 1..Len(log) /\ Len(log) \in Nat
         /\ \A i \in DOMAIN log : log[i].call \in Calls
<1>1. log \in Seq(Events)
  BY DEF TypeOK
<1>2. \A i \in DOMAIN log : log[i] \in Events
  BY <1>1
<1>3. QED BY <1>1, <1>2 DEF Events

\* Who may drain or purge.
LEMMA PermittedOperator ==
  ASSUME NEW c \in Calls, Permitted(c), Op(c) \in {"drain", "purge"}
  PROVE  call[c].kind.role \in {"Operator", "Admin"}
BY DEF Permitted, Allows

\* Changes of a call's fields keep its type.
LEMMA FieldTypes ==
  ASSUME NEW s \in CallStates, NEW pc \in PCs, NEW result \in Results
  PROVE  [s EXCEPT !.pc = pc, !.result = result] \in CallStates
BY DEF CallStates

\* An action that gives one call a new state is a step of that call.
LEMMA CallUpdate ==
  ASSUME TypeOK, NEW c \in Calls, NEW s \in CallStates, s.kind = call[c].kind, s.earlier = call[c].earlier,
         call' = [call EXCEPT ![c] = s]
  PROVE  Steps(c, s.pc, s.result) /\ call'[c] = s
BY CallType DEF Steps

\* Become changes where a call is and what it will answer, and nothing else.
LEMMA BecomeSteps ==
  ASSUME TypeOK, NEW c \in Calls, NEW pc \in PCs, NEW result \in Results, Become(c, pc, result)
  PROVE  Steps(c, pc, result) /\ call'[c].todo = call[c].todo /\ call'[c].view = call[c].view
<1> DEFINE s == [call[c] EXCEPT !.pc = pc, !.result = result]
<1>1. call[c] \in CallStates
  BY CallType
<1>2. /\ s \in CallStates
      /\ s.pc = pc /\ s.result = result /\ s.kind = call[c].kind /\ s.earlier = call[c].earlier
      /\ s.todo = call[c].todo /\ s.view = call[c].view
  BY <1>1, FieldTypes DEF CallStates
<1>3. call' = [call EXCEPT ![c] = s]
  BY CallType DEF Become
<1> HIDE DEF s
<1>4. QED BY <1>2, <1>3, CallUpdate

\* The handlers' own steps.
LEMMA ActSteps ==
  ASSUME TypeOK, NEW c \in Calls,
         \/ Refuse(c) \/ DrainNode(c) \/ DeleteCacheObject(c) \/ DebugCacheFingerprint(c)
         \/ ListEvents(c) \/ MetricsSnapshot(c) \/ ListNodes(c) \/ CacheWarmup(c)
  PROVE  \E pc, result : Acts(c, pc, result) /\ ActsRest(c, result)
<1>1. call \in [Calls -> CallStates] /\ {"audit", "done"} \subseteq PCs
      /\ {"Success", "Denied", "Failed"} \subseteq Results
  BY CallType DEF PCs, Results
<1>2. CASE Refuse(c)
  <2> DEFINE pc == IF Op(c) \in AuditedOps THEN "audit" ELSE "done"
  <2>1. Become(c, pc, "Denied") /\ pc \in PCs
    BY <1>1, <1>2 DEF Refuse
  <2> HIDE DEF pc
  <2>2. Steps(c, pc, "Denied")
    BY <1>1, <2>1, BecomeSteps
  <2>3. Acts(c, pc, "Denied") /\ ActsRest(c, "Denied")
    BY <1>2, <2>2 DEF Refuse, Acts, ActsRest, Pc, At, pc
  <2>4. QED BY <2>3
<1>3. CASE DrainNode(c)
  <2>1. CASE Target(c) \in LocalNodes
    <3>1. /\ call' = [call EXCEPT ![c].pc = "audit", ![c].result = "Success",
                                  ![c].before = draining[Target(c)]]
          /\ draining' = [draining EXCEPT ![Target(c)] = TRUE]
          /\ draining[Target(c)] \in BOOLEAN
      BY <1>3, <2>1 DEF DrainNode, Target, TypeOK
    <3>2. Steps(c, "audit", "Success") /\ call'[c].before = draining[Target(c)]
      <4> DEFINE b == draining[Target(c)]
                 s == [call[c] EXCEPT !.pc = "audit", !.result = "Success", !.before = b]
      <4>1. b \in BOOLEAN /\ call[c] \in CallStates
        BY <1>1, <3>1
      <4> HIDE DEF b
      <4>2. /\ s \in CallStates /\ s.pc = "audit" /\ s.result = "Success" /\ s.before = b
            /\ s.kind = call[c].kind /\ s.earlier = call[c].earlier
        BY <1>1, <4>1 DEF CallStates
      <4>3. call' = [call EXCEPT ![c] = s]
        BY <1>1, <3>1 DEF b
      <4> HIDE DEF s
      <4>4. QED BY <4>2, <4>3, CallUpdate DEF b
    <3>3. Acts(c, "audit", "Success") /\ ActsRest(c, "Success")
      BY <1>3, <2>1, <3>1, <3>2 DEF DrainNode, Acts, ActsRest, Pc, At, AuditedOps, Ops
    <3>4. QED BY <3>3
  <2>2. CASE Target(c) \notin LocalNodes
    <3>1. Become(c, "audit", "Failed") /\ draining' = draining
      BY <1>3, <2>2 DEF DrainNode, Target
    <3>2. Steps(c, "audit", "Failed")
      BY <1>1, <3>1, BecomeSteps
    <3>3. Acts(c, "audit", "Failed") /\ ActsRest(c, "Failed")
      BY <1>3, <3>1, <3>2 DEF DrainNode, Acts, ActsRest, Pc, At, AuditedOps, Ops
    <3>4. QED BY <3>3
  <2>3. QED BY <2>1, <2>2
<1>4. CASE DeleteCacheObject(c)
  <2> DEFINE result == IF RemoveOk(master, Target(c)) THEN "Success" ELSE "Failed"
  <2>1. Become(c, "audit", result) /\ result \in Results
    BY <1>1, <1>4 DEF DeleteCacheObject, Target
  <2> HIDE DEF result
  <2>2. Steps(c, "audit", result)
    BY <1>1, <2>1, BecomeSteps
  <2>3. Acts(c, "audit", result) /\ ActsRest(c, result)
    BY <1>4, <2>2 DEF DeleteCacheObject, Acts, ActsRest, Pc, At, AuditedOps, Ops, Target, result
  <2>4. QED BY <2>3
<1>5. CASE DebugCacheFingerprint(c)
  <2>1. PICK result \in {"Success", "Failed"} : Become(c, "audit", result)
    BY <1>5 DEF DebugCacheFingerprint
  <2>2. Steps(c, "audit", result)
    BY <1>1, <2>1, BecomeSteps
  <2>3. Acts(c, "audit", result) /\ ActsRest(c, result)
    BY <1>5, <2>2 DEF DebugCacheFingerprint, Acts, ActsRest, Pc, At, AuditedOps, Ops
  <2>4. QED BY <2>3
<1>6. CASE ListEvents(c)
  <2>1. call' = [call EXCEPT ![c].pc = "audit", ![c].result = "Success", ![c].view.log = log]
    BY <1>6 DEF ListEvents
  <2>2. Steps(c, "audit", "Success") /\ call'[c].view.log = log
    <3> DEFINE s == [call[c] EXCEPT !.pc = "audit", !.result = "Success", !.view.log = log]
    <3>1. call[c] \in CallStates
      BY <1>1
    <3>2. /\ s \in CallStates /\ s.pc = "audit" /\ s.result = "Success" /\ s.view.log = log
          /\ s.kind = call[c].kind /\ s.earlier = call[c].earlier
      BY <1>1, <3>1 DEF CallStates, Views, TypeOK
    <3>3. call' = [call EXCEPT ![c] = s]
      BY <1>1, <2>1
    <3> HIDE DEF s
    <3>4. QED BY <3>2, <3>3, CallUpdate
  <2>3. Acts(c, "audit", "Success") /\ ActsRest(c, "Success")
    BY <1>6, <2>2 DEF ListEvents, Acts, ActsRest, Pc, At, AuditedOps, Ops
  <2>4. QED BY <2>3
<1>7. CASE MetricsSnapshot(c)
  <2>1. Steps(c, "audit", "Success")
    BY <1>1, <1>7, BecomeSteps DEF MetricsSnapshot
  <2>2. Acts(c, "audit", "Success") /\ ActsRest(c, "Success")
    BY <1>7, <2>1 DEF MetricsSnapshot, Acts, ActsRest, Pc, At, AuditedOps, Ops
  <2>3. QED BY <2>2
<1>8. CASE ListNodes(c)
  <2>1. call' = [call EXCEPT ![c].pc = "done", ![c].result = "Success", ![c].view.draining = draining]
    BY <1>8 DEF ListNodes
  <2>2. Steps(c, "done", "Success") /\ call'[c].view.draining = draining
    <3> DEFINE s == [call[c] EXCEPT !.pc = "done", !.result = "Success", !.view.draining = draining]
    <3>1. call[c] \in CallStates
      BY <1>1
    <3>2. /\ s \in CallStates /\ s.pc = "done" /\ s.result = "Success" /\ s.view.draining = draining
          /\ s.kind = call[c].kind /\ s.earlier = call[c].earlier
      BY <1>1, <3>1 DEF CallStates, Views, TypeOK
    <3>3. call' = [call EXCEPT ![c] = s]
      BY <1>1, <2>1
    <3> HIDE DEF s
    <3>4. QED BY <3>2, <3>3, CallUpdate
  <2>3. Acts(c, "done", "Success") /\ ActsRest(c, "Success")
    BY <1>8, <2>2 DEF ListNodes, Acts, ActsRest, Pc, At, AuditedOps, Ops
  <2>4. QED BY <2>3
<1>9. CASE CacheWarmup(c)
  <2>1. Steps(c, "done", "Success")
    BY <1>1, <1>9, BecomeSteps DEF CacheWarmup
  <2>2. Acts(c, "done", "Success") /\ ActsRest(c, "Success")
    BY <1>9, <2>1 DEF CacheWarmup, Acts, ActsRest, Pc, At, AuditedOps, Ops
  <2>3. QED BY <2>2
<1>10. QED BY <1>2, <1>3, <1>4, <1>5, <1>6, <1>7, <1>8, <1>9

\* A step keeps what a call has decided.
Keeps(c) == /\ call'[c].before = call[c].before
            /\ call'[c].view.log = call[c].view.log /\ call'[c].view.draining = call[c].view.draining

\* A purge that gets the mutex goes on to act.
LEMMA LockSteps ==
  ASSUME TypeOK, NEW c \in Calls, LockMaster(c)
  PROVE  Steps(c, "act", "None") /\ Pc(c) = "lock"
BY BecomeSteps DEF LockMaster, PCs, Results, Pc, At

\* The event is written, and the counters are to be bumped.
LEMMA AppendSteps ==
  ASSUME TypeOK, NEW c \in Calls, AppendEvent(c)
  PROVE  /\ Pc(c) = "audit" /\ Steps(c, "count", Result(c)) /\ Keeps(c)
         /\ call'[c].todo = Counters
<1> DEFINE s == [call[c] EXCEPT !.pc = "count", !.todo = Counters]
<1>1. call[c] \in CallStates
  BY CallType
<1>2. /\ s \in CallStates /\ s.pc = "count" /\ s.result = call[c].result /\ s.todo = Counters
      /\ s.kind = call[c].kind /\ s.earlier = call[c].earlier
      /\ s.before = call[c].before /\ s.view = call[c].view
  BY <1>1 DEF CallStates, PCs
<1>3. call' = [call EXCEPT ![c] = s]
  BY CallType DEF AppendEvent
<1> HIDE DEF s
<1>4. Steps(c, "count", Result(c)) /\ call'[c] = s
  BY <1>2, <1>3, CallUpdate DEF Result
<1>5. QED BY <1>2, <1>4 DEF AppendEvent, At, Pc, Keeps

\* A counter is bumped; after the last one the call loads them or is answered.
LEMMA CountSteps ==
  ASSUME TypeOK, NEW c \in Calls, NEW k \in Counters, Count(c, k)
  PROVE  /\ Pc(c) = "count" /\ k \in call[c].todo /\ Keeps(c)
         /\ \/ /\ k # "action" /\ Steps(c, "count", Result(c))
               /\ call'[c].todo = call[c].todo \ {k} /\ lock' = lock
            \/ /\ k = "action" /\ call[c].todo = {k} /\ Op(c) = "metrics" /\ Permitted(c)
               /\ Steps(c, "load", Result(c))
               /\ call'[c].todo = Counters /\ lock' = IF lock = c THEN Free ELSE lock
            \/ /\ k = "action" /\ call[c].todo = {k} /\ ~(Op(c) = "metrics" /\ Permitted(c))
               /\ Steps(c, "done", Result(c))
               /\ lock' = IF lock = c THEN Free ELSE lock
<1> DEFINE todo == IF k # "action" THEN call[c].todo \ {k}
                   ELSE IF Op(c) = "metrics" /\ Permitted(c) THEN Counters ELSE {}
           pc == IF k # "action" THEN call[c].pc
                 ELSE IF Op(c) = "metrics" /\ Permitted(c) THEN "load" ELSE "done"
           s == [call[c] EXCEPT !.todo = todo, !.pc = pc]
<1>1. call[c] \in CallStates /\ Pc(c) = "count" /\ MayAccess(c, k)
  BY CallType DEF Count, At, Pc
<1>2. todo \in SUBSET Counters /\ pc \in PCs
  BY <1>1 DEF CallStates, PCs
<1>3. call' = [call EXCEPT ![c] = s]
  BY CallType DEF Count, AfterCount
<1>4. /\ k # "action" => todo = call[c].todo \ {k} /\ pc = "count"
      /\ k = "action" /\ Op(c) = "metrics" /\ Permitted(c) => todo = Counters /\ pc = "load"
      /\ k = "action" /\ ~(Op(c) = "metrics" /\ Permitted(c)) => pc = "done"
  BY <1>1 DEF Pc
<1> HIDE DEF todo, pc
<1>5. /\ s \in CallStates /\ s.pc = pc /\ s.result = call[c].result /\ s.todo = todo
      /\ s.kind = call[c].kind /\ s.earlier = call[c].earlier
      /\ s.before = call[c].before /\ s.view = call[c].view
  BY <1>1, <1>2 DEF CallStates
<1> HIDE DEF s
<1>6. Steps(c, pc, Result(c)) /\ call'[c] = s
  BY <1>3, <1>5, CallUpdate DEF Result
<1>7. Keeps(c) /\ call'[c].todo = todo
  BY <1>5, <1>6 DEF Keeps
<1>8. k \in call[c].todo /\ (k = "action" => call[c].todo = {k})
  BY <1>1 DEF MayAccess
<1>9. lock' = IF lock = c /\ k = "action" THEN Free ELSE lock
  BY DEF Count, AfterCount
<1>10. QED BY <1>1, <1>4, <1>6, <1>7, <1>8, <1>9

\* A counter is loaded into the view.
LEMMA LoadSteps ==
  ASSUME TypeOK, NEW c \in Calls, NEW k \in Counters, Load(c, k)
  PROVE  /\ Pc(c) = "load" /\ k \in call[c].todo /\ Keeps(c)
         /\ (k = "action" => call[c].todo = {k})
         /\ Steps(c, IF k = "action" THEN "done" ELSE "load", Result(c))
         /\ call'[c].todo = call[c].todo \ {k}
         /\ call'[c].view.counted = [call[c].view.counted EXCEPT ![k] = counted[k]]
<1> DEFINE pc == IF k = "action" THEN "done" ELSE "load"
           todo == call[c].todo \ {k}
           set == counted[k]
           view == [call[c].view EXCEPT !.counted[k] = set]
           s == [call[c] EXCEPT !.todo = todo, !.view = view, !.pc = pc]
<1>1. /\ call[c] \in CallStates /\ Pc(c) = "load" /\ MayAccess(c, k) /\ call[c].pc = "load"
      /\ call[c].view \in Views /\ call[c].todo \subseteq Counters
  BY CallType DEF Load, At, Pc, CallStates
<1>2. todo \subseteq Counters /\ pc \in PCs /\ set \subseteq Calls
  BY <1>1 DEF PCs, TypeOK
<1>3. call' = [call EXCEPT ![c] = s]
  BY <1>1, CallType DEF Load
<1> HIDE DEF todo, pc, set
<1>4. /\ view \in Views
      /\ view.log = call[c].view.log /\ view.draining = call[c].view.draining
      /\ view.counted = [call[c].view.counted EXCEPT ![k] = set]
  BY <1>1, <1>2 DEF Views
<1> HIDE DEF view
<1>5. /\ s \in CallStates /\ s.pc = pc /\ s.result = call[c].result /\ s.todo = todo
      /\ s.kind = call[c].kind /\ s.earlier = call[c].earlier
      /\ s.before = call[c].before /\ s.view = view
  BY <1>1, <1>2, <1>4 DEF CallStates
<1> HIDE DEF s
<1>6. Steps(c, pc, Result(c)) /\ call'[c] = s
  BY <1>3, <1>5, CallUpdate DEF Result
<1>7. QED BY <1>1, <1>4, <1>5, <1>6 DEF Keeps, MayAccess, pc, todo, set

\* A call arrives.
Arrives(c, kind) ==
  /\ call' \in [Calls -> CallStates]
  /\ call'[c].pc = IF kind.role = "Malformed" THEN "done" ELSE IF kind.op = "purge" THEN "lock" ELSE "act"
  /\ call'[c].result = call[c].result /\ call'[c].kind = kind
  /\ call'[c].earlier = IF kind.op \in Readers THEN Answered ELSE {}
  /\ \A d \in Calls \ {c} : call'[d] = call[d]

\* A call arrives: refused at once, at the mutex or about to act.
LEMMA ArriveSteps ==
  ASSUME TypeOK, NEW c \in Calls, NEW kind \in CallKinds, Arrive(c, kind)
  PROVE  Arrives(c, kind) /\ Pc(c) = "idle"
<1> DEFINE pc == IF kind.role = "Malformed" THEN "done" ELSE IF kind.op = "purge" THEN "lock" ELSE "act"
           earlier == IF kind.op \in Readers THEN Answered ELSE {}
           s == [call[c] EXCEPT !.kind = kind, !.earlier = earlier, !.pc = pc]
<1>1. call[c] \in CallStates /\ pc \in PCs /\ earlier \subseteq Calls /\ kind \in Kinds
  BY CallType DEF PCs, Answered, Kinds
<1>2. call' = [call EXCEPT ![c] = s]
  BY CallType DEF Arrive
<1> HIDE DEF pc, earlier
<1>3. s \in CallStates /\ s.pc = pc /\ s.result = call[c].result /\ s.kind = kind /\ s.earlier = earlier
  BY <1>1 DEF CallStates
<1> HIDE DEF s
<1>4. call' \in [Calls -> CallStates] /\ call'[c] = s /\ \A d \in Calls \ {c} : call'[d] = call[d]
  BY <1>2, <1>3, CallType
<1>5. QED BY <1>3, <1>4 DEF Arrives, Arrive, At, Pc, pc, earlier

-----------------------------------------------------------------------------
(* Every audited call has its event. *)

\* A step keeps the phases of the calls that do not take it.
LEMMA PhasesStep ==
  ASSUME Phases, NEW c \in Calls, NEW pc, NEW result, Steps(c, pc, result),
         pc # "idle", call[c].kind \in CallKinds, pc \in {"lock", "act"} => result = "None",
         pc \in {"audit", "count", "load"} => result # "None" /\ Audited(c),
         pc = "lock" => Op(c) = "purge", pc = "load" => Op(c) = "metrics",
         call[c].kind.role # "Malformed", result = "Success" => Permitted(c)
  PROVE  Phases'
<1> SUFFICES ASSUME NEW d \in Calls
             PROVE  PhaseOK(d)'
  BY DEF Phases
<1>1. CASE d = c
  BY <1>1 DEF Steps, PhaseOK, Pc, Result, Op, Audited, Permitted
<1>2. CASE d # c
  BY <1>2 DEF Steps, Phases, PhaseOK, Pc, Result, Op, Audited, Permitted
<1>3. QED BY <1>1, <1>2

\* A step that does not write the log keeps what is known of it, if the call that
\* moves has its event already, or needs none.
LEMMA LogStep ==
  ASSUME AuditInv, NEW c \in Calls, NEW pc, NEW result, Steps(c, pc, result), log' = log,
         \/ Pc(c) \notin Written /\ (pc \notin Written \/ ~Audited(c))
         \/ Pc(c) \in Written /\ pc \in Written /\ result = Result(c)
  PROVE  EventsUnique' /\ EventsOfCalls' /\ AuditedLogged'
<1>1. EventsUnique /\ EventsOfCalls /\ AuditedLogged /\ \A i \in DOMAIN log : log[i].call \in Calls
  BY LogType DEF AuditInv
<1>2. EventsUnique'
  BY <1>1 DEF EventsUnique
<1>3. EventsOfCalls'
  BY <1>1 DEF EventsOfCalls, Steps, Pc, Result
<1>4. AuditedLogged'
  BY <1>1 DEF AuditedLogged, Steps, Pc, Audited, Op
<1>5. QED BY <1>2, <1>3, <1>4

\* A call that arrives has written nothing.
LEMMA AuditArrive ==
  ASSUME AuditInv, NEW c \in Calls, NEW kind \in CallKinds, Arrive(c, kind)
  PROVE  AuditInv'
<1>1. /\ Arrives(c, kind) /\ Pc(c) = "idle" /\ Result(c) = "None" /\ TypeOK
      /\ EventsUnique /\ EventsOfCalls /\ AuditedLogged /\ Phases
      /\ \A i \in DOMAIN log : log[i].call \in Calls
  BY ArriveSteps, LogType DEF AuditInv, Phases, PhaseOK
<1>2. /\ draining' = draining /\ master' = master /\ lock' = lock /\ log' = log /\ counted' = counted
  BY DEF Arrive
<1>3. TypeOK'
  BY <1>1, <1>2 DEF TypeOK, Arrives, CallStates, Kinds, Views
<1>4. Phases'
  <2> SUFFICES ASSUME NEW d \in Calls
               PROVE  PhaseOK(d)'
    BY DEF Phases
  <2>1. CASE d = c
    BY <1>1, <2>1 DEF Arrives, PhaseOK, Pc, Result, Op
  <2>2. CASE d # c
    BY <1>1, <2>2 DEF Arrives, Phases, PhaseOK, Pc, Result, Op, Audited, Permitted
  <2>3. QED BY <2>1, <2>2
<1>5. EventsUnique'
  BY <1>1, <1>2 DEF EventsUnique
<1>6. EventsOfCalls'
  BY <1>1, <1>2 DEF EventsOfCalls, Arrives, Pc, Result, Written
<1>7. AuditedLogged'
  BY <1>1, <1>2 DEF AuditedLogged, Arrives, Pc, Audited, Op, Written
<1>8. QED BY <1>3, <1>4, <1>5, <1>6, <1>7 DEF AuditInv

\* A handler that acts has its event still to write, if it writes one.
LEMMA AuditAct ==
  ASSUME AuditInv, NEW c \in Calls, NEW pc, NEW result, Acts(c, pc, result), ActsRest(c, result)
  PROVE  AuditInv'
<1>1. /\ TypeOK /\ Phases /\ PhaseOK(c) /\ Pc(c) = "act" /\ Steps(c, pc, result)
      /\ call[c].kind \in CallKinds /\ call[c].kind.role # "Malformed"
  BY DEF AuditInv, Phases, PhaseOK, Acts
<1>2. draining' \in [LocalNodes -> BOOLEAN]
  BY <1>1 DEF ActsRest, TypeOK
<1>3. master' \in MasterStates
  <2>1. Op(c) = "purge" => Target(c) \in Ids
    BY <1>1, KindsAssumption DEF Op, Target
  <2>2. QED BY <1>1, <2>1, RemoveType DEF ActsRest, TypeOK
<1>4. TypeOK'
  BY <1>1, <1>2, <1>3 DEF TypeOK, Acts, Steps, CallStates, Kinds, Views
<1>5. Phases'
  BY <1>1, PhasesStep DEF Acts, Audited, AuditedOps
<1>6. EventsUnique' /\ EventsOfCalls' /\ AuditedLogged'
  BY <1>1, LogStep DEF Acts, Written, Audited
<1>7. QED BY <1>4, <1>5, <1>6 DEF AuditInv

\* Taking the mutex writes nothing.
LEMMA AuditLock ==
  ASSUME AuditInv, NEW c \in Calls, LockMaster(c)
  PROVE  AuditInv'
<1>1. /\ TypeOK /\ Phases /\ PhaseOK(c) /\ Pc(c) = "lock" /\ Steps(c, "act", "None")
      /\ call[c].kind \in CallKinds /\ call[c].kind.role # "Malformed"
      /\ log' = log
  BY LockSteps DEF AuditInv, Phases, PhaseOK, LockMaster
<1>2. TypeOK'
  BY <1>1 DEF TypeOK, LockMaster, Steps, CallStates, Kinds, Views
<1>3. Phases'
  BY <1>1, PhasesStep
<1>4. EventsUnique' /\ EventsOfCalls' /\ AuditedLogged'
  BY <1>1, LogStep DEF Written
<1>5. QED BY <1>2, <1>3, <1>4 DEF AuditInv

\* An event is written once, by a call that had none.
LEMMA AuditAppend ==
  ASSUME AuditInv, NEW c \in Calls, AppendEvent(c)
  PROVE  AuditInv'
<1>1. /\ TypeOK /\ Phases /\ PhaseOK(c) /\ Pc(c) = "audit" /\ Steps(c, "count", Result(c))
      /\ call[c].kind \in CallKinds /\ call[c].kind.role # "Malformed" /\ Audited(c)
      /\ EventsUnique /\ EventsOfCalls /\ AuditedLogged
      /\ log \in Seq(Events) /\ \A i \in DOMAIN log : log[i].call \in Calls
  BY AppendSteps, LogType DEF AuditInv, Phases, PhaseOK
<1>2. Event(c) \in Events /\ Event(c).call = c /\ Event(c).result = Result(c)
  BY <1>1, CallType DEF Event, Events, PhaseOK, Result, CallStates
<1>3. /\ log' \in Seq(Events) /\ Len(log') = Len(log) + 1 /\ DOMAIN log' = 1..(Len(log) + 1)
      /\ log'[Len(log) + 1] = Event(c)
      /\ \A i \in 1..Len(log) : log'[i] = log[i]
      /\ DOMAIN log = 1..Len(log) /\ Len(log) \in Nat
  BY <1>1, <1>2 DEF AppendEvent
<1>4. TypeOK'
  BY <1>1, <1>3 DEF TypeOK, AppendEvent, Steps, CallStates, Kinds, Views
<1>5. Phases'
  BY <1>1, PhasesStep DEF PhaseOK
<1>6. \A i \in 1..Len(log) : log[i].call # c
  BY <1>1, <1>3 DEF EventsOfCalls, Written
<1>7. EventsUnique'
  BY <1>1, <1>2, <1>3, <1>6 DEF EventsUnique
<1>8. EventsOfCalls'
  BY <1>1, <1>2, <1>3, <1>6 DEF EventsOfCalls, Steps, Pc, Result, Written
<1>9. AuditedLogged'
  <2> SUFFICES ASSUME NEW d \in Calls, Audited(d)', Pc(d)' \in Written
               PROVE  \E i \in DOMAIN log' : log'[i].call = d
    BY DEF AuditedLogged
  <2>1. CASE d = c
    BY <1>2, <1>3, <2>1
  <2>2. CASE d # c
    <3>1. \E i \in 1..Len(log) : log[i].call = d
      BY <1>1, <1>3, <2>2 DEF AuditedLogged, Steps, Pc, Audited, Op
    <3>2. QED BY <1>3, <3>1
  <2>3. QED BY <2>1, <2>2
<1>10. QED BY <1>4, <1>5, <1>7, <1>8, <1>9 DEF AuditInv

\* Bumping and loading counters leaves the log alone.
LEMMA AuditCounters ==
  ASSUME AuditInv, NEW c \in Calls, NEW k \in Counters, Count(c, k) \/ Load(c, k)
  PROVE  AuditInv'
<1>1. PICK pc \in Written : Steps(c, pc, Result(c)) /\ (pc = "load" => Op(c) = "metrics")
  BY CountSteps, LoadSteps DEF AuditInv, Written, Phases, PhaseOK
<1>2. /\ TypeOK /\ Phases /\ PhaseOK(c) /\ Pc(c) \in {"count", "load"} /\ log' = log
      /\ draining' = draining /\ master' = master
  BY CountSteps, LoadSteps DEF AuditInv, Phases, Count, AfterCount, Load
<1>3. call[c].kind \in CallKinds /\ call[c].kind.role # "Malformed" /\ Audited(c) /\ Result(c) # "None"
  BY <1>2 DEF PhaseOK
<1>4. lock' \in Calls \cup {Free} /\ counted' \in [Counters -> SUBSET Calls]
  <2>1. CASE Count(c, k)
    <3>1. lock' \in {lock, Free} /\ counted' = [counted EXCEPT ![k] = @ \cup {c}]
      BY <2>1 DEF Count, AfterCount
    <3>2. QED BY <1>2, <3>1 DEF TypeOK
  <2>2. CASE Load(c, k)
    BY <1>2, <2>2 DEF TypeOK, Load
  <2>3. QED BY <2>1, <2>2
<1>5. TypeOK'
  BY <1>1, <1>2, <1>4 DEF TypeOK, Steps, CallStates, Kinds, Views
<1>6. Phases'
  BY <1>1, <1>2, <1>3, PhasesStep DEF PhaseOK, Written
<1>7. EventsUnique' /\ EventsOfCalls' /\ AuditedLogged'
  BY <1>1, <1>2, LogStep DEF Written
<1>8. QED BY <1>5, <1>6, <1>7 DEF AuditInv

\* The steps of a behaviour, as the proofs below take them.
LEMMA NextCases ==
  ASSUME TypeOK, [Next]_vars
  PROVE  \/ \E c \in Calls, kind \in CallKinds : Arrive(c, kind)
         \/ \E c \in Calls : LockMaster(c)
         \/ \E c \in Calls : \E pc, result : Acts(c, pc, result) /\ ActsRest(c, result)
         \/ \E c \in Calls : AppendEvent(c)
         \/ \E c \in Calls, k \in Counters : Count(c, k)
         \/ \E c \in Calls, k \in Counters : Load(c, k)
         \/ UNCHANGED vars
<1>1. ASSUME NEW c \in Calls, Step(c)
      PROVE  \/ LockMaster(c) \/ AppendEvent(c)
             \/ \E pc, result : Acts(c, pc, result) /\ ActsRest(c, result)
             \/ \E k \in Counters : Count(c, k) \/ Load(c, k)
  BY <1>1, ActSteps DEF Step
<1>2. QED BY <1>1 DEF Next

\* The initial state is well typed.
LEMMA InitType ==
  ASSUME Init
  PROVE  TypeOK
<1>1. 1 \in U64 /\ 1 \in Nat /\ (CHOOSE n \in Nodes : TRUE) \in Nodes
  BY U64MaxAssumption, SeedAssumption DEF U64
<1>2. EmptyMaster \in MasterStates
  BY <1>1, NewMasterType, MountSegmentType DEF EmptyMaster
<1>3. PutEnd(PutStart(EmptyMaster, Seed, 1, 1), Seed) \in MasterStates
  BY <1>1, <1>2, SeedAssumption, PutStartType, PutEndType
<1>4. IdleCall \in CallStates
  BY DEF IdleCall, CallStates, Kinds, Views, PCs, Results, NoView, Nothing
<1>5. call \in [Calls -> CallStates]
  BY <1>4 DEF Init
<1>6. QED BY <1>2, <1>3, <1>5 DEF Init, TypeOK, CallStates, Kinds, Views, Nothing

\* The invariant of the audit log.
LEMMA AuditInvariant == Spec => []AuditInv
<1>1. Init => AuditInv
  <2> SUFFICES ASSUME Init PROVE AuditInv
    OBVIOUS
  <2>1. log = <<>> /\ DOMAIN log = {} /\ \A c \in Calls : call[c] = IdleCall
    BY DEF Init
  <2>2. Phases
    BY <2>1 DEF Phases, PhaseOK, Pc, Result, IdleCall
  <2>3. EventsUnique /\ EventsOfCalls
    BY <2>1 DEF EventsUnique, EventsOfCalls
  <2>4. AuditedLogged
    BY <2>1 DEF AuditedLogged, Pc, Written, IdleCall
  <2>5. QED BY <2>2, <2>3, <2>4, InitType DEF AuditInv
<1>2. AuditInv /\ [Next]_vars => AuditInv'
  <2> SUFFICES ASSUME AuditInv, [Next]_vars PROVE AuditInv'
    OBVIOUS
  <2>1. CASE UNCHANGED vars
    BY <2>1 DEF vars, AuditInv, TypeOK, Phases, PhaseOK, Pc, Result, Op, Audited, Permitted,
         EventsUnique, EventsOfCalls, AuditedLogged
  <2>2. TypeOK
    BY DEF AuditInv
  <2>3. QED
    BY <2>1, <2>2, NextCases, AuditArrive, AuditLock, AuditAct, AuditAppend, AuditCounters
<1>3. QED BY <1>1, <1>2, PTL DEF Spec

\* The state of the service has its type.
THEOREM AdminTypeCorrect == Spec => []TypeOK
<1>1. AuditInv => TypeOK
  BY DEF AuditInv
<1>2. QED BY <1>1, AuditInvariant, PTL

\* However calls interleave, an answered call of an audited kind has exactly one
\* event, with its result: AuditComplete.
THEOREM EveryCallAudited == Spec => []AuditComplete
<1>1. AuditInv => AuditComplete
  <2> SUFFICES ASSUME AuditInv, NEW c \in Calls
               PROVE  /\ Cardinality(EventsOf(c)) <= 1
                      /\ At(c, "done") /\ Audited(c) => \E i \in EventsOf(c) : log[i].result = call[c].result
    BY DEF AuditComplete
  <2>1. Cardinality(EventsOf(c)) <= 1
    <3>1. CASE EventsOf(c) = {}
      BY <3>1, FS_EmptySet
    <3>2. CASE EventsOf(c) # {}
      <4>1. PICK i : i \in EventsOf(c)
        BY <3>2
      <4>2. EventsOf(c) = {i}
        BY <4>1 DEF EventsOf, AuditInv, EventsUnique
      <4>3. Cardinality({i}) = 1
        BY FS_Singleton
      <4>4. QED BY <4>2, <4>3
    <3>3. QED BY <3>1, <3>2
  <2>2. At(c, "done") /\ Audited(c) => \E i \in EventsOf(c) : log[i].result = call[c].result
    BY DEF AuditInv, AuditedLogged, EventsOfCalls, EventsOf, At, Pc, Result, Written
  <2>3. QED BY <2>1, <2>2
<1>2. QED BY <1>1, AuditInvariant, PTL

-----------------------------------------------------------------------------
(* Purges. *)

\* delete_cache_object removes the object and no other.
LEMMA RemoveStatus ==
  ASSUME NEW ms \in MasterStates, NEW id \in Ids
  PROVE  /\ Remove(ms, id).segments = ms.segments
         /\ Remove(ms, id).objects[id].status = "Absent"
         /\ \A x \in Ids \ {id} : Remove(ms, id).objects[x] = ms.objects[x]
<1>1. Remove(ms, id).segments = ms.segments
  BY RemoveFrame
<1>2. CASE RemoveOk(ms, id)
  <2>1. Remove(ms, id).objects = [ms.objects EXCEPT ![id] = NoObject]
    BY <1>2, RemoveFrame
  <2>2. ms.objects \in [Ids -> ObjectMeta]
    BY DEF MasterStates
  <2>3. QED BY <1>1, <2>1, <2>2 DEF NoObject
<1>3. CASE ~RemoveOk(ms, id)
  <2>1. Remove(ms, id) = ms
    BY <1>3, RemoveFrame
  <2>2. QED BY <1>3, <2>1 DEF RemoveOk
<1>4. QED BY <1>2, <1>3

\* The facts of a state that the proofs about purges use.
LEMMA PurgeFacts ==
  ASSUME AuditInv
  PROVE  /\ TypeOK /\ log \in Seq(Events) /\ DOMAIN log = 1..Len(log) /\ Len(log) \in Nat
         /\ \A i \in DOMAIN log : /\ log[i].call \in Calls /\ Pc(log[i].call) \in Written
                                  /\ log[i].result = Result(log[i].call)
         /\ \A c \in Calls : PhaseOK(c)
         /\ Free \notin Calls
BY LogType, FreeAssumption DEF AuditInv, EventsOfCalls, Phases

\* A call that arrives has purged nothing.
LEMMA PurgeArrive ==
  ASSUME AuditInv, PurgeInv, NEW c \in Calls, NEW kind \in CallKinds, Arrive(c, kind)
  PROVE  PurgeInv'
<1>1. /\ Arrives(c, kind) /\ Pc(c) = "idle" /\ Result(c) = "None" /\ Op(c) = "nodes"
      /\ master' = master /\ lock' = lock /\ log' = log
      /\ \A i \in DOMAIN log : log[i].call \in Calls \ {c}
  <2>1. TypeOK /\ PhaseOK(c) /\ Pc(c) = "idle"
    BY PurgeFacts DEF Arrive, At, Pc
  <2>2. Arrives(c, kind)
    BY <2>1, ArriveSteps
  <2>3. Result(c) = "None" /\ Op(c) = "nodes"
    BY <2>1 DEF PhaseOK, Op, IdleCall
  <2>4. \A i \in DOMAIN log : log[i].call \in Calls \ {c}
    BY <2>1, PurgeFacts DEF Written
  <2>5. QED BY <2>1, <2>2, <2>3, <2>4 DEF Arrive
<1>2. LockOwned /\ FailedGone /\ SuccessFirst /\ PurgesInOrder /\ PurgeExplained
  BY DEF PurgeInv
<1>3. LockOwned'
  BY <1>1, <1>2 DEF LockOwned, Arrives, Op, Pc
<1>4. FailedGone'
  BY <1>1, <1>2 DEF FailedGone, Arrives, Op, Result, Target
<1>5. SuccessFirst'
  BY <1>1, <1>2 DEF SuccessFirst, Arrives, Op, Pc, Result, Target
<1>6. PurgesInOrder'
  BY <1>1, <1>2 DEF PurgesInOrder, Arrives, Op
<1>7. PurgeExplained'
  BY <1>1, <1>2 DEF PurgeExplained, Purged, Arrives, Op, Target, Result
<1>8. QED BY <1>3, <1>4, <1>5, <1>6, <1>7 DEF PurgeInv

\* A step that neither decides a result nor writes an event, of a call that
\* keeps the lock, takes it when it is free, or gives it up.
LEMMA PurgeQuiet ==
  ASSUME AuditInv, PurgeInv, NEW c \in Calls, NEW pc, Steps(c, pc, Result(c)),
         master' = master, log' = log, Pc(c) # "audit", pc # "audit", LockOwned'
  PROVE  PurgeInv'
<1>1. \A i \in DOMAIN log : log[i].call \in Calls
  BY PurgeFacts
<1>2. FailedGone /\ SuccessFirst /\ PurgesInOrder /\ PurgeExplained
  BY DEF PurgeInv
<1>3. FailedGone'
  BY <1>2 DEF FailedGone, Steps, Op, Result, Target
<1>4. SuccessFirst'
  BY <1>1, <1>2 DEF SuccessFirst, Steps, Op, Pc, Result, Target
<1>5. PurgesInOrder'
  BY <1>1, <1>2 DEF PurgesInOrder, Steps, Op
<1>6. PurgeExplained'
  BY <1>2 DEF PurgeExplained, Purged, Steps, Op, Target, Result
<1>7. QED BY <1>3, <1>4, <1>5, <1>6 DEF PurgeInv

\* The mutex goes to one purge.
LEMMA PurgeLock ==
  ASSUME AuditInv, PurgeInv, NEW c \in Calls, LockMaster(c)
  PROVE  PurgeInv'
<1>1. /\ Steps(c, "act", "None") /\ Pc(c) = "lock" /\ Op(c) = "purge" /\ Result(c) = "None"
      /\ lock = Free /\ lock' = c /\ master' = master /\ log' = log
  BY LockSteps, PurgeFacts DEF PhaseOK, LockMaster
<1>2. \A d \in Calls : ~(Op(d) = "purge" /\ Pc(d) \in {"act", "audit", "count"})
  BY <1>1, PurgeFacts DEF PurgeInv, LockOwned
<1>3. LockOwned'
  BY <1>1, <1>2 DEF LockOwned, Steps, Op, Pc
<1>4. QED BY <1>1, <1>3, PurgeQuiet

\* A purge gives the mutex back with its last counter.
LEMMA PurgeCounters ==
  ASSUME AuditInv, PurgeInv, NEW c \in Calls, NEW k \in Counters, Count(c, k) \/ Load(c, k)
  PROVE  PurgeInv'
<1>1. /\ TypeOK /\ Free \notin Calls /\ PhaseOK(c) /\ LockOwned
      /\ master' = master /\ log' = log
  BY PurgeFacts DEF PurgeInv, Count, AfterCount, Load
<1>2. CASE Count(c, k) /\ k # "action"
  <2>1. Steps(c, "count", Result(c)) /\ Pc(c) = "count" /\ lock' = lock
    BY <1>1, <1>2, CountSteps
  <2>2. LockOwned'
    BY <1>1, <2>1 DEF LockOwned, Steps, Op, Pc
  <2>3. QED BY <1>1, <2>1, <2>2, PurgeQuiet
<1>3. CASE Count(c, k) /\ k = "action"
  <2>1. /\ Pc(c) = "count" /\ lock' = IF lock = c THEN Free ELSE lock
        /\ \/ Steps(c, "load", Result(c)) /\ Op(c) = "metrics"
           \/ Steps(c, "done", Result(c))
    BY <1>1, <1>3, CountSteps
  <2>2. LockOwned'
    BY <1>1, <2>1 DEF LockOwned, Steps, Op, Pc
  <2>3. QED BY <1>1, <2>1, <2>2, PurgeQuiet
<1>4. CASE Load(c, k)
  <2>1. PICK pc \in {"load", "done"} : Steps(c, pc, Result(c))
    BY <1>1, <1>4, LoadSteps
  <2>2. Pc(c) = "load" /\ lock' = lock /\ Op(c) = "metrics"
    BY <1>1, <1>4, LoadSteps DEF Load, PhaseOK
  <2>3. LockOwned'
    BY <1>1, <2>1, <2>2 DEF LockOwned, Steps, Op, Pc
  <2>4. QED BY <1>1, <2>1, <2>2, <2>3, PurgeQuiet
<1>5. QED BY <1>2, <1>3, <1>4

\* Only the holder of the mutex purges, an object that no logged purge has removed.
LEMMA PurgeAct ==
  ASSUME AuditInv, PurgeInv, NEW c \in Calls, NEW pc, NEW result, Acts(c, pc, result),
         ActsRest(c, result)
  PROVE  PurgeInv'
<1>1. /\ TypeOK /\ PhaseOK(c) /\ Pc(c) = "act" /\ Steps(c, pc, result) /\ Result(c) = "None"
      /\ log' = log /\ lock' = lock
      /\ pc = IF Op(c) \in AuditedOps THEN "audit" ELSE "done"
      /\ master \in MasterStates
      /\ \A i \in DOMAIN log : /\ log[i].call \in Calls \ {c}
                               /\ log[i].result = Result(log[i].call)
  BY PurgeFacts DEF Acts, PhaseOK, Written, TypeOK
<1>2. Op(c) = "purge" => Target(c) \in Ids /\ pc = "audit"
  BY <1>1, KindsAssumption DEF Op, Target, PhaseOK, AuditedOps, Ops
<1>3. LockOwned /\ FailedGone /\ SuccessFirst /\ PurgesInOrder /\ PurgeExplained
  BY DEF PurgeInv
<1>4. /\ master'.segments = master.segments
      /\ \A x \in Ids : master.objects[x].status = "Absent" => master'.objects[x].status = "Absent"
      /\ \A x \in Ids : /\ master.objects[x].status # "Absent" /\ master'.objects[x].status = "Absent"
                        => Op(c) = "purge" /\ Target(c) = x /\ result = "Success"
      /\ Op(c) = "purge" /\ result = "Failed" => master'.objects[Target(c)].status = "Absent"
      /\ Op(c) = "purge" /\ result = "Success" => master.objects[Target(c)].status # "Absent"
  <2>1. CASE Op(c) = "purge" /\ result # "Denied"
    <3>1. /\ master' = Remove(master, Target(c))
          /\ result = IF RemoveOk(master, Target(c)) THEN "Success" ELSE "Failed"
      BY <2>1 DEF ActsRest
    <3>2. QED BY <1>1, <1>2, <2>1, <3>1, RemoveStatus DEF RemoveOk
  <2>2. CASE ~(Op(c) = "purge" /\ result # "Denied")
    <3>1. master' = master
      BY <2>2 DEF ActsRest
    <3>2. QED BY <2>2, <3>1
  <2>3. QED BY <2>1, <2>2
<1>5. \A d \in Calls : Op(d) = "purge" /\ Result(d) = "Failed" => Target(d) \in Ids
  BY PurgeFacts, KindsAssumption DEF PhaseOK, Op, Target
<1>6. LockOwned'
  BY <1>1, <1>2, <1>3 DEF LockOwned, Steps, Op, Pc
<1>7. FailedGone'
  BY <1>1, <1>2, <1>3, <1>4, <1>5 DEF FailedGone, Steps, Op, Result, Target
<1>8. SuccessFirst'
  <2> SUFFICES ASSUME NEW d \in Calls, Op(d)' = "purge", Result(d)' = "Success", Pc(d)' = "audit",
                      NEW i \in DOMAIN log, Op(log[i].call)' = "purge",
                      Target(log[i].call)' = Target(d)'
               PROVE  log[i].result # "Failed"
    BY <1>1 DEF SuccessFirst
  <2>1. /\ log[i].call \in Calls \ {c} /\ Op(log[i].call) = "purge"
        /\ Target(log[i].call) = Target(d) /\ Op(d) = "purge"
    BY <1>1 DEF Steps, Op, Target
  <2>2. CASE d = c
    <3>1. master.objects[Target(c)].status # "Absent"
      BY <1>1, <1>4, <2>1, <2>2 DEF Steps, Result
    <3>2. QED BY <1>1, <1>3, <2>1, <2>2, <3>1 DEF FailedGone
  <2>3. CASE d # c
    BY <1>1, <1>3, <2>1, <2>3 DEF SuccessFirst, Steps, Pc, Result
  <2>4. QED BY <2>2, <2>3
<1>9. PurgesInOrder'
  BY <1>1, <1>3 DEF PurgesInOrder, Steps, Op
<1>10. PurgeExplained'
  BY <1>1, <1>3, <1>4, SeedAssumption DEF PurgeExplained, Purged, Steps, Op, Target, Result
<1>11. QED BY <1>6, <1>7, <1>8, <1>9, <1>10 DEF PurgeInv

\* The event of a purge is written while the mutex is held.
LEMMA PurgeAppend ==
  ASSUME AuditInv, PurgeInv, NEW c \in Calls, AppendEvent(c)
  PROVE  PurgeInv'
<1>1. /\ TypeOK /\ PhaseOK(c) /\ Pc(c) = "audit" /\ Steps(c, "count", Result(c))
      /\ master' = master /\ lock' = lock /\ log' = Append(log, Event(c))
      /\ log \in Seq(Events) /\ DOMAIN log = 1..Len(log) /\ Len(log) \in Nat
      /\ \A i \in DOMAIN log : log[i].call \in Calls
  BY PurgeFacts, AppendSteps DEF AppendEvent
<1>2. Event(c) \in Events /\ Event(c).call = c /\ Event(c).result = Result(c)
  BY <1>1, CallType DEF Event, Events, PhaseOK, Result, CallStates
<1>3. /\ DOMAIN log' = 1..(Len(log) + 1) /\ log'[Len(log) + 1] = Event(c)
      /\ \A i \in 1..Len(log) : log'[i] = log[i]
  BY <1>1, <1>2
<1>4. LockOwned /\ FailedGone /\ SuccessFirst /\ PurgesInOrder /\ PurgeExplained
  BY DEF PurgeInv
<1>5. LockOwned'
  BY <1>1, <1>4 DEF LockOwned, Steps, Op, Pc
<1>6. FailedGone'
  BY <1>1, <1>4 DEF FailedGone, Steps, Op, Result, Target
<1>7. SuccessFirst'
  <2> SUFFICES ASSUME NEW d \in Calls, Op(d)' = "purge", Result(d)' = "Success", Pc(d)' = "audit",
                      NEW i \in DOMAIN log', call'[log'[i].call].kind.op = "purge",
                      call'[log'[i].call].kind.target = Target(d)'
               PROVE  log'[i].result # "Failed"
    BY DEF SuccessFirst, Op, Target
  <2>1. d # c /\ Op(d) = "purge" /\ Result(d) = "Success" /\ Pc(d) = "audit" /\ call'[d] = call[d]
    BY <1>1 DEF Steps, Op, Pc, Result
  <2>2. Op(c) # "purge"
    BY <1>1, <1>4, <2>1 DEF LockOwned
  <2>3. i \in 1..Len(log)
    BY <1>1, <1>2, <1>3, <2>2 DEF Steps, Op
  <2>4. QED BY <1>1, <1>3, <1>4, <2>1, <2>3 DEF SuccessFirst, Steps, Op, Target
<1>8. PurgesInOrder'
  <2> SUFFICES ASSUME NEW i \in DOMAIN log', NEW j \in DOMAIN log', i < j,
                      call'[log'[i].call].kind.op = "purge", call'[log'[j].call].kind.op = "purge",
                      call'[log'[i].call].kind.target = call'[log'[j].call].kind.target,
                      log'[j].result = "Success"
               PROVE  log'[i].result # "Failed"
    BY DEF PurgesInOrder, Op
  <2>1. i \in 1..Len(log) /\ log'[i] = log[i] /\ Op(log[i].call) = "purge"
    BY <1>1, <1>3 DEF Steps, Op
  <2>2. CASE j \in 1..Len(log)
    <3>1. log'[j] = log[j]
      BY <1>3, <2>2
    <3>2. QED BY <1>1, <1>4, <2>1, <2>2, <3>1, SMTT(20) DEF PurgesInOrder, Steps, Op
  <2>3. CASE j = Len(log) + 1
    <3>1. /\ log'[j].call = c /\ Result(c) = "Success"
      BY <1>2, <1>3, <2>3
    <3>2. Op(c) = "purge" /\ Target(log[i].call) = Target(c)
      BY <1>1, <2>1, <3>1 DEF Steps, Op, Target
    <3>3. QED BY <1>1, <1>4, <2>1, <3>1, <3>2 DEF SuccessFirst
  <2>4. QED BY <1>1, <1>3, <2>2, <2>3
<1>9. PurgeExplained'
  BY <1>1, <1>4 DEF PurgeExplained, Purged, Steps, Op, Target, Result
<1>10. QED BY <1>5, <1>6, <1>7, <1>8, <1>9 DEF PurgeInv

\* Nothing is purged yet: an allocated chunk is the seed's, and the seed is there.
LEMMA InitNotPurged ==
  ASSUME Init
  PROVE  ~Purged
<1> DEFINE n == CHOOSE x \in Nodes : TRUE
           started == PutStart(EmptyMaster, Seed, 1, 1)
<1>1. 1 \in U64 /\ 1 \in Nat /\ n \in Nodes /\ Seed \in Ids
  BY U64MaxAssumption, SeedAssumption DEF U64
<1>2. NewMaster \in MasterStates /\ EmptyMaster \in MasterStates /\ NewMaster.segments = <<>>
  BY <1>1, NewMasterType, MountSegmentType DEF EmptyMaster, NewMaster
<1>3. EmptyMaster.segments = Append(<<>>, [node |-> n, len |-> 1, next |-> 0])
  <2>1. EmptyMaster = MountSegment(NewMaster, n, 1)
    BY DEF EmptyMaster
  <2> HIDE DEF n
  <2>2. QED BY <1>2, <2>1, MountSegmentFrame
<1>4. EmptyMaster.segments[1].next = 0
  BY <1>3
<1>5. started \in MasterStates /\ PutEnd(started, Seed) \in MasterStates
  BY <1>1, <1>2, PutStartType, PutEndType
<1>6. CASE PutStartOk(EmptyMaster, Seed, 1, 1)
  <2>1. started.objects = [EmptyMaster.objects EXCEPT ![Seed] = Reservation(EmptyMaster, 1, 1)]
    BY <1>1, <1>2, <1>6, PutStartSucceeded
  <2>2. started.objects[Seed].status = "Reserving"
    BY <1>1, <1>2, <2>1 DEF Reservation, MasterStates
  <2> HIDE DEF started
  <2>3. PutEnd(started, Seed).objects[Seed].status = "Committed"
    BY <1>1, <1>5, <2>2 DEF PutEnd, PutEndOk, MasterStates, ObjectMeta
  <2>4. QED BY <1>4, <2>3 DEF Init, Purged, started
<1>7. CASE ~PutStartOk(EmptyMaster, Seed, 1, 1)
  <2>1. started.segments = EmptyMaster.segments
    BY <1>1, <1>2, <1>7, PutStartFailed
  <2> HIDE DEF started
  <2>2. PutEnd(started, Seed).segments = started.segments
    BY <1>1, <1>5, PutEndFrame
  <2>3. QED BY <1>4, <2>1, <2>2 DEF Init, Purged, started
<1>8. QED BY <1>6, <1>7

\* The invariant of purges.
LEMMA PurgeInvariant == Spec => []PurgeInv
<1>1. Init => PurgeInv
  <2> SUFFICES ASSUME Init PROVE PurgeInv
    OBVIOUS
  <2>1. DOMAIN log = {} /\ lock = Free /\ \A c \in Calls : call[c] = IdleCall
    BY DEF Init
  <2>2. LockOwned /\ FailedGone /\ SuccessFirst /\ PurgesInOrder
    BY <2>1, FreeAssumption
       DEF LockOwned, FailedGone, SuccessFirst, PurgesInOrder, Op, IdleCall
  <2>3. QED BY <2>2, InitNotPurged DEF PurgeInv, PurgeExplained
<1>2. AuditInv /\ PurgeInv /\ [Next]_vars => PurgeInv'
  <2> SUFFICES ASSUME AuditInv, PurgeInv, [Next]_vars PROVE PurgeInv'
    OBVIOUS
  <2>1. CASE UNCHANGED vars
    BY <2>1 DEF vars, PurgeInv, LockOwned, FailedGone, SuccessFirst, PurgesInOrder, PurgeExplained,
         Purged, Op, Pc, Result, Target
  <2>2. TypeOK
    BY DEF AuditInv
  <2>3. QED
    BY <2>1, <2>2, NextCases, PurgeArrive, PurgeLock, PurgeAct, PurgeAppend, PurgeCounters
<1>3. QED BY <1>1, <1>2, AuditInvariant, PTL DEF Spec

\* The log tells the purges of an object in the order in which they happened, for
\* the Master is locked from the deletion to the event: PurgesInOrder.
THEOREM PurgesLoggedInOrder == Spec => []PurgesInOrder
<1>1. PurgeInv => PurgesInOrder
  BY DEF PurgeInv
<1>2. QED BY <1>1, PurgeInvariant, PTL

-----------------------------------------------------------------------------
(* Drains. *)

\* A step that decides no result keeps what is known of the drains.
LEMMA DrainQuiet ==
  ASSUME DrainInv, NEW c \in Calls, NEW pc, Steps(c, pc, Result(c)),
         call'[c].before = call[c].before, draining' = draining
  PROVE  DrainInv'
<1>1. DrainsFlagged /\ FirstUnique /\ FirstExists
  BY DEF DrainInv
<1>2. \A d \in Calls : /\ Op(d)' = Op(d) /\ Target(d)' = Target(d) /\ Result(d)' = Result(d)
                       /\ call'[d].before = call[d].before
  BY DEF Steps, Op, Target, Result
<1>3. DrainsFlagged'
  BY <1>1, <1>2 DEF DrainsFlagged
<1>4. \A d \in Calls, n \in LocalNodes : FirstDrain(d, n)' <=> FirstDrain(d, n)
  BY <1>2 DEF FirstDrain
<1>5. FirstUnique' /\ FirstExists'
  BY <1>1, <1>4 DEF FirstUnique, FirstExists
<1>6. QED BY <1>3, <1>5 DEF DrainInv

\* A call that arrives has drained nothing.
LEMMA DrainArrive ==
  ASSUME AuditInv, DrainInv, NEW c \in Calls, NEW kind \in CallKinds, Arrive(c, kind)
  PROVE  DrainInv'
<1>1. DrainsFlagged /\ FirstUnique /\ FirstExists
  BY DEF DrainInv
<1>2. Arrives(c, kind) /\ draining' = draining /\ Result(c) = "None"
  BY PurgeFacts, ArriveSteps DEF Arrive, PhaseOK
<1>3. Result(c)' = "None" /\ \A d \in Calls \ {c} : call'[d] = call[d]
  BY <1>2 DEF Arrives, Result
<1>4. DrainsFlagged'
  BY <1>1, <1>2, <1>3 DEF DrainsFlagged, Op, Target, Result
<1>5. \A d \in Calls, n \in LocalNodes : FirstDrain(d, n)' <=> FirstDrain(d, n)
  BY <1>2, <1>3 DEF FirstDrain, Op, Target, Result
<1>6. FirstUnique' /\ FirstExists'
  BY <1>1, <1>2, <1>5 DEF FirstUnique, FirstExists
<1>7. QED BY <1>4, <1>6 DEF DrainInv

\* The drain that finds the flag down is the first; any later one finds it up.
LEMMA DrainAct ==
  ASSUME AuditInv, DrainInv, NEW c \in Calls, NEW pc, NEW result, Acts(c, pc, result),
         ActsRest(c, result)
  PROVE  DrainInv'
<1>1. DrainsFlagged /\ FirstUnique /\ FirstExists
  BY DEF DrainInv
<1>2. /\ PhaseOK(c) /\ TypeOK /\ Pc(c) = "act" /\ Result(c) = "None" /\ Steps(c, pc, result)
  BY PurgeFacts DEF Acts, PhaseOK
<1>3. /\ Result(c)' = result /\ Op(c)' = Op(c) /\ Target(c)' = Target(c)
      /\ \A d \in Calls \ {c} : /\ Op(d)' = Op(d) /\ Target(d)' = Target(d) /\ Result(d)' = Result(d)
                                /\ call'[d].before = call[d].before
  BY <1>2 DEF Steps, Op, Target, Result
<1>4. \A d \in Calls \ {c}, n \in LocalNodes : FirstDrain(d, n)' <=> FirstDrain(d, n)
  BY <1>3 DEF FirstDrain
<1>5. \A n \in LocalNodes : ~FirstDrain(c, n)
  BY <1>2 DEF FirstDrain
<1>6. CASE Op(c) = "drain" /\ result = "Success"
  <2>1. /\ Target(c) \in LocalNodes /\ draining' = [draining EXCEPT ![Target(c)] = TRUE]
        /\ call'[c].before = draining[Target(c)] /\ draining \in [LocalNodes -> BOOLEAN]
    BY <1>2, <1>6 DEF ActsRest, TypeOK
  <2>2. draining'[Target(c)] /\ \A n \in LocalNodes \ {Target(c)} : draining'[n] = draining[n]
    BY <2>1
  <2>3. \A n \in LocalNodes : draining[n] => draining'[n]
    BY <2>1
  <2>4. \A n \in LocalNodes : FirstDrain(c, n)' <=> n = Target(c) /\ ~draining[n]
    BY <1>3, <1>6, <2>1 DEF FirstDrain
  <2>5. DrainsFlagged'
    <3> SUFFICES ASSUME NEW d \in Calls, Op(d)' = "drain", Result(d)' = "Success"
                 PROVE  Target(d)' \in LocalNodes /\ draining'[Target(d)']
      BY DEF DrainsFlagged
    <3>1. CASE d = c
      BY <1>3, <2>1, <2>2, <3>1
    <3>2. CASE d # c
      BY <1>1, <1>3, <2>3, <3>2 DEF DrainsFlagged
    <3>3. QED BY <3>1, <3>2
  <2>6. \A d \in Calls, n \in LocalNodes : FirstDrain(d, n) => draining[n]
    BY <1>1 DEF FirstDrain, DrainsFlagged
  <2>7. FirstUnique'
    BY <1>1, <1>4, <2>4, <2>6 DEF FirstUnique
  <2>8. FirstExists'
    <3> SUFFICES ASSUME NEW n \in LocalNodes, draining'[n]
                 PROVE  \E d \in Calls : FirstDrain(d, n)'
      BY DEF FirstExists
    <3>1. CASE draining[n]
      <4>1. PICK d \in Calls : FirstDrain(d, n)
        BY <1>1, <3>1 DEF FirstExists
      <4>2. d # c
        BY <1>5, <4>1
      <4>3. QED BY <1>4, <4>1, <4>2
    <3>2. CASE ~draining[n]
      BY <2>1, <2>2, <2>4, <3>2
    <3>3. QED BY <3>1, <3>2
  <2>9. QED BY <2>5, <2>7, <2>8 DEF DrainInv
<1>7. CASE ~(Op(c) = "drain" /\ result = "Success")
  <2>1. draining' = draining
    BY <1>7 DEF ActsRest
  <2>2. \A n \in LocalNodes : ~FirstDrain(c, n)'
    BY <1>3, <1>7 DEF FirstDrain
  <2>3. DrainsFlagged'
    BY <1>1, <1>3, <1>7, <2>1 DEF DrainsFlagged
  <2>4. \A d \in Calls, n \in LocalNodes : FirstDrain(d, n)' <=> FirstDrain(d, n)
    BY <1>4, <1>5, <2>2
  <2>5. FirstUnique' /\ FirstExists'
    BY <1>1, <2>1, <2>4 DEF FirstUnique, FirstExists
  <2>6. QED BY <2>3, <2>5 DEF DrainInv
<1>8. QED BY <1>6, <1>7

\* The invariant of drains.
LEMMA DrainInvariant == Spec => []DrainInv
<1>1. Init => DrainInv
  BY DEF Init, DrainInv, DrainsFlagged, FirstUnique, FirstExists, FirstDrain, Op, IdleCall
<1>2. AuditInv /\ DrainInv /\ [Next]_vars => DrainInv'
  <2> SUFFICES ASSUME AuditInv, DrainInv, [Next]_vars PROVE DrainInv'
    OBVIOUS
  <2>1. CASE UNCHANGED vars
    BY <2>1 DEF vars, DrainInv, DrainsFlagged, FirstUnique, FirstExists, FirstDrain, Op, Result, Target
  <2>2. TypeOK /\ \A c \in Calls : PhaseOK(c)
    BY PurgeFacts
  <2>3. ASSUME NEW c \in Calls, LockMaster(c) PROVE DrainInv'
    <3>1. Steps(c, "act", Result(c)) /\ draining' = draining
      BY <2>2, <2>3, LockSteps DEF PhaseOK, LockMaster
    <3>2. call'[c].before = call[c].before
      <4>1. call' = [call EXCEPT ![c].pc = "act", ![c].result = "None"] /\ call[c] \in CallStates
        BY <2>2, <2>3, CallType DEF LockMaster, Become
      <4>2. QED BY <2>2, <4>1, CallType DEF CallStates
    <3>3. QED BY <3>1, <3>2, DrainQuiet
  <2>4. ASSUME NEW c \in Calls, AppendEvent(c) PROVE DrainInv'
    <3>1. /\ Steps(c, "count", Result(c)) /\ draining' = draining
          /\ call'[c].before = call[c].before
      BY <2>2, <2>4, AppendSteps DEF Keeps, AppendEvent
    <3>2. QED BY <3>1, DrainQuiet
  <2>5. ASSUME NEW c \in Calls, NEW k \in Counters, Count(c, k) \/ Load(c, k) PROVE DrainInv'
    <3>1. /\ \E pc : Steps(c, pc, Result(c))
          /\ draining' = draining /\ call'[c].before = call[c].before
      BY <2>2, <2>5, CountSteps, LoadSteps DEF Keeps, Count, AfterCount, Load
    <3>2. QED BY <3>1, DrainQuiet
  <2>6. QED BY <2>1, <2>2, <2>3, <2>4, <2>5, NextCases, DrainArrive, DrainAct
<1>3. QED BY <1>1, <1>2, AuditInvariant, PTL DEF Spec

\* However drains of a node interleave, exactly one reports the change:
\* OneFirstDrain.
THEOREM FirstDrainUnique == Spec => []OneFirstDrain
<1>1. DrainInv => OneFirstDrain
  <2> SUFFICES ASSUME DrainInv, NEW n \in LocalNodes
               PROVE  Cardinality({c \in Calls : /\ Op(c) = "drain" /\ call[c].kind.target = n
                                                 /\ call[c].result = "Success" /\ ~call[c].before})
                        = IF draining[n] THEN 1 ELSE 0
    BY DEF OneFirstDrain
  <2> DEFINE S == {c \in Calls : /\ Op(c) = "drain" /\ call[c].kind.target = n
                                 /\ call[c].result = "Success" /\ ~call[c].before}
  <2>1. \A c \in Calls : c \in S <=> FirstDrain(c, n)
    BY DEF FirstDrain, Target, Result
  <2>2. S \subseteq Calls
    OBVIOUS
  <2> HIDE DEF S
  <2>3. CASE draining[n]
    <3>1. PICK c \in Calls : FirstDrain(c, n)
      BY <2>3 DEF DrainInv, FirstExists
    <3>2. S = {c}
      BY <2>1, <2>2, <3>1 DEF DrainInv, FirstUnique
    <3>3. Cardinality({c}) = 1
      BY FS_Singleton
    <3>4. QED BY <2>3, <3>2, <3>3 DEF S
  <2>4. CASE ~draining[n]
    <3>1. S = {}
      BY <2>1, <2>2, <2>4 DEF DrainInv, DrainsFlagged, FirstDrain
    <3>2. Cardinality({}) = 0
      BY FS_EmptySet
    <3>3. QED BY <2>4, <3>1, <3>2 DEF S
  <2>5. QED BY <2>3, <2>4
<1>2. QED BY <1>1, DrainInvariant, PTL

\* Behind every drained node and behind the purged object stands a call of an
\* operator or an admin that succeeded, and is in the log once it is answered:
\* EffectsAudited.
THEOREM EveryEffectAudited == Spec => []EffectsAudited
<1>1. AuditInv /\ PurgeInv /\ DrainInv => EffectsAudited
  <2> SUFFICES ASSUME AuditInv, PurgeInv, DrainInv
               PROVE  EffectsAudited
    OBVIOUS
  <2>1. ASSUME NEW c \in Calls, Op(c) \in {"drain", "purge"}, Result(c) = "Success"
        PROVE  call[c].kind.role \in {"Operator", "Admin"} /\ (At(c, "done") => EventsOf(c) # {})
    <3>1. PhaseOK(c)
      BY PurgeFacts
    <3>2. call[c].kind.role \in {"Operator", "Admin"}
      BY <2>1, <3>1, PermittedOperator DEF PhaseOK
    <3>3. Audited(c)
      BY <2>1, <3>2 DEF Audited, AuditedOps, Ops
    <3>4. At(c, "done") => EventsOf(c) # {}
      BY <3>3 DEF AuditInv, AuditedLogged, EventsOf, At, Pc, Written
    <3>5. QED BY <3>2, <3>4
  <2>2. ASSUME NEW n \in LocalNodes, draining[n]
        PROVE  \E c \in Calls : Op(c) = "drain" /\ Target(c) = n /\ Result(c) = "Success"
    BY <2>2 DEF DrainInv, FirstExists, FirstDrain
  <2>3. Purged => \E c \in Calls : Op(c) = "purge" /\ Target(c) = Seed /\ Result(c) = "Success"
    BY DEF PurgeInv, PurgeExplained
  <2>4. QED BY <2>1, <2>2, <2>3 DEF EffectsAudited, Target, Result
<1>2. QED BY <1>1, AuditInvariant, PurgeInvariant, DrainInvariant, PTL

-----------------------------------------------------------------------------
(* Readers. *)

\* The log is appended to, and the counters count more.
Grows == /\ Len(log) <= Len(log') /\ \A i \in 1..Len(log) : log'[i] = log[i]
         /\ \A k \in Counters : counted[k] \subseteq counted'[k]

\* Answered calls do not move.
LEMMA EarlierKept ==
  ASSUME TypeOK, ReadersInv, NEW c \in Calls, Pc(c) # "done", \A d \in Calls \ {c} : call'[d] = call[d],
         NEW d \in Calls, NEW e \in call[d].earlier
  PROVE  e \in Calls \ {c} /\ Pc(e) = "done" /\ call'[e] = call[e]
<1>1. call[d].earlier \subseteq Calls
  BY CallType DEF CallStates
<1>2. Pc(e) = "done"
  BY DEF ReadersInv, ReaderOK, EarlierOK
<1>3. QED BY <1>1, <1>2

\* A step of one call keeps what the others have seen.
LEMMA OthersRead ==
  ASSUME TypeOK, ReadersInv, NEW c \in Calls, Pc(c) # "done", \A d \in Calls \ {c} : call'[d] = call[d],
         Grows, NEW d \in Calls \ {c}
  PROVE  ReaderOK(d)'
<1>1. /\ call'[d] = call[d] /\ ReaderOK(d)
      /\ call[d].view.log \in Seq(Events) /\ Len(call[d].view.log) \in Nat
      /\ log \in Seq(Events) /\ Len(log) \in Nat
  BY CallType DEF ReadersInv, CallStates, Views, TypeOK
<1>2. \A e \in call[d].earlier : e \in Calls \ {c} /\ Pc(e) = "done" /\ call'[e] = call[e]
  BY EarlierKept
<1>3. \A e \in call[d].earlier : /\ Pc(e)' = Pc(e) /\ Op(e)' = Op(e) /\ Target(e)' = Target(e)
                                 /\ Result(e)' = Result(e) /\ (Audited(e)' <=> Audited(e))
  BY <1>2 DEF Pc, Op, Target, Result, Audited
<1>4. EarlierOK(d)'
  BY <1>1, <1>2, <1>3 DEF EarlierOK
<1>5. CountedOK(d)'
  BY <1>1 DEF ReaderOK, CountedOK, Grows, Audited, Op, Pc
<1>6. LoadedOK(d)'
  BY <1>1, <1>3 DEF ReaderOK, LoadedOK, Op, Pc, Result
<1>7. PrefixOK(d)'
  <2>1. PrefixOK(d)
    BY <1>1 DEF ReaderOK
  <2>2. QED BY <1>1, <2>1, LogType DEF PrefixOK, Grows, Op, Result, TypeOK
<1>8. CoversOK(d)'
  BY <1>1, <1>3 DEF ReaderOK, CoversOK, Op, Result
<1>9. FlagsOK(d)'
  BY <1>1, <1>3 DEF ReaderOK, FlagsOK, Op, Result
<1>10. QED BY <1>4, <1>5, <1>6, <1>7, <1>8, <1>9 DEF ReaderOK

\* A step of a call that has decided its result keeps its copies.
LEMMA CopiesKept ==
  ASSUME TypeOK, ReadersInv, NEW c \in Calls, NEW pc, Steps(c, pc, Result(c)), Keeps(c), Pc(c) # "done",
         Grows
  PROVE  EarlierOK(c)' /\ PrefixOK(c)' /\ CoversOK(c)' /\ FlagsOK(c)'
<1>1. /\ call'[c].kind = call[c].kind /\ call'[c].earlier = call[c].earlier /\ Result(c)' = Result(c)
      /\ call'[c].view.log = call[c].view.log /\ call'[c].view.draining = call[c].view.draining
      /\ ReaderOK(c)
      /\ call[c].view.log \in Seq(Events) /\ Len(call[c].view.log) \in Nat
      /\ Len(log) \in Nat
  BY CallType, LogType DEF ReadersInv, CallStates, Views, Steps, Result, Keeps
<1>2. \A d \in Calls \ {c} : call'[d] = call[d]
  BY DEF Steps
<1>3. \A e \in call[c].earlier : e \in Calls \ {c} /\ Pc(e) = "done" /\ call'[e] = call[e]
  BY <1>2, EarlierKept
<1>4. \A e \in call[c].earlier : /\ Pc(e)' = Pc(e) /\ Op(e)' = Op(e) /\ Target(e)' = Target(e)
                                 /\ Result(e)' = Result(e) /\ (Audited(e)' <=> Audited(e))
  BY <1>3 DEF Pc, Op, Target, Result, Audited
<1>5. EarlierOK(c)'
  BY <1>1, <1>3, <1>4 DEF EarlierOK
<1>6. PrefixOK(c)'
  <2>1. PrefixOK(c)
    BY <1>1 DEF ReaderOK
  <2>2. QED BY <1>1, <2>1 DEF PrefixOK, Grows, Op
<1>7. CoversOK(c)'
  BY <1>1, <1>4 DEF ReaderOK, CoversOK, Op
<1>8. FlagsOK(c)'
  BY <1>1, <1>4 DEF ReaderOK, FlagsOK, Op
<1>9. QED BY <1>5, <1>6, <1>7, <1>8

\* One call at a time.
LEMMA OneReader ==
  ASSUME TypeOK, ReadersInv, NEW c \in Calls, Pc(c) # "done", \A d \in Calls \ {c} : call'[d] = call[d],
         Grows, ReaderOK(c)'
  PROVE  ReadersInv'
BY OthersRead DEF ReadersInv

\* Where nothing is written, everything grows.
LEMMA SameGrows ==
  ASSUME TypeOK, log' = log, counted' = counted
  PROVE  Grows
BY LogType DEF Grows

\* What was answered before a reader arrives is logged and counted.
LEMMA ReadersArrive ==
  ASSUME AuditInv, ReadersInv, NEW c \in Calls, NEW kind \in CallKinds, Arrive(c, kind)
  PROVE  ReadersInv'
<1>1. /\ TypeOK /\ Pc(c) = "idle" /\ Arrives(c, kind) /\ PhaseOK(c)
      /\ log' = log /\ counted' = counted
  BY PurgeFacts, ArriveSteps DEF Arrive
<1>2. /\ \A d \in Calls \ {c} : call'[d] = call[d]
      /\ call'[c].kind = kind /\ Result(c)' = "None"
      /\ call'[c].pc = "done" => kind.role = "Malformed"
      /\ call'[c].pc \in {"done", "lock", "act"}
      /\ call'[c].earlier \subseteq Answered
  BY <1>1 DEF Arrives, Result, PhaseOK
<1>3. EarlierOK(c)'
  BY <1>1, <1>2 DEF EarlierOK, Answered, Pc
<1>4. CountedOK(c)'
  BY <1>2 DEF CountedOK, Pc, Audited
<1>5. LoadedOK(c)' /\ PrefixOK(c)' /\ CoversOK(c)' /\ FlagsOK(c)'
  BY <1>2 DEF LoadedOK, PrefixOK, CoversOK, FlagsOK
<1>6. ReaderOK(c)'
  BY <1>3, <1>4, <1>5 DEF ReaderOK
<1>7. QED BY <1>1, <1>2, <1>6, OneReader, SameGrows

\* Taking the mutex shows a reader nothing.
LEMMA ReadersLock ==
  ASSUME AuditInv, ReadersInv, NEW c \in Calls, LockMaster(c)
  PROVE  ReadersInv'
<1>1. /\ TypeOK /\ Steps(c, "act", "None") /\ Pc(c) = "lock" /\ log' = log /\ counted' = counted
  BY PurgeFacts, LockSteps DEF LockMaster
<1>2. /\ \A d \in Calls \ {c} : call'[d] = call[d]
      /\ Pc(c)' = "act" /\ Result(c)' = "None" /\ call'[c].earlier = call[c].earlier
  BY <1>1 DEF Steps, Pc, Result
<1>3. EarlierOK(c)'
  <2>1. \A e \in call[c].earlier : Pc(e) = "done" /\ call'[e] = call[e]
    BY <1>1, <1>2, EarlierKept
  <2>2. QED BY <1>2, <2>1 DEF EarlierOK, Pc
<1>4. CountedOK(c)' /\ LoadedOK(c)' /\ PrefixOK(c)' /\ CoversOK(c)' /\ FlagsOK(c)'
  BY <1>2 DEF CountedOK, LoadedOK, PrefixOK, CoversOK, FlagsOK
<1>5. QED BY <1>1, <1>2, <1>3, <1>4, OneReader, SameGrows DEF ReaderOK

\* The reader copies: whoever was answered has an event in the log, and has left
\* its flag up.
LEMMA ReadersAct ==
  ASSUME AuditInv, DrainInv, ReadersInv, NEW c \in Calls, NEW pc, NEW result, Acts(c, pc, result),
         ActsRest(c, result)
  PROVE  ReadersInv'
<1>1. /\ TypeOK /\ Steps(c, pc, result) /\ Pc(c) = "act" /\ log' = log /\ counted' = counted
      /\ pc = IF Op(c) \in AuditedOps THEN "audit" ELSE "done"
      /\ log \in Seq(Events) /\ DOMAIN log = 1..Len(log) /\ Len(log) \in Nat
  BY PurgeFacts DEF Acts
<1>2. /\ \A d \in Calls \ {c} : call'[d] = call[d]
      /\ Pc(c)' = pc /\ Result(c)' = result /\ call'[c].earlier = call[c].earlier
      /\ call'[c].kind = call[c].kind
  BY <1>1 DEF Steps, Pc, Result
<1>3. \A e \in call[c].earlier : e \in Calls \ {c} /\ Pc(e) = "done" /\ call'[e] = call[e]
  BY <1>1, <1>2, EarlierKept
<1>4. \A e \in call[c].earlier : /\ Pc(e)' = Pc(e) /\ Op(e)' = Op(e) /\ Target(e)' = Target(e)
                                 /\ Result(e)' = Result(e) /\ (Audited(e)' <=> Audited(e))
  BY <1>3 DEF Pc, Op, Target, Result, Audited
<1>5. EarlierOK(c)'
  BY <1>2, <1>3, <1>4 DEF EarlierOK
<1>6. CountedOK(c)'
  BY <1>1, <1>2 DEF CountedOK, Audited, Op
<1>7. LoadedOK(c)'
  BY <1>1, <1>2 DEF LoadedOK, Op, AuditedOps, Ops
<1>8. PrefixOK(c)' /\ CoversOK(c)'
  <2>1. CASE Op(c) = "audit_events" /\ result = "Success"
    <3>1. call'[c].view.log = log
      BY <2>1 DEF ActsRest
    <3>2. \A e \in call[c].earlier : Audited(e) => \E i \in 1..Len(log) : log[i].call = e
      BY <1>1, <1>3 DEF AuditInv, AuditedLogged, Written
    <3>3. PrefixOK(c)'
      BY <1>1, <3>1 DEF PrefixOK
    <3>4. CoversOK(c)'
      BY <1>2, <1>4, <3>1, <3>2 DEF CoversOK
    <3>5. QED BY <3>3, <3>4
  <2>2. CASE ~(Op(c) = "audit_events" /\ result = "Success")
    BY <1>2, <2>2 DEF PrefixOK, CoversOK, Op
  <2>3. QED BY <2>1, <2>2
<1>9. FlagsOK(c)'
  <2>1. CASE Op(c) = "nodes" /\ result = "Success"
    <3>1. call'[c].view.draining = draining
      BY <2>1 DEF ActsRest
    <3>2. \A e \in call[c].earlier : Op(e) = "drain" /\ Result(e) = "Success" => draining[Target(e)]
      BY <1>3 DEF DrainInv, DrainsFlagged
    <3>3. QED BY <1>2, <1>4, <3>1, <3>2 DEF FlagsOK
  <2>2. CASE ~(Op(c) = "nodes" /\ result = "Success")
    BY <1>2, <2>2 DEF FlagsOK, Op
  <2>3. QED BY <2>1, <2>2
<1>10. QED BY <1>1, <1>2, <1>5, <1>6, <1>7, <1>8, <1>9, OneReader, SameGrows DEF ReaderOK

\* The log only grows.
LEMMA ReadersAppend ==
  ASSUME AuditInv, ReadersInv, NEW c \in Calls, AppendEvent(c)
  PROVE  ReadersInv'
<1>1. /\ TypeOK /\ PhaseOK(c) /\ Pc(c) = "audit" /\ Steps(c, "count", Result(c)) /\ Keeps(c)
      /\ call'[c].todo = Counters
      /\ counted' = counted /\ log' = Append(log, Event(c)) /\ log \in Seq(Events) /\ Len(log) \in Nat
  BY PurgeFacts, AppendSteps DEF AppendEvent
<1>2. \A d \in Calls \ {c} : call'[d] = call[d]
  BY <1>1 DEF Steps
<1>3. Event(c) \in Events
  BY <1>1, CallType DEF Event, Events, PhaseOK, Result, CallStates
<1>4. Grows
  BY <1>1, <1>3 DEF Grows
<1>5. EarlierOK(c)' /\ PrefixOK(c)' /\ CoversOK(c)' /\ FlagsOK(c)'
  BY <1>1, <1>4, CopiesKept
<1>6. CountedOK(c)' /\ LoadedOK(c)'
  BY <1>1 DEF CountedOK, LoadedOK, Steps, Pc
<1>7. QED BY <1>1, <1>2, <1>4, <1>5, <1>6, OneReader DEF ReaderOK

\* A call leaves record_audit only when it is in every counter.
LEMMA ReadersCount ==
  ASSUME AuditInv, ReadersInv, NEW c \in Calls, NEW k \in Counters, Count(c, k)
  PROVE  ReadersInv'
<1>1. /\ TypeOK /\ PhaseOK(c) /\ Pc(c) = "count" /\ k \in call[c].todo /\ Keeps(c) /\ log' = log
      /\ counted' = [counted EXCEPT ![k] = @ \cup {c}]
      /\ counted \in [Counters -> SUBSET Calls] /\ Len(log) \in Nat
  BY PurgeFacts, CountSteps DEF Count, AfterCount, TypeOK
<1>2. PICK pc : /\ Steps(c, pc, Result(c))
                /\ \/ pc = "count" /\ call'[c].todo = call[c].todo \ {k}
                   \/ pc = "load" /\ call'[c].todo = Counters /\ call[c].todo = {k}
                   \/ pc = "done" /\ call[c].todo = {k} /\ ~(Op(c) = "metrics" /\ Permitted(c))
  BY <1>1, CountSteps
<1>3. \A d \in Calls \ {c} : call'[d] = call[d]
  BY <1>2 DEF Steps
<1>4. c \in counted'[k] /\ \A j \in Counters : counted[j] \subseteq counted'[j]
  BY <1>1
<1>5. Grows
  BY <1>1, <1>4 DEF Grows
<1>6. EarlierOK(c)' /\ PrefixOK(c)' /\ CoversOK(c)' /\ FlagsOK(c)'
  BY <1>1, <1>2, <1>5, CopiesKept
<1>7. CountedOK(c)'
  <2>1. CountedOK(c)
    BY DEF ReadersInv, ReaderOK
  <2>2. \A j \in Counters : Audited(c) /\ j \notin call[c].todo \ {k} => c \in counted'[j]
    BY <1>1, <1>4, <2>1 DEF CountedOK
  <2>3. Audited(c)' <=> Audited(c)
    BY <1>2 DEF Steps, Audited, Op
  <2>4. QED BY <1>2, <2>2, <2>3 DEF CountedOK, Steps, Pc
<1>8. LoadedOK(c)'
  <2>1. Result(c) = "Success" => Permitted(c)
    BY <1>1 DEF PhaseOK
  <2>2. QED BY <1>2, <2>1 DEF LoadedOK, Steps, Pc, Op, Result
<1>9. QED BY <1>1, <1>3, <1>5, <1>6, <1>7, <1>8, OneReader DEF ReaderOK

\* A loaded counter has every call that was answered before.
LEMMA ReadersLoad ==
  ASSUME AuditInv, ReadersInv, NEW c \in Calls, NEW k \in Counters, Load(c, k)
  PROVE  ReadersInv'
<1>1. /\ TypeOK /\ PhaseOK(c) /\ Pc(c) = "load" /\ k \in call[c].todo /\ Keeps(c)
      /\ (k = "action" => call[c].todo = {k})
      /\ call'[c].todo = call[c].todo \ {k}
      /\ call'[c].view.counted = [call[c].view.counted EXCEPT ![k] = counted[k]]
      /\ log' = log /\ counted' = counted
  BY PurgeFacts, LoadSteps DEF Load
<1>2. PICK pc : Steps(c, pc, Result(c)) /\ pc = IF k = "action" THEN "done" ELSE "load"
  BY <1>1, LoadSteps
<1>3. \A d \in Calls \ {c} : call'[d] = call[d]
  BY <1>2 DEF Steps
<1>4. Grows
  BY <1>1, SameGrows
<1>5. EarlierOK(c)' /\ PrefixOK(c)' /\ CoversOK(c)' /\ FlagsOK(c)'
  BY <1>1, <1>2, <1>4, CopiesKept
<1>6. Audited(c) /\ CountedOK(c) /\ LoadedOK(c) /\ (Audited(c)' <=> Audited(c))
  BY <1>1, <1>2 DEF PhaseOK, ReadersInv, ReaderOK, Steps, Audited, Op
<1>7. CountedOK(c)'
  BY <1>1, <1>6 DEF CountedOK
<1>8. LoadedOK(c)'
  <2>1. \A e \in call[c].earlier : e \in Calls \ {c} /\ Pc(e) = "done" /\ call'[e] = call[e]
    BY <1>1, <1>3, EarlierKept
  <2>2. \A e \in call[c].earlier : Audited(e)' <=> Audited(e)
    BY <2>1 DEF Audited, Op
  <2>3. c \in counted[k] /\ \A e \in call[c].earlier : Audited(e) => e \in counted[k]
    BY <1>1, <1>6, <2>1 DEF CountedOK, ReadersInv, ReaderOK
  <2>4. call[c].view.counted \in [Counters -> SUBSET Calls]
    BY <1>1, CallType DEF CallStates, Views
  <2>5. call'[c].view.counted[k] = counted[k]
        /\ \A j \in Counters \ {k} : call'[c].view.counted[j] = call[c].view.counted[j]
    BY <1>1, <2>4
  <2>6. ASSUME NEW j \in Counters, Op(c) = "metrics", Result(c) = "Success", j \notin call[c].todo \ {k}
        PROVE  /\ c \in call'[c].view.counted[j]
               /\ \A e \in call[c].earlier : Audited(e) => e \in call'[c].view.counted[j]
    BY <1>1, <1>6, <2>3, <2>5, <2>6 DEF LoadedOK
  <2>7. Op(c)' = Op(c) /\ Result(c)' = Result(c) /\ call'[c].earlier = call[c].earlier /\ Pc(c)' = pc
    BY <1>2 DEF Steps, Op, Result, Pc
  <2>8. \A j \in Counters : pc = "done" \/ (pc = "load" /\ j \notin call'[c].todo) => j \notin call[c].todo \ {k}
    BY <1>1, <1>2
  <2>9. QED BY <2>2, <2>6, <2>7, <2>8 DEF LoadedOK
<1>9. QED BY <1>1, <1>3, <1>4, <1>5, <1>7, <1>8, OneReader DEF ReaderOK

\* The invariant of readers.
LEMMA ReadersInvariant == Spec => []ReadersInv
<1>1. Init => ReadersInv
  BY DEF Init, ReadersInv, ReaderOK, EarlierOK, CountedOK, LoadedOK, PrefixOK, CoversOK, FlagsOK, Pc,
     Result, IdleCall
<1>2. AuditInv /\ DrainInv /\ ReadersInv /\ [Next]_vars => ReadersInv'
  <2> SUFFICES ASSUME AuditInv, DrainInv, ReadersInv, [Next]_vars PROVE ReadersInv'
    OBVIOUS
  <2>1. CASE UNCHANGED vars
    BY <2>1 DEF vars, ReadersInv, ReaderOK, EarlierOK, CountedOK, LoadedOK, PrefixOK, CoversOK, FlagsOK,
         Op, Pc, Result, Target, Audited
  <2>2. TypeOK
    BY DEF AuditInv
  <2>3. QED
    BY <2>1, <2>2, NextCases, ReadersArrive, ReadersLock, ReadersAct, ReadersAppend, ReadersCount,
       ReadersLoad
<1>3. QED BY <1>1, <1>2, AuditInvariant, DrainInvariant, PTL DEF Spec

\* Whatever a reader of the log, the counters or the nodes is answered, nothing is
\* missing that had been answered before it called: ViewsCoverEarlier.
THEOREM ReadersSeeEarlier == Spec => []ViewsCoverEarlier
<1>1. AuditInv /\ ReadersInv => ViewsCoverEarlier
  <2> SUFFICES ASSUME AuditInv, ReadersInv, NEW c \in Calls, At(c, "done"), call[c].result = "Success"
               PROVE  LET earlier == {d \in call[c].earlier : Audited(d)}
                          view == call[c].view
                      IN  /\ Op(c) = "audit_events" =>
                               /\ view.log = SubSeq(log, 1, Len(view.log))
                               /\ earlier \subseteq {view.log[i].call : i \in DOMAIN view.log}
                          /\ Op(c) = "metrics" =>
                               \A k \in Counters : earlier \cup {c} \subseteq view.counted[k]
                          /\ Op(c) = "nodes" =>
                               \A d \in call[c].earlier : Op(d) = "drain" /\ call[d].result = "Success" =>
                                 view.draining[call[d].kind.target]
    BY DEF ViewsCoverEarlier
  <2> DEFINE copy == call[c].view.log
  <2>1. /\ ReaderOK(c) /\ Pc(c) = "done" /\ Result(c) = "Success"
        /\ copy \in Seq(Events) /\ Len(copy) \in Nat /\ DOMAIN copy = 1..Len(copy)
        /\ log \in Seq(Events) /\ Len(log) \in Nat /\ DOMAIN log = 1..Len(log)
    BY PurgeFacts, CallType DEF ReadersInv, At, Pc, Result, CallStates, Views
  <2>2. ASSUME Op(c) = "audit_events"
        PROVE  /\ copy = SubSeq(log, 1, Len(copy))
               /\ {d \in call[c].earlier : Audited(d)} \subseteq {copy[i].call : i \in DOMAIN copy}
    <3>1. Len(copy) <= Len(log) /\ \A i \in 1..Len(copy) : copy[i] = log[i]
      BY <2>1, <2>2 DEF ReaderOK, PrefixOK
    <3>2. \A d \in call[c].earlier : Audited(d) => \E i \in 1..Len(copy) : copy[i].call = d
      BY <2>1, <2>2 DEF ReaderOK, CoversOK
    <3> HIDE DEF copy
    <3>3. copy = SubSeq(log, 1, Len(copy))
      BY <2>1, <3>1
    <3>4. QED BY <2>1, <3>2, <3>3
  <2>3. Op(c) = "metrics" =>
          \A k \in Counters : {d \in call[c].earlier : Audited(d)} \cup {c} \subseteq call[c].view.counted[k]
    BY <2>1 DEF ReaderOK, LoadedOK
  <2>4. Op(c) = "nodes" =>
          \A d \in call[c].earlier : Op(d) = "drain" /\ call[d].result = "Success" =>
            call[c].view.draining[call[d].kind.target]
    BY <2>1 DEF ReaderOK, FlagsOK, Result, Target
  <2>5. QED BY <2>2, <2>3, <2>4
<1>2. QED BY <1>1, AuditInvariant, ReadersInvariant, PTL

=============================================================================
