----------------------------- MODULE Singleflight -----------------------------
(***************************************************************************)
(* Miss coalescing in one gateway process (crates/gateway/singleflight.rs):*)
(* the map of in-flight keys behind a mutex, the leader that owns an entry,*)
(* the watch channel the leader publishes on, and the waiters subscribed   *)
(* to it. A request is an async task: it can be dropped at any await, and  *)
(* the steps of different requests interleave.                             *)
(*                                                                         *)
(* A channel is created by a leader and lives as long as its entry, so the *)
(* leader names it. SfKeys stands for (tenant, cache key, write mode).     *)
(***************************************************************************)
EXTENDS Integers, FiniteSets

CONSTANTS
  Requests,     \* request tasks
  SfKeys,       \* SingleflightKey values
  Results,      \* what a leader may publish: responses and error messages
  MaxWaiters,   \* max_waiters_per_key
  Nobody,       \* no leader
  Dropped       \* the waiter's error "leader dropped before publishing result"

ASSUME MaxWaitersAssumption == MaxWaiters \in Nat
ASSUME NobodyAssumption == Nobody \notin Requests
ASSUME DroppedAssumption == Dropped \notin Results /\ Nobody \notin Results \cup {Dropped}

VARIABLES
  inFlight,   \* the map: leader and waiter count per key
  role,       \* what singleflight made of each request
  sfKey,      \* the key a request began with
  completed,  \* SingleflightLeader.completed
  channel,    \* per leader: closed or not, and the value sent, Nobody for None
  source,     \* the leader whose channel a waiter holds
  result      \* what a finished leader published or a finished waiter received

sfVars == <<inFlight, role, sfKey, completed, channel, source, result>>

Roles == {"idle", "leading", "publishing", "waiting", "solo", "done", "cancelled"}

NoEntry == [leader |-> Nobody, waiters |-> 0]

TypeOK ==
  /\ inFlight \in [SfKeys -> [leader : Requests \cup {Nobody}, waiters : Nat]]
  /\ role \in [Requests -> Roles]
  /\ sfKey \in [Requests -> SfKeys]
  /\ completed \in [Requests -> BOOLEAN]
  /\ channel \in [Requests -> [open : BOOLEAN, value : Results \cup {Nobody}]]
  /\ source \in [Requests -> Requests \cup {Nobody}]
  /\ result \in [Requests -> Results \cup {Nobody, Dropped}]

Init ==
  /\ inFlight = [k \in SfKeys |-> NoEntry]
  /\ role = [r \in Requests |-> "idle"]
  /\ sfKey \in [Requests -> SfKeys]
  /\ completed = [r \in Requests |-> FALSE]
  /\ channel = [r \in Requests |-> [open |-> FALSE, value |-> Nobody]]
  /\ source = [r \in Requests |-> Nobody]
  /\ result = [r \in Requests |-> Nobody]

(***************************************************************************)
(* begin(): one of the three outcomes of SingleflightStart.                *)
(***************************************************************************)
BeginLeader(r) ==
  /\ role[r] = "idle"
  /\ inFlight[sfKey[r]].leader = Nobody
  /\ inFlight' = [inFlight EXCEPT ![sfKey[r]] = [leader |-> r, waiters |-> 0]]
  /\ channel' = [channel EXCEPT ![r] = [open |-> TRUE, value |-> Nobody]]
  /\ role' = [role EXCEPT ![r] = "leading"]
  /\ UNCHANGED <<sfKey, completed, source, result>>

\* Mutant: one waiter too many.
BeginWaiter_OffByOne(r) ==
  /\ role[r] = "idle"
  /\ inFlight[sfKey[r]].leader # Nobody
  /\ inFlight[sfKey[r]].waiters <= MaxWaiters
  /\ inFlight' = [inFlight EXCEPT ![sfKey[r]].waiters = @ + 1]
  /\ source' = [source EXCEPT ![r] = inFlight[sfKey[r]].leader]
  /\ role' = [role EXCEPT ![r] = "waiting"]
  /\ UNCHANGED <<sfKey, completed, channel, result>>

BeginWaiter(r) ==
  /\ role[r] = "idle"
  /\ inFlight[sfKey[r]].leader # Nobody
  /\ inFlight[sfKey[r]].waiters < MaxWaiters
  /\ inFlight' = [inFlight EXCEPT ![sfKey[r]].waiters = @ + 1]
  /\ source' = [source EXCEPT ![r] = inFlight[sfKey[r]].leader]
  /\ role' = [role EXCEPT ![r] = "waiting"]
  /\ UNCHANGED <<sfKey, completed, channel, result>>

BeginOverCapacity(r) ==
  /\ role[r] = "idle"
  /\ inFlight[sfKey[r]].leader # Nobody
  /\ inFlight[sfKey[r]].waiters >= MaxWaiters
  /\ role' = [role EXCEPT ![r] = "solo"]
  /\ UNCHANGED <<inFlight, sfKey, completed, channel, source, result>>

\* Removing an entry drops its Sender unless the caller keeps it.
RemoveEntry(k) == inFlight' = [inFlight EXCEPT ![k] = NoEntry]

(***************************************************************************)
(* publish(): the entry leaves the map under the lock; the result is sent  *)
(* after the lock is released, and the leader and the sender are dropped   *)
(* when publish returns. Other tasks run in between. The leader's call is  *)
(* over, with the result it publishes, when publish begins.                *)
(***************************************************************************)
\* Mutant: completed is not set, so the drop at the end removes an entry again.
PublishRemove_NotCompleted(r, res) ==
  /\ role[r] = "leading"
  /\ RemoveEntry(sfKey[r])
  /\ result' = [result EXCEPT ![r] = res]
  /\ role' = [role EXCEPT ![r] = "publishing"]
  /\ UNCHANGED <<sfKey, completed, channel, source>>

PublishRemove(r, res) ==
  /\ role[r] = "leading"
  /\ RemoveEntry(sfKey[r])
  /\ completed' = [completed EXCEPT ![r] = TRUE]
  /\ result' = [result EXCEPT ![r] = res]
  /\ role' = [role EXCEPT ![r] = "publishing"]
  /\ UNCHANGED <<sfKey, channel, source>>

\* Mutant: the sender is dropped before the value is sent.
PublishSend_DropsFirst(r) ==
  /\ role[r] = "publishing"
  /\ channel' = [channel EXCEPT ![r].open = FALSE]
  /\ role' = [role EXCEPT ![r] = "done"]
  /\ UNCHANGED <<inFlight, sfKey, completed, source, result>>

PublishSend(r) ==
  /\ role[r] = "publishing"
  /\ channel' = [channel EXCEPT ![r] = [open |-> FALSE, value |-> result[r]]]
  /\ IF completed[r] THEN UNCHANGED inFlight ELSE RemoveEntry(sfKey[r])
  /\ role' = [role EXCEPT ![r] = "done"]
  /\ UNCHANGED <<sfKey, completed, source, result>>

\* Mutant: a clone of the sender stays alive.
CancelLeader_LeaksSender(r) ==
  /\ role[r] = "leading"
  /\ IF completed[r] THEN UNCHANGED inFlight ELSE RemoveEntry(sfKey[r])
  /\ role' = [role EXCEPT ![r] = "cancelled"]
  /\ UNCHANGED <<sfKey, completed, channel, source, result>>

\* The leader's task is dropped before it published: Drop for SingleflightLeader.
CancelLeader(r) ==
  /\ role[r] = "leading"
  /\ IF completed[r] THEN UNCHANGED inFlight ELSE RemoveEntry(sfKey[r])
  /\ channel' = [channel EXCEPT ![r].open = FALSE]
  /\ role' = [role EXCEPT ![r] = "cancelled"]
  /\ UNCHANGED <<sfKey, completed, source, result>>

\* A waiter's task is dropped: the waiter count of the entry stays as it is.
CancelWaiter(r) ==
  /\ role[r] = "waiting"
  /\ role' = [role EXCEPT ![r] = "cancelled"]
  /\ UNCHANGED <<inFlight, sfKey, completed, channel, source, result>>

\* wait(): a value already sent is seen even if the channel is closed by now.
WaitReceive(r) ==
  /\ role[r] = "waiting"
  /\ channel[source[r]].value # Nobody
  /\ result' = [result EXCEPT ![r] = channel[source[r]].value]
  /\ role' = [role EXCEPT ![r] = "done"]
  /\ UNCHANGED <<inFlight, sfKey, completed, channel, source>>

WaitClosed(r) ==
  /\ role[r] = "waiting"
  /\ channel[source[r]].value = Nobody
  /\ ~channel[source[r]].open
  /\ result' = [result EXCEPT ![r] = Dropped]
  /\ role' = [role EXCEPT ![r] = "done"]
  /\ UNCHANGED <<inFlight, sfKey, completed, channel, source>>

\* A request over capacity makes the call on its own and shares nothing.
SoloFinish(r, res) ==
  /\ role[r] = "solo"
  /\ result' = [result EXCEPT ![r] = res]
  /\ role' = [role EXCEPT ![r] = "done"]
  /\ UNCHANGED <<inFlight, sfKey, completed, channel, source>>

Begin(r) == BeginLeader(r) \/ BeginWaiter(r) \/ BeginOverCapacity(r)

Next ==
  \E r \in Requests :
    \/ BeginLeader(r)
    \/ BeginWaiter(r)
    \/ BeginOverCapacity(r)
    \/ \E res \in Results : PublishRemove(r, res)
    \/ PublishSend(r)
    \/ CancelLeader(r)
    \/ CancelWaiter(r)
    \/ WaitReceive(r)
    \/ WaitClosed(r)
    \/ \E res \in Results : SoloFinish(r, res)

Spec == Init /\ [][Next]_sfVars

\* The vendor call of a leader ends (the vendor client has a timeout), publish
\* does not await, and the runtime polls a task that was woken.
Fairness ==
  \A r \in Requests :
    /\ WF_sfVars(\E res \in Results : PublishRemove(r, res))
    /\ WF_sfVars(PublishSend(r))
    /\ WF_sfVars(WaitReceive(r))
    /\ WF_sfVars(WaitClosed(r))

FairSpec == Spec /\ Fairness

-----------------------------------------------------------------------------
(* Properties. *)

\* An entry of the map always belongs to a request that is still working on its
\* key, and every working leader is in the map: no entry is orphaned by a drop,
\* and no drop or late publish takes the entry of a newer leader away.
EntryHasLeader ==
  /\ \A k \in SfKeys : inFlight[k].leader # Nobody =>
       role[inFlight[k].leader] = "leading" /\ sfKey[inFlight[k].leader] = k
  /\ \A r \in Requests : role[r] = "leading" => inFlight[sfKey[r]].leader = r

\* A waiter is subscribed to a leader of its own key that is working, about to
\* send, or has closed the channel: it never waits on a channel nobody serves.
WaitersServed ==
  \A r \in Requests : role[r] = "waiting" =>
    /\ source[r] \in Requests
    /\ sfKey[source[r]] = sfKey[r]
    /\ role[source[r]] \in {"leading", "publishing"} <=> channel[source[r]].open

\* The waiter cap holds for the receivers really subscribed, not only for the
\* counter, which cancelled waiters leave too high.
WaiterCap ==
  \A s \in Requests :
    Cardinality({r \in Requests : role[r] = "waiting" /\ source[r] = s}) <= MaxWaiters

\* What a waiter returns is what the leader of its key published; the error
\* "leader dropped" is returned only when that leader was cancelled.
WaitersAgree ==
  \A r \in Requests : role[r] = "done" /\ source[r] # Nobody =>
    /\ sfKey[source[r]] = sfKey[r]
    /\ result[r] = Dropped => role[source[r]] = "cancelled"
    /\ result[r] # Dropped => result[r] = result[source[r]] /\ role[source[r]] = "done"

\* No waiter waits forever: the leader publishes, or drops its channel.
WaitersFinish ==
  \A r \in Requests : role[r] = "waiting" ~> role[r] \in {"done", "cancelled"}

=============================================================================
