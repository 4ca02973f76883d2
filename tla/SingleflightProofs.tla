--------------------------- MODULE SingleflightProofs ---------------------------
(***************************************************************************)
(* TLAPS proofs about Singleflight, for any number of requests and keys.   *)
(*                                                                         *)
(* EntryHasLeader is not inductive alone: a drop must be known not to take *)
(* another leader's entry, which needs the completed flag, and what a      *)
(* waiter sees depends on the channel of a leader that may be long gone.   *)
(* SfInv ties role, flag, channel and subscription together.               *)
(***************************************************************************)
EXTENDS Singleflight, FiniteSetTheorems, TLAPS

\* The flag and the open end of the channel follow the leader's progress.
LeaderState ==
  \A r \in Requests :
    /\ role[r] \in {"idle", "leading"} => ~completed[r]
    /\ role[r] = "publishing" => completed[r] /\ result[r] \in Results
    /\ role[r] \in {"leading", "publishing"} <=> channel[r].open
    /\ role[r] # "done" => channel[r].value = Nobody
    /\ role[r] \in {"idle", "leading", "publishing", "solo"} => source[r] = Nobody

\* Whoever was subscribed to is or was a leader of that key, and if it is done
\* the value it published is in the channel.
SourceState ==
  \A r \in Requests :
    /\ role[r] = "waiting" => source[r] # Nobody
    /\ source[r] # Nobody =>
         /\ sfKey[source[r]] = sfKey[r]
         /\ source[source[r]] = Nobody
         /\ role[source[r]] \in {"leading", "publishing", "done", "cancelled"}
         /\ role[source[r]] = "done" =>
              channel[source[r]].value = result[source[r]] /\ result[source[r]] \in Results

SfInv ==
  /\ TypeOK
  /\ EntryHasLeader
  /\ LeaderState
  /\ SourceState
  /\ WaitersAgree

\* The initial map is empty and every request idle.
LEMMA SfInit == Init => SfInv
  BY NobodyAssumption, DroppedAssumption
  DEF Init, SfInv, TypeOK, EntryHasLeader, LeaderState, SourceState, WaitersAgree,
      Roles, NoEntry

\* A new entry, with a fresh channel nobody subscribed to before.
LEMMA BeginLeaderStep ==
  ASSUME SfInv, NEW r \in Requests, BeginLeader(r)
  PROVE  SfInv'
<1> USE NobodyAssumption, DroppedAssumption
<1>1. TypeOK'
  BY DEF SfInv, TypeOK, BeginLeader, Roles
<1>2. EntryHasLeader'
  BY DEF SfInv, TypeOK, BeginLeader, EntryHasLeader
<1>3. LeaderState'
  BY DEF SfInv, TypeOK, BeginLeader, LeaderState, EntryHasLeader
<1>4. SourceState'
  BY DEF SfInv, TypeOK, BeginLeader, SourceState, LeaderState
<1>5. WaitersAgree'
  BY DEF SfInv, TypeOK, BeginLeader, WaitersAgree, LeaderState, SourceState
<1> QED
  BY <1>1, <1>2, <1>3, <1>4, <1>5 DEF SfInv

\* A new waiter subscribes to the leader that is in the map now.
LEMMA BeginWaiterStep ==
  ASSUME SfInv, NEW r \in Requests, BeginWaiter(r)
  PROVE  SfInv'
<1> USE NobodyAssumption, DroppedAssumption
<1>1. TypeOK'
  BY DEF SfInv, TypeOK, BeginWaiter, Roles
<1>2. EntryHasLeader'
  BY DEF SfInv, TypeOK, BeginWaiter, EntryHasLeader
<1>3. LeaderState'
  BY DEF SfInv, TypeOK, BeginWaiter, LeaderState, EntryHasLeader
<1>4. SourceState'
  BY DEF SfInv, TypeOK, BeginWaiter, SourceState, LeaderState, EntryHasLeader
<1>5. WaitersAgree'
  BY DEF SfInv, TypeOK, BeginWaiter, WaitersAgree, LeaderState, SourceState
<1> QED
  BY <1>1, <1>2, <1>3, <1>4, <1>5 DEF SfInv

\* A request over the cap touches neither the map nor a channel.
LEMMA BeginOverCapacityStep ==
  ASSUME SfInv, NEW r \in Requests, BeginOverCapacity(r)
  PROVE  SfInv'
<1> USE NobodyAssumption, DroppedAssumption
<1>1. TypeOK'
  BY DEF SfInv, TypeOK, BeginOverCapacity, Roles
<1>2. EntryHasLeader'
  BY DEF SfInv, TypeOK, BeginOverCapacity, EntryHasLeader
<1>3. LeaderState'
  BY DEF SfInv, TypeOK, BeginOverCapacity, LeaderState, EntryHasLeader
<1>4. SourceState'
  BY DEF SfInv, TypeOK, BeginOverCapacity, SourceState, LeaderState
<1>5. WaitersAgree'
  BY DEF SfInv, TypeOK, BeginOverCapacity, WaitersAgree, LeaderState, SourceState
<1> QED
  BY <1>1, <1>2, <1>3, <1>4, <1>5 DEF SfInv

\* The publishing leader takes its own entry out of the map.
LEMMA PublishRemoveStep ==
  ASSUME SfInv, NEW r \in Requests, NEW res \in Results, PublishRemove(r, res)
  PROVE  SfInv'
<1> USE NobodyAssumption, DroppedAssumption
<1>1. TypeOK'
  BY DEF SfInv, TypeOK, PublishRemove, RemoveEntry, NoEntry, Roles
<1>2. EntryHasLeader'
  BY DEF SfInv, TypeOK, PublishRemove, RemoveEntry, NoEntry, EntryHasLeader
<1>3. LeaderState'
  BY DEF SfInv, TypeOK, PublishRemove, RemoveEntry, NoEntry, LeaderState, EntryHasLeader
<1>4. SourceState'
  BY DEF SfInv, TypeOK, PublishRemove, RemoveEntry, NoEntry, SourceState, LeaderState
<1>5. WaitersAgree'
  BY DEF SfInv, TypeOK, PublishRemove, RemoveEntry, NoEntry, WaitersAgree, LeaderState, SourceState
<1> QED
  BY <1>1, <1>2, <1>3, <1>4, <1>5 DEF SfInv

\* The value is sent; completed keeps the drop from touching the map again.
LEMMA PublishSendStep ==
  ASSUME SfInv, NEW r \in Requests, PublishSend(r)
  PROVE  SfInv'
<1> USE NobodyAssumption, DroppedAssumption
<1>1. TypeOK'
  BY DEF SfInv, TypeOK, PublishSend, RemoveEntry, NoEntry, Roles, LeaderState
<1>2. EntryHasLeader'
  BY DEF SfInv, TypeOK, PublishSend, RemoveEntry, NoEntry, EntryHasLeader, LeaderState
<1>3. LeaderState'
  BY DEF SfInv, TypeOK, PublishSend, RemoveEntry, NoEntry, LeaderState, EntryHasLeader
<1>4. SourceState'
  BY DEF SfInv, TypeOK, PublishSend, RemoveEntry, NoEntry, SourceState, LeaderState
<1>5. WaitersAgree'
  BY DEF SfInv, TypeOK, PublishSend, RemoveEntry, NoEntry, WaitersAgree, LeaderState, SourceState
<1> QED
  BY <1>1, <1>2, <1>3, <1>4, <1>5 DEF SfInv

\* A dropped leader removes its own entry and closes its channel.
LEMMA CancelLeaderStep ==
  ASSUME SfInv, NEW r \in Requests, CancelLeader(r)
  PROVE  SfInv'
<1> USE NobodyAssumption, DroppedAssumption
<1>1. TypeOK'
  <2>1. channel' \in [Requests -> [open : BOOLEAN, value : Results \cup {Nobody}]]
    <3>1. channel[r] \in [open : BOOLEAN, value : Results \cup {Nobody}]
      BY DEF SfInv, TypeOK
    <3>2. [channel[r] EXCEPT !.open = FALSE] \in [open : BOOLEAN, value : Results \cup {Nobody}]
      BY <3>1
    <3>3. channel' = [channel EXCEPT ![r] = [channel[r] EXCEPT !.open = FALSE]]
      BY DEF CancelLeader
    <3>4. QED BY <3>2, <3>3 DEF SfInv, TypeOK
  <2>2. inFlight' \in [SfKeys -> [leader : Requests \cup {Nobody}, waiters : Nat]]
    <3>1. NoEntry \in [leader : Requests \cup {Nobody}, waiters : Nat]
      BY DEF NoEntry
    <3>2. inFlight' = inFlight \/ inFlight' = [inFlight EXCEPT ![sfKey[r]] = NoEntry]
      BY DEF CancelLeader, RemoveEntry
    <3>3. inFlight \in [SfKeys -> [leader : Requests \cup {Nobody}, waiters : Nat]]
      BY DEF SfInv, TypeOK
    <3> QED
      BY ONLY <3>1, <3>2, <3>3
  <2> QED
    BY <2>1, <2>2 DEF SfInv, TypeOK, CancelLeader, Roles
<1>2. EntryHasLeader'
  <2>1. inFlight' = [inFlight EXCEPT ![sfKey[r]] = [leader |-> Nobody, waiters |-> 0]]
    BY DEF SfInv, CancelLeader, RemoveEntry, NoEntry, LeaderState
  <2>2. /\ sfKey' = sfKey
        /\ role' = [role EXCEPT ![r] = "cancelled"]
    BY DEF CancelLeader
  <2> QED
    BY <2>1, <2>2 DEF SfInv, TypeOK, CancelLeader, EntryHasLeader
<1>3. LeaderState'
  BY DEF SfInv, TypeOK, CancelLeader, RemoveEntry, NoEntry, LeaderState, EntryHasLeader
<1>4. SourceState'
  BY DEF SfInv, TypeOK, CancelLeader, RemoveEntry, NoEntry, SourceState, LeaderState
<1>5. WaitersAgree'
  BY DEF SfInv, TypeOK, CancelLeader, RemoveEntry, NoEntry, WaitersAgree, LeaderState, SourceState
<1> QED
  BY <1>1, <1>2, <1>3, <1>4, <1>5 DEF SfInv

\* A dropped waiter leaves the map alone.
LEMMA CancelWaiterStep ==
  ASSUME SfInv, NEW r \in Requests, CancelWaiter(r)
  PROVE  SfInv'
<1> USE NobodyAssumption, DroppedAssumption
<1>1. TypeOK'
  BY DEF SfInv, TypeOK, CancelWaiter, Roles
<1>2. EntryHasLeader'
  BY DEF SfInv, TypeOK, CancelWaiter, EntryHasLeader
<1>3. LeaderState'
  BY DEF SfInv, TypeOK, CancelWaiter, LeaderState, EntryHasLeader
<1>4. SourceState'
  BY DEF SfInv, TypeOK, CancelWaiter, SourceState, LeaderState
<1>5. WaitersAgree'
  BY DEF SfInv, TypeOK, CancelWaiter, WaitersAgree, LeaderState, SourceState
<1> QED
  BY <1>1, <1>2, <1>3, <1>4, <1>5 DEF SfInv

\* A waiter takes the value of a leader that is done.
LEMMA WaitReceiveStep ==
  ASSUME SfInv, NEW r \in Requests, WaitReceive(r)
  PROVE  SfInv'
<1> USE NobodyAssumption, DroppedAssumption
<1>1. TypeOK'
  BY DEF SfInv, TypeOK, WaitReceive, Roles, SourceState
<1>2. EntryHasLeader'
  BY DEF SfInv, TypeOK, WaitReceive, EntryHasLeader
<1>3. LeaderState'
  BY DEF SfInv, TypeOK, WaitReceive, LeaderState, EntryHasLeader
<1>4. SourceState'
  BY DEF SfInv, TypeOK, WaitReceive, SourceState, LeaderState
<1>5. WaitersAgree'
  BY DEF SfInv, TypeOK, WaitReceive, WaitersAgree, LeaderState, SourceState
<1> QED
  BY <1>1, <1>2, <1>3, <1>4, <1>5 DEF SfInv

\* A waiter finds the channel closed and empty only after a cancelled leader.
LEMMA WaitClosedStep ==
  ASSUME SfInv, NEW r \in Requests, WaitClosed(r)
  PROVE  SfInv'
<1> USE NobodyAssumption, DroppedAssumption
<1>1. TypeOK'
  BY DEF SfInv, TypeOK, WaitClosed, Roles, SourceState
<1>2. EntryHasLeader'
  BY DEF SfInv, TypeOK, WaitClosed, EntryHasLeader
<1>3. LeaderState'
  BY DEF SfInv, TypeOK, WaitClosed, LeaderState, EntryHasLeader
<1>4. SourceState'
  BY DEF SfInv, TypeOK, WaitClosed, SourceState, LeaderState
<1>5. WaitersAgree'
  BY DEF SfInv, TypeOK, WaitClosed, WaitersAgree, LeaderState, SourceState
<1> QED
  BY <1>1, <1>2, <1>3, <1>4, <1>5 DEF SfInv

\* A request over the cap finishes alone.
LEMMA SoloFinishStep ==
  ASSUME SfInv, NEW r \in Requests, NEW res \in Results, SoloFinish(r, res)
  PROVE  SfInv'
<1> USE NobodyAssumption, DroppedAssumption
<1>1. TypeOK'
  BY DEF SfInv, TypeOK, SoloFinish, Roles
<1>2. EntryHasLeader'
  BY DEF SfInv, TypeOK, SoloFinish, EntryHasLeader
<1>3. LeaderState'
  BY DEF SfInv, TypeOK, SoloFinish, LeaderState, EntryHasLeader
<1>4. SourceState'
  BY DEF SfInv, TypeOK, SoloFinish, SourceState, LeaderState
<1>5. WaitersAgree'
  BY DEF SfInv, TypeOK, SoloFinish, WaitersAgree, LeaderState, SourceState
<1> QED
  BY <1>1, <1>2, <1>3, <1>4, <1>5 DEF SfInv

\* The invariant is inductive: the lemmas above, one per disjunct of Next.
LEMMA SfStep == SfInv /\ [Next]_sfVars => SfInv'
<1> SUFFICES ASSUME SfInv, [Next]_sfVars PROVE SfInv'
  OBVIOUS
<1>1. CASE UNCHANGED sfVars
  BY <1>1 DEF sfVars, SfInv, TypeOK, EntryHasLeader, LeaderState, SourceState, WaitersAgree
<1>2. CASE Next
  <2>1. ASSUME NEW r \in Requests, BeginLeader(r) PROVE SfInv'
    BY <2>1, BeginLeaderStep
  <2>2. ASSUME NEW r \in Requests, BeginWaiter(r) PROVE SfInv'
    BY <2>2, BeginWaiterStep
  <2>3. ASSUME NEW r \in Requests, BeginOverCapacity(r) PROVE SfInv'
    BY <2>3, BeginOverCapacityStep
  <2>4. ASSUME NEW r \in Requests, NEW res \in Results, PublishRemove(r, res) PROVE SfInv'
    BY <2>4, PublishRemoveStep
  <2>5. ASSUME NEW r \in Requests, PublishSend(r) PROVE SfInv'
    BY <2>5, PublishSendStep
  <2>6. ASSUME NEW r \in Requests, CancelLeader(r) PROVE SfInv'
    BY <2>6, CancelLeaderStep
  <2>7. ASSUME NEW r \in Requests, CancelWaiter(r) PROVE SfInv'
    BY <2>7, CancelWaiterStep
  <2>8. ASSUME NEW r \in Requests, WaitReceive(r) PROVE SfInv'
    BY <2>8, WaitReceiveStep
  <2>9. ASSUME NEW r \in Requests, WaitClosed(r) PROVE SfInv'
    BY <2>9, WaitClosedStep
  <2>10. ASSUME NEW r \in Requests, NEW res \in Results, SoloFinish(r, res) PROVE SfInv'
    BY <2>10, SoloFinishStep
  <2> QED
    BY <1>2, <2>1, <2>2, <2>3, <2>4, <2>5, <2>6, <2>7, <2>8, <2>9, <2>10 DEF Next
<1> QED
  BY <1>1, <1>2

\* Every reachable state of the singleflight map satisfies the invariant.
THEOREM SingleflightInvariant == Spec => []SfInv
  BY SfInit, SfStep, PTL DEF Spec

\* No entry is orphaned and no drop or late publish removes the entry of a
\* newer leader, for any number of requests and keys.
THEOREM SingleflightSafe == Spec => []EntryHasLeader
<1>1. SfInv => EntryHasLeader
  BY DEF SfInv
<1> QED
  BY <1>1, SingleflightInvariant, PTL

\* A waiter always holds the channel of a leader of its key that is still
\* working or about to send, or whose channel is closed.
THEOREM WaitersAlwaysServed == Spec => []WaitersServed
<1>1. SfInv => WaitersServed
  BY DEF SfInv, TypeOK, LeaderState, SourceState, WaitersServed
<1> QED
  BY <1>1, SingleflightInvariant, PTL

\* A waiter returns what the leader of its key published, and reports a
\* dropped leader only when that leader was cancelled.
THEOREM WaitersAlwaysAgree == Spec => []WaitersAgree
<1>1. SfInv => WaitersAgree
  BY DEF SfInv
<1> QED
  BY <1>1, SingleflightInvariant, PTL

-----------------------------------------------------------------------------
(***************************************************************************)
(* The waiter cap. The counter of an entry bounds the receivers subscribed *)
(* to its leader; it is an upper bound only, since a dropped waiter does   *)
(* not count itself out.                                                   *)
(***************************************************************************)
Subscribers(s) == {r \in Requests : role[r] = "waiting" /\ source[r] = s}

CapInv ==
  /\ \A k \in SfKeys : inFlight[k].waiters <= MaxWaiters
  /\ \A s \in Requests :
       /\ IsFiniteSet(Subscribers(s))
       /\ Cardinality(Subscribers(s)) <= MaxWaiters
       /\ role[s] = "leading" => Cardinality(Subscribers(s)) <= inFlight[sfKey[s]].waiters

\* Nobody is subscribed at first.
LEMMA CapInit == Init => CapInv
<1> SUFFICES ASSUME Init PROVE CapInv
  OBVIOUS
<1>1. \A s : Subscribers(s) = {}
  BY DEF Init, Subscribers
<1>2. IsFiniteSet({}) /\ Cardinality({}) = 0
  BY FS_EmptySet
<1> QED
  BY <1>1, <1>2, MaxWaitersAssumption DEF Init, CapInv, NoEntry

\* A step that subscribes nobody, and leaves the entry of every leader that is
\* still working as it was, keeps the cap.
LEMMA CapShrinks ==
  ASSUME SfInv, CapInv,
         \A s \in Requests : Subscribers(s)' \subseteq Subscribers(s),
         \A k \in SfKeys : inFlight'[k].waiters <= MaxWaiters,
         \A s \in Requests : role'[s] = "leading" =>
           role[s] = "leading" /\ inFlight'[sfKey'[s]].waiters = inFlight[sfKey[s]].waiters
  PROVE  CapInv'
<1> SUFFICES ASSUME NEW s \in Requests
             PROVE  /\ IsFiniteSet(Subscribers(s)')
                    /\ Cardinality(Subscribers(s)') <= MaxWaiters
                    /\ role'[s] = "leading" =>
                         Cardinality(Subscribers(s)') <= inFlight'[sfKey'[s]].waiters
  BY DEF CapInv
<1>1. /\ IsFiniteSet(Subscribers(s)')
      /\ Cardinality(Subscribers(s)') <= Cardinality(Subscribers(s))
  BY FS_Subset DEF CapInv
<1>2. Cardinality(Subscribers(s)') \in Nat /\ Cardinality(Subscribers(s)) \in Nat
  BY <1>1, FS_CardinalityType DEF CapInv
<1>3. inFlight[sfKey[s]].waiters \in Nat
  BY DEF SfInv, TypeOK
<1> HIDE DEF Subscribers
<1> QED
  BY <1>1, <1>2, <1>3, MaxWaitersAssumption DEF CapInv

\* A new leader was idle, and nobody is ever subscribed to an idle request.
LEMMA CapBeginLeader ==
  ASSUME SfInv, CapInv, NEW r \in Requests, BeginLeader(r)
  PROVE  CapInv'
<1>1. Subscribers(r) = {}
  BY NobodyAssumption DEF SfInv, SourceState, BeginLeader, Subscribers
<1>2. \A s \in Requests : Subscribers(s)' = Subscribers(s)
  BY DEF SfInv, TypeOK, BeginLeader, Subscribers
<1>3. Cardinality(Subscribers(r)') = 0
  BY <1>1, <1>2, FS_EmptySet
<1>4. \A k \in SfKeys : inFlight'[k].waiters <= MaxWaiters
  BY MaxWaitersAssumption DEF SfInv, TypeOK, CapInv, BeginLeader
<1>5. ASSUME NEW s \in Requests
      PROVE  role'[s] = "leading" => Cardinality(Subscribers(s)') <= inFlight'[sfKey'[s]].waiters
  <2>1. CASE s = r
    BY <2>1, <1>3 DEF SfInv, TypeOK, BeginLeader
  <2>2. CASE s # r
    <3>1. role'[s] = role[s] /\ (role[s] = "leading" => inFlight'[sfKey'[s]] = inFlight[sfKey[s]])
      BY <2>2, NobodyAssumption DEF SfInv, TypeOK, EntryHasLeader, BeginLeader
    <3> QED
      BY <3>1, <1>2 DEF CapInv
  <2> QED
    BY <2>1, <2>2
<1> QED
  BY <1>2, <1>4, <1>5 DEF CapInv

\* A new waiter is counted in the entry it found, below the cap.
LEMMA CapBeginWaiter ==
  ASSUME SfInv, CapInv, NEW r \in Requests, BeginWaiter(r)
  PROVE  CapInv'
<1>l. PICK l \in Requests : l = inFlight[sfKey[r]].leader
  BY DEF SfInv, TypeOK, BeginWaiter
<1>1. /\ role[l] = "leading"
      /\ sfKey[l] = sfKey[r]
      /\ l # r
  BY <1>l, NobodyAssumption DEF SfInv, TypeOK, EntryHasLeader, BeginWaiter
<1>2. Subscribers(l)' = Subscribers(l) \cup {r} /\ r \notin Subscribers(l)
  BY <1>l, <1>1 DEF SfInv, TypeOK, BeginWaiter, Subscribers
<1>3. \A s \in Requests \ {l} : Subscribers(s)' = Subscribers(s)
  BY <1>l, NobodyAssumption DEF SfInv, TypeOK, LeaderState, BeginWaiter, Subscribers
<1>4. /\ IsFiniteSet(Subscribers(l)')
      /\ Cardinality(Subscribers(l)') = Cardinality(Subscribers(l)) + 1
  BY <1>1, <1>2, FS_AddElement DEF CapInv
<1>5. Cardinality(Subscribers(l)) \in Nat
  BY <1>1, FS_CardinalityType DEF CapInv
<1>6. /\ inFlight'[sfKey[r]].waiters = inFlight[sfKey[r]].waiters + 1
      /\ inFlight[sfKey[r]].waiters \in Nat
      /\ inFlight[sfKey[r]].waiters < MaxWaiters
      /\ \A k \in SfKeys \ {sfKey[r]} : inFlight'[k] = inFlight[k]
      /\ sfKey' = sfKey
      /\ sfKey[r] \in SfKeys
      /\ \A s \in Requests : role'[s] = "leading" => role[s] = "leading" /\ sfKey[s] \in SfKeys
  BY DEF SfInv, TypeOK, BeginWaiter
<1>7. \A k \in SfKeys : inFlight'[k].waiters <= MaxWaiters
  BY <1>6, MaxWaitersAssumption DEF CapInv
<1>8. \A s \in Requests : role[s] = "leading" /\ sfKey[s] = sfKey[r] => s = l
  BY <1>l DEF SfInv, EntryHasLeader
<1>9. Cardinality(Subscribers(l)) <= inFlight[sfKey[r]].waiters
  BY <1>1 DEF CapInv
<1>10. ASSUME NEW s \in Requests
       PROVE  /\ IsFiniteSet(Subscribers(s)')
              /\ Cardinality(Subscribers(s)') <= MaxWaiters
              /\ role'[s] = "leading" =>
                   Cardinality(Subscribers(s)') <= inFlight'[sfKey'[s]].waiters
  <2> HIDE DEF Subscribers
  <2>1. CASE s = l
    BY <2>1, <1>1, <1>4, <1>5, <1>6, <1>9, MaxWaitersAssumption
  <2>2. CASE s # l
    <3>1. Subscribers(s)' = Subscribers(s)
      BY <2>2, <1>3
    <3>2. role'[s] = "leading" => role[s] = "leading" /\ inFlight'[sfKey'[s]] = inFlight[sfKey[s]]
      BY <2>2, <1>6, <1>8
    <3> QED
      BY <3>1, <3>2 DEF CapInv
  <2> QED
    BY <2>1, <2>2
<1> QED
  BY <1>7, <1>10 DEF CapInv

\* The two invariants are inductive together.
LEMMA CapStep == SfInv /\ CapInv /\ [Next]_sfVars => CapInv'
<1> SUFFICES ASSUME SfInv, CapInv, [Next]_sfVars PROVE CapInv'
  OBVIOUS
<1>1. CASE UNCHANGED sfVars
  BY <1>1 DEF sfVars, CapInv, Subscribers
<1>2. CASE \E r \in Requests : BeginLeader(r)
  BY <1>2, CapBeginLeader
<1>3. CASE \E r \in Requests : BeginWaiter(r)
  BY <1>3, CapBeginWaiter
<1>4. CASE \E r \in Requests : BeginOverCapacity(r) \/ CancelWaiter(r)
  <2>1. PICK r \in Requests : BeginOverCapacity(r) \/ CancelWaiter(r)
    BY <1>4
  <2>2. \A s \in Requests : Subscribers(s)' \subseteq Subscribers(s)
    BY <2>1 DEF SfInv, TypeOK, Subscribers, BeginOverCapacity, CancelWaiter
  <2>3. /\ inFlight' = inFlight /\ sfKey' = sfKey
        /\ \A s \in Requests : role'[s] = "leading" => role[s] = "leading"
    BY <2>1 DEF SfInv, TypeOK, BeginOverCapacity, CancelWaiter
  <2> QED
    BY <2>2, <2>3, CapShrinks DEF CapInv
<1>5. CASE \E r \in Requests : WaitReceive(r) \/ WaitClosed(r) \/ \E res \in Results : SoloFinish(r, res)
  <2>1. PICK r \in Requests : WaitReceive(r) \/ WaitClosed(r) \/ \E res \in Results : SoloFinish(r, res)
    BY <1>5
  <2>2. /\ inFlight' = inFlight /\ sfKey' = sfKey /\ source' = source
        /\ role' = [role EXCEPT ![r] = "done"]
    BY <2>1 DEF WaitReceive, WaitClosed, SoloFinish
  <2>3. \A s \in Requests : Subscribers(s)' \subseteq Subscribers(s)
    BY <2>2 DEF SfInv, TypeOK, Subscribers
  <2>4. \A s \in Requests : role'[s] = "leading" => role[s] = "leading"
    BY <2>2 DEF SfInv, TypeOK
  <2> QED
    BY <2>2, <2>3, <2>4, CapShrinks DEF CapInv
<1>6. CASE \E r \in Requests : PublishSend(r) \/ CancelLeader(r) \/ \E res \in Results : PublishRemove(r, res)
  <2>1. PICK r \in Requests : PublishSend(r) \/ CancelLeader(r) \/ \E res \in Results : PublishRemove(r, res)
    BY <1>6
  <2>2. /\ sfKey' = sfKey /\ source' = source
        /\ role[r] # "waiting"
        /\ \E x \in {"done", "cancelled", "publishing"} : role' = [role EXCEPT ![r] = x]
    BY <2>1 DEF PublishSend, CancelLeader, PublishRemove
  <2>3. \/ inFlight' = inFlight
        \/ role[r] = "leading" /\ inFlight' = [inFlight EXCEPT ![sfKey[r]] = NoEntry]
    BY <2>1 DEF SfInv, LeaderState, PublishSend, CancelLeader, PublishRemove, RemoveEntry
  <2>4. \A s \in Requests : Subscribers(s)' \subseteq Subscribers(s)
    BY <2>2 DEF SfInv, TypeOK, Subscribers
  <2>5. \A k \in SfKeys : inFlight'[k].waiters <= MaxWaiters
    BY <2>3, MaxWaitersAssumption DEF SfInv, TypeOK, CapInv, NoEntry
  <2>6. \A s \in Requests : role'[s] = "leading" =>
          role[s] = "leading" /\ inFlight'[sfKey'[s]].waiters = inFlight[sfKey[s]].waiters
    <3> SUFFICES ASSUME NEW s \in Requests, role'[s] = "leading"
                 PROVE  role[s] = "leading" /\ inFlight'[sfKey[s]] = inFlight[sfKey[s]]
      BY <2>2
    <3>1. s # r /\ role[s] = "leading"
      BY <2>2 DEF SfInv, TypeOK
    <3>2. role[r] = "leading" => sfKey[s] # sfKey[r]
      BY <3>1 DEF SfInv, EntryHasLeader
    <3> QED
      BY <3>1, <3>2, <2>3 DEF SfInv, TypeOK
  <2> QED
    BY <2>4, <2>5, <2>6, CapShrinks
<1> QED
  BY <1>1, <1>2, <1>3, <1>4, <1>5, <1>6 DEF Next

\* However many requests there are, at most MaxWaiters receivers are subscribed
\* to one leader at any time.
THEOREM WaiterCapHolds == Spec => []WaiterCap
<1>1. CapInv => WaiterCap
  BY DEF CapInv, WaiterCap, Subscribers
<1> QED
  BY <1>1, SfInit, SfStep, CapInit, CapStep, PTL DEF Spec

=============================================================================
