-------------------------------- MODULE Cache --------------------------------
(***************************************************************************)
(* What the gateways, the Master and the Stores promise their clients when *)
(* taken together: a map from ids to immutable responses, and for every    *)
(* request an answer that is its own vendor's, one it found in the map, or *)
(* one shared with a request for the same id. Gateways, reservations,      *)
(* chunks, singleflight and faults are not visible here. CacheFlow is      *)
(* checked to implement this specification.                                *)
(***************************************************************************)
CONSTANTS
  Requests, Ids,
  Bodies,     \* responses: [id, by, ...], by the request the vendor answered
  None,       \* no object, nothing found, no answer yet
  Failed      \* the answer is an error

VARIABLES
  ask,        \* the id each request asks for, None if it was refused
  stored,     \* the response the cache holds for each id
  found,      \* what a request has found in the cache and not yet used
  answer,
  purged      \* an operator has removed an object

vars == <<ask, stored, found, answer, purged>>

Init ==
  /\ ask \in [Requests -> Ids \cup {None}]
  /\ stored = [id \in Ids |-> None]
  /\ found = [r \in Requests |-> None]
  /\ answer = [r \in Requests |-> None]
  /\ purged = FALSE

\* A response enters where none is, on behalf of a request for that id.
Fill(b) ==
  /\ stored[b.id] = None
  /\ ask[b.by] = b.id
  /\ stored' = [stored EXCEPT ![b.id] = b]

Remove(id) == stored' = [stored EXCEPT ![id] = None]

FromVendor(r, b) == b \in Bodies /\ b.by = r /\ b.id = ask[r]

\* What a request finds is what the cache holds at that moment. An operator who
\* removes an object while it is being written can have the commit of one response
\* make the place of another visible: from then on a request that found nothing
\* may come upon a response for its id that the cache no longer holds.
Look(r) ==
  \/ found'[r] \in {None, found[r]}
  \/ ask[r] # None /\ found'[r] \in {stored[ask[r]], stored'[ask[r]]}
  \/ purged /\ found[r] = None /\ \E q \in Requests : ask[q] = ask[r] /\ FromVendor(q, found'[r])

Shared(r, b) == \E q \in Requests : ask[q] = ask[r] /\ FromVendor(q, b) /\ answer[q] = b

\* An answer is given once.
Reply(r) ==
  \/ answer'[r] = answer[r]
  \/ /\ answer[r] = None
     /\ \/ answer'[r] = Failed
        \/ ask[r] # None /\ found[r] # None /\ answer'[r] = found[r]
        \/ ask[r] # None /\ (FromVendor(r, answer'[r]) \/ Shared(r, answer'[r]))

Next ==
  /\ \/ UNCHANGED stored
     \/ \E b \in Bodies : Fill(b)
     \/ \E id \in Ids : Remove(id)
  /\ \A r \in Requests : Look(r) /\ Reply(r)
  /\ DOMAIN found' = Requests /\ DOMAIN answer' = Requests
  /\ purged' \in {purged, TRUE}
  /\ UNCHANGED ask

Spec == Init /\ [][Next]_vars

=============================================================================
