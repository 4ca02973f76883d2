------------------------------ MODULE MCAdminApi ------------------------------
(* Calls for model checking AdminApi. *)
EXTENDS AdminApi, TLC

CONSTANTS t1, k1, n1, n2

MCSeed == <<t1, k1>>

\* Calls are interchangeable.
CallSymmetry == Permutations(Calls)

Kind(op, role, target) == [op |-> op, role |-> role, target |-> target]

\* Every action by someone who may, the writes by someone who may not, a node
\* that is not known, and readers.
MCKinds ==
  {Kind("drain", "Operator", n1), Kind("drain", "Admin", n2), Kind("drain", "Viewer", n1),
   Kind("purge", "Operator", MCSeed), Kind("purge", "Viewer", MCSeed),
   Kind("audit_events", "Viewer", Free), Kind("metrics", "Viewer", Free),
   Kind("fingerprint", "Viewer", Free), Kind("warmup", "Admin", Free),
   Kind("nodes", "Viewer", Free), Kind("nodes", "NoAccess", Free), Kind("purge", "Malformed", MCSeed)}

=============================================================================
