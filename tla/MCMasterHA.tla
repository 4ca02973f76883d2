------------------------------ MODULE MCMasterHA ------------------------------
(* Deployments and clients for model checking MasterHA. *)
EXTENDS MasterHA, TLC

CONSTANTS m1, m2, c1, c2, c3, t1, t2, k1, k2

OneMaster == {m1}
TwoMasters == {m1, m2}

DistinctAddrs == m1 :> "a1" @@ m2 :> "a2"

TwoObjects == c1 :> <<t1, k1>> @@ c2 :> <<t2, k1>>
WritersAndOperator == c1 :> <<t1, k1>> @@ c2 :> <<t1, k2>> @@ c3 :> <<t1, k1>>

Everybody == {{c1, c2}}
TwoWritersOrOperator == {{c1, c2}, {c1, c3}}

=============================================================================
