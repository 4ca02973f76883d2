----------------------------- MODULE MCStoreNode -----------------------------
(* Chunk layouts for model checking StoreNode. *)
EXTENDS StoreNode, TLC

CONSTANTS a, b

Chunk(id, offset, len) == [id |-> id, offset |-> offset, len |-> len]

\* What one Master hands out: disjoint places, two reservations of one object.
DisjointChunks == {Chunk(a, 0, 1), Chunk(a, 1, 1), Chunk(b, 2, 1)}

\* What two Masters, or one before and after a restart, hand out.
OverlappingChunks == {Chunk(a, 0, 2), Chunk(b, 0, 2), Chunk(b, 1, 1)}

OneMaster == [chunks |-> DisjointChunks, oneMaster |-> TRUE, direct |-> {}, upTo |-> 0,
              handlers |-> 4, crashes |-> 2, drops |-> 0]
Impatient == [OneMaster EXCEPT !.chunks = {c \in @ : c.id = a}, !.crashes = 1, !.drops = 2]
Anyone == [chunks |-> OverlappingChunks, oneMaster |-> FALSE, direct |-> {1, 2}, upTo |-> 2,
           handlers |-> 3, crashes |-> 1, drops |-> 1]
MCEnvironments == {OneMaster, Impatient, Anyone}

Symmetry == Permutations(Tasks)

=============================================================================
