------------------------------ MODULE Custody ------------------------------
(***************************************************************************)
(* What the session promises of an item, whatever machines and calls there *)
(* are: it is made once, taken once by a player with empty hands, and then *)
(* delivered once by that player or stranded for good.                     *)
(***************************************************************************)
CONSTANTS
    Players,
    Items

VARIABLE where      \* [item -> its place and who holds it]

Place(at) == [at |-> at, by |-> {}]
Unmade    == Place("unmade")
Free      == Place("free")
Delivered == Place("delivered")
Stranded  == Place("stranded")
Held(p)   == [at |-> "held", by |-> {p}]

Init == where = [i \in Items |-> Unmade]

Moves(i, from, to) ==
    /\ where[i] = from
    /\ where' = [where EXCEPT ![i] = to]

Make(i) == Moves(i, Unmade, Free)

Take(p, i) ==
    /\ \A j \in Items : where[j] # Held(p)
    /\ Moves(i, Free, Held(p))

Deliver(p, i) == Moves(i, Held(p), Delivered)

Strand(p, i) == Moves(i, Held(p), Stranded)

Next ==
    \E i \in Items :
        \/ Make(i)
        \/ \E p \in Players : Take(p, i) \/ Deliver(p, i) \/ Strand(p, i)

Spec == Init /\ [][Next]_where
=============================================================================
