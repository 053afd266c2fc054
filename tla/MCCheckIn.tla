------------------------------ MODULE MCCheckIn ------------------------------
EXTENDS CheckIn, TLC
CONSTANTS t1, d1, c1, c2

MCParent == (d1 :> t1) @@ (c1 :> d1) @@ (c2 :> d1)

(* The project is empty at first, or holds everything. *)
MCHeld == {{}, Obj}

Same == {p @@ q : p \in Permutations(Version), q \in Permutations(Config)}
=============================================================================
