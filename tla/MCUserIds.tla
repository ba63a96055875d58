------------------------------ MODULE MCUserIds ------------------------------
(* Instances of UserIds for TLC: ids are numbers, and two of three users share *)
(* their deterministic id.                                                    *)
EXTENDS UserIds, TLC

CONSTANTS u1, u2, u3

Ids == 1..3
SharedDeterministic == (u1 :> 1) @@ (u2 :> 1) @@ (u3 :> 2)
=============================================================================
