---------------------------- MODULE MCVisibility ----------------------------
(* Three places in a row in three regions, each beside the next, and one far away. *)
EXTENDS Visibility

MCPlaces == 1..4
MCClose == {<<p, q>> \in MCPlaces \X MCPlaces : p = q \/ ({p, q} \in {{1, 2}, {2, 3}})}
MCRegionOf == <<1, 2, 3, 5>>
MCBeside == [r \in 1..5 |-> {r - 1, r, r + 1}]
=============================================================================
