--------------------------- MODULE MCProgression ---------------------------
(* Three levels, one mastery and one group of two skills. *)
EXTENDS Progression

MCExpFor == <<2, 3>>
MCGains == {<<1, 3>>, <<9, 0>>}
MCMasteryPrice == [m \in 0..1 |-> m]
MCSkills ==
    {[group |-> "g", level |-> 1, sp |-> 1, masteryLevel |-> 1, required |-> [group |-> "none", level |-> 0]],
     [group |-> "g", level |-> 2, sp |-> 1, masteryLevel |-> 1, required |-> [group |-> "g", level |-> 1]]}
MCStart == [sp |-> 2, points |-> 1, gold |-> 3]
=============================================================================
