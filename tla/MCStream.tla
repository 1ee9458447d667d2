------------------------------ MODULE MCStream ------------------------------
\* A word of four bits: lengths from 8 on no longer fit, containers hold 15.
EXTENDS Stream

MCPackets ==
    {[size |-> 3, massive |-> FALSE, encrypted |-> TRUE],
     [size |-> 6, massive |-> TRUE, encrypted |-> FALSE],
     [size |-> 16, massive |-> TRUE, encrypted |-> FALSE]}
MCIdentity == [size |-> 3, massive |-> FALSE, encrypted |-> TRUE]
MCSends == {[op |-> "identity", fine |-> TRUE, encrypted |-> TRUE],
            [op |-> "plain", fine |-> FALSE, encrypted |-> FALSE]}
MCHeaders == {[op |-> "a", n |-> 0], [op |-> "a", n |-> 1], [op |-> "b", n |-> 2]}
=============================================================================
