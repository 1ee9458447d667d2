----------------------------- MODULE MCGateway -----------------------------
\* One connection, two accounts (one with a passcode) and one other client;
\* the agent starts twice, at either of two addresses.
EXTENDS Gateway

CONSTANTS c1, o1, t1, t2, h1, h2, k, kWrong, garbled

MCRegistered == {[name |-> "plain", password |-> "good", passcode |-> None]}
MCRegistrations == {[name |-> "coded", password |-> "good", passcode |-> k]}
MCCredentials ==
    {[name |-> "plain", password |-> "good", shard |-> 1],
     [name |-> "coded", password |-> "good", shard |-> 1],
     [name |-> "coded", password |-> "bad", shard |-> 1]}
\* For liveness, what matters is a player who is right.
MCRight == {c \in MCCredentials : c.name = "plain"}
=============================================================================
