---------------------------- MODULE MCLoginQueue ----------------------------
(* Instances of LoginQueue for TLC. *)
EXTENDS LoginQueue, TLC

\* Requests, accounts, tokens and connections are interchangeable.
Symmetry == Permutations(Users) \cup Permutations(Tokens)
            \cup Permutations(Web) \cup Permutations(Clients)
=============================================================================
