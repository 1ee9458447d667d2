----------------------------- MODULE Admission -----------------------------
(***************************************************************************)
(* What admission to the game server promises, without threads, counters   *)
(* or a mutex: an account holds at most one reservation at a time, every   *)
(* reservation has a token of its own and lives for ValidTime, a client    *)
(* gets a seat only by handing a reservation in, and reservations and      *)
(* seats together never number more than Max.  LoginQueue implements it.   *)
(***************************************************************************)
EXTENDS Integers, FiniteSets

CONSTANTS Users, Tokens, Clients, Max, ValidTime

VARIABLES
    reserved,  \* the reservations: an account and its token
    left,      \* per token: time left to the reservation that has it
    seated     \* the clients that play

Reserve(u, t) ==
    /\ \A r \in reserved : r.user # u /\ r.token # t
    /\ Cardinality(reserved) + Cardinality(seated) < Max
    /\ reserved' = reserved \cup {[user |-> u, token |-> t]}
    /\ left' = [left EXCEPT ![t] = ValidTime]
    /\ UNCHANGED seated

\* Reservations are forgotten some time after they ran out, never before.
Expire(r) ==
    /\ r \in reserved /\ left[r.token] = 0
    /\ reserved' = reserved \ {r}
    /\ UNCHANGED <<left, seated>>

\* One step trades the reservation for the seat.
HandIn(r, c) ==
    /\ r \in reserved /\ c \notin seated
    /\ reserved' = reserved \ {r}
    /\ seated' = seated \cup {c}
    /\ UNCHANGED left

Leave(c) ==
    /\ c \in seated
    /\ seated' = seated \ {c}
    /\ UNCHANGED <<reserved, left>>

Pass ==
    /\ left' = [t \in Tokens |-> IF left[t] = 0 THEN 0 ELSE left[t] - 1]
    /\ UNCHANGED <<reserved, seated>>

Init == reserved = {} /\ left = [t \in Tokens |-> 0] /\ seated = {}

Next ==
    \/ \E u \in Users : \E t \in Tokens : Reserve(u, t)
    \/ \E r \in reserved : Expire(r)
    \/ \E r \in reserved : \E c \in Clients : HandIn(r, c)
    \/ \E c \in Clients : Leave(c)
    \/ Pass

Spec == Init /\ [][Next]_<<reserved, left, seated>>
=============================================================================
