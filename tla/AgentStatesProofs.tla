-------------------------- MODULE AgentStatesProofs --------------------------
(***************************************************************************)
(* Proofs about AgentStates for any number of players, monsters and drops, *)
(* any health and damage, and any number of ticks.                         *)
(***************************************************************************)
EXTENDS AgentStates, FiniteSetTheorems, SequenceTheorems, NaturalsInduction, WellFoundedInduction, TLAPS

(* Numbers and sequences.                                                  *)

\* What is not below a number in the relation of the library is not below it.
LEMMA NotBelow ==
    ASSUME NEW x, NEW y, x \in Nat, y \in Nat, ~(<<y, x>> \in OpToRel(<, Nat))
    PROVE  ~(y < x)
  BY Zenon DEF OpToRel

\* A set of natural numbers that is not empty has a least element.
LEMMA Least ==
    ASSUME NEW T, T \subseteq Nat, T # {}
    PROVE  \E x \in T : \A y \in T : x <= y
<1>1. PICK x \in T : \A y \in T : ~(<<y, x>> \in OpToRel(<, Nat))
  BY NatLessThanWellFounded, WFMin
<1>2. \A y \in T : ~(y < x)
  BY <1>1, NotBelow, Zenon
<1>3. QED
  BY <1>2

IsSeq(s) == \E S : s \in Seq(S)

\* Appending to a sequence whose elements are of different kinds.
LEMMA AppendAny ==
    ASSUME NEW s, IsSeq(s), NEW e
    PROVE  /\ IsSeq(Append(s, e)) /\ Len(s) \in Nat /\ DOMAIN s = 1..Len(s)
           /\ DOMAIN Append(s, e) = 1..(Len(s) + 1)
           /\ \A i \in 1..Len(s) : Append(s, e)[i] = s[i]
           /\ Append(s, e)[Len(s) + 1] = e
<1>1. PICK S : s \in Seq(S)
  BY DEF IsSeq
<1>2. s \in Seq(S \cup {e}) /\ e \in S \cup {e}
  BY <1>1, SeqMonotonic
<1>3. Append(s, e) \in Seq(S \cup {e})
  BY <1>2, AppendProperties
<1>4. IsSeq(Append(s, e))
  BY <1>3 DEF IsSeq
<1>5. QED
  BY <1>2, <1>3, <1>4, AppendProperties, LenProperties

\* Joining two of them.
LEMMA ConcatAny ==
    ASSUME NEW s, NEW t, IsSeq(s), IsSeq(t)
    PROVE  /\ IsSeq(s \o t) /\ Len(s) \in Nat /\ Len(t) \in Nat
           /\ DOMAIN s = 1..Len(s) /\ DOMAIN t = 1..Len(t) /\ DOMAIN (s \o t) = 1..(Len(s) + Len(t))
           /\ \A i \in 1..(Len(s) + Len(t)) : (s \o t)[i] = IF i <= Len(s) THEN s[i] ELSE t[i - Len(s)]
<1>1. PICK S, T : s \in Seq(S) /\ t \in Seq(T)
  BY DEF IsSeq
<1>2. s \in Seq(S \cup T) /\ t \in Seq(S \cup T)
  BY <1>1, SeqMonotonic
<1>3. /\ s \o t \in Seq(S \cup T) /\ Len(s \o t) = Len(s) + Len(t)
      /\ \A i \in 1..(Len(s) + Len(t)) : (s \o t)[i] = IF i <= Len(s) THEN s[i] ELSE t[i - Len(s)]
      /\ Len(s) \in Nat /\ Len(t) \in Nat
  BY <1>2, ConcatProperties, LenProperties
<1>4. IsSeq(s \o t)
  BY <1>3 DEF IsSeq
<1>5. QED
  BY <1>2, <1>3, <1>4, LenProperties

-----------------------------------------------------------------------------
(* Requests.                                                               *)

Kinds == {"Idle", "Moving", "Action", "Pickup", "Dead"}
Comp(c) == "kind" \in DOMAIN c /\ c.kind \in Kinds

Queue(q) == IsSeq(q) /\ \A i \in DOMAIN q : Comp(q[i])
DeadIn(q) == \E i \in DOMAIN q : IsDead(q[i])

\* The components that systems request.
LEMMA Made ==
    /\ Comp(Idle) /\ ~IsDead(Idle)
    /\ \A t : Comp(Moving(t)) /\ ~IsDead(Moving(t))
    /\ \A t, s, p : Comp(Action(t, s, p)) /\ ~IsDead(Action(t, s, p))
    /\ \A t, b : Comp(Pickup(t, b)) /\ ~IsDead(Pickup(t, b))
    /\ \A b : Comp(Dead(b)) /\ IsDead(Dead(b))
  BY DEF Comp, Kinds, IsDead, Idle, Moving, Action, Pickup, Dead

\* Requesting a transition.
LEMMA Requested ==
    ASSUME NEW q, Queue(q), NEW c, Comp(c)
    PROVE  Queue(Append(q, c)) /\ (DeadIn(Append(q, c)) <=> DeadIn(q) \/ IsDead(c))
<1>1. /\ IsSeq(Append(q, c)) /\ Len(q) \in Nat /\ DOMAIN q = 1..Len(q)
      /\ DOMAIN Append(q, c) = 1..(Len(q) + 1)
      /\ \A i \in 1..Len(q) : Append(q, c)[i] = q[i]
      /\ Append(q, c)[Len(q) + 1] = c
  BY AppendAny DEF Queue
<1>2. PICK n, r : n = Len(q) /\ r = Append(q, c) /\ n \in Nat
  BY <1>1
<1>3. DOMAIN q = 1..n /\ DOMAIN r = 1..(n + 1) /\ (\A i \in 1..n : r[i] = q[i]) /\ r[n + 1] = c
  BY <1>1, <1>2
<1>4. \A i \in 1..(n + 1) : i \in 1..n \/ i = n + 1
  BY <1>2
<1>5. n + 1 \in 1..(n + 1) /\ \A i \in 1..n : i \in 1..(n + 1)
  BY <1>2
<1>6. \A i \in DOMAIN r : Comp(r[i])
  BY <1>3, <1>4 DEF Queue
<1>7. DeadIn(r) <=> DeadIn(q) \/ IsDead(c)
  BY <1>3, <1>4, <1>5 DEF DeadIn
<1>8. QED
  BY <1>1, <1>2, <1>6, <1>7 DEF Queue

\* Requesting several.
LEMMA RequestedAll ==
    ASSUME NEW q, NEW r, Queue(q), Queue(r)
    PROVE  Queue(q \o r) /\ (DeadIn(q \o r) <=> DeadIn(q) \/ DeadIn(r))
<1>1. /\ IsSeq(q \o r) /\ Len(q) \in Nat /\ Len(r) \in Nat
      /\ DOMAIN q = 1..Len(q) /\ DOMAIN r = 1..Len(r) /\ DOMAIN (q \o r) = 1..(Len(q) + Len(r))
      /\ \A i \in 1..(Len(q) + Len(r)) : (q \o r)[i] = IF i <= Len(q) THEN q[i] ELSE r[i - Len(q)]
  BY ConcatAny DEF Queue
<1>2. PICK n, m, t : n = Len(q) /\ m = Len(r) /\ t = q \o r /\ n \in Nat /\ m \in Nat
  BY <1>1
<1>3. DOMAIN q = 1..n /\ DOMAIN r = 1..m /\ DOMAIN t = 1..(n + m)
  BY <1>1, <1>2
<1>4. \A i \in 1..(n + m) : t[i] = IF i <= n THEN q[i] ELSE r[i - n]
  BY <1>1, <1>2
<1>5. ASSUME NEW i \in 1..(n + m) PROVE (i \in 1..n /\ t[i] = q[i]) \/ (i - n \in 1..m /\ t[i] = r[i - n])
  BY <1>2, <1>4
<1>6. ASSUME NEW i \in 1..n PROVE i \in 1..(n + m) /\ t[i] = q[i]
  BY <1>2, <1>4
<1>7. ASSUME NEW i \in 1..m PROVE n + i \in 1..(n + m) /\ t[n + i] = r[i]
  <2>1. n + i \in 1..(n + m) /\ ~(n + i <= n) /\ (n + i) - n = i
    BY <1>2
  <2>2. QED
    BY <1>4, <2>1
<1>8. \A i \in DOMAIN t : Comp(t[i])
  BY <1>3, <1>5 DEF Queue
<1>9. DeadIn(t) <=> DeadIn(q) \/ DeadIn(r)
  <2>1. DeadIn(t) => DeadIn(q) \/ DeadIn(r)
    BY <1>3, <1>5 DEF DeadIn
  <2>2. DeadIn(q) => DeadIn(t)
    BY <1>3, <1>6 DEF DeadIn
  <2>3. DeadIn(r) => DeadIn(t)
    BY <1>3, <1>7 DEF DeadIn
  <2>4. QED
    BY <2>1, <2>2, <2>3
<1>10. QED
  BY <1>1, <1>2, <1>8, <1>9 DEF Queue

\* No request, and one.
LEMMA Few ==
    /\ Queue(<<>>) /\ ~DeadIn(<<>>)
    /\ \A c : Comp(c) => Queue(<<c>>) /\ (DeadIn(<<c>>) <=> IsDead(c))
<1>1. DOMAIN <<>> = {} /\ <<>> \in Seq({})
  OBVIOUS
<1>2. Queue(<<>>) /\ ~DeadIn(<<>>)
  BY <1>1 DEF Queue, DeadIn, IsSeq
<1>3. ASSUME NEW c, Comp(c) PROVE Queue(<<c>>) /\ (DeadIn(<<c>>) <=> IsDead(c))
  <2>1. <<c>> \in Seq({c}) /\ DOMAIN <<c>> = {1} /\ <<c>>[1] = c
    OBVIOUS
  <2>2. QED
    BY <1>3, <2>1 DEF Queue, DeadIn, IsSeq
<1>4. QED
  BY <1>2, <1>3

\* Death has the highest priority.
LEMMA PriorityIs ==
    ASSUME NEW c, Comp(c)
    PROVE  Priority(c) \in 0..3 /\ (Priority(c) > 2 <=> IsDead(c)) /\ (Priority(c) = 3 <=> IsDead(c))
  BY DEF Comp, Kinds, Priority, IsDead

\* The request that wins is one of the queue, and death if that is requested.
LEMMA ChosenIs ==
    ASSUME NEW q, Queue(q), q # <<>>
    PROVE  Comp(Chosen(q)) /\ (IsDead(Chosen(q)) <=> DeadIn(q)) /\ \E i \in DOMAIN q : Chosen(q) = q[i]
<1>0. Len(q) \in Nat /\ DOMAIN q = 1..Len(q) /\ Len(q) # 0
  <2>1. PICK S : q \in Seq(S)
    BY DEF Queue, IsSeq
  <2>2. QED
    BY <2>1, LenProperties, EmptySeq
<1>1. \A i \in DOMAIN q : Comp(q[i]) /\ Priority(q[i]) \in 0..3
  BY PriorityIs DEF Queue
<1> DEFINE Lows == {3 - Priority(q[i]) : i \in DOMAIN q}
<1>2. 1 \in DOMAIN q
  BY <1>0
<1>3. \A i \in DOMAIN q : 3 - Priority(q[i]) \in Nat
  BY <1>1
<1>4. Lows \subseteq Nat /\ Lows # {}
  BY <1>2, <1>3, Zenon
<1>5. PICK low \in Lows : \A y \in Lows : low <= y
  BY <1>4, Least
<1>6. PICK k \in DOMAIN q : low = 3 - Priority(q[k])
  BY <1>5
<1>7. ASSUME NEW j \in DOMAIN q PROVE Priority(q[j]) <= Priority(q[k])
  <2>1. 3 - Priority(q[j]) \in Lows
    OBVIOUS
  <2>2. 3 - Priority(q[k]) <= 3 - Priority(q[j])
    BY <1>5, <1>6, <2>1
  <2>3. QED
    BY <1>1, <2>2
<1> DEFINE Firsts == {i \in DOMAIN q : Priority(q[i]) = Priority(q[k])}
<1>8. Firsts \subseteq Nat /\ Firsts # {}
  BY <1>0, <1>6
<1>9. PICK f \in Firsts : \A y \in Firsts : f <= y
  BY <1>8, Least
<1>10. f \in DOMAIN q /\ Priority(q[f]) = Priority(q[k])
  BY <1>9
<1>11. ASSUME NEW j \in DOMAIN q
       PROVE  Priority(q[f]) > Priority(q[j]) \/ (Priority(q[f]) = Priority(q[j]) /\ f <= j)
  <2>1. CASE j \in Firsts
    BY <1>9, <1>10, <2>1
  <2>2. CASE j \notin Firsts
    <3>1. Priority(q[j]) # Priority(q[k])
      BY <2>2
    <3>2. QED
      BY <1>1, <1>6, <1>7, <1>10, <3>1
  <2>3. QED
    BY <2>1, <2>2
<1>12. PICK w \in DOMAIN q :
          /\ Chosen(q) = q[w]
          /\ \A j \in DOMAIN q : Priority(q[w]) > Priority(q[j]) \/ (Priority(q[w]) = Priority(q[j]) /\ w <= j)
  BY <1>10, <1>11 DEF Chosen
<1>13. IsDead(Chosen(q)) => DeadIn(q)
  BY <1>12 DEF DeadIn
<1>14. ASSUME DeadIn(q) PROVE IsDead(Chosen(q))
  <2>1. PICK j \in DOMAIN q : IsDead(q[j])
    BY <1>14 DEF DeadIn
  <2>2. Priority(q[j]) = 3
    BY <1>1, <2>1, PriorityIs
  <2>3. Priority(q[w]) \in 0..3 /\ Priority(q[w]) >= Priority(q[j])
    BY <1>1, <1>12, <2>2
  <2>4. Priority(q[w]) = 3
    BY <2>2, <2>3
  <2>5. QED
    BY <1>1, <1>12, <2>4, PriorityIs
<1>15. QED
  BY <1>1, <1>12, <1>13, <1>14
-----------------------------------------------------------------------------
(* The invariant behind death.                                             *)

\* A deferred command: it never removes Dead, it inserts at most one component, and
\* only create_drops spawns.
Cmd(s, x, c) ==
    /\ "Dead" \notin c.remove
    /\ \A k \in c.insert : Comp(k) /\ c.insert = {k}
    /\ c = Spawn => s = "create_drops"
    /\ s = "create_drops" => c = Spawn /\ \E m \in DOMAIN Gold : x = Gold[m]

\* A system that has yet to run in this schedule has deferred nothing.
Shape ==
    /\ state = [e \in Fighters |-> state[e]] /\ queue = [e \in Fighters |-> queue[e]]
    /\ health = [e \in Fighters |-> health[e]] /\ died = [e \in Fighters |-> died[e]]
    /\ buffer = [s \in Systems |-> buffer[s]] /\ todo \subseteq Systems
    /\ \A e \in Fighters : (\A c \in state[e] : Comp(c)) /\ Queue(queue[e])
    /\ \A s \in Systems : \A x \in DOMAIN buffer[s] : Cmd(s, x, buffer[s][x])
    /\ \A s \in todo : DOMAIN buffer[s] = {}
    /\ spawns \subseteq DOMAIN Gold

\* A system has deferred the death of `e'.
Deferred(e) == \E s \in Systems : e \in DOMAIN buffer[s] /\ \E c \in buffer[s][e].insert : IsDead(c)
Doomed(e) == Has(e, "Dead") \/ DeadIn(queue[e]) \/ Deferred(e)
DeathComes == \A e \in Fighters \intersect exists : (health[e] = 0) <=> Doomed(e)

Inv == Shape /\ DeathComes /\ OneDeath

\* The property is a part of it.
LEMMA DeathComesIs == Inv => DeathNotLost
<1> SUFFICES ASSUME Inv, NEW e \in Fighters \intersect exists
             PROVE  (health[e] = 0) <=> \/ Has(e, "Dead")
                                        \/ \E c \in Range(queue[e]) : IsDead(c)
                                        \/ \E s \in Buffered : e \in DOMAIN buffer[s] /\ \E c \in buffer[s][e].insert : IsDead(c)
  BY DEF DeathNotLost
<1>1. DeadIn(queue[e]) <=> \E c \in Range(queue[e]) : IsDead(c)
  BY DEF DeadIn, Range
<1>2. Deferred(e) <=> \E s \in Buffered : e \in DOMAIN buffer[s] /\ \E c \in buffer[s][e].insert : IsDead(c)
  <2>1. DOMAIN NoCommands = {}
    BY DEF NoCommands
  <2>2. QED
    BY <2>1 DEF Deferred, Buffered
<1>3. QED
  BY <1>1, <1>2 DEF Inv, DeathComes, Doomed

\* The systems of the schedules.
LEMMA SystemsAre ==
    /\ \A s : SystemsOf(Following(s)) \subseteq Systems
    /\ SystemsOf("PreUpdate") \subseteq Systems
<1>1. \A s : Following(s) \in {"PreUpdate", "Update", "PostUpdate"}
  BY DEF Following
<1>2. QED
  BY <1>1 DEF Systems

\* The start.
LEMMA InvInit == Init => Inv
<1> SUFFICES ASSUME Init PROVE Inv
  OBVIOUS
<1>1. \A e \in Fighters : state[e] = {} /\ queue[e] = <<>> /\ health[e] = MaxHealth /\ died[e] = 0
  BY DEF Init
<1>2. \A s \in Systems : buffer[s] = <<>> /\ DOMAIN buffer[s] = {}
  BY DEF Init, NoCommands
<1>3. MaxHealth # 0
  BY AgentAssumption
<1>4. Shape
  <2>1. /\ state = [e \in Fighters |-> state[e]] /\ queue = [e \in Fighters |-> queue[e]]
        /\ health = [e \in Fighters |-> health[e]] /\ died = [e \in Fighters |-> died[e]]
        /\ buffer = [s \in Systems |-> buffer[s]] /\ todo = SystemsOf("PreUpdate") /\ spawns = {}
    BY DEF Init
  <2>2. QED
    BY <1>1, <1>2, <2>1, Few, SystemsAre DEF Shape
<1>5. \A e \in Fighters : ~Doomed(e)
  BY <1>1, <1>2, Few DEF Doomed, Has, Deferred
<1>6. QED
  BY <1>1, <1>3, <1>4, <1>5 DEF Inv, DeathComes, OneDeath

\* What a system defers replaces nothing.
LEMMA Defers ==
    ASSUME Shape, NEW s, Runs(s), Finishes(s), NEW cmds, Buffers(s, cmds),
           \A x \in DOMAIN cmds : Cmd(s, x, cmds[x])
    PROVE  /\ buffer' = [t \in Systems |-> buffer'[t]] /\ todo' \subseteq Systems
           /\ \A t \in Systems : \A x \in DOMAIN buffer'[t] : Cmd(t, x, buffer'[t][x])
           /\ \A t \in todo' : DOMAIN buffer'[t] = {}
           /\ \A e : Deferred(e)' <=> Deferred(e) \/ (e \in DOMAIN cmds /\ \E c \in cmds[e].insert : IsDead(c))
           /\ s \in Systems /\ buffer'[s] = cmds /\ \A t \in Systems \ {s} : buffer'[t] = buffer[t]
<1>1. s \in Systems /\ s \in todo /\ DOMAIN buffer[s] = {} /\ todo' = todo \ {s}
  BY DEF Runs, Shape, Finishes
<1>2. buffer' = [t \in Systems |-> IF t = s THEN cmds ELSE buffer[t]]
  BY <1>1 DEF Shape, Buffers
<1>3. buffer'[s] = cmds /\ \A t \in Systems \ {s} : buffer'[t] = buffer[t]
  BY <1>1, <1>2
<1>4. \A t \in Systems : \A x \in DOMAIN buffer'[t] : Cmd(t, x, buffer'[t][x])
  BY <1>3 DEF Shape
<1>5. \A t \in todo' : DOMAIN buffer'[t] = {}
  BY <1>1, <1>3 DEF Shape
<1>6. \A e : Deferred(e)' <=> Deferred(e) \/ (e \in DOMAIN cmds /\ \E c \in cmds[e].insert : IsDead(c))
  BY <1>1, <1>3 DEF Deferred
<1>7. QED
  BY <1>1, <1>2, <1>3, <1>4, <1>5, <1>6 DEF Shape

\* A system that kills nobody.
LEMMA SystemKeeps ==
    ASSUME Inv, NEW s, Runs(s), Finishes(s), UNCHANGED <<exists, battle>>,
           spawns' \subseteq DOMAIN Gold,
           state' = [e \in Fighters |-> state'[e]], queue' = [e \in Fighters |-> queue'[e]],
           \A e \in Fighters : (\A c \in state'[e] : Comp(c)) /\ (Has(e, "Dead")' <=> Has(e, "Dead")),
           \A e \in Fighters : Queue(queue'[e]) /\ (DeadIn(queue'[e]) <=> DeadIn(queue[e])),
           \/ Silent
           \/ \E cmds : Buffers(s, cmds) /\ \A x \in DOMAIN cmds : Cmd(s, x, cmds[x]) /\ \A c \in cmds[x].insert : ~IsDead(c)
    PROVE  Inv'
<1>0. UNCHANGED <<health, died, exists>> /\ Shape
  BY DEF battle, Inv
<1>1. /\ buffer' = [t \in Systems |-> buffer'[t]] /\ todo' \subseteq Systems
      /\ \A t \in Systems : \A x \in DOMAIN buffer'[t] : Cmd(t, x, buffer'[t][x])
      /\ \A t \in todo' : DOMAIN buffer'[t] = {}
      /\ \A e : Deferred(e)' <=> Deferred(e)
  <2>1. CASE Silent
    <3>1. buffer' = buffer /\ todo' \subseteq todo
      BY <2>1 DEF Silent, Finishes
    <3>2. QED
      BY <1>0, <3>1 DEF Shape, Deferred
  <2>2. CASE \E cmds : Buffers(s, cmds) /\ \A x \in DOMAIN cmds : Cmd(s, x, cmds[x]) /\ \A c \in cmds[x].insert : ~IsDead(c)
    <3>1. PICK cmds : Buffers(s, cmds) /\ \A x \in DOMAIN cmds : Cmd(s, x, cmds[x]) /\ \A c \in cmds[x].insert : ~IsDead(c)
      BY <2>2
    <3>2. /\ buffer' = [t \in Systems |-> buffer'[t]] /\ todo' \subseteq Systems
          /\ \A t \in Systems : \A x \in DOMAIN buffer'[t] : Cmd(t, x, buffer'[t][x])
          /\ \A t \in todo' : DOMAIN buffer'[t] = {}
          /\ \A e : Deferred(e)' <=> Deferred(e) \/ (e \in DOMAIN cmds /\ \E c \in cmds[e].insert : IsDead(c))
      BY <1>0, <3>1, Defers
    <3>3. QED
      BY <3>1, <3>2
  <2>3. QED
    BY <2>1, <2>2
<1>2. Shape'
  BY <1>0, <1>1 DEF Shape
<1>3. \A e \in Fighters : Doomed(e)' <=> Doomed(e)
  BY <1>1 DEF Doomed
<1>4. DeathComes'
  BY <1>0, <1>3 DEF Inv, DeathComes
<1>5. OneDeath'
  BY <1>0 DEF Inv, OneDeath
<1>6. QED
  BY <1>2, <1>4, <1>5 DEF Inv

\* A system that touches neither states nor queues.
LEMMA DeferringKeeps ==
    ASSUME Inv, NEW s, Runs(s), Finishes(s), UNCHANGED <<exists, state, queue, battle>>, spawns' \subseteq DOMAIN Gold,
           \/ Silent
           \/ \E cmds : Buffers(s, cmds) /\ \A x \in DOMAIN cmds : Cmd(s, x, cmds[x]) /\ \A c \in cmds[x].insert : ~IsDead(c)
    PROVE  Inv'
<1>1. state' = [e \in Fighters |-> state'[e]] /\ queue' = [e \in Fighters |-> queue'[e]]
  BY DEF Inv, Shape
<1>2. /\ \A e \in Fighters : (\A c \in state'[e] : Comp(c)) /\ (Has(e, "Dead")' <=> Has(e, "Dead"))
      /\ \A e \in Fighters : Queue(queue'[e]) /\ (DeadIn(queue'[e]) <=> DeadIn(queue[e]))
  BY DEF Inv, Shape, Has
<1>3. QED
  BY <1>1, <1>2, SystemKeeps

\* A system that requests transitions other than death.
LEMMA RequestingKeeps ==
    ASSUME Inv, NEW s, Runs(s), Finishes(s), Silent, UNCHANGED <<exists, state, battle, spawns>>,
           queue' = [e \in Fighters |-> queue'[e]],
           \A e \in Fighters : Queue(queue'[e]) /\ (DeadIn(queue'[e]) <=> DeadIn(queue[e]))
    PROVE  Inv'
<1>1. state' = [e \in Fighters |-> state'[e]] /\ spawns' \subseteq DOMAIN Gold
  BY DEF Inv, Shape
<1>2. \A e \in Fighters : (\A c \in state'[e] : Comp(c)) /\ (Has(e, "Dead")' <=> Has(e, "Dead"))
  BY DEF Inv, Shape, Has
<1>3. QED
  BY <1>1, <1>2, SystemKeeps
-----------------------------------------------------------------------------
(* The systems that kill nobody.                                           *)

\* The commands of the systems: to despawn,
LEMMA Despawns == \A s, x : s # "create_drops" => Cmd(s, x, Despawn) /\ Despawn.insert = {}
  BY DEF Cmd, Despawn, Spawn

\* to remove a component,
LEMMA Removes == \A s, x, k : s # "create_drops" /\ k # "Dead" => Cmd(s, x, Remove(k)) /\ Remove(k).insert = {}
<1> SUFFICES ASSUME NEW s, NEW x, NEW k, s # "create_drops", k # "Dead"
             PROVE  Cmd(s, x, Remove(k)) /\ Remove(k).insert = {}
  OBVIOUS
<1>1. Remove(k).remove = {k} /\ Remove(k).insert = {} /\ Spawn.remove = {}
  BY DEF Remove, Spawn
<1>2. Remove(k) # Spawn
  BY <1>1
<1>3. QED
  BY <1>1, <1>2 DEF Cmd

\* to insert one,
LEMMA Inserts == \A s, x, c : s # "create_drops" /\ Comp(c) => Cmd(s, x, Insert(c)) /\ Insert(c).insert = {c}
<1> SUFFICES ASSUME NEW s, NEW x, NEW c, s # "create_drops", Comp(c)
             PROVE  Cmd(s, x, Insert(c)) /\ Insert(c).insert = {c}
  OBVIOUS
<1>1. Insert(c).remove = {} /\ Insert(c).insert = {c} /\ Spawn.insert = {}
  BY DEF Insert, Spawn
<1>2. Insert(c) # Spawn
  BY <1>1
<1>3. QED
  BY <1>1, <1>2 DEF Cmd

\* and to do both.
LEMMA Replaces ==
    \A s, x, k, c : s # "create_drops" /\ k # "Dead" /\ Comp(c) =>
        Cmd(s, x, Replace(k, c)) /\ Replace(k, c).insert = {c}
<1> SUFFICES ASSUME NEW s, NEW x, NEW k, NEW c, s # "create_drops", k # "Dead", Comp(c)
             PROVE  Cmd(s, x, Replace(k, c)) /\ Replace(k, c).insert = {c}
  OBVIOUS
<1>1. Replace(k, c).remove = {k} /\ Replace(k, c).insert = {c} /\ Spawn.insert = {}
  BY DEF Replace, Spawn
<1>2. Replace(k, c) # Spawn
  BY <1>1
<1>3. QED
  BY <1>1, <1>2 DEF Cmd

\* Clients ask to move.
LEMMA movement_inputKeeps == ASSUME Inv, movement_input PROVE Inv'
<1>1. PICK inputs \in UNION {[P -> MovementGoals] : P \in SUBSET (Players \intersect exists)} :
         queue' = [e \in Fighters |-> IF e \in DOMAIN inputs
                                      THEN Append(queue[e], Moving(inputs[e])) ELSE queue[e]]
  BY DEF movement_input
<1>2. ASSUME NEW e \in Fighters PROVE Queue(queue'[e]) /\ (DeadIn(queue'[e]) <=> DeadIn(queue[e]))
  <2>1. Queue(queue[e])
    BY DEF Inv, Shape
  <2>2. CASE e \in DOMAIN inputs
    <3>1. queue'[e] = Append(queue[e], Moving(inputs[e]))
      BY <1>1, <2>2
    <3>2. QED
      BY <2>1, <3>1, Requested, Made
  <2>3. CASE e \notin DOMAIN inputs
    BY <1>1, <2>1, <2>3
  <2>4. QED
    BY <2>2, <2>3
<1>3. queue' = [e \in Fighters |-> queue'[e]]
  BY <1>1
<1>4. /\ Runs("movement_input") /\ Finishes("movement_input") /\ Silent
      /\ UNCHANGED <<exists, state, battle, spawns>>
  BY DEF movement_input, events
<1>5. QED
  BY <1>2, <1>3, <1>4, RequestingKeeps

\* What minds request.
LEMMA MindsRequest ==
    /\ \A e, n : Queue(Redirects(e, n)) /\ ~DeadIn(Redirects(e, n))
    /\ \A g, n : Queue(Pursues(g, n)) /\ ~DeadIn(Pursues(g, n))
<1>1. \A g, n : Comp(try_attack(g, n)) /\ ~IsDead(try_attack(g, n))
  BY Made DEF try_attack
<1>2. ASSUME NEW e, NEW n PROVE Queue(Redirects(e, n)) /\ ~DeadIn(Redirects(e, n))
  <2>1. Redirects(e, n) \in {<<>>, <<Idle>>, <<try_attack(goal[e], n)>>}
    BY DEF Redirects
  <2>2. QED
    BY <1>1, <2>1, Few, Made
<1>3. ASSUME NEW g, NEW n PROVE Queue(Pursues(g, n)) /\ ~DeadIn(Pursues(g, n))
  <2>1. Pursues(g, n) \in {<<>>, <<Idle>>, <<try_attack(g, n)>>, <<Pickup(g.target, FALSE)>>, <<Moving("Location")>>}
    BY DEF Pursues
  <2>2. QED
    BY <1>1, <2>1, Few, Made
<1>4. QED
  BY <1>2, <1>3

\* Minds redirect who walks.
LEMMA update_actionKeeps == ASSUME Inv, update_action PROVE Inv'
<1>1. /\ Runs("update_action") /\ Finishes("update_action") /\ Silent
      /\ UNCHANGED <<exists, state, battle, spawns>>
  BY DEF update_action, events
<1>2. CASE UNCHANGED queue
  BY <1>1, <1>2, RequestingKeeps DEF Inv, Shape
<1>3. ASSUME NEW walkers, NEW near,
             queue' = [e \in Fighters |-> IF e \in walkers
                                          THEN queue[e] \o Redirects(e, e \in near) ELSE queue[e]]
      PROVE  Inv'
  <2>1. ASSUME NEW e \in Fighters PROVE Queue(queue'[e]) /\ (DeadIn(queue'[e]) <=> DeadIn(queue[e]))
    <3>1. Queue(queue[e])
      BY DEF Inv, Shape
    <3>2. PICK r : r = Redirects(e, e \in near) /\ Queue(r) /\ ~DeadIn(r)
      BY MindsRequest
    <3>3. queue'[e] = IF e \in walkers THEN queue[e] \o r ELSE queue[e]
      BY <1>3, <3>2
    <3>4. QED
      BY <3>1, <3>2, <3>3, RequestedAll
  <2>2. queue' = [e \in Fighters |-> queue'[e]]
    BY <1>3
  <2>3. QED
    BY <1>1, <2>1, <2>2, RequestingKeeps
<1>4. \/ UNCHANGED queue
      \/ \E near \in SUBSET (With("Moving") \ With("Idle")) :
           queue' = [e \in Fighters |-> IF e \in With("Moving") \ With("Idle")
                                        THEN queue[e] \o Redirects(e, e \in near) ELSE queue[e]]
  BY DEF update_action
<1>5. QED
  BY <1>2, <1>3, <1>4

\* Minds set out.
LEMMA enqueue_actionKeeps == ASSUME Inv, enqueue_action PROVE Inv'
<1>1. /\ Runs("enqueue_action") /\ Finishes("enqueue_action") /\ Silent
      /\ UNCHANGED <<exists, state, battle, spawns>>
  BY DEF enqueue_action, events
<1>2. PICK minded, near :
         queue' = [e \in Fighters |-> IF e \in minded
                                      THEN queue[e] \o Pursues(goal[e], e \in near) ELSE queue[e]]
  BY DEF enqueue_action
<1>3. ASSUME NEW e \in Fighters PROVE Queue(queue'[e]) /\ (DeadIn(queue'[e]) <=> DeadIn(queue[e]))
  <2>1. Queue(queue[e])
    BY DEF Inv, Shape
  <2>2. PICK r : r = Pursues(goal[e], e \in near) /\ Queue(r) /\ ~DeadIn(r)
    BY MindsRequest
  <2>3. queue'[e] = IF e \in minded THEN queue[e] \o r ELSE queue[e]
    BY <1>2, <2>2
  <2>4. QED
    BY <2>1, <2>2, <2>3, RequestedAll
<1>4. queue' = [e \in Fighters |-> queue'[e]]
  BY <1>2
<1>5. QED
  BY <1>1, <1>3, <1>4, RequestingKeeps

\* Monsters stroll.
LEMMA movement_monsterKeeps == ASSUME Inv, movement_monster PROVE Inv'
<1>1. /\ Runs("movement_monster") /\ Finishes("movement_monster") /\ Silent
      /\ UNCHANGED <<exists, state, battle, spawns>>
  BY DEF movement_monster, events
<1>2. PICK strollers :
         queue' = [e \in Fighters |-> IF e \in strollers
                                      THEN Append(queue[e], Moving("Location")) ELSE queue[e]]
  BY DEF movement_monster
<1>3. ASSUME NEW e \in Fighters PROVE Queue(queue'[e]) /\ (DeadIn(queue'[e]) <=> DeadIn(queue[e]))
  <2>1. Queue(queue[e])
    BY DEF Inv, Shape
  <2>2. queue'[e] = IF e \in strollers THEN Append(queue[e], Moving("Location")) ELSE queue[e]
    BY <1>2
  <2>3. QED
    BY <2>1, <2>2, Requested, Made
<1>4. queue' = [e \in Fighters |-> queue'[e]]
  BY <1>2
<1>5. QED
  BY <1>1, <1>3, <1>4, RequestingKeeps

\* Systems that only read, or defer despawns and movements that end.
LEMMA PlainKeeps ==
    ASSUME Inv, \/ disconnected \/ transition_to_idle \/ movement \/ dead \/ handle_action \/ attack_player
                \/ drop_gold \/ tick_drop \/ spawn_monsters \/ create_drops
    PROVE  Inv'
<1>0. spawns \subseteq DOMAIN Gold
  BY DEF Inv, Shape
<1>1. CASE disconnected
  <2>1. PICK left : Buffers("disconnected", [e \in left |-> Despawn])
    BY <1>1 DEF disconnected
  <2>2. \A x \in left : Cmd("disconnected", x, Despawn) /\ Despawn.insert = {}
    BY Despawns
  <2>3. Runs("disconnected") /\ Finishes("disconnected") /\ UNCHANGED <<exists, state, queue, battle, spawns>>
    BY <1>1 DEF disconnected, world, events
  <2>4. QED
    BY <1>0, <2>1, <2>2, <2>3, DeferringKeeps
<1>2. CASE transition_to_idle
  <2>1. PICK none : Buffers("transition_to_idle", [e \in none |-> Insert(Idle)])
    BY <1>2 DEF transition_to_idle
  <2>2. \A x \in none : Cmd("transition_to_idle", x, Insert(Idle)) /\ Insert(Idle).insert = {Idle} /\ ~IsDead(Idle)
    <3>1. Comp(Idle) /\ ~IsDead(Idle)
      BY Made
    <3>2. "transition_to_idle" # "create_drops" /\ "Moving" # "Dead"
      OBVIOUS
    <3>3. QED
      BY <3>1, <3>2, Inserts, Zenon
  <2>3. Runs("transition_to_idle") /\ Finishes("transition_to_idle") /\ UNCHANGED <<exists, state, queue, battle, spawns>>
    BY <1>2 DEF transition_to_idle, world, events
  <2>4. QED
    BY <1>0, <2>1, <2>2, <2>3, DeferringKeeps
<1>3. CASE movement
  <2>1. PICK arrived : Buffers("movement", [e \in arrived |-> Replace("Moving", Idle)])
    BY <1>3 DEF movement
  <2>2. \A x \in arrived : Cmd("movement", x, Replace("Moving", Idle)) /\ Replace("Moving", Idle).insert = {Idle} /\ ~IsDead(Idle)
    <3>1. Comp(Idle) /\ ~IsDead(Idle)
      BY Made
    <3>2. "movement" # "create_drops" /\ "Moving" # "Dead"
      OBVIOUS
    <3>3. QED
      BY <3>1, <3>2, Replaces, Zenon
  <2>3. Runs("movement") /\ Finishes("movement") /\ UNCHANGED <<exists, state, queue, battle, spawns>>
    BY <1>3 DEF movement, world, events
  <2>4. QED
    BY <1>0, <2>1, <2>2, <2>3, DeferringKeeps
<1>4. CASE dead
  <2>1. PICK rotten : Buffers("dead", [e \in rotten |-> Despawn])
    BY <1>4 DEF dead
  <2>2. \A x \in rotten : Cmd("dead", x, Despawn) /\ Despawn.insert = {}
    BY Despawns
  <2>3. Runs("dead") /\ Finishes("dead") /\ UNCHANGED <<exists, state, queue, battle, spawns>>
    BY <1>4 DEF dead, world, events
  <2>4. QED
    BY <1>0, <2>1, <2>2, <2>3, DeferringKeeps
<1>5. CASE handle_action
  <2>1. Runs("handle_action") /\ Finishes("handle_action") /\ Silent /\ UNCHANGED <<exists, state, queue, battle, spawns>>
    BY <1>5 DEF handle_action, events
  <2>2. QED
    BY <1>0, <2>1, DeferringKeeps
<1>6. CASE attack_player
  <2>1. Runs("attack_player") /\ Finishes("attack_player") /\ Silent /\ UNCHANGED <<exists, state, queue, battle, spawns>>
    BY <1>6 DEF attack_player
  <2>2. QED
    BY <1>0, <2>1, DeferringKeeps
<1>7. CASE drop_gold
  <2>1. /\ Runs("drop_gold") /\ Finishes("drop_gold") /\ Silent /\ UNCHANGED <<exists, state, queue, battle>>
        /\ spawns' = spawns \union (deaths \intersect DOMAIN Gold \intersect exists)
    BY <1>7 DEF drop_gold, world
  <2>2. QED
    BY <1>0, <2>1, DeferringKeeps
<1>8. CASE tick_drop
  <2>1. PICK faded : Buffers("tick_drop", [d \in faded |-> Despawn])
    BY <1>8 DEF tick_drop
  <2>2. \A x \in faded : Cmd("tick_drop", x, Despawn) /\ Despawn.insert = {}
    BY Despawns
  <2>3. Runs("tick_drop") /\ Finishes("tick_drop") /\ UNCHANGED <<exists, state, queue, battle, spawns>>
    BY <1>8 DEF tick_drop, world, events
  <2>4. QED
    BY <1>0, <2>1, <2>2, <2>3, DeferringKeeps
<1>9. CASE spawn_monsters
  <2>1. PICK taken : Buffers("spawn_monsters", [m \in taken |-> Despawn])
    BY <1>9 DEF spawn_monsters
  <2>2. \A x \in taken : Cmd("spawn_monsters", x, Despawn) /\ Despawn.insert = {}
    BY Despawns
  <2>3. Runs("spawn_monsters") /\ Finishes("spawn_monsters") /\ UNCHANGED <<exists, state, queue, battle, spawns>>
    BY <1>9 DEF spawn_monsters, world, events
  <2>4. QED
    BY <1>0, <2>1, <2>2, <2>3, DeferringKeeps
<1>10. CASE create_drops
  <2>1. /\ Buffers("create_drops", [d \in {Gold[m] : m \in spawns} |-> Spawn]) /\ spawns' = {}
        /\ Runs("create_drops") /\ Finishes("create_drops") /\ UNCHANGED <<exists, state, queue, battle>>
    BY <1>10 DEF create_drops, world
  <2>2. \A x \in {Gold[m] : m \in spawns} : Cmd("create_drops", x, Spawn) /\ Spawn.insert = {}
    BY <1>0 DEF Cmd, Spawn
  <2>3. QED
    BY <2>1, <2>2, DeferringKeeps
<1>11. QED
  BY <1>1, <1>2, <1>3, <1>4, <1>5, <1>6, <1>7, <1>8, <1>9, <1>10
-----------------------------------------------------------------------------
(* The systems that change states, and the killing blow.                   *)

\* A component takes the place of the one of its kind.
LEMMA InsertedIs ==
    ASSUME NEW s, \A d \in s : Comp(d), NEW c, Comp(c)
    PROVE  /\ \A d \in Inserted(s, c) : Comp(d)
           /\ (\E d \in Inserted(s, c) : IsDead(d)) <=> (\E d \in s : IsDead(d)) \/ IsDead(c)
  BY DEF Inserted, IsDead

\* Players bend for drops.
LEMMA pickupKeeps == ASSUME Inv, pickup PROVE Inv'
<1>1. /\ Runs("pickup") /\ Finishes("pickup") /\ UNCHANGED <<exists, queue, battle, spawns>>
  BY DEF pickup, events
<1>t. PICK takers : takers = {p \in With("Pickup") : ~PickupOf(p).taken /\ PickupOf(p).target \in exists}
  OBVIOUS
<1>l. PICK late : late = {p \in With("Pickup") : ~PickupOf(p).taken /\ PickupOf(p).target \notin exists}
  OBVIOUS
<1>d. PICK taken : taken = {PickupOf(p).target : p \in takers}
  OBVIOUS
<1>2. PICK done \in SUBSET {p \in With("Pickup") : PickupOf(p).taken} :
        /\ state' = [e \in Fighters |-> IF e \in takers
                                       THEN Inserted(state[e], Pickup(PickupOf(e).target, TRUE)) ELSE state[e]]
        /\ Buffers("pickup", [e \in done \union late \union taken |-> PickupCommand(e, taken, late)])
  BY <1>t, <1>l, <1>d, ZenonT(30) DEF pickup
<1>3. ASSUME NEW e \in Fighters
      PROVE  (\A c \in state'[e] : Comp(c)) /\ (Has(e, "Dead")' <=> Has(e, "Dead"))
  <2>1. \A c \in state[e] : Comp(c)
    BY DEF Inv, Shape
  <2>2. PICK p : p = Pickup(PickupOf(e).target, TRUE) /\ Comp(p) /\ ~IsDead(p)
    BY Made
  <2>c. Comp(p) /\ ~IsDead(p)
    BY <2>2
  <2>3. state'[e] = IF e \in takers THEN Inserted(state[e], p) ELSE state[e]
    BY <1>2, <2>2
  <2>4. CASE e \in takers
    <3>1. state'[e] = Inserted(state[e], p)
      BY <2>3, <2>4
    <3>2. /\ \A d \in Inserted(state[e], p) : Comp(d)
          /\ (\E d \in Inserted(state[e], p) : IsDead(d)) <=> (\E d \in state[e] : IsDead(d)) \/ IsDead(p)
      BY <2>1, <2>c, InsertedIs
    <3>3. QED
      BY <2>c, <3>1, <3>2 DEF Has, IsDead
  <2>5. CASE e \notin takers
    BY <2>1, <2>3, <2>5 DEF Has
  <2>6. QED
    BY <2>4, <2>5
<1>4. ASSUME NEW x \in done \union late \union taken
      PROVE  Cmd("pickup", x, PickupCommand(x, taken, late)) /\ \A c \in PickupCommand(x, taken, late).insert : ~IsDead(c)
  <2>1. Comp(Idle) /\ ~IsDead(Idle) /\ "pickup" # "create_drops" /\ "Pickup" # "Dead"
    BY Made
  <2>2. /\ Cmd("pickup", x, Despawn) /\ Despawn.insert = {}
        /\ Cmd("pickup", x, Remove("Pickup")) /\ Remove("Pickup").insert = {}
        /\ Cmd("pickup", x, Replace("Pickup", Idle)) /\ Replace("Pickup", Idle).insert = {Idle}
    BY <2>1, Despawns, Removes, Replaces, ZenonT(30)
  <2>3. PickupCommand(x, taken, late) \in {Despawn, Remove("Pickup"), Replace("Pickup", Idle)}
    BY DEF PickupCommand
  <2>4. QED
    BY <2>1, <2>2, <2>3
<1>5. /\ state' = [e \in Fighters |-> state'[e]] /\ queue' = [e \in Fighters |-> queue'[e]] /\ spawns' \subseteq DOMAIN Gold
      /\ \A e \in Fighters : Queue(queue'[e]) /\ (DeadIn(queue'[e]) <=> DeadIn(queue[e]))
  BY <1>1, <1>2 DEF Inv, Shape
<1>6. PICK cmds : cmds = [e \in done \union late \union taken |-> PickupCommand(e, taken, late)]
  OBVIOUS
<1>7. Buffers("pickup", cmds) /\ \A x \in DOMAIN cmds : Cmd("pickup", x, cmds[x]) /\ \A c \in cmds[x].insert : ~IsDead(c)
  BY <1>2, <1>4, <1>6
<1>8. QED
  BY <1>1, <1>3, <1>5, <1>7, SystemKeeps

\* A panic leaves everything as it is.
LEMMA Stays ==
    ASSUME Inv, UNCHANGED <<world, battle, events, loop>>
    PROVE  Inv'
<1>1. UNCHANGED <<exists, state, queue, health, died, buffer, todo, spawns>>
  BY DEF world, battle, events, loop
<1>2. Shape'
  BY <1>1 DEF Inv, Shape
<1>3. DeathComes' /\ OneDeath'
  BY <1>1 DEF Inv, DeathComes, OneDeath, Doomed, Has, Deferred
<1>4. QED
  BY <1>2, <1>3 DEF Inv

\* Actions go on, or panic.
LEMMA actionKeeps == ASSUME Inv, action PROVE Inv'
<1>1. CASE \E at : Panic(at)
  BY <1>1, Stays DEF Panic
<1>2. ASSUME NEW due \in SUBSET With("Action"), NEW hitters, NEW ended,
             hitters = {e \in due : ActionOf(e).phase = "Casting"},
             Runs("action"), Finishes("action"),
             state' = [e \in Fighters |->
                    IF e \in hitters
                    THEN Inserted(state[e], [ActionOf(e) EXCEPT !.phase = "Teardown"]) ELSE state[e]],
             Buffers("action", [e \in ended |-> Remove("Action")]),
             UNCHANGED <<exists, queue, battle, spawns>>
      PROVE  Inv'
  <2>1. ASSUME NEW e \in Fighters
        PROVE  (\A c \in state'[e] : Comp(c)) /\ (Has(e, "Dead")' <=> Has(e, "Dead"))
    <3>1. \A c \in state[e] : Comp(c)
      BY DEF Inv, Shape
    <3>2. CASE e \in hitters
      <4>1. \E c \in state[e] : c.kind = "Action"
        BY <1>2, <3>2 DEF With, Has
      <4>2. PICK a : a = ActionOf(e) /\ a \in state[e] /\ a.kind = "Action"
        BY <4>1 DEF ActionOf
      <4>3. PICK b : b = [a EXCEPT !.phase = "Teardown"]
        OBVIOUS
      <4>4. "kind" \in DOMAIN a
        BY <3>1, <4>2 DEF Comp
      <4>5. "kind" \in DOMAIN b /\ b.kind = "Action"
        BY <4>2, <4>3, <4>4
      <4>6. Comp(b) /\ ~IsDead(b)
        BY <4>5 DEF Comp, Kinds, IsDead
      <4>7. state'[e] = Inserted(state[e], b)
        BY <1>2, <3>2, <4>2, <4>3
      <4>8. QED
        BY <3>1, <4>6, <4>7, InsertedIs DEF Has, IsDead
    <3>3. CASE e \notin hitters
      BY <1>2, <3>1, <3>3 DEF Has
    <3>4. QED
      BY <3>2, <3>3
  <2>2. ASSUME NEW x \in ended PROVE Cmd("action", x, Remove("Action")) /\ Remove("Action").insert = {}
    <3>1. "action" # "create_drops" /\ "Action" # "Dead"
      OBVIOUS
    <3>2. QED
      BY <3>1, Removes, Zenon
  <2>3. /\ state' = [e \in Fighters |-> state'[e]] /\ queue' = [e \in Fighters |-> queue'[e]] /\ spawns' \subseteq DOMAIN Gold
        /\ \A e \in Fighters : Queue(queue'[e]) /\ (DeadIn(queue'[e]) <=> DeadIn(queue[e]))
    BY <1>2 DEF Inv, Shape
  <2>4. PICK cmds : cmds = [e \in ended |-> Remove("Action")]
    OBVIOUS
  <2>5. Buffers("action", cmds) /\ \A x \in DOMAIN cmds : Cmd("action", x, cmds[x]) /\ \A c \in cmds[x].insert : ~IsDead(c)
    BY <1>2, <2>2, <2>4
  <2>6. QED
    BY <1>2, <2>1, <2>3, <2>5, SystemKeeps
<1>3. \/ \E at : Panic(at)
      \/ \E due \in SUBSET With("Action") :
           \E hitters, ended :
             /\ hitters = {e \in due : ActionOf(e).phase = "Casting"}
             /\ Runs("action") /\ Finishes("action")
             /\ state' = [e \in Fighters |->
                    IF e \in hitters
                    THEN Inserted(state[e], [ActionOf(e) EXCEPT !.phase = "Teardown"]) ELSE state[e]]
             /\ Buffers("action", [e \in ended |-> Remove("Action")])
             /\ UNCHANGED <<exists, queue, battle, spawns>>
  BY Zenon DEF action
<1>4. QED
  BY <1>1, <1>2, <1>3

\* A transition takes the death that was requested out of the queue, and defers it.
LEMMA TransitionKeeps ==
    ASSUME Inv, NEW s, Runs(s), Finishes(s), UNCHANGED <<exists, state, battle, spawns>>,
           NEW cmds, Buffers(s, cmds), \A x \in DOMAIN cmds : Cmd(s, x, cmds[x]),
           queue' = [e \in Fighters |-> queue'[e]],
           \A e \in Fighters : Queue(queue'[e]),
           \A e \in Fighters : DeadIn(queue[e]) <=> \/ DeadIn(queue'[e])
                                                    \/ e \in DOMAIN cmds /\ \E c \in cmds[e].insert : IsDead(c)
    PROVE  Inv'
<1>0. UNCHANGED <<health, died>> /\ Shape
  BY DEF battle, Inv
<1>1. /\ buffer' = [t \in Systems |-> buffer'[t]] /\ todo' \subseteq Systems
      /\ \A t \in Systems : \A x \in DOMAIN buffer'[t] : Cmd(t, x, buffer'[t][x])
      /\ \A t \in todo' : DOMAIN buffer'[t] = {}
      /\ \A e : Deferred(e)' <=> Deferred(e) \/ (e \in DOMAIN cmds /\ \E c \in cmds[e].insert : IsDead(c))
  BY <1>0, Defers
<1>2. Shape'
  BY <1>0, <1>1 DEF Shape
<1>3. \A e \in Fighters : Has(e, "Dead")' <=> Has(e, "Dead")
  BY DEF Has
<1>4. \A e \in Fighters : Doomed(e)' <=> Doomed(e)
  BY <1>1, <1>3 DEF Doomed
<1>5. DeathComes' /\ OneDeath'
  BY <1>0, <1>4 DEF Inv, DeathComes, OneDeath
<1>6. QED
  BY <1>2, <1>5 DEF Inv

\* From idle and from moving the whole queue goes for the request that wins.
LEMMA NewStateKeeps ==
    ASSUME Inv, NEW s, s # "create_drops", NEW kind, kind # "Dead", transition_to_new_state(s, kind)
    PROVE  Inv'
<1>1. Runs(s) /\ Finishes(s) /\ UNCHANGED <<exists, state, battle, spawns>>
  BY DEF transition_to_new_state, events
<1>2. PICK asked :
         /\ asked = {e \in With(kind) : queue[e] # <<>>}
         /\ Buffers(s, [e \in asked |-> Replace(kind, Chosen(queue[e]))])
         /\ queue' = [e \in Fighters |-> IF e \in asked THEN <<>> ELSE queue[e]]
  BY DEF transition_to_new_state
<1>3. PICK cmds : cmds = [e \in asked |-> Replace(kind, Chosen(queue[e]))]
  OBVIOUS
<1>4. ASSUME NEW e \in asked
      PROVE  /\ e \in Fighters /\ Comp(Chosen(queue[e])) /\ (IsDead(Chosen(queue[e])) <=> DeadIn(queue[e]))
             /\ Cmd(s, e, cmds[e]) /\ cmds[e].insert = {Chosen(queue[e])}
  <2>1. e \in Fighters /\ queue[e] # <<>> /\ Queue(queue[e])
    BY <1>2 DEF With, Inv, Shape
  <2>2. Comp(Chosen(queue[e])) /\ (IsDead(Chosen(queue[e])) <=> DeadIn(queue[e]))
    BY <2>1, ChosenIs
  <2>3. cmds[e] = Replace(kind, Chosen(queue[e]))
    BY <1>3
  <2>4. QED
    BY <2>1, <2>2, <2>3, Replaces
<1>5. DOMAIN cmds = asked /\ Buffers(s, cmds)
  BY <1>2, <1>3
<1>6. \A e \in Fighters : queue'[e] = IF e \in asked THEN <<>> ELSE queue[e]
  BY <1>2
<1>7. \A e \in Fighters : Queue(queue'[e])
  BY <1>6, Few DEF Inv, Shape
<1>8. \A e \in Fighters : DeadIn(queue[e]) <=> \/ DeadIn(queue'[e])
                                               \/ e \in DOMAIN cmds /\ \E c \in cmds[e].insert : IsDead(c)
  BY <1>4, <1>5, <1>6, Few
<1>9. queue' = [e \in Fighters |-> queue'[e]]
  BY <1>2
<1>10. QED
  BY <1>1, <1>4, <1>5, <1>7, <1>8, <1>9, TransitionKeeps

\* From an action only death is let through, and nothing else is lost that matters.
LEMMA transition_from_attackingKeeps == ASSUME Inv, transition_from_attacking PROVE Inv'
<1>1. Runs("transition_from_attacking") /\ Finishes("transition_from_attacking") /\ UNCHANGED <<exists, state, battle, spawns>>
  BY DEF transition_from_attacking, events
<1>2. PICK moved :
         /\ moved = {e \in With("Action") : queue[e] # <<>> /\ Priority(Chosen(queue[e])) > 2}
         /\ Buffers("transition_from_attacking", [e \in moved |-> Replace("Action", Chosen(queue[e]))])
         /\ queue' = [e \in Fighters |-> IF e \in With("Action") THEN <<>> ELSE queue[e]]
  BY DEF transition_from_attacking
<1>3. PICK cmds : cmds = [e \in moved |-> Replace("Action", Chosen(queue[e]))]
  OBVIOUS
<1>4. ASSUME NEW e \in Fighters, queue[e] # <<>>
      PROVE  /\ Comp(Chosen(queue[e])) /\ (IsDead(Chosen(queue[e])) <=> DeadIn(queue[e]))
             /\ Priority(Chosen(queue[e])) > 2 <=> IsDead(Chosen(queue[e]))
  <2>1. Queue(queue[e])
    BY DEF Inv, Shape
  <2>2. Comp(Chosen(queue[e])) /\ (IsDead(Chosen(queue[e])) <=> DeadIn(queue[e]))
    BY <1>4, <2>1, ChosenIs
  <2>3. QED
    BY <2>2, PriorityIs
<1>5. ASSUME NEW e \in moved
      PROVE  /\ e \in Fighters /\ e \in With("Action") /\ DeadIn(queue[e]) /\ IsDead(Chosen(queue[e]))
             /\ Cmd("transition_from_attacking", e, cmds[e]) /\ cmds[e].insert = {Chosen(queue[e])}
  <2>1. e \in Fighters /\ e \in With("Action") /\ queue[e] # <<>> /\ Priority(Chosen(queue[e])) > 2
    BY <1>2 DEF With
  <2>2. Comp(Chosen(queue[e])) /\ DeadIn(queue[e]) /\ IsDead(Chosen(queue[e]))
    BY <1>4, <2>1
  <2>3. cmds[e] = Replace("Action", Chosen(queue[e]))
    BY <1>3
  <2>4. "transition_from_attacking" # "create_drops" /\ "Action" # "Dead"
    OBVIOUS
  <2>5. /\ Cmd("transition_from_attacking", e, Replace("Action", Chosen(queue[e])))
        /\ Replace("Action", Chosen(queue[e])).insert = {Chosen(queue[e])}
    BY <2>2, <2>4, Replaces, Zenon
  <2>6. QED
    BY <2>1, <2>2, <2>3, <2>5
<1>6. DOMAIN cmds = moved /\ Buffers("transition_from_attacking", cmds)
  BY <1>2, <1>3
<1>7. \A e \in Fighters : queue'[e] = IF e \in With("Action") THEN <<>> ELSE queue[e]
  BY <1>2
<1>8. \A e \in Fighters : Queue(queue'[e])
  BY <1>7, Few DEF Inv, Shape
<1>9. ASSUME NEW e \in Fighters
      PROVE  DeadIn(queue[e]) <=> \/ DeadIn(queue'[e])
                                  \/ e \in DOMAIN cmds /\ \E c \in cmds[e].insert : IsDead(c)
  <2>1. CASE e \notin With("Action")
    BY <1>5, <1>6, <1>7, <2>1
  <2>2. CASE e \in With("Action") /\ DeadIn(queue[e])
    <3>1. queue[e] # <<>>
      BY <2>2, Few
    <3>2. e \in moved
      BY <1>2, <1>4, <2>2, <3>1
    <3>3. QED
      BY <1>5, <1>6, <2>2, <3>2
  <2>3. CASE e \in With("Action") /\ ~DeadIn(queue[e])
    <3>1. e \notin moved
      BY <1>5, <2>3
    <3>2. QED
      BY <1>6, <1>7, <2>3, <3>1, Few
  <2>4. QED
    BY <2>1, <2>2, <2>3
<1>10. queue' = [e \in Fighters |-> queue'[e]]
  BY <1>2
<1>11. \A x \in DOMAIN cmds : Cmd("transition_from_attacking", x, cmds[x])
  BY <1>5, <1>6
<1>12. QED
  BY <1>1, <1>6, <1>8, <1>9, <1>10, <1>11, TransitionKeeps
\* The blow that takes the last health requests death, and no other does.
LEMMA ReceivesKeeps ==
    ASSUME Inv, NEW event, event.target \in exists \intersect Fighters, ~is_dead(event.target), Receives(event),
           UNCHANGED <<exists, state, spawns, todo, buffer>>
    PROVE  Inv'
<1>1. PICK v : v = event.target
  OBVIOUS
<1>2. PICK left : left = saturating_sub(health[event.target], Absorbed(event))
  OBVIOUS
<1>3. v \in Fighters /\ v \in exists /\ health[v] # 0 /\ Shape /\ DeathComes /\ OneDeath
  BY <1>1 DEF is_dead, Inv
<1>4. health' = [health EXCEPT ![v] = left]
  BY <1>1, <1>2 DEF Receives
<1>5. \/ left = 0 /\ died' = [died EXCEPT ![v] = @ + 1] /\ queue' = [queue EXCEPT ![v] = Append(@, dead_state(v))]
      \/ left # 0 /\ UNCHANGED <<died, queue>>
  BY <1>1, <1>2 DEF Receives
<1>6. health' = [e \in Fighters |-> health'[e]] /\ health'[v] = left /\ \A e \in Fighters \ {v} : health'[e] = health[e]
  BY <1>3, <1>4 DEF Shape
<1>7. \A e \in Fighters : Has(e, "Dead")' <=> Has(e, "Dead")
  BY DEF Has
<1>8. \A e : Deferred(e)' <=> Deferred(e)
  BY DEF Deferred
<1>9. died[v] = 0 /\ ~Doomed(v)
  BY <1>3 DEF OneDeath, DeathComes
<1>10. CASE left = 0
  <2>1. /\ died' = [e \in Fighters |-> died'[e]] /\ died'[v] = 1 /\ \A e \in Fighters \ {v} : died'[e] = died[e]
    BY <1>3, <1>5, <1>9, <1>10 DEF Shape
  <2>2. /\ queue' = [e \in Fighters |-> queue'[e]] /\ queue'[v] = Append(queue[v], dead_state(v))
        /\ \A e \in Fighters \ {v} : queue'[e] = queue[e]
    BY <1>3, <1>5, <1>10 DEF Shape
  <2>3. Comp(dead_state(v)) /\ IsDead(dead_state(v))
    BY Made DEF dead_state
  <2>4. Queue(queue'[v]) /\ DeadIn(queue'[v])
    <3>1. Queue(queue[v])
      BY <1>3 DEF Shape
    <3>2. QED
      BY <2>2, <2>3, <3>1, Requested
  <2>5. Shape'
    <3>1. \A e \in Fighters : Queue(queue'[e])
      BY <1>3, <2>2, <2>4 DEF Shape
    <3>2. QED
      BY <1>3, <1>6, <2>1, <2>2, <3>1 DEF Shape
  <2>6. OneDeath'
    <3>1. ASSUME NEW e \in Fighters PROVE died'[e] = IF health'[e] = 0 THEN 1 ELSE 0
      <4>1. CASE e = v
        BY <1>6, <1>10, <2>1, <4>1
      <4>2. CASE e # v
        BY <1>3, <1>6, <2>1, <4>2 DEF OneDeath
      <4>3. QED
        BY <4>1, <4>2
    <3>2. QED
      BY <3>1 DEF OneDeath
  <2>7. ASSUME NEW e \in Fighters \intersect exists PROVE (health'[e] = 0) <=> Doomed(e)'
    <3>1. CASE e = v
      BY <1>6, <1>10, <2>4, <3>1 DEF Doomed
    <3>2. CASE e # v
      BY <1>3, <1>6, <1>7, <1>8, <2>2, <3>2 DEF Doomed, DeathComes
    <3>3. QED
      BY <3>1, <3>2
  <2>8. QED
    BY <2>5, <2>6, <2>7 DEF Inv, DeathComes
<1>11. CASE left # 0
  <2>1. UNCHANGED <<died, queue>>
    BY <1>5, <1>11
  <2>2. Shape'
    BY <1>3, <1>6, <2>1 DEF Shape
  <2>3. \A e \in Fighters : (health'[e] = 0) <=> (health[e] = 0)
    BY <1>3, <1>6, <1>11
  <2>4. OneDeath'
    BY <1>3, <2>1, <2>3 DEF OneDeath
  <2>5. \A e \in Fighters : Doomed(e)' <=> Doomed(e)
    BY <1>7, <1>8, <2>1 DEF Doomed
  <2>6. QED
    BY <1>3, <2>2, <2>3, <2>4, <2>5 DEF Inv, DeathComes
<1>12. QED
  BY <1>10, <1>11

\* handle_damage reads its events, those of the dead included.
LEMMA handle_damageKeeps == ASSUME Inv, handle_damage PROVE Inv'
<1>0. Runs("handle_damage") /\ Silent
  BY DEF handle_damage
<1>1. CASE damage = <<>>
  <2>1. Finishes("handle_damage") /\ UNCHANGED <<exists, state, queue, battle, spawns>>
    BY <1>1 DEF handle_damage, world, events
  <2>2. QED
    BY <1>0, <2>1, DeferringKeeps DEF Inv, Shape
<1>2. CASE damage # <<>>
  <2>1. PICK event : event = Head(damage)
    OBVIOUS
  <2>2. CASE Panic("sender")
    BY <2>2, Stays DEF Panic
  <2>3. CASE /\ event.target \notin exists \intersect Fighters \/ is_dead(event.target)
             /\ UNCHANGED <<battle, queue, exists, state, spawns, todo>>
    <3>1. UNCHANGED <<exists, state, queue, health, died, buffer, todo, spawns>>
      BY <1>0, <2>3 DEF battle, Silent
    <3>2. Shape'
      BY <3>1 DEF Inv, Shape
    <3>3. DeathComes' /\ OneDeath'
      BY <3>1 DEF Inv, DeathComes, OneDeath, Doomed, Has, Deferred
    <3>4. QED
      BY <3>2, <3>3 DEF Inv
  <2>4. CASE /\ event.target \in exists \intersect Fighters /\ ~is_dead(event.target)
             /\ Receives(event) /\ UNCHANGED <<exists, state, spawns, todo>>
    BY <1>0, <2>4, ReceivesKeeps DEF Silent
  <2>5. QED
    BY <1>2, <2>1, <2>2, <2>3, <2>4 DEF handle_damage
<1>3. QED
  BY <1>1, <1>2

\* A command does what it defers.
LEMMA ChangedIs ==
    ASSUME NEW st, \A d \in st : Comp(d), NEW s, NEW x, NEW c, Cmd(s, x, c)
    PROVE  /\ \A d \in Changed(st, c) : Comp(d)
           /\ (\E d \in Changed(st, c) : IsDead(d)) <=> (\E d \in st : IsDead(d)) \/ (\E k \in c.insert : IsDead(k))
<1>1. PICK kept : kept = {d \in st : d.kind \notin c.remove}
  OBVIOUS
<1>2. (\A d \in kept : Comp(d)) /\ ((\E d \in kept : IsDead(d)) <=> (\E d \in st : IsDead(d)))
  BY <1>1 DEF Cmd, IsDead
<1>3. CASE c.insert = {}
  <2>1. Changed(st, c) = kept
    BY <1>1, <1>3 DEF Changed
  <2>2. QED
    BY <1>2, <1>3, <2>1
<1>4. CASE c.insert # {}
  <2>1. PICK k : k = CHOOSE j \in c.insert : TRUE
    OBVIOUS
  <2>2. k \in c.insert
    BY <1>4, <2>1
  <2>3. Comp(k) /\ c.insert = {k}
    BY <2>2 DEF Cmd
  <2>4. Changed(st, c) = Inserted(kept, k)
    BY <1>1, <1>4, <2>1 DEF Changed
  <2>5. QED
    BY <1>2, <2>3, <2>4, InsertedIs
<1>5. QED
  BY <1>3, <1>4

\* The commands of a system are applied.
LEMMA ApplyKeeps == ASSUME Inv, NEW s \in Systems, Apply(s) PROVE Inv'
<1>1. CASE Panic(s)
  BY <1>1, Stays DEF Panic
<1>2. PICK cmds : cmds = buffer[s]
  OBVIOUS
<1>3. PICK despawned : despawned = {e \in DOMAIN cmds : cmds[e].despawn}
  OBVIOUS
<1>4. PICK changed : changed = {e \in DOMAIN cmds : e \in Fighters \intersect exists /\ ~cmds[e].despawn}
  OBVIOUS
<1>5. CASE /\ exists' = (exists \ despawned) \union {e \in DOMAIN cmds : cmds[e] = Spawn}
           /\ state' = [e \in Fighters |->
                IF e \in despawned THEN {} ELSE IF e \in changed THEN Changed(state[e], cmds[e]) ELSE state[e]]
           /\ queue' = [e \in Fighters |-> IF e \in despawned THEN <<>> ELSE queue[e]]
           /\ buffer' = [buffer EXCEPT ![s] = NoCommands]
           /\ UNCHANGED <<battle, events, schedule, todo, reading>>
           /\ todo = {}
  <2>0. Shape /\ DeathComes /\ OneDeath /\ UNCHANGED <<health, died, spawns>> /\ todo' = {}
    BY <1>5 DEF Inv, battle, events
  <2>1. \A x \in DOMAIN cmds : Cmd(s, x, cmds[x])
    BY <1>2, <2>0 DEF Shape
  <2>2. buffer' = [t \in Systems |-> buffer'[t]] /\ DOMAIN buffer'[s] = {} /\ \A t \in Systems \ {s} : buffer'[t] = buffer[t]
    BY <1>5, <2>0 DEF Shape, NoCommands
  <2>3. \A e : Deferred(e) <=> Deferred(e)' \/ (e \in DOMAIN cmds /\ \E c \in cmds[e].insert : IsDead(c))
    BY <1>2, <2>2 DEF Deferred
  <2>4. ASSUME NEW e \in Fighters PROVE (\A c \in state'[e] : Comp(c)) /\ Queue(queue'[e])
    <3>1. (\A c \in state[e] : Comp(c)) /\ Queue(queue[e])
      BY <2>0 DEF Shape
    <3>2. queue'[e] = <<>> \/ queue'[e] = queue[e]
      BY <1>5
    <3>3. CASE e \in changed /\ e \notin despawned
      <4>1. state'[e] = Changed(state[e], cmds[e]) /\ Cmd(s, e, cmds[e])
        BY <1>4, <1>5, <2>1, <3>3
      <4>2. QED
        BY <3>1, <3>2, <4>1, ChangedIs, Few
    <3>4. CASE ~(e \in changed /\ e \notin despawned)
      <4>1. state'[e] = {} \/ state'[e] = state[e]
        BY <1>5, <3>4
      <4>2. QED
        BY <3>1, <3>2, <4>1, Few
    <3>5. QED
      BY <3>3, <3>4
  <2>5. Shape'
    <3>1. state' = [e \in Fighters |-> state'[e]] /\ queue' = [e \in Fighters |-> queue'[e]]
      BY <1>5
    <3>2. \A t \in Systems : \A x \in DOMAIN buffer'[t] : Cmd(t, x, buffer'[t][x])
      BY <2>0, <2>2 DEF Shape
    <3>3. QED
      BY <2>0, <2>2, <2>4, <3>1, <3>2 DEF Shape
  <2>6. ASSUME NEW e \in Fighters, e \in exists' PROVE e \in exists /\ e \notin despawned
    <3>1. ~(e \in DOMAIN cmds /\ cmds[e] = Spawn)
      <4>1. SUFFICES ASSUME e \in DOMAIN cmds, cmds[e] = Spawn PROVE FALSE
        OBVIOUS
      <4>2. Cmd(s, e, cmds[e])
        BY <2>1, <4>1
      <4>3. PICK m \in DOMAIN Gold : e = Gold[m]
        BY <4>1, <4>2 DEF Cmd
      <4>4. e \in Drops
        BY <4>3, AgentAssumption DEF Injection
      <4>5. QED
        BY <4>4, AgentAssumption
    <3>2. QED
      BY <1>5, <2>6, <3>1
  <2>7. ASSUME NEW e \in Fighters, e \in exists' PROVE Doomed(e)' <=> Doomed(e)
    <3>1. e \in exists /\ e \notin despawned /\ queue'[e] = queue[e]
      BY <1>5, <2>6, <2>7
    <3>2. CASE e \in DOMAIN cmds
      <4>1. e \in changed /\ Cmd(s, e, cmds[e])
        BY <1>3, <1>4, <2>1, <3>1, <3>2
      <4>2. state'[e] = Changed(state[e], cmds[e])
        BY <1>5, <3>1, <4>1
      <4>3. \A d \in state[e] : Comp(d)
        BY <2>0 DEF Shape
      <4>4. (\E d \in state'[e] : IsDead(d)) <=> (\E d \in state[e] : IsDead(d)) \/ (\E k \in cmds[e].insert : IsDead(k))
        BY <4>1, <4>2, <4>3, ChangedIs, ZenonT(30)
      <4>5. Has(e, "Dead")' <=> Has(e, "Dead") \/ (\E k \in cmds[e].insert : IsDead(k))
        BY <4>4 DEF Has, IsDead
      <4>6. QED
        BY <2>3, <3>1, <3>2, <4>5 DEF Doomed
    <3>3. CASE e \notin DOMAIN cmds
      <4>1. state'[e] = state[e]
        BY <1>4, <1>5, <3>1, <3>3
      <4>2. Has(e, "Dead")' <=> Has(e, "Dead")
        BY <4>1 DEF Has
      <4>3. QED
        BY <2>3, <3>1, <3>3, <4>2 DEF Doomed
    <3>4. QED
      BY <3>2, <3>3
  <2>8. DeathComes'
    BY <2>0, <2>6, <2>7 DEF DeathComes
  <2>9. OneDeath'
    BY <2>0 DEF OneDeath
  <2>10. QED
    BY <2>5, <2>8, <2>9 DEF Inv
<1>6. QED
  BY <1>1, <1>2, <1>3, <1>4, <1>5 DEF Apply

\* A schedule ends when nothing is deferred.
LEMMA NextScheduleKeeps == ASSUME Inv, NextSchedule PROVE Inv'
<1>1. UNCHANGED <<exists, state, queue, health, died, buffer, spawns>> /\ todo' \subseteq Systems /\ Buffered = {}
  BY SystemsAre DEF NextSchedule, world, battle, events
<1>2. \A s \in Systems : DOMAIN buffer[s] = {}
  <2>1. DOMAIN NoCommands = {}
    BY DEF NoCommands
  <2>2. QED
    BY <1>1, <2>1 DEF Buffered
<1>3. Shape'
  BY <1>1, <1>2 DEF Inv, Shape
<1>4. DeathComes' /\ OneDeath'
  BY <1>1 DEF Inv, DeathComes, OneDeath, Doomed, Has, Deferred
<1>5. QED
  BY <1>3, <1>4 DEF Inv

\* No step leaves the invariant.
LEMMA InvStep == Inv /\ [Next]_vars => Inv'
<1> SUFFICES ASSUME Inv, [Next]_vars PROVE Inv'
  OBVIOUS
<1>1. CASE UNCHANGED vars
  BY <1>1, Stays DEF vars
<1>2. CASE \/ disconnected \/ transition_to_idle \/ movement \/ dead \/ handle_action \/ attack_player
           \/ drop_gold \/ tick_drop \/ spawn_monsters \/ create_drops
  BY <1>2, PlainKeeps
<1>3. CASE transition_from_idle
  <2>1. transition_to_new_state("transition_from_idle", "Idle") /\ "transition_from_idle" # "create_drops" /\ "Idle" # "Dead"
    BY <1>3 DEF transition_from_idle
  <2>2. QED
    BY <2>1, NewStateKeeps
<1>4. CASE transition_from_moving
  <2>1. transition_to_new_state("transition_from_moving", "Moving") /\ "transition_from_moving" # "create_drops" /\ "Moving" # "Dead"
    BY <1>4 DEF transition_from_moving
  <2>2. QED
    BY <2>1, NewStateKeeps
<1>5. QED
  BY <1>1, <1>2, <1>3, <1>4, movement_inputKeeps, update_actionKeeps, enqueue_actionKeeps, movement_monsterKeeps,
     pickupKeeps, actionKeeps, transition_from_attackingKeeps, handle_damageKeeps, ApplyKeeps, NextScheduleKeeps DEF Next

\* The invariant holds in every reachable state.
LEMMA AlwaysInv == Spec => []Inv
<1>1. Inv /\ [Next]_vars => Inv'
  BY InvStep
<1>2. QED
  BY <1>1, InvInit, PTL DEF Spec

\* The death of a fighter is requested, on its way or there from the blow that takes
\* its last health, whatever drains the queue of its requests.
THEOREM DeathIsNotLost == Spec => []DeathNotLost
<1>1. Inv => DeathNotLost
  BY DeathComesIs
<1>2. QED
  BY <1>1, AlwaysInv, PTL

\* A fighter dies once.
THEOREM DeathIsOnce == Spec => []OneDeath
<1>1. Inv => OneDeath
  BY DEF Inv
<1>2. QED
  BY <1>1, AlwaysInv, PTL
-----------------------------------------------------------------------------
(* The invariant behind gifts: the gold of a monster comes into the world   *)
(* once, by way of its death, the request to spawn it and the command that   *)
(* does, and a drop that was given is gone or about to be removed.           *)

Given(d) == \E p \in Players : gifts[d][p] # 0
Leaving(d) == d \in DOMAIN buffer["pickup"] /\ buffer["pickup"][d].despawn
Coming(m) == Gold[m] \in DOMAIN buffer["create_drops"]
There(m) == Gold[m] \in exists \/ Given(Gold[m])

Gifts == \A d \in Drops, p \in Players : gifts[d][p] \in {0, 1}
GoldOnce ==
    \A m \in DOMAIN Gold :
        /\ m \in deaths \/ m \in spawns \/ Coming(m) \/ There(m) => health[m] = 0
        /\ m \in deaths => m \notin spawns /\ ~Coming(m) /\ ~There(m)
        /\ m \in spawns => ~Coming(m) /\ ~There(m)
        /\ Coming(m) => ~There(m)
Gone == \A d \in Drops : Given(d) => d \notin exists \/ Leaving(d)

Once == Gifts /\ GoldOnce /\ Gone

\* The two systems it watches are systems, and gold is a drop.
LEMMA Watched ==
    /\ "pickup" \in Systems /\ "create_drops" \in Systems
    /\ \A m \in DOMAIN Gold : m \in Fighters /\ Gold[m] \in Drops /\ Gold[m] \notin InitialDrops
    /\ \A m, n \in DOMAIN Gold : Gold[m] = Gold[n] => m = n
<1>1. "pickup" \in SystemsOf("Update") /\ "create_drops" \in SystemsOf("PostUpdate")
  BY DEF SystemsOf, ExecuteSet
<1>2. "pickup" \in Systems /\ "create_drops" \in Systems
  BY <1>1 DEF Systems
<1>3. Gold \in [DOMAIN Gold -> Drops \ InitialDrops]
  BY AgentAssumption DEF Injection
<1>4. \A m, n \in DOMAIN Gold : Gold[m] = Gold[n] => m = n
  BY AgentAssumption DEF Injection, IsInjective
<1>5. DOMAIN Gold \subseteq Fighters
  BY AgentAssumption DEF Fighters
<1>6. QED
  BY <1>2, <1>3, <1>4, <1>5

\* The start: nobody is dead and no gold lies around.
LEMMA OnceInit == Init => Once
<1> SUFFICES ASSUME Init PROVE Once
  OBVIOUS
<1>1. \A d \in Drops, p \in Players : gifts[d][p] = 0
  BY DEF Init
<1>2. DOMAIN buffer["create_drops"] = {}
  BY Watched DEF Init, NoCommands
<1>3. \A m \in DOMAIN Gold : Gold[m] \notin exists /\ Gold[m] \in Drops
  BY Watched, AgentAssumption DEF Init
<1>4. deaths = {} /\ spawns = {}
  BY DEF Init
<1>5. QED
  BY <1>1, <1>2, <1>3, <1>4 DEF Once, Gifts, GoldOnce, Gone, Given, Coming, There

\* What touches none of it.
LEMMA OnceStays ==
    ASSUME Once, UNCHANGED <<exists, health, deaths, spawns, gifts>>,
           buffer'["pickup"] = buffer["pickup"], buffer'["create_drops"] = buffer["create_drops"]
    PROVE  Once'
<1>1. \A d : (Given(d)' <=> Given(d)) /\ (Leaving(d)' <=> Leaving(d))
  BY DEF Given, Leaving
<1>2. \A m : (Coming(m)' <=> Coming(m)) /\ (There(m)' <=> There(m))
  BY <1>1 DEF Coming, There
<1>3. Gifts' /\ Gone'
  BY <1>1 DEF Once, Gifts, Gone
<1>4. GoldOnce'
  BY <1>2 DEF Once, GoldOnce
<1>5. QED
  BY <1>3, <1>4 DEF Once

\* A system that neither kills nor gives nor drops.
LEMMA OnceSystem ==
    ASSUME Shape, Once, UNCHANGED <<exists, battle, deaths, spawns, gifts>>, NEW s, s # "pickup", s # "create_drops",
           Silent \/ \E cmds : Buffers(s, cmds)
    PROVE  Once'
<1>1. UNCHANGED health
  BY DEF battle
<1>2. buffer = [t \in Systems |-> buffer[t]]
  BY DEF Shape
<1>3. buffer'["pickup"] = buffer["pickup"] /\ buffer'["create_drops"] = buffer["create_drops"]
  BY <1>2, Watched DEF Silent, Buffers
<1>4. QED
  BY <1>1, <1>3, OnceStays

\* Most systems are like that.
LEMMA OncePlain ==
    ASSUME Shape, Once,
           \/ movement_input \/ update_action \/ disconnected
           \/ transition_to_idle \/ transition_from_idle \/ transition_from_moving \/ transition_from_attacking
           \/ movement \/ dead \/ handle_action \/ attack_player \/ movement_monster \/ tick_drop \/ spawn_monsters
           \/ enqueue_action
    PROVE  Once'
<1>1. UNCHANGED <<exists, battle, deaths, spawns, gifts>>
  BY DEF movement_input, update_action, disconnected, transition_to_idle, transition_from_idle, transition_from_moving,
         transition_to_new_state, transition_from_attacking, movement, dead, handle_action, attack_player,
         movement_monster, tick_drop, spawn_monsters, enqueue_action, world, events
<1>2. \/ Silent
      \/ \E s \in {"disconnected", "transition_to_idle", "transition_from_idle", "transition_from_moving",
                   "transition_from_attacking", "movement", "dead", "tick_drop", "spawn_monsters"} :
            \E cmds : Buffers(s, cmds)
  <2>1. CASE \/ movement_input \/ update_action \/ handle_action \/ attack_player \/ movement_monster \/ enqueue_action
    BY <2>1 DEF movement_input, update_action, handle_action, attack_player, movement_monster, enqueue_action
  <2>2. CASE disconnected
    BY <2>2 DEF disconnected
  <2>3. CASE transition_to_idle
    BY <2>3 DEF transition_to_idle
  <2>4. CASE transition_from_idle
    BY <2>4 DEF transition_from_idle, transition_to_new_state
  <2>5. CASE transition_from_moving
    BY <2>5 DEF transition_from_moving, transition_to_new_state
  <2>6. CASE transition_from_attacking
    BY <2>6 DEF transition_from_attacking
  <2>7. CASE movement
    BY <2>7 DEF movement
  <2>8. CASE dead
    BY <2>8 DEF dead
  <2>9. CASE tick_drop
    BY <2>9 DEF tick_drop
  <2>10. CASE spawn_monsters
    BY <2>10 DEF spawn_monsters
  <2>11. QED
    BY <2>1, <2>2, <2>3, <2>4, <2>5, <2>6, <2>7, <2>8, <2>9, <2>10
<1>3. CASE Silent
  <2>1. "movement" # "pickup" /\ "movement" # "create_drops"
    OBVIOUS
  <2>2. QED
    BY <1>1, <1>3, <2>1, OnceSystem, Zenon
<1>4. ASSUME NEW s \in {"disconnected", "transition_to_idle", "transition_from_idle", "transition_from_moving",
                        "transition_from_attacking", "movement", "dead", "tick_drop", "spawn_monsters"},
             \E cmds : Buffers(s, cmds)
      PROVE  Once'
  <2>1. s # "pickup" /\ s # "create_drops"
    BY <1>4
  <2>2. QED
    BY <1>1, <1>4, <2>1, OnceSystem
<1>5. QED
  BY <1>2, <1>3, <1>4

\* The hits that actions land kill nobody yet.
LEMMA OnceAction == ASSUME Shape, Once, action PROVE Once'
<1>1. ASSUME NEW at, Panic(at) PROVE Once'
  <2>1. UNCHANGED <<exists, health, deaths, spawns, gifts, buffer>>
    BY <1>1 DEF Panic, world, battle, events, loop
  <2>2. QED
    BY <2>1, OnceStays
<1>2. ASSUME NEW cmds, Buffers("action", cmds), UNCHANGED <<exists, battle, deaths, spawns, gifts>> PROVE Once'
  <2>1. "action" # "pickup" /\ "action" # "create_drops"
    OBVIOUS
  <2>2. QED
    BY <1>2, <2>1, OnceSystem, Zenon
<1>3. \/ \E at : Panic(at)
      \/ \E cmds : Buffers("action", cmds) /\ UNCHANGED <<exists, battle, deaths, spawns, gifts>>
  BY DEF action
<1>4. QED
  BY <1>1, <1>2, <1>3

\* A drop that is there was given to nobody, and leaves when it is.
LEMMA OncePickup == ASSUME Shape, Once, pickup PROVE Once'
<1>1. /\ Runs("pickup") /\ UNCHANGED <<exists, health, deaths, spawns>>
  BY DEF pickup, battle, events
<1>t. PICK takers : takers = {p \in With("Pickup") : ~PickupOf(p).taken /\ PickupOf(p).target \in exists}
  OBVIOUS
<1>l. PICK late : late = {p \in With("Pickup") : ~PickupOf(p).taken /\ PickupOf(p).target \notin exists}
  OBVIOUS
<1>d. PICK taken : taken = {PickupOf(p).target : p \in takers}
  OBVIOUS
<1>g. gifts' = [d \in Drops |-> [p \in Players |->
                    IF p \in takers /\ PickupOf(p).target = d THEN gifts[d][p] + 1 ELSE gifts[d][p]]]
  <2>1. gifts' = [d \in Drops |-> [p \in Players |->
                     IF p \in {q \in With("Pickup") : ~PickupOf(q).taken /\ PickupOf(q).target \in exists}
                        /\ PickupOf(p).target = d THEN gifts[d][p] + 1 ELSE gifts[d][p]]]
    BY Zenon DEF pickup
  <2>2. QED
    BY <1>t, <2>1, Zenon
<1>2. PICK done \in SUBSET {p \in With("Pickup") : PickupOf(p).taken} :
         Buffers("pickup", [e \in done \union late \union taken |-> PickupCommand(e, taken, late)])
  BY <1>t, <1>l, <1>d DEF pickup
<1>3. DOMAIN buffer["pickup"] = {} /\ buffer = [s \in Systems |-> buffer[s]]
  BY <1>1 DEF Runs, Shape
<1>4. \A d \in Drops : Given(d) => d \notin exists
  BY <1>3 DEF Once, Gone, Leaving
<1>5. ASSUME NEW d \in Drops, NEW p \in Players
      PROVE  gifts'[d][p] \in {0, 1} /\ (gifts'[d][p] # 0 => gifts[d][p] # 0 \/ d \in taken) /\ (gifts[d][p] # 0 => gifts'[d][p] # 0)
  <2>1. gifts'[d][p] = IF p \in takers /\ PickupOf(p).target = d THEN gifts[d][p] + 1 ELSE gifts[d][p]
    BY <1>g
  <2>2. gifts[d][p] \in {0, 1}
    BY DEF Once, Gifts
  <2>3. CASE p \in takers /\ PickupOf(p).target = d
    <3>1. d \in exists /\ d \in taken
      BY <1>t, <1>d, <2>3
    <3>2. gifts[d][p] = 0
      BY <1>4, <3>1 DEF Given
    <3>3. gifts'[d][p] = 1
      BY <2>1, <2>3, <3>2
    <3>4. QED
      BY <3>1, <3>2, <3>3
  <2>4. CASE ~(p \in takers /\ PickupOf(p).target = d)
    <3>1. gifts'[d][p] = gifts[d][p]
      BY <2>1, <2>4
    <3>2. QED
      BY <2>2, <3>1
  <2>5. QED
    BY <2>3, <2>4
<1>6. \A d \in Drops : (Given(d)' => Given(d) \/ d \in taken) /\ (Given(d) => Given(d)')
  BY <1>5 DEF Given
<1>7. \A d \in taken : d \in exists
  BY <1>t, <1>d
<1>8. buffer'["pickup"] = [e \in done \union late \union taken |-> PickupCommand(e, taken, late)]
  BY <1>2, <1>3, Watched DEF Buffers
<1>9. buffer'["create_drops"] = buffer["create_drops"]
  BY <1>2, <1>3, Watched DEF Buffers
<1>10. \A d \in taken : Leaving(d)'
  <2>1. \A d \in taken : d \in DOMAIN buffer'["pickup"] /\ buffer'["pickup"][d] = Despawn
    BY <1>8 DEF PickupCommand
  <2>2. Despawn.despawn
    BY DEF Despawn
  <2>3. QED
    BY <2>1, <2>2 DEF Leaving
<1>11. Gifts' /\ Gone'
  BY <1>1, <1>4, <1>5, <1>6, <1>10 DEF Gifts, Gone
<1>12. \A m \in DOMAIN Gold : (There(m)' <=> There(m)) /\ (Coming(m)' <=> Coming(m))
  BY <1>1, <1>6, <1>7, <1>9, Watched DEF There, Coming
<1>13. GoldOnce'
  BY <1>1, <1>12 DEF Once, GoldOnce
<1>14. QED
  BY <1>11, <1>13 DEF Once

\* Only somebody who had health left is reported dead.
LEMMA OnceDamage == ASSUME Shape, Once, handle_damage PROVE Once'
<1>1. UNCHANGED <<exists, spawns, gifts, buffer>>
  BY DEF handle_damage, Panic, Silent, world, events, loop
<1>2. CASE UNCHANGED <<health, deaths>>
  BY <1>1, <1>2, OnceStays
<1>3. PICK event : event = Head(damage)
  OBVIOUS
<1>4. \/ UNCHANGED <<health, deaths>>
      \/ event.target \in Fighters /\ ~is_dead(event.target) /\ Receives(event)
  BY <1>3 DEF handle_damage, Panic, world, battle, events
<1>5. CASE event.target \in Fighters /\ ~is_dead(event.target) /\ Receives(event)
  <2>1. PICK v : v = event.target
    OBVIOUS
  <2>2. PICK left : left = saturating_sub(health[event.target], Absorbed(event))
    OBVIOUS
  <2>3. v \in Fighters /\ health[v] # 0 /\ health = [e \in Fighters |-> health[e]]
    BY <1>5, <2>1 DEF is_dead, Shape
  <2>4. health' = [health EXCEPT ![v] = left]
    BY <1>5, <2>1, <2>2 DEF Receives
  <2>5. \/ left = 0 /\ deaths' = deaths \union {v}
        \/ left # 0 /\ deaths' = deaths
    BY <1>5, <2>1, <2>2 DEF Receives
  <2>6. health'[v] = left /\ \A e \in Fighters \ {v} : health'[e] = health[e]
    BY <2>3, <2>4
  <2>7. \A d : (Given(d)' <=> Given(d)) /\ (Leaving(d)' <=> Leaving(d))
    BY <1>1 DEF Given, Leaving
  <2>8. \A m : (Coming(m)' <=> Coming(m)) /\ (There(m)' <=> There(m))
    BY <1>1, <2>7 DEF Coming, There
  <2>9. Gifts' /\ Gone'
    BY <1>1, <2>7 DEF Once, Gifts, Gone
  <2>10. ASSUME NEW m \in DOMAIN Gold
         PROVE  /\ m \in deaths' \/ m \in spawns' \/ Coming(m)' \/ There(m)' => health'[m] = 0
                /\ m \in deaths' => m \notin spawns' /\ ~Coming(m)' /\ ~There(m)'
                /\ m \in spawns' => ~Coming(m)' /\ ~There(m)'
                /\ Coming(m)' => ~There(m)'
    <3>1. /\ m \in deaths \/ m \in spawns \/ Coming(m) \/ There(m) => health[m] = 0
          /\ m \in deaths => m \notin spawns /\ ~Coming(m) /\ ~There(m)
          /\ m \in spawns => ~Coming(m) /\ ~There(m)
          /\ Coming(m) => ~There(m)
      BY DEF Once, GoldOnce
    <3>2. m \in Fighters /\ spawns' = spawns
      BY <1>1, Watched
    <3>3. CASE m = v
      BY <2>3, <2>5, <2>6, <2>8, <3>1, <3>2, <3>3
    <3>4. CASE m # v
      BY <2>5, <2>6, <2>8, <3>1, <3>2, <3>4
    <3>5. QED
      BY <3>3, <3>4
  <2>11. GoldOnce'
    BY <2>10 DEF GoldOnce
  <2>12. QED
    BY <2>9, <2>11 DEF Once
<1>6. QED
  BY <1>2, <1>4, <1>5

\* A death becomes the request for gold,
LEMMA OnceGold == ASSUME Shape, Once, drop_gold PROVE Once'
<1>1. /\ UNCHANGED <<exists, health, gifts, buffer>> /\ deaths' = {}
      /\ \A m \in spawns' : m \in spawns \/ m \in deaths
  BY DEF drop_gold, Silent, world, battle
<1>2. \A d : (Given(d)' <=> Given(d)) /\ (Leaving(d)' <=> Leaving(d))
  BY <1>1 DEF Given, Leaving
<1>3. \A m : (Coming(m)' <=> Coming(m)) /\ (There(m)' <=> There(m))
  BY <1>1, <1>2 DEF Coming, There
<1>4. Gifts' /\ Gone'
  BY <1>1, <1>2 DEF Once, Gifts, Gone
<1>5. GoldOnce'
  BY <1>1, <1>3 DEF Once, GoldOnce
<1>6. QED
  BY <1>4, <1>5 DEF Once

\* the request the command,
LEMMA OnceCreated == ASSUME Shape, Once, create_drops PROVE Once'
<1>1. /\ UNCHANGED <<exists, health, gifts, deaths>> /\ spawns' = {}
      /\ Buffers("create_drops", [d \in {Gold[m] : m \in spawns} |-> Spawn])
  BY DEF create_drops, world, battle
<1>2. buffer = [s \in Systems |-> buffer[s]] /\ spawns \subseteq DOMAIN Gold
  BY DEF Shape
<1>3. buffer'["pickup"] = buffer["pickup"] /\ DOMAIN buffer'["create_drops"] = {Gold[m] : m \in spawns}
  BY <1>1, <1>2, Watched DEF Buffers
<1>4. \A d : (Given(d)' <=> Given(d)) /\ (Leaving(d)' <=> Leaving(d))
  BY <1>1, <1>3 DEF Given, Leaving
<1>5. \A m \in DOMAIN Gold : (Coming(m)' <=> m \in spawns) /\ (There(m)' <=> There(m))
  BY <1>1, <1>2, <1>3, <1>4, Watched DEF Coming, There
<1>6. Gifts' /\ Gone'
  BY <1>1, <1>4 DEF Once, Gifts, Gone
<1>7. GoldOnce'
  BY <1>1, <1>5 DEF Once, GoldOnce
<1>8. QED
  BY <1>6, <1>7 DEF Once

\* and the command the drop; no other command brings anything into the world.
LEMMA OnceApply == ASSUME Shape, Once, NEW s \in Systems, Apply(s) PROVE Once'
<1>1. CASE Panic(s)
  <2>1. UNCHANGED <<exists, health, deaths, spawns, gifts, buffer>>
    BY <1>1 DEF Panic, world, battle, events, loop
  <2>2. QED
    BY <2>1, OnceStays
<1>2. PICK cmds : cmds = buffer[s]
  OBVIOUS
<1>3. CASE /\ exists' = (exists \ {e \in DOMAIN cmds : cmds[e].despawn}) \union {e \in DOMAIN cmds : cmds[e] = Spawn}
           /\ buffer' = [buffer EXCEPT ![s] = NoCommands]
           /\ UNCHANGED <<health, deaths, spawns, gifts>>
  <2>1. \A x \in DOMAIN cmds : Cmd(s, x, cmds[x])
    BY <1>2 DEF Shape
  <2>2. /\ DOMAIN buffer'[s] = {} /\ \A t \in Systems \ {s} : buffer'[t] = buffer[t]
    BY <1>3 DEF Shape, NoCommands
  <2>3. \A d : Given(d)' <=> Given(d)
    BY <1>3 DEF Given
  <2>4. Gifts'
    BY <1>3 DEF Once, Gifts
  <2>5. CASE s = "create_drops"
    <3>1. \A x \in DOMAIN cmds : cmds[x] = Spawn /\ \E m \in DOMAIN Gold : x = Gold[m]
      BY <2>1, <2>5 DEF Cmd
    <3>2. Spawn.despawn = FALSE
      BY DEF Spawn
    <3>3. exists' = exists \union DOMAIN cmds
      BY <1>3, <3>1, <3>2
    <3>4. "pickup" \in Systems \ {s}
      BY <2>5, Watched
    <3>5. \A d : Leaving(d)' <=> Leaving(d)
      BY <2>2, <3>4 DEF Leaving
    <3>6. \A m \in DOMAIN Gold : (There(m)' <=> There(m) \/ Coming(m)) /\ ~Coming(m)'
      BY <1>2, <2>2, <2>3, <2>5, <3>3 DEF There, Coming
    <3>7. ASSUME NEW d \in Drops, Given(d)' PROVE d \notin exists' \/ Leaving(d)'
      <4>1. d \notin exists \/ Leaving(d)
        BY <2>3, <3>7 DEF Once, Gone
      <4>2. d \notin DOMAIN cmds
        <5>1. SUFFICES ASSUME d \in DOMAIN cmds PROVE FALSE
          OBVIOUS
        <5>2. PICK m \in DOMAIN Gold : d = Gold[m]
          BY <3>1, <5>1
        <5>3. Coming(m) /\ There(m)
          BY <1>2, <2>3, <2>5, <3>7, <5>1, <5>2 DEF Coming, There
        <5>4. QED
          BY <5>3 DEF Once, GoldOnce
      <4>3. QED
        BY <3>3, <3>5, <4>1, <4>2
    <3>8. GoldOnce'
      BY <1>3, <3>6 DEF Once, GoldOnce
    <3>9. QED
      BY <2>4, <3>7, <3>8 DEF Once, Gone
  <2>6. CASE s # "create_drops"
    <3>1. exists' = exists \ {e \in DOMAIN cmds : cmds[e].despawn}
      BY <1>3, <2>1, <2>6 DEF Cmd
    <3>2. buffer'["create_drops"] = buffer["create_drops"]
      BY <2>2, <2>6, Watched
    <3>3. \A m \in DOMAIN Gold : (There(m)' => There(m)) /\ (Coming(m)' <=> Coming(m))
      BY <2>3, <3>1, <3>2 DEF There, Coming
    <3>4. GoldOnce'
      BY <1>3, <3>3 DEF Once, GoldOnce
    <3>5. ASSUME NEW d \in Drops, Given(d)' PROVE d \notin exists' \/ Leaving(d)'
      <4>1. d \notin exists \/ Leaving(d)
        BY <2>3, <3>5 DEF Once, Gone
      <4>2. CASE s = "pickup"
        BY <1>2, <3>1, <4>1, <4>2 DEF Leaving
      <4>3. CASE s # "pickup"
        <5>1. buffer'["pickup"] = buffer["pickup"]
          BY <2>2, <4>3, Watched
        <5>2. Leaving(d)' <=> Leaving(d)
          BY <5>1 DEF Leaving
        <5>3. QED
          BY <3>1, <4>1, <5>2
      <4>4. QED
        BY <4>2, <4>3
    <3>6. QED
      BY <2>4, <3>4, <3>5 DEF Once, Gone
  <2>7. QED
    BY <2>5, <2>6
<1>4. Panic(s) \/ /\ exists' = (exists \ {e \in DOMAIN cmds : cmds[e].despawn}) \union {e \in DOMAIN cmds : cmds[e] = Spawn}
                  /\ buffer' = [buffer EXCEPT ![s] = NoCommands]
                  /\ UNCHANGED <<health, deaths, spawns, gifts>>
  BY <1>2 DEF Apply, battle, events
<1>5. QED
  BY <1>1, <1>3, <1>4

\* No step brings the gold of a monster twice or leaves what was given.
LEMMA OnceStep == Inv /\ Once /\ [Next]_vars => Once'
<1> SUFFICES ASSUME Inv, Once, [Next]_vars PROVE Once'
  OBVIOUS
<1>0. Shape
  BY DEF Inv
<1>1. CASE UNCHANGED vars \/ NextSchedule
  <2>1. UNCHANGED <<exists, health, deaths, spawns, gifts, buffer>>
    BY <1>1 DEF vars, NextSchedule, world, battle, events, loop
  <2>2. QED
    BY <2>1, OnceStays
<1>2. QED
  BY <1>0, <1>1, OncePlain, OnceAction, OncePickup, OnceDamage, OnceGold, OnceCreated, OnceApply DEF Next

\* Nobody is given the same drop twice, though goals stay, Pickup and Idle overlap
\* and the despawning of the drop is deferred.
THEOREM NobodyIsGivenTwice == Spec => []NoDoubleGift
<1>1. Inv /\ Once /\ [Next]_vars => Once'
  BY OnceStep
<1>2. Once => NoDoubleGift
  <2>1. \A n : n \in {0, 1} => n <= 1
    OBVIOUS
  <2>2. QED
    BY <2>1 DEF Once, Gifts, NoDoubleGift
<1>3. QED
  BY <1>1, <1>2, AlwaysInv, OnceInit, PTL DEF Spec

\* What was given is not there for another pickup.
LEMMA PickupGivesNew ==
    ASSUME Shape, Once, pickup, NEW d \in Drops, Given(d), NEW p \in Players
    PROVE  gifts'[d][p] = gifts[d][p]
<1>1. PICK takers : takers = {q \in With("Pickup") : ~PickupOf(q).taken /\ PickupOf(q).target \in exists}
  OBVIOUS
<1>2. gifts' = [x \in Drops |-> [q \in Players |->
                    IF q \in takers /\ PickupOf(q).target = x THEN gifts[x][q] + 1 ELSE gifts[x][q]]]
  <2>1. gifts' = [x \in Drops |-> [q \in Players |->
                     IF q \in {r \in With("Pickup") : ~PickupOf(r).taken /\ PickupOf(r).target \in exists}
                        /\ PickupOf(q).target = x THEN gifts[x][q] + 1 ELSE gifts[x][q]]]
    BY Zenon DEF pickup
  <2>2. QED
    BY <1>1, <2>1, Zenon
<1>3. Runs("pickup")
  BY DEF pickup
<1>4. DOMAIN buffer["pickup"] = {}
  BY <1>3 DEF Runs, Shape
<1>5. d \notin exists
  BY <1>4 DEF Once, Gone, Leaving
<1>6. ~(p \in takers /\ PickupOf(p).target = d)
  BY <1>1, <1>5
<1>7. QED
  BY <1>2, <1>6

\* No other system gives anything.
LEMMA OthersGiveNothing == ASSUME [Next]_vars, ~pickup PROVE UNCHANGED gifts
<1>1. CASE movement_input \/ update_action \/ disconnected \/ transition_to_idle \/ transition_from_idle
           \/ transition_from_moving \/ transition_from_attacking \/ movement \/ dead
  BY <1>1 DEF movement_input, update_action, disconnected, transition_to_idle, transition_from_idle, transition_from_moving,
     transition_from_attacking, transition_to_new_state, movement, dead
<1>2. CASE handle_action \/ attack_player \/ drop_gold \/ movement_monster \/ tick_drop \/ spawn_monsters \/ enqueue_action
           \/ create_drops \/ NextSchedule \/ UNCHANGED vars
  BY <1>2 DEF handle_action, attack_player, drop_gold, movement_monster, tick_drop, spawn_monsters, enqueue_action,
     create_drops, NextSchedule, vars
<1>3. CASE action \/ handle_damage
  BY <1>3, Zenon DEF action, handle_damage, Panic
<1>4. CASE \E s \in Systems : Apply(s)
  BY <1>4, Zenon DEF Apply, Panic
<1>5. QED
  BY <1>1, <1>2, <1>3, <1>4 DEF Next

\* A drop that was given to anybody is given to nobody in a later tick: though its
\* despawn is deferred to the end of the schedule, only players whose Pickup runs in the
\* same tick share it.
THEOREM DropsAreGivenInOneTick == Spec => GivenInOneTick
<1>1. Inv /\ Once /\ [Next]_vars => Once'
  BY OnceStep
<1>2. Inv /\ Once /\ [Next]_vars =>
        [\A d \in Drops : (\E p \in Players : gifts[d][p] # 0) =>
            \A p \in Players : gifts'[d][p] = gifts[d][p]]_vars
  <2> SUFFICES ASSUME Inv, Once, [Next]_vars, NEW d \in Drops, Given(d), NEW p \in Players
               PROVE  gifts'[d][p] = gifts[d][p]
    BY DEF Given
  <2>1. CASE pickup
    BY <2>1, PickupGivesNew DEF Inv
  <2>2. CASE ~pickup
    BY <2>2, OthersGiveNothing
  <2>3. QED
    BY <2>1, <2>2
<1>3. QED
  BY <1>1, <1>2, AlwaysInv, OnceInit, PTL DEF Spec, GivenInOneTick
-----------------------------------------------------------------------------
(* The damage that is recorded.                                            *)

\* The fighter that the sum takes from a set first.
FirstOf(S) == CHOOSE a \in S : TRUE

\* Taking a fighter out of a set of them.
LEMMA Smaller ==
    /\ \A S \in SUBSET Fighters : IsFiniteSet(S) /\ Cardinality(S) \in Nat /\ Cardinality(S) <= Cardinality(Fighters)
    /\ \A S \in SUBSET Fighters : S # {} => /\ FirstOf(S) \in S /\ S \ {FirstOf(S)} \in SUBSET Fighters
                                            /\ Cardinality(S \ {FirstOf(S)}) = Cardinality(S) - 1 /\ Cardinality(S) > 0
<1>f. \A S \in SUBSET Fighters : IsFiniteSet(S) /\ Cardinality(S) \in Nat /\ Cardinality(S) <= Cardinality(Fighters)
  BY AgentAssumption, FS_Subset, FS_CardinalityType
<1>r. ASSUME NEW S \in SUBSET Fighters, S # {}
      PROVE  /\ FirstOf(S) \in S /\ S \ {FirstOf(S)} \in SUBSET Fighters
             /\ Cardinality(S \ {FirstOf(S)}) = Cardinality(S) - 1 /\ Cardinality(S) > 0
  <2>1. FirstOf(S) \in S
    BY <1>r DEF FirstOf
  <2>2. Cardinality(S \ {FirstOf(S)}) = Cardinality(S) - 1
    BY <1>f, <2>1, FS_RemoveElement
  <2>3. Cardinality(S) # 0
    BY <1>f, <1>r, FS_EmptySet
  <2>4. QED
    BY <1>f, <2>1, <2>2, <2>3
<1>1. QED
  BY <1>f, <1>r

\* What the sum of numbers adds up.
Sums(f, u) ==
    \A S \in SUBSET Fighters : u[S] = IF S = {} THEN 0 ELSE f[FirstOf(S)] + u[S \ {FirstOf(S)}]

\* The sum is defined for every finite set of fighters.
LEMMA TotalIs ==
    ASSUME NEW f
    PROVE  \E u : Sums(f, u) /\ Total(f) = u[Fighters]
<1> DEFINE Small(n) == {S \in SUBSET Fighters : Cardinality(S) <= n}
           Adds(g, n) == /\ DOMAIN g = Small(n) /\ g = [S \in Small(n) |-> g[S]] /\ g[{}] = 0
                         /\ \A S \in Small(n) : S # {} => g[S] = f[FirstOf(S)] + g[S \ {FirstOf(S)}]
           Bad == {n \in Nat : ~\E g : Adds(g, n)}
<1>e. Cardinality({}) = 0 /\ \A n \in Nat : {} \in Small(n)
  BY FS_EmptySet
<1>s. \A n \in Nat : \A S \in Small(n) : S # {} => n - 1 \in Nat /\ S \ {FirstOf(S)} \in Small(n - 1)
  <2>1. \A S \in SUBSET Fighters : S # {} => /\ S \ {FirstOf(S)} \in SUBSET Fighters /\ Cardinality(S) > 0
                                             /\ Cardinality(S \ {FirstOf(S)}) = Cardinality(S) - 1 /\ Cardinality(S) \in Nat
    BY Smaller, Zenon
  <2>2. \A n, c \in Nat : c <= n /\ c > 0 => n - 1 \in Nat /\ c - 1 <= n - 1
    OBVIOUS
  <2>3. QED
    BY <2>1, <2>2
<1>1. ASSUME Bad # {} PROVE FALSE
  <2>1. PICK n \in Bad : \A m \in Bad : n <= m
    BY <1>1, Least
  <2>2. CASE n = 0
    <3>1. ASSUME NEW S \in Small(0), S # {} PROVE FALSE
      <4>1. Cardinality(S) \in Nat /\ Cardinality(S) > 0 /\ Cardinality(S) <= 0
        BY <3>1, Smaller
      <4>2. QED
        BY <4>1
    <3>2. PICK g : g = [S \in Small(0) |-> 0]
      OBVIOUS
    <3>3. Adds(g, 0)
      BY <1>e, <3>1, <3>2
    <3>4. QED
      BY <2>1, <2>2, <3>3
  <2>3. CASE n # 0
    <3>1. n - 1 \in Nat /\ n \in Nat /\ ~(n <= n - 1)
      BY <2>1, <2>3
    <3>2. n - 1 \notin Bad
      BY <2>1, <3>1, Zenon
    <3>3. PICK h : Adds(h, n - 1)
      BY <3>1, <3>2
    <3>4. PICK g : g = [S \in Small(n) |-> IF S = {} THEN 0 ELSE f[FirstOf(S)] + h[S \ {FirstOf(S)}]]
      OBVIOUS
    <3>5. ASSUME NEW S \in Small(n - 1) PROVE S \in Small(n) /\ g[S] = h[S]
      <4>1. S \in Small(n)
        BY <3>1, Smaller
      <4>2. QED
        BY <3>3, <3>4, <4>1
    <3>6. DOMAIN g = Small(n) /\ g = [S \in Small(n) |-> g[S]] /\ g[{}] = 0
      BY <1>e, <3>1, <3>4
    <3>7. ASSUME NEW S \in Small(n), S # {} PROVE g[S] = f[FirstOf(S)] + g[S \ {FirstOf(S)}]
      <4>1. S \ {FirstOf(S)} \in Small(n - 1)
        BY <1>s, <3>1, <3>7
      <4>2. g[S \ {FirstOf(S)}] = h[S \ {FirstOf(S)}]
        BY <3>5, <4>1
      <4>3. QED
        BY <3>4, <3>7, <4>2
    <3>8. Adds(g, n)
      BY <3>6, <3>7
    <3>9. QED
      BY <2>1, <3>8
  <2>4. QED
    BY <2>2, <2>3
<1>2. PICK n \in Nat : n = Cardinality(Fighters)
  BY Smaller
<1>3. Small(n) = SUBSET Fighters
  BY <1>2, Smaller
<1>4. PICK g : Adds(g, n)
  BY <1>1
<1>5. g = [S \in SUBSET Fighters |-> IF S = {} THEN 0 ELSE f[FirstOf(S)] + g[S \ {FirstOf(S)}]]
  <2>1. \A S \in SUBSET Fighters : g[S] = IF S = {} THEN 0 ELSE f[FirstOf(S)] + g[S \ {FirstOf(S)}]
    BY <1>3, <1>4
  <2>2. g = [S \in SUBSET Fighters |-> g[S]]
    BY <1>3, <1>4
  <2>3. QED
    BY <2>1, <2>2
<1>6. PICK u : u = CHOOSE w : w = [S \in SUBSET Fighters |-> IF S = {} THEN 0 ELSE f[FirstOf(S)] + w[S \ {FirstOf(S)}]]
  OBVIOUS
<1>7. u = [S \in SUBSET Fighters |-> IF S = {} THEN 0 ELSE f[FirstOf(S)] + u[S \ {FirstOf(S)}]]
  BY <1>5, <1>6
<1>8. Sums(f, u)
  BY <1>7 DEF Sums
<1>9. Total(f) = u[Fighters]
  BY <1>6 DEF Total, FirstOf
<1>10. QED
  BY <1>8, <1>9

\* Adding to one of the numbers adds to their sum.
LEMMA TotalGrows ==
    ASSUME NEW f, \A b \in Fighters : f[b] \in Nat, NEW a \in Fighters, NEW n \in Nat, NEW g,
           g[a] = f[a] + n, \A b \in Fighters \ {a} : g[b] = f[b]
    PROVE  Total(f) \in Nat /\ Total(g) = Total(f) + n
<1>1. PICK u : Sums(f, u) /\ Total(f) = u[Fighters]
  BY TotalIs
<1>2. PICK w : Sums(g, w) /\ Total(g) = w[Fighters]
  BY TotalIs
<1> DEFINE Right(S) == u[S] \in Nat /\ w[S] = u[S] + (IF a \in S THEN n ELSE 0)
           Odd == {m \in Nat : \E S \in SUBSET Fighters : Cardinality(S) = m /\ ~Right(S)}
<1>3. ASSUME Odd # {} PROVE FALSE
  <2>1. PICK m \in Odd : \A k \in Odd : m <= k
    BY <1>3, Least
  <2>2. PICK S \in SUBSET Fighters : Cardinality(S) = m /\ ~Right(S)
    BY <2>1
  <2>3. S # {}
    <3>1. SUFFICES ASSUME S = {} PROVE FALSE
      OBVIOUS
    <3>2. u[S] = 0 /\ w[S] = 0 /\ a \notin S
      BY <1>1, <1>2, <3>1 DEF Sums
    <3>3. QED
      BY <2>2, <3>2
  <2>4. PICK x, R : x = FirstOf(S) /\ R = S \ {FirstOf(S)}
    OBVIOUS
  <2>5. x \in S /\ R = S \ {x} /\ R \in SUBSET Fighters /\ Cardinality(R) = m - 1 /\ m > 0
    BY <2>2, <2>3, <2>4, Smaller
  <2>6. m - 1 \in Nat /\ ~(m <= m - 1)
    BY <2>1, <2>5
  <2>7. m - 1 \notin Odd
    BY <2>1, <2>6, Zenon
  <2>8. Right(R)
    BY <2>5, <2>6, <2>7
  <2>9. u[S] = f[x] + u[R]
    BY <1>1, <2>3, <2>4 DEF Sums
  <2>10. w[S] = g[x] + w[R]
    BY <1>2, <2>3, <2>4 DEF Sums
  <2>11. x \in Fighters /\ f[x] \in Nat
    BY <2>2, <2>5
  <2>12. CASE x = a
    <3>1. a \in S /\ a \notin R /\ g[x] = f[x] + n
      BY <2>5, <2>12
    <3>2. u[R] \in Nat /\ w[R] = u[R]
      BY <2>8, <3>1
    <3>3. Right(S)
      BY <2>9, <2>10, <2>11, <3>1, <3>2
    <3>4. QED
      BY <2>2, <3>3
  <2>13. CASE x # a
    <3>1. (a \in S <=> a \in R) /\ g[x] = f[x]
      BY <2>5, <2>11, <2>13
    <3>2. PICK k \in Nat : k = IF a \in S THEN n ELSE 0
      OBVIOUS
    <3>3. u[R] \in Nat /\ w[R] = u[R] + k
      BY <2>8, <3>1, <3>2
    <3>4. u[S] \in Nat /\ w[S] = u[S] + k
      BY <2>9, <2>10, <2>11, <3>1, <3>3
    <3>5. Right(S)
      BY <3>2, <3>4
    <3>6. QED
      BY <2>2, <3>5
  <2>14. QED
    BY <2>12, <2>13
<1>4. Right(Fighters)
  <2>1. Fighters \in SUBSET Fighters /\ Cardinality(Fighters) \in Nat
    BY Smaller
  <2>2. QED
    BY <1>3, <2>1
<1>5. QED
  BY <1>1, <1>2, <1>4

\* A hit that is under way.
Blow(h) == h.source \in Fighters /\ h.amount \in Nat

\* Hits are blows of fighters; health and what is recorded are numbers that add up.
Bled ==
    /\ IsSeq(damage) /\ \A i \in DOMAIN damage : Blow(damage[i])
    /\ hurt = [e \in Fighters |-> hurt[e]] /\ \A e \in Fighters : hurt[e] = [a \in Fighters |-> hurt[e][a]]
    /\ \A e, a \in Fighters : hurt[e][a] \in Nat
    /\ \A e \in Fighters : health[e] \in Nat
    /\ DamageAccounted

\* Blows in a row take what they take together.
LEMMA SubTwice ==
    \A a, b, c \in Nat : /\ saturating_sub(a, b) \in Nat
                        /\ saturating_sub(saturating_sub(a, b), c) = saturating_sub(a, b + c)
  BY DEF saturating_sub

\* At the start nobody was hit.
LEMMA BledInit == Init => Bled
<1> SUFFICES ASSUME Init PROVE Bled
  OBVIOUS
<1>1. damage = <<>> /\ DOMAIN damage = {} /\ IsSeq(damage)
  BY Few DEF Init, Queue
<1>2. /\ hurt = [e \in Fighters |-> [a \in Fighters |-> 0]] /\ \A e \in Fighters : health[e] = MaxHealth
  BY DEF Init
<1>3. PICK z : z = [a \in Fighters |-> 0]
  OBVIOUS
<1>4. Total(z) = 0
  <2>1. PICK u : Sums(z, u) /\ Total(z) = u[Fighters]
    BY TotalIs
  <2> DEFINE Odd == {m \in Nat : \E S \in SUBSET Fighters : Cardinality(S) = m /\ u[S] # 0}
  <2>2. ASSUME Odd # {} PROVE FALSE
    <3>1. PICK m \in Odd : \A k \in Odd : m <= k
      BY <2>2, Least
    <3>2. PICK S \in SUBSET Fighters : Cardinality(S) = m /\ u[S] # 0
      BY <3>1
    <3>3. S # {}
      BY <2>1, <3>2 DEF Sums
    <3>4. PICK x, R : x = FirstOf(S) /\ R = S \ {FirstOf(S)}
      OBVIOUS
    <3>5. x \in Fighters /\ R \in SUBSET Fighters /\ Cardinality(R) = m - 1 /\ m > 0
      BY <3>2, <3>3, <3>4, Smaller
    <3>6. m - 1 \in Nat /\ ~(m <= m - 1)
      BY <3>1, <3>5
    <3>7. m - 1 \notin Odd
      BY <3>1, <3>6, Zenon
    <3>8. u[R] = 0 /\ z[x] = 0
      BY <1>3, <3>5, <3>6, <3>7
    <3>9. u[S] = z[x] + u[R]
      BY <2>1, <3>3, <3>4 DEF Sums
    <3>10. QED
      BY <3>2, <3>8, <3>9
  <2>3. Fighters \in SUBSET Fighters /\ Cardinality(Fighters) \in Nat
    BY Smaller
  <2>4. QED
    BY <2>1, <2>2, <2>3
<1>5. \A e \in Fighters : hurt[e] = z /\ health[e] = MaxHealth /\ Total(hurt[e]) = 0
  BY <1>2, <1>3, <1>4
<1>6. saturating_sub(MaxHealth, 0) = MaxHealth /\ MaxHealth \in Nat
  BY AgentAssumption DEF saturating_sub
<1>7. DamageAccounted
  BY <1>5, <1>6 DEF DamageAccounted
<1>8. /\ hurt = [e \in Fighters |-> hurt[e]] /\ \A e \in Fighters : hurt[e] = [a \in Fighters |-> hurt[e][a]]
      /\ \A e, a \in Fighters : hurt[e][a] \in Nat
  BY <1>2
<1>9. QED
  BY <1>1, <1>5, <1>6, <1>7, <1>8 DEF Bled

\* A hit is recorded as the health it takes.
LEMMA BledReceives ==
    ASSUME Shape, Bled, NEW event, Blow(event), event.target \in Fighters, Receives(event),
           IsSeq(damage'), \A i \in DOMAIN damage' : Blow(damage'[i])
    PROVE  Bled'
<1>1. PICK v, a, n : v = event.target /\ a = event.source /\ n = Absorbed(event)
  OBVIOUS
<1>2. v \in Fighters /\ a \in Fighters /\ n \in Nat
  BY <1>1 DEF Blow, Absorbed
<1>3. hurt' = [hurt EXCEPT ![v][a] = @ + n]
  BY <1>1 DEF Receives, record_damage
<1>4. health' = [health EXCEPT ![v] = saturating_sub(health[v], n)] /\ health = [e \in Fighters |-> health[e]]
  BY <1>1 DEF Receives, Shape
<1>5. PICK f : f = hurt[v]
  OBVIOUS
<1>6. f = [b \in Fighters |-> f[b]] /\ (\A b \in Fighters : f[b] \in Nat) /\ hurt = [e \in Fighters |-> hurt[e]]
  BY <1>2, <1>5 DEF Bled
<1>7. PICK g : g = [f EXCEPT ![a] = f[a] + n]
  OBVIOUS
<1>8. g[a] = f[a] + n /\ (\A b \in Fighters \ {a} : g[b] = f[b]) /\ g = [b \in Fighters |-> g[b]]
  BY <1>2, <1>6, <1>7
<1>9. hurt' = [hurt EXCEPT ![v] = g]
  BY <1>3, <1>5, <1>7
<1>10. hurt'[v] = g /\ (\A e \in Fighters \ {v} : hurt'[e] = hurt[e]) /\ hurt' = [e \in Fighters |-> hurt'[e]]
  BY <1>2, <1>6, <1>9
<1>11. Total(f) \in Nat /\ Total(g) = Total(f) + n
  BY <1>2, <1>6, <1>8, TotalGrows
<1>12. /\ health'[v] = saturating_sub(health[v], n) /\ health' = [e \in Fighters |-> health'[e]]
       /\ \A e \in Fighters \ {v} : health'[e] = health[e]
  BY <1>2, <1>4
<1>13. health[v] = saturating_sub(MaxHealth, Total(f)) /\ health[v] \in Nat /\ MaxHealth \in Nat
  BY <1>2, <1>5, AgentAssumption DEF Bled, DamageAccounted
<1>14. health'[v] = saturating_sub(MaxHealth, Total(g)) /\ health'[v] \in Nat
  BY <1>2, <1>11, <1>12, <1>13, SubTwice
<1>15. ASSUME NEW e \in Fighters
       PROVE  /\ health'[e] \in Nat /\ health'[e] = saturating_sub(MaxHealth, Total(hurt'[e]))
              /\ hurt'[e] = [b \in Fighters |-> hurt'[e][b]] /\ \A b \in Fighters : hurt'[e][b] \in Nat
  <2>1. CASE e = v
    <3>1. \A b \in Fighters : g[b] \in Nat
      BY <1>2, <1>6, <1>8
    <3>2. QED
      BY <1>8, <1>10, <1>14, <2>1, <3>1
  <2>2. CASE e # v
    BY <1>10, <1>12, <2>2 DEF Bled, DamageAccounted
  <2>3. QED
    BY <2>1, <2>2
<1>16. DamageAccounted'
  BY <1>15 DEF DamageAccounted
<1>17. QED
  BY <1>10, <1>15, <1>16 DEF Bled

\* What leaves health, records and hits alone.
LEMMA BledStays == ASSUME Bled, UNCHANGED <<health, hurt, damage>> PROVE Bled'
  BY DEF Bled, DamageAccounted

\* Actions hit with what the weapon or the skill does.
LEMMA BledAction == ASSUME Bled, action PROVE Bled'
<1>1. ASSUME NEW at, Panic(at) PROVE Bled'
  BY <1>1, BledStays DEF Panic, battle, events
<1>2. ASSUME NEW n \in Nat, NEW hits, hits = [i \in 1 .. n |-> hits[i]], \A i \in 1 .. n : Blow(hits[i]),
             damage' = damage \o hits, UNCHANGED battle
      PROVE  Bled'
  <2>2. DOMAIN hits = 1 .. n
    BY <1>2
  <2>4. IsSeq(hits)
    <3>1. hits \in Seq({hits[i] : i \in 1 .. n})
      BY <1>2, <2>2
    <3>2. QED
      BY <3>1 DEF IsSeq
  <2>5. IsSeq(damage) /\ \A i \in DOMAIN damage : Blow(damage[i])
    BY DEF Bled
  <2>6. /\ IsSeq(damage \o hits) /\ Len(damage) \in Nat /\ Len(hits) \in Nat
        /\ DOMAIN damage = 1..Len(damage) /\ DOMAIN hits = 1..Len(hits) /\ DOMAIN (damage \o hits) = 1..(Len(damage) + Len(hits))
        /\ \A i \in 1..(Len(damage) + Len(hits)) : (damage \o hits)[i] = IF i <= Len(damage) THEN damage[i] ELSE hits[i - Len(damage)]
    BY <2>4, <2>5, ConcatAny
  <2>7. PICK k, m, t, u : k = Len(damage) /\ m = Len(hits) /\ t = damage \o hits /\ u = damage
    OBVIOUS
  <2>8. /\ k \in Nat /\ m \in Nat /\ DOMAIN u = 1..k /\ DOMAIN hits = 1..m /\ DOMAIN t = 1..(k + m)
        /\ \A i \in 1..(k + m) : t[i] = IF i <= k THEN u[i] ELSE hits[i - k]
    BY <2>6, <2>7
  <2>9. ASSUME NEW i \in 1..(k + m) PROVE Blow(t[i])
    <3>1. \/ i \in 1..k /\ t[i] = u[i]
          \/ i - k \in 1..m /\ t[i] = hits[i - k]
      BY <2>8
    <3>2. QED
      BY <1>2, <2>2, <2>5, <2>7, <2>8, <3>1
  <2>10. damage' = t /\ IsSeq(damage') /\ \A i \in DOMAIN damage' : Blow(damage'[i])
    BY <1>2, <2>6, <2>7, <2>8, <2>9
  <2>11. UNCHANGED <<health, hurt>>
    BY <1>2 DEF battle
  <2>12. QED
    BY <2>10, <2>11 DEF Bled, DamageAccounted
<1>3. \/ \E at : Panic(at)
      \/ \E due \in SUBSET With("Action") : \E order \in Injection(1 .. Cardinality({e \in due : ActionOf(e).phase = "Casting"}), {e \in due : ActionOf(e).phase = "Casting"}),
            amount \in [1 .. Cardinality({e \in due : ActionOf(e).phase = "Casting"}) -> Amounts] :
            /\ damage' = damage \o [i \in 1 .. Cardinality({e \in due : ActionOf(e).phase = "Casting"}) |->
                                      [source |-> order[i], target |-> ActionOf(order[i]).target, amount |-> amount[i]]]
            /\ UNCHANGED battle
  BY Zenon DEF action
<1>4. CASE \E at : Panic(at)
  BY <1>1, <1>4
<1>5. ASSUME NEW due \in SUBSET With("Action"), NEW hitters, hitters = {e \in due : ActionOf(e).phase = "Casting"},
             NEW order \in Injection(1 .. Cardinality(hitters), hitters), NEW amount \in [1 .. Cardinality(hitters) -> Amounts],
             damage' = damage \o [i \in 1 .. Cardinality(hitters) |->
                                    [source |-> order[i], target |-> ActionOf(order[i]).target, amount |-> amount[i]]],
             UNCHANGED battle
      PROVE  Bled'
  <2>1. PICK n : n = Cardinality(hitters)
    OBVIOUS
  <2>2. n \in Nat
    <3>1. hitters \in SUBSET Fighters
      BY <1>5 DEF With
    <3>2. QED
      BY <2>1, <3>1, Smaller
  <2>3. order \in [1 .. n -> due] /\ amount \in [1 .. n -> Amounts]
    BY <1>5, <2>1 DEF Injection
  <2>4. PICK hits : hits = [i \in 1 .. n |-> [source |-> order[i], target |-> ActionOf(order[i]).target, amount |-> amount[i]]]
    OBVIOUS
  <2>5. damage' = damage \o hits /\ hits = [i \in 1 .. n |-> hits[i]]
    BY <1>5, <2>1, <2>4
  <2>6. ASSUME NEW i \in 1 .. n PROVE Blow(hits[i])
    <3>1. hits[i].source = order[i] /\ hits[i].amount = amount[i]
      BY <2>4
    <3>2. order[i] \in Fighters /\ amount[i] \in Nat
      BY <1>5, <2>3, AgentAssumption DEF With
    <3>3. QED
      BY <3>1, <3>2 DEF Blow
  <2>7. QED
    BY <1>2, <1>5, <2>2, <2>5, <2>6
<1>6. QED
  BY <1>3, <1>4, <1>5

\* Reading the hits.
LEMMA BledDamage == ASSUME Shape, Bled, handle_damage PROVE Bled'
<1>1. CASE UNCHANGED <<health, hurt, damage>>
  BY <1>1, BledStays
<1>2. PICK event : event = Head(damage)
  OBVIOUS
<1>3. \/ UNCHANGED <<health, hurt, damage>>
      \/ /\ damage # <<>> /\ damage' = Tail(damage)
         /\ \/ UNCHANGED <<health, hurt>>
            \/ event.target \in Fighters /\ Receives(event)
  BY <1>2 DEF handle_damage, Panic, battle, events
<1>4. CASE damage # <<>> /\ damage' = Tail(damage) /\ (UNCHANGED <<health, hurt>> \/ (event.target \in Fighters /\ Receives(event)))
  <2>1. PICK S : damage \in Seq(S)
    BY DEF Bled, IsSeq
  <2>2. PICK u, t : u = damage /\ t = Tail(damage)
    OBVIOUS
  <2>3. /\ t \in Seq(S) /\ Len(u) \in Nat /\ Len(u) # 0 /\ DOMAIN u = 1..Len(u) /\ event = u[1]
        /\ Len(t) = Len(u) - 1 /\ \A i \in 1..Len(t) : t[i] = u[i + 1]
    BY <1>2, <1>4, <2>1, <2>2, HeadTailProperties, EmptySeq, LenProperties
  <2>4. DOMAIN t = 1..Len(t)
    BY <2>3, LenProperties
  <2>5. \A i \in DOMAIN u : Blow(u[i])
    BY <2>2 DEF Bled
  <2>6. ASSUME NEW i \in DOMAIN t PROVE Blow(t[i])
    <3>1. i + 1 \in DOMAIN u /\ t[i] = u[i + 1]
      BY <2>3, <2>4
    <3>2. QED
      BY <2>5, <3>1
  <2>7. IsSeq(damage') /\ \A i \in DOMAIN damage' : Blow(damage'[i])
    BY <1>4, <2>2, <2>3, <2>6 DEF IsSeq
  <2>8. Blow(event)
    <3>1. 1 \in DOMAIN u
      BY <2>3
    <3>2. QED
      BY <2>3, <2>5, <3>1
  <2>9. CASE UNCHANGED <<health, hurt>>
    BY <2>7, <2>9 DEF Bled, DamageAccounted
  <2>10. CASE event.target \in Fighters /\ Receives(event)
    BY <2>7, <2>8, <2>10, BledReceives
  <2>11. QED
    BY <1>4, <2>9, <2>10
<1>5. QED
  BY <1>1, <1>3, <1>4

\* No step loses account of the damage.
LEMMA BledStep == Inv /\ Bled /\ [Next]_vars => Bled'
<1> SUFFICES ASSUME Inv, Bled, [Next]_vars PROVE Bled'
  OBVIOUS
<1>0. Shape
  BY DEF Inv
<1>1. CASE \/ UNCHANGED vars \/ NextSchedule \/ movement_input \/ update_action \/ disconnected
           \/ transition_to_idle \/ transition_from_idle \/ transition_from_moving \/ transition_from_attacking
           \/ movement \/ pickup \/ dead \/ handle_action \/ attack_player \/ drop_gold \/ movement_monster
           \/ tick_drop \/ spawn_monsters \/ enqueue_action \/ create_drops \/ \E s \in Systems : Apply(s)
  <2>1. UNCHANGED <<health, hurt, damage>>
    BY <1>1 DEF vars, NextSchedule, movement_input, update_action, disconnected, transition_to_idle, transition_from_idle,
       transition_from_moving, transition_to_new_state, transition_from_attacking, movement, pickup, dead, handle_action,
       attack_player, drop_gold, movement_monster, tick_drop, spawn_monsters, enqueue_action, create_drops, Apply, Panic,
       battle, events
  <2>2. QED
    BY <2>1, BledStays
<1>2. QED
  BY <1>0, <1>1, BledAction, BledDamage DEF Next

\* What the DamageReceiver of a fighter holds of all attackers is the health it lost.
THEOREM DamageIsAccounted == Spec => []DamageAccounted
<1>1. Inv /\ Bled /\ [Next]_vars => Bled'
  BY BledStep
<1>2. Bled => DamageAccounted
  BY DEF Bled
<1>3. QED
  BY <1>1, <1>2, AlwaysInv, BledInit, PTL DEF Spec

-----------------------------------------------------------------------------
(* Types.                                                                  *)

\* States, requests and what is deferred of them are components, and nobody has two of
\* a kind; whoever hits is a fighter.
Bodies ==
    /\ exists \subseteq Entities
    /\ \A e \in Fighters :
        /\ state[e] \subseteq Components /\ \A c, d \in state[e] : c.kind = d.kind => c = d
        /\ queue[e] \in Seq(Components)
    /\ \A s \in Systems : \A x \in DOMAIN buffer[s] : buffer[s][x].insert \subseteq Components
Minds == \A e \in Fighters : goal[e] \in Goals \union {NoGoal}
Fights ==
    /\ \A e \in Fighters : health[e] \in 0..MaxHealth
    /\ damage \in Seq(Hits) /\ noticed \in Seq(Hits) /\ deaths \subseteq Fighters
Clock ==
    /\ schedule \in {"PreUpdate", "Update", "PostUpdate"} /\ todo \subseteq SystemsOf(schedule)
    /\ requests \in 0..MaxRequests /\ strolls \in 0..MaxStrolls
Typed == Bodies /\ Minds /\ Fights /\ Clock

\* The components there are,
LEMMA ComponentsAre ==
    /\ Idle \in Components /\ \A t \in MovementGoals : Moving(t) \in Components
    /\ \A t \in Entities, s \in Skills \union {AutoAttack}, p \in Progress : Action(t, s, p) \in Components
    /\ \A t \in Drops, b \in BOOLEAN : Pickup(t, b) \in Components
    /\ \A b \in BOOLEAN : Dead(b) \in Components
<1>1. Idle \in Components
  BY DEF Components
<1>2. \A t \in MovementGoals : Moving(t) \in Components
  BY DEF Components
<1>3. \A t \in Entities, s \in Skills \union {AutoAttack}, p \in Progress : Action(t, s, p) \in Components
  BY DEF Components
<1>4. \A t \in Drops, b \in BOOLEAN : Pickup(t, b) \in Components
  BY DEF Components
<1>5. \A b \in BOOLEAN : Dead(b) \in Components
  BY DEF Components
<1>6. QED
  BY <1>1, <1>2, <1>3, <1>4, <1>5

\* and what is known of them by their kind.
LEMMA ComponentsBy ==
    ASSUME NEW c \in Components
    PROVE  /\ c.kind = "Action" => \E t \in Entities, s \in Skills \union {AutoAttack}, p \in Progress : c = Action(t, s, p)
           /\ c.kind = "Pickup" => \E t \in Drops, b \in BOOLEAN : c = Pickup(t, b)
<1>1. CASE c = Idle
  BY <1>1 DEF Idle
<1>2. CASE \E t \in MovementGoals : c = Moving(t)
  BY <1>2 DEF Moving
<1>3. CASE \E t \in Entities, s \in Skills \union {AutoAttack}, p \in Progress : c = Action(t, s, p)
  <2>1. c.kind = "Action"
    BY <1>3 DEF Action
  <2>2. QED
    BY <1>3, <2>1, Zenon
<1>4. CASE \E t \in Drops, b \in BOOLEAN : c = Pickup(t, b)
  <2>1. c.kind = "Pickup"
    BY <1>4 DEF Pickup
  <2>2. QED
    BY <1>4, <2>1, Zenon
<1>5. CASE \E b \in BOOLEAN : c = Dead(b)
  BY <1>5 DEF Dead
<1>6. QED
  <2>1. \/ c = Idle \/ \E t \in MovementGoals : c = Moving(t)
        \/ \E t \in Entities, s \in Skills \union {AutoAttack}, p \in Progress : c = Action(t, s, p)
        \/ \E t \in Drops, b \in BOOLEAN : c = Pickup(t, b)
        \/ \E b \in BOOLEAN : c = Dead(b)
    BY DEF Components
  <2>2. QED
    BY <1>1, <1>2, <1>3, <1>4, <1>5, <2>1

\* The action somebody is at.
LEMMA ActsOn ==
    ASSUME Bodies, NEW e \in Fighters, Has(e, "Action")
    PROVE  /\ ActionOf(e) \in state[e] /\ ActionOf(e).kind = "Action" /\ ActionOf(e).target \in Entities
           /\ [ActionOf(e) EXCEPT !.phase = "Teardown"] \in Components
<1>1. PICK a : a = ActionOf(e) /\ a \in state[e] /\ a.kind = "Action"
  BY DEF Has, ActionOf
<1>2. a \in Components
  BY <1>1 DEF Bodies
<1>3. PICK t \in Entities, s \in Skills \union {AutoAttack}, p \in Progress : a = Action(t, s, p)
  BY <1>1, <1>2, ComponentsBy
<1>4. a.target = t /\ [a EXCEPT !.phase = "Teardown"] = Action(t, s, "Teardown")
  BY <1>3 DEF Action
<1>5. Action(t, s, "Teardown") \in Components
  BY ComponentsAre DEF Progress
<1>6. QED
  BY <1>1, <1>3, <1>4, <1>5

\* The drop somebody bends for.
LEMMA BendsFor ==
    ASSUME Bodies, NEW e \in Fighters, Has(e, "Pickup")
    PROVE  PickupOf(e) \in state[e] /\ PickupOf(e).target \in Drops
<1>1. PICK a : a = PickupOf(e) /\ a \in state[e] /\ a.kind = "Pickup"
  BY DEF Has, PickupOf
<1>2. a \in Components
  BY <1>1 DEF Bodies
<1>3. PICK t \in Drops, b \in BOOLEAN : a = Pickup(t, b)
  BY <1>1, <1>2, ComponentsBy
<1>4. QED
  BY <1>1, <1>3 DEF Pickup

\* Inserting keeps one component of a kind.
LEMMA InsertedOne ==
    ASSUME NEW S, S \subseteq Components, \A c, d \in S : c.kind = d.kind => c = d, NEW new \in Components
    PROVE  Inserted(S, new) \subseteq Components /\ \A c, d \in Inserted(S, new) : c.kind = d.kind => c = d
  BY DEF Inserted

\* A system that may fill its buffer.
LEMMA BodiesKept ==
    ASSUME Shape, Bodies, NEW s, Runs(s), exists' = exists,
           \A e \in Fighters : /\ state'[e] \subseteq Components /\ \A c, d \in state'[e] : c.kind = d.kind => c = d
                               /\ queue'[e] \in Seq(Components),
           \/ Silent
           \/ \E cmds : Buffers(s, cmds) /\ \A x \in DOMAIN cmds : cmds[x].insert \subseteq Components
    PROVE  Bodies'
<1>1. \A t \in Systems : \A x \in DOMAIN buffer'[t] : buffer'[t][x].insert \subseteq Components
  <2>1. CASE Silent
    BY <2>1 DEF Silent, Bodies
  <2>2. ASSUME NEW cmds, Buffers(s, cmds), \A x \in DOMAIN cmds : cmds[x].insert \subseteq Components
        PROVE  \A t \in Systems : \A x \in DOMAIN buffer'[t] : buffer'[t][x].insert \subseteq Components
    <3>1. s \in Systems
      BY DEF Runs, Shape
    <3>2. buffer' = [t \in Systems |-> IF t = s THEN cmds ELSE buffer[t]]
      BY <2>2, <3>1 DEF Shape, Buffers
    <3>3. buffer'[s] = cmds /\ \A t \in Systems \ {s} : buffer'[t] = buffer[t]
      BY <3>1, <3>2
    <3>4. QED
      BY <2>2, <3>3 DEF Bodies
  <2>3. QED
    BY <2>1, <2>2
<1>2. QED
  BY <1>1 DEF Bodies

\* One that leaves states and queues alone.
LEMMA BodiesRest ==
    ASSUME Shape, Bodies, NEW s, Runs(s), UNCHANGED <<exists, state, queue>>,
           \/ Silent
           \/ \E cmds : Buffers(s, cmds) /\ \A x \in DOMAIN cmds : cmds[x].insert \subseteq Components
    PROVE  Bodies'
<1>1. \A e \in Fighters : /\ state'[e] \subseteq Components /\ \A c, d \in state'[e] : c.kind = d.kind => c = d
                          /\ queue'[e] \in Seq(Components)
  BY DEF Bodies
<1>2. QED
  BY <1>1, BodiesKept

\* What a mind requests.
LEMMA Asks ==
    ASSUME NEW g \in Goals, NEW near \in BOOLEAN, g.kind = "Attack" \/ g.target \in Drops
    PROVE  Pursues(g, near) \in Seq(Components) /\ (g.kind = "Attack" => <<try_attack(g, near)>> \in Seq(Components))
<1>1. Idle \in Components /\ Moving("Location") \in Components
  BY ComponentsAre DEF MovementGoals
<1>2. ASSUME g.kind = "Attack" PROVE try_attack(g, near) \in Components
  <2>1. g.target \in Entities /\ g.skill \in Skills \union {AutoAttack}
    BY <1>2 DEF Goals
  <2>2. Action(g.target, g.skill, "Casting") \in Components
    BY <2>1, ComponentsAre DEF Progress
  <2>3. QED
    BY <1>1, <2>2 DEF try_attack
<1>3. g.target \in Drops => Pickup(g.target, FALSE) \in Components
  BY ComponentsAre
<1>4. \A c \in Components : <<c>> \in Seq(Components)
  OBVIOUS
<1>5. <<>> \in Seq(Components)
  OBVIOUS
<1>6. QED
  BY <1>1, <1>2, <1>3, <1>4, <1>5 DEF Pursues

\* A request is put behind the others.
LEMMA QueueGrows ==
    ASSUME Bodies, NEW D, NEW add, \A e \in Fighters : e \in D => add[e] \in Seq(Components),
           queue' = [e \in Fighters |-> IF e \in D THEN queue[e] \o add[e] ELSE queue[e]]
    PROVE  \A e \in Fighters : queue'[e] \in Seq(Components)
<1>1. ASSUME NEW e \in Fighters PROVE queue'[e] \in Seq(Components)
  <2>1. queue[e] \in Seq(Components)
    BY DEF Bodies
  <2>2. CASE e \in D
    <3>1. queue'[e] = queue[e] \o add[e] /\ add[e] \in Seq(Components)
      BY <2>2
    <3>2. QED
      BY <2>1, <3>1, ConcatProperties
  <2>3. CASE e \notin D
    BY <2>1, <2>3
  <2>4. QED
    BY <2>2, <2>3
<1>2. QED
  BY <1>1

\* Systems that request transitions.
LEMMA BodiesRequest ==
    ASSUME Shape, Bodies, Minds, movement_input \/ update_action \/ enqueue_action \/ movement_monster
    PROVE  Bodies'
<1>0. \A e \in Fighters : state[e] \subseteq Components /\ \A c, d \in state[e] : c.kind = d.kind => c = d
  BY DEF Bodies
<1>1. ASSUME NEW s, Runs(s), Silent, UNCHANGED <<exists, state>>, \A e \in Fighters : queue'[e] \in Seq(Components)
      PROVE  Bodies'
  BY <1>0, <1>1, BodiesKept
<1>2. CASE movement_input
  <2>1. PICK inputs \in UNION {[P -> MovementGoals] : P \in SUBSET (Players \intersect exists)} :
           queue' = [e \in Fighters |-> IF e \in DOMAIN inputs THEN Append(queue[e], Moving(inputs[e])) ELSE queue[e]]
    BY <1>2 DEF movement_input
  <2>2. \A e \in DOMAIN inputs : Moving(inputs[e]) \in Components
    BY ComponentsAre
  <2>3. ASSUME NEW e \in Fighters PROVE queue'[e] \in Seq(Components)
    <3>1. queue[e] \in Seq(Components)
      BY DEF Bodies
    <3>2. CASE e \in DOMAIN inputs
      BY <2>1, <2>2, <3>1, <3>2, AppendProperties
    <3>3. CASE e \notin DOMAIN inputs
      BY <2>1, <3>1, <3>3
    <3>4. QED
      BY <3>2, <3>3
  <2>4. Runs("movement_input") /\ Silent /\ UNCHANGED <<exists, state>>
    BY <1>2 DEF movement_input
  <2>5. QED
    BY <1>1, <2>3, <2>4
<1>3. CASE update_action
  <2>1. Runs("update_action") /\ Silent /\ UNCHANGED <<exists, state>>
    BY <1>3 DEF update_action
  <2>2. CASE UNCHANGED queue
    BY <1>1, <2>1, <2>2 DEF Bodies
  <2>3. CASE queue' # queue
    <3> DEFINE walkers == With("Moving") \ With("Idle")
    <3>1. PICK near \in SUBSET walkers : queue' = [e \in Fighters |-> IF e \in walkers THEN queue[e] \o Redirects(e, e \in near) ELSE queue[e]]
      BY <1>3, <2>3 DEF update_action
    <3> HIDE DEF walkers
    <3>2. ASSUME NEW e \in Fighters PROVE Redirects(e, e \in near) \in Seq(Components)
      <4>1. Idle \in Components /\ <<>> \in Seq(Components)
        BY ComponentsAre
      <4>2. <<Idle>> \in Seq(Components)
        BY <4>1
      <4>3. CASE goal[e] = NoGoal \/ goal[e].kind = "PickUp"
        BY <4>1, <4>2, <4>3 DEF Redirects
      <4>4. CASE goal[e] # NoGoal /\ goal[e].kind # "PickUp"
        <5>1. goal[e] \in Goals
          BY <4>4 DEF Minds
        <5>2. goal[e].kind = "Attack"
          BY <4>4, <5>1 DEF Goals
        <5>3. (e \in near) \in BOOLEAN
          OBVIOUS
        <5>4. <<try_attack(goal[e], e \in near)>> \in Seq(Components)
          BY <5>1, <5>2, <5>3, Asks
        <5>5. QED
          BY <4>1, <4>2, <4>4, <5>4 DEF Redirects
      <4>5. QED
        BY <4>3, <4>4
    <3>3. PICK add : add = [e \in Fighters |-> Redirects(e, e \in near)]
      OBVIOUS
    <3>4. queue' = [e \in Fighters |-> IF e \in walkers THEN queue[e] \o add[e] ELSE queue[e]] /\ \A e \in Fighters : add[e] \in Seq(Components)
      BY <3>1, <3>2, <3>3
    <3>5. \A e \in Fighters : queue'[e] \in Seq(Components)
      BY <3>4, QueueGrows
    <3>6. QED
      BY <1>1, <2>1, <3>5
  <2>4. QED
    BY <2>2, <2>3
<1>4. CASE enqueue_action
  <2>1. Runs("enqueue_action") /\ Silent /\ UNCHANGED <<exists, state>>
    BY <1>4 DEF enqueue_action
  <2>2. PICK near, minded : /\ minded = {e \in With("Idle") : goal[e] # NoGoal}
                            /\ queue' = [e \in Fighters |-> IF e \in minded THEN queue[e] \o Pursues(goal[e], e \in near) ELSE queue[e]]
    BY <1>4 DEF enqueue_action
  <2>3. ASSUME NEW e \in Fighters, e \in minded PROVE Pursues(goal[e], e \in near) \in Seq(Components)
    <3>1. goal[e] \in Goals
      BY <2>2, <2>3 DEF Minds
    <3>2. goal[e].kind = "Attack" \/ goal[e].target \in Drops
      BY <3>1 DEF Goals
    <3>3. (e \in near) \in BOOLEAN
      OBVIOUS
    <3>4. QED
      BY <3>1, <3>2, <3>3, Asks
  <2>4. PICK add : add = [e \in Fighters |-> Pursues(goal[e], e \in near)]
    OBVIOUS
  <2>5. queue' = [e \in Fighters |-> IF e \in minded THEN queue[e] \o add[e] ELSE queue[e]] /\ \A e \in Fighters : e \in minded => add[e] \in Seq(Components)
    BY <2>2, <2>3, <2>4
  <2>6. \A e \in Fighters : queue'[e] \in Seq(Components)
    BY <2>5, QueueGrows
  <2>7. QED
    BY <1>1, <2>1, <2>6
<1>5. CASE movement_monster
  <2>1. Runs("movement_monster") /\ Silent /\ UNCHANGED <<exists, state>>
    BY <1>5 DEF movement_monster
  <2>2. PICK strollers : queue' = [e \in Fighters |-> IF e \in strollers THEN Append(queue[e], Moving("Location")) ELSE queue[e]]
    BY <1>5 DEF movement_monster
  <2>3. Moving("Location") \in Components
    BY ComponentsAre DEF MovementGoals
  <2>4. \A e \in Fighters : queue[e] \in Seq(Components) /\ Append(queue[e], Moving("Location")) \in Seq(Components)
    BY <2>3, AppendProperties DEF Bodies
  <2>5. \A e \in Fighters : queue'[e] \in Seq(Components)
    BY <2>2, <2>4
  <2>6. QED
    BY <1>1, <2>1, <2>5
<1>6. QED
  BY <1>2, <1>3, <1>4, <1>5

\* Systems that despawn, or put somebody to rest.
LEMMA BodiesDefer ==
    ASSUME Shape, Bodies, disconnected \/ transition_to_idle \/ movement \/ dead \/ tick_drop \/ spawn_monsters \/ create_drops
    PROVE  Bodies'
<1>1. Despawn.insert \subseteq Components /\ Spawn.insert \subseteq Components
  BY DEF Despawn, Spawn
<1>2. Insert(Idle).insert \subseteq Components /\ Replace("Moving", Idle).insert \subseteq Components
  BY ComponentsAre DEF Insert, Replace
<1>3. ASSUME NEW s, NEW D, NEW cmd, Runs(s), UNCHANGED <<exists, state, queue>>, Buffers(s, [e \in D |-> cmd]), cmd.insert \subseteq Components
      PROVE  Bodies'
  <2>1. PICK cmds : cmds = [e \in D |-> cmd]
    OBVIOUS
  <2>2. Buffers(s, cmds) /\ \A x \in DOMAIN cmds : cmds[x].insert \subseteq Components
    BY <1>3, <2>1
  <2>3. QED
    BY <1>3, <2>2, BodiesRest
<1>4. CASE disconnected
  <2>1. Runs("disconnected") /\ UNCHANGED <<exists, state, queue>> /\ \E D : Buffers("disconnected", [e \in D |-> Despawn])
    BY <1>4 DEF disconnected, world
  <2>2. QED
    BY <1>1, <1>3, <2>1
<1>5. CASE transition_to_idle
  <2>1. Runs("transition_to_idle") /\ UNCHANGED <<exists, state, queue>> /\ \E D : Buffers("transition_to_idle", [e \in D |-> Insert(Idle)])
    BY <1>5 DEF transition_to_idle, world
  <2>2. QED
    BY <1>2, <1>3, <2>1
<1>6. CASE movement
  <2>1. Runs("movement") /\ UNCHANGED <<exists, state, queue>> /\ \E D : Buffers("movement", [e \in D |-> Replace("Moving", Idle)])
    BY <1>6 DEF movement, world
  <2>2. QED
    BY <1>2, <1>3, <2>1
<1>7. CASE dead
  <2>1. Runs("dead") /\ UNCHANGED <<exists, state, queue>> /\ \E D : Buffers("dead", [e \in D |-> Despawn])
    BY <1>7 DEF dead, world
  <2>2. QED
    BY <1>1, <1>3, <2>1
<1>8. CASE tick_drop
  <2>1. Runs("tick_drop") /\ UNCHANGED <<exists, state, queue>> /\ \E D : Buffers("tick_drop", [e \in D |-> Despawn])
    BY <1>8 DEF tick_drop, world
  <2>2. QED
    BY <1>1, <1>3, <2>1
<1>9. CASE spawn_monsters
  <2>1. Runs("spawn_monsters") /\ UNCHANGED <<exists, state, queue>> /\ \E D : Buffers("spawn_monsters", [e \in D |-> Despawn])
    BY <1>9 DEF spawn_monsters, world
  <2>2. QED
    BY <1>1, <1>3, <2>1
<1>10. CASE create_drops
  <2>1. Runs("create_drops") /\ UNCHANGED <<exists, state, queue>> /\ \E D : Buffers("create_drops", [e \in D |-> Spawn])
    BY <1>10 DEF create_drops, world
  <2>2. QED
    BY <1>1, <1>3, <2>1
<1>11. QED
  BY <1>4, <1>5, <1>6, <1>7, <1>8, <1>9, <1>10

\* The request that wins is one of them.
LEMMA ChosenTyped ==
    ASSUME Shape, Bodies, NEW e \in Fighters, queue[e] # <<>>
    PROVE  Chosen(queue[e]) \in Components
<1>1. Queue(queue[e]) /\ queue[e] \in Seq(Components)
  BY DEF Shape, Bodies
<1>2. PICK i \in DOMAIN queue[e] : Chosen(queue[e]) = queue[e][i]
  BY <1>1, ChosenIs
<1>3. QED
  BY <1>1, <1>2, LenProperties, ElementOfSeq

\* The queue is drained and its request deferred.
LEMMA BodiesTransition ==
    ASSUME Shape, Bodies, NEW s, NEW kind, Runs(s), UNCHANGED <<exists, state>>, NEW asked, NEW drained,
           \A e \in asked : e \in Fighters /\ queue[e] # <<>>,
           Buffers(s, [e \in asked |-> Replace(kind, Chosen(queue[e]))]),
           queue' = [e \in Fighters |-> IF e \in drained THEN <<>> ELSE queue[e]]
    PROVE  Bodies'
<1>1. PICK cmds : cmds = [e \in asked |-> Replace(kind, Chosen(queue[e]))]
  OBVIOUS
<1>2. \A x \in DOMAIN cmds : cmds[x].insert \subseteq Components
  BY <1>1, ChosenTyped DEF Replace
<1>3. <<>> \in Seq(Components)
  OBVIOUS
<1>4. \A e \in Fighters : /\ state'[e] \subseteq Components /\ \A c, d \in state'[e] : c.kind = d.kind => c = d
                          /\ queue'[e] \in Seq(Components)
  BY <1>3 DEF Bodies
<1>5. Buffers(s, cmds)
  BY <1>1
<1>6. QED
  BY <1>2, <1>4, <1>5, BodiesKept

\* The three transitions.
LEMMA BodiesTransitions ==
    ASSUME Shape, Bodies, transition_from_idle \/ transition_from_moving \/ transition_from_attacking
    PROVE  Bodies'
<1>1. ASSUME NEW s, NEW kind, transition_to_new_state(s, kind) PROVE Bodies'
  <2>1. PICK asked : /\ asked = {e \in With(kind) : queue[e] # <<>>}
                     /\ Buffers(s, [e \in asked |-> Replace(kind, Chosen(queue[e]))])
                     /\ queue' = [e \in Fighters |-> IF e \in asked THEN <<>> ELSE queue[e]]
    BY <1>1 DEF transition_to_new_state
  <2>2. Runs(s) /\ UNCHANGED <<exists, state>> /\ \A e \in asked : e \in Fighters /\ queue[e] # <<>>
    BY <1>1, <2>1 DEF transition_to_new_state, With
  <2>3. QED
    BY <2>1, <2>2, BodiesTransition
<1>2. CASE transition_from_attacking
  <2>1. PICK moved : /\ moved = {e \in With("Action") : queue[e] # <<>> /\ Priority(Chosen(queue[e])) > 2}
                     /\ Buffers("transition_from_attacking", [e \in moved |-> Replace("Action", Chosen(queue[e]))])
    BY <1>2 DEF transition_from_attacking
  <2>2. queue' = [e \in Fighters |-> IF e \in With("Action") THEN <<>> ELSE queue[e]]
    BY <1>2 DEF transition_from_attacking
  <2>3. Runs("transition_from_attacking") /\ UNCHANGED <<exists, state>> /\ \A e \in moved : e \in Fighters /\ queue[e] # <<>>
    BY <1>2, <2>1 DEF transition_from_attacking, With
  <2>4. QED
    BY <2>1, <2>2, <2>3, BodiesTransition
<1>3. QED
  BY <1>1, <1>2 DEF transition_from_idle, transition_from_moving

\* A drop is taken, or is gone.
LEMMA BodiesPickup == ASSUME Shape, Bodies, pickup PROVE Bodies'
<1>1. Runs("pickup") /\ UNCHANGED <<exists, queue>>
  BY DEF pickup
<1> DEFINE bending == With("Pickup")
           takers == {p \in bending : ~PickupOf(p).taken /\ PickupOf(p).target \in exists}
           late == {p \in bending : ~PickupOf(p).taken /\ PickupOf(p).target \notin exists}
           taken == {PickupOf(p).target : p \in takers}
<1>2. PICK done \in SUBSET {p \in bending : PickupOf(p).taken} :
         /\ state' = [e \in Fighters |-> IF e \in takers THEN Inserted(state[e], Pickup(PickupOf(e).target, TRUE)) ELSE state[e]]
         /\ Buffers("pickup", [e \in done \union late \union taken |-> PickupCommand(e, taken, late)])
  BY Zenon DEF pickup
<1>3. \A e \in takers : e \in Fighters /\ Pickup(PickupOf(e).target, TRUE) \in Components
  <2>1. SUFFICES ASSUME NEW e \in takers PROVE e \in Fighters /\ Pickup(PickupOf(e).target, TRUE) \in Components
    OBVIOUS
  <2>2. e \in Fighters /\ Has(e, "Pickup")
    BY <2>1 DEF With
  <2>3. PickupOf(e).target \in Drops
    BY <2>2, BendsFor
  <2>4. QED
    BY <2>2, <2>3, ComponentsAre
<1> HIDE DEF takers, late, taken, bending
<1>4. ASSUME NEW e \in Fighters
      PROVE  /\ state'[e] \subseteq Components /\ \A c, d \in state'[e] : c.kind = d.kind => c = d
             /\ queue'[e] \in Seq(Components)
  <2>1. state[e] \subseteq Components /\ (\A c, d \in state[e] : c.kind = d.kind => c = d) /\ queue'[e] \in Seq(Components)
    BY <1>1 DEF Bodies
  <2>2. CASE e \in takers
    <3>1. PICK new \in Components : new = Pickup(PickupOf(e).target, TRUE) /\ state'[e] = Inserted(state[e], new)
      BY <1>2, <1>3, <2>2
    <3>2. PICK S : S = state[e] /\ S \subseteq Components /\ (\A c, d \in S : c.kind = d.kind => c = d)
      BY <2>1
    <3>3. Inserted(S, new) \subseteq Components /\ \A c, d \in Inserted(S, new) : c.kind = d.kind => c = d
      BY <3>2, InsertedOne, Zenon
    <3>4. state'[e] = Inserted(S, new)
      BY <3>1, <3>2
    <3>5. state'[e] \subseteq Components /\ \A c, d \in state'[e] : c.kind = d.kind => c = d
      BY <3>3, <3>4
    <3>6. QED
      BY <2>1, <3>5
  <2>3. CASE e \notin takers
    BY <1>2, <2>1, <2>3
  <2>4. QED
    BY <2>2, <2>3
<1>5. \A e : PickupCommand(e, taken, late).insert \subseteq Components
  BY ComponentsAre DEF PickupCommand, Despawn, Remove, Replace
<1>6. PICK cmds : cmds = [e \in done \union late \union taken |-> PickupCommand(e, taken, late)]
  OBVIOUS
<1>7. Buffers("pickup", cmds) /\ \A x \in DOMAIN cmds : cmds[x].insert \subseteq Components
  BY <1>2, <1>5, <1>6
<1>8. QED
  BY <1>1, <1>4, <1>7, BodiesKept

\* Actions go on.
LEMMA BodiesAction == ASSUME Shape, Bodies, action PROVE Bodies'
<1>1. Runs("action")
  BY DEF action
<1>2. CASE UNCHANGED <<exists, state, queue, buffer>>
  <2>1. Silent
    BY <1>2 DEF Silent
  <2>2. QED
    BY <1>1, <1>2, <2>1, BodiesRest
<1>3. PICK due \in SUBSET With("Action") :
         LET hitters == {e \in due : ActionOf(e).phase = "Casting"}
         IN  \/ UNCHANGED <<exists, state, queue, buffer>>
             \/ /\ UNCHANGED <<exists, queue>>
                /\ state' = [e \in Fighters |-> IF e \in hitters
                               THEN Inserted(state[e], [ActionOf(e) EXCEPT !.phase = "Teardown"]) ELSE state[e]]
                /\ Buffers("action", [e \in due \ hitters |-> Remove("Action")])
  BY Zenon DEF action, Panic, world, loop
<1> DEFINE hitters == {e \in due : ActionOf(e).phase = "Casting"}
<1>4. hitters \subseteq With("Action")
  OBVIOUS
<1>5. \/ UNCHANGED <<exists, state, queue, buffer>>
      \/ /\ UNCHANGED <<exists, queue>>
         /\ state' = [e \in Fighters |-> IF e \in hitters
                        THEN Inserted(state[e], [ActionOf(e) EXCEPT !.phase = "Teardown"]) ELSE state[e]]
         /\ Buffers("action", [e \in due \ hitters |-> Remove("Action")])
  BY <1>3, Zenon
<1> HIDE DEF hitters
<1>6. CASE /\ UNCHANGED <<exists, queue>>
           /\ state' = [e \in Fighters |-> IF e \in hitters
                          THEN Inserted(state[e], [ActionOf(e) EXCEPT !.phase = "Teardown"]) ELSE state[e]]
           /\ Buffers("action", [e \in due \ hitters |-> Remove("Action")])
  <2>1. ASSUME NEW e \in Fighters
        PROVE  /\ state'[e] \subseteq Components /\ \A c, d \in state'[e] : c.kind = d.kind => c = d
               /\ queue'[e] \in Seq(Components)
    <3>1. state[e] \subseteq Components /\ (\A c, d \in state[e] : c.kind = d.kind => c = d) /\ queue'[e] \in Seq(Components)
      BY <1>6 DEF Bodies
    <3>2. CASE e \in hitters
      <4>1. Has(e, "Action")
        BY <1>4, <3>2 DEF With
      <4>2. PICK new \in Components : new = [ActionOf(e) EXCEPT !.phase = "Teardown"]
        BY <4>1, ActsOn
      <4>3. state'[e] = Inserted(state[e], new)
        BY <1>6, <3>2, <4>2
      <4>4. QED
        BY <3>1, <4>3, InsertedOne
    <3>3. CASE e \notin hitters
      BY <1>6, <3>1, <3>3
    <3>4. QED
      BY <3>2, <3>3
  <2>2. PICK cmds : cmds = [e \in due \ hitters |-> Remove("Action")]
    OBVIOUS
  <2>3. Buffers("action", cmds) /\ \A x \in DOMAIN cmds : cmds[x].insert \subseteq Components
    BY <1>6, <2>2 DEF Remove
  <2>4. QED
    BY <1>1, <1>6, <2>1, <2>3, BodiesKept
<1>7. QED
  BY <1>2, <1>5, <1>6

\* The blow that kills requests the end.
LEMMA BodiesDamage == ASSUME Shape, Bodies, handle_damage PROVE Bodies'
<1>1. Runs("handle_damage") /\ Silent /\ UNCHANGED <<exists, state>>
  BY DEF handle_damage, Panic, world, Silent
<1>2. ASSUME NEW e \in Fighters PROVE queue'[e] \in Seq(Components)
  <2>1. queue[e] \in Seq(Components)
    BY DEF Bodies
  <2>2. CASE queue' = queue
    BY <2>1, <2>2
  <2>3. CASE queue' # queue
    <3>1. PICK t : queue' = [queue EXCEPT ![t] = Append(@, dead_state(t))]
      BY <2>3 DEF handle_damage, Panic, world, Receives
    <3>2. dead_state(t) \in Components
      <4>1. Dead(TRUE) \in Components /\ Dead(FALSE) \in Components
        BY ComponentsAre
      <4>2. CASE t \in Monsters
        <5>1. dead_state(t) = Dead(TRUE)
          BY <4>2 DEF dead_state
        <5>2. QED
          BY <4>1, <5>1
      <4>3. CASE t \notin Monsters
        <5>1. (t \in Monsters) = FALSE
          BY <4>3
        <5>2. dead_state(t) = Dead(FALSE)
          BY <5>1, Zenon DEF dead_state
        <5>3. QED
          BY <4>1, <5>2
      <4>4. QED
        BY <4>2, <4>3
    <3>3. queue'[e] \in {queue[e], Append(queue[e], dead_state(t))}
      BY <3>1 DEF Shape
    <3>4. PICK c : c = dead_state(t) /\ c \in Components
      BY <3>2
    <3>5. Append(queue[e], c) \in Seq(Components)
      BY <2>1, <3>4, AppendProperties
    <3>6. QED
      BY <2>1, <3>3, <3>4, <3>5
  <2>4. QED
    BY <2>2, <2>3
<1>3. \A e \in Fighters : state'[e] \subseteq Components /\ \A c, d \in state'[e] : c.kind = d.kind => c = d
  BY <1>1 DEF Bodies
<1>4. QED
  BY <1>1, <1>2, <1>3, BodiesKept

\* What a command makes of states.
LEMMA ChangedOne ==
    ASSUME NEW S, S \subseteq Components, \A c, d \in S : c.kind = d.kind => c = d, NEW cmd, cmd.insert \subseteq Components
    PROVE  Changed(S, cmd) \subseteq Components /\ \A c, d \in Changed(S, cmd) : c.kind = d.kind => c = d
<1>1. PICK kept : kept = {c \in S : c.kind \notin cmd.remove}
  OBVIOUS
<1>2. kept \subseteq Components /\ \A c, d \in kept : c.kind = d.kind => c = d
  BY <1>1
<1>3. CASE cmd.insert = {}
  BY <1>1, <1>2, <1>3 DEF Changed
<1>4. CASE cmd.insert # {}
  <2>1. PICK new \in cmd.insert : Changed(S, cmd) = Inserted(kept, new)
    BY <1>1, <1>4 DEF Changed
  <2>2. QED
    BY <1>2, <2>1, InsertedOne
<1>5. QED
  BY <1>3, <1>4

\* Only gold appears, and it is a drop.
LEMMA SpawnedIs ==
    ASSUME Shape, NEW s \in Systems, NEW x \in DOMAIN buffer[s], buffer[s][x] = Spawn
    PROVE  x \in Entities
<1>1. Cmd(s, x, buffer[s][x])
  BY DEF Shape
<1>2. PICK m \in DOMAIN Gold : x = Gold[m]
  BY <1>1 DEF Cmd
<1>3. Gold[m] \in Drops
  BY AgentAssumption DEF Injection, IsInjective
<1>4. QED
  BY <1>2, <1>3 DEF Entities

\* A buffer is applied.
LEMMA BodiesApply == ASSUME Shape, Bodies, NEW s \in Systems, Apply(s) PROVE Bodies'
<1> DEFINE cmds == buffer[s]
           despawned == {e \in DOMAIN cmds : cmds[e].despawn}
           changed == {e \in DOMAIN cmds : e \in Fighters \intersect exists /\ ~cmds[e].despawn}
           spawned == {e \in DOMAIN cmds : cmds[e] = Spawn}
<1>1. \/ UNCHANGED <<exists, state, queue, buffer>>
      \/ /\ exists' = (exists \ despawned) \union spawned
         /\ state' = [e \in Fighters |-> IF e \in despawned THEN {}
                                         ELSE IF e \in changed THEN Changed(state[e], cmds[e]) ELSE state[e]]
         /\ queue' = [e \in Fighters |-> IF e \in despawned THEN <<>> ELSE queue[e]]
         /\ buffer' = [buffer EXCEPT ![s] = NoCommands]
  BY Zenon DEF Apply, Panic, world, loop
<1>2. CASE UNCHANGED <<exists, state, queue, buffer>>
  BY <1>2 DEF Bodies
<1>3. spawned \subseteq Entities /\ \A e \in changed : cmds[e].insert \subseteq Components
  BY SpawnedIs DEF Bodies
<1> HIDE DEF despawned, changed, spawned
<1>4. CASE /\ exists' = (exists \ despawned) \union spawned
           /\ state' = [e \in Fighters |-> IF e \in despawned THEN {}
                                           ELSE IF e \in changed THEN Changed(state[e], cmds[e]) ELSE state[e]]
           /\ queue' = [e \in Fighters |-> IF e \in despawned THEN <<>> ELSE queue[e]]
           /\ buffer' = [buffer EXCEPT ![s] = NoCommands]
  <2>1. exists' \subseteq Entities
    BY <1>3, <1>4 DEF Bodies
  <2>2. ASSUME NEW e \in Fighters
        PROVE  state'[e] \subseteq Components /\ \A c, d \in state'[e] : c.kind = d.kind => c = d
    <3>1. state[e] \subseteq Components /\ \A c, d \in state[e] : c.kind = d.kind => c = d
      BY DEF Bodies
    <3>2. CASE e \in despawned
      BY <1>4, <3>2
    <3>3. CASE e \notin despawned /\ e \in changed
      <4>1. PICK cmd : cmd = cmds[e] /\ cmd.insert \subseteq Components /\ state'[e] = Changed(state[e], cmd)
        BY <1>3, <1>4, <3>3
      <4>2. QED
        BY <3>1, <4>1, ChangedOne
    <3>4. CASE e \notin despawned /\ e \notin changed
      BY <1>4, <3>1, <3>4
    <3>5. QED
      BY <3>2, <3>3, <3>4
  <2>3. \A e \in Fighters : queue'[e] \in Seq(Components)
    <3>1. <<>> \in Seq(Components)
      OBVIOUS
    <3>2. QED
      BY <1>4, <3>1 DEF Bodies
  <2>4. \A t \in Systems : \A x \in DOMAIN buffer'[t] : buffer'[t][x].insert \subseteq Components
    <3>1. DOMAIN NoCommands = {}
      BY DEF NoCommands
    <3>2. buffer'[s] = NoCommands /\ \A t \in Systems \ {s} : buffer'[t] = buffer[t]
      BY <1>4 DEF Shape
    <3>3. QED
      BY <3>1, <3>2 DEF Bodies
  <2>5. QED
    BY <2>1, <2>2, <2>3, <2>4 DEF Bodies
<1>5. QED
  BY <1>1, <1>2, <1>4

\* States and requests stay components.
LEMMA BodiesStep == ASSUME Shape, Bodies, Minds, [Next]_vars PROVE Bodies'
<1>1. CASE handle_action
  <2>1. Runs("handle_action") /\ Silent /\ UNCHANGED <<exists, state, queue>>
    BY <1>1 DEF handle_action
  <2>2. QED
    BY <2>1, BodiesRest
<1>2. CASE attack_player
  <2>1. Runs("attack_player") /\ Silent /\ UNCHANGED <<exists, state, queue>>
    BY <1>2 DEF attack_player
  <2>2. QED
    BY <2>1, BodiesRest
<1>3. CASE drop_gold
  <2>1. Runs("drop_gold") /\ Silent /\ UNCHANGED <<exists, state, queue>>
    BY <1>3 DEF drop_gold, world
  <2>2. QED
    BY <2>1, BodiesRest
<1>4. CASE NextSchedule \/ UNCHANGED vars
  <2>1. UNCHANGED <<exists, state, queue, buffer>>
    BY <1>4 DEF NextSchedule, vars, world, loop
  <2>2. QED
    BY <2>1 DEF Bodies
<1>5. QED
  BY <1>1, <1>2, <1>3, <1>4, BodiesRequest, BodiesDefer, BodiesTransitions, BodiesPickup, BodiesAction, BodiesDamage,
     BodiesApply DEF Next

\* Minds that are left alone.
LEMMA MindsKept == ASSUME Minds, UNCHANGED goal PROVE Minds'
  BY DEF Minds

\* What a client may ask for is a goal.
LEMMA RequestsGoals == Requests \subseteq Goals \union {NoGoal}
<1>1. Targets \subseteq Entities
  BY AgentAssumption
<1>2. [kind : {"Attack"}, target : Targets \intersect exists, skill : Skills \union {AutoAttack}] \subseteq Goals
  BY <1>1 DEF Goals
<1>3. [kind : {"PickUp"}, target : Targets \intersect Drops \intersect exists] \subseteq Goals
  BY DEF Goals
<1>4. QED
  BY <1>2, <1>3 DEF Requests

\* A monster turns on a fighter.
LEMMA MindsAttacked == ASSUME Minds, Fights, attack_player PROVE Minds'
<1> SUFFICES ASSUME NEW e \in Fighters PROVE goal'[e] \in Goals \union {NoGoal}
  BY DEF Minds
<1>1. goal[e] \in Goals \union {NoGoal}
  BY DEF Minds
<1>2. PICK D : D = {i \in DOMAIN noticed : noticed[i].target = e}
  OBVIOUS
<1>3. PICK f : f = CHOOSE i \in D : \A j \in D : i <= j
  OBVIOUS
<1>4. \/ goal'[e] = goal[e]
      \/ D # {} /\ goal'[e] = [kind |-> "Attack", target |-> noticed[f].source, skill |-> AutoAttack]
  BY <1>2, <1>3 DEF attack_player
<1>5. ASSUME D # {} PROVE [kind |-> "Attack", target |-> noticed[f].source, skill |-> AutoAttack] \in Goals
  <2>1. noticed \in Seq(Hits) /\ DOMAIN noticed = 1..Len(noticed) /\ Len(noticed) \in Nat
    BY LenProperties DEF Fights
  <2>2. D \subseteq Nat
    BY <1>2, <2>1
  <2>3. \E i \in D : \A j \in D : i <= j
    BY <1>5, <2>2, Least
  <2>4. f \in DOMAIN noticed
    BY <1>2, <1>3, <2>3
  <2>5. noticed[f] \in Hits
    BY <2>1, <2>4, ElementOfSeq
  <2>6. noticed[f].source \in Entities
    BY <2>5 DEF Hits, Entities
  <2>7. QED
    BY <2>6 DEF Goals
<1>6. QED
  BY <1>1, <1>4, <1>5

\* Minds stay as they should be.
LEMMA MindsStep == ASSUME Minds, Fights, [Next]_vars PROVE Minds'
<1>1. ASSUME NEW D, NEW add, \A e \in Fighters : e \in D => add[e] \in Goals \union {NoGoal},
             goal' = [e \in Fighters |-> IF e \in D THEN add[e] ELSE goal[e]]
      PROVE  Minds'
  BY <1>1 DEF Minds
<1>2. ASSUME NEW D, goal' = [e \in Fighters |-> IF e \in D THEN NoGoal ELSE goal[e]]
      PROVE  Minds'
  BY <1>2 DEF Minds
<1>3. CASE update_action
  <2>1. CASE UNCHANGED goal
    BY <2>1, MindsKept
  <2>2. CASE goal' # goal
    <3>1. PICK D : D = {e \in Fighters : e \in With("Moving") \ With("Idle") /\ Abandons(e)}
      OBVIOUS
    <3>2. goal' = [e \in Fighters |-> IF e \in D THEN NoGoal ELSE goal[e]]
      BY <1>3, <2>2, <3>1 DEF update_action
    <3>3. QED
      BY <1>2, <3>2
  <2>3. QED
    BY <2>1, <2>2
<1>4. CASE handle_action
  <2>1. PICK askers : \E asked \in [askers -> Requests] : goal' = [e \in Fighters |-> IF e \in askers THEN asked[e] ELSE goal[e]]
    BY <1>4 DEF handle_action
  <2>2. PICK asked \in [askers -> Requests] : goal' = [e \in Fighters |-> IF e \in askers THEN asked[e] ELSE goal[e]]
    BY <2>1
  <2>3. \A e \in Fighters : e \in askers => asked[e] \in Goals \union {NoGoal}
    BY RequestsGoals
  <2>4. QED
    BY <1>1, <2>2, <2>3
<1>5. CASE enqueue_action
  <2>1. PICK D : D = {e \in Fighters : e \in With("Idle") /\ goal[e] # NoGoal /\ Cancels(e)}
    OBVIOUS
  <2>2. goal' = [e \in Fighters |-> IF e \in D THEN NoGoal ELSE goal[e]]
    BY <1>5, <2>1 DEF enqueue_action
  <2>3. QED
    BY <1>2, <2>2
<1>6. ASSUME NEW s \in Systems, Apply(s) PROVE Minds'
  <2>1. CASE UNCHANGED goal
    BY <2>1, MindsKept
  <2>2. CASE goal' # goal
    <3>1. PICK D : goal' = [e \in Fighters |-> IF e \in D THEN NoGoal ELSE goal[e]]
      BY <1>6, <2>2, Zenon DEF Apply, Panic, world
    <3>2. QED
      BY <1>2, <3>1
  <2>3. QED
    BY <2>1, <2>2
<1>7. CASE movement_input \/ disconnected \/ transition_to_idle \/ transition_from_idle \/ transition_from_moving
           \/ transition_from_attacking \/ movement \/ pickup \/ dead
  <2>1. UNCHANGED goal
    BY <1>7 DEF movement_input, disconnected, transition_to_idle, transition_from_idle, transition_from_moving,
       transition_from_attacking, transition_to_new_state, movement, pickup, dead, world
  <2>2. QED
    BY <2>1, MindsKept
<1>8. CASE action \/ handle_damage
  <2>1. UNCHANGED goal
    BY <1>8, Zenon DEF action, handle_damage, Panic, world
  <2>2. QED
    BY <2>1, MindsKept
<1>9. CASE drop_gold \/ movement_monster \/ tick_drop \/ spawn_monsters \/ create_drops \/ NextSchedule \/ UNCHANGED vars
  <2>1. UNCHANGED goal
    BY <1>9 DEF drop_gold, movement_monster, tick_drop, spawn_monsters, create_drops, NextSchedule, vars, world
  <2>2. QED
    BY <2>1, MindsKept
<1>10. QED
  BY <1>3, <1>4, <1>5, <1>6, <1>7, <1>8, <1>9, MindsAttacked DEF Next

\* Hits that are sent.
LEMMA FightsAction == ASSUME Bodies, Fights, action PROVE Fights'
<1>1. CASE UNCHANGED <<health, damage, noticed, deaths>>
  BY <1>1 DEF Fights
<1>2. CASE ~UNCHANGED <<health, damage, noticed, deaths>>
  <2>1. PICK due \in SUBSET With("Action") :
           LET hitters == {e \in due : ActionOf(e).phase = "Casting"}
               n == Cardinality(hitters)
           IN  /\ UNCHANGED <<health, deaths>>
               /\ \E order \in Injection(1 .. n, hitters), amount \in [1 .. n -> Amounts] :
                    LET hits == [i \in 1 .. n |-> [source |-> order[i], target |-> ActionOf(order[i]).target,
                                                   amount |-> amount[i]]]
                    IN damage' = damage \o hits /\ noticed' = noticed \o hits
    BY <1>2, Zenon DEF action, Panic, battle, events
  <2>2. PICK hitters : hitters = {e \in due : ActionOf(e).phase = "Casting"}
    OBVIOUS
  <2>3. hitters \subseteq With("Action") /\ hitters \subseteq Fighters
    BY <2>2 DEF With
  <2>4. PICK n : n = Cardinality(hitters)
    OBVIOUS
  <2>5. IsFiniteSet(hitters) /\ n \in Nat
    <3>1. IsFiniteSet(hitters)
      BY <2>3, AgentAssumption, FS_Subset
    <3>2. QED
      BY <2>4, <3>1, FS_CardinalityType
  <2>6. PICK order \in Injection(1 .. n, hitters), amount \in [1 .. n -> Amounts] : \E hits :
           /\ hits = [i \in 1 .. n |-> [source |-> order[i], target |-> ActionOf(order[i]).target, amount |-> amount[i]]]
           /\ damage' = damage \o hits /\ noticed' = noticed \o hits
    BY <2>1, <2>2, <2>4, Zenon
  <2>7. PICK hits : /\ hits = [i \in 1 .. n |-> [source |-> order[i], target |-> ActionOf(order[i]).target, amount |-> amount[i]]]
                    /\ damage' = damage \o hits /\ noticed' = noticed \o hits
    BY <2>6, Zenon
  <2>8. ASSUME NEW i \in 1 .. n PROVE hits[i] \in Hits
    <3>1. order[i] \in hitters
      BY DEF Injection
    <3>2. order[i] \in Fighters /\ Has(order[i], "Action")
      BY <2>3, <3>1 DEF With
    <3>3. ActionOf(order[i]).target \in Entities
      BY <3>2, ActsOn
    <3>4. amount[i] \in Amounts
      OBVIOUS
    <3>5. hits[i] = [source |-> order[i], target |-> ActionOf(order[i]).target, amount |-> amount[i]]
      BY <2>7
    <3>6. QED
      BY <3>2, <3>3, <3>4, <3>5 DEF Hits
  <2>9. hits \in [1 .. n -> Hits]
    BY <2>7, <2>8
  <2>10. hits \in Seq(Hits)
    BY <2>5, <2>9, SeqDef
  <2>11. damage' \in Seq(Hits) /\ noticed' \in Seq(Hits)
    BY <2>7, <2>10, ConcatProperties DEF Fights
  <2>12. UNCHANGED <<health, deaths>>
    BY <2>1
  <2>13. QED
    BY <2>11, <2>12 DEF Fights
<1>3. QED
  BY <1>1, <1>2

\* Hits that are read.
LEMMA FightsDamage == ASSUME Shape, Fights, handle_damage PROVE Fights'
<1>1. CASE UNCHANGED <<health, damage, noticed, deaths>>
  BY <1>1 DEF Fights
<1>2. CASE ~UNCHANGED <<health, damage, noticed, deaths>>
  <2>1. /\ damage # <<>> /\ damage' = Tail(damage) /\ UNCHANGED noticed
        /\ \/ UNCHANGED <<health, deaths>>
           \/ Head(damage).target \in Fighters /\ Receives(Head(damage))
    BY <1>2, Zenon DEF handle_damage, Panic, battle, events
  <2>2. damage' \in Seq(Hits)
    BY <2>1, HeadTailProperties DEF Fights
  <2>3. CASE UNCHANGED <<health, deaths>>
    BY <2>1, <2>2, <2>3 DEF Fights
  <2>4. CASE Head(damage).target \in Fighters /\ Receives(Head(damage))
    <3>1. PICK event : event = Head(damage) /\ event \in Hits /\ event.target \in Fighters
      BY <2>1, <2>4, HeadTailProperties DEF Fights
    <3>2. event.amount \in Nat
      BY <3>1, AgentAssumption DEF Hits
    <3>3. PICK left : left = saturating_sub(health[event.target], Absorbed(event))
      OBVIOUS
    <3>4. health[event.target] \in 0..MaxHealth /\ MaxHealth \in Nat
      BY <3>1, AgentAssumption DEF Fights
    <3>5. Absorbed(event) \in Nat
      BY <3>2 DEF Absorbed
    <3>6. left \in 0..MaxHealth
      BY <3>3, <3>4, <3>5 DEF saturating_sub
    <3>7. health' = [health EXCEPT ![event.target] = left]
      BY <2>4, <3>1, <3>3 DEF Receives
    <3>8. deaths' \subseteq deaths \union {event.target}
      BY <2>4, <3>1 DEF Receives
    <3>9. \A e \in Fighters : health'[e] \in 0..MaxHealth
      BY <3>6, <3>7 DEF Shape, Fights
    <3>10. deaths' \subseteq Fighters
      BY <3>1, <3>8 DEF Fights
    <3>11. QED
      BY <2>1, <2>2, <3>9, <3>10 DEF Fights
  <2>5. QED
    BY <2>1, <2>3, <2>4
<1>3. QED
  BY <1>1, <1>2

\* Health and events stay as they should be.
LEMMA FightsStep == ASSUME Shape, Bodies, Fights, [Next]_vars PROVE Fights'
<1>0. <<>> \in Seq(Hits)
  OBVIOUS
<1>1. ASSUME UNCHANGED <<health, damage, noticed, deaths>> PROVE Fights'
  BY <1>1 DEF Fights
<1>2. CASE attack_player
  <2>1. UNCHANGED <<health, damage, deaths>> /\ noticed' = <<>>
    BY <1>2 DEF attack_player, battle
  <2>2. QED
    BY <1>0, <2>1 DEF Fights
<1>3. CASE drop_gold
  <2>1. UNCHANGED <<health, damage, noticed>> /\ deaths' = {}
    BY <1>3 DEF drop_gold, battle
  <2>2. QED
    BY <2>1 DEF Fights
<1>4. CASE movement_input \/ update_action \/ disconnected \/ transition_to_idle \/ transition_from_idle
           \/ transition_from_moving \/ transition_from_attacking \/ movement \/ pickup \/ dead
  <2>1. UNCHANGED <<health, damage, noticed, deaths>>
    BY <1>4 DEF movement_input, update_action, disconnected, transition_to_idle, transition_from_idle, transition_from_moving,
       transition_from_attacking, transition_to_new_state, movement, pickup, dead, battle, events
  <2>2. QED
    BY <1>1, <2>1
<1>5. CASE handle_action \/ movement_monster \/ tick_drop \/ spawn_monsters \/ enqueue_action \/ create_drops
           \/ NextSchedule \/ UNCHANGED vars
  <2>1. UNCHANGED <<health, damage, noticed, deaths>>
    BY <1>5 DEF handle_action, movement_monster, tick_drop, spawn_monsters, enqueue_action, create_drops, NextSchedule,
       vars, battle, events
  <2>2. QED
    BY <1>1, <2>1
<1>6. ASSUME NEW s \in Systems, Apply(s) PROVE Fights'
  <2>1. UNCHANGED <<health, damage, noticed, deaths>>
    BY <1>6, Zenon DEF Apply, Panic, battle, events
  <2>2. QED
    BY <1>1, <2>1
<1>7. QED
  BY <1>2, <1>3, <1>4, <1>5, <1>6, FightsAction, FightsDamage DEF Next

\* What a bound leaves.
LEMMA BoundLeft ==
    ASSUME NEW M \in Nat, NEW r \in 0..M, NEW S, S \subseteq Fighters, Cardinality(S) <= r
    PROVE  r - Cardinality(S) \in 0..M
<1>1. IsFiniteSet(S)
  BY AgentAssumption, FS_Subset
<1>2. Cardinality(S) \in Nat
  BY <1>1, FS_CardinalityType
<1>3. QED
  BY <1>2

\* The schedules go round.
LEMMA Goes ==
    ASSUME schedule \in {"PreUpdate", "Update", "PostUpdate"}
    PROVE  Following(schedule) \in {"PreUpdate", "Update", "PostUpdate"}
  BY DEF Following

\* What is left to run, and the bounds, stay as they should be.
LEMMA ClockStep == ASSUME Clock, [Next]_vars PROVE Clock'
<1>0. MaxRequests \in Nat /\ MaxStrolls \in Nat
  BY AgentAssumption
<1>1. ASSUME UNCHANGED schedule, todo' \subseteq todo, UNCHANGED <<requests, strolls>> PROVE Clock'
  BY <1>1 DEF Clock
<1>2. CASE movement_input
  <2>1. PICK inputs \in UNION {[P -> MovementGoals] : P \in SUBSET (Players \intersect exists)} :
           Cardinality(DOMAIN inputs) <= requests /\ requests' = requests - Cardinality(DOMAIN inputs)
    BY <1>2 DEF movement_input
  <2>2. DOMAIN inputs \subseteq Fighters
    BY DEF Fighters
  <2>3. requests' \in 0..MaxRequests
    BY <1>0, <2>1, <2>2, BoundLeft DEF Clock
  <2>4. UNCHANGED <<schedule, strolls>> /\ todo' \subseteq todo
    BY <1>2 DEF movement_input, Finishes
  <2>5. QED
    BY <2>3, <2>4 DEF Clock
<1>3. CASE handle_action
  <2>1. PICK askers \in SUBSET (Players \intersect exists) :
           Cardinality(askers) <= requests /\ requests' = requests - Cardinality(askers)
    BY <1>3 DEF handle_action
  <2>2. askers \subseteq Fighters
    BY DEF Fighters
  <2>3. requests' \in 0..MaxRequests
    BY <1>0, <2>1, <2>2, BoundLeft DEF Clock
  <2>4. UNCHANGED <<schedule, strolls>> /\ todo' \subseteq todo
    BY <1>3 DEF handle_action, Finishes
  <2>5. QED
    BY <2>3, <2>4 DEF Clock
<1>4. CASE movement_monster
  <2>1. PICK strollers \in SUBSET {m \in With("Idle") \intersect Monsters : goal[m] = NoGoal} :
           Cardinality(strollers) <= strolls /\ strolls' = strolls - Cardinality(strollers)
    BY <1>4 DEF movement_monster
  <2>2. strollers \subseteq Fighters
    BY DEF Fighters
  <2>3. strolls' \in 0..MaxStrolls
    BY <1>0, <2>1, <2>2, BoundLeft DEF Clock
  <2>4. UNCHANGED <<schedule, requests>> /\ todo' \subseteq todo
    BY <1>4 DEF movement_monster, Finishes
  <2>5. QED
    BY <2>3, <2>4 DEF Clock
<1>5. CASE NextSchedule
  <2>1. schedule' = Following(schedule) /\ todo' = SystemsOf(schedule') /\ UNCHANGED <<requests, strolls>>
    BY <1>5 DEF NextSchedule
  <2>2. schedule' \in {"PreUpdate", "Update", "PostUpdate"}
    BY <2>1, Goes DEF Clock
  <2>3. QED
    BY <2>1, <2>2 DEF Clock
<1>6. CASE update_action \/ disconnected \/ transition_to_idle \/ transition_from_idle
           \/ transition_from_moving \/ transition_from_attacking \/ movement \/ pickup \/ dead
  <2>1. UNCHANGED <<schedule, requests, strolls>> /\ todo' \subseteq todo
    BY <1>6 DEF update_action, disconnected, transition_to_idle, transition_from_idle, transition_from_moving,
       transition_from_attacking, transition_to_new_state, movement, pickup, dead, Finishes
  <2>2. QED
    BY <1>1, <2>1
<1>7. CASE attack_player \/ drop_gold \/ tick_drop \/ spawn_monsters \/ enqueue_action \/ create_drops \/ UNCHANGED vars
  <2>1. UNCHANGED <<schedule, requests, strolls>> /\ todo' \subseteq todo
    BY <1>7 DEF attack_player, drop_gold, tick_drop, spawn_monsters, enqueue_action, create_drops, Finishes, vars, loop
  <2>2. QED
    BY <1>1, <2>1
<1>8. CASE action
  <2>1. UNCHANGED <<schedule, requests, strolls>> /\ (todo' = todo \/ todo' = todo \ {"action"})
    BY <1>8, Zenon DEF action, Panic, loop, Finishes
  <2>2. QED
    BY <1>1, <2>1
<1>9. CASE handle_damage
  <2>1. UNCHANGED <<schedule, requests, strolls>> /\ (todo' = todo \/ todo' = todo \ {"handle_damage"})
    BY <1>9, Zenon DEF handle_damage, Panic, loop, Finishes
  <2>2. QED
    BY <1>1, <2>1
<1>10. ASSUME NEW s \in Systems, Apply(s) PROVE Clock'
  <2>1. UNCHANGED <<schedule, requests, strolls, todo>>
    BY <1>10, Zenon DEF Apply, Panic, loop
  <2>2. QED
    BY <1>1, <2>1
<1>11. QED
  BY <1>2, <1>3, <1>4, <1>5, <1>6, <1>7, <1>8, <1>9, <1>10 DEF Next

\* At the start.
LEMMA TypedFirst == ASSUME Init PROVE Typed
<1>1. Bodies
  <2>1. exists \subseteq Entities
    BY AgentAssumption DEF Init, Entities
  <2>2. <<>> \in Seq(Components)
    OBVIOUS
  <2>3. \A e \in Fighters : state[e] = {} /\ queue[e] = <<>>
    BY DEF Init
  <2>4. \A s \in Systems : DOMAIN buffer[s] = {}
    BY DEF Init, NoCommands
  <2>5. QED
    BY <2>1, <2>2, <2>3, <2>4 DEF Bodies
<1>2. Minds
  BY DEF Init, Minds
<1>3. Fights
  <2>1. <<>> \in Seq(Hits)
    OBVIOUS
  <2>2. MaxHealth \in 0..MaxHealth
    BY AgentAssumption
  <2>3. QED
    BY <2>1, <2>2 DEF Init, Fights
<1>4. Clock
  BY AgentAssumption DEF Init, Clock
<1>5. QED
  BY <1>1, <1>2, <1>3, <1>4 DEF Typed

\* A sequence has elements of its set.
LEMMA RangeIn == ASSUME NEW S, NEW q \in Seq(S) PROVE Range(q) \subseteq S
  BY LenProperties, ElementOfSeq DEF Range

\* TypeOK is a part of it.
LEMMA TypedIs == ASSUME Shape, Typed PROVE TypeOK
<1>1. \A e \in Fighters : Range(queue[e]) \subseteq Components
  BY RangeIn DEF Typed, Bodies
<1>2. Range(damage) \subseteq Hits /\ Range(noticed) \subseteq Hits
  BY RangeIn DEF Typed, Fights
<1>3. exists \subseteq Entities /\ \A e \in Fighters : state[e] \subseteq Components /\ \A c, d \in state[e] : c.kind = d.kind => c = d
  BY DEF Typed, Bodies
<1>4. \A e \in Fighters : goal[e] \in Goals \union {NoGoal}
  BY DEF Typed, Minds
<1>5. (\A e \in Fighters : health[e] \in 0..MaxHealth) /\ deaths \subseteq Fighters
  BY DEF Typed, Fights
<1>6. spawns \subseteq DOMAIN Gold
  BY DEF Shape
<1>7. todo \subseteq SystemsOf(schedule) /\ requests \in 0..MaxRequests /\ strolls \in 0..MaxStrolls
  BY DEF Typed, Clock
<1>8. QED
  BY <1>1, <1>2, <1>3, <1>4, <1>5, <1>6, <1>7 DEF TypeOK

\* Whatever the order in which systems run and commands are applied, a fighter never has
\* two state components of a kind, every state, request and goal is one the code knows,
\* the target of a pickup is a drop, and no counter leaves its bounds.
THEOREM AgentsTyped == Spec => []TypeOK
<1>1. Init => Typed
  BY TypedFirst
<1>2. Inv /\ Typed /\ [Next]_vars => Typed'
  <2> SUFFICES ASSUME Inv, Typed, [Next]_vars PROVE Typed'
    OBVIOUS
  <2>1. Shape /\ Bodies /\ Minds /\ Fights /\ Clock
    BY DEF Inv, Typed
  <2>2. Bodies' /\ Minds' /\ Fights' /\ Clock'
    BY <2>1, BodiesStep, MindsStep, FightsStep, ClockStep
  <2>3. QED
    BY <2>2 DEF Typed
<1>3. Inv /\ Typed => TypeOK
  BY TypedIs DEF Inv
<1>4. QED
  BY <1>1, <1>2, <1>3, AlwaysInv, PTL DEF Spec
=============================================================================
