-------------------------- MODULE VisibilityProofs --------------------------
(***************************************************************************)
(* Proofs about Visibility for any number of players and things, any       *)
(* places, radius and regions, and any number of ticks.                    *)
(***************************************************************************)
EXTENDS Visibility, FiniteSetTheorems, FunctionTheorems, TLAPS

\* A function with entries taken out.
LEMMA WithoutIs ==
    \A f, S : DOMAIN Without(f, S) = DOMAIN f \ S /\ \A x \in DOMAIN f \ S : Without(f, S)[x] = f[x]
  BY DEF Without

-----------------------------------------------------------------------------
(* The invariant.                                                          *)

\* What a player saw before the last look.
Old(p) == (view[p].seen \ view[p].added) \cup view[p].removed

Views == [seen : SUBSET Entities, added : SUBSET Entities, removed : SUBSET Entities]

\* The look of this tick is done, its differences are not told yet.
Seen == phase = "PostUpdate" \/ (phase = "Update" /\ looked)

\* Nothing is spawned under the identity of what is there or referred to, and commands
\* wait in Update only.
Typed ==
    /\ phase \in {"Begin", "Update", "PostUpdate"}
    /\ DOMAIN place \subseteq Entities /\ DOMAIN id = Entities
    /\ DOMAIN state = Here /\ DOMAIN view = Here /\ DOMAIN client = Here
    /\ \A p \in Here : view[p] \in Views /\ view[p].added \subseteq view[p].seen /\ view[p].seen \cap view[p].removed = {}
    /\ DOMAIN commands.spawn \subseteq Entities /\ DOMAIN commands.spawn \cap Existing = {}
    /\ \A p \in Here : DOMAIN commands.spawn \cap (view[p].seen \cup view[p].removed) = {}
    /\ commands.despawn \subseteq Existing \cap Things
    /\ phase # "Update" => DOMAIN commands.spawn = {}
    /\ DOMAIN commands = {"spawn", "despawn", "hide"}
    /\ phase # "Begin" => strangers = {}

\* No two entities that are there have the same id.
Distinct == \A e, f \in Existing : id[e] = id[f] => e = f

Unlooked == ~Seen => \A p \in Here : view[p].added = {} /\ view[p].removed = {}

\* Nor have two that a player sees or saw, and an entity that is gone has passed its
\* id on only for a player that was left out.
Apart(p) ==
    /\ \A e, f \in view[p].seen : id[e] = id[f] => e = f
    /\ \A e, f \in Old(p) : id[e] = id[f] => e = f
    /\ \A e \in view[p].added, f \in view[p].removed : id[e] = id[f] => <<p, f>> \in stale
    /\ \A f \in view[p].seen \ Existing : <<p, f>> \in stale \/ \A e \in Existing : id[e] # id[f]
    /\ phase = "Update" /\ looked => \A f \in view[p].seen \ Existing : <<p, f>> \in stale
    /\ phase # "Update" => \A f \in view[p].seen \ Existing : <<p, f>> \in stale \/ id[f] \in freed

\* Players see each other unless one was left out.
Mutual == Seen => \A p, q \in Here : q \in view[p].seen => <<p, q>> \in stale \/ <<p, q>> \in missed \/ p \in view[q].seen

\* The client knows what was seen before the last look.
Known(p) ==
    /\ \A i \in DOMAIN client[p] : \E e \in Old(p) : i = id[e]
    /\ \A e \in (Old(p) \cap Existing) \ invisible : <<p, e>> \in stale \/ id[e] \in DOMAIN client[p]

\* And where it stands, if it has not moved since.
Stands(p, e) ==
    /\ id[e] \in DOMAIN client[p] /\ state[e] = "idle" /\ <<p, e>> \notin stale /\ <<p, e>> \notin missed
    /\ phase = "Begin" \/ (e \notin begun /\ e \notin moved)
    => client[p][id[e]] = place[e]

Inv ==
    /\ Typed /\ Distinct /\ Unlooked /\ Mutual
    /\ \A p \in Here : Apart(p) /\ Known(p) /\ \A e \in Here \cap Old(p) : Stands(p, e)

\* At first nobody has seen anybody.
LEMMA InvInit == Init => Inv
<1> SUFFICES ASSUME Init PROVE Inv
  OBVIOUS
<1>1. DOMAIN place = Players /\ Here = Players /\ Existing = Players
  BY DEF Init, Here, Existing
<1>2. \A p \in Players : view[p] = NothingSeen /\ client[p] = << >>
  BY DEF Init
<1>3. \A p \in Players : view[p].seen = {} /\ view[p].added = {} /\ view[p].removed = {} /\ view[p] \in Views /\ DOMAIN client[p] = {}
  BY <1>2 DEF NothingSeen, Views
<1>4. commands.spawn = << >> /\ commands.despawn = {} /\ DOMAIN commands.spawn = {} /\ DOMAIN commands = {"spawn", "despawn", "hide"}
  BY DEF Init, NoCommands
<1>5. PICK b : b \in Bijection(Players, 1..Cardinality(Players)) /\ id = Over(b, [e \in Things |-> 0])
  <2>1. \E b : b \in Bijection(Players, 1..Cardinality(Players))
    <3>1. PICK n \in Nat : ExistsBijection(1..n, Players)
      BY VisibilityAssumption, FS_NatBijection
    <3>2. n = Cardinality(Players)
      BY <3>1, FS_CountingElements
    <3>3. ExistsBijection(Players, 1..n)
      BY <3>1, Fun_ExistsBijSymmetric
    <3>4. QED
      BY <3>2, <3>3 DEF ExistsBijection
  <2>2. QED
    BY <2>1 DEF Init
<1>6. DOMAIN b = Players /\ \A e, f \in Players : b[e] = b[f] => e = f
  BY <1>5 DEF Bijection, Injection, IsInjective
<1>7. DOMAIN id = Entities /\ \A e \in Players : id[e] = b[e]
  <2>1. PICK z : z = [e \in Things |-> 0]
    OBVIOUS
  <2>2. DOMAIN z = Things /\ id = Over(b, z)
    BY <1>5, <2>1
  <2>3. DOMAIN id = DOMAIN b \cup DOMAIN z /\ \A x \in DOMAIN b : id[x] = b[x]
    BY <2>2 DEF Over
  <2>4. QED
    BY <1>6, <2>2, <2>3 DEF Entities
<1>8. Typed
  BY <1>1, <1>3, <1>4, <1>7 DEF Init, Typed, Entities
<1>9. Distinct
  BY <1>1, <1>6, <1>7 DEF Distinct
<1>10. Unlooked /\ Mutual
  BY <1>1, <1>3 DEF Unlooked, Mutual
<1>11. \A p \in Players : Old(p) = {}
  BY <1>3 DEF Old
<1>12. \A p \in Players : Apart(p) /\ Known(p)
  BY <1>3, <1>11 DEF Apart, Known
<1>13. QED
  BY <1>1, <1>8, <1>9, <1>10, <1>11, <1>12 DEF Inv

-----------------------------------------------------------------------------
(* Before and after the look.                                              *)

\* What leaves the entities, what is seen and what is told alone.
LEMMA Stays ==
    ASSUME Inv, UNCHANGED <<phase, looked, id, freed, invisible, view, client, stale, missed, strangers>>,
           DOMAIN place' = DOMAIN place, DOMAIN state' = DOMAIN state,
           \/ UNCHANGED commands
           \/ /\ phase = "Update" /\ DOMAIN commands' = {"spawn", "despawn", "hide"}
              /\ DOMAIN commands.spawn' \subseteq Entities
              /\ \A e \in DOMAIN commands.spawn' : e \in DOMAIN commands.spawn \/ e \notin Referenced
              /\ commands.despawn' \subseteq Existing \cap Things,
           \A p, e \in Here : e \in Old(p) => Stands(p, e)'
    PROVE  Inv'
<1>1. Existing' = Existing /\ Here' = Here /\ (Seen' <=> Seen) /\ \A p : Old(p)' = Old(p)
  BY DEF Existing, Here, Seen, Old
<1>2. Typed'
  <2>1. CASE UNCHANGED commands
    BY <1>1, <2>1 DEF Inv, Typed
  <2>2. CASE /\ phase = "Update" /\ DOMAIN commands' = {"spawn", "despawn", "hide"}
             /\ DOMAIN commands.spawn' \subseteq Entities
             /\ \A e \in DOMAIN commands.spawn' : e \in DOMAIN commands.spawn \/ e \notin Referenced
             /\ commands.despawn' \subseteq Existing \cap Things
    <3>1. ASSUME NEW e \in DOMAIN commands.spawn'
          PROVE  e \notin Existing /\ \A p \in Here : e \notin view[p].seen /\ e \notin view[p].removed
      <4>1. CASE e \in DOMAIN commands.spawn
        BY <4>1 DEF Inv, Typed
      <4>2. CASE e \notin Referenced
        BY <4>2 DEF Referenced
      <4>3. QED
        BY <2>2, <3>1, <4>1, <4>2
    <3>2. QED
      BY <1>1, <2>2, <3>1 DEF Inv, Typed
  <2>3. QED
    BY <2>1, <2>2
<1>3. Distinct' /\ Unlooked' /\ Mutual'
  BY <1>1 DEF Inv, Distinct, Unlooked, Mutual
<1>4. \A p \in Here : Apart(p)' /\ Known(p)'
  BY <1>1 DEF Inv, Apart, Known
<1>5. QED
  BY <1>1, <1>2, <1>3, <1>4 DEF Inv

\* A player starts or stops,
LEMMA transitionKeeps == ASSUME Inv, NEW p \in Players, transition(p) PROVE Inv'
<1>1. PICK s : s # state[p] /\ state' = [state EXCEPT ![p] = s] /\ begun' = IF s = "acting" THEN begun ELSE begun \cup {p}
  BY DEF transition
<1>2. /\ UNCHANGED <<phase, looked, id, freed, invisible, view, client, stale, missed, strangers, place, moved, commands>>
      /\ phase = "Update" /\ p \in Here
  BY DEF transition, entities
<1>3. ASSUME NEW q \in Here, NEW e \in Here, e \in Old(q) PROVE Stands(q, e)'
  <2>1. Stands(q, e)
    BY <1>3 DEF Inv
  <2>2. state'[e] = (IF e = p THEN s ELSE state[e])
    BY <1>1 DEF Inv, Typed
  <2>3. CASE e = p /\ state'[e] = "idle"
    <3>1. e \in begun'
      BY <1>1, <2>2, <2>3
    <3>2. QED
      BY <1>2, <3>1 DEF Stands
  <2>4. CASE state'[e] # "idle"
    BY <2>4 DEF Stands
  <2>5. CASE e # p
    <3>1. state'[e] = state[e] /\ (e \in begun' <=> e \in begun)
      BY <1>1, <2>2, <2>5
    <3>2. QED
      BY <1>2, <2>1, <3>1 DEF Stands
  <2>6. QED
    BY <2>3, <2>4, <2>5
<1>4. DOMAIN state' = DOMAIN state
  BY <1>1
<1>5. QED
  BY <1>2, <1>3, <1>4, Stays

\* walks, or teleports,
LEMMA MovesKeep == ASSUME Inv, NEW p \in Players, movement(p) \/ handle_teleport(p) PROVE Inv'
<1>1. PICK q : place' = [place EXCEPT ![p] = q]
  BY DEF movement, handle_teleport
<1>2. /\ UNCHANGED <<phase, looked, id, freed, invisible, view, client, stale, missed, strangers, state, begun, commands>>
      /\ moved' = moved \cup {p} /\ phase = "Update"
  BY DEF movement, handle_teleport
<1>3. ASSUME NEW r \in Here, NEW e \in Here, e \in Old(r) PROVE Stands(r, e)'
  <2>1. Stands(r, e)
    BY <1>3 DEF Inv
  <2>2. CASE e = p
    <3>1. e \in moved' /\ phase' # "Begin"
      BY <1>2, <2>2
    <3>2. QED
      BY <3>1 DEF Stands
  <2>3. CASE e # p
    <3>1. place'[e] = place[e] /\ (e \in moved' <=> e \in moved)
      BY <1>1, <1>2, <2>3 DEF Here, Existing
    <3>2. QED
      BY <1>2, <2>1, <3>1 DEF Stands
  <2>4. QED
    BY <2>2, <2>3
<1>4. DOMAIN place' = DOMAIN place
  BY <1>1
<1>5. QED
  BY <1>2, <1>3, <1>4, Stays

\* or turns.
LEMMA stirKeeps == ASSUME Inv, NEW p \in Players, stir(p) PROVE Inv'
<1>1. UNCHANGED <<phase, looked, id, freed, invisible, view, client, stale, missed, strangers, place, state, begun, moved, commands>>
  BY DEF stir, entities
<1>2. \A q, e \in Here : e \in Old(q) => Stands(q, e)'
  BY <1>1 DEF Inv, Stands
<1>3. QED
  BY <1>1, <1>2, Stays

\* Systems defer what appears, disappears and hides.
LEMMA CommandKeeps ==
    ASSUME Inv, NEW new, Command(new), DOMAIN new = {"spawn", "despawn", "hide"},
           DOMAIN new.spawn \subseteq Entities,
           \A e \in DOMAIN new.spawn : e \in DOMAIN commands.spawn \/ e \notin Referenced,
           new.despawn \subseteq Existing \cap Things
    PROVE  Inv'
<1>1. /\ UNCHANGED <<phase, looked, id, freed, invisible, view, client, stale, missed, strangers, place, state, begun, moved>>
      /\ phase = "Update" /\ commands' = new
  BY DEF Command, entities, tick
<1>2. \A q, e \in Here : e \in Old(q) => Stands(q, e)'
  BY <1>1 DEF Inv, Stands
<1>3. QED
  BY <1>1, <1>2, Stays

\* The three of them.
LEMMA CommandsKeep ==
    ASSUME Inv, \/ \E e \in Entities : spawn(e)
                \/ \E e \in Things : despawn(e)
                \/ \E p \in Players : hide(p)
    PROVE  Inv'
<1>0. /\ DOMAIN commands = {"spawn", "despawn", "hide"} /\ DOMAIN commands.spawn \subseteq Entities
      /\ commands.despawn \subseteq Existing \cap Things
  BY DEF Inv, Typed
<1>1. ASSUME NEW e \in Entities, spawn(e) PROVE Inv'
  <2>1. PICK q : e \notin Referenced /\ Command([commands EXCEPT !.spawn = Over([x \in {e} |-> q], @)])
    BY <1>1 DEF spawn
  <2>2. PICK one, all, new : one = [x \in {e} |-> q] /\ all = Over(one, commands.spawn) /\ new = [commands EXCEPT !.spawn = all]
    OBVIOUS
  <2>3. DOMAIN one = {e} /\ DOMAIN all = {e} \cup DOMAIN commands.spawn
    <3>1. DOMAIN one = {e}
      BY <2>2
    <3>2. DOMAIN all = DOMAIN one \cup DOMAIN commands.spawn
      BY <2>2 DEF Over
    <3>3. QED
      BY <3>1, <3>2
  <2>4. DOMAIN new = {"spawn", "despawn", "hide"} /\ new.spawn = all /\ new.despawn = commands.despawn
    BY <1>0, <2>2
  <2>5. Command(new)
    BY <2>1, <2>2
  <2>6. /\ DOMAIN new.spawn \subseteq Entities /\ new.despawn \subseteq Existing \cap Things
        /\ \A x \in DOMAIN new.spawn : x \in DOMAIN commands.spawn \/ x \notin Referenced
    BY <1>0, <1>1, <2>1, <2>3, <2>4
  <2>7. QED
    BY <2>4, <2>5, <2>6, CommandKeeps
<1>2. ASSUME NEW e \in Things, despawn(e) PROVE Inv'
  <2>1. PICK new : new = [commands EXCEPT !.despawn = @ \cup {e}]
    OBVIOUS
  <2>2. Command(new) /\ e \in Existing
    BY <1>2, <2>1 DEF despawn
  <2>3. DOMAIN new = {"spawn", "despawn", "hide"} /\ new.spawn = commands.spawn /\ new.despawn = commands.despawn \cup {e}
    BY <1>0, <2>1
  <2>4. /\ DOMAIN new.spawn \subseteq Entities /\ new.despawn \subseteq Existing \cap Things
        /\ \A x \in DOMAIN new.spawn : x \in DOMAIN commands.spawn \/ x \notin Referenced
    BY <1>0, <1>2, <2>2, <2>3
  <2>5. QED
    BY <2>2, <2>3, <2>4, CommandKeeps
<1>3. ASSUME NEW p \in Players, hide(p) PROVE Inv'
  <2>1. PICK new : new = [commands EXCEPT !.hide = @ \cup {p}]
    OBVIOUS
  <2>2. Command(new)
    BY <1>3, <2>1 DEF hide
  <2>3. DOMAIN new = {"spawn", "despawn", "hide"} /\ new.spawn = commands.spawn /\ new.despawn = commands.despawn
    BY <1>0, <2>1
  <2>4. /\ DOMAIN new.spawn \subseteq Entities /\ new.despawn \subseteq Existing \cap Things
        /\ \A x \in DOMAIN new.spawn : x \in DOMAIN commands.spawn \/ x \notin Referenced
    BY <1>0, <2>3
  <2>5. QED
    BY <2>2, <2>3, <2>4, CommandKeeps
<1>4. QED
  BY <1>1, <1>2, <1>3

\* A connection is lost, and the tick begins.
LEMMA BeginKeeps == ASSUME Inv, Begin PROVE Inv'
<1>1. PICK gone \in {{}} \cup {{p} : p \in Here} :
        /\ place' = Without(place, gone) /\ state' = Without(state, gone)
        /\ view' = Without(view, gone) /\ client' = Without(client, gone)
        /\ invisible' = invisible \ gone
        /\ stale' = {pair \in stale : pair[1] \notin gone}
        /\ missed' = {pair \in missed : pair[1] \notin gone}
  BY DEF Begin
<1>2. /\ phase = "Begin" /\ phase' = "Update" /\ looked' = FALSE /\ begun' = {} /\ moved' = {} /\ strangers' = {}
      /\ UNCHANGED <<id, commands>>
  BY DEF Begin
<1>3. Typed /\ Distinct /\ Unlooked /\ Mutual /\ ~Seen /\ ~Seen' /\ gone \subseteq Players
  BY <1>1, <1>2 DEF Inv, Seen, Here
<1>4. DOMAIN place' = DOMAIN place \ gone /\ \A e \in DOMAIN place \ gone : place'[e] = place[e]
  BY <1>1, WithoutIs, Zenon
<1>5. DOMAIN state' = DOMAIN state \ gone /\ \A e \in DOMAIN state \ gone : state'[e] = state[e]
  BY <1>1, WithoutIs, Zenon
<1>6. DOMAIN view' = DOMAIN view \ gone /\ \A e \in DOMAIN view \ gone : view'[e] = view[e]
  BY <1>1, WithoutIs, Zenon
<1>7. DOMAIN client' = DOMAIN client \ gone /\ \A e \in DOMAIN client \ gone : client'[e] = client[e]
  BY <1>1, WithoutIs, Zenon
<1>8. Existing' = Existing \ gone /\ Here' = Here \ gone
  BY <1>4 DEF Existing, Here
<1>9. \A p \in Here' : p \in Here /\ view'[p] = view[p] /\ client'[p] = client[p] /\ state'[p] = state[p] /\ place'[p] = place[p]
  BY <1>3, <1>4, <1>5, <1>6, <1>7, <1>8 DEF Typed, Here, Existing
<1>10. \A p \in Here' : \A e : (<<p, e>> \in stale' <=> <<p, e>> \in stale) /\ (<<p, e>> \in missed' <=> <<p, e>> \in missed)
  BY <1>1, <1>8
<1>11. \A p \in Here' : Old(p)' = Old(p)
  BY <1>9 DEF Old
<1>12. Typed'
  <2>1. DOMAIN state' = Here' /\ DOMAIN view' = Here' /\ DOMAIN client' = Here' /\ DOMAIN place' \subseteq Entities
    BY <1>3, <1>4, <1>5, <1>6, <1>7, <1>8 DEF Typed
  <2>2. \A p \in Here' : view'[p] \in Views /\ view'[p].added \subseteq view'[p].seen /\ view'[p].seen \cap view'[p].removed = {}
    BY <1>3, <1>9 DEF Typed
  <2>3. DOMAIN commands.spawn = {}
    BY <1>2, <1>3 DEF Typed
  <2>4. commands.despawn \subseteq Existing' \cap Things
    BY <1>3, <1>8, VisibilityAssumption DEF Typed
  <2>5. QED
    BY <1>2, <1>3, <2>1, <2>2, <2>3, <2>4 DEF Typed
<1>13. Distinct' /\ Unlooked' /\ Mutual'
  BY <1>2, <1>3, <1>8, <1>9 DEF Distinct, Unlooked, Mutual
<1>14. ASSUME NEW p \in Here' PROVE Apart(p)' /\ Known(p)' /\ \A e \in Here' \cap Old(p)' : Stands(p, e)'
  <2>1. p \in Here /\ Apart(p) /\ Known(p) /\ \A e \in Here \cap Old(p) : Stands(p, e)
    BY <1>9, <1>14 DEF Inv
  <2>2. view'[p] = view[p] /\ client'[p] = client[p] /\ Old(p)' = Old(p)
    BY <1>9, <1>11, <1>14
  <2>3. Apart(p)'
    <3>1. ASSUME NEW f \in view[p].seen \ Existing' PROVE <<p, f>> \in stale' \/ \A e \in Existing' : id[e] # id[f]
      <4>1. CASE f \in Existing
        BY <1>3, <1>8, <3>1, <4>1 DEF Distinct
      <4>2. CASE f \notin Existing
        BY <1>8, <1>10, <2>1, <3>1, <4>2 DEF Apart
      <4>3. QED
        BY <4>1, <4>2
    <3>2. /\ \A e, f \in view[p].seen : id[e] = id[f] => e = f
          /\ \A e, f \in Old(p) : id[e] = id[f] => e = f
          /\ \A e \in view[p].added, f \in view[p].removed : id[e] = id[f] => <<p, f>> \in stale'
      BY <1>10, <2>1 DEF Apart
    <3>3. QED
      BY <1>2, <2>2, <3>1, <3>2 DEF Apart
  <2>4. Known(p)'
    <3>1. \A e \in (Old(p) \cap Existing') \ invisible' : e \in (Old(p) \cap Existing) \ invisible
      BY <1>1, <1>8
    <3>2. \A e \in (Old(p) \cap Existing') \ invisible' : <<p, e>> \in stale' \/ id[e] \in DOMAIN client[p]
      BY <1>10, <2>1, <3>1 DEF Known
    <3>3. \A i \in DOMAIN client[p] : \E e \in Old(p) : i = id[e]
      BY <2>1 DEF Known
    <3>4. QED
      BY <1>2, <2>2, <3>2, <3>3 DEF Known
  <2>5. ASSUME NEW e \in Here' \cap Old(p)' PROVE Stands(p, e)'
    <3>1. e \in Here /\ e \in Old(p) /\ Stands(p, e) /\ state'[e] = state[e] /\ place'[e] = place[e]
      BY <1>9, <2>1, <2>2, <2>5
    <3>2. QED
      BY <1>2, <1>10, <2>2, <3>1 DEF Stands
  <2>6. QED
    BY <2>3, <2>4, <2>5
<1>15. QED
  BY <1>12, <1>13, <1>14 DEF Inv

\* Closeness is mutual.
LEMMA RangeIsMutual ==
    ASSUME NEW p \in Here, NEW q \in Here, q \in InRange(p)
    PROVE  p \in InRange(q)
  BY VisibilityAssumption DEF InRange, Here

\* The look.
LEMMA visibility_updateKeeps == ASSUME Inv, visibility_update PROVE Inv'
<1>1. PICK active : active = {p \in Here : Beside[RegionOf[place[p]]] \cap activity # {}}
  OBVIOUS
<1>2. /\ phase = "Update" /\ ~looked /\ looked'
      /\ view' = [p \in Here |-> IF p \in active THEN Looked(p) ELSE view[p]]
      /\ stale' = stale \cup {pair \in (Here \ active) \X Entities : pair[2] \in view[pair[1]].seen}
      /\ missed' = missed \cup {pair \in Here \X (Here \ active) : pair[2] \in view'[pair[1]].seen}
      /\ UNCHANGED <<phase, place, id, freed, invisible, state, begun, moved, commands, client, strangers>>
  BY <1>1 DEF visibility_update, entities, tick
<1>3. Typed /\ Distinct /\ Unlooked /\ ~Seen /\ Seen' /\ active \subseteq Here
  BY <1>1, <1>2 DEF Inv, Seen
<1>4. Existing' = Existing /\ Here' = Here
  BY <1>2 DEF Existing, Here
<1>5. ASSUME NEW p \in Here, p \in active
      PROVE  /\ view'[p] \in Views /\ view'[p].seen = InRange(p)
             /\ view'[p].added = InRange(p) \ view[p].seen /\ view'[p].removed = view[p].seen \ InRange(p)
  <2>1. view[p].added = {} /\ view[p].removed = {} /\ view[p].seen \subseteq Entities
    BY <1>3 DEF Typed, Views, Unlooked
  <2>2. view'[p] = [seen |-> InRange(p), added |-> InRange(p) \ view[p].seen, removed |-> view[p].seen \ InRange(p)]
    BY <1>2, <1>5, <2>1 DEF Looked
  <2>3. InRange(p) \subseteq Entities
    BY <1>3 DEF InRange, Typed, Existing
  <2>4. QED
    BY <2>1, <2>2, <2>3 DEF Views
<1>6. ASSUME NEW p \in Here, p \notin active
      PROVE  /\ view'[p] = view[p] /\ view[p].added = {} /\ view[p].removed = {} /\ view[p].seen \subseteq Entities
             /\ \A e \in view[p].seen : <<p, e>> \in stale'
  <2>1. view'[p] = view[p]
    BY <1>2, <1>6
  <2>2. view[p].added = {} /\ view[p].removed = {} /\ view[p].seen \subseteq Entities
    BY <1>3 DEF Typed, Views, Unlooked
  <2>3. QED
    BY <1>2, <1>6, <2>1, <2>2
<1>7. \A p \in Here : Old(p) = view[p].seen /\ Old(p)' = view[p].seen
  <2>1. ASSUME NEW p \in Here PROVE Old(p) = view[p].seen
    BY <1>3 DEF Old, Unlooked
  <2>2. ASSUME NEW p \in Here PROVE Old(p)' = view[p].seen
    <3>1. CASE p \in active
      BY <1>5, <3>1 DEF Old
    <3>2. CASE p \notin active
      BY <1>6, <3>2 DEF Old
    <3>3. QED
      BY <3>1, <3>2
  <2>3. QED
    BY <2>1, <2>2
<1>8. \A p \in Here : InRange(p) \subseteq Existing
  BY DEF InRange
<1>9. Typed'
  <2>1. ASSUME NEW p \in Here
        PROVE  /\ view'[p] \in Views /\ view'[p].added \subseteq view'[p].seen /\ view'[p].seen \cap view'[p].removed = {}
               /\ DOMAIN commands.spawn \cap (view'[p].seen \cup view'[p].removed) = {}
    <3>1. CASE p \in active
      BY <1>3, <1>5, <1>8, <3>1 DEF Typed
    <3>2. CASE p \notin active
      BY <1>3, <1>6, <3>2 DEF Typed
    <3>3. QED
      BY <3>1, <3>2
  <2>2. DOMAIN view' = Here
    BY <1>2
  <2>3. QED
    BY <1>2, <1>3, <1>4, <2>1, <2>2 DEF Typed
<1>10. Distinct' /\ Unlooked'
  BY <1>2, <1>3, <1>4 DEF Distinct, Unlooked
<1>11. Mutual'
  <2>1. SUFFICES ASSUME NEW p \in Here, NEW q \in Here, q \in view'[p].seen
                 PROVE  <<p, q>> \in stale' \/ <<p, q>> \in missed' \/ p \in view'[q].seen
    BY <1>4 DEF Mutual
  <2>2. CASE p \notin active
    BY <1>6, <2>1, <2>2
  <2>3. CASE q \notin active
    BY <1>2, <2>1, <2>3
  <2>4. CASE p \in active /\ q \in active
    BY <1>5, <2>1, <2>4, RangeIsMutual
  <2>5. QED
    BY <2>2, <2>3, <2>4
<1>12. ASSUME NEW p \in Here PROVE Apart(p)' /\ Known(p)' /\ \A e \in Here' \cap Old(p)' : Stands(p, e)'
  <2>1. Apart(p) /\ Known(p) /\ \A e \in Here \cap Old(p) : Stands(p, e)
    BY <1>12 DEF Inv
  <2>2. \A e : (<<p, e>> \in stale => <<p, e>> \in stale') /\ (<<p, e>> \in missed => <<p, e>> \in missed')
    BY <1>2
  <2>3. Old(p) = view[p].seen /\ Old(p)' = view[p].seen
    BY <1>7
  <2>4. \A e, f \in view[p].seen : id[e] = id[f] => e = f
    BY <2>1 DEF Apart
  <2>5. Apart(p)'
    <3>1. CASE p \in active
      <4>1. /\ view'[p].seen = InRange(p)
            /\ view'[p].added = InRange(p) \ view[p].seen /\ view'[p].removed = view[p].seen \ InRange(p)
        BY <1>5, <3>1
      <4>2. \A e, f \in InRange(p) : id[e] = id[f] => e = f
        BY <1>3, <1>8 DEF Distinct
      <4>3. ASSUME NEW e \in InRange(p) \ view[p].seen, NEW f \in view[p].seen \ InRange(p), id[e] = id[f]
            PROVE  <<p, f>> \in stale'
        <5>1. e \in Existing /\ e # f
          BY <1>8, <4>3
        <5>2. f \notin Existing
          BY <1>3, <4>3, <5>1 DEF Distinct
        <5>3. <<p, f>> \in stale
          BY <2>1, <4>3, <5>1, <5>2 DEF Apart
        <5>4. QED
          BY <2>2, <5>3
      <4>4. InRange(p) \ Existing = {}
        BY <1>8
      <4>5. QED
        BY <1>2, <1>4, <2>3, <2>4, <4>1, <4>2, <4>3, <4>4 DEF Apart
    <3>2. CASE p \notin active
      <4>1. view'[p] = view[p] /\ view[p].added = {} /\ \A e \in view[p].seen : <<p, e>> \in stale'
        BY <1>6, <3>2
      <4>2. QED
        BY <1>2, <2>3, <2>4, <4>1 DEF Apart
    <3>3. QED
      BY <3>1, <3>2
  <2>6. Known(p)'
    BY <1>2, <1>4, <2>1, <2>2, <2>3 DEF Known
  <2>7. \A e \in Here' \cap Old(p)' : Stands(p, e)'
    BY <1>2, <1>4, <2>1, <2>2, <2>3 DEF Stands
  <2>8. QED
    BY <2>5, <2>6, <2>7
<1>13. QED
  BY <1>4, <1>9, <1>10, <1>11, <1>12 DEF Inv

-----------------------------------------------------------------------------
(* The end of Update.                                                      *)

\* What appears gets an id nothing has that is there.
LEMMA EndUpdateKeeps == ASSUME Inv, EndUpdate PROVE Inv'
<1>1. PICK new, gone, joined : new = DOMAIN commands.spawn /\ gone = commands.despawn /\ joined = new \cap Players
  OBVIOUS
<1>2. PICK f \in NewIds(new) : id' = Over(f, id)
  BY <1>1 DEF EndUpdate
<1>3. /\ phase = "Update" /\ looked /\ phase' = "PostUpdate"
      /\ place' = Without(Over(commands.spawn, place), gone)
      /\ freed' = freed \cup {id[e] : e \in gone}
      /\ invisible' = (invisible \cup commands.hide) \ gone
      /\ commands' = NoCommands
      /\ begun' = begun \cup joined
      /\ UNCHANGED <<looked, moved, stale, missed, strangers>>
  BY <1>1 DEF EndUpdate
<1>4. /\ state' = Over([p \in joined |-> "idle"], state)
      /\ view' = Over([p \in joined |-> NothingSeen], view)
      /\ client' = Over([p \in joined |-> << >>], client)
  BY <1>1 DEF EndUpdate
<1>5. Typed /\ Distinct /\ Mutual /\ Seen /\ Seen'
  BY <1>3 DEF Inv, Seen
<1>6. new \subseteq Entities /\ new \cap Existing = {} /\ gone \subseteq Existing /\ gone \cap Players = {} /\ new \cap gone = {}
  BY <1>1, <1>5, VisibilityAssumption DEF Typed
<1>7. DOMAIN f = new /\ (\A e, g \in new : f[e] = f[g] => e = g) /\ \A e \in new : \A x \in Existing : f[e] # id[x]
  <2>1. PICK lowest : lowest \subseteq Ids \ ({id[e] : e \in Existing} \cup freed) /\ f \in Bijection(new, lowest)
    <3>1. PICK free : free = Ids \ ({id[e] : e \in Existing} \cup freed)
      OBVIOUS
    <3>2. PICK lowest : lowest = {i \in free : Cardinality({j \in free : j < i}) < Cardinality(new)}
      OBVIOUS
    <3>3. f \in Bijection(new, lowest)
      BY <1>2, <3>1, <3>2 DEF NewIds
    <3>4. QED
      BY <3>1, <3>2, <3>3
  <2>2. f \in [new -> lowest] /\ \A e, g \in new : f[e] = f[g] => e = g
    BY <2>1 DEF Bijection, Injection, IsInjective
  <2>3. QED
    BY <2>1, <2>2
<1>8. DOMAIN id' = Entities /\ (\A e \in new : id'[e] = f[e]) /\ \A e \in Entities \ new : id'[e] = id[e]
  <2>1. DOMAIN id' = DOMAIN f \cup DOMAIN id /\ (\A x \in DOMAIN f : id'[x] = f[x]) /\ \A x \in DOMAIN id \ DOMAIN f : id'[x] = id[x]
    BY <1>2 DEF Over
  <2>2. DOMAIN id = Entities
    BY <1>5 DEF Typed
  <2>3. QED
    BY <1>6, <1>7, <2>1, <2>2
<1>9. /\ Existing' = (Existing \cup new) \ gone /\ Here' = Here \cup joined
      /\ \A e \in Existing \ gone : place'[e] = place[e]
  <2>1. PICK o : o = Over(commands.spawn, place)
    OBVIOUS
  <2>2. DOMAIN o = new \cup DOMAIN place /\ \A x \in DOMAIN place \ new : o[x] = place[x]
    BY <1>1, <2>1 DEF Over
  <2>3. DOMAIN place' = DOMAIN o \ gone /\ \A x \in DOMAIN o \ gone : place'[x] = o[x]
    BY <1>3, <2>1, WithoutIs, Zenon
  <2>4. Existing' = (Existing \cup new) \ gone /\ \A e \in Existing \ gone : place'[e] = place[e]
    BY <1>6, <2>2, <2>3 DEF Existing
  <2>5. QED
    BY <1>1, <1>6, <2>4 DEF Here
<1>10. joined \cap Here = {} /\ joined \subseteq new
  BY <1>1, <1>6 DEF Here
<1>11. DOMAIN state' = Here' /\ \A p \in Here : state'[p] = state[p]
  <2>1. PICK z : z = [p \in joined |-> "idle"]
    OBVIOUS
  <2>2. DOMAIN z = joined
    BY <2>1
  <2>3. DOMAIN state' = DOMAIN z \cup DOMAIN state /\ \A x \in DOMAIN state \ DOMAIN z : state'[x] = state[x]
    BY <1>4, <2>1 DEF Over
  <2>4. QED
    BY <1>5, <1>9, <1>10, <2>2, <2>3 DEF Typed
<1>12. DOMAIN view' = Here' /\ (\A p \in Here : view'[p] = view[p]) /\ \A p \in joined : view'[p] = NothingSeen
  <2>1. PICK z : z = [p \in joined |-> NothingSeen]
    OBVIOUS
  <2>2. DOMAIN z = joined /\ \A p \in joined : z[p] = NothingSeen
    BY <2>1
  <2>3. DOMAIN view' = DOMAIN z \cup DOMAIN view /\ (\A x \in DOMAIN z : view'[x] = z[x]) /\ \A x \in DOMAIN view \ DOMAIN z : view'[x] = view[x]
    BY <1>4, <2>1 DEF Over
  <2>4. QED
    BY <1>5, <1>9, <1>10, <2>2, <2>3 DEF Typed
<1>13. DOMAIN client' = Here' /\ (\A p \in Here : client'[p] = client[p]) /\ \A p \in joined : DOMAIN client'[p] = {}
  <2>1. PICK z : z = [p \in joined |-> << >>]
    OBVIOUS
  <2>2. DOMAIN z = joined /\ \A p \in joined : DOMAIN z[p] = {}
    BY <2>1
  <2>3. DOMAIN client' = DOMAIN z \cup DOMAIN client /\ (\A x \in DOMAIN z : client'[x] = z[x]) /\ \A x \in DOMAIN client \ DOMAIN z : client'[x] = client[x]
    BY <1>4, <2>1 DEF Over
  <2>4. QED
    BY <1>5, <1>9, <1>10, <2>2, <2>3 DEF Typed
<1>14. \A p \in joined : /\ view'[p].seen = {} /\ view'[p].added = {} /\ view'[p].removed = {} /\ view'[p] \in Views
                         /\ Old(p)' = {}
  BY <1>12 DEF NothingSeen, Views, Old
<1>15. Typed'
  <2>1. DOMAIN commands'.spawn = {} /\ commands'.despawn = {} /\ DOMAIN commands' = {"spawn", "despawn", "hide"}
    BY <1>3 DEF NoCommands
  <2>2. \A p \in Here' : view'[p] \in Views /\ view'[p].added \subseteq view'[p].seen /\ view'[p].seen \cap view'[p].removed = {}
    BY <1>5, <1>9, <1>12, <1>14 DEF Typed
  <2>3. DOMAIN place' \subseteq Entities
    BY <1>5, <1>6, <1>9 DEF Typed, Existing
  <2>4. QED
    BY <1>3, <1>5, <1>8, <1>11, <1>12, <1>13, <2>1, <2>2, <2>3 DEF Typed
<1>16. Distinct' /\ Unlooked'
  <2>1. ASSUME NEW e \in Existing', NEW g \in Existing', id'[e] = id'[g] PROVE e = g
    <3>1. Existing \subseteq Entities
      BY <1>5 DEF Typed, Existing
    <3>2. \A x \in Existing' : (x \in new /\ id'[x] = f[x]) \/ (x \in Existing /\ id'[x] = id[x])
      BY <1>6, <1>8, <1>9, <3>1
    <3>3. QED
      BY <1>5, <1>7, <2>1, <3>2 DEF Distinct
  <2>2. QED
    BY <1>5, <2>1 DEF Distinct, Unlooked
<1>17. ASSUME NEW p \in Here
       PROVE  /\ view'[p] = view[p] /\ client'[p] = client[p] /\ Old(p)' = Old(p) /\ Old(p) \subseteq Entities
              /\ \A e \in view[p].seen : e \notin new /\ id'[e] = id[e]
              /\ \A e \in view[p].added : id'[e] = id[e]
              /\ \A e \in view[p].removed : id'[e] = id[e]
              /\ \A e \in Old(p) : e \notin new /\ id'[e] = id[e]
  <2>1. view'[p] = view[p] /\ client'[p] = client[p]
    BY <1>12, <1>13
  <2>2. view[p].seen \subseteq Entities /\ view[p].removed \subseteq Entities /\ view[p].added \subseteq view[p].seen
    BY <1>5 DEF Typed, Views
  <2>3. new \cap view[p].seen = {} /\ new \cap view[p].removed = {}
    BY <1>1, <1>5 DEF Typed
  <2>4. QED
    BY <1>8, <2>1, <2>2, <2>3 DEF Old
<1>18. Mutual'
  <2>1. SUFFICES ASSUME NEW p \in Here', NEW q \in Here', q \in view'[p].seen
                 PROVE  <<p, q>> \in stale' \/ <<p, q>> \in missed' \/ p \in view'[q].seen
    BY DEF Mutual
  <2>2. p \in Here
    BY <1>9, <1>14, <2>1
  <2>3. q \in view[p].seen /\ q \in Here
    BY <1>9, <1>10, <1>17, <2>1, <2>2
  <2>4. QED
    BY <1>3, <1>5, <1>17, <2>2, <2>3 DEF Mutual
<1>19. ASSUME NEW p \in Here PROVE Apart(p)' /\ Known(p)' /\ \A e \in Here' \cap Old(p)' : Stands(p, e)'
  <2>1. Apart(p) /\ Known(p) /\ \A e \in Here \cap Old(p) : Stands(p, e)
    BY <1>19 DEF Inv
  <2>2. /\ view'[p] = view[p] /\ client'[p] = client[p] /\ Old(p)' = Old(p)
        /\ \A e \in view[p].seen : e \notin new /\ id'[e] = id[e]
        /\ \A e \in view[p].added : id'[e] = id[e]
        /\ \A e \in view[p].removed : id'[e] = id[e]
        /\ \A e \in Old(p) : e \notin new /\ id'[e] = id[e]
    BY <1>17
  <2>3. ASSUME NEW g \in view[p].seen, g \notin Existing'
        PROVE  <<p, g>> \in stale' \/ ((\A e \in Existing' : id'[e] # id'[g]) /\ id'[g] \in freed')
    <3>1. CASE g \in Existing
      <4>1. g \in gone /\ id'[g] = id[g] /\ g \notin new
        BY <1>9, <2>2, <2>3, <3>1
      <4>2. id'[g] \in freed'
        BY <1>3, <4>1
      <4>3. ASSUME NEW e \in Existing' PROVE id'[e] # id'[g]
        <5>1. CASE e \in new
          BY <1>7, <1>8, <3>1, <4>1, <5>1
        <5>2. CASE e \notin new
          <6>1. e \in Existing /\ id'[e] = id[e] /\ e # g
            BY <1>5, <1>8, <1>9, <2>3, <5>2 DEF Typed, Existing
          <6>2. QED
            BY <1>5, <3>1, <4>1, <6>1 DEF Distinct
        <5>3. QED
          BY <5>1, <5>2
      <4>4. QED
        BY <4>2, <4>3
    <3>2. CASE g \notin Existing
      BY <1>3, <2>1, <2>3, <3>2 DEF Apart
    <3>3. QED
      BY <3>1, <3>2
  <2>4. /\ \A e, g \in view[p].seen : id'[e] = id'[g] => e = g
        /\ \A e, g \in Old(p) : id'[e] = id'[g] => e = g
        /\ \A e \in view[p].added, g \in view[p].removed : id'[e] = id'[g] => <<p, g>> \in stale'
    BY <1>3, <2>1, <2>2 DEF Apart
  <2>5. Apart(p)'
    BY <1>3, <2>2, <2>3, <2>4 DEF Apart
  <2>6. Known(p)'
    <3>1. \A e \in (Old(p) \cap Existing') \ invisible' : e \in (Old(p) \cap Existing) \ invisible
      BY <1>3, <1>9, <2>2
    <3>2. \A e \in (Old(p) \cap Existing') \ invisible' : <<p, e>> \in stale' \/ id'[e] \in DOMAIN client[p]
      BY <1>3, <2>1, <2>2, <3>1 DEF Known
    <3>3. \A i \in DOMAIN client[p] : \E e \in Old(p) : i = id'[e]
      BY <2>1, <2>2 DEF Known
    <3>4. QED
      BY <2>2, <3>2, <3>3 DEF Known
  <2>7. ASSUME NEW e \in Here' \cap Old(p)' PROVE Stands(p, e)'
    <3>1. e \in Here /\ e \in Old(p) /\ id'[e] = id[e]
      BY <1>9, <1>10, <2>2, <2>7
    <3>2. state'[e] = state[e] /\ place'[e] = place[e] /\ Stands(p, e)
      <4>1. e \in Existing \ gone
        BY <1>6, <3>1 DEF Here
      <4>2. QED
        BY <1>9, <1>11, <2>1, <3>1, <4>1
    <3>3. QED
      BY <1>3, <2>2, <3>1, <3>2 DEF Stands
  <2>8. QED
    BY <2>5, <2>6, <2>7
<1>20. ASSUME NEW p \in joined PROVE Apart(p)' /\ Known(p)' /\ Old(p)' = {}
  BY <1>13, <1>14 DEF Apart, Known
<1>21. QED
  BY <1>9, <1>15, <1>16, <1>18, <1>19, <1>20 DEF Inv

-----------------------------------------------------------------------------
(* What the clients are told.                                              *)

Shown(p) == {e \in view[p].added : e \in Existing \ invisible}

\* The client knows the ids of what is shown, each with the place of its player.
LEMMA AnnouncedIs ==
    ASSUME Inv, NEW p \in Here
    PROVE  /\ \A i : i \in DOMAIN Announced(p) <=> i \in DOMAIN client[p] \/ \E e \in Shown(p) : i = id[e]
           /\ \A e \in Shown(p) \cap Players : Announced(p)[id[e]] = place[e]
           /\ \A i \in DOMAIN client[p] : (\A e \in Shown(p) : i # id[e]) => Announced(p)[i] = client[p][i]
<1>1. PICK shown : shown = Shown(p)
  OBVIOUS
<1>2. PICK ids : ids = {id[e] : e \in shown}
  OBVIOUS
<1>3. PICK told : told = [i \in ids |-> LET e == CHOOSE e \in shown : id[e] = i IN IF e \in Players THEN place[e] ELSE None]
  OBVIOUS
<1>4. PICK all, c : c = client[p] /\ all = Over(told, c)
  OBVIOUS
<1>5. Announced(p) = all
  BY <1>1, <1>2, <1>3, <1>4 DEF Announced, Shown
<1>6. DOMAIN told = ids
  BY <1>3
<1>7. DOMAIN all = ids \cup DOMAIN c /\ (\A x \in ids : all[x] = told[x]) /\ \A x \in DOMAIN c \ ids : all[x] = c[x]
  BY <1>4, <1>6 DEF Over
<1>8. ASSUME NEW e \in shown \cap Players PROVE all[id[e]] = place[e]
  <2>1. id[e] \in ids
    BY <1>2, <1>8
  <2>2. PICK w : w = CHOOSE d \in shown : id[d] = id[e]
    OBVIOUS
  <2>3. w \in shown /\ id[w] = id[e]
    BY <1>8, <2>2
  <2>4. w = e
    BY <1>1, <1>8, <2>3 DEF Inv, Distinct, Shown
  <2>5. told[id[e]] = IF w \in Players THEN place[w] ELSE None
    BY <1>3, <2>1, <2>2
  <2>6. QED
    BY <1>7, <1>8, <2>1, <2>4, <2>5
<1>9. \A i : i \in ids <=> \E e \in shown : i = id[e]
  BY <1>2
<1>10. QED
  BY <1>1, <1>4, <1>5, <1>7, <1>8, <1>9

\* The differences told, the client knows what is seen.
LEMMA ToldIs ==
    ASSUME Inv, phase = "PostUpdate", NEW p \in Here, NEW known, known = player_visibility_update(p)
    PROVE  /\ \A i \in DOMAIN known : \E e \in view[p].seen : i = id[e]
           /\ \A e \in (view[p].seen \cap Existing) \ invisible : <<p, e>> \in StillStale \/ id[e] \in DOMAIN known
           /\ \A e \in Here \cap view[p].seen :
                 /\ id[e] \in DOMAIN known /\ state[e] = "idle" /\ <<p, e>> \notin stale /\ <<p, e>> \notin missed
                 /\ e \notin begun /\ e \notin moved
                 => known[id[e]] = place[e]
<1>1. Apart(p) /\ Known(p) /\ (\A e \in Here \cap Old(p) : Stands(p, e)) /\ Typed /\ Distinct
  BY DEF Inv
<1>2. PICK said : said = Announced(p)
  OBVIOUS
<1>3. /\ \A i : i \in DOMAIN said <=> i \in DOMAIN client[p] \/ \E e \in Shown(p) : i = id[e]
      /\ \A e \in Shown(p) \cap Players : said[id[e]] = place[e]
      /\ \A i \in DOMAIN client[p] : (\A e \in Shown(p) : i # id[e]) => said[i] = client[p][i]
  BY <1>2, AnnouncedIs
<1>4. PICK off : off = {id[e] : e \in view[p].removed}
  OBVIOUS
<1>5. DOMAIN known = DOMAIN said \ off /\ \A i \in DOMAIN known : known[i] = said[i]
  BY <1>2, <1>4 DEF player_visibility_update, Without
<1>6. /\ view[p].added \subseteq view[p].seen /\ view[p].seen \cap view[p].removed = {}
      /\ view[p].seen \subseteq Entities
  BY <1>1 DEF Typed, Views
<1>7. Shown(p) \subseteq view[p].added /\ Shown(p) \subseteq Existing
  BY DEF Shown
<1>8. ASSUME NEW i \in DOMAIN known PROVE \E e \in view[p].seen : i = id[e]
  <2>1. i \in DOMAIN said /\ i \notin off
    BY <1>5, <1>8
  <2>2. CASE \E e \in Shown(p) : i = id[e]
    BY <1>6, <1>7, <2>2
  <2>3. CASE i \in DOMAIN client[p]
    <3>1. PICK e \in Old(p) : i = id[e]
      BY <1>1, <2>3 DEF Known
    <3>2. e \notin view[p].removed
      BY <1>4, <2>1, <3>1
    <3>3. QED
      BY <3>1, <3>2 DEF Old
  <2>4. QED
    BY <1>3, <2>1, <2>2, <2>3
<1>9. ASSUME NEW e \in (view[p].seen \cap Existing) \ invisible PROVE <<p, e>> \in StillStale \/ id[e] \in DOMAIN known
  <2>1. e \in Entities /\ <<p, e>> \in Here \X Entities /\ <<p, e>>[1] = p /\ <<p, e>>[2] = e
    BY <1>6, <1>9
  <2>2. CASE <<p, e>> \in stale
    BY <1>9, <2>1, <2>2 DEF StillStale
  <2>3. CASE e \in view[p].added
    <3>1. e \in Shown(p) /\ id[e] \in DOMAIN said
      BY <1>3, <1>9, <2>3 DEF Shown
    <3>2. CASE id[e] \in off
      <4>1. PICK f \in view[p].removed : id[e] = id[f]
        BY <1>4, <3>2
      <4>2. <<p, f>> \in stale
        BY <1>1, <2>3, <4>1 DEF Apart
      <4>3. QED
        BY <2>1, <2>3, <4>1, <4>2 DEF StillStale
    <3>3. CASE id[e] \notin off
      BY <1>5, <3>1, <3>3
    <3>4. QED
      BY <3>2, <3>3
  <2>4. CASE e \notin view[p].added /\ <<p, e>> \notin stale
    <3>1. e \in Old(p) /\ id[e] \in DOMAIN client[p]
      BY <1>1, <1>9, <2>4 DEF Old, Known
    <3>2. id[e] \notin off
      <4>1. ASSUME NEW f \in view[p].removed, id[e] = id[f] PROVE FALSE
        <5>1. f \in Old(p) /\ f # e
          BY <1>6, <1>9, <4>1 DEF Old
        <5>2. QED
          BY <1>1, <3>1, <4>1, <5>1 DEF Apart
      <4>2. QED
        BY <1>4, <4>1
    <3>3. QED
      BY <1>3, <1>5, <3>1, <3>2
  <2>5. QED
    BY <2>2, <2>3, <2>4
<1>10. ASSUME NEW e \in Here \cap view[p].seen, id[e] \in DOMAIN known, state[e] = "idle",
              <<p, e>> \notin stale, <<p, e>> \notin missed, e \notin begun, e \notin moved
       PROVE  known[id[e]] = place[e]
  <2>1. known[id[e]] = said[id[e]] /\ id[e] \notin off /\ id[e] \in DOMAIN said /\ e \in Existing /\ e \in Players
    BY <1>5, <1>10 DEF Here
  <2>2. CASE e \in Shown(p)
    BY <1>3, <2>1, <2>2
  <2>3. CASE e \notin Shown(p)
    <3>1. \A f \in Shown(p) : id[e] # id[f]
      BY <1>1, <1>7, <2>1, <2>3 DEF Distinct
    <3>2. id[e] \in DOMAIN client[p] /\ said[id[e]] = client[p][id[e]]
      BY <1>3, <2>1, <3>1
    <3>3. e \in Old(p)
      <4>1. PICK f \in Old(p) : id[e] = id[f]
        BY <1>1, <3>2 DEF Known
      <4>2. f \notin view[p].removed
        BY <1>4, <2>1, <4>1
      <4>3. f \in view[p].seen
        BY <4>1, <4>2 DEF Old
      <4>4. f = e
        BY <1>1, <1>10, <4>1, <4>3 DEF Apart
      <4>5. QED
        BY <4>1, <4>4
    <3>4. Stands(p, e)
      BY <1>1, <1>10, <3>3
    <3>5. QED
      BY <1>10, <2>1, <3>2, <3>4 DEF Stands
  <2>4. QED
    BY <2>2, <2>3
<1>11. QED
  BY <1>8, <1>9, <1>10

-----------------------------------------------------------------------------
(* The end of a tick.                                                      *)

\* What of the history is still about what a player sees.
LEMMA StillIs ==
    ASSUME Inv, NEW p \in Here, NEW e \in view[p].seen, PostUpdate
    PROVE  /\ <<p, e>> \in stale => <<p, e>> \in stale'
           /\ e \in Players /\ <<p, e>> \in missed => <<p, e>> \in missed'
<1>1. stale' = StillStale /\ missed' = {pair \in Here \X Players : pair \in missed /\ pair[2] \in view[pair[1]].seen}
  BY DEF PostUpdate
<1>2. e \in Entities
  BY DEF Inv, Typed, Views
<1>3. <<p, e>> \in Here \X Entities /\ <<p, e>>[1] = p /\ <<p, e>>[2] = e
  BY <1>2
<1>4. <<p, e>> \in stale => <<p, e>> \in StillStale
  BY <1>3 DEF StillStale
<1>5. e \in Players => <<p, e>> \in Here \X Players
  OBVIOUS
<1>6. QED
  BY <1>1, <1>3, <1>4, <1>5

\* The clients as PostUpdate leaves them: they know the ids that they were told, and
\* of a player that stands and turned up or stopped, where.
LEMMA SynchronizedIs ==
    ASSUME Inv, PostUpdate, NEW p \in Here, NEW known, known = player_visibility_update(p)
    PROVE  /\ DOMAIN client' = Here
           /\ DOMAIN client'[p] = DOMAIN known
           /\ \A e \in Here : id[e] \in DOMAIN known /\ state[e] = "idle" =>
                 /\ e \notin begun /\ e \notin moved => client'[p][id[e]] = known[id[e]]
                 /\ e \in begun \cup moved /\ p \in view[e].seen => client'[p][id[e]] = place[e]
<1>1. PICK all : all = [q \in Here |-> player_visibility_update(q)]
  OBVIOUS
<1>2. DOMAIN all = Here /\ all[p] = known
  BY <1>1
<1>3. PICK about : about = [q \in Here |-> {e \in Here : e \in Mentioned /\ q \in view[e].seen}]
  OBVIOUS
<1>4. PICK heard : heard = [q \in Here |-> {e \in about[q] : id[e] \in DOMAIN all[q]}]
  OBVIOUS
<1>5. synchronize_updates(all)
  BY <1>1 DEF PostUpdate
<1>6. client' = [q \in Here |-> [i \in DOMAIN all[q] |->
                IF \E e \in {d \in {c \in Here : c \in Mentioned /\ q \in view[c].seen} : id[d] \in DOMAIN all[q]} : id[e] = i
                  THEN collect_movement_update(CHOOSE e \in Existing : id[e] = i, all[q][i]) ELSE all[q][i]]]
  BY <1>5, Zenon DEF synchronize_updates
<1>7. DOMAIN client' = Here
  BY <1>6
<1>8a. client'[p] = [i \in DOMAIN all[p] |->
                IF \E e \in {d \in {c \in Here : c \in Mentioned /\ p \in view[c].seen} : id[d] \in DOMAIN all[p]} : id[e] = i
                  THEN collect_movement_update(CHOOSE e \in Existing : id[e] = i, all[p][i]) ELSE all[p][i]]
  BY <1>6, Zenon
<1>8. client'[p] = [i \in DOMAIN known |->
                IF \E e \in {d \in {c \in Here : c \in Mentioned /\ p \in view[c].seen} : id[d] \in DOMAIN known} : id[e] = i
                  THEN collect_movement_update(CHOOSE e \in Existing : id[e] = i, known[i]) ELSE known[i]]
  BY <1>2, <1>8a
<1>9. DOMAIN client'[p] = DOMAIN known
  BY <1>8
<1>10. ASSUME NEW e \in Here, id[e] \in DOMAIN known, state[e] = "idle"
       PROVE  /\ e \notin begun /\ e \notin moved => client'[p][id[e]] = known[id[e]]
              /\ e \in begun \cup moved /\ p \in view[e].seen => client'[p][id[e]] = place[e]
  <2>1. PICK w : w = CHOOSE d \in Existing : id[d] = id[e]
    OBVIOUS
  <2>2. e \in Existing
    BY DEF Here
  <2>3. w \in Existing /\ id[w] = id[e]
    BY <2>1, <2>2
  <2>4. w = e
    BY <2>2, <2>3 DEF Inv, Distinct
  <2>5. (CHOOSE d \in Existing : id[d] = id[e]) = e
    BY <2>1, <2>4
  <2>6. PICK b \in BOOLEAN : b <=> \E d \in {c \in Here : c \in Mentioned /\ p \in view[c].seen} : id[d] \in DOMAIN known /\ id[d] = id[e]
    OBVIOUS
  <2>7. b <=> \E f \in {d \in {c \in Here : c \in Mentioned /\ p \in view[c].seen} : id[d] \in DOMAIN known} : id[f] = id[e]
    BY <2>6, Zenon
  <2>8. client'[p][id[e]] = IF b THEN collect_movement_update(CHOOSE d \in Existing : id[d] = id[e], known[id[e]]) ELSE known[id[e]]
    BY <1>8, <1>10, <2>7, Zenon
  <2>9. client'[p][id[e]] = IF b THEN collect_movement_update(e, known[id[e]]) ELSE known[id[e]]
    BY <2>5, <2>8
  <2>10. ASSUME e \notin begun, e \notin moved PROVE client'[p][id[e]] = known[id[e]]
    BY <1>10, <2>9, <2>10 DEF collect_movement_update
  <2>11. ASSUME e \in begun \cup moved, p \in view[e].seen PROVE client'[p][id[e]] = place[e]
    <3>1. b
      BY <1>10, <2>6, <2>11 DEF Mentioned
    <3>2. collect_movement_update(e, known[id[e]]) = place[e]
      BY <1>10, <2>11 DEF collect_movement_update
    <3>3. QED
      BY <2>9, <3>1, <3>2
  <2>12. QED
    BY <2>10, <2>11
<1>11. QED
  BY <1>7, <1>9, <1>10

\* The differences are told, and forgotten.
LEMMA PostUpdateKeeps == ASSUME Inv, PostUpdate PROVE Inv'
<1>1. /\ phase = "PostUpdate" /\ phase' = "Begin" /\ stale' = StillStale
      /\ view' = [p \in Here |-> [view[p] EXCEPT !.added = {}, !.removed = {}]]
      /\ UNCHANGED <<looked, place, id, freed, invisible, state, begun, moved, stirred, commands>>
  BY DEF PostUpdate, entities, tick
<1>2. Here' = Here /\ Existing' = Existing /\ ~Seen' /\ Seen
  BY <1>1 DEF Here, Existing, Seen
<1>3. Typed /\ Distinct /\ Mutual
  BY DEF Inv
<1>4. \A p \in Here : /\ view[p] \in Views /\ view'[p] \in Views
                      /\ view'[p].seen = view[p].seen /\ view'[p].added = {} /\ view'[p].removed = {}
  BY <1>1, <1>3 DEF Typed, Views
<1>5. \A p \in Here : Old(p)' = view[p].seen
  BY <1>4 DEF Old
<1>6. DOMAIN client' = Here
  BY DEF PostUpdate, synchronize_updates
<1>7. Typed'
  <2>1. DOMAIN view' = Here
    BY <1>1
  <2>2. DOMAIN commands.spawn = {}
    BY <1>1, <1>3 DEF Typed
  <2>3. QED
    BY <1>1, <1>2, <1>3, <1>4, <1>6, <2>1, <2>2 DEF Typed
<1>8. Distinct' /\ Unlooked' /\ Mutual'
  BY <1>1, <1>2, <1>3, <1>4 DEF Distinct, Unlooked, Mutual
<1>9. ASSUME NEW p \in Here PROVE Apart(p)' /\ Known(p)' /\ \A e \in Here' \cap Old(p)' : Stands(p, e)'
  <2>1. Apart(p)
    BY <1>9 DEF Inv
  <2>2. \A e \in view[p].seen : <<p, e>> \in stale => <<p, e>> \in stale'
    BY <1>9, StillIs
  <2>3. view'[p].seen = view[p].seen /\ view'[p].added = {} /\ view'[p].removed = {} /\ Old(p)' = view[p].seen
    BY <1>4, <1>5
  <2>4. Apart(p)'
    <3>1. \A e, f \in view[p].seen : id[e] = id[f] => e = f
      BY <2>1 DEF Apart
    <3>2. \A f \in view[p].seen \ Existing : <<p, f>> \in stale \/ \A e \in Existing : id[e] # id[f]
      BY <2>1 DEF Apart
    <3>3. \A f \in view[p].seen \ Existing : <<p, f>> \in stale \/ id[f] \in freed
      BY <1>1, <2>1 DEF Apart
    <3>4. QED
      BY <1>1, <1>2, <2>2, <2>3, <3>1, <3>2, <3>3, ZenonT(30) DEF Apart
  <2>5. PICK known : known = player_visibility_update(p)
    OBVIOUS
  <2>6. /\ \A i \in DOMAIN known : \E e \in view[p].seen : i = id[e]
        /\ \A e \in (view[p].seen \cap Existing) \ invisible : <<p, e>> \in StillStale \/ id[e] \in DOMAIN known
        /\ \A e \in Here \cap view[p].seen :
                 /\ id[e] \in DOMAIN known /\ state[e] = "idle" /\ <<p, e>> \notin stale /\ <<p, e>> \notin missed
                 /\ e \notin begun /\ e \notin moved
                 => known[id[e]] = place[e]
    <3>1. phase = "PostUpdate"
      BY <1>1
    <3>2. QED
      BY <3>1, <1>9, <2>5, ToldIs
  <2>7. /\ DOMAIN client'[p] = DOMAIN known
        /\ \A e \in Here : id[e] \in DOMAIN known /\ state[e] = "idle" =>
                 /\ e \notin begun /\ e \notin moved => client'[p][id[e]] = known[id[e]]
                 /\ e \in begun \cup moved /\ p \in view[e].seen => client'[p][id[e]] = place[e]
    BY <1>9, <2>5, SynchronizedIs
  <2>8. Known(p)'
    <3>1. \A i \in DOMAIN client'[p] : \E e \in view[p].seen : i = id[e]
      BY <2>6, <2>7
    <3>2. \A e \in (view[p].seen \cap Existing) \ invisible : <<p, e>> \in stale' \/ id[e] \in DOMAIN client'[p]
      BY <1>1, <2>6, <2>7
    <3>3. QED
      BY <1>1, <1>2, <2>3, <3>1, <3>2 DEF Known
  <2>9. ASSUME NEW e \in Here \cap view[p].seen, id[e] \in DOMAIN known, state[e] = "idle",
               <<p, e>> \notin stale', <<p, e>> \notin missed'
        PROVE  client'[p][id[e]] = place[e]
    <3>1. <<p, e>> \notin stale /\ <<p, e>> \notin missed
      BY <1>9, <2>9, StillIs DEF Here
    <3>2. p \in view[e].seen
      BY <1>2, <1>3, <1>9, <2>9, <3>1 DEF Mutual
    <3>3. QED
      BY <2>6, <2>7, <2>9, <3>1, <3>2
  <2>10. \A e \in Here' \cap Old(p)' : Stands(p, e)'
    BY <1>1, <1>2, <2>3, <2>7, <2>9 DEF Stands
  <2>11. QED
    BY <2>4, <2>8, <2>10
<1>10. QED
  BY <1>2, <1>7, <1>8, <1>9 DEF Inv

-----------------------------------------------------------------------------
(* The theorems.                                                           *)

\* Every step keeps the invariant.
LEMMA InvStep == Inv /\ [Next]_vars => Inv'
<1> SUFFICES ASSUME Inv, [Next]_vars PROVE Inv'
  OBVIOUS
<1>1. CASE UNCHANGED vars
  <2>1. UNCHANGED <<phase, looked, id, freed, invisible, view, client, stale, missed, strangers, place, state, begun, moved, commands>>
    BY <1>1 DEF vars, entities, tick
  <2>2. \A q, e \in Here : e \in Old(q) => Stands(q, e)'
    BY <2>1 DEF Inv, Stands
  <2>3. QED
    BY <2>1, <2>2, Stays
<1>2. CASE Begin
  BY <1>2, BeginKeeps
<1>3. CASE visibility_update
  BY <1>3, visibility_updateKeeps
<1>4. CASE EndUpdate
  BY <1>4, EndUpdateKeeps
<1>5. CASE PostUpdate
  BY <1>5, PostUpdateKeeps
<1>6. ASSUME NEW p \in Players, transition(p) \/ movement(p) \/ handle_teleport(p) \/ stir(p) PROVE Inv'
  BY <1>6, transitionKeeps, MovesKeep, stirKeeps
<1>7. CASE \/ \E e \in Entities : spawn(e)
           \/ \E e \in Things : despawn(e)
           \/ \E p \in Players : hide(p)
  BY <1>7, CommandsKeep
<1>8. QED
  BY <1>1, <1>2, <1>3, <1>4, <1>5, <1>6, <1>7 DEF Next

\* Hence it always holds.
LEMMA AlwaysInv == Spec => []Inv
<1>1. QED
  BY InvInit, InvStep, PTL DEF Spec

\* When a tick ends a client knows the ids of all that its player sees and that can be
\* seen, and no others: however often ids were given to other entities, players came and
\* went, and the look at a tick was at a world that its command buffers then changed.
\* (visibility_update, player_visibility_update)
THEOREM ClientsKnowWhatTheySee == Spec => []KnowsWhatItSees
<1>1. Inv => KnowsWhatItSees
  <2> SUFFICES ASSUME Inv, phase = "Begin", NEW p \in Here
               PROVE  /\ \A e \in (view[p].seen \cap Existing) \ invisible :
                            <<p, e>> \in stale \/ id[e] \in DOMAIN client[p]
                      /\ DOMAIN client[p] \subseteq {id[e] : e \in view[p].seen}
    BY DEF KnowsWhatItSees, EndOfTick
  <2>1. Old(p) = view[p].seen
    BY DEF Inv, Unlooked, Seen, Old
  <2>2. Known(p)
    BY DEF Inv
  <2>3. QED
    BY <2>1, <2>2 DEF Known
<1>2. QED
  BY AlwaysInv, <1>1, PTL

\* An entity that is gone is known to a client for no longer than the tick in which it
\* went, unless visibility_update left the player out.
THEOREM GhostsAreForgotten == Spec => []NoGhosts
<1>1. Inv => NoGhosts
  <2> SUFFICES ASSUME Inv, phase = "Begin", NEW p \in Here, NEW i \in DOMAIN client[p]
               PROVE  i \in {id[e] : e \in Existing \cup {f \in Entities : <<p, f>> \in stale}} \cup freed
    BY DEF NoGhosts, EndOfTick
  <2>1. Old(p) = view[p].seen
    BY DEF Inv, Unlooked, Seen, Old
  <2>2. Known(p) /\ Apart(p)
    BY DEF Inv
  <2>3. PICK e \in view[p].seen : i = id[e]
    BY <2>1, <2>2 DEF Known
  <2>4. e \in Entities
    BY DEF Inv, Typed, Views
  <2>5. e \in Existing \/ <<p, e>> \in stale \/ id[e] \in freed
    BY <2>2 DEF Apart
  <2>6. QED
    BY <2>3, <2>4, <2>5
<1>2. QED
  BY AlwaysInv, <1>1, PTL

\* A player that stands is where every client that knows it was told.
\* (collect_movement_update, synchronize_updates)
THEOREM PlayersStandWhereTold == Spec => []StandsWhereTold
<1>1. Inv => StandsWhereTold
  <2> SUFFICES ASSUME Inv, phase = "Begin", NEW p \in Here, NEW e \in Here \cap view[p].seen,
                      id[e] \in DOMAIN client[p], state[e] = "idle", <<p, e>> \notin stale \cup missed
               PROVE  client[p][id[e]] = place[e]
    BY DEF StandsWhereTold, EndOfTick
  <2>1. Old(p) = view[p].seen
    BY DEF Inv, Unlooked, Seen, Old
  <2>2. Stands(p, e)
    BY <2>1 DEF Inv
  <2>3. QED
    BY <2>2 DEF Stands
<1>2. QED
  BY AlwaysInv, <1>1, PTL

\* No update is about an id that the client was not told.
LEMMA UpdatesAreKnown == ASSUME Inv, PostUpdate PROVE NoStrangers'
<1>1. /\ phase = "PostUpdate" /\ stale' = StillStale
      /\ missed' = {pair \in Here \X Players : pair \in missed /\ pair[2] \in view[pair[1]].seen}
      /\ invisible' = invisible
  BY DEF PostUpdate, entities
<1>2. PICK all : all = [q \in Here |-> player_visibility_update(q)]
  OBVIOUS
<1>3. strangers' = {pair \in Here \X Here :
         pair[2] \in {e \in Here : e \in Mentioned /\ pair[1] \in view[e].seen}
                  \ {e \in {e \in Here : e \in Mentioned /\ pair[1] \in view[e].seen} : id[e] \in DOMAIN all[pair[1]]}}
  <2>1. synchronize_updates(all)
    BY <1>2 DEF PostUpdate
  <2>2. QED
    BY <2>1, Zenon DEF synchronize_updates
<1>4. ASSUME NEW pair \in strangers', pair[2] \notin invisible,
             {pair, <<pair[2], pair[1]>>} \cap (stale' \cup missed') = {}
      PROVE  FALSE
  <2>1. PICK p, e : p \in Here /\ e \in Here /\ pair = <<p, e>> /\ p \in view[e].seen /\ id[e] \notin DOMAIN all[p]
    BY <1>3, <1>4
  <2>2. <<p, e>> \notin stale' /\ <<e, p>> \notin stale' /\ <<e, p>> \notin missed' /\ e \notin invisible
    BY <1>4, <2>1
  <2>3. <<e, p>> \notin stale /\ <<e, p>> \notin missed
    BY <2>1, <2>2, StillIs DEF Here
  <2>4. e \in view[p].seen /\ e \in Existing
    BY <1>1, <2>1, <2>3 DEF Inv, Mutual, Seen, Here
  <2>5. PICK known : known = player_visibility_update(p)
    OBVIOUS
  <2>6. \A d \in (view[p].seen \cap Existing) \ invisible : <<p, d>> \in StillStale \/ id[d] \in DOMAIN known
    <3>1. phase = "PostUpdate"
      BY <1>1
    <3>2. QED
      BY <3>1, <2>1, <2>5, ToldIs
  <2>7. all[p] = known
    BY <1>2, <2>1, <2>5
  <2>8. QED
    BY <1>1, <2>1, <2>2, <2>4, <2>6, <2>7
<1>5. QED
  BY <1>1, <1>4 DEF NoStrangers

\* A client gets updates only about players that it was told of, although they are sent
\* to those whom the sender sees: seeing is mutual but for who is hidden or was left out.
\* (synchronize_updates, visibility_update)
THEOREM UpdatesReachAcquaintances == Spec => []NoStrangers
<1>1. Init => NoStrangers
  BY DEF Init, NoStrangers
<1>2. Inv /\ NoStrangers /\ [Next]_vars => NoStrangers'
  <2> SUFFICES ASSUME Inv, NoStrangers, [Next]_vars PROVE NoStrangers'
    OBVIOUS
  <2>1. CASE PostUpdate
    BY <2>1, UpdatesAreKnown
  <2>2. CASE UNCHANGED vars
    BY <2>2 DEF vars, entities, NoStrangers
  <2>3. CASE strangers' = {}
    BY <2>3 DEF NoStrangers
  <2>4. phase # "Begin" => strangers = {}
    BY DEF Inv, Typed
  <2>5. CASE Begin
    BY <2>3, <2>5 DEF Begin
  <2>6. CASE visibility_update \/ EndUpdate
    BY <2>3, <2>4, <2>6 DEF visibility_update, EndUpdate
  <2>7. ASSUME NEW p \in Players, transition(p) \/ movement(p) \/ handle_teleport(p) \/ stir(p) PROVE NoStrangers'
    BY <2>3, <2>4, <2>7 DEF transition, movement, handle_teleport, stir
  <2>8. ASSUME NEW new, Command(new) PROVE NoStrangers'
    BY <2>3, <2>4, <2>8 DEF Command
  <2>9. CASE \/ \E e \in Entities : spawn(e)
             \/ \E e \in Things : despawn(e)
             \/ \E p \in Players : hide(p)
    BY <2>8, <2>9, Zenon DEF spawn, despawn, hide
  <2>10. QED
    BY <2>1, <2>2, <2>5, <2>6, <2>7, <2>9 DEF Next
<1>3. QED
  BY AlwaysInv, <1>1, <1>2, PTL DEF Spec
====
