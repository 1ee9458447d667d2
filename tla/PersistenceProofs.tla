-------------------------- MODULE PersistenceProofs --------------------------
(***************************************************************************)
(* Proofs about Inventory and Persistence for any slots, items and stack   *)
(* sizes, any lists of changes and any number of saves and sessions.       *)
(***************************************************************************)
EXTENDS Persistence, FiniteSetTheorems, SequenceTheorems, NaturalsInduction, WellFoundedInduction, TLAPS

(* Numbers, and the recursive definitions.                                 *)

\* What is not below a number in the relation of the library is not below it.
LEMMA NotBelow ==
    ASSUME NEW x, NEW y, x \in Nat, y \in Nat, ~(<<y, x>> \in OpToRel(<, Nat))
    PROVE  ~(y < x)
  BY Zenon DEF OpToRel

\* A set of natural numbers that is not empty has a least element.
LEMMA Least ==
    ASSUME NEW T, T \subseteq Nat, T # {}
    PROVE  \E x \in T : \A y \in T : x <= y
<1>1. PICK x \in T : \A y \in T : ~(<<y, x>> \in OpToRel(<, Nat))
  BY NatLessThanWellFounded, WFMin
<1>2. \A y \in T : ~(y < x)
  BY <1>1, NotBelow, Zenon
<1>3. QED
  BY <1>2

\* The stores that a run of changes goes through.
Runs(f, store, task) == f = [n \in 0..Len(task) |-> IF n = 0 THEN store ELSE RunChange(f[n - 1], task[n])]

\* Every list of changes has a run, which ends in what Run gives.
LEMMA RunIs ==
    ASSUME NEW store, NEW task, Len(task) \in Nat
    PROVE  \E f : Runs(f, store, task) /\ Run(store, task) = f[Len(task)]
<1> DEFINE Up(g, n) == g = [i \in 0..n |-> IF i = 0 THEN store ELSE RunChange(g[i - 1], task[i])]
           Bad == {n \in Nat : ~\E g : Up(g, n)}
<1>1. ASSUME Bad # {} PROVE FALSE
  <2>1. PICK n \in Bad : \A m \in Bad : n <= m
    BY <1>1, Least
  <2>2. CASE n = 0
    <3>1. PICK g : g = [i \in 0..0 |-> store]
      OBVIOUS
    <3>2. Up(g, 0)
      BY <3>1
    <3>3. QED
      BY <2>1, <2>2, <3>2
  <2>3. CASE n # 0
    <3>1. n - 1 \in Nat /\ n \in Nat /\ ~(n <= n - 1)
      BY <2>1, <2>3
    <3>2. n - 1 \notin Bad
      BY <2>1, <3>1, Zenon
    <3>3. PICK h : Up(h, n - 1)
      BY <3>1, <3>2
    <3>4. PICK g : g = [i \in 0..n |-> IF i = 0 THEN store ELSE RunChange(h[i - 1], task[i])]
      OBVIOUS
    <3>5. \A i \in 0..(n - 1) : g[i] = h[i]
      BY <3>1, <3>3, <3>4
    <3>6. Up(g, n)
      <4>1. \A i \in 0..n : i # 0 => i - 1 \in 0..(n - 1)
        BY <3>1
      <4>2. \A i \in 0..n : i # 0 => g[i - 1] = h[i - 1]
        BY <3>5, <4>1
      <4>3. \A i \in 0..n : g[i] = IF i = 0 THEN store ELSE RunChange(g[i - 1], task[i])
        BY <3>4, <4>2
      <4>4. g = [i \in 0..n |-> g[i]]
        BY <3>4
      <4>5. QED
        BY <4>3, <4>4
    <3>7. QED
      BY <2>1, <3>6
  <2>4. QED
    BY <2>2, <2>3
<1>2. PICK g : Up(g, Len(task))
  BY <1>1
<1>3. PICK f : f = CHOOSE w : w = [n \in 0..Len(task) |-> IF n = 0 THEN store ELSE RunChange(w[n - 1], task[n])]
  OBVIOUS
<1>4. Runs(f, store, task)
  BY <1>2, <1>3 DEF Runs
<1>5. Run(store, task) = f[Len(task)]
  BY <1>3 DEF Run
<1>6. QED
  BY <1>4, <1>5

\* Every store but the first is that before it after a change.
LEMMA RunsStep ==
    ASSUME NEW f, NEW s, NEW a, Len(a) \in Nat, Runs(f, s, a)
    PROVE  f[0] = s /\ \A i \in 1..Len(a) : f[i] = RunChange(f[i - 1], a[i])
<1>1. 0 \in 0..Len(a)
  OBVIOUS
<1>2. f[0] = s
  BY <1>1 DEF Runs
<1>3. ASSUME NEW i \in 1..Len(a) PROVE f[i] = RunChange(f[i - 1], a[i])
  <2>1. i \in 0..Len(a) /\ i # 0
    OBVIOUS
  <2>2. QED
    BY <2>1 DEF Runs
<1>4. QED
  BY <1>2, <1>3

\* Running one more change.
LEMMA RunAppends ==
    ASSUME NEW S, NEW task \in Seq(S), NEW ss \in S, NEW store
    PROVE  Run(store, Append(task, ss)) = RunChange(Run(store, task), ss)
<1>0. Append(task, ss) \in Seq(S)
  BY AppendProperties
<1>1. PICK long \in Seq(S) : long = Append(task, ss)
  BY <1>0
<1>2. Len(task) \in Nat /\ Len(long) = Len(task) + 1 /\ (\A i \in 1..Len(task) : long[i] = task[i]) /\ long[Len(task) + 1] = ss
  BY <1>1
<1>3. PICK f : Runs(f, store, task) /\ Run(store, task) = f[Len(task)]
  BY <1>2, RunIs
<1>4. PICK g : Runs(g, store, long) /\ Run(store, long) = g[Len(long)]
  BY <1>2, RunIs
<1>5. f[0] = store /\ g[0] = store
  BY <1>2, <1>3, <1>4 DEF Runs
<1>5a. /\ \A i \in 1..Len(task) : f[i] = RunChange(f[i - 1], task[i])
       /\ \A i \in 1..Len(long) : g[i] = RunChange(g[i - 1], long[i])
  BY <1>2, <1>3, <1>4, RunsStep
<1>6. g[Len(task)] = f[Len(task)]
  <2> DEFINE Bad == {n \in 0..Len(task) : g[n] # f[n]}
  <2>1. ASSUME Bad # {} PROVE FALSE
    <3>1. Bad \subseteq Nat
      OBVIOUS
    <3>2. PICK n \in Bad : \A m \in Bad : n <= m
      BY <2>1, <3>1, Least
    <3>3. n \in 1..Len(task) /\ n \in 1..Len(long) /\ n - 1 \in 0..Len(task) /\ ~(n <= n - 1)
      BY <1>2, <1>5, <3>2
    <3>4. g[n - 1] = f[n - 1]
      BY <3>2, <3>3
    <3>5. QED
      BY <1>2, <1>5a, <3>2, <3>3, <3>4
  <2>2. QED
    BY <1>2, <2>1
<1>7. g[Len(task) + 1] = RunChange(g[Len(task)], long[Len(task) + 1])
  BY <1>2, <1>4 DEF Runs
<1>8. QED
  BY <1>1, <1>2, <1>3, <1>4, <1>6, <1>7

\* Running nothing.
LEMMA RunEmpty == \A store : Run(store, <<>>) = store
<1> SUFFICES ASSUME NEW store PROVE Run(store, <<>>) = store
  OBVIOUS
<1>1. PICK none : none = <<>> /\ Len(none) = 0
  OBVIOUS
<1>2. PICK f : Runs(f, store, none) /\ Run(store, none) = f[Len(none)]
  BY <1>1, RunIs
<1>3. f[0] = store
  BY <1>1, <1>2 DEF Runs
<1>4. QED
  BY <1>1, <1>2, <1>3

\* Running the first change first.
LEMMA RunFirst ==
    ASSUME NEW S, NEW task \in Seq(S), task # <<>>, NEW store
    PROVE  Run(store, task) = Run(RunChange(store, task[1]), Tail(task))
<1>0. Tail(task) \in Seq(S)
  BY HeadTailProperties
<1>1. PICK rest \in Seq(S) : rest = Tail(task)
  BY <1>0
<1>2. Len(task) \in Nat /\ Len(rest) \in Nat /\ Len(task) = Len(rest) + 1 /\ \A i \in 1..Len(rest) : rest[i] = task[i + 1]
  BY <1>1
<1>3. PICK f : Runs(f, store, task) /\ Run(store, task) = f[Len(task)]
  BY <1>2, RunIs
<1>4. PICK g : Runs(g, RunChange(store, task[1]), rest) /\ Run(RunChange(store, task[1]), rest) = g[Len(rest)]
  BY <1>2, RunIs
<1>5. f[0] = store /\ f[1] = RunChange(f[0], task[1]) /\ g[0] = RunChange(store, task[1])
  BY <1>2, <1>3, <1>4 DEF Runs
<1>5a. /\ \A i \in 1..Len(task) : f[i] = RunChange(f[i - 1], task[i])
       /\ \A i \in 1..Len(rest) : g[i] = RunChange(g[i - 1], rest[i])
  BY <1>2, <1>3, <1>4, RunsStep
<1>6. f[Len(rest) + 1] = g[Len(rest)]
  <2> DEFINE Bad == {n \in 0..Len(rest) : f[n + 1] # g[n]}
  <2>1. ASSUME Bad # {} PROVE FALSE
    <3>1. Bad \subseteq Nat
      OBVIOUS
    <3>2. PICK n \in Bad : \A m \in Bad : n <= m
      BY <2>1, <3>1, Least
    <3>3. n # 0
      BY <1>5, <3>2
    <3>4. n \in 1..Len(rest) /\ n + 1 \in 1..Len(task) /\ n - 1 \in 0..Len(rest) /\ ~(n <= n - 1) /\ (n - 1) + 1 = n /\ (n + 1) - 1 = n
      BY <1>2, <3>2, <3>3
    <3>5. f[n] = g[n - 1]
      BY <3>2, <3>4
    <3>6. f[n + 1] = RunChange(f[n], task[n + 1]) /\ g[n] = RunChange(g[n - 1], rest[n]) /\ rest[n] = task[n + 1]
      BY <1>2, <1>5a, <3>4
    <3>7. QED
      BY <3>2, <3>5, <3>6
  <2>2. QED
    BY <1>2, <2>1
<1>7. QED
  BY <1>1, <1>2, <1>3, <1>4, <1>6

-----------------------------------------------------------------------------
(* What statements do to a store.                                          *)

IsStore(f) == f = [r \in Rows |-> f[r]]
AnyStatement == {s \in [q : {"add", "remove", "change", "move"}, from : Rows, to : Rows, ref : Refs \cup {Empty}, amount : Nat] :
                    s.q = "add" => s.ref \in Refs}

\* The statements of a change, or of the rest of one.
Piece == {ss \in Seq(AnyStatement) : Len(ss) \in 1..3}

\* Equal row by row.
LEMMA StoresEqual ==
    ASSUME NEW f, NEW g, IsStore(f), IsStore(g), \A r \in Rows : f[r] = g[r]
    PROVE  f = g
  BY DEF IsStore

\* A store with one row replaced.
LEMMA StoreExcept ==
    ASSUME NEW f, IsStore(f), NEW k \in Rows, NEW v
    PROVE  /\ IsStore([f EXCEPT ![k] = v]) /\ [f EXCEPT ![k] = v][k] = v
           /\ \A r \in Rows \ {k} : [f EXCEPT ![k] = v][r] = f[r]
  BY DEF IsStore

\* The effect of a statement, row by row.
LEMMA ExecuteIs ==
    ASSUME NEW a, IsStore(a), NEW s \in AnyStatement
    PROVE  /\ IsStore(Execute(a, s))
           /\ s.q = "add" => \A r \in Rows : Execute(a, s)[r] = IF r = s.to THEN [ref |-> s.ref, amount |-> s.amount] ELSE a[r]
           /\ s.q = "remove" => \A r \in Rows : Execute(a, s)[r] = IF r = s.to THEN NoItem ELSE a[r]
           /\ s.q = "change" => \A r \in Rows :
                 Execute(a, s)[r] = IF r = s.to /\ a[r] # NoItem THEN [a[r] EXCEPT !.amount = s.amount] ELSE a[r]
           /\ s.q = "move" => \A r \in Rows :
                 Execute(a, s)[r] = IF a[s.from] = NoItem \/ s.from = s.to THEN a[r]
                                    ELSE IF r = s.from THEN NoItem ELSE IF r = s.to THEN a[s.from] ELSE a[r]
<1>1. s.q \in {"add", "remove", "change", "move"} /\ s.from \in Rows /\ s.to \in Rows
  BY DEF AnyStatement
<1>2. CASE s.q = "add"
  <2>1. Execute(a, s) = [a EXCEPT ![s.to] = [ref |-> s.ref, amount |-> s.amount]]
    BY <1>2 DEF Execute
  <2>2. QED
    BY <1>1, <1>2, <2>1 DEF IsStore
<1>3. CASE s.q = "remove"
  <2>1. Execute(a, s) = [a EXCEPT ![s.to] = NoItem]
    BY <1>3 DEF Execute
  <2>2. QED
    BY <1>1, <1>3, <2>1 DEF IsStore
<1>4. CASE s.q = "change"
  <2>1. CASE a[s.to] # NoItem
    <3>1. PICK v : v = [a[s.to] EXCEPT !.amount = s.amount]
      OBVIOUS
    <3>2. Execute(a, s) = [a EXCEPT ![s.to] = v]
      BY <1>4, <2>1, <3>1 DEF Execute
    <3>3. IsStore(Execute(a, s)) /\ \A r \in Rows : Execute(a, s)[r] = IF r = s.to THEN v ELSE a[r]
      BY <1>1, <3>2 DEF IsStore
    <3>4. QED
      BY <1>4, <2>1, <3>1, <3>3
  <2>2. CASE a[s.to] = NoItem
    <3>1. Execute(a, s) = a
      BY <1>4, <2>2 DEF Execute
    <3>2. QED
      BY <1>4, <2>2, <3>1
  <2>3. QED
    BY <2>1, <2>2
<1>5. CASE s.q = "move"
  <2>1. CASE a[s.from] # NoItem /\ s.from # s.to
    <3>1. Execute(a, s) = [a EXCEPT ![s.to] = a[s.from], ![s.from] = NoItem]
      BY <1>5, <2>1 DEF Execute
    <3>2. QED
      BY <1>1, <1>5, <2>1, <3>1 DEF IsStore
  <2>2. CASE ~(a[s.from] # NoItem /\ s.from # s.to)
    <3>1. Execute(a, s) = a
      BY <1>5, <2>2 DEF Execute
    <3>2. QED
      BY <1>5, <2>2, <3>1
  <2>3. QED
    BY <2>1, <2>2
<1>6. QED
  BY <1>1, <1>2, <1>3, <1>4, <1>5

\* A statement looks at its rows only, and changes no other.
LEMMA ExecuteLocal ==
    ASSUME NEW a, IsStore(a), NEW b, IsStore(b), NEW s \in AnyStatement, NEW R \in SUBSET Rows,
           s.from \in R, s.to \in R, \A r \in R : a[r] = b[r]
    PROVE  /\ Fails(a, s) <=> Fails(b, s)
           /\ IsStore(Execute(a, s)) /\ IsStore(Execute(b, s))
           /\ \A r \in R : Execute(a, s)[r] = Execute(b, s)[r]
           /\ \A r \in Rows \ {s.from, s.to} : Execute(a, s)[r] = a[r]
<1>1. s.q \in {"add", "remove", "change", "move"} /\ s.from \in Rows /\ s.to \in Rows
  BY DEF AnyStatement
<1>2. Fails(a, s) <=> Fails(b, s)
  BY DEF Fails
<1>3. PICK x, y : x = Execute(a, s) /\ y = Execute(b, s)
  OBVIOUS
<1>4. IsStore(x) /\ IsStore(y)
  BY <1>3, ExecuteIs
<1>5. CASE s.q = "add"
  <2>1. \A r \in Rows : /\ x[r] = IF r = s.to THEN [ref |-> s.ref, amount |-> s.amount] ELSE a[r]
                        /\ y[r] = IF r = s.to THEN [ref |-> s.ref, amount |-> s.amount] ELSE b[r]
    BY <1>3, <1>5, ExecuteIs
  <2>2. QED
    BY <1>2, <1>3, <1>4, <2>1
<1>6. CASE s.q = "remove"
  <2>1. \A r \in Rows : x[r] = (IF r = s.to THEN NoItem ELSE a[r]) /\ y[r] = IF r = s.to THEN NoItem ELSE b[r]
    BY <1>3, <1>6, ExecuteIs, ZenonT(30)
  <2>2. QED
    BY <1>2, <1>3, <1>4, <2>1
<1>7. CASE s.q = "change"
  <2>1. \A r \in Rows : /\ x[r] = IF r = s.to /\ a[r] # NoItem THEN [a[r] EXCEPT !.amount = s.amount] ELSE a[r]
                        /\ y[r] = IF r = s.to /\ b[r] # NoItem THEN [b[r] EXCEPT !.amount = s.amount] ELSE b[r]
    BY <1>3, <1>7, ExecuteIs, ZenonT(30)
  <2>2. QED
    BY <1>2, <1>3, <1>4, <2>1
<1>8. CASE s.q = "move"
  <2>1. \A r \in Rows : /\ x[r] = IF a[s.from] = NoItem \/ s.from = s.to THEN a[r]
                                  ELSE IF r = s.from THEN NoItem ELSE IF r = s.to THEN a[s.from] ELSE a[r]
                        /\ y[r] = IF b[s.from] = NoItem \/ s.from = s.to THEN b[r]
                                  ELSE IF r = s.from THEN NoItem ELSE IF r = s.to THEN b[s.from] ELSE b[r]
    BY <1>3, <1>8, ExecuteIs, ZenonT(30)
  <2>2. QED
    BY <1>2, <1>3, <1>4, <2>1
<1>9. QED
  BY <1>1, <1>5, <1>6, <1>7, <1>8

RowsOfPiece(ss) == UNION {{s.from, s.to} : s \in Range(ss)}

\* The statements of a piece.
LEMMA PieceIs ==
    ASSUME NEW ss \in Piece
    PROVE  /\ Len(ss) \in 1..3 /\ ss \in Seq(AnyStatement)
           /\ \A i \in 1..Len(ss) : /\ ss[i] \in AnyStatement /\ ss[i].from \in RowsOfPiece(ss) /\ ss[i].to \in RowsOfPiece(ss)
                                    /\ ss[i].from \in Rows /\ ss[i].to \in Rows
           /\ RowsOfPiece(ss) \subseteq Rows
<1>1. Len(ss) \in 1..3 /\ ss \in Seq(AnyStatement) /\ DOMAIN ss = 1..Len(ss)
  BY DEF Piece
<1>2. \A i \in 1..Len(ss) : ss[i] \in AnyStatement /\ ss[i] \in Range(ss)
  BY <1>1 DEF Range
<1>3. \A s \in Range(ss) : s \in AnyStatement
  BY <1>1, <1>2 DEF Range
<1>4. \A s \in AnyStatement : s.from \in Rows /\ s.to \in Rows
  BY DEF AnyStatement
<1>5. QED
  BY <1>1, <1>2, <1>3, <1>4 DEF RowsOfPiece

\* So does a change.
LEMMA RunChangeLocal ==
    ASSUME NEW a, IsStore(a), NEW b, IsStore(b), NEW ss \in Piece, NEW R \in SUBSET Rows,
           RowsOfPiece(ss) \subseteq R, \A r \in R : a[r] = b[r]
    PROVE  /\ IsStore(RunChange(a, ss)) /\ IsStore(RunChange(b, ss))
           /\ \A r \in R : RunChange(a, ss)[r] = RunChange(b, ss)[r]
           /\ \A r \in Rows \ RowsOfPiece(ss) : RunChange(a, ss)[r] = a[r]
<1>1. PICK n \in 1..3 : n = Len(ss)
  BY DEF Piece
<1>2. \A i \in 1..n : /\ ss[i] \in AnyStatement /\ ss[i].from \in RowsOfPiece(ss) /\ ss[i].to \in RowsOfPiece(ss)
                      /\ ss[i].from \in R /\ ss[i].to \in R
  BY <1>1, PieceIs
<1>3. PICK a1, b1, a2, b2, a3, b3 :
        /\ a1 = Execute(a, ss[1]) /\ a2 = Execute(a1, ss[2]) /\ a3 = Execute(a2, ss[3])
        /\ b1 = Execute(b, ss[1]) /\ b2 = Execute(b1, ss[2]) /\ b3 = Execute(b2, ss[3])
  OBVIOUS
<1>4. /\ RunChange(a, ss) = IF Fails(a, ss[1]) THEN a ELSE IF n = 1 \/ Fails(a1, ss[2]) THEN a1
                            ELSE IF n = 2 \/ Fails(a2, ss[3]) THEN a2 ELSE a3
      /\ RunChange(b, ss) = IF Fails(b, ss[1]) THEN b ELSE IF n = 1 \/ Fails(b1, ss[2]) THEN b1
                            ELSE IF n = 2 \/ Fails(b2, ss[3]) THEN b2 ELSE b3
  BY <1>1, <1>3 DEF RunChange
<1>5. /\ Fails(a, ss[1]) <=> Fails(b, ss[1])
      /\ IsStore(a1) /\ IsStore(b1) /\ \A r \in R : a1[r] = b1[r]
      /\ \A r \in Rows \ {ss[1].from, ss[1].to} : a1[r] = a[r]
  <2>1. ss[1] \in AnyStatement /\ ss[1].from \in R /\ ss[1].to \in R
    BY <1>2
  <2>2. QED
    BY <1>3, <2>1, ExecuteLocal
<1>6. ASSUME n >= 2
      PROVE /\ Fails(a1, ss[2]) <=> Fails(b1, ss[2])
            /\ IsStore(a2) /\ IsStore(b2) /\ \A r \in R : a2[r] = b2[r]
            /\ \A r \in Rows \ {ss[2].from, ss[2].to} : a2[r] = a1[r]
  <2>1. ss[2] \in AnyStatement /\ ss[2].from \in R /\ ss[2].to \in R
    BY <1>2, <1>6
  <2>2. IsStore(a1) /\ IsStore(b1) /\ \A r \in R : a1[r] = b1[r]
    BY <1>5
  <2>3. a2 = Execute(a1, ss[2]) /\ b2 = Execute(b1, ss[2])
    BY <1>3
  <2>4. QED
    BY <2>1, <2>2, <2>3, ExecuteLocal
<1>7. ASSUME n >= 3
      PROVE /\ Fails(a2, ss[3]) <=> Fails(b2, ss[3])
            /\ IsStore(a3) /\ IsStore(b3) /\ \A r \in R : a3[r] = b3[r]
            /\ \A r \in Rows \ {ss[3].from, ss[3].to} : a3[r] = a2[r]
  <2>1. ss[3] \in AnyStatement /\ ss[3].from \in R /\ ss[3].to \in R /\ n >= 2
    BY <1>2, <1>7
  <2>2. IsStore(a2) /\ IsStore(b2) /\ \A r \in R : a2[r] = b2[r]
    BY <1>6, <2>1
  <2>3. a3 = Execute(a2, ss[3]) /\ b3 = Execute(b2, ss[3])
    BY <1>3
  <2>4. QED
    BY <2>1, <2>2, <2>3, ExecuteLocal, SMTT(20)
<1>8. \A i \in 1..n : Rows \ RowsOfPiece(ss) \subseteq Rows \ {ss[i].from, ss[i].to}
  BY <1>2
<1>9. n = 1 \/ n = 2 \/ n = 3
  BY <1>1
<1>10. CASE n = 1
  BY <1>4, <1>5, <1>8, <1>10
<1>11. CASE n = 2
  BY <1>4, <1>5, <1>6, <1>8, <1>11
<1>12. CASE n = 3
  BY <1>4, <1>5, <1>6, <1>7, <1>8, <1>12
<1>13. QED
  BY <1>9, <1>10, <1>11, <1>12

-----------------------------------------------------------------------------
(* Tasks.                                                                  *)

\* The rows a task works on.
LEMMA RowsOfIs ==
    ASSUME NEW task \in Seq(Piece)
    PROVE  /\ \A r : r \in RowsOf(task) <=> \E i \in 1..Len(task) : r \in RowsOfPiece(task[i])
           /\ \A i \in 1..Len(task) : task[i] \in Piece /\ RowsOfPiece(task[i]) \subseteq RowsOf(task)
           /\ RowsOf(task) \subseteq Rows /\ Len(task) \in Nat
<1>1. DOMAIN task = 1..Len(task) /\ Len(task) \in Nat /\ \A i \in 1..Len(task) : task[i] \in Piece
  OBVIOUS
<1>2. \A r : r \in RowsOf(task) <=> \E i \in 1..Len(task) : r \in RowsOfPiece(task[i])
  <2>1. \A r : r \in RowsOf(task) <=> \E i \in 1..Len(task) : \E s \in Range(task[i]) : r \in {s.from, s.to}
    BY <1>1 DEF RowsOf
  <2>2. \A ss, r : r \in RowsOfPiece(ss) <=> \E s \in Range(ss) : r \in {s.from, s.to}
    BY DEF RowsOfPiece
  <2>3. QED
    BY <2>1, <2>2
<1>3. \A ss \in Piece : RowsOfPiece(ss) \subseteq Rows
  BY PieceIs
<1>4. QED
  BY <1>1, <1>2, <1>3

\* A task looks at its rows only, and changes no other.
LEMMA RunLocal ==
    ASSUME NEW a, IsStore(a), NEW b, IsStore(b), NEW task \in Seq(Piece), NEW R \in SUBSET Rows,
           RowsOf(task) \subseteq R, \A r \in R : a[r] = b[r]
    PROVE  /\ IsStore(Run(a, task)) /\ IsStore(Run(b, task))
           /\ \A r \in R : Run(a, task)[r] = Run(b, task)[r]
           /\ \A r \in Rows \ RowsOf(task) : Run(a, task)[r] = a[r]
<1>0. Len(task) \in Nat /\ \A i \in 1..Len(task) : task[i] \in Piece /\ RowsOfPiece(task[i]) \subseteq RowsOf(task)
  BY RowsOfIs
<1>1. PICK f : Runs(f, a, task) /\ Run(a, task) = f[Len(task)]
  BY <1>0, RunIs
<1>2. PICK g : Runs(g, b, task) /\ Run(b, task) = g[Len(task)]
  BY <1>0, RunIs
<1>3. /\ f[0] = a /\ \A i \in 1..Len(task) : f[i] = RunChange(f[i - 1], task[i])
      /\ g[0] = b /\ \A i \in 1..Len(task) : g[i] = RunChange(g[i - 1], task[i])
  BY <1>0, <1>1, <1>2, RunsStep
<1> DEFINE Good(n) == /\ IsStore(f[n]) /\ IsStore(g[n]) /\ \A r \in R : f[n][r] = g[n][r]
                      /\ \A r \in Rows \ RowsOf(task) : f[n][r] = a[r]
           Bad == {n \in 0..Len(task) : ~Good(n)}
<1>4. ASSUME Bad # {} PROVE FALSE
  <2>1. Bad \subseteq Nat
    BY <1>0
  <2>2. PICK n \in Bad : \A m \in Bad : n <= m
    BY <1>4, <2>1, Least
  <2>3. Good(0)
    BY <1>3
  <2>4. n # 0
    BY <2>2, <2>3
  <2>5. n \in 1..Len(task) /\ n - 1 \in 0..Len(task) /\ ~(n <= n - 1)
    BY <1>0, <2>2, <2>4
  <2>6. Good(n - 1)
    BY <2>2, <2>5
  <2>7. PICK x, y, ss : x = f[n - 1] /\ y = g[n - 1] /\ ss = task[n]
    OBVIOUS
  <2>8. f[n] = RunChange(x, ss) /\ g[n] = RunChange(y, ss) /\ ss \in Piece /\ RowsOfPiece(ss) \subseteq RowsOf(task)
    BY <1>0, <1>3, <2>5, <2>7
  <2>9. IsStore(x) /\ IsStore(y) /\ (\A r \in R : x[r] = y[r]) /\ \A r \in Rows \ RowsOf(task) : x[r] = a[r]
    BY <2>6, <2>7
  <2>10. RowsOfPiece(ss) \subseteq R
    BY <2>8
  <2>11. /\ IsStore(RunChange(x, ss)) /\ IsStore(RunChange(y, ss))
         /\ \A r \in R : RunChange(x, ss)[r] = RunChange(y, ss)[r]
         /\ \A r \in Rows \ RowsOfPiece(ss) : RunChange(x, ss)[r] = x[r]
    <3>1. /\ IsStore(x) /\ IsStore(y) /\ ss \in Piece /\ R \in SUBSET Rows
          /\ RowsOfPiece(ss) \subseteq R /\ \A r \in R : x[r] = y[r]
      BY <2>8, <2>9, <2>10
    <3>2. QED
      BY <3>1, RunChangeLocal
  <2>12. Good(n)
    BY <2>8, <2>9, <2>11
  <2>13. QED
    BY <2>2, <2>12
<1>5. Good(Len(task))
  BY <1>0, <1>4
<1>6. QED
  BY <1>1, <1>2, <1>5

\* The first statement of a change, and what is left.
LEMMA StatementFirst ==
    ASSUME NEW ss \in Piece, NEW a
    PROVE  /\ Fails(a, ss[1]) => RunChange(a, ss) = a
           /\ ~Fails(a, ss[1]) /\ Len(ss) = 1 => RunChange(a, ss) = Execute(a, ss[1])
           /\ ~Fails(a, ss[1]) /\ Len(ss) # 1 =>
                 /\ Tail(ss) \in Piece /\ RowsOfPiece(Tail(ss)) \subseteq RowsOfPiece(ss)
                 /\ RunChange(a, ss) = RunChange(Execute(a, ss[1]), Tail(ss))
<1>1. Len(ss) \in 1..3 /\ ss \in Seq(AnyStatement) /\ ss # <<>> /\ DOMAIN ss = 1..Len(ss)
  BY DEF Piece
<1>2. /\ Fails(a, ss[1]) => RunChange(a, ss) = a
      /\ ~Fails(a, ss[1]) /\ Len(ss) = 1 => RunChange(a, ss) = Execute(a, ss[1])
  BY DEF RunChange
<1>3. ASSUME ~Fails(a, ss[1]), Len(ss) # 1
      PROVE  /\ Tail(ss) \in Piece /\ RowsOfPiece(Tail(ss)) \subseteq RowsOfPiece(ss)
             /\ RunChange(a, ss) = RunChange(Execute(a, ss[1]), Tail(ss))
  <2>1. /\ Tail(ss) \in Seq(AnyStatement) /\ Len(Tail(ss)) = Len(ss) - 1
        /\ \A i \in 1..Len(Tail(ss)) : Tail(ss)[i] = ss[i + 1]
    BY <1>1, HeadTailProperties
  <2>2. PICK rest : rest = Tail(ss)
    OBVIOUS
  <2>3. Len(rest) \in 1..2 /\ Len(rest) = Len(ss) - 1 /\ rest[1] = ss[2] /\ (Len(rest) = 2 => rest[2] = ss[3])
    BY <1>1, <1>3, <2>1, <2>2
  <2>4. rest \in Piece
    BY <2>1, <2>2, <2>3, SMTT(20) DEF Piece
  <2>5. RowsOfPiece(rest) \subseteq RowsOfPiece(ss)
    <3>1. DOMAIN rest = 1..Len(rest) /\ \A i \in 1..Len(rest) : rest[i] = ss[i + 1] /\ i + 1 \in 1..Len(ss)
      BY <1>1, <2>1, <2>2
    <3>2. \A s \in Range(rest) : s \in Range(ss)
      BY <1>1, <3>1 DEF Range
    <3>3. QED
      BY <3>2 DEF RowsOfPiece
  <2>6. PICK one, two, n : one = Execute(a, ss[1]) /\ two = Execute(one, ss[2]) /\ n = Len(ss)
    OBVIOUS
  <2>7. RunChange(a, ss) = IF n = 1 \/ Fails(one, ss[2]) THEN one
                           ELSE IF n = 2 \/ Fails(two, ss[3]) THEN two ELSE Execute(two, ss[3])
    BY <1>3, <2>6 DEF RunChange
  <2>8. RunChange(one, rest) = IF Fails(one, rest[1]) THEN one
                               ELSE IF Len(rest) = 1 \/ Fails(Execute(one, rest[1]), rest[2]) THEN Execute(one, rest[1])
                               ELSE IF Len(rest) = 2 \/ Fails(Execute(Execute(one, rest[1]), rest[2]), rest[3])
                                    THEN Execute(Execute(one, rest[1]), rest[2])
                               ELSE Execute(Execute(Execute(one, rest[1]), rest[2]), rest[3])
    BY DEF RunChange
  <2>9. CASE n = 2
    <3>1. Len(rest) = 1
      BY <2>3, <2>6, <2>9
    <3>2. QED
      BY <2>2, <2>3, <2>4, <2>5, <2>6, <2>7, <2>8, <2>9, <3>1
  <2>10. CASE n = 3
    <3>1. Len(rest) = 2
      BY <2>3, <2>6, <2>10
    <3>2. QED
      BY <2>2, <2>3, <2>4, <2>5, <2>6, <2>7, <2>8, <2>10, <3>1
  <2>11. QED
    BY <1>1, <1>3, <2>6, <2>9, <2>10
<1>4. QED
  BY <1>2, <1>3

\* What is left of a task when its current statement is done.
Rest(task, failed) == IF failed \/ Len(task[1]) = 1 THEN Tail(task) ELSE <<Tail(task[1])>> \o Tail(task)

\* Executing a statement brings the task nearer to where it ends anyway.
LEMMA Proceeds ==
    ASSUME NEW a, IsStore(a), NEW task \in Seq(Piece), task # <<>>, NEW b,
           b = IF Fails(a, task[1][1]) THEN a ELSE Execute(a, task[1][1]),
           NEW rest, rest = Rest(task, Fails(a, task[1][1]))
    PROVE  /\ IsStore(b) /\ \A r \in Rows \ RowsOf(task) : b[r] = a[r]
           /\ rest \in Seq(Piece) /\ RowsOf(rest) \subseteq RowsOf(task)
           /\ Run(b, rest) = Run(a, task)
<1>1. PICK ss, tail : ss = task[1] /\ tail = Tail(task)
  OBVIOUS
<1>2. /\ Len(task) \in Nat /\ 1 \in 1..Len(task)
      /\ tail \in Seq(Piece) /\ Len(tail) = Len(task) - 1 /\ \A i \in 1..Len(tail) : tail[i] = task[i + 1]
  BY <1>1, HeadTailProperties
<1>3. ss \in Piece /\ RowsOfPiece(ss) \subseteq RowsOf(task) /\ \A r : r \in RowsOf(task) <=> \E i \in 1..Len(task) : r \in RowsOfPiece(task[i])
  BY <1>1, <1>2, RowsOfIs
<1>4. ss[1] \in AnyStatement /\ ss[1].from \in RowsOfPiece(ss) /\ ss[1].to \in RowsOfPiece(ss) /\ ss[1].from \in Rows /\ ss[1].to \in Rows
  <2>0. PICK n \in 1..3 : n = Len(ss)
    BY <1>3 DEF Piece
  <2>1. 1 \in 1..Len(ss)
    BY <2>0
  <2>2. QED
    BY <1>3, <2>1, PieceIs
<1>5. IsStore(b) /\ \A r \in Rows \ RowsOf(task) : b[r] = a[r]
  <2>1. IsStore(Execute(a, ss[1])) /\ \A r \in Rows \ {ss[1].from, ss[1].to} : Execute(a, ss[1])[r] = a[r]
    BY <1>4, ExecuteLocal
  <2>2. b = a \/ b = Execute(a, ss[1])
    BY <1>1
  <2>3. QED
    BY <1>3, <1>4, <2>1, <2>2
<1>6. RowsOf(tail) \subseteq RowsOf(task)
  <2>1. \A r : r \in RowsOf(tail) <=> \E i \in 1..Len(tail) : r \in RowsOfPiece(tail[i])
    BY <1>2, RowsOfIs
  <2>2. \A i \in 1..Len(tail) : i + 1 \in 1..Len(task)
    BY <1>2
  <2>3. QED
    BY <1>2, <1>3, <2>1, <2>2
<1>7. Run(a, task) = Run(RunChange(a, ss), tail)
  BY <1>1, RunFirst
<1>8. CASE Fails(a, ss[1])
  <2>1. b = a /\ rest = tail
    BY <1>1, <1>8 DEF Rest
  <2>2. RunChange(a, ss) = a
    BY <1>3, <1>8, StatementFirst
  <2>3. QED
    BY <1>2, <1>5, <1>6, <1>7, <2>1, <2>2
<1>9. CASE ~Fails(a, ss[1]) /\ Len(ss) = 1
  <2>1. b = Execute(a, ss[1]) /\ rest = tail
    BY <1>1, <1>9 DEF Rest
  <2>2. RunChange(a, ss) = b
    BY <1>3, <1>9, <2>1, StatementFirst
  <2>3. QED
    BY <1>2, <1>5, <1>6, <1>7, <2>1, <2>2
<1>10. CASE ~Fails(a, ss[1]) /\ Len(ss) # 1
  <2>1. PICK left : left = Tail(ss)
    OBVIOUS
  <2>2. b = Execute(a, ss[1]) /\ rest = <<left>> \o tail
    BY <1>1, <1>10, <2>1 DEF Rest
  <2>3. left \in Piece /\ RowsOfPiece(left) \subseteq RowsOfPiece(ss) /\ RunChange(a, ss) = RunChange(b, left)
    BY <1>3, <1>10, <2>1, <2>2, StatementFirst
  <2>4. <<left>> \in Seq(Piece) /\ Len(<<left>>) = 1 /\ <<left>>[1] = left
    BY <2>3
  <2>5. /\ rest \in Seq(Piece) /\ Len(rest) = 1 + Len(tail) /\ rest[1] = left
        /\ \A i \in 1..Len(tail) : rest[i + 1] = tail[i]
    BY <1>2, <2>2, <2>4
  <2>6. rest # <<>> /\ Tail(rest) = tail
    <3>1. rest # <<>>
      BY <1>2, <2>5
    <3>2. Tail(rest) \in Seq(Piece) /\ Len(Tail(rest)) = Len(rest) - 1 /\ \A i \in 1..Len(Tail(rest)) : Tail(rest)[i] = rest[i + 1]
      BY <2>5, <3>1, HeadTailProperties
    <3>3. QED
      BY <1>2, <2>5, <3>1, <3>2, SeqEqual
  <2>7. Run(b, rest) = Run(RunChange(b, left), tail)
    BY <2>5, <2>6, RunFirst
  <2>8. RowsOf(rest) \subseteq RowsOf(task)
    <3>1. \A r : r \in RowsOf(rest) <=> \E i \in 1..Len(rest) : r \in RowsOfPiece(rest[i])
      BY <2>5, RowsOfIs
    <3>2. ASSUME NEW i \in 1..Len(rest), i # 1 PROVE rest[i] = task[i] /\ i \in 1..Len(task)
      <4>1. i - 1 \in 1..Len(tail) /\ (i - 1) + 1 = i /\ i \in 1..Len(task)
        BY <1>2, <2>5, <3>2
      <4>2. QED
        BY <1>2, <2>5, <4>1
    <3>3. QED
      BY <1>3, <2>3, <2>5, <3>1, <3>2
  <2>9. QED
    BY <1>5, <1>7, <2>3, <2>5, <2>7, <2>8
<1>11. QED
  BY <1>8, <1>9, <1>10

\* No two changes are of one row.
Apart(task) == \A i, j \in 1..Len(task) : i # j => RowsOfPiece(task[i]) \cap RowsOfPiece(task[j]) = {}

\* Changes of different rows, one after the other, have each the effect it has alone.
LEMMA Alone ==
    ASSUME NEW a, IsStore(a), NEW task \in Seq(Piece), Apart(task),
           NEW i \in 1..Len(task), NEW r \in RowsOfPiece(task[i])
    PROVE  Run(a, task)[r] = RunChange(a, task[i])[r]
<1>0. Len(task) \in Nat /\ \A j \in 1..Len(task) : task[j] \in Piece /\ RowsOfPiece(task[j]) \subseteq Rows
  BY RowsOfIs
<1>1. PICK f : Runs(f, a, task) /\ Run(a, task) = f[Len(task)]
  BY <1>0, RunIs
<1>2. f[0] = a /\ \A n \in 1..Len(task) : f[n] = RunChange(f[n - 1], task[n])
  BY <1>0, <1>1, RunsStep
<1>3. PICK R : R = RowsOfPiece(task[i])
  OBVIOUS
<1> DEFINE Good(n) == /\ IsStore(f[n])
                      /\ n < i => \A x \in R : f[n][x] = a[x]
                      /\ n >= i => \A x \in R : f[n][x] = RunChange(a, task[i])[x]
           Bad == {n \in 0..Len(task) : ~Good(n)}
<1>4. ASSUME Bad # {} PROVE FALSE
  <2>1. Bad \subseteq Nat
    BY <1>0
  <2>2. PICK n \in Bad : \A m \in Bad : n <= m
    BY <1>4, <2>1, Least
  <2>3. Good(0)
    BY <1>2
  <2>4. n # 0
    BY <2>2, <2>3
  <2>5. n \in 1..Len(task) /\ n - 1 \in 0..Len(task) /\ ~(n <= n - 1)
    BY <1>0, <2>2, <2>4
  <2>6. Good(n - 1)
    BY <2>2, <2>5
  <2>7. PICK x, ss : x = f[n - 1] /\ ss = task[n]
    OBVIOUS
  <2>8. f[n] = RunChange(x, ss) /\ ss \in Piece /\ RowsOfPiece(ss) \in SUBSET Rows /\ IsStore(x)
    BY <1>0, <1>2, <2>5, <2>6, <2>7
  <2>9. IsStore(RunChange(x, ss)) /\ \A y \in Rows \ RowsOfPiece(ss) : RunChange(x, ss)[y] = x[y]
    <3>1. \A y \in RowsOfPiece(ss) : x[y] = x[y]
      OBVIOUS
    <3>2. QED
      BY <2>8, <3>1, RunChangeLocal
  <2>10. R \subseteq Rows
    BY <1>0, <1>3
  <2>11. CASE n = i
    <3>1. n - 1 < i /\ ss = task[i] /\ R = RowsOfPiece(ss) /\ R \in SUBSET Rows /\ ~(n < i)
      BY <1>3, <2>5, <2>7, <2>10, <2>11
    <3>2. \A y \in R : x[y] = a[y]
      BY <2>6, <2>7, <3>1
    <3>3. \A y \in R : RunChange(x, ss)[y] = RunChange(a, ss)[y]
      BY <2>8, <3>1, <3>2, RunChangeLocal, SMTT(20)
    <3>4. Good(n)
      BY <2>8, <2>9, <3>1, <3>3
    <3>5. QED
      BY <2>2, <3>4
  <2>12. CASE n # i
    <3>1. R \cap RowsOfPiece(ss) = {}
      BY <1>3, <2>5, <2>7, <2>12 DEF Apart
    <3>2. \A y \in R : f[n][y] = x[y]
      BY <2>8, <2>9, <2>10, <3>1
    <3>3. n < i => n - 1 < i
      BY <2>5
    <3>4. n >= i => n - 1 >= i
      BY <2>5, <2>12
    <3>5. Good(n)
      BY <2>6, <2>7, <2>8, <2>9, <3>2, <3>3, <3>4
    <3>6. QED
      BY <2>2, <3>5
  <2>13. QED
    BY <2>11, <2>12
<1>5. Good(Len(task)) /\ Len(task) >= i
  BY <1>0, <1>4
<1>6. QED
  BY <1>1, <1>3, <1>5

-----------------------------------------------------------------------------
(* Changes, their statements and their optimization.                       *)

\* A change is one statement, or three.
LEMMA StatementsIs ==
    ASSUME NEW c \in ChangeSet
    PROVE  /\ Statements(c) \in Piece
           /\ c.op # "swap" => Len(Statements(c)) = 1 /\ Statements(c)[1] = Statement(c.op, c.at, c.to, c.ref, c.now)
           /\ c.op = "swap" => /\ Len(Statements(c)) = 3 /\ Statements(c)[1] = Relocate(c.at, Temp)
                               /\ Statements(c)[2] = Relocate(c.to, c.at) /\ Statements(c)[3] = Relocate(Temp, c.to)
<1>1. c.at \in Rows /\ c.to \in Rows /\ Temp \in Rows /\ c.ref \in Refs \cup {Empty} /\ c.now \in Nat
  BY DEF ChangeSet, Rows
<1>1a. c.op = "add" => c.ref \in Refs
  BY DEF ChangeSet
<1>2. \A from, to \in Rows : Relocate(from, to) \in AnyStatement
  BY DEF Relocate, Statement, AnyStatement
<1>3. CASE c.op = "swap"
  <2>1. PICK x, y, z \in AnyStatement : x = Relocate(c.at, Temp) /\ y = Relocate(c.to, c.at) /\ z = Relocate(Temp, c.to)
    BY <1>1, <1>2
  <2>2. Statements(c) = <<x, y, z>>
    BY <1>3, <2>1 DEF Statements
  <2>3. <<x, y, z>> \in Seq(AnyStatement) /\ Len(<<x, y, z>>) = 3
    OBVIOUS
  <2>4. QED
    BY <1>3, <2>1, <2>2, <2>3 DEF Piece
<1>4. CASE c.op # "swap"
  <2>1. c.op \in {"add", "remove", "change", "move"}
    BY <1>4 DEF ChangeSet
  <2>2. PICK x \in AnyStatement : x = Statement(c.op, c.at, c.to, c.ref, c.now)
    BY <1>1, <1>1a, <2>1 DEF Statement, AnyStatement
  <2>3. Statements(c) = <<x>>
    BY <1>4, <2>2 DEF Statements
  <2>4. <<x>> \in Seq(AnyStatement) /\ Len(<<x>>) = 1
    OBVIOUS
  <2>5. QED
    BY <1>4, <2>2, <2>3, <2>4 DEF Piece
<1>5. QED
  BY <1>3, <1>4

\* So is the work of a log.
LEMMA WorkIs ==
    ASSUME NEW cs \in Seq(ChangeSet)
    PROVE  /\ Work(cs) \in Seq(Piece) /\ Len(Work(cs)) = Len(cs) /\ Len(cs) \in Nat
           /\ \A i \in 1..Len(cs) : Work(cs)[i] = Statements(cs[i]) /\ cs[i] \in ChangeSet
<1>1. Len(cs) \in Nat /\ DOMAIN cs = 1..Len(cs) /\ \A i \in 1..Len(cs) : cs[i] \in ChangeSet
  OBVIOUS
<1>2. Work(cs) = [i \in 1..Len(cs) |-> Statements(cs[i])]
  BY <1>1 DEF Work
<1>3. Work(cs) \in [1..Len(cs) -> Piece]
  BY <1>1, <1>2, StatementsIs
<1>4. Work(cs) \in Seq(Piece) /\ Len(Work(cs)) = Len(cs)
  BY <1>1, <1>3, SeqDef, LenProperties
<1>5. QED
  BY <1>1, <1>2, <1>4

\* Merging two changes gives a change, if anything.
LEMMA MergedOne ==
    ASSUME NEW l \in ChangeSet, NEW r \in ChangeSet
    PROVE  Merged(l, r) = <<>> \/ \E x \in ChangeSet : Merged(l, r) = <<x>>
<1>1. /\ l = [op |-> l.op, at |-> l.at, to |-> l.to, ref |-> l.ref, was |-> l.was, now |-> l.now]
      /\ l.at \in Slots /\ l.to \in Slots /\ r.to \in Slots /\ l.was \in Nat /\ r.now \in Nat
  BY DEF ChangeSet
<1>2. [l EXCEPT !.at = r.to, !.to = r.to] \in ChangeSet
  BY DEF ChangeSet
<1>3. [l EXCEPT !.now = r.now] \in ChangeSet
  BY DEF ChangeSet
<1>4. MoveItem(l.at, r.to) \in ChangeSet
  BY <1>1 DEF MoveItem, Change, ChangeSet
<1>5. RemoveItem(l.at) \in ChangeSet
  BY <1>1 DEF RemoveItem, Change, ChangeSet
<1>6. ChangeTypeData(l.at, l.was, r.now) \in ChangeSet
  BY <1>1 DEF ChangeTypeData, Change, ChangeSet
<1>7. PICK a, b, c, d, e \in ChangeSet :
        /\ a = [l EXCEPT !.at = r.to, !.to = r.to] /\ b = [l EXCEPT !.now = r.now]
        /\ c = MoveItem(l.at, r.to) /\ d = RemoveItem(l.at) /\ e = ChangeTypeData(l.at, l.was, r.now)
  BY <1>2, <1>3, <1>4, <1>5, <1>6
<1>8. Merged(l, r) \in {<<r>>, <<a>>, <<b>>, <<c>>, <<d>>, <<e>>, <<>>}
  BY <1>7, Zenon DEF Merged
<1>9. QED
  BY <1>8, Zenon

\* So it is a list of changes.
LEMMA MergedIs ==
    ASSUME NEW l \in ChangeSet, NEW r \in ChangeSet
    PROVE  Merged(l, r) \in Seq(ChangeSet)
<1>1. \A x \in ChangeSet : <<x>> \in Seq(ChangeSet)
  OBVIOUS
<1>2. <<>> \in Seq(ChangeSet)
  OBVIOUS
<1>3. QED
  BY <1>1, <1>2, MergedOne, Zenon

Merging == [todo : Seq(ChangeSet), queue : Seq(ChangeSet), stop : BOOLEAN]

\* A round of merging keeps lists of changes.
LEMMA MergeRoundIs ==
    ASSUME NEW s \in Merging, NEW item \in ChangeSet
    PROVE  MergeRound(s, item) \in Merging
<1>1. PICK todo \in Seq(ChangeSet), queue \in Seq(ChangeSet), stop \in BOOLEAN :
        s = [todo |-> todo, queue |-> queue, stop |-> stop]
  BY DEF Merging
<1>2. <<item>> \in Seq(ChangeSet) /\ <<item>> \o todo \in Seq(ChangeSet)
  OBVIOUS
<1>3. CASE stop
  <2>1. MergeRound(s, item) = [todo |-> <<item>> \o todo, queue |-> queue, stop |-> stop]
    BY <1>1, <1>3 DEF MergeRound
  <2>2. QED
    BY <1>2, <2>1 DEF Merging
<1>4. CASE ~stop /\ queue = <<>>
  <2>1. MergeRound(s, item) = [todo |-> todo, queue |-> <<item>>, stop |-> TRUE]
    BY <1>1, <1>4 DEF MergeRound
  <2>2. QED
    BY <1>2, <2>1 DEF Merging
<1>5. CASE ~stop /\ queue # <<>>
  <2>1. PICK new \in ChangeSet, rest \in Seq(ChangeSet) : new = Head(queue) /\ rest = Tail(queue)
    BY <1>5, HeadTailProperties
  <2>2. MergeRound(s, item) =
          IF Cancels(item, new) THEN [todo |-> todo, queue |-> rest, stop |-> stop]
          ELSE IF Merged(item, new) # <<>> THEN [todo |-> todo, queue |-> Merged(item, new) \o rest, stop |-> stop]
          ELSE [todo |-> todo, queue |-> <<new>> \o rest \o <<item>>, stop |-> Incompatible(item, new)]
    <3>1. s.queue = queue /\ s.stop = stop /\ s.todo = todo
      BY <1>1
    <3>2. /\ [s EXCEPT !.queue = rest] = [todo |-> todo, queue |-> rest, stop |-> stop]
          /\ [s EXCEPT !.queue = Merged(item, new) \o rest] = [todo |-> todo, queue |-> Merged(item, new) \o rest, stop |-> stop]
          /\ [s EXCEPT !.queue = <<new>> \o rest \o <<item>>, !.stop = Incompatible(item, new)]
               = [todo |-> todo, queue |-> <<new>> \o rest \o <<item>>, stop |-> Incompatible(item, new)]
      <4>1. \A q : [s EXCEPT !.queue = q] = [todo |-> todo, queue |-> q, stop |-> stop]
        BY <1>1
      <4>2. PICK q, x, t : q = <<new>> \o rest \o <<item>> /\ x = Incompatible(item, new) /\ t = [s EXCEPT !.queue = q]
        OBVIOUS
      <4>3. [s EXCEPT !.queue = q, !.stop = x] = [t EXCEPT !.stop = x]
        BY <4>2, Zenon
      <4>4. t = [todo |-> todo, queue |-> q, stop |-> stop]
        BY <4>1, <4>2
      <4>5. [t EXCEPT !.stop = x] = [todo |-> todo, queue |-> q, stop |-> x]
        BY <4>4
      <4>6. QED
        BY <4>1, <4>2, <4>3, <4>5, Zenon
    <3>3. QED
      BY <1>5, <2>1, <3>1, <3>2, Zenon DEF MergeRound
  <2>3. Merged(item, new) \o rest \in Seq(ChangeSet)
    BY <2>1, MergedIs, ConcatProperties
  <2>4. <<new>> \o rest \o <<item>> \in Seq(ChangeSet)
    OBVIOUS
  <2>5. Incompatible(item, new) \in BOOLEAN
    BY DEF Incompatible
  <2>6. QED
    BY <2>2, <2>3, <2>4, <2>5 DEF Merging
<1>6. QED
  BY <1>3, <1>4, <1>5

Started(new) == [todo |-> <<>>, queue |-> <<new>>, stop |-> FALSE]

\* The rounds that merging a change into a list goes through.
Rounds(f, cs, new) ==
    f = [n \in 0..Len(cs) |-> IF n = 0 THEN Started(new) ELSE MergeRound(f[n - 1], cs[Len(cs) - n + 1])]

\* There are such rounds, and merge_recursive gives what the last leaves.
LEMMA MergeSteps ==
    ASSUME NEW cs \in Seq(ChangeSet), NEW new \in ChangeSet
    PROVE  \E f : Rounds(f, cs, new) /\ merge_recursive(cs, new) = f[Len(cs)].todo \o Reverse(f[Len(cs)].queue)
<1>0. Len(cs) \in Nat
  OBVIOUS
<1>1. PICK start : start = [todo |-> <<>>, queue |-> <<new>>, stop |-> FALSE]
  OBVIOUS
<1>2. start \in Merging
  <2>1. <<new>> \in Seq(ChangeSet) /\ <<>> \in Seq(ChangeSet)
    OBVIOUS
  <2>2. QED
    BY <1>1, <2>1 DEF Merging
<1> DEFINE Up(g, n) == /\ g = [i \in 0..n |-> IF i = 0 THEN start ELSE MergeRound(g[i - 1], cs[Len(cs) - i + 1])]
                       /\ g[n] \in Merging
           Bad == {n \in 0..Len(cs) : ~\E g : Up(g, n)}
<1>3. ASSUME Bad # {} PROVE FALSE
  <2>0. Bad \subseteq Nat
    BY <1>0
  <2>1. PICK n \in Bad : \A m \in Bad : n <= m
    BY <1>3, <2>0, Least
  <2>2. CASE n = 0
    <3>1. PICK g : g = [i \in 0..0 |-> start]
      OBVIOUS
    <3>2. Up(g, 0)
      BY <1>2, <3>1
    <3>3. QED
      BY <2>1, <2>2, <3>2
  <2>3. CASE n # 0
    <3>1. n - 1 \in 0..Len(cs) /\ n \in Nat /\ ~(n <= n - 1) /\ Len(cs) - n + 1 \in 1..Len(cs)
      BY <1>0, <2>1, <2>3
    <3>2. n - 1 \notin Bad
      BY <2>1, <3>1, Zenon
    <3>3. PICK h : Up(h, n - 1)
      BY <3>1, <3>2
    <3>4. PICK g : g = [i \in 0..n |-> IF i = 0 THEN start ELSE MergeRound(h[i - 1], cs[Len(cs) - i + 1])]
      OBVIOUS
    <3>5. \A i \in 0..(n - 1) : g[i] = h[i]
      BY <3>1, <3>3, <3>4
    <3>6. Up(g, n)
      <4>1. \A i \in 0..n : i # 0 => i - 1 \in 0..(n - 1)
        BY <3>1
      <4>2. \A i \in 0..n : i # 0 => g[i - 1] = h[i - 1]
        BY <3>5, <4>1
      <4>3. \A i \in 0..n : g[i] = IF i = 0 THEN start ELSE MergeRound(g[i - 1], cs[Len(cs) - i + 1])
        BY <3>4, <4>2
      <4>4. g = [i \in 0..n |-> g[i]]
        BY <3>4
      <4>5. g = [i \in 0..n |-> IF i = 0 THEN start ELSE MergeRound(g[i - 1], cs[Len(cs) - i + 1])]
        BY <4>3, <4>4
      <4>6. g[n] = MergeRound(h[n - 1], cs[Len(cs) - n + 1])
        BY <2>3, <3>1, <3>4
      <4>7. PICK k : k = Len(cs) - n + 1
        OBVIOUS
      <4>8. cs[k] \in ChangeSet
        BY <3>1, <4>7
      <4>9. g[n] \in Merging
        BY <3>3, <4>6, <4>7, <4>8, MergeRoundIs
      <4>10. QED
        BY <4>5, <4>9
    <3>7. QED
      BY <2>1, <3>6
  <2>4. QED
    BY <2>2, <2>3
<1>4. PICK g : Up(g, Len(cs))
  BY <1>0, <1>3
<1>5. PICK f : f = CHOOSE w : w = [n \in 0..Len(cs) |-> IF n = 0 THEN start ELSE MergeRound(w[n - 1], cs[Len(cs) - n + 1])]
  OBVIOUS
<1>6. f = [n \in 0..Len(cs) |-> IF n = 0 THEN start ELSE MergeRound(f[n - 1], cs[Len(cs) - n + 1])]
  BY <1>4, <1>5
<1>7. merge_recursive(cs, new) = f[Len(cs)].todo \o Reverse(f[Len(cs)].queue)
  BY <1>1, <1>5 DEF merge_recursive
<1>8. Rounds(f, cs, new)
  BY <1>1, <1>6 DEF Rounds, Started
<1>9. QED
  BY <1>7, <1>8

\* Merging a change into a list gives a list of changes.
LEMMA MergeIs ==
    ASSUME NEW cs \in Seq(ChangeSet), NEW new \in ChangeSet
    PROVE  merge_recursive(cs, new) \in Seq(ChangeSet)
<1>0. Len(cs) \in Nat
  OBVIOUS
<1>1. PICK start : start = Started(new)
  OBVIOUS
<1>2. start \in Merging
  <2>1. <<new>> \in Seq(ChangeSet) /\ <<>> \in Seq(ChangeSet)
    OBVIOUS
  <2>2. QED
    BY <1>1, <2>1 DEF Merging, Started
<1>5. PICK f : Rounds(f, cs, new) /\ merge_recursive(cs, new) = f[Len(cs)].todo \o Reverse(f[Len(cs)].queue)
  BY MergeSteps
<1>6. f = [n \in 0..Len(cs) |-> IF n = 0 THEN start ELSE MergeRound(f[n - 1], cs[Len(cs) - n + 1])]
  BY <1>1, <1>5 DEF Rounds
<1>7. f[Len(cs)] \in Merging
  <2> DEFINE Wrong == {n \in 0..Len(cs) : f[n] \notin Merging}
  <2>1. ASSUME Wrong # {} PROVE FALSE
    <3>0. Wrong \subseteq Nat
      BY <1>0
    <3>1. PICK n \in Wrong : \A m \in Wrong : n <= m
      BY <2>1, <3>0, Least
    <3>2. 0 \in 0..Len(cs)
      BY <1>0
    <3>3. f[0] = start
      BY <1>6, <3>2
    <3>4. n # 0
      BY <1>2, <3>1, <3>3
    <3>5. n - 1 \in 0..Len(cs) /\ n \in 0..Len(cs) /\ ~(n <= n - 1) /\ Len(cs) - n + 1 \in 1..Len(cs)
      BY <1>0, <3>1, <3>4
    <3>6. f[n - 1] \in Merging
      BY <3>1, <3>5
    <3>7. f[n] = MergeRound(f[n - 1], cs[Len(cs) - n + 1])
      BY <1>6, <3>4, <3>5
    <3>8. PICK k : k = Len(cs) - n + 1
      OBVIOUS
    <3>9. cs[k] \in ChangeSet
      BY <3>5, <3>8
    <3>10. QED
      BY <3>1, <3>6, <3>7, <3>8, <3>9, MergeRoundIs
  <2>2. QED
    BY <1>0, <2>1
<1>9. PICK todo \in Seq(ChangeSet), queue \in Seq(ChangeSet) : f[Len(cs)].todo = todo /\ f[Len(cs)].queue = queue
  BY <1>7 DEF Merging
<1>10. Reverse(queue) \in Seq(ChangeSet)
  <2>1. Len(queue) \in Nat /\ \A i \in 1..Len(queue) : (Len(queue) - i) + 1 \in 1..Len(queue) /\ queue[i] \in ChangeSet
    OBVIOUS
  <2>2. Reverse(queue) \in [1..Len(queue) -> ChangeSet]
    BY <2>1 DEF Reverse
  <2>3. QED
    BY <2>1, <2>2, SeqDef
<1>11. QED
  BY <1>5, <1>9, <1>10, ConcatProperties

\* The logs that optimizing goes through, change by change.
Optimizes(f, cs) == f = [n \in 0..Len(cs) |-> IF n = 0 THEN <<>> ELSE merge_recursive(f[n - 1], cs[n])]

\* There are such logs, and optimize gives the last.
LEMMA OptimizeSteps ==
    ASSUME NEW cs \in Seq(ChangeSet)
    PROVE  \E f : Optimizes(f, cs) /\ optimize(cs) = IF Len(cs) <= 1 THEN cs ELSE f[Len(cs)]
<1>0. Len(cs) \in Nat /\ \A i \in 1..Len(cs) : cs[i] \in ChangeSet
  OBVIOUS
<1> DEFINE Up(g, n) == g = [i \in 0..n |-> IF i = 0 THEN <<>> ELSE merge_recursive(g[i - 1], cs[i])]
           Bad == {n \in Nat : ~\E g : Up(g, n)}
<1>3. ASSUME Bad # {} PROVE FALSE
  <2>1. PICK n \in Bad : \A m \in Bad : n <= m
    BY <1>3, Least
  <2>2. CASE n = 0
    <3>1. PICK g : g = [i \in 0..0 |-> <<>>]
      OBVIOUS
    <3>2. Up(g, 0)
      BY <3>1
    <3>3. QED
      BY <2>1, <2>2, <3>2
  <2>3. CASE n # 0
    <3>1. n - 1 \in Nat /\ n \in Nat /\ ~(n <= n - 1)
      BY <2>1, <2>3
    <3>2. n - 1 \notin Bad
      BY <2>1, <3>1, Zenon
    <3>3. PICK h : Up(h, n - 1)
      BY <3>1, <3>2
    <3>4. PICK g : g = [i \in 0..n |-> IF i = 0 THEN <<>> ELSE merge_recursive(h[i - 1], cs[i])]
      OBVIOUS
    <3>5. \A i \in 0..(n - 1) : g[i] = h[i]
      BY <3>1, <3>3, <3>4
    <3>6. Up(g, n)
      <4>1. \A i \in 0..n : i # 0 => i - 1 \in 0..(n - 1)
        BY <3>1
      <4>2. \A i \in 0..n : i # 0 => g[i - 1] = h[i - 1]
        BY <3>5, <4>1
      <4>3. \A i \in 0..n : g[i] = IF i = 0 THEN <<>> ELSE merge_recursive(g[i - 1], cs[i])
        BY <3>4, <4>2
      <4>4. g = [i \in 0..n |-> g[i]]
        BY <3>4
      <4>5. QED
        BY <4>3, <4>4
    <3>7. QED
      BY <2>1, <3>6
  <2>4. QED
    BY <2>2, <2>3
<1>4. PICK g : Up(g, Len(cs))
  BY <1>0, <1>3
<1>5. PICK f : f = CHOOSE w : w = [n \in 0..Len(cs) |-> IF n = 0 THEN <<>> ELSE merge_recursive(w[n - 1], cs[n])]
  OBVIOUS
<1>6. f = [n \in 0..Len(cs) |-> IF n = 0 THEN <<>> ELSE merge_recursive(f[n - 1], cs[n])]
  BY <1>4, <1>5
<1>7. optimize(cs) = IF Len(cs) <= 1 THEN cs ELSE f[Len(cs)]
  BY <1>5 DEF optimize
<1>8. QED
  BY <1>6, <1>7 DEF Optimizes

\* Optimizing a log gives a log.
LEMMA OptimizeIs ==
    ASSUME NEW cs \in Seq(ChangeSet)
    PROVE  optimize(cs) \in Seq(ChangeSet)
<1>0. Len(cs) \in Nat /\ \A i \in 1..Len(cs) : cs[i] \in ChangeSet
  OBVIOUS
<1>5. PICK f : Optimizes(f, cs) /\ optimize(cs) = IF Len(cs) <= 1 THEN cs ELSE f[Len(cs)]
  BY OptimizeSteps
<1>6. f = [n \in 0..Len(cs) |-> IF n = 0 THEN <<>> ELSE merge_recursive(f[n - 1], cs[n])]
  BY <1>5 DEF Optimizes
<1>7. f[Len(cs)] \in Seq(ChangeSet)
  <2> DEFINE Wrong == {n \in 0..Len(cs) : f[n] \notin Seq(ChangeSet)}
  <2>1. ASSUME Wrong # {} PROVE FALSE
    <3>0. Wrong \subseteq Nat
      BY <1>0
    <3>1. PICK n \in Wrong : \A m \in Wrong : n <= m
      BY <2>1, <3>0, Least
    <3>2. 0 \in 0..Len(cs)
      BY <1>0
    <3>3. f[0] = <<>> /\ <<>> \in Seq(ChangeSet)
      BY <1>6, <3>2
    <3>4. n # 0
      BY <3>1, <3>3, Zenon
    <3>5. n - 1 \in 0..Len(cs) /\ n \in 1..Len(cs) /\ n \in 0..Len(cs) /\ ~(n <= n - 1)
      BY <1>0, <3>1, <3>4
    <3>6. f[n - 1] \in Seq(ChangeSet)
      BY <3>1, <3>5
    <3>7. f[n] = merge_recursive(f[n - 1], cs[n])
      BY <1>6, <3>4, <3>5
    <3>8. cs[n] \in ChangeSet
      BY <1>0, <3>5
    <3>9. QED
      BY <3>1, <3>6, <3>7, <3>8, MergeIs
  <2>2. QED
    BY <1>0, <2>1
<1>9. QED
  BY <1>5, <1>7

-----------------------------------------------------------------------------
(* Playing a log back.                                                     *)

\* Running one list of changes and then another is running both.
LEMMA RunConcat ==
    ASSUME NEW S, NEW x \in Seq(S), NEW y \in Seq(S), NEW store
    PROVE  Run(store, x \o y) = Run(Run(store, x), y)
<1>1. PICK z \in Seq(S) : z = x \o y
  BY ConcatProperties
<1>2. PICK m, n \in Nat : m = Len(x) /\ n = Len(y)
  BY LenProperties
<1>3. /\ Len(z) = m + n /\ \A i \in 1..m : z[i] = x[i]
      /\ \A i \in 1..n : z[m + i] = y[i]
  BY <1>1, <1>2
<1>4. PICK f : Runs(f, store, x) /\ Run(store, x) = f[m]
  BY <1>2, RunIs
<1>5. PICK g : Runs(g, f[m], y) /\ Run(f[m], y) = g[n]
  BY <1>2, RunIs
<1>6. PICK h : Runs(h, store, z) /\ Run(store, z) = h[m + n]
  <2>1. PICK k \in Nat : k = m + n /\ Len(z) = k
    BY <1>2, <1>3
  <2>2. PICK h : Runs(h, store, z) /\ Run(store, z) = h[k]
    BY <2>1, RunIs
  <2>3. QED
    BY <2>1, <2>2
<1>7. /\ f[0] = store /\ \A i \in 1..m : f[i] = RunChange(f[i - 1], x[i])
      /\ g[0] = f[m] /\ \A i \in 1..n : g[i] = RunChange(g[i - 1], y[i])
  BY <1>2, <1>4, <1>5, RunsStep, SMTT(20)
<1>8. Len(z) \in Nat
  BY <1>2, <1>3
<1>9. h[0] = store /\ \A i \in 1..(m + n) : h[i] = RunChange(h[i - 1], z[i])
  <2>1. PICK k \in Nat : k = m + n /\ Len(z) = k
    BY <1>2, <1>3
  <2>2. h[0] = store /\ \A i \in 1..k : h[i] = RunChange(h[i - 1], z[i])
    BY <1>6, <2>1, RunsStep, SMTT(20)
  <2>3. QED
    BY <2>1, <2>2
<1>10. h[m] = f[m]
  <2> DEFINE Bad == {i \in 0..m : h[i] # f[i]}
  <2>1. ASSUME Bad # {} PROVE FALSE
    <3>1. Bad \subseteq Nat
      BY <1>2
    <3>2. PICK i \in Bad : \A j \in Bad : i <= j
      BY <2>1, <3>1, Least
    <3>3. i # 0
      BY <1>7, <1>9, <3>2
    <3>4. i \in 1..m /\ i \in 1..(m + n) /\ i - 1 \in 0..m /\ ~(i <= i - 1)
      BY <1>2, <3>2, <3>3
    <3>5. h[i - 1] = f[i - 1]
      BY <3>2, <3>4
    <3>6. QED
      BY <1>3, <1>7, <1>9, <3>2, <3>4, <3>5
  <2>2. QED
    BY <1>2, <2>1
<1>11. h[m + n] = g[n]
  <2> DEFINE Bad == {i \in 0..n : h[m + i] # g[i]}
  <2>1. ASSUME Bad # {} PROVE FALSE
    <3>1. Bad \subseteq Nat
      BY <1>2
    <3>2. PICK i \in Bad : \A j \in Bad : i <= j
      BY <2>1, <3>1, Least
    <3>3. i # 0
      BY <1>2, <1>7, <1>10, <3>2
    <3>4. i \in 1..n /\ m + i \in 1..(m + n) /\ i - 1 \in 0..n /\ ~(i <= i - 1) /\ (m + i) - 1 = m + (i - 1)
      BY <1>2, <3>2, <3>3
    <3>5. h[m + (i - 1)] = g[i - 1]
      BY <3>2, <3>4
    <3>6. h[m + i] = RunChange(h[(m + i) - 1], z[m + i])
      BY <1>9, <3>4
    <3>7. g[i] = RunChange(g[i - 1], y[i]) /\ z[m + i] = y[i]
      BY <1>3, <1>7, <3>4
    <3>8. QED
      BY <3>2, <3>4, <3>5, <3>6, <3>7
  <2>2. QED
    BY <1>2, <2>1
<1>12. QED
  BY <1>1, <1>4, <1>5, <1>6, <1>11

\* Playing a log back in two parts.
LEMMA ReplayConcat ==
    ASSUME NEW x \in Seq(ChangeSet), NEW y \in Seq(ChangeSet), NEW store
    PROVE  /\ x \o y \in Seq(ChangeSet) /\ Replay(store, x \o y) = Replay(Replay(store, x), y)
<1>1. PICK z \in Seq(ChangeSet) : z = x \o y
  BY ConcatProperties
<1>2. PICK m, n \in Nat : m = Len(x) /\ n = Len(y)
  BY LenProperties
<1>3. /\ Len(z) = m + n /\ \A i \in 1..m : z[i] = x[i]
      /\ \A i \in 1..n : z[m + i] = y[i]
  BY <1>1, <1>2
<1>4. /\ Work(x) \in Seq(Piece) /\ Len(Work(x)) = m /\ \A i \in 1..m : Work(x)[i] = Statements(x[i])
      /\ Work(y) \in Seq(Piece) /\ Len(Work(y)) = n /\ \A i \in 1..n : Work(y)[i] = Statements(y[i])
      /\ Work(z) \in Seq(Piece) /\ Len(Work(z)) = m + n /\ \A i \in 1..(m + n) : Work(z)[i] = Statements(z[i])
  BY <1>2, <1>3, WorkIs
<1>5. PICK wx, wy, wz \in Seq(Piece) : wx = Work(x) /\ wy = Work(y) /\ wz = Work(z)
  BY <1>4
<1>6. PICK w \in Seq(Piece) : w = wx \o wy
  BY ConcatProperties
<1>7. Len(w) = m + n /\ (\A i \in 1..m : w[i] = wx[i]) /\ \A i \in 1..n : w[m + i] = wy[i]
  <2>1. Len(wx) = m /\ Len(wy) = n
    BY <1>4, <1>5
  <2>2. /\ Len(wx \o wy) = m + n
        /\ \A i \in 1..(m + n) : (wx \o wy)[i] = IF i <= m THEN wx[i] ELSE wy[i - m]
    BY <2>1, ConcatProperties
  <2>3. /\ \A i \in 1..m : i \in 1..(m + n) /\ i <= m
        /\ \A i \in 1..n : m + i \in 1..(m + n) /\ ~(m + i <= m) /\ (m + i) - m = i
    BY <1>2
  <2>4. QED
    BY <1>6, <2>2, <2>3
<1>8. ASSUME NEW i \in 1..(m + n) PROVE wz[i] = w[i]
  <2>1. CASE i \in 1..m
    BY <1>3, <1>4, <1>5, <1>7, <2>1
  <2>2. CASE i \notin 1..m
    <3>1. PICK k \in 1..n : i = m + k
      <4>1. i - m \in 1..n /\ i = m + (i - m)
        BY <1>2, <2>2
      <4>2. QED
        BY <4>1
    <3>2. w[i] = wy[k] /\ z[i] = y[k]
      BY <1>3, <1>7, <3>1
    <3>3. wy[k] = Statements(y[k]) /\ wz[i] = Statements(z[i])
      BY <1>4, <1>5
    <3>4. QED
      BY <3>2, <3>3
  <2>3. QED
    BY <2>1, <2>2
<1>9. Len(wz) = Len(w)
  BY <1>4, <1>5, <1>7
<1>10. wz = w
  <2>1. \A i \in 1..Len(wz) : wz[i] = w[i]
    BY <1>4, <1>5, <1>8
  <2>2. QED
    BY <1>9, <2>1, SeqEqual
<1>11. Run(store, w) = Run(Run(store, wx), wy)
  BY <1>6, RunConcat
<1>12. QED
  BY <1>1, <1>5, <1>10, <1>11 DEF Replay

\* A list of two, from its elements.
LEMMA PairIs ==
    ASSUME NEW c \in ChangeSet, NEW d \in ChangeSet
    PROVE  <<c>> \in Seq(ChangeSet) /\ <<d>> \in Seq(ChangeSet) /\ <<c>> \o <<d>> = <<c, d>>
<1>0. /\ <<c>> \in Seq(ChangeSet) /\ <<d>> \in Seq(ChangeSet) /\ <<c, d>> \in Seq(ChangeSet)
      /\ Len(<<c>>) = 1 /\ Len(<<d>>) = 1 /\ Len(<<c, d>>) = 2
      /\ <<c>>[1] = c /\ <<d>>[1] = d /\ <<c, d>>[1] = c /\ <<c, d>>[2] = d
  OBVIOUS
<1>1. PICK x, y, z \in Seq(ChangeSet) : x = <<c>> /\ y = <<d>> /\ z = <<c, d>>
  BY <1>0
<1>2. Len(x) = 1 /\ Len(y) = 1 /\ Len(z) = 2 /\ x[1] = c /\ y[1] = d /\ z[1] = c /\ z[2] = d
  BY <1>0, <1>1
<1>3. x \o y \in Seq(ChangeSet) /\ Len(x \o y) = 2 /\ (x \o y)[1] = c /\ (x \o y)[2] = d
  <2>1. \A i \in 1..(Len(x) + Len(y)) : (x \o y)[i] = IF i <= Len(x) THEN x[i] ELSE y[i - Len(x)]
    BY ConcatProperties
  <2>1a. /\ 1 \in 1..(Len(x) + Len(y)) /\ 1 <= Len(x)
         /\ 2 \in 1..(Len(x) + Len(y)) /\ ~(2 <= Len(x)) /\ 2 - Len(x) = 1
    BY <1>2
  <2>2. (x \o y)[1] = x[1] /\ (x \o y)[2] = y[1]
    BY <2>1, <2>1a, Zenon
  <2>3. x \o y \in Seq(ChangeSet) /\ Len(x \o y) = 2
    BY <1>2, ConcatProperties
  <2>4. QED
    BY <1>2, <2>2, <2>3
<1>4. \A i \in 1..2 : (x \o y)[i] = z[i]
  BY <1>2, <1>3
<1>5. x \o y = z
  BY <1>2, <1>3, <1>4, SeqEqual
<1>6. QED
  BY <1>1, <1>5

\* Playing back no change, one change and two.
LEMMA ReplayFew ==
    ASSUME NEW store
    PROVE  /\ Replay(store, <<>>) = store
           /\ \A c \in ChangeSet : Replay(store, <<c>>) = RunChange(store, Statements(c))
           /\ \A c, d \in ChangeSet : Replay(store, <<c, d>>) = RunChange(RunChange(store, Statements(c)), Statements(d))
<1>1. Replay(store, <<>>) = store
  <2>1. <<>> \in Seq(ChangeSet) /\ Len(<<>>) = 0
    OBVIOUS
  <2>2. Work(<<>>) \in Seq(Piece) /\ Len(Work(<<>>)) = 0
    BY <2>1, WorkIs
  <2>3. PICK none \in Seq(Piece) : none = Work(<<>>) /\ Len(none) = 0
    BY <2>2
  <2>4. none = <<>>
    BY <2>3
  <2>5. QED
    BY <2>3, <2>4, RunEmpty DEF Replay
<1>2. ASSUME NEW c \in ChangeSet, NEW a PROVE Replay(a, <<c>>) = RunChange(a, Statements(c))
  <2>0. <<c>> \in Seq(ChangeSet) /\ Len(<<c>>) = 1 /\ <<c>>[1] = c
    OBVIOUS
  <2>1. PICK one \in Seq(ChangeSet) : one = <<c>> /\ Len(one) = 1 /\ one[1] = c
    BY <2>0
  <2>2. PICK w \in Seq(Piece) : w = Work(one) /\ Len(w) = 1 /\ w[1] = Statements(c)
    <3>1. 1 \in 1..Len(one)
      BY <2>1
    <3>2. QED
      BY <2>1, <3>1, WorkIs
  <2>3. w # <<>> /\ Tail(w) = <<>>
    <3>1. w # <<>>
      BY <2>2, EmptySeq
    <3>2. Tail(w) \in Seq(Piece) /\ Len(Tail(w)) = 0
      BY <2>2, <3>1, HeadTailProperties
    <3>3. QED
      BY <3>1, <3>2, EmptySeq
  <2>4. Run(a, w) = Run(RunChange(a, w[1]), Tail(w))
    BY <2>3, RunFirst
  <2>5. QED
    BY <2>1, <2>2, <2>3, <2>4, RunEmpty DEF Replay
<1>3. ASSUME NEW c \in ChangeSet, NEW d \in ChangeSet
      PROVE  Replay(store, <<c, d>>) = RunChange(RunChange(store, Statements(c)), Statements(d))
  <2>1. <<c>> \in Seq(ChangeSet) /\ <<d>> \in Seq(ChangeSet) /\ <<c>> \o <<d>> = <<c, d>>
    BY PairIs
  <2>2. Replay(store, <<c>> \o <<d>>) = Replay(Replay(store, <<c>>), <<d>>)
    BY <2>1, ReplayConcat
  <2>3. QED
    BY <1>2, <2>1, <2>2
<1>4. QED
  BY <1>1, <1>2, <1>3

Store == [Rows -> Item \cup {NoItem}]

\* Slots are not the parking slot, no item is one, and items are what they consist of.
LEMMA Basics ==
    /\ Temp \notin Slots /\ Slots \subseteq Rows /\ Temp \in Rows
    /\ NoItem \notin Item /\ \A i \in Item : i = [ref |-> i.ref, amount |-> i.amount] /\ i.ref \in Refs /\ i.amount \in Nat
    /\ \A i \in Item, n \in Nat : [i EXCEPT !.amount = n] \in Item
    /\ \A ref \in Refs : MaxStack[ref] \in Nat /\ MaxStack[ref] >= 1
    /\ \A f \in Store : IsStore(f) /\ \A r \in Rows : f[r] # NoItem => f[r] \in Item
<1>1. Temp \notin Slots /\ Slots \subseteq Rows /\ Temp \in Rows
  BY InventoryAssumption DEF Temp, Rows
<1>2. NoItem \notin Item
  BY InventoryAssumption DEF NoItem, Item
<1>3. /\ \A i \in Item : i = [ref |-> i.ref, amount |-> i.amount] /\ i.ref \in Refs /\ i.amount \in Nat
      /\ \A i \in Item, n \in Nat : [i EXCEPT !.amount = n] \in Item
  BY DEF Item
<1>4. \A ref \in Refs : MaxStack[ref] \in Nat /\ MaxStack[ref] >= 1
  BY InventoryAssumption
<1>5. \A f \in Store : IsStore(f) /\ \A r \in Rows : f[r] # NoItem => f[r] \in Item
  BY DEF Store, IsStore
<1>6. QED
  BY <1>1, <1>2, <1>3, <1>4, <1>5

\* A store stays one when a row gets an item or loses it.
LEMMA StorePut ==
    ASSUME NEW a \in Store, NEW k \in Rows, NEW v \in Item \cup {NoItem}
    PROVE  [a EXCEPT ![k] = v] \in Store
  BY DEF Store

\* The kinds of changes.
LEMMA ChangesAre ==
    ASSUME NEW s \in Slots, NEW t \in Slots
    PROVE  /\ \A i \in Item : AddItem(s, i) \in ChangeSet
           /\ \A m, n \in Nat : ChangeTypeData(s, m, n) \in ChangeSet
           /\ MoveItem(s, t) \in ChangeSet /\ RemoveItem(s) \in ChangeSet /\ Swap(s, t) \in ChangeSet
<1>1. \A i \in Item : AddItem(s, i) \in ChangeSet
  BY Basics DEF AddItem, Change, ChangeSet
<1>2. \A m, n \in Nat : ChangeTypeData(s, m, n) \in ChangeSet
  BY DEF ChangeTypeData, Change, ChangeSet
<1>3. MoveItem(s, t) \in ChangeSet /\ RemoveItem(s) \in ChangeSet /\ Swap(s, t) \in ChangeSet
  BY DEF MoveItem, RemoveItem, Swap, Change, ChangeSet
<1>4. QED
  BY <1>1, <1>2, <1>3

\* A change of one statement.
LEMMA OneStatement ==
    ASSUME NEW a, NEW c \in ChangeSet, c.op # "swap", NEW s, s = Statement(c.op, c.at, c.to, c.ref, c.now)
    PROVE  s \in AnyStatement /\ RunChange(a, Statements(c)) = IF Fails(a, s) THEN a ELSE Execute(a, s)
<1>1. PICK ss \in Piece : ss = Statements(c) /\ Len(ss) = 1 /\ ss[1] = s
  BY StatementsIs
<1>2. 1 \in 1..Len(ss)
  BY <1>1
<1>3. s \in AnyStatement
  BY <1>1, <1>2, PieceIs
<1>4. QED
  BY <1>1, <1>3, StatementFirst

\* What an addition does.
LEMMA AddDoes ==
    ASSUME NEW a, IsStore(a), NEW s \in Slots, NEW i \in Item
    PROVE  RunChange(a, Statements(AddItem(s, i))) = [a EXCEPT ![s] = i]
<1>1. PICK c \in ChangeSet : c = AddItem(s, i)
  BY ChangesAre
<1>2. c.op = "add" /\ c.at = s /\ c.to = s /\ c.ref = i.ref /\ c.now = i.amount
  BY <1>1 DEF AddItem, Change
<1>3. PICK st : st = Statement(c.op, c.at, c.to, c.ref, c.now)
  OBVIOUS
<1>4. st.q = "add" /\ st.to = s /\ [ref |-> st.ref, amount |-> st.amount] = i
  BY <1>2, <1>3, Basics DEF Statement
<1>5. ~Fails(a, st)
  BY <1>4 DEF Fails
<1>6. RunChange(a, Statements(c)) = Execute(a, st)
  BY <1>2, <1>3, <1>5, OneStatement
<1>7. QED
  BY <1>1, <1>4, <1>6 DEF Execute

\* What a removal does.
LEMMA RemoveDoes ==
    ASSUME NEW a, IsStore(a), NEW s \in Slots
    PROVE  RunChange(a, Statements(RemoveItem(s))) = [a EXCEPT ![s] = NoItem]
<1>1. PICK c \in ChangeSet : c = RemoveItem(s)
  BY ChangesAre
<1>2. c.op = "remove" /\ c.at = s /\ c.to = s
  BY <1>1 DEF RemoveItem, Change
<1>3. PICK st : st = Statement(c.op, c.at, c.to, c.ref, c.now)
  OBVIOUS
<1>4. st.q = "remove" /\ st.to = s
  BY <1>2, <1>3 DEF Statement
<1>5. ~Fails(a, st)
  BY <1>4 DEF Fails
<1>6. RunChange(a, Statements(c)) = Execute(a, st)
  BY <1>2, <1>3, <1>5, OneStatement
<1>7. QED
  BY <1>1, <1>4, <1>6 DEF Execute

\* What a change of an amount does.
LEMMA ChangeDoes ==
    ASSUME NEW a, IsStore(a), NEW s \in Slots, a[s] # NoItem, NEW m \in Nat, NEW n \in Nat
    PROVE  RunChange(a, Statements(ChangeTypeData(s, m, n))) = [a EXCEPT ![s] = [a[s] EXCEPT !.amount = n]]
<1>1. PICK c \in ChangeSet : c = ChangeTypeData(s, m, n)
  BY ChangesAre
<1>2. c.op = "change" /\ c.at = s /\ c.to = s /\ c.now = n
  BY <1>1 DEF ChangeTypeData, Change
<1>3. PICK st : st = Statement(c.op, c.at, c.to, c.ref, c.now)
  OBVIOUS
<1>4. st.q = "change" /\ st.to = s /\ st.amount = n
  BY <1>2, <1>3 DEF Statement
<1>5. ~Fails(a, st)
  BY <1>4 DEF Fails
<1>6. st \in AnyStatement /\ RunChange(a, Statements(c)) = Execute(a, st)
  BY <1>2, <1>3, <1>5, OneStatement
<1>7. PICK x, y, v : x = Execute(a, st) /\ v = [a[s] EXCEPT !.amount = n] /\ y = [a EXCEPT ![s] = v]
  OBVIOUS
<1>8. IsStore(x) /\ \A r \in Rows : x[r] = IF r = s /\ a[r] # NoItem THEN [a[r] EXCEPT !.amount = n] ELSE a[r]
  BY <1>4, <1>6, <1>7, ExecuteIs, ZenonT(30)
<1>9. IsStore(y) /\ \A r \in Rows : y[r] = IF r = s THEN v ELSE a[r]
  <2>1. s \in Rows
    BY Basics
  <2>2. QED
    BY <1>7, <2>1 DEF IsStore
<1>10. \A r \in Rows : x[r] = y[r]
  BY <1>7, <1>8, <1>9
<1>11. x = y
  BY <1>8, <1>9, <1>10, StoresEqual
<1>12. QED
  BY <1>1, <1>6, <1>7, <1>11

\* What a move does, to a slot that is empty or the same.
LEMMA MoveDoes ==
    ASSUME NEW a, IsStore(a), NEW s \in Slots, NEW t \in Slots, a[s] # NoItem, a[t] = NoItem \/ s = t
    PROVE  RunChange(a, Statements(MoveItem(s, t))) = IF s = t THEN a ELSE [a EXCEPT ![t] = a[s], ![s] = NoItem]
<1>1. PICK c \in ChangeSet : c = MoveItem(s, t)
  BY ChangesAre
<1>2. c.op = "move" /\ c.at = s /\ c.to = t
  BY <1>1 DEF MoveItem, Change
<1>3. PICK st : st = Statement(c.op, c.at, c.to, c.ref, c.now)
  OBVIOUS
<1>4. st.q = "move" /\ st.from = s /\ st.to = t
  BY <1>2, <1>3 DEF Statement
<1>5. ~Fails(a, st)
  BY <1>4 DEF Fails
<1>6. RunChange(a, Statements(c)) = Execute(a, st)
  BY <1>2, <1>3, <1>5, OneStatement
<1>7. QED
  BY <1>1, <1>4, <1>6 DEF Execute

\* What moving a row does.
LEMMA RowMoves ==
    ASSUME NEW a, IsStore(a), NEW st \in AnyStatement, NEW from, NEW to, st.q = "move", st.from = from, st.to = to,
           from # to, a[from] # NoItem, NEW b, b = Execute(a, st)
    PROVE  IsStore(b) /\ \A r \in Rows : b[r] = IF r = from THEN NoItem ELSE IF r = to THEN a[from] ELSE a[r]
<1>1. IsStore(b)
  BY ExecuteIs
<1>2. \A r \in Rows : b[r] = IF a[st.from] = NoItem \/ st.from = st.to THEN a[r]
                             ELSE IF r = st.from THEN NoItem ELSE IF r = st.to THEN a[st.from] ELSE a[r]
  BY ExecuteIs
<1>3. QED
  BY <1>1, <1>2

\* What a swap does: the first row is parked, and arrives.
LEMMA SwapDoes ==
    ASSUME NEW a, IsStore(a), a[Temp] = NoItem, NEW s \in Slots, NEW t \in Slots, s # t, a[s] # NoItem, a[t] # NoItem
    PROVE  RunChange(a, Statements(Swap(s, t))) = [a EXCEPT ![t] = a[s], ![s] = a[t]]
<1>0. s \in Rows /\ t \in Rows /\ Temp \in Rows /\ s # Temp /\ t # Temp
  BY Basics
<1>1. PICK c \in ChangeSet : c = Swap(s, t)
  BY ChangesAre
<1>2. c.op = "swap" /\ c.at = s /\ c.to = t
  BY <1>1 DEF Swap, Change
<1>3. PICK ss \in Piece : /\ ss = Statements(c) /\ Len(ss) = 3 /\ ss[1] = Relocate(s, Temp)
                          /\ ss[2] = Relocate(t, s) /\ ss[3] = Relocate(Temp, t)
  BY <1>2, StatementsIs
<1>4. /\ ss[1] \in AnyStatement /\ ss[1].q = "move" /\ ss[1].from = s /\ ss[1].to = Temp
      /\ ss[2] \in AnyStatement /\ ss[2].q = "move" /\ ss[2].from = t /\ ss[2].to = s
      /\ ss[3] \in AnyStatement /\ ss[3].q = "move" /\ ss[3].from = Temp /\ ss[3].to = t
  <2>1. 1 \in 1..Len(ss) /\ 2 \in 1..Len(ss) /\ 3 \in 1..Len(ss)
    BY <1>3
  <2>2. ss[1] \in AnyStatement /\ ss[2] \in AnyStatement /\ ss[3] \in AnyStatement
    BY <2>1, PieceIs
  <2>3. QED
    BY <1>3, <2>2 DEF Relocate, Statement
<1>5. PICK x, y, z : x = Execute(a, ss[1]) /\ y = Execute(x, ss[2]) /\ z = Execute(y, ss[3])
  OBVIOUS
<1>6. IsStore(x) /\ \A r \in Rows : x[r] = IF r = s THEN NoItem ELSE IF r = Temp THEN a[s] ELSE a[r]
  BY <1>0, <1>4, <1>5, RowMoves
<1>7. IsStore(y) /\ \A r \in Rows : y[r] = IF r = t THEN NoItem ELSE IF r = s THEN a[t] ELSE IF r = Temp THEN a[s] ELSE a[r]
  <2>1. x[t] # NoItem
    BY <1>0, <1>6
  <2>2. IsStore(y) /\ \A r \in Rows : y[r] = IF r = t THEN NoItem ELSE IF r = s THEN x[t] ELSE x[r]
    BY <1>4, <1>5, <1>6, <2>1, RowMoves
  <2>3. QED
    BY <1>0, <1>6, <2>2
<1>8. IsStore(z) /\ \A r \in Rows : z[r] = IF r = t THEN a[s] ELSE IF r = s THEN a[t] ELSE a[r]
  <2>1. y[Temp] # NoItem
    BY <1>0, <1>7
  <2>2. IsStore(z) /\ \A r \in Rows : z[r] = IF r = Temp THEN NoItem ELSE IF r = t THEN y[Temp] ELSE y[r]
    BY <1>0, <1>4, <1>5, <1>7, <2>1, RowMoves
  <2>3. QED
    BY <1>0, <1>7, <2>2
<1>9. ~Fails(a, ss[1]) /\ ~Fails(x, ss[2]) /\ ~Fails(y, ss[3])
  BY <1>0, <1>4, <1>6, <1>7 DEF Fails
<1>10. RunChange(a, ss) = z
  BY <1>3, <1>5, <1>9 DEF RunChange
<1>11. PICK w : w = [a EXCEPT ![t] = a[s], ![s] = a[t]]
  OBVIOUS
<1>12. IsStore(w) /\ \A r \in Rows : w[r] = z[r]
  BY <1>0, <1>8, <1>11 DEF IsStore
<1>13. z = w
  BY <1>8, <1>12, StoresEqual
<1>14. QED
  BY <1>1, <1>3, <1>10, <1>11, <1>13

-----------------------------------------------------------------------------
(* The operations of the inventory record what they do.                    *)

Sound == items \in Store /\ items[Temp] = NoItem /\ changes \in Seq(ChangeSet)

\* A change that finds what it is about: a slot to add to is free, one to change
\* or to move from is not, and so on.
Possible(f, c) ==
    /\ f \in Store /\ f[Temp] = NoItem
    /\ \/ \E s \in Slots, i \in Item : c = AddItem(s, i) /\ f[s] = NoItem
       \/ \E s \in Slots, m \in Nat, n \in Nat : c = ChangeTypeData(s, m, n) /\ f[s] # NoItem
       \/ \E s, t \in Slots : c = MoveItem(s, t) /\ f[s] # NoItem /\ (f[t] = NoItem \/ s = t)
       \/ \E s \in Slots : c = RemoveItem(s)
       \/ \E s, t \in Slots : c = Swap(s, t) /\ s # t /\ f[s] # NoItem /\ f[t] # NoItem

\* So does every change of a log, when those before it are done.
AllPossible(f, log) == \A i \in 1..Len(log) : Possible(Replay(f, SubSeq(log, 1, i - 1)), log[i])

\* No element of a list.
LEMMA NonePrefix ==
    ASSUME NEW S, NEW s \in Seq(S)
    PROVE  SubSeq(s, 1, 0) = <<>>
  OBVIOUS

\* The first elements of a list.
LEMMA Prefix ==
    ASSUME NEW S, NEW s \in Seq(S), NEW m \in 0..Len(s)
    PROVE  /\ SubSeq(s, 1, m) \in Seq(S) /\ Len(SubSeq(s, 1, m)) = m
           /\ \A k \in 1..m : SubSeq(s, 1, m)[k] = s[k]
<1>1. m \in Nat /\ \A k \in 1..m : s[k] \in S
  OBVIOUS
<1>2. PICK x : x = SubSeq(s, 1, m)
  OBVIOUS
<1>3. x \in Seq(S) /\ (Len(x) = IF 1 <= m THEN m - 1 + 1 ELSE 0) /\ \A k \in 1..(m - 1 + 1) : x[k] = s[1 + k - 1]
  BY <1>1, <1>2, SubSeqProperties
<1>4. Len(x) = m
  BY <1>1, <1>3
<1>5. \A k \in 1..m : k \in 1..(m - 1 + 1) /\ 1 + k - 1 = k
  BY <1>1
<1>6. \A k \in 1..m : x[k] = s[k]
  BY <1>3, <1>5
<1>7. QED
  BY <1>2, <1>3, <1>4, <1>6

\* One element more of a list.
LEMMA Longer ==
    ASSUME NEW S, NEW s \in Seq(S), NEW i \in 1..Len(s)
    PROVE  SubSeq(s, 1, i - 1) \in Seq(S) /\ SubSeq(s, 1, i) = SubSeq(s, 1, i - 1) \o <<s[i]>>
<1>0. PICK n \in Nat : n = Len(s)
  OBVIOUS
<1>1. PICK j \in Nat : j = i - 1 /\ i = j + 1 /\ j \in 0..n /\ i \in 1..n
  BY <1>0
<1>1a. j \in 0..Len(s) /\ i \in 0..Len(s)
  BY <1>0, <1>1
<1>2. PICK x, y \in Seq(S) : x = SubSeq(s, 1, j) /\ y = SubSeq(s, 1, i)
  BY <1>1a, Prefix
<1>3. Len(x) = j /\ (\A k \in 1..j : x[k] = s[k]) /\ Len(y) = i /\ \A k \in 1..i : y[k] = s[k]
  BY <1>1a, <1>2, Prefix
<1>3a. PICK one \in Seq(S) : one = <<s[i]>> /\ Len(one) = 1 /\ one[1] = s[i]
  <2>1. PICK e \in S : e = s[i]
    OBVIOUS
  <2>2. <<e>> \in Seq(S) /\ Len(<<e>>) = 1 /\ <<e>>[1] = e
    OBVIOUS
  <2>3. QED
    BY <2>1, <2>2
<1>4. PICK z \in Seq(S) : z = x \o one
  BY ConcatProperties
<1>5. Len(z) = i /\ (\A k \in 1..j : z[k] = x[k]) /\ z[i] = s[i]
  <2>1. Len(z) = Len(x) + Len(one) /\ \A k \in 1..(Len(x) + Len(one)) : z[k] = IF k <= Len(x) THEN x[k] ELSE one[k - Len(x)]
    BY <1>4, ConcatProperties
  <2>2. \A k \in 1..j : k \in 1..(j + 1) /\ k <= j
    BY <1>1
  <2>3. i \in 1..(j + 1) /\ ~(i <= j) /\ i - j = 1
    BY <1>1
  <2>4. Len(x) = j /\ Len(one) = 1
    BY <1>3, <1>3a
  <2>5. QED
    BY <1>1, <1>3a, <2>1, <2>2, <2>3, <2>4
<1>6. \A k \in 1..i : k \in 1..j \/ k = i
  BY <1>1
<1>7. \A k \in 1..i : y[k] = z[k]
  BY <1>3, <1>5, <1>6
<1>8. y = z
  BY <1>3, <1>5, <1>7, SeqEqual
<1>9. QED
  BY <1>1, <1>2, <1>3a, <1>4, <1>8

\* Some changes are added to the log, all of them possible, and playing them back
\* gives the new items.
Told == \E new \in Seq(ChangeSet) :
           changes' = changes \o new /\ items' = Replay(items, new) /\ AllPossible(items, new)

\* An item in a slot.
LEMMA Holds ==
    ASSUME Sound, NEW s \in Slots, items[s] # NoItem
    PROVE  /\ s \in Rows /\ s # Temp /\ items[s] \in Item /\ items[s].amount \in Nat /\ items[s].ref \in Refs
           /\ MaxStack[items[s].ref] \in Nat /\ Left(s) \in Int /\ Left(s) = MaxStack[items[s].ref] - items[s].amount
           /\ \A n \in Nat : Put(s, n) \in Item /\ Put(s, n) = [items[s] EXCEPT !.amount = n]
<1>1. s \in Rows /\ s # Temp /\ items[s] \in Item
  BY Basics DEF Sound
<1>2. items[s].amount \in Nat /\ items[s].ref \in Refs
  BY <1>1, Basics
<1>3. MaxStack[items[s].ref] \in Nat
  BY <1>2, Basics
<1>4. Left(s) = MaxStack[items[s].ref] - items[s].amount /\ Left(s) \in Int
  BY <1>2, <1>3 DEF Left
<1>5. \A n \in Nat : Put(s, n) \in Item /\ Put(s, n) = [items[s] EXCEPT !.amount = n]
  BY <1>1, Basics DEF Put
<1>6. QED
  BY <1>1, <1>2, <1>3, <1>4, <1>5

\* One recorded change, or two, whose effect is that of the operation.
LEMMA Tells ==
    ASSUME Sound, NEW c \in ChangeSet, NEW d \in ChangeSet, Possible(items, c),
           \/ changes' = changes \o <<c>> /\ items' = RunChange(items, Statements(c))
           \/ /\ changes' = changes \o <<c, d>> /\ items' = RunChange(RunChange(items, Statements(c)), Statements(d))
              /\ Possible(RunChange(items, Statements(c)), d)
    PROVE  Told /\ changes' \in Seq(ChangeSet)
<1>1. <<c>> \in Seq(ChangeSet) /\ <<c, d>> \in Seq(ChangeSet)
  OBVIOUS
<1>2. Replay(items, <<c>>) = RunChange(items, Statements(c))
  BY ReplayFew
<1>3. Replay(items, <<c, d>>) = RunChange(RunChange(items, Statements(c)), Statements(d))
  BY ReplayFew, ZenonT(30)
<1>3a. AllPossible(items, <<c>>)
  <2>1. PICK one \in Seq(ChangeSet) : one = <<c>>
    BY <1>1
  <2>2. Len(one) = 1 /\ one[1] = c /\ SubSeq(one, 1, 0) = <<>>
    BY <2>1
  <2>3. Possible(Replay(items, SubSeq(one, 1, 0)), one[1])
    BY <2>2, ReplayFew
  <2>4. \A i \in 1..Len(one) : i = 1 /\ i - 1 = 0
    BY <2>2
  <2>5. \A i \in 1..Len(one) : Possible(Replay(items, SubSeq(one, 1, i - 1)), one[i])
    BY <2>3, <2>4
  <2>6. QED
    BY <2>1, <2>5 DEF AllPossible
<1>3b. ASSUME Possible(RunChange(items, Statements(c)), d) PROVE AllPossible(items, <<c, d>>)
  <2>1. PICK two \in Seq(ChangeSet) : two = <<c, d>>
    BY <1>1
  <2>2. Len(two) = 2 /\ two[1] = c /\ two[2] = d /\ SubSeq(two, 1, 0) = <<>> /\ SubSeq(two, 1, 1) = <<c>>
    <3>1. Len(two) = 2 /\ two[1] = c /\ two[2] = d
      BY <2>1
    <3>2. 0 \in 0..Len(two) /\ 1 \in 1..Len(two) /\ 1 - 1 = 0
      BY <3>1
    <3>3. SubSeq(two, 1, 0) = <<>>
      BY <3>2, NonePrefix
    <3>4. SubSeq(two, 1, 1) = SubSeq(two, 1, 0) \o <<two[1]>>
      BY <3>2, Longer, Zenon
    <3>5. <<>> \o <<c>> = <<c>>
      OBVIOUS
    <3>6. QED
      BY <3>1, <3>3, <3>4, <3>5
  <2>3. Possible(Replay(items, SubSeq(two, 1, 0)), two[1])
    BY <2>2, ReplayFew
  <2>4. Possible(Replay(items, SubSeq(two, 1, 1)), two[2])
    BY <1>2, <1>3b, <2>2
  <2>5. \A i \in 1..Len(two) : (i = 1 /\ i - 1 = 0) \/ (i = 2 /\ i - 1 = 1)
    BY <2>2
  <2>6. \A i \in 1..Len(two) : Possible(Replay(items, SubSeq(two, 1, i - 1)), two[i])
    BY <2>3, <2>4, <2>5
  <2>7. QED
    BY <2>1, <2>6 DEF AllPossible
<1>4. \E new \in Seq(ChangeSet) : changes' = changes \o new /\ items' = Replay(items, new) /\ AllPossible(items, new)
  BY <1>1, <1>2, <1>3, <1>3a, <1>3b
<1>5. changes \in Seq(ChangeSet)
  BY DEF Sound
<1>6. changes' \in Seq(ChangeSet)
  BY <1>4, <1>5, ConcatProperties
<1>7. QED
  BY <1>4, <1>6 DEF Told

\* An item moved within the inventory.
LEMMA MoveToEmptySlotRecorded ==
    ASSUME Sound, NEW s \in Slots, NEW t \in Slots, items[s] # NoItem, MoveToEmptySlot(s, t)
    PROVE  Sound' /\ Told
<1>1. PICK c \in ChangeSet : c = MoveItem(s, t)
  BY ChangesAre
<1>2. items \in Store /\ items[Temp] = NoItem /\ IsStore(items)
  BY Basics DEF Sound
<1>3. /\ items[t] = NoItem \/ s = t
      /\ items' = IF s = t THEN items ELSE [items EXCEPT ![t] = items[s], ![s] = NoItem]
      /\ changes' = changes \o <<c>>
  BY <1>1 DEF MoveToEmptySlot, Record
<1>4. items' = RunChange(items, Statements(c))
  BY <1>1, <1>2, <1>3, MoveDoes
<1>4a. Possible(items, c)
  BY <1>1, <1>2, <1>3 DEF Possible
<1>5. Told /\ changes' \in Seq(ChangeSet)
  BY <1>1, <1>3, <1>4, <1>4a, Tells
<1>6. items' \in Store /\ items'[Temp] = NoItem
  <2>1. CASE s = t
    BY <1>2, <1>3, <2>1
  <2>2. CASE s # t
    <3>1. items[s] \in Item /\ items' = [items EXCEPT ![t] = items[s], ![s] = NoItem]
      BY <1>3, <2>2, Holds
    <3>2. PICK v, w \in Item \cup {NoItem} : v = items[s] /\ w = NoItem
      BY <3>1
    <3>3. items' = [items EXCEPT ![t] = v, ![s] = w]
      BY <3>1, <3>2
    <3>4. QED
      BY <1>2, <3>3, Basics DEF Store
  <2>3. QED
    BY <2>1, <2>2
<1>7. QED
  BY <1>5, <1>6 DEF Sound

\* Two items that change places.
LEMMA SwapItemsRecorded ==
    ASSUME Sound, NEW s \in Slots, NEW t \in Slots, items[s] # NoItem, SwapItems(s, t)
    PROVE  Sound' /\ Told
<1>1. PICK c \in ChangeSet : c = Swap(s, t)
  BY ChangesAre
<1>2. items \in Store /\ items[Temp] = NoItem /\ IsStore(items)
  BY Basics DEF Sound
<1>3. /\ s # t /\ items[t] # NoItem
      /\ items' = [items EXCEPT ![t] = items[s], ![s] = items[t]]
      /\ changes' = changes \o <<c>>
  BY <1>1 DEF SwapItems, Record
<1>4. items' = RunChange(items, Statements(c))
  BY <1>1, <1>2, <1>3, SwapDoes
<1>4a. Possible(items, c)
  BY <1>1, <1>2, <1>3 DEF Possible
<1>5. Told /\ changes' \in Seq(ChangeSet)
  BY <1>1, <1>3, <1>4, <1>4a, Tells
<1>6. items[s] \in Item /\ items[t] \in Item
  BY <1>3, Holds
<1>7. items' \in Store /\ items'[Temp] = NoItem
  <2>1. PICK v, w \in Item \cup {NoItem} : v = items[s] /\ w = items[t]
    BY <1>6
  <2>2. items' = [items EXCEPT ![t] = v, ![s] = w]
    BY <1>3, <2>1
  <2>3. QED
    BY <1>2, <2>2, Basics DEF Store
<1>8. QED
  BY <1>5, <1>7 DEF Sound

\* A stack put on another.
LEMMA StackAllRecorded ==
    ASSUME Sound, NEW s \in Slots, NEW t \in Slots, items[s] # NoItem, NEW amount \in Nat, StackAll(s, t, amount)
    PROVE  Sound' /\ Told
<1>1. s # t /\ items[t] # NoItem /\ items \in Store /\ items[Temp] = NoItem /\ IsStore(items)
  BY Basics DEF StackAll, Stacks, Sound
<1>2. PICK m, n \in Nat : m = items[t].amount /\ n = items[t].amount + amount
  <2>1. items[t].amount \in Nat
    BY <1>1, Holds
  <2>2. QED
    BY <2>1
<1>3. PICK v \in Item : v = Put(t, n) /\ v = [items[t] EXCEPT !.amount = n]
  BY <1>1, Holds
<1>4. PICK c, d \in ChangeSet : c = RemoveItem(s) /\ d = ChangeTypeData(t, m, n)
  BY ChangesAre
<1>5. items' = [items EXCEPT ![t] = v, ![s] = NoItem] /\ changes' = changes \o <<c, d>>
  BY <1>2, <1>3, <1>4, Zenon DEF StackAll, Record
<1>6. PICK mid : mid = [items EXCEPT ![s] = NoItem]
  OBVIOUS
<1>7. mid \in Store /\ mid[t] = items[t] /\ IsStore(mid)
  <2>1. mid \in Store /\ mid[t] = items[t]
    BY <1>1, <1>6, Basics DEF Store
  <2>2. QED
    BY <2>1, Basics
<1>8. RunChange(items, Statements(c)) = mid
  BY <1>1, <1>4, <1>6, RemoveDoes
<1>9. RunChange(mid, Statements(d)) = [mid EXCEPT ![t] = v]
  <2>1. RunChange(mid, Statements(d)) = [mid EXCEPT ![t] = [mid[t] EXCEPT !.amount = n]]
    BY <1>1, <1>4, <1>7, ChangeDoes
  <2>2. QED
    BY <1>3, <1>7, <2>1
<1>10. items' = [mid EXCEPT ![t] = v] /\ items' \in Store /\ items'[Temp] = NoItem
  <2>1. PICK x, y : x = [items EXCEPT ![t] = v, ![s] = NoItem] /\ y = [mid EXCEPT ![t] = v]
    OBVIOUS
  <2>2. /\ x \in Store /\ IsStore(x) /\ x[Temp] = NoItem
        /\ \A r \in Rows : x[r] = IF r = s THEN NoItem ELSE IF r = t THEN v ELSE items[r]
    BY <1>1, <2>1, Basics DEF Store
  <2>3. IsStore(y) /\ \A r \in Rows : y[r] = IF r = t THEN v ELSE mid[r]
    BY <1>7, <2>1, Basics DEF Store, IsStore
  <2>4. \A r \in Rows : mid[r] = IF r = s THEN NoItem ELSE items[r]
    BY <1>1, <1>6, Basics DEF Store
  <2>5. \A r \in Rows : x[r] = y[r]
    BY <1>1, <2>2, <2>3, <2>4
  <2>6. x = y
    BY <2>2, <2>3, <2>5, StoresEqual
  <2>7. QED
    BY <1>5, <2>1, <2>2, <2>6
<1>10a. Possible(items, c) /\ Possible(mid, d)
  <2>1. mid[Temp] = NoItem
    BY <1>1, <1>6, Basics DEF Store
  <2>2. QED
    BY <1>1, <1>4, <1>7, <2>1 DEF Possible
<1>11. Told /\ changes' \in Seq(ChangeSet)
  BY <1>5, <1>8, <1>9, <1>10, <1>10a, Tells
<1>12. QED
  BY <1>10, <1>11 DEF Sound

\* A part of a stack put on another.
LEMMA StackSomeRecorded ==
    ASSUME Sound, NEW s \in Slots, NEW t \in Slots, items[s] # NoItem, NEW amount \in Nat, StackSome(s, t, amount)
    PROVE  Sound' /\ Told
<1>1. s # t /\ items[t] # NoItem /\ items \in Store /\ items[Temp] = NoItem /\ IsStore(items)
  BY Basics DEF StackSome, Stacks, Sound
<1>2. PICK m, n \in Nat : m = items[t].amount /\ n = MaxStack[items[t].ref]
  BY <1>1, Holds
<1>3. PICK k, l \in Nat : k = items[s].amount /\ l = items[s].amount - Left(t)
  <2>1. items[s].amount \in Nat /\ Left(t) \in Int /\ Left(t) <= items[s].amount
    BY <1>1, Holds DEF StackSome
  <2>2. QED
    BY <2>1
<1>4. PICK v, w \in Item : v = Put(t, n) /\ v = [items[t] EXCEPT !.amount = n] /\ w = Put(s, l) /\ w = [items[s] EXCEPT !.amount = l]
  BY <1>1, Holds
<1>5. PICK c, d \in ChangeSet : c = ChangeTypeData(t, m, n) /\ d = ChangeTypeData(s, k, l)
  BY ChangesAre
<1>6. items' = [items EXCEPT ![t] = v, ![s] = w] /\ changes' = changes \o <<c, d>>
  BY <1>2, <1>3, <1>4, <1>5, Zenon DEF StackSome, Record
<1>7. PICK mid : mid = [items EXCEPT ![t] = v]
  OBVIOUS
<1>8. mid \in Store /\ mid[s] = items[s] /\ IsStore(mid)
  <2>1. mid \in Store /\ mid[s] = items[s]
    BY <1>1, <1>7, Basics DEF Store
  <2>2. QED
    BY <2>1, Basics
<1>9. RunChange(items, Statements(c)) = mid
  BY <1>1, <1>4, <1>5, <1>7, ChangeDoes
<1>10. RunChange(mid, Statements(d)) = [mid EXCEPT ![s] = w]
  <2>1. RunChange(mid, Statements(d)) = [mid EXCEPT ![s] = [mid[s] EXCEPT !.amount = l]]
    BY <1>1, <1>5, <1>8, ChangeDoes
  <2>2. QED
    BY <1>4, <1>8, <2>1
<1>11. items' = [mid EXCEPT ![s] = w] /\ items' \in Store /\ items'[Temp] = NoItem
  <2>1. items' = [mid EXCEPT ![s] = w]
    BY <1>6, <1>7, Zenon
  <2>2. items' \in Store /\ items'[Temp] = NoItem
    BY <1>1, <1>6, Basics DEF Store
  <2>3. QED
    BY <2>1, <2>2
<1>11a. Possible(items, c) /\ Possible(mid, d)
  <2>1. mid[Temp] = NoItem
    BY <1>1, <1>7, Basics DEF Store
  <2>2. QED
    BY <1>1, <1>5, <1>8, <2>1 DEF Possible
<1>12. Told /\ changes' \in Seq(ChangeSet)
  BY <1>6, <1>9, <1>10, <1>11, <1>11a, Tells
<1>13. QED
  BY <1>11, <1>12 DEF Sound

\* The failed stacking leaves a sound inventory.
LEMMA StackFailsSound ==
    ASSUME Sound, NEW s \in Slots, NEW t \in Slots, items[s] # NoItem, NEW amount \in Nat, StackFails(s, t, amount)
    PROVE  Sound' /\ unrecorded' = TRUE
<1>1. s # t /\ items[t] # NoItem /\ items \in Store /\ items[Temp] = NoItem /\ changes \in Seq(ChangeSet)
  BY DEF StackFails, Stacks, Sound
<1>2. PICK m, n \in Nat : m = items[t].amount /\ n = MaxStack[items[t].ref]
  BY <1>1, Holds
<1>3. PICK c \in ChangeSet : c = ChangeTypeData(t, m, n)
  BY ChangesAre
<1>4. items' = [items EXCEPT ![t] = NoItem, ![s] = NoItem] /\ changes' = changes \o <<c>> /\ unrecorded' = TRUE
  BY <1>2, <1>3, Zenon DEF StackFails, Record
<1>5. <<c>> \in Seq(ChangeSet)
  OBVIOUS
<1>6. changes' \in Seq(ChangeSet)
  BY <1>1, <1>4, <1>5, ConcatProperties
<1>7. items' \in Store /\ items'[Temp] = NoItem
  BY <1>1, <1>4, Basics DEF Store
<1>8. QED
  BY <1>4, <1>6, <1>7 DEF Sound

\* The first free slot is one.
LEMMA FirstFree ==
    ASSUME Free # {}
    PROVE  Min(Free) \in Free /\ Min(Free) \in Slots /\ items[Min(Free)] = NoItem
<1>0. \A s \in Slots : s \in Nat
  BY InventoryAssumption
<1>1. Free \subseteq Nat /\ Free \subseteq Slots
  BY <1>0 DEF Free, Bag
<1>2. \E x \in Free : \A y \in Free : x <= y
  BY <1>1, Least
<1>3. Min(Free) \in Free
  BY <1>2 DEF Min
<1>4. QED
  BY <1>1, <1>3 DEF Free

\* A drop is an item.
LEMMA DropIs ==
    ASSUME NEW item \in Drops
    PROVE  item \in Item /\ item.amount \in Nat /\ item.amount > 0 /\ item.ref \in Refs /\ item.amount <= MaxStack[item.ref]
<1>1. item \in [ref : Refs, amount : Amounts \ {0}] /\ item.amount <= MaxStack[item.ref]
  BY DEF Drops
<1>2. \A n \in Amounts : n \in Nat
  BY InventoryAssumption
<1>3. QED
  BY <1>1, <1>2 DEF Item

\* An open stack is an item.
LEMMA OpenIs ==
    ASSUME Sound, NEW ref \in Refs, NEW s \in OpenStacks(ref)
    PROVE  s \in Slots /\ items[s] # NoItem /\ items[s].ref = ref /\ Left(s) > 0
<1>1. s \in Slots /\ items[s].ref = ref /\ Left(s) > 0
  BY DEF OpenStacks, Matching
<1>2. NoItem.ref = Empty /\ Empty \notin Refs
  BY InventoryAssumption DEF NoItem
<1>3. QED
  BY <1>1, <1>2

\* A drop added to a stack.
LEMMA AddToStackRecorded ==
    ASSUME Sound, NEW item \in Drops, NEW s \in Slots, AddToStack(item, s)
    PROVE  Sound' /\ Told
<1>0. item.ref \in Refs /\ item.amount \in Nat
  BY DropIs
<1>1. items[s] # NoItem /\ items \in Store /\ items[Temp] = NoItem /\ IsStore(items)
  BY <1>0, OpenIs, Basics DEF AddToStack, Sound
<1>2. PICK m, n \in Nat : m = items[s].amount /\ n = items[s].amount + item.amount
  <2>1. items[s].amount \in Nat
    BY <1>1, Holds
  <2>2. QED
    BY <1>0, <2>1
<1>3. PICK v \in Item : v = Put(s, n) /\ v = [items[s] EXCEPT !.amount = n]
  BY <1>1, Holds
<1>4. PICK c \in ChangeSet : c = ChangeTypeData(s, m, n)
  BY ChangesAre
<1>5. items' = [items EXCEPT ![s] = v] /\ changes' = changes \o <<c>>
  BY <1>2, <1>3, <1>4, Zenon DEF AddToStack, Record
<1>6. RunChange(items, Statements(c)) = [items EXCEPT ![s] = v]
  BY <1>1, <1>3, <1>4, ChangeDoes
<1>7. items' \in Store /\ items'[Temp] = NoItem
  BY <1>1, <1>5, Basics DEF Store
<1>7a. Possible(items, c)
  BY <1>1, <1>4 DEF Possible
<1>8. Told /\ changes' \in Seq(ChangeSet)
  BY <1>5, <1>6, <1>7a, Tells
<1>9. QED
  BY <1>7, <1>8 DEF Sound

\* A drop that fills a stack.
LEMMA OverflowStackRecorded ==
    ASSUME Sound, NEW item \in Drops, NEW s \in Slots, OverflowStack(item, s)
    PROVE  Sound' /\ Told
<1>0. item \in Item /\ item.ref \in Refs /\ item.amount \in Nat
  BY DropIs
<1>1. items[s] # NoItem /\ items \in Store /\ items[Temp] = NoItem /\ IsStore(items)
  BY <1>0, OpenIs, Basics DEF OverflowStack, Sound
<1>2. PICK m, n, l \in Nat : m = items[s].amount /\ n = MaxStack[item.ref] /\ l = item.amount - Left(s)
  <2>1. items[s].amount \in Nat /\ MaxStack[item.ref] \in Nat
    BY <1>0, <1>1, Holds, Basics
  <2>2. Left(s) \in Int /\ item.amount > Left(s)
    BY <1>1, Holds DEF OverflowStack
  <2>3. QED
    BY <1>0, <2>1, <2>2
<1>3. PICK v \in Item : v = Put(s, n) /\ v = [items[s] EXCEPT !.amount = n]
  BY <1>1, Holds
<1>4. v.amount = n
  BY <1>1, <1>3, Holds DEF Item
<1>5. PICK rest \in Item : rest = [item EXCEPT !.amount = l]
  BY <1>0, Basics
<1>6. PICK c \in ChangeSet : c = ChangeTypeData(s, m, n)
  BY ChangesAre
<1>7. RunChange(items, Statements(c)) = [items EXCEPT ![s] = v]
  BY <1>1, <1>3, <1>6, ChangeDoes
<1>7a. Possible(items, c)
  BY <1>1, <1>6 DEF Possible
<1>8. CASE Free = {}
  <2>1. items' = [items EXCEPT ![s] = v] /\ changes' = changes \o <<c>>
    BY <1>2, <1>3, <1>4, <1>6, <1>8, Zenon DEF OverflowStack, Record
  <2>2. items' \in Store /\ items'[Temp] = NoItem
    BY <1>1, <2>1, Basics DEF Store
  <2>3. Told /\ changes' \in Seq(ChangeSet)
    BY <1>7, <1>7a, <2>1, Tells
  <2>4. QED
    BY <2>2, <2>3 DEF Sound
<1>9. CASE Free # {}
  <2>1. PICK f \in Slots : f = Min(Free) /\ items[f] = NoItem
    BY <1>9, FirstFree
  <2>2. f # s
    BY <1>1, <2>1
  <2>3. PICK d \in ChangeSet : d = AddItem(f, rest)
    BY ChangesAre
  <2>4. items' = [items EXCEPT ![s] = v, ![f] = rest] /\ changes' = changes \o <<c, d>>
    BY <1>2, <1>3, <1>4, <1>5, <1>6, <1>9, <2>1, <2>3, Zenon DEF OverflowStack, Record
  <2>5. PICK mid : mid = [items EXCEPT ![s] = v]
    OBVIOUS
  <2>6. mid \in Store /\ IsStore(mid)
    BY <1>1, <2>5, Basics DEF Store, IsStore
  <2>7. RunChange(mid, Statements(d)) = [mid EXCEPT ![f] = rest]
    BY <2>3, <2>6, AddDoes
  <2>8. items' = [mid EXCEPT ![f] = rest]
    BY <2>4, <2>5, Zenon
  <2>9. items' \in Store /\ items'[Temp] = NoItem
    BY <1>1, <2>4, Basics DEF Store
  <2>9a. Possible(mid, d)
    <3>1. mid[Temp] = NoItem /\ mid[f] = NoItem
      BY <1>1, <2>1, <2>2, <2>5, Basics DEF Store
    <3>2. QED
      BY <2>3, <2>6, <3>1 DEF Possible
  <2>10. Told /\ changes' \in Seq(ChangeSet)
    BY <1>7, <1>7a, <2>4, <2>5, <2>7, <2>8, <2>9a, Tells, ZenonT(30)
  <2>11. QED
    BY <2>9, <2>10 DEF Sound
<1>10. QED
  BY <1>8, <1>9

\* A drop in a slot of its own.
LEMMA AddToFreeSlotRecorded ==
    ASSUME Sound, NEW item \in Drops, AddToFreeSlot(item)
    PROVE  Sound' /\ Told
<1>1. item \in Item /\ items \in Store /\ items[Temp] = NoItem /\ IsStore(items)
  BY DropIs, Basics DEF Sound
<1>2. PICK f \in Slots : f = Min(Free) /\ items[f] = NoItem
  BY FirstFree DEF AddToFreeSlot
<1>3. PICK c \in ChangeSet : c = AddItem(f, item)
  BY <1>1, ChangesAre
<1>4. items' = [items EXCEPT ![f] = item] /\ changes' = changes \o <<c>>
  BY <1>2, <1>3, Zenon DEF AddToFreeSlot, Record
<1>5. RunChange(items, Statements(c)) = [items EXCEPT ![f] = item]
  BY <1>1, <1>3, AddDoes
<1>6. items' \in Store /\ items'[Temp] = NoItem
  BY <1>1, <1>4, Basics DEF Store
<1>6a. Possible(items, c)
  BY <1>1, <1>2, <1>3 DEF Possible
<1>7. Told /\ changes' \in Seq(ChangeSet)
  BY <1>4, <1>5, <1>6a, Tells
<1>8. QED
  BY <1>6, <1>7 DEF Sound

\* Every move: what it is.
LEMMA MovesAre ==
    ASSUME Moves
    PROVE  \E s, t \in Slots, amount \in Nat \ {0} : move_item(s, t, amount)
<1>1. \A n \in Amounts : AtLeastOne(n) \in Nat \ {0}
  BY InventoryAssumption DEF AtLeastOne
<1>2. 1 \in Nat \ {0}
  OBVIOUS
<1>3. PICK s, t \in Slots : \/ Equip(s, t) \/ \E amount \in Amounts : Unequip(s, t, amount)
                            \/ \E amount \in Amounts : MoveInBag(s, t, amount)
  BY DEF Moves
<1>4. CASE Equip(s, t)
  BY <1>2, <1>4 DEF Equip
<1>5. CASE \E amount \in Amounts : Unequip(s, t, amount)
  BY <1>1, <1>5 DEF Unequip
<1>6. CASE \E amount \in Amounts : MoveInBag(s, t, amount)
  BY <1>1, <1>6 DEF MoveInBag
<1>7. QED
  BY <1>3, <1>4, <1>5, <1>6

\* An operation of the inventory records what it does, or is the one that fails.
LEMMA Recorded ==
    ASSUME Sound, Moves \/ Pickups
    PROVE  Sound' /\ base' = base /\ ((Told /\ unrecorded' = unrecorded) \/ unrecorded' = TRUE)
<1>1. CASE Moves
  <2>1. PICK s, t \in Slots, amount \in Nat \ {0} : move_item(s, t, amount)
    BY <1>1, MovesAre
  <2>2. items[s] # NoItem /\ base' = base
    BY <2>1 DEF move_item
  <2>3. CASE MoveToEmptySlot(s, t)
    BY <2>2, <2>3, MoveToEmptySlotRecorded DEF MoveToEmptySlot
  <2>4. CASE StackAll(s, t, amount)
    BY <2>2, <2>4, StackAllRecorded DEF StackAll
  <2>5. CASE StackSome(s, t, amount)
    BY <2>2, <2>5, StackSomeRecorded DEF StackSome
  <2>6. CASE StackFails(s, t, amount)
    BY <2>2, <2>6, StackFailsSound
  <2>7. CASE SwapItems(s, t)
    BY <2>2, <2>7, SwapItemsRecorded DEF SwapItems
  <2>8. QED
    BY <2>1, <2>3, <2>4, <2>5, <2>6, <2>7 DEF move_item
<1>2. CASE Pickups
  <2>1. PICK item \in Drops : add_item(item)
    BY <1>2 DEF Pickups
  <2>2. base' = base /\ unrecorded' = unrecorded
    BY <2>1 DEF add_item
  <2>3. CASE \E s \in Slots : AddToStack(item, s)
    BY <2>2, <2>3, AddToStackRecorded
  <2>4. CASE \E s \in Slots : OverflowStack(item, s)
    BY <2>2, <2>4, OverflowStackRecorded
  <2>5. CASE AddToFreeSlot(item)
    BY <2>2, <2>5, AddToFreeSlotRecorded
  <2>6. QED
    BY <2>1, <2>3, <2>4, <2>5 DEF add_item
<1>3. QED
  BY <1>1, <1>2

-----------------------------------------------------------------------------
(* The inventory by itself: stacks and the log.                            *)

Open(f, s) == f[s] # NoItem /\ f[s].amount < MaxStack[f[s].ref]

\* No stack is too large, and what cannot be stacked is one.
Filled(f) == \A s \in Slots : f[s] # NoItem =>
                /\ f[s].amount <= MaxStack[f[s].ref]
                /\ MaxStack[f[s].ref] = 1 => f[s].amount = 1

\* Two open stacks are of different items.
Lone(f) == \A s, t \in Slots : Open(f, s) /\ Open(f, t) /\ f[s].ref = f[t].ref => s = t

Tidy(f) == f \in Store /\ Filled(f) /\ Lone(f)

\* The open stacks, as the code finds them.
LEMMA OpenStacksAre ==
    ASSUME Sound, NEW s \in Slots, NEW ref \in Refs
    PROVE  s \in OpenStacks(ref) <=> Open(items, s) /\ items[s].ref = ref
<1>1. s \in OpenStacks(ref) <=> items[s].ref = ref /\ Left(s) > 0
  BY DEF OpenStacks, Matching
<1>2. NoItem.ref # ref
  BY InventoryAssumption DEF NoItem
<1>3. CASE items[s] # NoItem
  <2>1. items[s].amount \in Nat /\ MaxStack[items[s].ref] \in Nat /\ Left(s) = MaxStack[items[s].ref] - items[s].amount
    BY <1>3, Holds
  <2>2. Left(s) > 0 <=> items[s].amount < MaxStack[items[s].ref]
    BY <2>1
  <2>3. QED
    BY <1>1, <1>3, <2>2 DEF Open
<1>4. CASE items[s] = NoItem
  BY <1>1, <1>2, <1>4 DEF Open
<1>5. QED
  BY <1>3, <1>4

\* OneOpenStack, as a property of the items.
LEMMA LoneIs == ASSUME Sound PROVE OneOpenStack <=> Lone(items)
<1>1. ASSUME Lone(items) PROVE OneOpenStack
  <2>1. \A ref \in Refs : \A s \in OpenStacks(ref) : s \in Slots
    BY OpenIs
  <2>2. QED
    BY <1>1, <2>1, OpenStacksAre DEF OneOpenStack, Lone
<1>2. ASSUME OneOpenStack PROVE Lone(items)
  <2>1. ASSUME NEW s \in Slots, NEW t \in Slots, Open(items, s), Open(items, t), items[s].ref = items[t].ref PROVE s = t
    <3>1. items[s].ref \in Refs
      BY <2>1, Holds DEF Open
    <3>2. s \in OpenStacks(items[s].ref) /\ t \in OpenStacks(items[s].ref)
      BY <2>1, <3>1, OpenStacksAre
    <3>3. QED
      BY <1>2, <3>1, <3>2 DEF OneOpenStack
  <2>2. QED
    BY <2>1 DEF Lone
<1>3. QED
  BY <1>1, <1>2

\* Items that change places, or move.
LEMMA TidySwap ==
    ASSUME NEW f, Tidy(f), NEW g \in Store, NEW s \in Slots, NEW t \in Slots, g[s] = f[t], g[t] = f[s],
           \A r \in Slots \ {s, t} : g[r] = f[r]
    PROVE  Tidy(g)
<1>1. Filled(g)
  BY DEF Tidy, Filled
<1>2. ASSUME NEW x \in Slots, NEW y \in Slots, Open(g, x), Open(g, y), g[x].ref = g[y].ref PROVE x = y
  <2>1. PICK a, b \in Slots : /\ a = IF x = s THEN t ELSE IF x = t THEN s ELSE x
                              /\ b = IF y = s THEN t ELSE IF y = t THEN s ELSE y
    OBVIOUS
  <2>2. g[x] = f[a] /\ g[y] = f[b]
    BY <2>1
  <2>3. a = b
    BY <1>2, <2>2 DEF Tidy, Lone, Open
  <2>4. QED
    BY <2>1, <2>3
<1>3. QED
  BY <1>1, <1>2 DEF Tidy, Lone

\* An item that goes.
LEMMA TidyGone ==
    ASSUME NEW f, Tidy(f), NEW g \in Store, NEW s \in Slots, g[s] = NoItem, \A r \in Slots \ {s} : g[r] = f[r]
    PROVE  Tidy(g)
<1>1. Filled(g)
  BY DEF Tidy, Filled
<1>2. ASSUME NEW x \in Slots, NEW y \in Slots, Open(g, x), Open(g, y), g[x].ref = g[y].ref PROVE x = y
  <2>1. x # s /\ y # s
    BY <1>2 DEF Open
  <2>2. g[x] = f[x] /\ g[y] = f[y]
    BY <2>1
  <2>3. QED
    BY <1>2, <2>2 DEF Tidy, Lone, Open
<1>3. QED
  BY <1>1, <1>2 DEF Tidy, Lone

\* A stack that is new or has another amount.
LEMMA TidyPut ==
    ASSUME NEW f, Tidy(f), NEW g \in Store, NEW s \in Slots, NEW v, g[s] = v, \A r \in Slots \ {s} : g[r] = f[r],
           v.amount <= MaxStack[v.ref], MaxStack[v.ref] = 1 => v.amount = 1,
           v.amount < MaxStack[v.ref] => \A r \in Slots \ {s} : Open(f, r) => f[r].ref # v.ref
    PROVE  Tidy(g)
<1>1. Filled(g)
  BY DEF Tidy, Filled
<1>2. ASSUME NEW x \in Slots, NEW y \in Slots, Open(g, x), Open(g, y), g[x].ref = g[y].ref PROVE x = y
  <2>1. CASE x # s /\ y # s
    <3>1. g[x] = f[x] /\ g[y] = f[y]
      BY <2>1
    <3>2. QED
      BY <1>2, <3>1 DEF Tidy, Lone, Open
  <2>2. CASE x = s /\ y # s
    BY <1>2, <2>2 DEF Open
  <2>3. CASE x # s /\ y = s
    BY <1>2, <2>3 DEF Open
  <2>4. QED
    BY <2>1, <2>2, <2>3
<1>3. QED
  BY <1>1, <1>2 DEF Tidy, Lone

\* Moves and swaps keep the stacks tidy.
LEMMA SwapTidy ==
    ASSUME Sound, Sound', Tidy(items), NEW s \in Slots, NEW t \in Slots, MoveToEmptySlot(s, t) \/ SwapItems(s, t)
    PROVE  Tidy(items')
<1>1. PICK f, g \in Store : f = items /\ g = items'
  BY DEF Sound
<1>2. s \in Rows /\ t \in Rows /\ Slots \subseteq Rows
  BY Basics
<1>3. g = f \/ (s # t /\ g = [f EXCEPT ![t] = f[s], ![s] = f[t]])
  BY <1>1, Zenon DEF MoveToEmptySlot, SwapItems
<1>4. CASE s # t /\ g = [f EXCEPT ![t] = f[s], ![s] = f[t]]
  <2>1. g[s] = f[t] /\ g[t] = f[s] /\ \A r \in Slots \ {s, t} : g[r] = f[r]
    BY <1>2, <1>4 DEF Store
  <2>2. QED
    BY <1>1, <2>1, TidySwap
<1>5. QED
  BY <1>1, <1>3, <1>4

\* So does putting a stack on another.
LEMMA StackAllTidy ==
    ASSUME Sound, Sound', Tidy(items), NEW s \in Slots, NEW t \in Slots, items[s] # NoItem,
           NEW amount \in Nat \ {0}, StackAll(s, t, amount)
    PROVE  Tidy(items')
<1>1. PICK f, g \in Store : f = items /\ g = items'
  BY DEF Sound
<1>2. s \in Rows /\ t \in Rows /\ Slots \subseteq Rows
  BY Basics
<1>3. /\ s # t /\ f[t] # NoItem /\ f[t] \in Item /\ f[t].ref \in Refs /\ f[t].amount \in Nat /\ MaxStack[f[t].ref] \in Nat
      /\ f[t].amount < MaxStack[f[t].ref] /\ f[t].amount + amount <= MaxStack[f[t].ref]
  <2>1. s # t /\ items[t] # NoItem /\ Left(t) > 0 /\ Left(t) >= amount
    BY DEF StackAll, Stacks
  <2>2. QED
    BY <1>1, <2>1, Holds
<1>4. PICK n, max \in Nat, ref \in Refs : n = f[t].amount + amount /\ ref = f[t].ref /\ max = MaxStack[ref]
  <2>1. PICK k \in Nat : k = f[t].amount
    BY <1>3
  <2>2. k + amount \in Nat
    OBVIOUS
  <2>3. QED
    BY <1>3, <2>1, <2>2
<1>5. PICK v \in Item : v = [f[t] EXCEPT !.amount = n]
  BY <1>3, Basics
<1>6. v.amount = n /\ v.ref = ref
  BY <1>3, <1>4, <1>5 DEF Item
<1>7. g = [f EXCEPT ![t] = v, ![s] = NoItem]
  BY <1>1, <1>4, <1>5, Zenon DEF StackAll, Put
<1>8. PICK h \in Store : h = [f EXCEPT ![s] = NoItem]
  BY <1>2 DEF Store
<1>9. h[s] = NoItem /\ \A r \in Slots \ {s} : h[r] = f[r]
  BY <1>2, <1>8 DEF Store
<1>10. Tidy(h)
  BY <1>1, <1>9, TidyGone
<1>11. g[t] = v /\ \A r \in Slots \ {t} : g[r] = h[r]
  BY <1>2, <1>3, <1>7, <1>8 DEF Store
<1>12. \A r \in Slots \ {t} : Open(h, r) => h[r].ref # v.ref
  <2>1. Open(f, t) /\ f[t].ref = ref
    BY <1>3, <1>4 DEF Open
  <2>2. ASSUME NEW r \in Slots \ {t}, Open(h, r) PROVE h[r].ref # v.ref
    <3>1. r # s /\ h[r] = f[r]
      BY <1>9, <2>2 DEF Open
    <3>2. Open(f, r)
      BY <2>2, <3>1 DEF Open
    <3>3. QED
      BY <1>1, <1>6, <2>1, <3>1, <3>2 DEF Tidy, Lone
  <2>3. QED
    BY <2>2
<1>13. v.amount <= MaxStack[v.ref] /\ (MaxStack[v.ref] = 1 => v.amount = 1)
  <2>1. n <= max /\ n > 0
    BY <1>3, <1>4
  <2>2. QED
    BY <1>4, <1>6, <2>1
<1>14. QED
  BY <1>1, <1>10, <1>11, <1>12, <1>13, TidyPut

\* And putting a part of it there.
LEMMA StackSomeTidy ==
    ASSUME Sound, Sound', Tidy(items), NEW s \in Slots, NEW t \in Slots, items[s] # NoItem,
           NEW amount \in Nat \ {0}, StackSome(s, t, amount)
    PROVE  Tidy(items')
<1>1. PICK f, g \in Store : f = items /\ g = items'
  BY DEF Sound
<1>2. s \in Rows /\ t \in Rows /\ Slots \subseteq Rows
  BY Basics
<1>3. /\ s # t /\ f[t] # NoItem /\ f[t] \in Item /\ f[t].ref \in Refs /\ f[t].amount \in Nat /\ MaxStack[f[t].ref] \in Nat
      /\ f[s] \in Item /\ f[s].amount \in Nat /\ f[s].ref = f[t].ref /\ MaxStack[f[t].ref] > 1
      /\ f[t].amount < MaxStack[f[t].ref] /\ Left(t) \in Int /\ Left(t) > 0 /\ Left(t) <= f[s].amount
  <2>1. /\ s # t /\ items[t] # NoItem /\ Left(t) > 0 /\ Left(t) <= items[s].amount
        /\ items[s].ref = items[t].ref /\ MaxStack[items[s].ref] > 1
    BY DEF StackSome, Stacks, Stackable
  <2>2. QED
    BY <1>1, <2>1, Holds
<1>4. PICK l, max \in Nat, ref \in Refs : l = f[s].amount - Left(t) /\ ref = f[t].ref /\ max = MaxStack[ref]
  BY <1>3
<1>5. PICK v, w \in Item : v = [f[t] EXCEPT !.amount = max] /\ w = [f[s] EXCEPT !.amount = l]
  BY <1>3, Basics
<1>6. v.amount = max /\ v.ref = ref /\ w.amount = l /\ w.ref = ref
  BY <1>3, <1>4, <1>5 DEF Item
<1>7. g = [f EXCEPT ![t] = v, ![s] = w]
  BY <1>1, <1>4, <1>5, Zenon DEF StackSome, Put
<1>8. PICK h \in Store : h = [f EXCEPT ![t] = v]
  BY <1>2 DEF Store
<1>9. h[t] = v /\ \A r \in Slots \ {t} : h[r] = f[r]
  BY <1>2, <1>8 DEF Store
<1>10. Tidy(h)
  <2>1. v.amount <= MaxStack[v.ref] /\ (MaxStack[v.ref] = 1 => v.amount = 1) /\ ~(v.amount < MaxStack[v.ref])
    BY <1>4, <1>6
  <2>2. QED
    BY <1>1, <1>9, <2>1, TidyPut
<1>11. g[s] = w /\ \A r \in Slots \ {s} : g[r] = h[r]
  BY <1>2, <1>3, <1>7, <1>8 DEF Store
<1>12. \A r \in Slots \ {s} : Open(h, r) => h[r].ref # w.ref
  <2>1. Open(f, t) /\ f[t].ref = ref
    BY <1>3, <1>4 DEF Open
  <2>2. ASSUME NEW r \in Slots \ {s}, Open(h, r) PROVE h[r].ref # w.ref
    <3>1. r # t
      BY <1>4, <1>6, <1>9, <2>2 DEF Open
    <3>2. h[r] = f[r]
      BY <1>9, <3>1
    <3>3. Open(f, r)
      BY <2>2, <3>2 DEF Open
    <3>4. QED
      BY <1>1, <1>6, <2>1, <3>1, <3>2, <3>3 DEF Tidy, Lone
  <2>3. QED
    BY <2>2
<1>13. w.amount <= MaxStack[w.ref] /\ (MaxStack[w.ref] = 1 => w.amount = 1)
  <2>1. f[s] # NoItem /\ f[s].amount <= MaxStack[f[s].ref]
    BY <1>1 DEF Tidy, Filled
  <2>2. l <= max /\ max # 1
    BY <1>3, <1>4, <2>1
  <2>3. QED
    BY <1>4, <1>6, <2>2
<1>14. QED
  BY <1>1, <1>10, <1>11, <1>12, <1>13, TidyPut

\* With tidy stacks, stacking does not fail.
LEMMA NoFailure ==
    ASSUME Sound, Tidy(items), NEW s \in Slots, NEW t \in Slots, items[s] # NoItem,
           NEW amount \in Nat, StackFails(s, t, amount)
    PROVE  FALSE
<1>1. s # t /\ items[t] # NoItem /\ items[s].ref = items[t].ref /\ Left(t) > items[s].amount
  BY DEF StackFails, Stacks
<1>2. PICK ref \in Refs, m, n, max \in Nat :
        ref = items[t].ref /\ max = MaxStack[ref] /\ m = items[t].amount /\ n = items[s].amount
  BY <1>1, Holds
<1>3. max - m > n
  BY <1>1, <1>2, Holds
<1>4. m < max /\ n < max
  <2>1. m \in Nat /\ n \in Nat /\ max \in Nat
    BY <1>2
  <2>2. QED
    BY <1>3, <2>1
<1>5. Open(items, s) /\ Open(items, t)
  BY <1>1, <1>2, <1>4 DEF Open
<1>6. QED
  BY <1>1, <1>5 DEF Tidy, Lone

\* Picking up a drop keeps the stacks tidy.
LEMMA AddToStackTidy ==
    ASSUME Sound, Sound', Tidy(items), NEW item \in Drops, NEW s \in Slots, AddToStack(item, s)
    PROVE  Tidy(items')
<1>1. PICK f, g \in Store : f = items /\ g = items'
  BY DEF Sound
<1>2. s \in Rows /\ Slots \subseteq Rows
  BY Basics
<1>3. item.ref \in Refs /\ item.amount \in Nat /\ item.amount > 0
  BY DropIs
<1>4. /\ Open(f, s) /\ f[s].ref = item.ref /\ f[s] # NoItem /\ f[s] \in Item /\ f[s].amount \in Nat
      /\ MaxStack[item.ref] \in Nat /\ item.amount <= MaxStack[item.ref] - f[s].amount
  <2>1. Open(items, s) /\ items[s].ref = item.ref
    BY <1>3, OpenStacksAre DEF AddToStack
  <2>2. item.amount <= Left(s)
    BY DEF AddToStack
  <2>3. QED
    BY <1>1, <2>1, <2>2, Holds DEF Open
<1>5. PICK n, max \in Nat : n = f[s].amount + item.amount /\ max = MaxStack[item.ref]
  BY <1>3, <1>4
<1>6. PICK v \in Item : v = [f[s] EXCEPT !.amount = n]
  BY <1>4, <1>5, Basics
<1>7. v.amount = n /\ v.ref = item.ref
  BY <1>4, <1>6 DEF Item
<1>8. g = [f EXCEPT ![s] = v]
  BY <1>1, <1>5, <1>6, Zenon DEF AddToStack, Put
<1>9. g[s] = v /\ \A r \in Slots \ {s} : g[r] = f[r]
  BY <1>2, <1>8 DEF Store
<1>10. \A r \in Slots \ {s} : Open(f, r) => f[r].ref # v.ref
  BY <1>1, <1>4, <1>7 DEF Tidy, Lone
<1>11. v.amount <= MaxStack[v.ref] /\ (MaxStack[v.ref] = 1 => v.amount = 1)
  <2>1. n <= max /\ n > 0
    BY <1>3, <1>4, <1>5
  <2>2. QED
    BY <1>5, <1>7, <2>1
<1>12. QED
  BY <1>1, <1>9, <1>10, <1>11, TidyPut

\* Also when it fills a stack and opens another.
LEMMA OverflowStackTidy ==
    ASSUME Sound, Sound', Tidy(items), NEW item \in Drops, NEW s \in Slots, OverflowStack(item, s)
    PROVE  Tidy(items')
<1>1. PICK f, g \in Store : f = items /\ g = items'
  BY DEF Sound
<1>2. s \in Rows /\ Slots \subseteq Rows
  BY Basics
<1>3. item \in Item /\ item.ref \in Refs /\ item.amount \in Nat /\ item.amount > 0 /\ item.amount <= MaxStack[item.ref]
  BY DropIs
<1>4. /\ Open(f, s) /\ f[s].ref = item.ref /\ f[s] # NoItem /\ f[s] \in Item /\ Left(s) \in Int
      /\ MaxStack[item.ref] \in Nat /\ item.amount > Left(s) /\ Left(s) > 0
  <2>1. Open(items, s) /\ items[s].ref = item.ref
    BY <1>3, OpenStacksAre DEF OverflowStack
  <2>2. item.amount > Left(s) /\ Left(s) > 0
    BY DEF OverflowStack, OpenStacks
  <2>3. QED
    BY <1>1, <2>1, <2>2, Holds DEF Open
<1>4a. MaxStack[item.ref] > 1
  BY DEF OverflowStack, Stackable
<1>5. PICK l, max \in Nat : l = item.amount - Left(s) /\ max = MaxStack[item.ref]
  BY <1>3, <1>4
<1>6. PICK v, w \in Item : v = [f[s] EXCEPT !.amount = max] /\ w = [item EXCEPT !.amount = l]
  BY <1>3, <1>4, <1>5, Basics
<1>7. v.amount = max /\ v.ref = item.ref /\ w.amount = l /\ w.ref = item.ref
  BY <1>3, <1>4, <1>6 DEF Item
<1>8. PICK h \in Store : h = [f EXCEPT ![s] = v]
  BY <1>2 DEF Store
<1>9. h[s] = v /\ \A r \in Slots \ {s} : h[r] = f[r]
  BY <1>2, <1>8 DEF Store
<1>10. Tidy(h)
  <2>1. v.amount <= MaxStack[v.ref] /\ (MaxStack[v.ref] = 1 => v.amount = 1) /\ ~(v.amount < MaxStack[v.ref])
    BY <1>5, <1>7
  <2>2. QED
    BY <1>1, <1>9, <2>1, TidyPut
<1>11. CASE Free = {}
  <2>1. g = h
    BY <1>1, <1>5, <1>6, <1>8, <1>11, Zenon DEF OverflowStack, Put
  <2>2. QED
    BY <1>1, <1>10, <2>1
<1>12. CASE Free # {}
  <2>1. PICK k \in Slots : k = Min(Free) /\ f[k] = NoItem
    BY <1>1, <1>12, FirstFree
  <2>2. g = [f EXCEPT ![s] = v, ![k] = w]
    BY <1>1, <1>5, <1>6, <1>12, <2>1, Zenon DEF OverflowStack, Put
  <2>3. k # s /\ k \in Rows
    BY <1>2, <1>4, <2>1
  <2>4. g[k] = w /\ \A r \in Slots \ {k} : g[r] = h[r]
    BY <1>2, <1>8, <2>2, <2>3 DEF Store
  <2>5. \A r \in Slots \ {k} : Open(h, r) => h[r].ref # w.ref
    <3>1. ASSUME NEW r \in Slots \ {k}, Open(h, r) PROVE h[r].ref # w.ref
      <4>1. r # s
        BY <1>5, <1>7, <1>9, <3>1 DEF Open
      <4>2. h[r] = f[r]
        BY <1>9, <4>1
      <4>3. Open(f, r)
        BY <3>1, <4>2 DEF Open
      <4>4. QED
        BY <1>1, <1>4, <1>7, <4>1, <4>2, <4>3 DEF Tidy, Lone
    <3>2. QED
      BY <3>1
  <2>6. w.amount <= MaxStack[w.ref] /\ (MaxStack[w.ref] = 1 => w.amount = 1)
    <3>1. l <= max /\ max # 1
      BY <1>3, <1>4, <1>4a, <1>5
    <3>2. QED
      BY <1>5, <1>7, <3>1
  <2>7. QED
    BY <1>1, <1>10, <2>4, <2>5, <2>6, TidyPut
<1>13. QED
  BY <1>11, <1>12

\* And in a slot of its own.
LEMMA AddToFreeSlotTidy ==
    ASSUME Sound, Sound', Tidy(items), NEW item \in Drops, AddToFreeSlot(item)
    PROVE  Tidy(items')
<1>1. PICK f, g \in Store : f = items /\ g = items'
  BY DEF Sound
<1>2. Slots \subseteq Rows
  BY Basics
<1>3. item \in Item /\ item.ref \in Refs /\ item.amount \in Nat /\ item.amount > 0 /\ item.amount <= MaxStack[item.ref]
  BY DropIs
<1>4. MaxStack[item.ref] \in Nat /\ MaxStack[item.ref] >= 1
  BY <1>3, Basics
<1>5. PICK k \in Slots : k = Min(Free)
  BY FirstFree DEF AddToFreeSlot
<1>6. g = [f EXCEPT ![k] = item]
  BY <1>1, <1>5, Zenon DEF AddToFreeSlot
<1>7. g[k] = item /\ \A r \in Slots \ {k} : g[r] = f[r]
  BY <1>2, <1>6 DEF Store
<1>8. ASSUME item.amount < MaxStack[item.ref] PROVE \A r \in Slots \ {k} : Open(f, r) => f[r].ref # item.ref
  <2>1. Stackable(item)
    BY <1>3, <1>4, <1>8 DEF Stackable
  <2>2. OpenStacks(item.ref) = {}
    BY <2>1 DEF AddToFreeSlot
  <2>3. QED
    BY <1>1, <1>3, <2>2, OpenStacksAre
<1>9. MaxStack[item.ref] = 1 => item.amount = 1
  BY <1>3
<1>10. QED
  BY <1>1, <1>3, <1>7, <1>8, <1>9, TidyPut

\* Whatever is done with tidy stacks is recorded and keeps them tidy.
LEMMA OperationsTidy ==
    ASSUME Sound, Tidy(items), Moves \/ Pickups
    PROVE  Sound' /\ Tidy(items') /\ base' = base /\ Told /\ unrecorded' = unrecorded
<1>0. Sound' /\ base' = base
  BY Recorded
<1>1. CASE Moves
  <2>1. PICK s, t \in Slots, amount \in Nat \ {0} : move_item(s, t, amount)
    BY <1>1, MovesAre
  <2>2. items[s] # NoItem
    BY <2>1 DEF move_item
  <2>3. CASE MoveToEmptySlot(s, t)
    BY <1>0, <2>2, <2>3, MoveToEmptySlotRecorded, SwapTidy DEF MoveToEmptySlot
  <2>4. CASE StackAll(s, t, amount)
    BY <1>0, <2>2, <2>4, StackAllRecorded, StackAllTidy DEF StackAll
  <2>5. CASE StackSome(s, t, amount)
    BY <1>0, <2>2, <2>5, StackSomeRecorded, StackSomeTidy DEF StackSome
  <2>6. CASE StackFails(s, t, amount)
    BY <2>2, <2>6, NoFailure
  <2>7. CASE SwapItems(s, t)
    BY <1>0, <2>2, <2>7, SwapItemsRecorded, SwapTidy DEF SwapItems
  <2>8. QED
    BY <1>0, <2>1, <2>3, <2>4, <2>5, <2>6, <2>7 DEF move_item
<1>2. CASE Pickups
  <2>1. PICK item \in Drops : add_item(item)
    BY <1>2 DEF Pickups
  <2>2. unrecorded' = unrecorded
    BY <2>1 DEF add_item
  <2>3. CASE \E s \in Slots : AddToStack(item, s)
    BY <1>0, <2>2, <2>3, AddToStackRecorded, AddToStackTidy
  <2>4. CASE \E s \in Slots : OverflowStack(item, s)
    BY <1>0, <2>2, <2>4, OverflowStackRecorded, OverflowStackTidy
  <2>5. CASE AddToFreeSlot(item)
    BY <1>0, <2>2, <2>5, AddToFreeSlotRecorded, AddToFreeSlotTidy
  <2>6. QED
    BY <2>1, <2>3, <2>4, <2>5 DEF add_item
<1>3. QED
  BY <1>1, <1>2

\* Playing back more of a log.
LEMMA TellsMore ==
    ASSUME NEW store, NEW old \in Seq(ChangeSet), Replay(store, old) = items, changes \in Seq(ChangeSet), Told,
           NEW older \in Seq(ChangeSet), old = older \o changes
    PROVE  Replay(store, older \o changes') = items'
<1>1. PICK new \in Seq(ChangeSet) : changes' = changes \o new /\ items' = Replay(items, new)
  BY DEF Told
<1>2. Replay(store, old \o new) = Replay(Replay(store, old), new)
  BY ReplayConcat, ZenonT(30)
<1>3. older \o (changes \o new) = (older \o changes) \o new
  BY ConcatAssociative
<1>4. QED
  BY <1>1, <1>2, <1>3

InventoryInv == Sound /\ Tidy(items) /\ unrecorded = FALSE /\ ChangesComplete

\* The store without items is tidy.
LEMMA NoItemsTidy == NoItems \in Store /\ NoItems[Temp] = NoItem /\ Tidy(NoItems)
<1>1. NoItems \in Store /\ \A r \in Rows : NoItems[r] = NoItem
  BY DEF NoItems, Store
<1>2. \A s \in Slots : ~Open(NoItems, s) /\ NoItems[s] = NoItem
  BY <1>1, Basics DEF Open
<1>3. QED
  BY <1>1, <1>2, Basics DEF Tidy, Filled, Lone

\* The inductive invariant of an inventory that starts out empty.
LEMMA InventoryInductive == Spec => []InventoryInv
<1>1. Init => InventoryInv
  <2>1. <<>> \in Seq(ChangeSet)
    OBVIOUS
  <2>2. QED
    BY <2>1, NoItemsTidy, ReplayFew DEF Init, InventoryInv, Sound, ChangesComplete
<1>2. InventoryInv /\ [Next]_inventoryVars => InventoryInv'
  <2> SUFFICES ASSUME InventoryInv, [Next]_inventoryVars PROVE InventoryInv'
    OBVIOUS
  <2>1. CASE Moves \/ Pickups
    <3>1. Sound' /\ Tidy(items') /\ base' = base /\ Told /\ unrecorded' = unrecorded
      BY <2>1, OperationsTidy DEF InventoryInv
    <3>2. changes \in Seq(ChangeSet) /\ changes' \in Seq(ChangeSet) /\ <<>> \in Seq(ChangeSet)
      BY <3>1 DEF InventoryInv, Sound
    <3>3. <<>> \o changes = changes /\ <<>> \o changes' = changes'
      BY <3>2, ConcatEmptySeq
    <3>4. Replay(base, changes) = items
      BY DEF InventoryInv, ChangesComplete
    <3>5. Replay(base, <<>> \o changes') = items'
      BY <3>1, <3>2, <3>3, <3>4, TellsMore
    <3>6. QED
      BY <3>1, <3>3, <3>5 DEF InventoryInv, ChangesComplete
  <2>2. CASE TakeChanges
    <3>1. <<>> \in Seq(ChangeSet)
      OBVIOUS
    <3>2. QED
      BY <2>2, <3>1, ReplayFew DEF TakeChanges, InventoryInv, Sound, ChangesComplete
  <2>3. CASE UNCHANGED inventoryVars
    BY <2>3 DEF inventoryVars, InventoryInv, Sound, ChangesComplete
  <2>4. QED
    BY <2>1, <2>2, <2>3 DEF Next
<1>3. QED
  BY <1>1, <1>2, PTL DEF Spec

\* Inventory::move_item never destroys two stacks that do not fit together: of
\* no item are there two stacks with room, whatever is moved, stacked, swapped,
\* equipped and picked up.
THEOREM StacksStayTidy == Spec => []OneOpenStack
<1>1. InventoryInv => OneOpenStack
  BY LoneIs DEF InventoryInv, Tidy
<1>2. QED
  BY <1>1, InventoryInductive, PTL

\* The changes that ChangeTracked::changes hands out, played back statement by
\* statement on the items they were recorded from, give the items there are.
THEOREM LogIsComplete == Spec => []ChangesComplete
<1>1. InventoryInv => ChangesComplete
  BY DEF InventoryInv
<1>2. QED
  BY <1>1, InventoryInductive, PTL

-----------------------------------------------------------------------------
(* Pairs of changes and their optimization.                                *)

\* A log whose changes are possible goes on with changes that are.
LEMMA PossibleConcat ==
    ASSUME NEW f, NEW x \in Seq(ChangeSet), NEW y \in Seq(ChangeSet), AllPossible(f, x), AllPossible(Replay(f, x), y)
    PROVE  AllPossible(f, x \o y)
<1>1. PICK m, n \in Nat : m = Len(x) /\ n = Len(y)
  OBVIOUS
<1>2. PICK z \in Seq(ChangeSet) : z = x \o y
  BY ConcatProperties
<1>3. Len(z) = m + n /\ \A i \in 1..(m + n) : z[i] = IF i <= m THEN x[i] ELSE y[i - m]
  BY <1>1, <1>2, ConcatProperties
<1>4. ASSUME NEW i \in 1..(m + n) PROVE Possible(Replay(f, SubSeq(z, 1, i - 1)), z[i])
  <2>1. PICK j \in Nat : j = i - 1 /\ i = j + 1 /\ j \in 0..(m + n)
    BY <1>1
  <2>2. PICK w \in Seq(ChangeSet) : w = SubSeq(z, 1, j) /\ Len(w) = j /\ \A k \in 1..j : w[k] = z[k]
    <3>1. j \in 0..Len(z)
      BY <1>3, <2>1
    <3>2. SubSeq(z, 1, j) \in Seq(ChangeSet) /\ Len(SubSeq(z, 1, j)) = j /\ \A k \in 1..j : SubSeq(z, 1, j)[k] = z[k]
      BY <3>1, Prefix
    <3>3. QED
      BY <3>2
  <2>3. CASE i <= m
    <3>1. j \in 0..Len(x) /\ i \in 1..Len(x)
      BY <1>1, <2>1, <2>3
    <3>2. PICK v \in Seq(ChangeSet) : v = SubSeq(x, 1, j) /\ Len(v) = j /\ \A k \in 1..j : v[k] = x[k]
      <4>1. SubSeq(x, 1, j) \in Seq(ChangeSet) /\ Len(SubSeq(x, 1, j)) = j /\ \A k \in 1..j : SubSeq(x, 1, j)[k] = x[k]
        BY <3>1, Prefix
      <4>2. QED
        BY <4>1
    <3>3. \A k \in 1..j : k \in 1..(m + n) /\ k <= m
      BY <1>1, <2>1, <2>3
    <3>4. \A k \in 1..j : w[k] = v[k]
      BY <1>3, <2>2, <3>2, <3>3
    <3>5. w = v
      BY <2>2, <3>2, <3>4, SeqEqual
    <3>6. Possible(Replay(f, SubSeq(x, 1, i - 1)), x[i])
      BY <3>1 DEF AllPossible
    <3>7. z[i] = x[i]
      BY <1>3, <2>3
    <3>8. QED
      BY <2>1, <2>2, <3>2, <3>5, <3>6, <3>7
  <2>4. CASE ~(i <= m)
    <3>1. PICK k \in 1..n : i = m + k /\ i - m = k /\ j = m + (k - 1)
      <4>1. i - m \in 1..n /\ i = m + (i - m) /\ j = m + ((i - m) - 1)
        BY <1>1, <2>1, <2>4
      <4>2. QED
        BY <4>1
    <3>2. PICK l \in Nat : l = k - 1 /\ j = m + l /\ l \in 0..Len(y) /\ k \in 1..Len(y)
      BY <1>1, <3>1
    <3>3. PICK v \in Seq(ChangeSet) : v = SubSeq(y, 1, l) /\ Len(v) = l /\ \A q \in 1..l : v[q] = y[q]
      <4>1. SubSeq(y, 1, l) \in Seq(ChangeSet) /\ Len(SubSeq(y, 1, l)) = l /\ \A q \in 1..l : SubSeq(y, 1, l)[q] = y[q]
        BY <3>2, Prefix
      <4>2. QED
        BY <4>1
    <3>4. PICK u \in Seq(ChangeSet) : u = x \o v
      BY ConcatProperties
    <3>5. Len(u) = m + l /\ \A q \in 1..(m + l) : u[q] = IF q <= m THEN x[q] ELSE v[q - m]
      BY <1>1, <3>3, <3>4, ConcatProperties
    <3>6. ASSUME NEW q \in 1..j PROVE w[q] = u[q]
      <4>1. q \in 1..(m + l) /\ q \in 1..(m + n) /\ (~(q <= m) => q - m \in 1..l)
        BY <1>1, <2>1, <3>2
      <4>2. w[q] = IF q <= m THEN x[q] ELSE y[q - m]
        BY <1>3, <2>2, <4>1
      <4>3. u[q] = IF q <= m THEN x[q] ELSE v[q - m]
        BY <3>5, <4>1
      <4>4. QED
        BY <3>3, <4>1, <4>2, <4>3
    <3>7. w = u
      BY <2>2, <3>2, <3>5, <3>6, SeqEqual
    <3>8. Replay(f, u) = Replay(Replay(f, x), v)
      BY <3>4, ReplayConcat
    <3>9. Possible(Replay(Replay(f, x), SubSeq(y, 1, k - 1)), y[k])
      BY <3>2 DEF AllPossible
    <3>10. z[i] = y[k]
      BY <1>3, <2>4, <3>1
    <3>11. QED
      BY <2>1, <2>2, <3>2, <3>3, <3>7, <3>8, <3>9, <3>10
  <2>5. QED
    BY <2>3, <2>4
<1>5. QED
  BY <1>2, <1>3, <1>4 DEF AllPossible

\* Turning a list of at most two around.
LEMMA ReverseFew ==
    /\ Reverse(<<>>) = <<>>
    /\ \A c : Reverse(<<c>>) = <<c>>
    /\ \A c, d : Reverse(<<c, d>>) = <<d, c>>
  BY DEF Reverse

\* Merging a change into an empty list, and into a list of one.
LEMMA MergeFew ==
    ASSUME NEW c \in ChangeSet, NEW d \in ChangeSet
    PROVE  /\ merge_recursive(<<>>, c) = <<c>>
           /\ merge_recursive(<<c>>, d) =
                IF Cancels(c, d) THEN <<>> ELSE IF Merged(c, d) # <<>> THEN Reverse(Merged(c, d)) ELSE <<c, d>>
<1>0. <<>> \in Seq(ChangeSet) /\ Len(<<>>) = 0 /\ <<c>> \in Seq(ChangeSet) /\ Len(<<c>>) = 1 /\ <<c>>[1] = c
  OBVIOUS
<1>1. merge_recursive(<<>>, c) = <<c>>
  <2>1. PICK f : Rounds(f, <<>>, c) /\ merge_recursive(<<>>, c) = f[Len(<<>>)].todo \o Reverse(f[Len(<<>>)].queue)
    BY <1>0, MergeSteps
  <2>2. f[0] = Started(c)
    BY <1>0, <2>1 DEF Rounds
  <2>3. Started(c).todo = <<>> /\ Started(c).queue = <<c>>
    BY DEF Started
  <2>4. merge_recursive(<<>>, c) = <<>> \o <<c>>
    BY <1>0, <2>1, <2>2, <2>3, ReverseFew
  <2>5. QED
    BY <2>4
<1>2. merge_recursive(<<c>>, d) =
        IF Cancels(c, d) THEN <<>> ELSE IF Merged(c, d) # <<>> THEN Reverse(Merged(c, d)) ELSE <<c, d>>
  <2>1. PICK one \in Seq(ChangeSet) : one = <<c>> /\ Len(one) = 1 /\ one[1] = c
    BY <1>0
  <2>2. PICK f : Rounds(f, one, d) /\ merge_recursive(one, d) = f[Len(one)].todo \o Reverse(f[Len(one)].queue)
    BY MergeSteps
  <2>3. f = [n \in 0..1 |-> IF n = 0 THEN Started(d) ELSE MergeRound(f[n - 1], one[1 - n + 1])]
    BY <2>1, <2>2 DEF Rounds
  <2>4. 0 \in 0..1 /\ 1 \in 0..1 /\ 1 # 0 /\ 1 - 1 = 0 /\ 1 - 1 + 1 = 1
    OBVIOUS
  <2>5. f[0] = Started(d) /\ f[1] = MergeRound(f[0], c)
    BY <2>1, <2>3, <2>4
  <2>6. PICK st : st = Started(d) /\ st.todo = <<>> /\ st.queue = <<d>> /\ ~st.stop
    <3>1. Started(d).todo = <<>> /\ Started(d).queue = <<d>> /\ ~Started(d).stop
      BY DEF Started
    <3>2. QED
      BY <3>1
  <2>7. st.queue # <<>> /\ Head(st.queue) = d /\ Tail(st.queue) = <<>>
    BY <2>6
  <2>8. MergeRound(st, c) = IF Cancels(c, d) THEN [st EXCEPT !.queue = <<>>]
                            ELSE IF Merged(c, d) # <<>> THEN [st EXCEPT !.queue = Merged(c, d) \o <<>>]
                            ELSE [st EXCEPT !.queue = <<d>> \o <<>> \o <<c>>, !.stop = Incompatible(c, d)]
    BY <2>6, <2>7, Zenon DEF MergeRound
  <2>9. Merged(c, d) \o <<>> = Merged(c, d) /\ <<d>> \o <<>> \o <<c>> = <<d, c>>
    <3>1. Merged(c, d) \in Seq(ChangeSet)
      BY MergedIs
    <3>2. Merged(c, d) \o <<>> = Merged(c, d)
      BY <3>1, ConcatEmptySeq
    <3>3. <<d>> \o <<>> \o <<c>> = <<d, c>>
      BY PairIs, ConcatEmptySeq
    <3>4. QED
      BY <3>2, <3>3
  <2>10. PICK q : q = IF Cancels(c, d) THEN <<>> ELSE IF Merged(c, d) # <<>> THEN Merged(c, d) ELSE <<d, c>>
    OBVIOUS
  <2>11. f[1].todo = <<>> /\ f[1].queue = q
    <3>1. PICK r : r = MergeRound(st, c)
      OBVIOUS
    <3>2. st = [todo |-> <<>>, queue |-> <<d>>, stop |-> FALSE]
      BY <2>6 DEF Started
    <3>3. \/ r = [st EXCEPT !.queue = q]
          \/ r = [st EXCEPT !.queue = q, !.stop = Incompatible(c, d)]
      BY <2>8, <2>9, <2>10, <3>1, Zenon
    <3>4. r.todo = <<>> /\ r.queue = q
      BY <3>2, <3>3
    <3>5. QED
      BY <2>5, <2>6, <3>1, <3>4
  <2>12. Reverse(q) = IF Cancels(c, d) THEN <<>> ELSE IF Merged(c, d) # <<>> THEN Reverse(Merged(c, d)) ELSE <<c, d>>
    BY <2>10, ReverseFew, Zenon
  <2>13. Reverse(q) \in Seq(ChangeSet)
    <3>1. CASE Cancels(c, d)
      BY <2>12, <3>1
    <3>2. CASE ~Cancels(c, d) /\ Merged(c, d) # <<>>
      <4>1. PICK x \in ChangeSet : Merged(c, d) = <<x>>
        BY <3>2, MergedOne
      <4>2. Reverse(<<x>>) = <<x>> /\ <<x>> \in Seq(ChangeSet)
        BY ReverseFew
      <4>3. QED
        BY <2>12, <3>2, <4>1, <4>2
    <3>3. CASE ~Cancels(c, d) /\ Merged(c, d) = <<>>
      BY <2>12, <3>3
    <3>4. QED
      BY <3>1, <3>2, <3>3
  <2>14. merge_recursive(one, d) = <<>> \o Reverse(q)
    BY <2>1, <2>2, <2>11
  <2>15. QED
    BY <2>1, <2>12, <2>13, <2>14, ConcatEmptySeq
<1>3. QED
  BY <1>1, <1>2

\* What optimizing two changes gives.
LEMMA OptimizePair ==
    ASSUME NEW c \in ChangeSet, NEW d \in ChangeSet
    PROVE  optimize(<<c, d>>) = IF Cancels(c, d) THEN <<>> ELSE IF Merged(c, d) # <<>> THEN Merged(c, d) ELSE <<c, d>>
<1>1. PICK two \in Seq(ChangeSet) : two = <<c, d>> /\ Len(two) = 2 /\ two[1] = c /\ two[2] = d
  <2>1. <<c, d>> \in Seq(ChangeSet) /\ Len(<<c, d>>) = 2 /\ <<c, d>>[1] = c /\ <<c, d>>[2] = d
    OBVIOUS
  <2>2. QED
    BY <2>1
<1>2. PICK f : Optimizes(f, two) /\ optimize(two) = IF Len(two) <= 1 THEN two ELSE f[Len(two)]
  BY OptimizeSteps
<1>3. f = [n \in 0..2 |-> IF n = 0 THEN <<>> ELSE merge_recursive(f[n - 1], two[n])]
  BY <1>1, <1>2 DEF Optimizes
<1>4. 0 \in 0..2 /\ 1 \in 0..2 /\ 2 \in 0..2 /\ 1 # 0 /\ 2 # 0 /\ 1 - 1 = 0 /\ 2 - 1 = 1 /\ ~(2 <= 1)
  OBVIOUS
<1>5. f[0] = <<>> /\ f[1] = merge_recursive(f[0], c) /\ f[2] = merge_recursive(f[1], d)
  BY <1>1, <1>3, <1>4
<1>6. optimize(two) = merge_recursive(<<c>>, d)
  BY <1>1, <1>2, <1>4, <1>5, MergeFew
<1>7. Merged(c, d) # <<>> => Reverse(Merged(c, d)) = Merged(c, d)
  BY MergedOne, ReverseFew
<1>8. QED
  BY <1>1, <1>6, <1>7, MergeFew

\* What there is of a possible change, by its kind.
LEMMA Kinds ==
    ASSUME NEW f, NEW c, Possible(f, c)
    PROVE  /\ f \in Store /\ f[Temp] = NoItem
           /\ c.op \in {"add", "change", "move", "remove", "swap"}
           /\ c.op = "add" => \E s \in Slots, i \in Item : c = AddItem(s, i) /\ f[s] = NoItem
           /\ c.op = "change" => \E s \in Slots, m \in Nat, n \in Nat : c = ChangeTypeData(s, m, n) /\ f[s] # NoItem
           /\ c.op = "move" => \E s, t \in Slots : c = MoveItem(s, t) /\ f[s] # NoItem /\ (f[t] = NoItem \/ s = t)
           /\ c.op = "remove" => \E s \in Slots : c = RemoveItem(s)
           /\ c.op = "swap" => \E s, t \in Slots : c = Swap(s, t) /\ s # t /\ f[s] # NoItem /\ f[t] # NoItem
<1>1. /\ \A s, i : AddItem(s, i).op = "add"
      /\ \A s, m, n : ChangeTypeData(s, m, n).op = "change"
      /\ \A s, t : MoveItem(s, t).op = "move" /\ Swap(s, t).op = "swap"
      /\ \A s : RemoveItem(s).op = "remove"
  BY DEF AddItem, ChangeTypeData, MoveItem, RemoveItem, Swap, Change
<1>2. f \in Store /\ f[Temp] = NoItem
  BY DEF Possible
<1>3. CASE \E s \in Slots, i \in Item : c = AddItem(s, i) /\ f[s] = NoItem
  BY <1>1, <1>2, <1>3
<1>4. CASE \E s \in Slots, m \in Nat, n \in Nat : c = ChangeTypeData(s, m, n) /\ f[s] # NoItem
  BY <1>1, <1>2, <1>4
<1>5. CASE \E s, t \in Slots : c = MoveItem(s, t) /\ f[s] # NoItem /\ (f[t] = NoItem \/ s = t)
  BY <1>1, <1>2, <1>5
<1>6. CASE \E s \in Slots : c = RemoveItem(s)
  BY <1>1, <1>2, <1>6
<1>7. CASE \E s, t \in Slots : c = Swap(s, t) /\ s # t /\ f[s] # NoItem /\ f[t] # NoItem
  BY <1>1, <1>2, <1>7
<1>8. QED
  BY <1>3, <1>4, <1>5, <1>6, <1>7 DEF Possible

\* The ways in which two changes become one.
LEMMA MergedCases ==
    ASSUME NEW c, NEW d, Merged(c, d) # <<>>
    PROVE  /\ c.to = d.at
           /\ \/ c.op = "add" /\ d.op = "add" /\ Merged(c, d) = <<d>>
              \/ c.op = "add" /\ d.op = "move" /\ Merged(c, d) = <<[c EXCEPT !.at = d.to, !.to = d.to]>>
              \/ c.op = "add" /\ d.op = "change" /\ Merged(c, d) = <<[c EXCEPT !.now = d.now]>>
              \/ c.op = "move" /\ d.op = "move" /\ Merged(c, d) = <<MoveItem(c.at, d.to)>>
              \/ c.op = "move" /\ d.op = "remove" /\ Merged(c, d) = <<RemoveItem(c.at)>>
              \/ c.op = "change" /\ d.op = "change" /\ Merged(c, d) = <<ChangeTypeData(c.at, c.was, d.now)>>
              \/ c.op = "change" /\ d.op = "remove" /\ Merged(c, d) = <<d>>
  BY Zenon DEF Merged

\* An addition and a move of what was added are an addition elsewhere.
LEMMA AddThenMove ==
    ASSUME NEW f \in Store, NEW s \in Slots, NEW t \in Slots, NEW i \in Item, f[s] = NoItem,
           NEW g, g = RunChange(f, Statements(AddItem(s, i))), g[t] = NoItem \/ s = t
    PROVE  RunChange(g, Statements(MoveItem(s, t))) = RunChange(f, Statements(AddItem(t, i)))
<1>1. s \in Rows /\ t \in Rows /\ IsStore(f)
  BY Basics
<1>2. g = [f EXCEPT ![s] = i]
  BY <1>1, AddDoes
<1>3. g \in Store /\ IsStore(g) /\ \A r \in Rows : g[r] = IF r = s THEN i ELSE f[r]
  <2>1. g \in Store /\ \A r \in Rows : g[r] = IF r = s THEN i ELSE f[r]
    BY <1>1, <1>2 DEF Store
  <2>2. QED
    BY <2>1, Basics
<1>4. g[s] = i /\ g[s] # NoItem
  BY <1>1, <1>3, Basics
<1>5. PICK h, k : h = RunChange(g, Statements(MoveItem(s, t))) /\ k = RunChange(f, Statements(AddItem(t, i)))
  OBVIOUS
<1>6. h = IF s = t THEN g ELSE [g EXCEPT ![t] = g[s], ![s] = NoItem]
  BY <1>3, <1>4, <1>5, MoveDoes
<1>7. k = [f EXCEPT ![t] = i]
  BY <1>1, <1>5, AddDoes
<1>8. IsStore(k) /\ \A r \in Rows : k[r] = IF r = t THEN i ELSE f[r]
  BY <1>1, <1>7 DEF IsStore
<1>9. IsStore(h) /\ \A r \in Rows : h[r] = IF r = t THEN i ELSE f[r]
  <2>1. CASE s = t
    BY <1>3, <1>6, <2>1
  <2>2. CASE s # t
    <3>1. IsStore(h) /\ \A r \in Rows : h[r] = IF r = s THEN NoItem ELSE IF r = t THEN g[s] ELSE g[r]
      BY <1>1, <1>3, <1>6, <2>2 DEF IsStore
    <3>2. QED
      BY <1>3, <1>4, <2>2, <3>1
  <2>3. QED
    BY <2>1, <2>2
<1>10. \A r \in Rows : h[r] = k[r]
  BY <1>8, <1>9
<1>11. h = k
  BY <1>8, <1>9, <1>10, StoresEqual
<1>12. QED
  BY <1>5, <1>11

\* An addition and a change of its amount are an addition of that amount.
LEMMA AddThenChange ==
    ASSUME NEW f \in Store, NEW s \in Slots, NEW i \in Item, NEW m \in Nat, NEW n \in Nat,
           NEW g, g = RunChange(f, Statements(AddItem(s, i))), NEW j \in Item, j = [i EXCEPT !.amount = n]
    PROVE  RunChange(g, Statements(ChangeTypeData(s, m, n))) = RunChange(f, Statements(AddItem(s, j)))
<1>1. s \in Rows /\ IsStore(f)
  BY Basics
<1>2. g = [f EXCEPT ![s] = i]
  BY <1>1, AddDoes
<1>3. g \in Store /\ IsStore(g) /\ g[s] = i /\ g[s] # NoItem
  <2>1. g \in Store /\ g[s] = i
    BY <1>1, <1>2 DEF Store
  <2>2. QED
    BY <2>1, Basics
<1>4. RunChange(g, Statements(ChangeTypeData(s, m, n))) = [g EXCEPT ![s] = j]
  BY <1>3, ChangeDoes
<1>5. RunChange(f, Statements(AddItem(s, j))) = [f EXCEPT ![s] = j]
  BY <1>1, AddDoes
<1>6. [g EXCEPT ![s] = j] = [f EXCEPT ![s] = j]
  BY <1>1, <1>2 DEF IsStore
<1>7. QED
  BY <1>4, <1>5, <1>6

\* What a move leaves in each row.
LEMMA MoveRows ==
    ASSUME NEW f \in Store, NEW s \in Slots, NEW t \in Slots, f[s] # NoItem, f[t] = NoItem \/ s = t,
           NEW g, g = RunChange(f, Statements(MoveItem(s, t)))
    PROVE  /\ g \in Store /\ IsStore(g) /\ g[t] = f[s]
           /\ \A r \in Rows : g[r] = IF r = t THEN f[s] ELSE IF r = s THEN NoItem ELSE f[r]
<1>1. s \in Rows /\ t \in Rows /\ IsStore(f) /\ f[s] \in Item
  BY Basics
<1>2. g = IF s = t THEN f ELSE [f EXCEPT ![t] = f[s], ![s] = NoItem]
  BY <1>1, MoveDoes
<1>3. g \in Store /\ \A r \in Rows : g[r] = IF r = t THEN f[s] ELSE IF r = s THEN NoItem ELSE f[r]
  <2>1. CASE s = t
    BY <1>1, <1>2, <2>1
  <2>2. CASE s # t
    <3>1. PICK v, w \in Item \cup {NoItem} : v = f[s] /\ w = NoItem
      BY <1>1
    <3>2. g = [f EXCEPT ![t] = v, ![s] = w]
      BY <1>2, <2>2, <3>1
    <3>3. g \in Store /\ \A r \in Rows : g[r] = IF r = s THEN w ELSE IF r = t THEN v ELSE f[r]
      BY <1>1, <3>2 DEF Store
    <3>4. QED
      BY <2>2, <3>1, <3>3
  <2>3. QED
    BY <2>1, <2>2
<1>4. QED
  BY <1>1, <1>3, Basics

\* Two moves of one item are one.
LEMMA MoveThenMove ==
    ASSUME NEW f \in Store, NEW s \in Slots, NEW t \in Slots, NEW u \in Slots, f[s] # NoItem, f[t] = NoItem \/ s = t,
           NEW g, g = RunChange(f, Statements(MoveItem(s, t))), g[u] = NoItem \/ t = u
    PROVE  RunChange(g, Statements(MoveItem(t, u))) = RunChange(f, Statements(MoveItem(s, u)))
<1>1. s \in Rows /\ t \in Rows /\ u \in Rows
  BY Basics
<1>2. /\ g \in Store /\ g[t] = f[s]
      /\ \A r \in Rows : g[r] = IF r = t THEN f[s] ELSE IF r = s THEN NoItem ELSE f[r]
  BY MoveRows
<1>3. f[u] = NoItem \/ s = u
  BY <1>1, <1>2
<1>4. PICK h, k : h = RunChange(g, Statements(MoveItem(t, u))) /\ k = RunChange(f, Statements(MoveItem(s, u)))
  OBVIOUS
<1>5. IsStore(h) /\ \A r \in Rows : h[r] = IF r = u THEN g[t] ELSE IF r = t THEN NoItem ELSE g[r]
  BY <1>2, <1>4, MoveRows
<1>6. IsStore(k) /\ \A r \in Rows : k[r] = IF r = u THEN f[s] ELSE IF r = s THEN NoItem ELSE f[r]
  BY <1>3, <1>4, MoveRows
<1>7. \A r \in Rows : h[r] = k[r]
  BY <1>1, <1>2, <1>3, <1>5, <1>6
<1>8. h = k
  BY <1>5, <1>6, <1>7, StoresEqual
<1>9. QED
  BY <1>4, <1>8

\* A move and the removal of what was moved are a removal.
LEMMA MoveThenRemove ==
    ASSUME NEW f \in Store, NEW s \in Slots, NEW t \in Slots, f[s] # NoItem, f[t] = NoItem \/ s = t,
           NEW g, g = RunChange(f, Statements(MoveItem(s, t)))
    PROVE  RunChange(g, Statements(RemoveItem(t))) = RunChange(f, Statements(RemoveItem(s)))
<1>1. s \in Rows /\ t \in Rows /\ IsStore(f)
  BY Basics
<1>2. /\ IsStore(g)
      /\ \A r \in Rows : g[r] = IF r = t THEN f[s] ELSE IF r = s THEN NoItem ELSE f[r]
  BY MoveRows
<1>3. PICK h, k : h = [g EXCEPT ![t] = NoItem] /\ k = [f EXCEPT ![s] = NoItem]
  OBVIOUS
<1>4. IsStore(h) /\ \A r \in Rows : h[r] = IF r = t THEN NoItem ELSE g[r]
  BY <1>1, <1>2, <1>3 DEF IsStore
<1>5. IsStore(k) /\ \A r \in Rows : k[r] = IF r = s THEN NoItem ELSE f[r]
  BY <1>1, <1>3 DEF IsStore
<1>6. \A r \in Rows : h[r] = k[r]
  BY <1>2, <1>4, <1>5
<1>7. h = k
  BY <1>4, <1>5, <1>6, StoresEqual
<1>8. QED
  BY <1>1, <1>2, <1>3, <1>7, RemoveDoes

\* Two changes of an amount are one, and one before a removal is none.
LEMMA ChangeThenAny ==
    ASSUME NEW f \in Store, NEW s \in Slots, f[s] # NoItem, NEW m \in Nat, NEW n \in Nat,
           NEW g, g = RunChange(f, Statements(ChangeTypeData(s, m, n)))
    PROVE  /\ \A k, l \in Nat : RunChange(g, Statements(ChangeTypeData(s, k, l))) = RunChange(f, Statements(ChangeTypeData(s, m, l)))
           /\ RunChange(g, Statements(RemoveItem(s))) = RunChange(f, Statements(RemoveItem(s)))
<1>1. s \in Rows /\ IsStore(f) /\ f[s] \in Item
  BY Basics
<1>2. PICK v \in Item : v = [f[s] EXCEPT !.amount = n] /\ v.ref = f[s].ref
  <2>1. [f[s] EXCEPT !.amount = n] \in Item /\ [f[s] EXCEPT !.amount = n].ref = f[s].ref
    BY <1>1 DEF Item
  <2>2. QED
    BY <2>1
<1>3. g = [f EXCEPT ![s] = v]
  BY <1>1, <1>2, ChangeDoes
<1>4. g \in Store /\ IsStore(g) /\ g[s] = v /\ g[s] # NoItem
  <2>1. g \in Store /\ g[s] = v
    BY <1>1, <1>3 DEF Store
  <2>2. QED
    BY <2>1, Basics
<1>5. \A w : [g EXCEPT ![s] = w] = [f EXCEPT ![s] = w]
  BY <1>1, <1>3 DEF IsStore
<1>6. ASSUME NEW k \in Nat, NEW l \in Nat
      PROVE  RunChange(g, Statements(ChangeTypeData(s, k, l))) = RunChange(f, Statements(ChangeTypeData(s, m, l)))
  <2>1. RunChange(g, Statements(ChangeTypeData(s, k, l))) = [g EXCEPT ![s] = [g[s] EXCEPT !.amount = l]]
    BY <1>4, ChangeDoes
  <2>2. RunChange(f, Statements(ChangeTypeData(s, m, l))) = [f EXCEPT ![s] = [f[s] EXCEPT !.amount = l]]
    BY <1>1, ChangeDoes
  <2>3. PICK x, y : x = [g[s] EXCEPT !.amount = l] /\ y = [f[s] EXCEPT !.amount = l]
    OBVIOUS
  <2>4. x = y
    <3>1. PICK i, j \in Item : i = f[s] /\ j = g[s] /\ i.ref = j.ref
      BY <1>1, <1>2, <1>4
    <3>2. [i EXCEPT !.amount = l] = [j EXCEPT !.amount = l]
      BY <3>1 DEF Item
    <3>3. QED
      BY <2>3, <3>1, <3>2
  <2>5. QED
    BY <1>5, <2>1, <2>2, <2>3, <2>4
<1>7. RunChange(g, Statements(RemoveItem(s))) = RunChange(f, Statements(RemoveItem(s)))
  BY <1>1, <1>4, <1>5, RemoveDoes
<1>8. QED
  BY <1>6, <1>7

\* An addition and its removal are nothing.
LEMMA AddThenRemove ==
    ASSUME NEW f \in Store, NEW s \in Slots, NEW i \in Item, f[s] = NoItem,
           NEW g, g = RunChange(f, Statements(AddItem(s, i)))
    PROVE  RunChange(g, Statements(RemoveItem(s))) = f
<1>1. s \in Rows /\ IsStore(f)
  BY Basics
<1>2. g = [f EXCEPT ![s] = i]
  BY <1>1, AddDoes
<1>3. IsStore(g) /\ [g EXCEPT ![s] = NoItem] = f
  BY <1>1, <1>2 DEF IsStore
<1>4. QED
  BY <1>3, RemoveDoes

\* A swap and its reverse are nothing.
LEMMA SwapThenSwap ==
    ASSUME NEW f \in Store, f[Temp] = NoItem, NEW s \in Slots, NEW t \in Slots, s # t, f[s] # NoItem, f[t] # NoItem,
           NEW g, g = RunChange(f, Statements(Swap(s, t)))
    PROVE  RunChange(g, Statements(Swap(t, s))) = f
<1>1. s \in Rows /\ t \in Rows /\ IsStore(f) /\ Temp \in Rows /\ s # Temp /\ t # Temp
  BY Basics
<1>2. g = [f EXCEPT ![t] = f[s], ![s] = f[t]]
  BY <1>1, SwapDoes
<1>3. IsStore(g) /\ \A r \in Rows : g[r] = IF r = s THEN f[t] ELSE IF r = t THEN f[s] ELSE f[r]
  BY <1>1, <1>2 DEF IsStore
<1>4. g[Temp] = NoItem /\ g[s] = f[t] /\ g[t] = f[s]
  BY <1>1, <1>3
<1>5. PICK h : h = RunChange(g, Statements(Swap(t, s)))
  OBVIOUS
<1>6. h = [g EXCEPT ![s] = g[t], ![t] = g[s]]
  BY <1>3, <1>4, <1>5, SwapDoes
<1>7. IsStore(h) /\ \A r \in Rows : h[r] = IF r = t THEN g[s] ELSE IF r = s THEN g[t] ELSE g[r]
  BY <1>1, <1>3, <1>6 DEF IsStore
<1>8. \A r \in Rows : h[r] = f[r]
  BY <1>3, <1>4, <1>7
<1>9. h = f
  BY <1>1, <1>7, <1>8, StoresEqual
<1>10. QED
  BY <1>5, <1>9

\* The parts of the changes.
LEMMA Parts ==
    /\ \A s, i : LET c == AddItem(s, i) IN c.at = s /\ c.to = s
    /\ \A s, m, n : LET c == ChangeTypeData(s, m, n) IN c.at = s /\ c.to = s /\ c.was = m /\ c.now = n
    /\ \A s, t : LET c == MoveItem(s, t) IN c.at = s /\ c.to = t
    /\ \A s, t : LET c == Swap(s, t) IN c.at = s /\ c.to = t
    /\ \A s : LET c == RemoveItem(s) IN c.at = s /\ c.to = s
  BY DEF AddItem, ChangeTypeData, MoveItem, RemoveItem, Swap, Change

\* Two possible changes that cancel each other are nothing.
LEMMA PairCancels ==
    ASSUME NEW f, NEW c \in ChangeSet, NEW d \in ChangeSet, Possible(f, c), NEW g, g = RunChange(f, Statements(c)),
           Possible(g, d), Cancels(c, d)
    PROVE  RunChange(g, Statements(d)) = f
<1>0. f \in Store /\ f[Temp] = NoItem
  BY Kinds
<1>1. CASE c.op = "add" /\ d.op = "remove" /\ c.at = d.at
  <2>1. PICK s \in Slots, i \in Item : c = AddItem(s, i) /\ f[s] = NoItem
    BY <1>1, Kinds
  <2>2. PICK t \in Slots : d = RemoveItem(t)
    BY <1>1, Kinds
  <2>3. s = t
    BY <1>1, <2>1, <2>2, Parts
  <2>4. QED
    BY <1>0, <2>1, <2>2, <2>3, AddThenRemove
<1>2. CASE c.op = "swap" /\ d.op = "swap" /\ ((c.at = d.at /\ c.to = d.at) \/ (c.at = d.to /\ c.to = d.at))
  <2>1. PICK s, t \in Slots : c = Swap(s, t) /\ s # t /\ f[s] # NoItem /\ f[t] # NoItem
    BY <1>2, Kinds
  <2>2. PICK u, v \in Slots : d = Swap(u, v)
    BY <1>2, Kinds
  <2>3. u = t /\ v = s
    BY <1>2, <2>1, <2>2, Parts
  <2>4. QED
    BY <1>0, <2>1, <2>2, <2>3, SwapThenSwap
<1>3. QED
  BY <1>1, <1>2 DEF Cancels

\* Two possible changes do what the one does that they become.
LEMMA PairMerges ==
    ASSUME NEW f, NEW c \in ChangeSet, NEW d \in ChangeSet, Possible(f, c), NEW g, g = RunChange(f, Statements(c)),
           Possible(g, d), NEW x, Merged(c, d) = <<x>>
    PROVE  RunChange(g, Statements(d)) = RunChange(f, Statements(x))
<1>0. f \in Store /\ f[Temp] = NoItem /\ g \in Store /\ IsStore(f)
  BY Kinds, Basics
<1>1. Merged(c, d) # <<>> /\ \A y : Merged(c, d) = <<y>> => x = y
  <2>1. \A y : <<y>> # <<>> /\ (<<x>> = <<y>> => x = y)
    OBVIOUS
  <2>2. QED
    BY <2>1
<1>2. c.to = d.at
  BY <1>1, MergedCases
<1>3. CASE c.op = "add" /\ d.op = "add"
  <2>1. PICK s \in Slots, i \in Item : c = AddItem(s, i)
    BY <1>3, Kinds
  <2>2. PICK t \in Slots, j \in Item : d = AddItem(t, j) /\ g[t] = NoItem
    BY <1>3, Kinds
  <2>3. s = t /\ s \in Rows
    BY <1>2, <2>1, <2>2, Parts, Basics
  <2>4. g = [f EXCEPT ![s] = i]
    BY <1>0, <2>1, AddDoes
  <2>5. g[s] = i
    BY <1>0, <2>3, <2>4 DEF Store
  <2>6. QED
    BY <2>2, <2>3, <2>5, Basics
<1>4. CASE c.op = "add" /\ d.op = "move" /\ x = [c EXCEPT !.at = d.to, !.to = d.to]
  <2>1. PICK s \in Slots, i \in Item : c = AddItem(s, i) /\ f[s] = NoItem
    BY <1>4, Kinds
  <2>2. PICK u, t \in Slots : d = MoveItem(u, t) /\ (g[t] = NoItem \/ u = t)
    BY <1>4, Kinds
  <2>3. u = s /\ d.to = t
    BY <1>2, <2>1, <2>2, Parts
  <2>4. x = AddItem(t, i)
    BY <1>4, <2>1, <2>3 DEF AddItem, Change
  <2>5. QED
    BY <1>0, <2>1, <2>2, <2>3, <2>4, AddThenMove
<1>5. CASE c.op = "add" /\ d.op = "change" /\ x = [c EXCEPT !.now = d.now]
  <2>1. PICK s \in Slots, i \in Item : c = AddItem(s, i)
    BY <1>5, Kinds
  <2>2. PICK t \in Slots, m, n \in Nat : d = ChangeTypeData(t, m, n)
    BY <1>5, Kinds
  <2>3. t = s /\ d.now = n
    BY <1>2, <2>1, <2>2, Parts
  <2>4. PICK j \in Item : j = [i EXCEPT !.amount = n] /\ j.ref = i.ref /\ j.amount = n
    <3>1. [i EXCEPT !.amount = n] \in Item /\ [i EXCEPT !.amount = n].ref = i.ref /\ [i EXCEPT !.amount = n].amount = n
      BY DEF Item
    <3>2. QED
      BY <3>1
  <2>5. x = AddItem(s, j)
    BY <1>5, <2>1, <2>3, <2>4 DEF AddItem, Change
  <2>6. QED
    BY <1>0, <2>1, <2>2, <2>3, <2>4, <2>5, AddThenChange
<1>6. CASE c.op = "move" /\ d.op = "move" /\ x = MoveItem(c.at, d.to)
  <2>1. PICK s, t \in Slots : c = MoveItem(s, t) /\ f[s] # NoItem /\ (f[t] = NoItem \/ s = t)
    BY <1>6, Kinds
  <2>2. PICK v, u \in Slots : d = MoveItem(v, u) /\ (g[u] = NoItem \/ v = u)
    BY <1>6, Kinds
  <2>3. v = t /\ c.at = s /\ d.to = u
    BY <1>2, <2>1, <2>2, Parts
  <2>4. QED
    BY <1>0, <1>6, <2>1, <2>2, <2>3, MoveThenMove
<1>7. CASE c.op = "move" /\ d.op = "remove" /\ x = RemoveItem(c.at)
  <2>1. PICK s, t \in Slots : c = MoveItem(s, t) /\ f[s] # NoItem /\ (f[t] = NoItem \/ s = t)
    BY <1>7, Kinds
  <2>2. PICK v \in Slots : d = RemoveItem(v)
    BY <1>7, Kinds
  <2>3. v = t /\ c.at = s
    BY <1>2, <2>1, <2>2, Parts
  <2>4. QED
    BY <1>0, <1>7, <2>1, <2>2, <2>3, MoveThenRemove
<1>8. CASE c.op = "change" /\ d.op = "change" /\ x = ChangeTypeData(c.at, c.was, d.now)
  <2>1. PICK s \in Slots, m, n \in Nat : c = ChangeTypeData(s, m, n) /\ f[s] # NoItem
    BY <1>8, Kinds
  <2>2. PICK t \in Slots, k, l \in Nat : d = ChangeTypeData(t, k, l)
    BY <1>8, Kinds
  <2>3. t = s /\ c.at = s /\ c.was = m /\ d.now = l
    BY <1>2, <2>1, <2>2, Parts
  <2>4. QED
    BY <1>0, <1>8, <2>1, <2>2, <2>3, ChangeThenAny
<1>9. CASE c.op = "change" /\ d.op = "remove" /\ x = d
  <2>1. PICK s \in Slots, m, n \in Nat : c = ChangeTypeData(s, m, n) /\ f[s] # NoItem
    BY <1>9, Kinds
  <2>2. PICK t \in Slots : d = RemoveItem(t)
    BY <1>9, Kinds
  <2>3. t = s
    BY <1>2, <2>1, <2>2, Parts
  <2>4. QED
    BY <1>0, <1>9, <2>1, <2>2, <2>3, ChangeThenAny
<1>10. \/ c.op = "add" /\ d.op = "add"
       \/ c.op = "add" /\ d.op = "move" /\ x = [c EXCEPT !.at = d.to, !.to = d.to]
       \/ c.op = "add" /\ d.op = "change" /\ x = [c EXCEPT !.now = d.now]
       \/ c.op = "move" /\ d.op = "move" /\ x = MoveItem(c.at, d.to)
       \/ c.op = "move" /\ d.op = "remove" /\ x = RemoveItem(c.at)
       \/ c.op = "change" /\ d.op = "change" /\ x = ChangeTypeData(c.at, c.was, d.now)
       \/ c.op = "change" /\ d.op = "remove" /\ x = d
  <2>1. PICK u, v, w, y, z :
          /\ u = [c EXCEPT !.at = d.to, !.to = d.to] /\ v = [c EXCEPT !.now = d.now]
          /\ w = MoveItem(c.at, d.to) /\ y = RemoveItem(c.at) /\ z = ChangeTypeData(c.at, c.was, d.now)
    OBVIOUS
  <2>2. \/ c.op = "add" /\ d.op = "add"
        \/ c.op = "add" /\ d.op = "move" /\ Merged(c, d) = <<u>>
        \/ c.op = "add" /\ d.op = "change" /\ Merged(c, d) = <<v>>
        \/ c.op = "move" /\ d.op = "move" /\ Merged(c, d) = <<w>>
        \/ c.op = "move" /\ d.op = "remove" /\ Merged(c, d) = <<y>>
        \/ c.op = "change" /\ d.op = "change" /\ Merged(c, d) = <<z>>
        \/ c.op = "change" /\ d.op = "remove" /\ Merged(c, d) = <<d>>
    <3>1. \/ c.op = "add" /\ d.op = "add" /\ Merged(c, d) = <<d>>
          \/ c.op = "add" /\ d.op = "move" /\ Merged(c, d) = <<[c EXCEPT !.at = d.to, !.to = d.to]>>
          \/ c.op = "add" /\ d.op = "change" /\ Merged(c, d) = <<[c EXCEPT !.now = d.now]>>
          \/ c.op = "move" /\ d.op = "move" /\ Merged(c, d) = <<MoveItem(c.at, d.to)>>
          \/ c.op = "move" /\ d.op = "remove" /\ Merged(c, d) = <<RemoveItem(c.at)>>
          \/ c.op = "change" /\ d.op = "change" /\ Merged(c, d) = <<ChangeTypeData(c.at, c.was, d.now)>>
          \/ c.op = "change" /\ d.op = "remove" /\ Merged(c, d) = <<d>>
      BY <1>1, MergedCases
    <3>2. QED
      BY <2>1, <3>1, Zenon
  <2>3. QED
    BY <1>1, <2>1, <2>2, Zenon
<1>11. QED
  BY <1>3, <1>4, <1>5, <1>6, <1>7, <1>8, <1>9, <1>10

\* Two possible changes do the same when they are optimized.
LEMMA PairSame ==
    ASSUME NEW f, NEW c \in ChangeSet, NEW d \in ChangeSet, Possible(f, c), Possible(RunChange(f, Statements(c)), d)
    PROVE  Replay(f, optimize(<<c, d>>)) = Replay(f, <<c, d>>)
<1>1. PICK g : g = RunChange(f, Statements(c))
  OBVIOUS
<1>2. Replay(f, <<c, d>>) = RunChange(g, Statements(d))
  BY <1>1, ReplayFew
<1>3. CASE Cancels(c, d)
  BY <1>1, <1>2, <1>3, OptimizePair, PairCancels, ReplayFew
<1>4. CASE ~Cancels(c, d) /\ Merged(c, d) # <<>>
  <2>1. PICK x \in ChangeSet : Merged(c, d) = <<x>>
    BY <1>4, MergedOne
  <2>2. optimize(<<c, d>>) = <<x>>
    BY <1>4, <2>1, OptimizePair
  <2>3. RunChange(g, Statements(d)) = RunChange(f, Statements(x))
    BY <1>1, <2>1, PairMerges
  <2>4. Replay(f, <<x>>) = RunChange(f, Statements(x))
    BY ReplayFew
  <2>5. QED
    BY <1>2, <2>2, <2>3, <2>4
<1>5. CASE ~Cancels(c, d) /\ ~(Merged(c, d) # <<>>)
  BY <1>5, OptimizePair
<1>6. QED
  BY <1>3, <1>4, <1>5

\* The inventory records only what was possible when it did it.
Sensible == InventoryInv /\ AllPossible(base, changes)

\* That is so throughout.
LEMMA SensibleInductive == Spec => []Sensible
<1>0. \A f : AllPossible(f, <<>>)
  BY DEF AllPossible
<1>1. Init => AllPossible(base, changes)
  BY <1>0 DEF Init
<1>2. InventoryInv /\ AllPossible(base, changes) /\ [Next]_inventoryVars => AllPossible(base, changes)'
  <2> SUFFICES ASSUME InventoryInv, AllPossible(base, changes), [Next]_inventoryVars PROVE AllPossible(base', changes')
    BY DEF AllPossible
  <2>1. CASE Moves \/ Pickups
    <3>1. base' = base /\ Told
      BY <2>1, OperationsTidy DEF InventoryInv
    <3>2. PICK new \in Seq(ChangeSet) : changes' = changes \o new /\ AllPossible(items, new)
      BY <3>1 DEF Told
    <3>3. changes \in Seq(ChangeSet) /\ Replay(base, changes) = items
      BY DEF InventoryInv, Sound, ChangesComplete
    <3>4. AllPossible(base, changes \o new)
      BY <3>2, <3>3, PossibleConcat
    <3>5. QED
      BY <3>1, <3>2, <3>4
  <2>2. CASE TakeChanges
    BY <1>0, <2>2 DEF TakeChanges
  <2>3. CASE UNCHANGED inventoryVars
    BY <2>3 DEF inventoryVars
  <2>4. QED
    BY <2>1, <2>2, <2>3 DEF Next
<1>3. QED
  BY <1>1, <1>2, InventoryInductive, PTL DEF Spec, Sensible

\* merge and optimize (changes.rs) lose nothing of two consecutive changes, in
\* whichever slots: cancelled, merged or kept, they do what was recorded.
THEOREM PairsAreFaithful == Spec => []PairsFaithful
<1>1. ASSUME Sensible PROVE PairsFaithful
  <2>1. PICK cs \in Seq(ChangeSet), n \in Nat : cs = changes /\ n = Len(cs)
    BY <1>1 DEF Sensible, InventoryInv, Sound
  <2>2. ASSUME NEW i \in 1..(n - 1)
        PROVE  Replay(Before(i), optimize(SubSeq(changes, i, i + 1))) = Replay(Before(i), SubSeq(changes, i, i + 1))
    <3>1. i \in 1..Len(cs) /\ i + 1 \in 1..Len(cs) /\ i \in Nat /\ (i + 1) - 1 = i
      BY <2>1
    <3>2. PICK c, d \in ChangeSet : c = cs[i] /\ d = cs[i + 1]
      BY <3>1
    <3>3. PICK f : f = Before(i)
      OBVIOUS
    <3>4. f = Replay(base, SubSeq(cs, 1, i - 1))
      BY <2>1, <3>3 DEF Before
    <3>5. SubSeq(cs, i, i + 1) = <<c, d>>
      <4>1. i \in Int /\ i + 1 \in Int /\ \A k \in i..(i + 1) : cs[k] \in ChangeSet
        BY <2>1, <3>1
      <4>2. PICK two \in Seq(ChangeSet) : /\ two = SubSeq(cs, i, i + 1) /\ (Len(two) = IF i <= i + 1 THEN (i + 1) - i + 1 ELSE 0)
                                          /\ \A k \in 1..((i + 1) - i + 1) : two[k] = cs[i + k - 1]
        <5>1. PICK w : w = SubSeq(cs, i, i + 1)
          OBVIOUS
        <5>2. /\ w \in Seq(ChangeSet) /\ (Len(w) = IF i <= i + 1 THEN (i + 1) - i + 1 ELSE 0)
              /\ \A k \in 1..((i + 1) - i + 1) : w[k] = cs[i + k - 1]
          BY <4>1, <5>1, SubSeqProperties
        <5>3. QED
          BY <5>1, <5>2
      <4>3. /\ (IF i <= i + 1 THEN (i + 1) - i + 1 ELSE 0) = 2 /\ 1 \in 1..((i + 1) - i + 1)
            /\ 2 \in 1..((i + 1) - i + 1) /\ i + 1 - 1 = i /\ i + 2 - 1 = i + 1
        BY <3>1
      <4>4. Len(two) = 2 /\ two[1] = c /\ two[2] = d
        BY <3>2, <4>2, <4>3
      <4>5. two = <<two[1], two[2]>>
        BY <4>4
      <4>6. QED
        BY <4>2, <4>4, <4>5
    <3>6. PICK old \in Seq(ChangeSet) : old = SubSeq(cs, 1, i - 1) /\ SubSeq(cs, 1, i) = old \o <<c>>
      BY <3>1, <3>2, Longer
    <3>7. Replay(base, SubSeq(cs, 1, i)) = RunChange(f, Statements(c))
      <4>1. <<c>> \in Seq(ChangeSet)
        OBVIOUS
      <4>2. Replay(base, old \o <<c>>) = Replay(Replay(base, old), <<c>>)
        BY <4>1, ReplayConcat
      <4>3. QED
        BY <3>4, <3>6, <4>2, ReplayFew
    <3>8. \A k \in 1..Len(cs) : Possible(Replay(base, SubSeq(cs, 1, k - 1)), cs[k])
      BY <1>1, <2>1 DEF Sensible, AllPossible
    <3>9. Possible(f, c)
      BY <3>1, <3>2, <3>4, <3>8
    <3>10. Possible(Replay(base, SubSeq(cs, 1, (i + 1) - 1)), cs[i + 1])
      BY <3>1, <3>8
    <3>11. Possible(RunChange(f, Statements(c)), d)
      BY <3>1, <3>2, <3>7, <3>10
    <3>12. QED
      BY <2>1, <3>3, <3>5, <3>9, <3>11, PairSame
  <2>3. QED
    BY <2>1, <2>2 DEF PairsFaithful
<1>2. QED
  BY <1>1, SensibleInductive, PTL

-----------------------------------------------------------------------------
(* What a player owns.                                                     *)

\* How much of an item is in a slot.
Held(f, s, ref) == IF f[s].ref = ref THEN f[s].amount ELSE 0

\* The slot that the sum takes from a set first.
FirstOf(S) == CHOOSE s \in S : TRUE

\* Taking a slot out of a set of them.
LEMMA FewerSlots ==
    /\ \A S \in SUBSET Slots : IsFiniteSet(S) /\ Cardinality(S) \in Nat /\ Cardinality(S) <= Cardinality(Slots)
    /\ \A S \in SUBSET Slots : S # {} => /\ FirstOf(S) \in S /\ S \ {FirstOf(S)} \in SUBSET Slots
                                         /\ Cardinality(S \ {FirstOf(S)}) = Cardinality(S) - 1 /\ Cardinality(S) > 0
<1>1. IsFiniteSet(Slots)
  <2>1. Slots \in SUBSET Nat /\ 255 \in Nat /\ \A s \in Slots : s <= 255
    BY InventoryAssumption
  <2>2. QED
    BY <2>1, FS_BoundedSetOfNaturals
<1>2. \A S \in SUBSET Slots : IsFiniteSet(S) /\ Cardinality(S) \in Nat /\ Cardinality(S) <= Cardinality(Slots)
  BY <1>1, FS_Subset, FS_CardinalityType
<1>3. ASSUME NEW S \in SUBSET Slots, S # {}
      PROVE  /\ FirstOf(S) \in S /\ S \ {FirstOf(S)} \in SUBSET Slots
             /\ Cardinality(S \ {FirstOf(S)}) = Cardinality(S) - 1 /\ Cardinality(S) > 0
  <2>1. FirstOf(S) \in S
    BY <1>3 DEF FirstOf
  <2>2. Cardinality(S \ {FirstOf(S)}) = Cardinality(S) - 1
    BY <1>2, <2>1, FS_RemoveElement
  <2>3. Cardinality(S) # 0
    BY <1>2, <1>3, FS_EmptySet
  <2>4. QED
    BY <1>2, <2>1, <2>2, <2>3
<1>4. QED
  BY <1>2, <1>3

\* What Owned adds up.
Adds(f, ref, u) ==
    \A S \in SUBSET Slots : u[S] = IF S = {} THEN 0 ELSE Held(f, FirstOf(S), ref) + u[S \ {FirstOf(S)}]

\* The sum is defined for every set of slots.
LEMMA OwnedIs ==
    ASSUME NEW f, NEW ref
    PROVE  \E u : Adds(f, ref, u) /\ Owned(f, ref) = u[Slots]
<1> DEFINE Small(n) == {S \in SUBSET Slots : Cardinality(S) <= n}
           Up(g, n) == /\ DOMAIN g = Small(n) /\ g = [S \in Small(n) |-> g[S]] /\ g[{}] = 0
                       /\ \A S \in Small(n) : S # {} => g[S] = Held(f, FirstOf(S), ref) + g[S \ {FirstOf(S)}]
           Bad == {n \in Nat : ~\E g : Up(g, n)}
<1>e. Cardinality({}) = 0 /\ \A n \in Nat : {} \in Small(n)
  BY FS_EmptySet
<1>s. \A n \in Nat : \A S \in Small(n) : S # {} => n - 1 \in Nat /\ S \ {FirstOf(S)} \in Small(n - 1)
  <2>1. \A S \in SUBSET Slots : S # {} => /\ S \ {FirstOf(S)} \in SUBSET Slots /\ Cardinality(S) > 0
                                          /\ Cardinality(S \ {FirstOf(S)}) = Cardinality(S) - 1 /\ Cardinality(S) \in Nat
    BY FewerSlots, Zenon
  <2>2. \A n, c \in Nat : c <= n /\ c > 0 => n - 1 \in Nat /\ c - 1 <= n - 1
    OBVIOUS
  <2>3. QED
    BY <2>1, <2>2
<1>1. ASSUME Bad # {} PROVE FALSE
  <2>1. PICK n \in Bad : \A m \in Bad : n <= m
    BY <1>1, Least
  <2>2. CASE n = 0
    <3>1. ASSUME NEW S \in Small(0), S # {} PROVE FALSE
      <4>1. Cardinality(S) \in Nat /\ Cardinality(S) > 0 /\ Cardinality(S) <= 0
        BY <3>1, FewerSlots
      <4>2. QED
        BY <4>1
    <3>2. PICK g : g = [S \in Small(0) |-> 0]
      OBVIOUS
    <3>3. Up(g, 0)
      BY <1>e, <3>1, <3>2
    <3>4. QED
      BY <2>1, <2>2, <3>3
  <2>3. CASE n # 0
    <3>1. n - 1 \in Nat /\ n \in Nat /\ ~(n <= n - 1)
      BY <2>1, <2>3
    <3>2. n - 1 \notin Bad
      BY <2>1, <3>1, Zenon
    <3>3. PICK h : Up(h, n - 1)
      BY <3>1, <3>2
    <3>4. PICK g : g = [S \in Small(n) |-> IF S = {} THEN 0 ELSE Held(f, FirstOf(S), ref) + h[S \ {FirstOf(S)}]]
      OBVIOUS
    <3>5. ASSUME NEW S \in Small(n - 1) PROVE S \in Small(n) /\ g[S] = h[S]
      <4>1. S \in Small(n)
        BY <3>1, FewerSlots
      <4>2. QED
        BY <3>3, <3>4, <4>1
    <3>6. DOMAIN g = Small(n) /\ g = [S \in Small(n) |-> g[S]] /\ g[{}] = 0
      BY <1>e, <3>1, <3>4
    <3>7. ASSUME NEW S \in Small(n), S # {} PROVE g[S] = Held(f, FirstOf(S), ref) + g[S \ {FirstOf(S)}]
      <4>1. S \ {FirstOf(S)} \in Small(n - 1)
        BY <1>s, <3>1, <3>7
      <4>2. g[S \ {FirstOf(S)}] = h[S \ {FirstOf(S)}]
        BY <3>5, <4>1
      <4>3. QED
        BY <3>4, <3>7, <4>2
    <3>8. Up(g, n)
      BY <3>6, <3>7
    <3>9. QED
      BY <2>1, <3>8
  <2>4. QED
    BY <2>2, <2>3
<1>2. PICK n \in Nat : n = Cardinality(Slots)
  BY FewerSlots
<1>3. Small(n) = SUBSET Slots
  BY <1>2, FewerSlots
<1>4. PICK g : Up(g, n)
  BY <1>1
<1>5. g = [S \in SUBSET Slots |-> IF S = {} THEN 0 ELSE Held(f, FirstOf(S), ref) + g[S \ {FirstOf(S)}]]
  <2>1. \A S \in SUBSET Slots : g[S] = IF S = {} THEN 0 ELSE Held(f, FirstOf(S), ref) + g[S \ {FirstOf(S)}]
    BY <1>3, <1>4
  <2>2. g = [S \in SUBSET Slots |-> g[S]]
    BY <1>3, <1>4
  <2>3. QED
    BY <2>1, <2>2
<1>6. PICK u : u = CHOOSE w : w = [S \in SUBSET Slots |-> IF S = {} THEN 0 ELSE Held(f, FirstOf(S), ref) + w[S \ {FirstOf(S)}]]
  OBVIOUS
<1>7. u = [S \in SUBSET Slots |-> IF S = {} THEN 0 ELSE Held(f, FirstOf(S), ref) + u[S \ {FirstOf(S)}]]
  BY <1>5, <1>6
<1>8. Adds(f, ref, u)
  BY <1>7 DEF Adds
<1>9. Owned(f, ref) = u[Slots]
  BY <1>6 DEF Owned, FirstOf, Held
<1>10. QED
  BY <1>8, <1>9

\* What is in a slot is a number.
LEMMA HeldType == \A f \in Store : \A s \in Slots, ref \in Refs : Held(f, s, ref) \in Nat
<1> SUFFICES ASSUME NEW f \in Store, NEW s \in Slots, NEW ref \in Refs PROVE Held(f, s, ref) \in Nat
  OBVIOUS
<1>1. CASE f[s] = NoItem
  BY <1>1 DEF Held, NoItem
<1>2. CASE f[s] # NoItem
  <2>1. f[s] \in Item /\ f[s].amount \in Nat
    BY <1>2, Basics
  <2>2. QED
    BY <2>1 DEF Held
<1>3. QED
  BY <1>1, <1>2

\* One slot changes: so does the sum.
LEMMA OwnedChanges ==
    ASSUME NEW f \in Store, NEW g \in Store, NEW ref \in Refs, NEW a \in Slots,
           \A s \in Slots \ {a} : g[s] = f[s]
    PROVE  /\ Owned(f, ref) \in Nat /\ Owned(g, ref) \in Nat
           /\ Owned(g, ref) + Held(f, a, ref) = Owned(f, ref) + Held(g, a, ref)
<1>1. PICK u : Adds(f, ref, u) /\ Owned(f, ref) = u[Slots]
  BY OwnedIs
<1>2. PICK w : Adds(g, ref, w) /\ Owned(g, ref) = w[Slots]
  BY OwnedIs
<1>3. PICK was, now \in Nat : was = Held(f, a, ref) /\ now = Held(g, a, ref)
  BY HeldType
<1> DEFINE Right(S) == /\ u[S] \in Nat /\ w[S] \in Nat
                       /\ IF a \in S THEN w[S] + was = u[S] + now ELSE w[S] = u[S]
           Odd == {m \in Nat : \E S \in SUBSET Slots : Cardinality(S) = m /\ ~Right(S)}
<1>4. ASSUME Odd # {} PROVE FALSE
  <2>1. PICK m \in Odd : \A k \in Odd : m <= k
    BY <1>4, Least
  <2>2. PICK S \in SUBSET Slots : Cardinality(S) = m /\ ~Right(S)
    BY <2>1
  <2>3. S # {}
    <3>1. SUFFICES ASSUME S = {} PROVE FALSE
      OBVIOUS
    <3>2. u[S] = 0 /\ w[S] = 0 /\ a \notin S
      BY <1>1, <1>2, <3>1 DEF Adds
    <3>3. QED
      BY <2>2, <3>2
  <2>4. PICK x, R : x = FirstOf(S) /\ R = S \ {FirstOf(S)}
    OBVIOUS
  <2>5. x \in S /\ R = S \ {x} /\ R \in SUBSET Slots /\ Cardinality(R) = m - 1 /\ m > 0
    BY <2>2, <2>3, <2>4, FewerSlots
  <2>6. m - 1 \in Nat /\ ~(m <= m - 1)
    BY <2>1, <2>5
  <2>7. m - 1 \notin Odd
    BY <2>1, <2>6, Zenon
  <2>8. Right(R)
    BY <2>5, <2>6, <2>7
  <2>9. u[S] = Held(f, x, ref) + u[R]
    BY <1>1, <2>3, <2>4 DEF Adds
  <2>10. w[S] = Held(g, x, ref) + w[R]
    BY <1>2, <2>3, <2>4 DEF Adds
  <2>11. x \in Slots
    BY <2>2, <2>5
  <2>12. PICK b, c \in Nat : b = Held(f, x, ref) /\ c = Held(g, x, ref)
    BY <2>11, HeldType
  <2>13. PICK ur, wr \in Nat : ur = u[R] /\ wr = w[R]
    BY <2>8
  <2>14. u[S] = b + ur /\ w[S] = c + wr
    BY <2>9, <2>10, <2>12, <2>13
  <2>15. CASE x = a
    <3>1. a \in S /\ a \notin R /\ b = was /\ c = now
      BY <1>3, <2>5, <2>12, <2>15
    <3>2. wr = ur
      BY <2>8, <2>13, <3>1
    <3>3. Right(S)
      BY <2>14, <3>1, <3>2
    <3>4. QED
      BY <2>2, <3>3
  <2>16. CASE x # a
    <3>1. (a \in S <=> a \in R) /\ b = c
      BY <2>5, <2>11, <2>12, <2>16 DEF Held
    <3>2. Right(S)
      BY <2>8, <2>13, <2>14, <3>1
    <3>3. QED
      BY <2>2, <3>2
  <2>17. QED
    BY <2>15, <2>16
<1>5. Right(Slots)
  <2>1. Slots \in SUBSET Slots /\ Cardinality(Slots) \in Nat
    BY FewerSlots
  <2>2. QED
    BY <1>4, <2>1
<1>6. QED
  BY <1>1, <1>2, <1>3, <1>5

\* Two slots change.
LEMMA OwnedMoves ==
    ASSUME NEW f \in Store, NEW g \in Store, NEW ref \in Refs, NEW s \in Slots, NEW t \in Slots, s # t,
           \A r \in Slots \ {s, t} : g[r] = f[r]
    PROVE  /\ Owned(f, ref) \in Nat /\ Owned(g, ref) \in Nat
           /\ Owned(g, ref) + Held(f, s, ref) + Held(f, t, ref)
                = Owned(f, ref) + Held(g, s, ref) + Held(g, t, ref)
<1>1. PICK h \in Store : h = [f EXCEPT ![s] = g[s]]
  BY Basics DEF Store
<1>2. h[s] = g[s] /\ \A r \in Rows \ {s} : h[r] = f[r]
  BY <1>1, Basics DEF Store
<1>3. (\A r \in Slots \ {s} : h[r] = f[r]) /\ (\A r \in Slots \ {t} : g[r] = h[r]) /\ h[t] = f[t]
  BY <1>2, Basics
<1>4. Owned(f, ref) \in Nat /\ Owned(h, ref) \in Nat /\ Owned(h, ref) + Held(f, s, ref) = Owned(f, ref) + Held(h, s, ref)
  BY <1>3, OwnedChanges
<1>5. Owned(g, ref) \in Nat /\ Owned(g, ref) + Held(h, t, ref) = Owned(h, ref) + Held(g, t, ref)
  BY <1>3, OwnedChanges
<1>6. Held(h, s, ref) = Held(g, s, ref) /\ Held(h, t, ref) = Held(f, t, ref)
  BY <1>2, <1>3 DEF Held
<1>7. PICK a, b, c, d \in Nat : a = Held(f, s, ref) /\ b = Held(f, t, ref) /\ c = Held(g, s, ref) /\ d = Held(g, t, ref)
  BY HeldType
<1>8. QED
  BY <1>4, <1>5, <1>6, <1>7

\* There are no stacks of nothing.
Positive(f) == \A s \in Slots : f[s] # NoItem => f[s].amount > 0

\* What moving to an empty slot and swapping do.
LEMMA ExchangeDoes ==
    ASSUME Sound, Sound', NEW s \in Slots, NEW t \in Slots, MoveToEmptySlot(s, t) \/ SwapItems(s, t)
    PROVE  \/ items' = items
           \/ /\ s # t /\ items'[s] = items[t] /\ items'[t] = items[s]
              /\ \A r \in Slots \ {s, t} : items'[r] = items[r]
<1>1. PICK f, g \in Store : f = items /\ g = items'
  BY DEF Sound
<1>2. s \in Rows /\ t \in Rows /\ Slots \subseteq Rows
  BY Basics
<1>3. g = f \/ (s # t /\ g = [f EXCEPT ![t] = f[s], ![s] = f[t]])
  BY <1>1, Zenon DEF MoveToEmptySlot, SwapItems
<1>4. CASE s # t /\ g = [f EXCEPT ![t] = f[s], ![s] = f[t]]
  <2>1. g[s] = f[t] /\ g[t] = f[s] /\ \A r \in Slots \ {s, t} : g[r] = f[r]
    BY <1>2, <1>4 DEF Store
  <2>2. QED
    BY <1>1, <1>4, <2>1
<1>5. QED
  BY <1>1, <1>3, <1>4

\* What stacking does.
LEMMA StackAllDoes ==
    ASSUME Sound, Sound', NEW s \in Slots, NEW t \in Slots, items[s] # NoItem,
           NEW amount \in Nat \ {0}, StackAll(s, t, amount)
    PROVE  /\ s # t /\ items[t] # NoItem /\ items[s].ref = items[t].ref
           /\ items'[s] = NoItem /\ items'[t] # NoItem /\ items'[t].ref = items[t].ref
           /\ items'[t].amount = items[t].amount + amount
           /\ \A r \in Slots \ {s, t} : items'[r] = items[r]
<1>1. PICK f, g \in Store : f = items /\ g = items'
  BY DEF Sound
<1>2. s \in Rows /\ t \in Rows /\ Slots \subseteq Rows
  BY Basics
<1>3. s # t /\ f[t] # NoItem /\ f[s].ref = f[t].ref /\ f[t] \in Item /\ f[t].amount \in Nat
  <2>1. s # t /\ items[t] # NoItem /\ items[s].ref = items[t].ref
    BY DEF StackAll, Stacks
  <2>2. QED
    BY <1>1, <2>1, Holds
<1>4. PICK n \in Nat : n = f[t].amount + amount
  <2>1. PICK k \in Nat : k = f[t].amount
    BY <1>3
  <2>2. k + amount \in Nat
    OBVIOUS
  <2>3. QED
    BY <2>1, <2>2
<1>5. PICK v \in Item : v = [f[t] EXCEPT !.amount = n]
  BY <1>3, Basics
<1>6. v.amount = n /\ v.ref = f[t].ref /\ v # NoItem
  BY <1>3, <1>5, Basics DEF Item
<1>7. g = [f EXCEPT ![t] = v, ![s] = NoItem]
  BY <1>1, <1>4, <1>5, Zenon DEF StackAll, Put
<1>8. g[s] = NoItem /\ g[t] = v /\ \A r \in Slots \ {s, t} : g[r] = f[r]
  BY <1>2, <1>3, <1>7 DEF Store
<1>9. QED
  BY <1>1, <1>3, <1>4, <1>6, <1>8

\* What stacking a part does.
LEMMA StackSomeDoes ==
    ASSUME Sound, Sound', NEW s \in Slots, NEW t \in Slots, items[s] # NoItem,
           NEW amount \in Nat \ {0}, StackSome(s, t, amount)
    PROVE  /\ s # t /\ items[t] # NoItem /\ items[s].ref = items[t].ref /\ Left(t) > 0 /\ Left(t) <= items[s].amount
           /\ items'[s] # NoItem /\ items'[s].ref = items[s].ref /\ items'[s].amount = items[s].amount - Left(t)
           /\ items'[t] # NoItem /\ items'[t].ref = items[t].ref /\ items'[t].amount = items[t].amount + Left(t)
           /\ \A r \in Slots \ {s, t} : items'[r] = items[r]
<1>1. PICK f, g \in Store : f = items /\ g = items'
  BY DEF Sound
<1>2. s \in Rows /\ t \in Rows /\ Slots \subseteq Rows
  BY Basics
<1>3. /\ s # t /\ f[t] # NoItem /\ f[t] \in Item /\ f[t].ref \in Refs /\ f[t].amount \in Nat /\ MaxStack[f[t].ref] \in Nat
      /\ f[s] \in Item /\ f[s].amount \in Nat /\ f[s].ref = f[t].ref
      /\ Left(t) = MaxStack[f[t].ref] - f[t].amount /\ Left(t) > 0 /\ Left(t) <= f[s].amount
  <2>1. /\ s # t /\ items[t] # NoItem /\ Left(t) > 0 /\ Left(t) <= items[s].amount
        /\ items[s].ref = items[t].ref
    BY DEF StackSome, Stacks
  <2>2. QED
    BY <1>1, <2>1, Holds
<1>4. PICK l, max \in Nat : l = f[s].amount - Left(t) /\ max = MaxStack[f[t].ref] /\ max = f[t].amount + Left(t)
  BY <1>3
<1>5. PICK v, w \in Item : v = [f[t] EXCEPT !.amount = max] /\ w = [f[s] EXCEPT !.amount = l]
  BY <1>3, Basics
<1>6. v.amount = max /\ v.ref = f[t].ref /\ v # NoItem /\ w.amount = l /\ w.ref = f[s].ref /\ w # NoItem
  BY <1>3, <1>5, Basics DEF Item
<1>7. g = [f EXCEPT ![t] = v, ![s] = w]
  BY <1>1, <1>4, <1>5, Zenon DEF StackSome, Put
<1>8. g[s] = w /\ g[t] = v /\ \A r \in Slots \ {s, t} : g[r] = f[r]
  BY <1>2, <1>3, <1>7 DEF Store
<1>9. QED
  BY <1>1, <1>3, <1>4, <1>6, <1>8

\* What adding a drop to a stack does.
LEMMA AddToStackDoes ==
    ASSUME Sound, Sound', NEW item \in Drops, NEW s \in Slots, AddToStack(item, s)
    PROVE  /\ items[s] # NoItem /\ items[s].ref = item.ref
           /\ items'[s] # NoItem /\ items'[s].ref = item.ref /\ items'[s].amount = items[s].amount + item.amount
           /\ \A r \in Slots \ {s} : items'[r] = items[r]
<1>1. PICK f, g \in Store : f = items /\ g = items'
  BY DEF Sound
<1>2. s \in Rows /\ Slots \subseteq Rows
  BY Basics
<1>3. item.ref \in Refs /\ item.amount \in Nat
  BY DropIs
<1>4. f[s].ref = item.ref /\ f[s] # NoItem /\ f[s] \in Item /\ f[s].amount \in Nat
  <2>1. items[s] # NoItem /\ items[s].ref = item.ref
    BY <1>3, OpenIs DEF AddToStack
  <2>2. QED
    BY <1>1, <2>1, Holds
<1>5. PICK n \in Nat : n = f[s].amount + item.amount
  BY <1>3, <1>4
<1>6. PICK v \in Item : v = [f[s] EXCEPT !.amount = n]
  BY <1>4, <1>5, Basics
<1>7. v.amount = n /\ v.ref = item.ref /\ v # NoItem
  BY <1>4, <1>6, Basics DEF Item
<1>8. g = [f EXCEPT ![s] = v]
  BY <1>1, <1>5, <1>6, Zenon DEF AddToStack, Put
<1>9. g[s] = v /\ \A r \in Slots \ {s} : g[r] = f[r]
  BY <1>2, <1>8 DEF Store
<1>10. QED
  BY <1>1, <1>4, <1>5, <1>7, <1>9

\* What adding one that fills the stack does.
LEMMA OverflowStackDoes ==
    ASSUME Sound, Sound', NEW item \in Drops, NEW s \in Slots, OverflowStack(item, s)
    PROVE  /\ items[s] # NoItem /\ items[s].ref = item.ref /\ Left(s) > 0 /\ Left(s) < item.amount
           /\ items'[s] # NoItem /\ items'[s].ref = item.ref /\ items'[s].amount = items[s].amount + Left(s)
           /\ \/ Free = {} /\ \A r \in Slots \ {s} : items'[r] = items[r]
              \/ \E k \in Slots \ {s} :
                   /\ items[k] = NoItem /\ items'[k] # NoItem
                   /\ items'[k].ref = item.ref /\ items'[k].amount = item.amount - Left(s)
                   /\ \A r \in Slots \ {s, k} : items'[r] = items[r]
<1>1. PICK f, g \in Store : f = items /\ g = items'
  BY DEF Sound
<1>2. s \in Rows /\ Slots \subseteq Rows
  BY Basics
<1>3. item \in Item /\ item.ref \in Refs /\ item.amount \in Nat
  BY DropIs
<1>4. /\ f[s].ref = item.ref /\ f[s] # NoItem /\ f[s] \in Item /\ f[s].amount \in Nat
      /\ Left(s) = MaxStack[item.ref] - f[s].amount
      /\ MaxStack[item.ref] \in Nat /\ item.amount > Left(s) /\ Left(s) > 0
  <2>1. items[s] # NoItem /\ items[s].ref = item.ref /\ Left(s) > 0
    BY <1>3, OpenIs DEF OverflowStack
  <2>2. item.amount > Left(s)
    BY DEF OverflowStack
  <2>3. QED
    BY <1>1, <2>1, <2>2, Holds
<1>5. PICK l, max \in Nat : l = item.amount - Left(s) /\ max = MaxStack[item.ref] /\ max = f[s].amount + Left(s)
  BY <1>3, <1>4
<1>6. PICK v, w \in Item : v = [f[s] EXCEPT !.amount = max] /\ w = [item EXCEPT !.amount = l]
  BY <1>3, <1>4, <1>5, Basics
<1>7. v.amount = max /\ v.ref = item.ref /\ v # NoItem /\ w.amount = l /\ w.ref = item.ref /\ w # NoItem
  BY <1>3, <1>4, <1>6, Basics DEF Item
<1>8. CASE Free = {}
  <2>1. g = [f EXCEPT ![s] = v]
    BY <1>1, <1>5, <1>6, <1>8, Zenon DEF OverflowStack, Put
  <2>2. g[s] = v /\ \A r \in Slots \ {s} : g[r] = f[r]
    BY <1>2, <2>1 DEF Store
  <2>3. QED
    BY <1>1, <1>4, <1>5, <1>7, <1>8, <2>2
<1>9. CASE Free # {}
  <2>1. PICK k \in Slots : k = Min(Free) /\ f[k] = NoItem
    BY <1>1, <1>9, FirstFree
  <2>2. g = [f EXCEPT ![s] = v, ![k] = w]
    BY <1>1, <1>5, <1>6, <1>9, <2>1, Zenon DEF OverflowStack, Put
  <2>3. k # s /\ k \in Rows
    BY <1>2, <1>4, <2>1
  <2>4. g[s] = v /\ g[k] = w /\ \A r \in Slots \ {s, k} : g[r] = f[r]
    BY <1>2, <2>2, <2>3 DEF Store
  <2>5. k \in Slots \ {s}
    BY <2>3
  <2>6. QED
    BY <1>1, <1>4, <1>5, <1>7, <2>1, <2>4, <2>5
<1>10. QED
  BY <1>8, <1>9

\* What adding one to a free slot does.
LEMMA AddToFreeSlotDoes ==
    ASSUME Sound, Sound', NEW item \in Drops, AddToFreeSlot(item)
    PROVE  \E k \in Slots : items[k] = NoItem /\ items'[k] = item /\ \A r \in Slots \ {k} : items'[r] = items[r]
<1>1. PICK f, g \in Store : f = items /\ g = items'
  BY DEF Sound
<1>2. Slots \subseteq Rows
  BY Basics
<1>3. PICK k \in Slots : k = Min(Free) /\ f[k] = NoItem
  BY <1>1, FirstFree DEF AddToFreeSlot
<1>4. g = [f EXCEPT ![k] = item]
  BY <1>1, <1>3, Zenon DEF AddToFreeSlot
<1>5. g[k] = item /\ \A r \in Slots \ {k} : g[r] = f[r]
  BY <1>2, <1>4 DEF Store
<1>6. QED
  BY <1>1, <1>3, <1>5

\* No stack becomes empty: the only one that could is open, and so is its target.
LEMMA StaysPositive ==
    ASSUME Sound, Sound', Tidy(items), Positive(items), Moves \/ Pickups
    PROVE  Positive(items')
<1>1. CASE Moves
  <2>1. PICK s, t \in Slots, amount \in Nat \ {0} : move_item(s, t, amount)
    BY <1>1, MovesAre
  <2>2. items[s] # NoItem
    BY <2>1 DEF move_item
  <2>3. CASE MoveToEmptySlot(s, t) \/ SwapItems(s, t)
    BY <2>3, ExchangeDoes DEF Positive
  <2>4. CASE StackAll(s, t, amount)
    <3>1. /\ s # t /\ items[t] # NoItem /\ items'[s] = NoItem /\ items'[t].amount = items[t].amount + amount
          /\ \A r \in Slots \ {s, t} : items'[r] = items[r]
      BY <2>2, <2>4, StackAllDoes
    <3>2. items[t].amount \in Nat
      BY <3>1, Holds
    <3>3. items'[t].amount > 0
      BY <3>1, <3>2
    <3>4. QED
      BY <3>1, <3>3 DEF Positive
  <2>5. CASE StackSome(s, t, amount)
    <3>1. /\ s # t /\ items[t] # NoItem /\ items[s].ref = items[t].ref /\ Left(t) > 0
          /\ items'[s].amount = items[s].amount - Left(t) /\ items'[t].amount = items[t].amount + Left(t)
          /\ \A r \in Slots \ {s, t} : items'[r] = items[r]
      BY <2>2, <2>5, StackSomeDoes
    <3>2. PICK m, n, max, l \in Nat :
            m = items[t].amount /\ n = items[s].amount /\ max = MaxStack[items[t].ref] /\ l = Left(t) /\ l = max - m
      BY <2>2, <3>1, Holds
    <3>3. m > 0 /\ n <= max
      BY <2>2, <3>1, <3>2 DEF Positive, Tidy, Filled
    <3>4. Open(items, t)
      BY <3>1, <3>2, Holds DEF Open
    <3>5. ~Open(items, s)
      BY <3>1, <3>4 DEF Tidy, Lone
    <3>6. n = max
      BY <2>2, <3>1, <3>2, <3>3, <3>5 DEF Open
    <3>7. items'[s].amount > 0 /\ items'[t].amount > 0
      BY <3>1, <3>2, <3>3, <3>6
    <3>8. QED
      BY <3>1, <3>7 DEF Positive
  <2>6. CASE StackFails(s, t, amount)
    BY <2>2, <2>6, NoFailure
  <2>7. QED
    BY <2>1, <2>3, <2>4, <2>5, <2>6 DEF move_item
<1>2. CASE Pickups
  <2>1. PICK item \in Drops : add_item(item)
    BY <1>2 DEF Pickups
  <2>2. item.amount \in Nat /\ item.amount > 0
    BY DropIs
  <2>3. CASE \E s \in Slots : AddToStack(item, s)
    <3>1. PICK s \in Slots : AddToStack(item, s)
      BY <2>3
    <3>2. items[s].amount \in Nat /\ items'[s].amount = items[s].amount + item.amount /\ \A r \in Slots \ {s} : items'[r] = items[r]
      BY <3>1, AddToStackDoes, Holds
    <3>3. items'[s].amount > 0
      BY <2>2, <3>2
    <3>4. QED
      BY <3>2, <3>3 DEF Positive
  <2>4. CASE \E s \in Slots : OverflowStack(item, s)
    <3>1. PICK s \in Slots : OverflowStack(item, s)
      BY <2>4
    <3>2. /\ items[s].amount \in Nat /\ Left(s) \in Int /\ Left(s) > 0 /\ Left(s) < item.amount
          /\ items'[s].amount = items[s].amount + Left(s)
      BY <3>1, OverflowStackDoes, Holds
    <3>3. items'[s].amount > 0 /\ item.amount - Left(s) > 0
      BY <2>2, <3>2
    <3>4. \/ \A r \in Slots \ {s} : items'[r] = items[r]
          \/ \E k \in Slots \ {s} : /\ items'[k].amount = item.amount - Left(s)
                                    /\ \A r \in Slots \ {s, k} : items'[r] = items[r]
      BY <3>1, OverflowStackDoes
    <3>5. QED
      BY <3>3, <3>4 DEF Positive
  <2>5. CASE AddToFreeSlot(item)
    BY <2>2, <2>5, AddToFreeSlotDoes DEF Positive
  <2>6. QED
    BY <2>1, <2>3, <2>4, <2>5 DEF add_item
<1>3. QED
  BY <1>1, <1>2

Owning == InventoryInv /\ Positive(items)

\* The inductive invariant of an inventory, with that.
LEMMA OwningInductive == Spec => []Owning
<1>1. Init => Positive(items)
  <2>1. \A s \in Slots : NoItems[s] = NoItem
    BY Basics DEF NoItems
  <2>2. QED
    BY <2>1 DEF Init, Positive
<1>2. InventoryInv /\ InventoryInv' /\ Positive(items) /\ [Next]_inventoryVars => Positive(items)'
  <2> SUFFICES ASSUME InventoryInv, InventoryInv', Positive(items), [Next]_inventoryVars PROVE Positive(items')
    OBVIOUS
  <2>1. CASE Moves \/ Pickups
    BY <2>1, StaysPositive DEF InventoryInv
  <2>2. CASE TakeChanges \/ UNCHANGED inventoryVars
    BY <2>2 DEF TakeChanges, inventoryVars
  <2>3. QED
    BY <2>1, <2>2 DEF Next
<1>3. QED
  BY <1>1, <1>2, InventoryInductive, PTL DEF Spec, Owning

\* A stack that is moved stays what it is, wherever it ends up, unless all of it is
\* put onto another for the number that was named.
LEMMA MoveCounts ==
    ASSUME Owning, Owning', NEW s \in Slots, NEW t \in Slots, NEW amount \in Nat \ {0}, move_item(s, t, amount), NEW ref \in Refs
    PROVE  Owned(items', ref) = Owned(items, ref) + Gained(s, t, amount, ref)
<1>1. s \in Slots /\ t \in Slots /\ Sound /\ Sound' /\ Tidy(items) /\ Positive(items)
  BY DEF Owning, InventoryInv
<1>2. items[s] # NoItem
  BY DEF move_item
<1>4. items[s].amount \in Nat /\ items[s].amount > 0
  BY <1>1, <1>2, Holds DEF Positive
<1>5. PICK f, g \in Store : f = items /\ g = items'
  BY <1>1 DEF Sound
<1>6. NoItem.ref # ref
  BY InventoryAssumption DEF NoItem
<1>7. CASE MoveToEmptySlot(s, t) \/ SwapItems(s, t)
  <2>1. g = f \/ (s # t /\ g[s] = f[t] /\ g[t] = f[s] /\ \A r \in Slots \ {s, t} : g[r] = f[r])
    BY <1>1, <1>5, <1>7, ExchangeDoes
  <2>0. Gained(s, t, amount, ref) = 0
    BY <1>7 DEF MoveToEmptySlot, SwapItems, Stacks, Gained
  <2>2. CASE g = f
    <3>1. Owned(f, ref) \in Nat
      BY <1>1, <2>2, OwnedChanges
    <3>2. QED
      BY <1>5, <2>0, <2>2, <3>1
  <2>3. CASE g # f
    <3>1. /\ Owned(f, ref) \in Nat /\ Owned(g, ref) \in Nat
          /\ Owned(g, ref) + Held(f, s, ref) + Held(f, t, ref) = Owned(f, ref) + Held(g, s, ref) + Held(g, t, ref)
      BY <1>1, <2>1, <2>3, OwnedMoves
    <3>2. Held(g, s, ref) = Held(f, t, ref) /\ Held(g, t, ref) = Held(f, s, ref)
      BY <2>1, <2>3 DEF Held
    <3>3. PICK a, b \in Nat : a = Held(f, s, ref) /\ b = Held(f, t, ref)
      BY <1>1, HeldType
    <3>4. PICK m, n \in Nat : m = Owned(f, ref) /\ n = Owned(g, ref)
      BY <3>1
    <3>5. n + a + b = m + b + a
      BY <3>1, <3>2, <3>3, <3>4
    <3>6. n = m
      BY <3>5
    <3>7. QED
      BY <1>5, <2>0, <3>4, <3>6
  <2>4. QED
    BY <2>2, <2>3
<1>8. CASE StackAll(s, t, amount)
  <2>1. /\ s # t /\ items[t] # NoItem /\ f[s].ref = f[t].ref /\ g[s] = NoItem
        /\ g[t].ref = f[t].ref /\ g[t].amount = f[t].amount + amount
        /\ \A r \in Slots \ {s, t} : g[r] = f[r]
    BY <1>1, <1>2, <1>5, <1>8, StackAllDoes
  <2>0. Gained(s, t, amount, ref) = IF f[s].ref = ref THEN amount - f[s].amount ELSE 0
    BY <1>5, <1>8 DEF StackAll, Gained
  <2>2. /\ Owned(f, ref) \in Nat /\ Owned(g, ref) \in Nat
        /\ Owned(g, ref) + Held(f, s, ref) + Held(f, t, ref) = Owned(f, ref) + Held(g, s, ref) + Held(g, t, ref)
    BY <1>1, <2>1, OwnedMoves
  <2>3. f[s].amount \in Nat /\ f[t].amount \in Nat
    BY <1>1, <1>2, <1>5, <2>1, Holds
  <2>4. Held(g, s, ref) = 0
    BY <1>6, <2>1 DEF Held
  <2>5. CASE f[t].ref = ref
    BY <1>5, <2>0, <2>1, <2>2, <2>3, <2>4, <2>5 DEF Held
  <2>6. CASE f[t].ref # ref
    BY <1>5, <2>0, <2>1, <2>2, <2>4, <2>6 DEF Held
  <2>7. QED
    BY <2>5, <2>6
<1>9. CASE StackSome(s, t, amount)
  <2>1. /\ s # t /\ items[t] # NoItem /\ f[s].ref = f[t].ref
        /\ g[s].ref = f[s].ref /\ g[s].amount = f[s].amount - Left(t)
        /\ g[t].ref = f[t].ref /\ g[t].amount = f[t].amount + Left(t)
        /\ \A r \in Slots \ {s, t} : g[r] = f[r]
    BY <1>1, <1>2, <1>5, <1>9, StackSomeDoes
  <2>2. /\ Owned(f, ref) \in Nat /\ Owned(g, ref) \in Nat
        /\ Owned(g, ref) + Held(f, s, ref) + Held(f, t, ref) = Owned(f, ref) + Held(g, s, ref) + Held(g, t, ref)
    BY <1>1, <2>1, OwnedMoves
  <2>3. f[s].amount \in Nat /\ f[t].amount \in Nat /\ Left(t) \in Int
    BY <1>1, <1>2, <1>5, <2>1, Holds
  <2>0. Gained(s, t, amount, ref) = 0
    BY <1>9, <2>3 DEF StackSome, Gained
  <2>4. CASE f[t].ref = ref
    BY <1>5, <2>0, <2>1, <2>2, <2>3, <2>4 DEF Held
  <2>5. CASE f[t].ref # ref
    BY <1>5, <2>0, <2>1, <2>2, <2>5 DEF Held
  <2>6. QED
    BY <2>4, <2>5
<1>10. CASE StackFails(s, t, amount)
  BY <1>1, <1>2, <1>10, NoFailure
<1>11. QED
  BY <1>7, <1>8, <1>9, <1>10 DEF move_item

\* A drop that is picked up is what the player then has more.
LEMMA WholePickup ==
    ASSUME Owning, Owning', NEW item \in Drops, add_item(item)
    PROVE  \/ Owned(items', item.ref) = Owned(items, item.ref) + item.amount
           \/ Free = {} /\ Owned(items', item.ref) <= Owned(items, item.ref) + item.amount
<1>1. Sound /\ Sound'
  BY DEF Owning, InventoryInv
<1>2. item.ref \in Refs /\ item.amount \in Nat /\ item.amount > 0
  BY DropIs
<1>3. PICK ref \in Refs : ref = item.ref
  BY <1>2
<1>4. PICK f, g \in Store : f = items /\ g = items'
  BY <1>1 DEF Sound
<1>5. NoItem.ref # ref
  BY InventoryAssumption DEF NoItem
<1>6. CASE \E s \in Slots : AddToStack(item, s)
  <2>1. PICK s \in Slots : AddToStack(item, s)
    BY <1>6
  <2>2. /\ f[s].ref = ref /\ f[s].amount \in Nat /\ g[s].ref = ref /\ g[s].amount = f[s].amount + item.amount
        /\ \A r \in Slots \ {s} : g[r] = f[r]
    BY <1>1, <1>3, <1>4, <2>1, AddToStackDoes, Holds
  <2>3. Owned(f, ref) \in Nat /\ Owned(g, ref) \in Nat /\ Owned(g, ref) + Held(f, s, ref) = Owned(f, ref) + Held(g, s, ref)
    BY <2>2, OwnedChanges
  <2>4. Held(f, s, ref) = f[s].amount /\ Held(g, s, ref) = f[s].amount + item.amount
    BY <2>2 DEF Held
  <2>5. Owned(g, ref) = Owned(f, ref) + item.amount
    BY <1>2, <2>2, <2>3, <2>4
  <2>6. QED
    BY <1>3, <1>4, <2>5
<1>7. CASE \E s \in Slots : OverflowStack(item, s)
  <2>1. PICK s \in Slots : OverflowStack(item, s)
    BY <1>7
  <2>2. /\ f[s].ref = ref /\ f[s].amount \in Nat /\ Left(s) \in Int /\ Left(s) > 0 /\ Left(s) < item.amount
        /\ g[s].ref = ref /\ g[s].amount = f[s].amount + Left(s)
    BY <1>1, <1>3, <1>4, <2>1, OverflowStackDoes, Holds
  <2>3. PICK l \in Nat : l = Left(s) /\ l < item.amount
    BY <2>2
  <2>4. Held(f, s, ref) = f[s].amount /\ Held(g, s, ref) = f[s].amount + l
    BY <2>2, <2>3 DEF Held
  <2>5. CASE Free = {} /\ \A r \in Slots \ {s} : g[r] = f[r]
    <3>1. Owned(f, ref) \in Nat /\ Owned(g, ref) \in Nat /\ Owned(g, ref) + Held(f, s, ref) = Owned(f, ref) + Held(g, s, ref)
      BY <2>5, OwnedChanges
    <3>2. Owned(g, ref) <= Owned(f, ref) + item.amount
      BY <1>2, <2>2, <2>3, <2>4, <3>1
    <3>3. QED
      BY <1>3, <1>4, <2>5, <3>2
  <2>6. CASE \E k \in Slots \ {s} : /\ f[k] = NoItem /\ g[k].ref = ref /\ g[k].amount = item.amount - l
                                    /\ \A r \in Slots \ {s, k} : g[r] = f[r]
    <3>1. PICK k \in Slots \ {s} : /\ f[k] = NoItem /\ g[k].ref = ref /\ g[k].amount = item.amount - l
                                   /\ \A r \in Slots \ {s, k} : g[r] = f[r]
      BY <2>6
    <3>2. /\ Owned(f, ref) \in Nat /\ Owned(g, ref) \in Nat
          /\ Owned(g, ref) + Held(f, s, ref) + Held(f, k, ref) = Owned(f, ref) + Held(g, s, ref) + Held(g, k, ref)
      BY <3>1, OwnedMoves
    <3>3. Held(f, k, ref) = 0 /\ Held(g, k, ref) = item.amount - l
      BY <1>5, <3>1 DEF Held
    <3>4. Owned(g, ref) = Owned(f, ref) + item.amount
      BY <1>2, <2>2, <2>3, <2>4, <3>2, <3>3
    <3>5. QED
      BY <1>3, <1>4, <3>4
  <2>7. QED
    BY <1>1, <1>3, <1>4, <2>1, <2>3, <2>5, <2>6, OverflowStackDoes
<1>8. CASE AddToFreeSlot(item)
  <2>1. PICK k \in Slots : f[k] = NoItem /\ g[k] = item /\ \A r \in Slots \ {k} : g[r] = f[r]
    BY <1>1, <1>4, <1>8, AddToFreeSlotDoes
  <2>2. Owned(f, ref) \in Nat /\ Owned(g, ref) \in Nat /\ Owned(g, ref) + Held(f, k, ref) = Owned(f, ref) + Held(g, k, ref)
    BY <2>1, OwnedChanges
  <2>3. Held(f, k, ref) = 0 /\ Held(g, k, ref) = item.amount
    BY <1>3, <1>5, <2>1 DEF Held
  <2>4. Owned(g, ref) = Owned(f, ref) + item.amount
    BY <1>2, <2>2, <2>3
  <2>5. QED
    BY <1>3, <1>4, <2>4
<1>9. QED
  BY <1>6, <1>7, <1>8 DEF add_item

\* No move creates or destroys anything (Inventory::move_item), whatever is in the
\* target slot, whatever amount the client names and for any stack sizes, but where
\* stacks of one item meet: there the number named is what becomes of the source
\* stack.  Equipping names 1 because "equippable items are always amount 1"
\* (game/inventory.rs:66), so that arrows put onto worn arrows cost all but one.
THEOREM MovesAreAccounted == Spec => MovesAccounted
<1>1. Owning /\ Owning' =>
        [\A source, target \in Slots, amount \in Amounts \cup {1} :
           \/ Equip(source, target) /\ amount = 1
           \/ Unequip(source, target, amount)
           \/ MoveInBag(source, target, amount)
           => \A ref \in Refs :
                Owned(items', ref) =
                  Owned(items, ref) + Gained(source, target, AtLeastOne(amount), ref)]_inventoryVars
  <2> SUFFICES ASSUME Owning, Owning', NEW s \in Slots, NEW t \in Slots, NEW amount \in Amounts \cup {1},
                      (Equip(s, t) /\ amount = 1) \/ Unequip(s, t, amount) \/ MoveInBag(s, t, amount), NEW ref \in Refs
               PROVE  Owned(items', ref) = Owned(items, ref) + Gained(s, t, AtLeastOne(amount), ref)
    OBVIOUS
  <2>1. AtLeastOne(amount) \in Nat \ {0} /\ AtLeastOne(1) = 1
    BY InventoryAssumption DEF AtLeastOne
  <2>2. move_item(s, t, AtLeastOne(amount))
    BY <2>1 DEF Equip, Unequip, MoveInBag
  <2>3. QED
    BY <2>1, <2>2, MoveCounts
<1>2. QED
  BY <1>1, OwningInductive, PTL DEF MovesAccounted

\* Inventory::add_item gives the player what the drop had, in one slot or in two;
\* only with no slot left may the rest be lost.
THEOREM PickupsGiveAll == Spec => PickupsConserve
<1>1. Owning /\ Owning' => [\A item \in Drops :
                              add_item(item) =>
                                \/ Owned(items', item.ref) = Owned(items, item.ref) + item.amount
                                \/ Free = {} /\ Owned(items', item.ref) <= Owned(items, item.ref) + item.amount]_inventoryVars
  BY WholePickup
<1>2. QED
  BY <1>1, OwningInductive, PTL DEF PickupsConserve

-----------------------------------------------------------------------------
(* The tasks and the database.                                             *)

TaskSet == {task \in Seq(Piece) : task # <<>>}

\* The database ends up with p: no two tasks work on one row, a row that a task
\* works on is as in p when the task has finished, every other is already.
Settles(d, ts, p) ==
    /\ \A i, j \in 1..Len(ts) : i # j => RowsOf(ts[i]) \cap RowsOf(ts[j]) = {}
    /\ \A i \in 1..Len(ts) : \A r \in RowsOf(ts[i]) : Run(d, ts[i])[r] = p[r]
    /\ \A r \in Rows : (\A i \in 1..Len(ts) : r \notin RowsOf(ts[i])) => d[r] = p[r]

\* A statement leaves a database of items.
LEMMA ExecuteTyped ==
    ASSUME NEW a \in Store, NEW s \in AnyStatement
    PROVE  Execute(a, s) \in Store
<1>1. PICK x : x = Execute(a, s)
  OBVIOUS
<1>2. IsStore(a) /\ \A r \in Rows : a[r] \in Item \cup {NoItem}
  BY Basics DEF Store
<1>3. IsStore(x)
  BY <1>1, <1>2, ExecuteIs
<1>4. s.q \in {"add", "remove", "change", "move"} /\ s.from \in Rows /\ s.to \in Rows /\ s.amount \in Nat /\ (s.q = "add" => s.ref \in Refs)
  BY DEF AnyStatement
<1>5. \A r \in Rows : x[r] \in Item \cup {NoItem}
  <2>1. CASE s.q = "add"
    <3>1. [ref |-> s.ref, amount |-> s.amount] \in Item
      BY <1>4, <2>1 DEF Item
    <3>2. \A r \in Rows : x[r] = IF r = s.to THEN [ref |-> s.ref, amount |-> s.amount] ELSE a[r]
      BY <1>1, <1>2, <2>1, ExecuteIs
    <3>3. QED
      BY <1>2, <3>1, <3>2
  <2>2. CASE s.q = "remove"
    <3>1. \A r \in Rows : x[r] = IF r = s.to THEN NoItem ELSE a[r]
      BY <1>1, <1>2, <2>2, ExecuteIs, ZenonT(30)
    <3>2. QED
      BY <1>2, <3>1
  <2>3. CASE s.q = "change"
    <3>1. \A r \in Rows : x[r] = IF r = s.to /\ a[r] # NoItem THEN [a[r] EXCEPT !.amount = s.amount] ELSE a[r]
      BY <1>1, <1>2, <2>3, ExecuteIs, ZenonT(30)
    <3>2. \A r \in Rows : a[r] # NoItem => [a[r] EXCEPT !.amount = s.amount] \in Item
      BY <1>2, <1>4, Basics
    <3>3. QED
      BY <1>2, <3>1, <3>2
  <2>4. CASE s.q = "move"
    <3>1. \A r \in Rows : x[r] = IF a[s.from] = NoItem \/ s.from = s.to THEN a[r]
                                 ELSE IF r = s.from THEN NoItem ELSE IF r = s.to THEN a[s.from] ELSE a[r]
      BY <1>1, <1>2, <2>4, ExecuteIs
    <3>2. QED
      BY <1>2, <1>4, <3>1
  <2>5. QED
    BY <1>4, <2>1, <2>2, <2>3, <2>4
<1>6. QED
  BY <1>1, <1>3, <1>5 DEF IsStore, Store

\* The tasks when the one at t has rest left.
Without(ts, t, rest) == IF rest = <<>> THEN RemoveAt(ts, t) ELSE [ts EXCEPT ![t] = rest]

\* The task at i was at m[i].
Came(m, ts, t, rest, us) ==
    /\ \A i \in 1..Len(us) : m[i] \in 1..Len(ts) /\ us[i] = IF m[i] = t THEN rest ELSE ts[m[i]]
    /\ \A i, j \in 1..Len(us) : m[i] = m[j] => i = j
    /\ \A j \in 1..Len(ts) : (j # t \/ rest # <<>>) => \E i \in 1..Len(us) : m[i] = j

\* Every task was somewhere before.
LEMMA WithoutIs ==
    ASSUME NEW ts \in Seq(TaskSet), NEW t \in 1..Len(ts), NEW rest \in Seq(Piece), NEW us, us = Without(ts, t, rest)
    PROVE  /\ us \in Seq(TaskSet) /\ Len(us) <= Len(ts)
           /\ \E m : Came(m, ts, t, rest, us)
<1>1. PICK n \in Nat : n = Len(ts) /\ DOMAIN ts = 1..n /\ ts \in [1..n -> TaskSet]
  <2>1. Len(ts) \in Nat /\ DOMAIN ts = 1..Len(ts) /\ ts \in [1..Len(ts) -> TaskSet]
    BY LenProperties
  <2>2. QED
    BY <2>1
<1>2. CASE rest # <<>>
  <2>1. us = [ts EXCEPT ![t] = rest] /\ rest \in TaskSet
    BY <1>2 DEF Without, TaskSet
  <2>2. us \in [1..n -> TaskSet] /\ \A i \in 1..n : us[i] = IF i = t THEN rest ELSE ts[i]
    BY <1>1, <2>1
  <2>3. us \in Seq(TaskSet) /\ Len(us) = n
    BY <1>1, <2>2, SeqDef, LenProperties
  <2>4. PICK m \in [1..n -> 1..n] : m = [i \in 1..n |-> i]
    OBVIOUS
  <2>5. \A i \in 1..n : m[i] = i /\ m[i] \in 1..n
    BY <2>4
  <2>6. /\ \A i, j \in 1..n : m[i] = m[j] => i = j
        /\ \A i \in 1..n : us[i] = IF m[i] = t THEN rest ELSE ts[m[i]]
        /\ \A j \in 1..n : (j # t \/ rest # <<>>) => \E i \in 1..n : m[i] = j
    BY <2>2, <2>5
  <2>7. QED
    <3>1. Came(m, ts, t, rest, us)
      BY <1>1, <2>3, <2>5, <2>6 DEF Came
    <3>2. QED
      BY <1>1, <2>3, <3>1
<1>3. CASE rest = <<>>
  <2>1. PICK a, b : a = SubSeq(ts, 1, t - 1) /\ b = SubSeq(ts, t + 1, n)
    OBVIOUS
  <2>2. us = a \o b
    BY <1>1, <1>3, <2>1 DEF Without, RemoveAt
  <2>3. t \in 1..n /\ t \in Nat
    BY <1>1
  <2>4. a \in Seq(TaskSet) /\ Len(a) = t - 1 /\ \A i \in 1..(t - 1) : a[i] = ts[i]
    BY <1>1, <2>1, <2>3
  <2>5. b \in Seq(TaskSet) /\ Len(b) = n - t /\ \A i \in 1..(n - t) : b[i] = ts[t + i]
    <3>1. \A i \in (t + 1)..n : ts[i] \in TaskSet
      BY <1>1, <2>3
    <3>2. /\ b \in Seq(TaskSet) /\ Len(b) = IF t + 1 <= n THEN n - (t + 1) + 1 ELSE 0
          /\ \A i \in 1..(n - (t + 1) + 1) : b[i] = ts[(t + 1) + i - 1]
      BY <1>1, <2>1, <2>3, <3>1, SubSeqProperties
    <3>3. (IF t + 1 <= n THEN n - (t + 1) + 1 ELSE 0) = n - t /\ n - (t + 1) + 1 = n - t
      <4>1. n - (t + 1) + 1 = n - t
        BY <1>1, <2>3
      <4>2. ~(t + 1 <= n) => n - t = 0
        <5>1. t \in Int /\ n \in Int /\ t <= n
          BY <1>1, <2>3
        <5>2. QED
          BY <5>1
      <4>3. QED
        BY <4>1, <4>2
    <3>4. \A i \in 1..(n - t) : (t + 1) + i - 1 = t + i
      BY <2>3
    <3>5. QED
      BY <3>2, <3>3, <3>4
  <2>6. us \in Seq(TaskSet) /\ Len(us) = n - 1 /\ \A i \in 1..(n - 1) : us[i] = IF i <= t - 1 THEN a[i] ELSE b[i - (t - 1)]
    <3>1. /\ us \in Seq(TaskSet) /\ Len(us) = Len(a) + Len(b)
          /\ \A i \in 1..(Len(a) + Len(b)) : us[i] = IF i <= Len(a) THEN a[i] ELSE b[i - Len(a)]
      <4>1. /\ a \o b \in Seq(TaskSet) /\ Len(a \o b) = Len(a) + Len(b)
            /\ \A i \in 1..(Len(a) + Len(b)) : (a \o b)[i] = IF i <= Len(a) THEN a[i] ELSE b[i - Len(a)]
        <5>1. a \in Seq(TaskSet) /\ b \in Seq(TaskSet)
          BY <2>4, <2>5
        <5>2. QED
          BY <5>1, ConcatProperties
      <4>2. QED
        BY <2>2, <4>1
    <3>2. Len(a) + Len(b) = n - 1 /\ Len(a) = t - 1
      BY <1>1, <2>3, <2>4, <2>5
    <3>3. QED
      BY <3>1, <3>2
  <2>7. ASSUME NEW i \in 1..(n - 1) PROVE us[i] = IF i < t THEN ts[i] ELSE ts[i + 1]
    <3>1. CASE i < t
      <4>1. i \in 1..(t - 1) /\ i <= t - 1
        BY <2>3, <3>1
      <4>2. QED
        BY <2>4, <2>6, <3>1, <4>1
    <3>2. CASE ~(i < t)
      <4>1. ~(i <= t - 1) /\ i - (t - 1) \in 1..(n - t) /\ t + (i - (t - 1)) = i + 1
        BY <1>1, <2>3, <3>2
      <4>2. QED
        BY <2>5, <2>6, <3>2, <4>1
    <3>3. QED
      BY <3>1, <3>2
  <2>8. \A i \in 1..(n - 1) : (IF i < t THEN i ELSE i + 1) \in 1..n
    BY <1>1
  <2>9. PICK m \in [1..(n - 1) -> 1..n] : m = [i \in 1..(n - 1) |-> IF i < t THEN i ELSE i + 1]
    BY <2>8
  <2>10. \A i \in 1..(n - 1) : m[i] = (IF i < t THEN i ELSE i + 1) /\ m[i] # t
    BY <1>1, <2>3, <2>9
  <2>11. \A i, j \in 1..(n - 1) : m[i] = m[j] => i = j
    BY <1>1, <2>3, <2>10
  <2>12. \A i \in 1..(n - 1) : us[i] = IF m[i] = t THEN rest ELSE ts[m[i]]
    BY <2>7, <2>10
  <2>13. ASSUME NEW j \in 1..n, j # t PROVE \E i \in 1..(n - 1) : m[i] = j
    <3>1. CASE j < t
      <4>1. j \in 1..(n - 1) /\ m[j] = j
        BY <1>1, <2>3, <2>10, <3>1
      <4>2. QED
        BY <4>1
    <3>2. CASE ~(j < t)
      <4>1. j - 1 \in 1..(n - 1) /\ ~(j - 1 < t) /\ (j - 1) + 1 = j
        BY <1>1, <2>3, <2>13, <3>2
      <4>2. m[j - 1] = j
        BY <2>10, <4>1
      <4>3. QED
        BY <4>1, <4>2
    <3>3. QED
      BY <3>1, <3>2
  <2>14. n - 1 <= n
    BY <1>1
  <2>15. QED
    <3>0. Len(us) = n - 1 /\ n - 1 \in Int
      BY <1>1, <2>6
    <3>1. PICK k \in Int : k = n - 1 /\ Len(us) = k
      BY <3>0
    <3>2. \A i \in 1..k : m[i] \in 1..n /\ us[i] = IF m[i] = t THEN rest ELSE ts[m[i]]
      BY <2>9, <2>12, <3>1
    <3>3. \A i, j \in 1..k : m[i] = m[j] => i = j
      BY <2>11, <3>1
    <3>4. \A j \in 1..n : (j # t \/ rest # <<>>) => \E i \in 1..k : m[i] = j
      BY <1>3, <2>13, <3>1
    <3>5. Came(m, ts, t, rest, us)
      BY <1>1, <3>1, <3>2, <3>3, <3>4 DEF Came
    <3>6. QED
      BY <1>1, <2>6, <2>14, <3>1, <3>5
<1>4. QED
  BY <1>2, <1>3

\* A statement of a task brings the database nearer to where it ends up.
LEMMA SettlesOn ==
    ASSUME NEW d, IsStore(d), NEW p, NEW ts \in Seq(TaskSet), Settles(d, ts, p), NEW t \in 1..Len(ts),
           NEW b, b = (IF Fails(d, ts[t][1][1]) THEN d ELSE Execute(d, ts[t][1][1])),
           NEW rest, rest = Rest(ts[t], Fails(d, ts[t][1][1])), NEW us, us = Without(ts, t, rest)
    PROVE  us \in Seq(TaskSet) /\ Settles(b, us, p)
<1>1. PICK n \in Nat : n = Len(ts) /\ \A i \in 1..n : ts[i] \in Seq(Piece) /\ ts[i] # <<>> /\ RowsOf(ts[i]) \in SUBSET Rows
  <2>1. Len(ts) \in Nat /\ \A i \in 1..Len(ts) : ts[i] \in TaskSet
    OBVIOUS
  <2>2. \A task \in TaskSet : task \in Seq(Piece) /\ task # <<>>
    BY DEF TaskSet
  <2>3. \A task \in Seq(Piece) : RowsOf(task) \in SUBSET Rows
    BY RowsOfIs
  <2>4. QED
    BY <2>1, <2>2, <2>3
<1>2. PICK task : task = ts[t]
  OBVIOUS
<1>3. /\ IsStore(b) /\ \A r \in Rows \ RowsOf(task) : b[r] = d[r]
      /\ rest \in Seq(Piece) /\ RowsOf(rest) \subseteq RowsOf(task) /\ Run(b, rest) = Run(d, task)
  BY <1>1, <1>2, Proceeds
<1>4. us \in Seq(TaskSet) /\ \E m : Came(m, ts, t, rest, us)
  BY <1>3, WithoutIs
<1>5. PICK m : Came(m, ts, t, rest, us)
  BY <1>4
<1>6. PICK k \in Nat : k = Len(us)
  BY <1>4, LenProperties
<1>7. /\ \A i \in 1..k : m[i] \in 1..n /\ us[i] = IF m[i] = t THEN rest ELSE ts[m[i]]
      /\ \A i, j \in 1..k : m[i] = m[j] => i = j
      /\ \A j \in 1..n : (j # t \/ rest # <<>>) => \E i \in 1..k : m[i] = j
  BY <1>1, <1>5, <1>6 DEF Came
<1>8. /\ \A i, j \in 1..n : i # j => RowsOf(ts[i]) \cap RowsOf(ts[j]) = {}
      /\ \A i \in 1..n : \A r \in RowsOf(ts[i]) : Run(d, ts[i])[r] = p[r]
      /\ \A r \in Rows : (\A i \in 1..n : r \notin RowsOf(ts[i])) => d[r] = p[r]
  BY <1>1 DEF Settles
<1>9. \A i \in 1..k : RowsOf(us[i]) \subseteq RowsOf(ts[m[i]])
  BY <1>2, <1>3, <1>7
<1>10. \A i, j \in 1..k : i # j => RowsOf(us[i]) \cap RowsOf(us[j]) = {}
  <2>1. ASSUME NEW i \in 1..k, NEW j \in 1..k, i # j PROVE RowsOf(us[i]) \cap RowsOf(us[j]) = {}
    <3>1. m[i] # m[j] /\ m[i] \in 1..n /\ m[j] \in 1..n
      BY <1>7, <2>1
    <3>2. RowsOf(ts[m[i]]) \cap RowsOf(ts[m[j]]) = {}
      BY <1>8, <3>1
    <3>3. QED
      BY <1>9, <3>2
  <2>2. QED
    BY <2>1
<1>11. ASSUME NEW i \in 1..k, NEW r \in RowsOf(us[i]) PROVE Run(b, us[i])[r] = p[r]
  <2>1. PICK j \in 1..n : j = m[i] /\ r \in RowsOf(ts[j]) /\ r \in RowsOf(us[i])
    BY <1>7, <1>9, <1>11
  <2>2. CASE j = t
    <3>1. us[i] = rest
      BY <1>7, <2>1, <2>2
    <3>2. QED
      BY <1>2, <1>3, <1>8, <2>1, <2>2, <3>1
  <2>3. CASE j # t
    <3>1. us[i] = ts[j] /\ RowsOf(ts[j]) \cap RowsOf(task) = {}
      BY <1>1, <1>2, <1>7, <1>8, <2>1, <2>3
    <3>2. PICK other \in Seq(Piece) : other = ts[j] /\ RowsOf(other) \in SUBSET Rows
      BY <1>1
    <3>3. \A x \in RowsOf(other) : d[x] = b[x]
      BY <1>3, <3>1, <3>2
    <3>4. \A x \in RowsOf(other) : Run(d, other)[x] = Run(b, other)[x]
      BY <1>3, <3>2, <3>3, RunLocal
    <3>5. QED
      BY <1>8, <2>1, <3>1, <3>2, <3>4
  <2>4. QED
    BY <2>2, <2>3
<1>12. ASSUME NEW r \in Rows, \A i \in 1..k : r \notin RowsOf(us[i]) PROVE b[r] = p[r]
  <2>1. \A j \in 1..n : j # t => r \notin RowsOf(ts[j])
    <3>1. ASSUME NEW j \in 1..n, j # t PROVE r \notin RowsOf(ts[j])
      <4>1. PICK i \in 1..k : m[i] = j
        BY <1>7, <3>1
      <4>2. us[i] = ts[j]
        BY <1>7, <3>1, <4>1
      <4>3. QED
        BY <1>12, <4>2
    <3>2. QED
      BY <3>1
  <2>2. r \notin RowsOf(rest)
    <3>1. CASE rest = <<>>
      <4>1. \A x : x \in RowsOf(rest) <=> \E i \in 1..Len(rest) : x \in RowsOfPiece(rest[i])
        BY <1>3, RowsOfIs
      <4>2. Len(rest) = 0
        BY <3>1
      <4>3. QED
        BY <4>1, <4>2
    <3>2. CASE rest # <<>>
      <4>1. t \in 1..n
        BY <1>1
      <4>2. PICK i \in 1..k : m[i] = t
        BY <1>7, <3>2, <4>1
      <4>3. us[i] = rest
        BY <1>7, <4>2
      <4>4. QED
        BY <1>12, <4>3
    <3>3. QED
      BY <3>1, <3>2
  <2>3. CASE r \notin RowsOf(task)
    <3>1. \A j \in 1..n : r \notin RowsOf(ts[j])
      BY <1>2, <2>1, <2>3
    <3>2. QED
      BY <1>3, <1>8, <2>3, <3>1
  <2>4. CASE r \in RowsOf(task)
    <3>1. Run(d, task)[r] = p[r]
      BY <1>1, <1>2, <1>8, <2>4
    <3>2. Run(b, rest)[r] = b[r]
      <4>1. \A x \in RowsOf(rest) : b[x] = b[x]
        OBVIOUS
      <4>2. RowsOf(rest) \in SUBSET Rows
        BY <1>3, RowsOfIs
      <4>3. QED
        BY <1>3, <2>2, <4>1, <4>2, RunLocal, SMTT(20)
    <3>3. QED
      BY <1>3, <3>1, <3>2
  <2>5. QED
    BY <2>3, <2>4
<1>13. Settles(b, us, p)
  BY <1>6, <1>10, <1>11, <1>12, ZenonT(30) DEF Settles
<1>14. QED
  BY <1>4, <1>13

\* New tasks that do together what w does, each whatever the rows of others hold.
Does(new, w, p) ==
    /\ \A r : r \in RowsOf(w) <=> \E i \in 1..Len(new) : r \in RowsOf(new[i])
    /\ \A d : \A i \in 1..Len(new) : IsStore(d) /\ (\A r \in RowsOf(new[i]) : d[r] = p[r]) =>
          \A r \in RowsOf(new[i]) : Run(d, new[i])[r] = Run(p, w)[r]

\* Handing over new tasks that touch no row of the old.
LEMMA SettlesSpawned ==
    ASSUME NEW d, IsStore(d), NEW p, IsStore(p), NEW ts \in Seq(TaskSet), NEW new \in Seq(TaskSet), Settles(d, ts, p),
           NEW w \in Seq(Piece), Does(new, w, p), NEW us, us = ts \o new,
           \A i, j \in 1..Len(us) : i # j => RowsOf(us[i]) \cap RowsOf(us[j]) = {}
    PROVE  us \in Seq(TaskSet) /\ Settles(d, us, Run(p, w))
<1>1. PICK m, n \in Nat : m = Len(ts) /\ n = Len(new)
  BY LenProperties
<1>2. us \in Seq(TaskSet) /\ Len(us) = m + n /\ \A i \in 1..(m + n) : us[i] = IF i <= m THEN ts[i] ELSE new[i - m]
  BY <1>1, ConcatProperties
<1>3. /\ \A i \in 1..m : i \in 1..(m + n) /\ us[i] = ts[i]
      /\ \A i \in 1..n : m + i \in 1..(m + n) /\ us[m + i] = new[i]
  <2>1. \A i \in 1..m : i \in 1..(m + n) /\ i <= m
    BY <1>1
  <2>2. \A i \in 1..n : m + i \in 1..(m + n) /\ ~(m + i <= m) /\ (m + i) - m = i
    BY <1>1
  <2>3. QED
    BY <1>2, <2>1, <2>2
<1>4. ASSUME NEW i \in 1..(m + n) PROVE (i \in 1..m /\ us[i] = ts[i]) \/ \E k \in 1..n : i = m + k /\ us[i] = new[k]
  <2>1. CASE i <= m
    BY <1>1, <1>2, <2>1
  <2>2. CASE ~(i <= m)
    <3>1. i - m \in 1..n /\ i = m + (i - m)
      BY <1>1, <2>2
    <3>2. QED
      BY <1>2, <2>2, <3>1
  <2>3. QED
    BY <2>1, <2>2
<1>5. \A i \in 1..m, k \in 1..n : RowsOf(ts[i]) \cap RowsOf(new[k]) = {}
  <2>1. ASSUME NEW i \in 1..m, NEW k \in 1..n PROVE RowsOf(ts[i]) \cap RowsOf(new[k]) = {}
    <3>1. i # m + k
      BY <1>1
    <3>2. QED
      BY <1>2, <1>3, <3>1
  <2>2. QED
    BY <2>1
<1>6. PICK q : q = Run(p, w)
  OBVIOUS
<1>7. \A r \in Rows \ RowsOf(w) : q[r] = p[r]
  <2>1. PICK R : R = RowsOf(w)
    OBVIOUS
  <2>2. R \in SUBSET Rows /\ RowsOf(w) \subseteq R /\ \A r \in R : p[r] = p[r]
    BY <2>1, RowsOfIs
  <2>3. \A r \in Rows \ RowsOf(w) : Run(p, w)[r] = p[r]
    BY <2>2, RunLocal
  <2>4. QED
    BY <1>6, <2>3
<1>8. /\ \A i \in 1..m : \A r \in RowsOf(ts[i]) : Run(d, ts[i])[r] = p[r] /\ r \in Rows
      /\ \A r \in Rows : (\A i \in 1..m : r \notin RowsOf(ts[i])) => d[r] = p[r]
  <2>1. \A i \in 1..m : RowsOf(ts[i]) \subseteq Rows
    <3>1. \A task \in TaskSet : task \in Seq(Piece)
      BY DEF TaskSet
    <3>2. \A i \in 1..m : ts[i] \in TaskSet
      BY <1>1
    <3>3. QED
      BY <3>1, <3>2, RowsOfIs
  <2>2. QED
    BY <1>1, <2>1 DEF Settles
<1>9. /\ \A r : r \in RowsOf(w) <=> \E i \in 1..n : r \in RowsOf(new[i])
      /\ \A i \in 1..n : (\A r \in RowsOf(new[i]) : d[r] = p[r]) => \A r \in RowsOf(new[i]) : Run(d, new[i])[r] = q[r]
  BY <1>1, <1>6 DEF Does
<1>10. RowsOf(w) \subseteq Rows
  BY RowsOfIs
<1>11. ASSUME NEW i \in 1..m, NEW r \in RowsOf(ts[i]) PROVE Run(d, ts[i])[r] = q[r]
  <2>1. r \notin RowsOf(w) /\ r \in Rows
    BY <1>5, <1>8, <1>9, <1>11
  <2>2. QED
    BY <1>7, <1>8, <2>1
<1>12. ASSUME NEW i \in 1..n PROVE \A r \in RowsOf(new[i]) : Run(d, new[i])[r] = q[r]
  <2>1. \A r \in RowsOf(new[i]) : r \in Rows /\ \A j \in 1..m : r \notin RowsOf(ts[j])
    BY <1>5, <1>9, <1>10
  <2>2. \A r \in RowsOf(new[i]) : d[r] = p[r]
    BY <1>8, <2>1
  <2>3. QED
    BY <1>9, <2>2
<1>13. \A i \in 1..(m + n) : \A r \in RowsOf(us[i]) : Run(d, us[i])[r] = q[r]
  <2>1. ASSUME NEW i \in 1..(m + n), NEW r \in RowsOf(us[i]) PROVE Run(d, us[i])[r] = q[r]
    <3>1. CASE i \in 1..m /\ us[i] = ts[i]
      BY <1>11, <2>1, <3>1
    <3>2. CASE \E k \in 1..n : i = m + k /\ us[i] = new[k]
      <4>1. PICK k \in 1..n : us[i] = new[k]
        BY <3>2
      <4>2. QED
        BY <1>12, <2>1, <4>1
    <3>3. QED
      BY <1>4, <3>1, <3>2
  <2>2. QED
    BY <2>1
<1>14. ASSUME NEW r \in Rows, \A i \in 1..(m + n) : r \notin RowsOf(us[i]) PROVE d[r] = q[r]
  <2>1. \A i \in 1..m : r \notin RowsOf(ts[i])
    BY <1>3, <1>14
  <2>2. \A i \in 1..n : r \notin RowsOf(new[i])
    BY <1>3, <1>14
  <2>3. r \notin RowsOf(w)
    BY <1>9, <2>2
  <2>4. QED
    BY <1>7, <1>8, <2>1, <2>3
<1>15. Settles(d, us, q)
  BY <1>2, <1>13, <1>14, ZenonT(30) DEF Settles
<1>16. QED
  BY <1>2, <1>6, <1>15

\* A task of one change.
LEMMA Single ==
    ASSUME NEW ss \in Piece
    PROVE  /\ <<ss>> \in TaskSet /\ RowsOf(<<ss>>) = RowsOfPiece(ss)
           /\ \A d : Run(d, <<ss>>) = RunChange(d, ss)
<1>0. <<ss>> \in Seq(Piece) /\ Len(<<ss>>) = 1 /\ <<ss>>[1] = ss /\ <<ss>> # <<>>
  OBVIOUS
<1>1. PICK task \in Seq(Piece) : task = <<ss>> /\ Len(task) = 1 /\ task[1] = ss /\ task # <<>>
  BY <1>0
<1>2. \A r : r \in RowsOf(task) <=> \E i \in 1..1 : r \in RowsOfPiece(task[i])
  BY <1>1, RowsOfIs
<1>3. RowsOf(task) = RowsOfPiece(ss)
  <2>1. \A i \in 1..1 : i = 1
    OBVIOUS
  <2>2. \A r : r \in RowsOf(task) <=> r \in RowsOfPiece(ss)
    BY <1>1, <1>2, <2>1
  <2>3. QED
    BY <2>2
<1>4. Tail(task) = <<>>
  <2>1. Tail(task) \in Seq(Piece) /\ Len(Tail(task)) = 0
    BY <1>1, HeadTailProperties
  <2>2. QED
    BY <2>1, EmptySeq
<1>5. \A d : Run(d, task) = RunChange(d, ss)
  BY <1>1, <1>4, RunFirst, RunEmpty
<1>6. QED
  BY <1>1, <1>3, <1>5 DEF TaskSet

\* The changes of a periodic save do side by side what they do in order, when
\* no two are of one row.
LEMMA EachAloneDoes ==
    ASSUME NEW cs \in Seq(ChangeSet), NEW p, IsStore(p), NEW new, new = EachAlone(cs)
    PROVE  /\ new \in Seq(TaskSet)
           /\ (\A i, j \in 1..Len(new) : i # j => RowsOf(new[i]) \cap RowsOf(new[j]) = {}) => Does(new, Work(cs), p)
<1>1. PICK w \in Seq(Piece), n \in Nat : w = Work(cs) /\ n = Len(cs) /\ Len(w) = n /\ \A i \in 1..n : w[i] = Statements(cs[i])
  BY WorkIs
<1>2. \A i \in 1..n : w[i] \in Piece
  BY <1>1
<1>3. \A i \in 1..n : /\ <<w[i]>> \in TaskSet /\ RowsOf(<<w[i]>>) = RowsOfPiece(w[i])
                      /\ \A d : Run(d, <<w[i]>>) = RunChange(d, w[i])
  BY <1>2, Single
<1>4. DOMAIN cs = 1..n
  BY <1>1
<1>5. new = [i \in 1..n |-> <<Statements(cs[i])>>]
  BY <1>4 DEF EachAlone
<1>6. \A i \in 1..n : new[i] = <<w[i]>>
  BY <1>1, <1>5
<1>7. new \in [1..n -> TaskSet]
  BY <1>3, <1>5, <1>6
<1>8. new \in Seq(TaskSet) /\ Len(new) = n
  BY <1>1, <1>7, SeqDef, LenProperties
<1>9. ASSUME \A i, j \in 1..n : i # j => RowsOf(new[i]) \cap RowsOf(new[j]) = {} PROVE Does(new, w, p)
  <2>1. \A i \in 1..n : RowsOf(new[i]) = RowsOfPiece(w[i]) /\ \A d : Run(d, new[i]) = RunChange(d, w[i])
    BY <1>3, <1>6
  <2>2. \A r : r \in RowsOf(w) <=> \E i \in 1..n : r \in RowsOf(new[i])
    BY <1>1, <2>1, RowsOfIs
  <2>3. ASSUME NEW d, IsStore(d), NEW i \in 1..n, \A r \in RowsOf(new[i]) : d[r] = p[r], NEW r \in RowsOf(new[i])
        PROVE  Run(d, new[i])[r] = Run(p, w)[r]
    <3>1. PICK ss \in Piece : ss = w[i] /\ RowsOfPiece(ss) = RowsOf(new[i]) /\ RowsOfPiece(ss) \in SUBSET Rows
      BY <1>2, <2>1, PieceIs
    <3>2. RunChange(d, ss)[r] = RunChange(p, ss)[r]
      <4>1. PICK R \in SUBSET Rows : R = RowsOfPiece(ss)
        BY <3>1
      <4>2. \A x \in R : d[x] = p[x]
        BY <2>3, <3>1, <4>1
      <4>3. \A x \in R : RunChange(d, ss)[x] = RunChange(p, ss)[x]
        BY <2>3, <4>1, <4>2, RunChangeLocal, SMTT(20)
      <4>4. QED
        BY <3>1, <4>1, <4>3
    <3>3. Apart(w)
      <4>1. ASSUME NEW j \in 1..n, NEW k \in 1..n, j # k PROVE RowsOfPiece(w[j]) \cap RowsOfPiece(w[k]) = {}
        <5>1. RowsOf(new[j]) \cap RowsOf(new[k]) = {}
          BY <1>9, <4>1
        <5>2. RowsOf(new[j]) = RowsOfPiece(w[j]) /\ RowsOf(new[k]) = RowsOfPiece(w[k])
          BY <2>1
        <5>3. QED
          BY <5>1, <5>2
      <4>2. QED
        BY <1>1, <4>1 DEF Apart
    <3>4. r \in RowsOfPiece(w[i]) /\ i \in 1..Len(w)
      BY <1>1, <3>1
    <3>5. Run(p, w)[r] = RunChange(p, w[i])[r]
      <4>1. PICK j \in 1..Len(w) : j = i
        BY <3>4
      <4>2. PICK x \in RowsOfPiece(w[j]) : x = r
        BY <3>4, <4>1
      <4>3. Run(p, w)[x] = RunChange(p, w[j])[x]
        <5>1. w \in Seq(Piece) /\ IsStore(p)
          BY <1>1
        <5>2. QED
          BY <3>3, <5>1, Alone
      <4>4. QED
        BY <4>1, <4>2, <4>3
    <3>6. QED
      BY <2>1, <3>1, <3>2, <3>5
  <2>4. QED
    BY <1>8, <2>2, <2>3 DEF Does
<1>10. QED
  BY <1>1, <1>8, <1>9

\* Those of a logout do it in order.
LEMMA InOrderDoes ==
    ASSUME NEW cs \in Seq(ChangeSet), NEW p, IsStore(p), NEW new, new = InOrder(cs)
    PROVE  new \in Seq(TaskSet) /\ Does(new, Work(cs), p)
<1>1. PICK w \in Seq(Piece) : w = Work(cs) /\ Len(w) = Len(cs)
  BY WorkIs
<1>2. \A r : r \in RowsOf(w) <=> \E i \in 1..Len(w) : r \in RowsOfPiece(w[i])
  BY RowsOfIs
<1>3. CASE cs = <<>>
  <2>1. new = <<>> /\ Len(w) = 0 /\ Len(new) = 0 /\ new \in Seq(TaskSet)
    BY <1>1, <1>3 DEF InOrder
  <2>2. \A i : i \notin 1..0
    OBVIOUS
  <2>3. \A r : r \notin RowsOf(w)
    BY <1>2, <2>1, <2>2
  <2>4. QED
    BY <1>1, <2>1, <2>2, <2>3 DEF Does
<1>4. CASE cs # <<>>
  <2>1. w # <<>>
    <3>1. Len(cs) # 0
      BY <1>4, EmptySeq
    <3>2. QED
      BY <1>1, <3>1
  <2>2. w \in TaskSet
    BY <2>1 DEF TaskSet
  <2>3. <<w>> \in Seq(TaskSet) /\ Len(<<w>>) = 1 /\ <<w>>[1] = w
    BY <2>2
  <2>4. new = <<w>>
    BY <1>1, <1>4 DEF InOrder
  <2>5. new \in Seq(TaskSet) /\ Len(new) = 1 /\ new[1] = w
    BY <2>3, <2>4
  <2>6. \A i \in 1..1 : i = 1
    OBVIOUS
  <2>7. \A r : r \in RowsOf(w) <=> \E i \in 1..1 : r \in RowsOf(new[i])
    BY <2>5, <2>6
  <2>8. ASSUME NEW d, IsStore(d), \A r \in RowsOf(w) : d[r] = p[r] PROVE \A r \in RowsOf(w) : Run(d, w)[r] = Run(p, w)[r]
    <3>1. w \in Seq(Piece) /\ IsStore(p) /\ IsStore(d) /\ RowsOf(w) \in SUBSET Rows /\ RowsOf(w) \subseteq RowsOf(w)
      BY <1>1, <2>8, RowsOfIs
    <3>2. \A r \in RowsOf(w) : d[r] = p[r]
      BY <2>8
    <3>3. QED
      BY <3>1, <3>2, RunLocal
  <2>9. \A d : \A i \in 1..1 : IsStore(d) /\ (\A r \in RowsOf(new[i]) : d[r] = p[r]) =>
           \A r \in RowsOf(new[i]) : Run(d, new[i])[r] = Run(p, w)[r]
    BY <2>5, <2>6, <2>8
  <2>10. QED
    BY <1>1, <2>5, <2>7, <2>9 DEF Does
<1>5. QED
  BY <1>3, <1>4

-----------------------------------------------------------------------------
(* The invariant of the system.                                            *)

Typed ==
    /\ Sound /\ db \in Store /\ promised \in Store /\ promised[Temp] = NoItem
    /\ pending \in Seq(ChangeSet) /\ tasks \in Seq(TaskSet) /\ unrecorded \in BOOLEAN
    /\ elsewhere \in BOOLEAN

\* What is left of a session, and where the log is at each stage of the frame.
Staged ==
    /\ session # "playing" => pending = <<>> /\ changes = <<>> /\ unrecorded = FALSE /\ phase = "update"
    /\ session = "listed" => promised = items
    /\ session = "playing" /\ phase # "update" => changes = <<>>
    /\ elsewhere => excuses # {}

\* A player that logs out is saved before it is despawned.
SavedAtExit == session = "playing" /\ phase = "first" /\ logout => promised = items

Settled == excuses = {} => Settles(db, tasks, promised)

PersistenceInv == Typed /\ Staged /\ NothingForgotten /\ SavedAtExit /\ Settled

\* The database at rest is what the tasks settle to.
LEMMA AtRestIs ==
    ASSUME db \in Store, promised \in Store, tasks \in Seq(TaskSet), Settles(db, tasks, promised)
    PROVE  AtRest = promised
<1>1. PICK n \in Nat : n = Len(tasks) /\ DOMAIN tasks = 1..n
  BY LenProperties
<1>2. /\ \A i \in 1..n : \A r \in RowsOf(tasks[i]) : Run(db, tasks[i])[r] = promised[r]
      /\ \A r \in Rows : (\A i \in 1..n : r \notin RowsOf(tasks[i])) => db[r] = promised[r]
  BY <1>1 DEF Settles
<1>3. ASSUME NEW r \in Rows PROVE AtRest[r] = promised[r]
  <2>1. PICK working : working = {t \in 1..n : r \in RowsOf(tasks[t])}
    OBVIOUS
  <2>2. AtRest[r] = IF working = {} THEN db[r] ELSE Run(db, tasks[CHOOSE t \in working : TRUE])[r]
    BY <1>1, <2>1 DEF AtRest
  <2>3. CASE working = {}
    BY <1>2, <2>1, <2>2, <2>3
  <2>4. CASE working # {}
    <3>1. PICK t \in working : t = CHOOSE u \in working : TRUE
      BY <2>4
    <3>2. QED
      BY <1>2, <2>1, <2>2, <2>4, <3>1
  <2>5. QED
    BY <2>3, <2>4
<1>4. IsStore(AtRest)
  BY DEF AtRest, IsStore
<1>5. IsStore(promised)
  BY Basics
<1>6. QED
  BY <1>3, <1>4, <1>5, StoresEqual

\* Whatever is saved: it settles to the items, unless there is an excuse.
LEMMA SpawnSaves ==
    ASSUME PersistenceInv, session = "playing", changes = <<>>, NEW new \in Seq(TaskSet), Spawn(new),
           (\A i, j \in 1..Len(new) : i # j => RowsOf(new[i]) \cap RowsOf(new[j]) = {})
              => Does(new, Work(optimize(pending)), promised)
    PROVE  /\ Typed' /\ Settled' /\ promised' = items /\ pending' = <<>> /\ items' = items /\ changes' = <<>>
           /\ NothingForgotten' /\ (elsewhere' => excuses' # {})
<1>1. PICK us : us = tasks \o new
  OBVIOUS
<1>2. /\ pending' = <<>> /\ tasks' = us /\ promised' = items /\ items' = items /\ changes' = changes
      /\ unrecorded' = unrecorded /\ db' = db /\ elsewhere' = elsewhere
      /\ excuses' = Excused((IF Collision(us) THEN {"collision"} ELSE {})
                     \cup (IF Reordered(optimize(pending)) THEN {"reordered"} ELSE {})
                     \cup (IF unrecorded THEN {"unrecorded"} ELSE {}))
  BY <1>1 DEF Spawn, inventoryVars
<1>3. /\ items \in Store /\ items[Temp] = NoItem /\ db \in Store /\ promised \in Store /\ pending \in Seq(ChangeSet)
      /\ tasks \in Seq(TaskSet) /\ IsStore(db) /\ IsStore(promised) /\ unrecorded \in BOOLEAN /\ elsewhere \in BOOLEAN
  BY Basics DEF PersistenceInv, Typed, Sound
<1>4. us \in Seq(TaskSet) /\ Len(us) = Len(tasks) + Len(new)
  BY <1>1, <1>3, ConcatProperties
<1>5. <<>> \in Seq(ChangeSet)
  OBVIOUS
<1>6. Typed'
  BY <1>2, <1>3, <1>4, <1>5 DEF Typed, Sound
<1>7. ASSUME excuses' = {} PROVE Settles(db, us, items)
  <2>1. excuses = {} /\ ~Collision(us) /\ ~Reordered(optimize(pending)) /\ ~unrecorded
    BY <1>2, <1>7 DEF Excused
  <2>2. PICK w \in Seq(Piece) : w = Work(optimize(pending))
    BY <1>3, OptimizeIs, WorkIs
  <2>3. items = Run(promised, w)
    <3>1. Replay(promised, pending \o <<>>) = items
      BY <2>1 DEF PersistenceInv, NothingForgotten
    <3>2. pending \o <<>> = pending
      BY <1>3, ConcatEmptySeq
    <3>3. Replay(promised, optimize(pending)) = items
      BY <2>1, <3>1, <3>2 DEF Reordered
    <3>4. QED
      BY <2>2, <3>3 DEF Replay
  <2>4. \A i, j \in 1..Len(us) : i # j => RowsOf(us[i]) \cap RowsOf(us[j]) = {}
    <3>1. DOMAIN us = 1..Len(us)
      BY <1>4
    <3>2. QED
      BY <2>1, <3>1 DEF Collision
  <2>5. \A i, j \in 1..Len(new) : i # j => RowsOf(new[i]) \cap RowsOf(new[j]) = {}
    <3>1. PICK m, n \in Nat : m = Len(tasks) /\ n = Len(new)
      BY <1>3, LenProperties
    <3>2. \A i \in 1..(m + n) : us[i] = IF i <= m THEN tasks[i] ELSE new[i - m]
      BY <1>1, <1>3, <3>1, ConcatProperties
    <3>3. \A i \in 1..n : m + i \in 1..(m + n) /\ ~(m + i <= m) /\ (m + i) - m = i
      BY <3>1
    <3>4. \A i \in 1..n : m + i \in 1..Len(us) /\ us[m + i] = new[i]
      BY <1>4, <3>1, <3>2, <3>3, ZenonT(30)
    <3>5. ASSUME NEW i \in 1..n, NEW j \in 1..n, i # j PROVE RowsOf(new[i]) \cap RowsOf(new[j]) = {}
      <4>1. m + i # m + j
        BY <3>1, <3>5
      <4>2. RowsOf(us[m + i]) \cap RowsOf(us[m + j]) = {}
        BY <2>4, <3>4, <4>1
      <4>3. QED
        BY <3>4, <4>2
    <3>6. QED
      BY <3>1, <3>5
  <2>6. Does(new, w, promised)
    BY <2>2, <2>5
  <2>7. Settles(db, tasks, promised)
    BY <2>1 DEF PersistenceInv, Settled
  <2>8. Settles(db, us, Run(promised, w))
    BY <1>1, <1>3, <2>4, <2>6, <2>7, SettlesSpawned
  <2>9. QED
    BY <2>3, <2>8
<1>8. Settled'
  BY <1>2, <1>7 DEF Settled
<1>9. NothingForgotten'
  <2>1. <<>> \o <<>> = <<>>
    OBVIOUS
  <2>2. QED
    BY <1>2, <2>1, ReplayFew DEF NothingForgotten
<1>10. elsewhere' => excuses' # {}
  BY <1>2 DEF Excused, PersistenceInv, Staged
<1>11. QED
  BY <1>2, <1>6, <1>8, <1>9, <1>10

\* What the player does is recorded, or known not to be.
LEMMA PlaySaves == ASSUME PersistenceInv, Play PROVE PersistenceInv'
<1>1. session = "playing" /\ phase = "update" /\ UNCHANGED <<db, pending, tasks, phase, session, logout, elsewhere, promised, excuses>>
  BY DEF Play, At, persistenceVars
<1>2. Sound /\ (Moves \/ Pickups) /\ pending \in Seq(ChangeSet) /\ changes \in Seq(ChangeSet) /\ unrecorded \in BOOLEAN
  BY DEF PersistenceInv, Typed, Sound, Play
<1>3. Sound' /\ ((Told /\ unrecorded' = unrecorded) \/ unrecorded' = TRUE)
  BY <1>2, Recorded
<1>4. Typed'
  BY <1>1, <1>2, <1>3 DEF PersistenceInv, Typed
<1>5. NothingForgotten'
  <2>1. ASSUME ~unrecorded' PROVE Replay(promised, pending \o changes') = items'
    <3>1. Told /\ ~unrecorded
      BY <1>3, <2>1
    <3>2. Replay(promised, pending \o changes) = items
      BY <1>1, <3>1 DEF PersistenceInv, NothingForgotten
    <3>3. PICK old \in Seq(ChangeSet) : old = pending \o changes
      BY <1>2, ConcatProperties
    <3>4. QED
      BY <1>2, <3>1, <3>2, <3>3, TellsMore
  <2>2. QED
    BY <1>1, <2>1 DEF NothingForgotten
<1>6. Staged' /\ SavedAtExit'
  BY <1>1 DEF PersistenceInv, Staged, SavedAtExit
<1>7. Settled'
  BY <1>1 DEF PersistenceInv, Settled
<1>8. QED
  BY <1>4, <1>5, <1>6, <1>7 DEF PersistenceInv

\* The steps of the frame.
LEMMA FrameSaves == ASSUME PersistenceInv, Frame PROVE PersistenceInv'
<1>0. /\ items \in Store /\ items[Temp] = NoItem /\ promised \in Store /\ IsStore(promised) /\ unrecorded \in BOOLEAN
      /\ pending \in Seq(ChangeSet) /\ changes \in Seq(ChangeSet) /\ <<>> \in Seq(ChangeSet)
  BY Basics DEF PersistenceInv, Typed, Sound
<1>1. CASE tick_logout
  BY <1>1 DEF tick_logout, At, inventoryVars, PersistenceInv, Typed, Sound, Staged, NothingForgotten, SavedAtExit, Settled
<1>2. CASE collect_changes
  <2>1. pending \o changes \in Seq(ChangeSet) /\ (pending \o changes) \o <<>> = pending \o changes
    BY <1>0, ConcatProperties, ConcatEmptySeq
  <2>2. /\ session = "playing" /\ phase = "update" /\ pending' = pending \o changes /\ changes' = <<>> /\ phase' = "apply"
        /\ UNCHANGED <<items, unrecorded, db, tasks, session, logout, elsewhere, promised, excuses>>
    BY <1>2 DEF collect_changes, At
  <2>3. Typed'
    BY <1>0, <2>1, <2>2 DEF PersistenceInv, Typed, Sound
  <2>4. NothingForgotten'
    BY <2>1, <2>2 DEF PersistenceInv, NothingForgotten
  <2>5. Staged' /\ SavedAtExit' /\ Settled'
    BY <2>2 DEF PersistenceInv, Staged, SavedAtExit, Settled
  <2>6. QED
    BY <2>3, <2>4, <2>5 DEF PersistenceInv
<1>3. CASE apply_changes
  <2>1. PICK new : new = EachAlone(optimize(pending))
    OBVIOUS
  <2>2. session = "playing" /\ phase = "apply" /\ phase' = "exit" /\ Spawn(new)
    BY <1>3, <2>1 DEF apply_changes, At
  <2>3. changes = <<>> /\ session' = session
    BY <2>2 DEF PersistenceInv, Staged, Spawn
  <2>4. /\ new \in Seq(TaskSet)
        /\ (\A i, j \in 1..Len(new) : i # j => RowsOf(new[i]) \cap RowsOf(new[j]) = {})
              => Does(new, Work(optimize(pending)), promised)
    BY <1>0, <2>1, OptimizeIs, EachAloneDoes
  <2>5. Typed' /\ Settled' /\ NothingForgotten' /\ changes' = <<>> /\ (elsewhere' => excuses' # {})
    BY <2>2, <2>3, <2>4, SpawnSaves
  <2>6. QED
    BY <2>2, <2>3, <2>5 DEF PersistenceInv, Staged, SavedAtExit
<1>4. CASE apply_changes_exit
  <2>1. PICK new : new = InOrder(optimize(pending))
    OBVIOUS
  <2>2. session = "playing" /\ phase \in {"apply", "exit"} /\ phase' = "first" /\ Spawn(new)
    BY <1>4, <2>1 DEF apply_changes_exit, At
  <2>3. changes = <<>> /\ session' = session
    BY <2>2 DEF PersistenceInv, Staged, Spawn
  <2>4. new \in Seq(TaskSet) /\ Does(new, Work(optimize(pending)), promised)
    BY <1>0, <2>1, OptimizeIs, InOrderDoes
  <2>5. /\ Typed' /\ Settled' /\ NothingForgotten' /\ changes' = <<>> /\ promised' = items /\ items' = items
        /\ (elsewhere' => excuses' # {})
    BY <2>2, <2>3, <2>4, SpawnSaves
  <2>6. QED
    BY <2>2, <2>3, <2>5 DEF PersistenceInv, Staged, SavedAtExit
<1>5. CASE NotYet \/ NobodyLeft \/ NextFrame
  <2>1. /\ session = "playing" /\ UNCHANGED <<inventoryVars, db, pending, tasks, session, logout, elsewhere, promised, excuses>>
        /\ phase' = "first" => ~logout
        /\ phase' = "update" \/ phase # "update"
    BY <1>5 DEF NotYet, NobodyLeft, NextFrame, At
  <2>2. QED
    BY <2>1 DEF inventoryVars, PersistenceInv, Typed, Sound, Staged, NothingForgotten, SavedAtExit, Settled
<1>6. CASE disconnected
  <2>1. /\ session' = "none" /\ phase' = "update" /\ items' = NoItems /\ changes' = <<>> /\ unrecorded' = FALSE /\ pending' = <<>>
        /\ UNCHANGED <<db, tasks, elsewhere, promised, excuses>>
    BY <1>6 DEF disconnected
  <2>2. Typed'
    BY <1>0, <2>1, NoItemsTidy DEF PersistenceInv, Typed, Sound
  <2>3. Staged' /\ NothingForgotten' /\ SavedAtExit' /\ Settled'
    BY <2>1 DEF PersistenceInv, Staged, NothingForgotten, SavedAtExit, Settled
  <2>4. QED
    BY <2>2, <2>3 DEF PersistenceInv
<1>7. QED
  BY <1>1, <1>2, <1>3, <1>4, <1>5, <1>6, PlaySaves DEF Frame

\* The steps of the tasks.
LEMMA TasksSave == ASSUME PersistenceInv, Tasks PROVE PersistenceInv'
<1>1. PICK t \in DOMAIN tasks : ExecuteStatement(t) \/ LoseStatement(t)
  BY DEF Tasks
<1>2. /\ tasks \in Seq(TaskSet) /\ t \in 1..Len(tasks) /\ db \in Store /\ IsStore(db)
  BY <1>1, Basics DEF PersistenceInv, Typed
<1>3. PICK task \in TaskSet : task = tasks[t]
  BY <1>2
<1>4. task \in Seq(Piece) /\ task # <<>> /\ Tail(task) \in Seq(Piece) /\ task[1] \in Piece
  <2>1. task \in Seq(Piece) /\ task # <<>>
    BY DEF TaskSet
  <2>2. QED
    BY <2>1, HeadTailProperties
<1>5. task[1][1] \in AnyStatement
  <2>1. PICK ss \in Piece : ss = task[1]
    BY <1>4
  <2>2. PICK k \in 1..3 : k = Len(ss)
    BY DEF Piece
  <2>3. 1 \in 1..Len(ss)
    BY <2>2
  <2>4. QED
    BY <2>1, <2>3, PieceIs
<1>6. \A failed \in BOOLEAN : Remaining(t, failed) = Without(tasks, t, Rest(task, failed))
  BY <1>3 DEF Remaining, Without, Rest
<1>7. CASE ExecuteStatement(t)
  <2>1. PICK failed \in BOOLEAN : failed = Fails(db, task[1][1])
    BY DEF Fails
  <2>2. PICK rest : rest = Rest(task, failed)
    OBVIOUS
  <2>3. /\ db' = (IF failed THEN db ELSE Execute(db, task[1][1])) /\ tasks' = Without(tasks, t, rest)
        /\ UNCHANGED <<inventoryVars, pending, phase, session, logout, elsewhere, promised, excuses>>
    BY <1>3, <1>6, <1>7, <2>1, <2>2 DEF ExecuteStatement, Current
  <2>4. db' \in Store
    BY <1>2, <1>5, <2>3, ExecuteTyped
  <2>5. rest \in Seq(Piece)
    <3>1. PICK b : b = IF failed THEN db ELSE Execute(db, task[1][1])
      OBVIOUS
    <3>2. QED
      BY <1>2, <1>4, <2>1, <2>2, <3>1, Proceeds
  <2>6. tasks' \in Seq(TaskSet)
    BY <1>2, <2>3, <2>5, WithoutIs
  <2>7. Typed'
    BY <2>3, <2>4, <2>6 DEF PersistenceInv, Typed, Sound, inventoryVars
  <2>8. Staged' /\ NothingForgotten' /\ SavedAtExit'
    BY <2>3 DEF PersistenceInv, Staged, NothingForgotten, SavedAtExit, inventoryVars
  <2>9. ASSUME excuses = {} PROVE Settles(db', tasks', promised)
    <3>1. Settles(db, tasks, promised)
      BY <2>9 DEF PersistenceInv, Settled
    <3>2. PICK d, b, p, ts, us : d = db /\ b = db' /\ p = promised /\ ts = tasks /\ us = tasks'
      OBVIOUS
    <3>3. /\ IsStore(d) /\ ts \in Seq(TaskSet) /\ Settles(d, ts, p) /\ t \in 1..Len(ts)
          /\ b = (IF Fails(d, ts[t][1][1]) THEN d ELSE Execute(d, ts[t][1][1]))
          /\ rest = Rest(ts[t], Fails(d, ts[t][1][1])) /\ us = Without(ts, t, rest)
      BY <1>2, <1>3, <2>1, <2>2, <2>3, <3>1, <3>2
    <3>4. Settles(b, us, p)
      BY <3>3, SettlesOn
    <3>5. QED
      BY <3>2, <3>4
  <2>10. Settled'
    BY <2>3, <2>9 DEF Settled
  <2>11. QED
    BY <2>7, <2>8, <2>10 DEF PersistenceInv
<1>8. CASE LoseStatement(t)
  <2>1. PICK rest : rest = Rest(task, TRUE)
    OBVIOUS
  <2>2. /\ tasks' = Without(tasks, t, rest) /\ excuses' # {}
        /\ UNCHANGED <<inventoryVars, db, pending, phase, session, logout, elsewhere, promised>>
    BY <1>6, <1>8, <2>1 DEF LoseStatement, Excused
  <2>3. rest \in Seq(Piece)
    BY <1>4, <2>1 DEF Rest
  <2>4. tasks' \in Seq(TaskSet)
    BY <1>2, <2>2, <2>3, WithoutIs
  <2>5. Typed'
    BY <2>2, <2>4 DEF PersistenceInv, Typed, Sound, inventoryVars
  <2>6. Staged' /\ NothingForgotten' /\ SavedAtExit' /\ Settled'
    BY <2>2 DEF PersistenceInv, Staged, NothingForgotten, SavedAtExit, Settled, inventoryVars
  <2>7. QED
    BY <2>5, <2>6 DEF PersistenceInv
<1>9. QED
  BY <1>1, <1>7, <1>8

\* The next session begins with what the database has.
LEMMA ListSaves == ASSUME PersistenceInv, ListCharacters PROVE PersistenceInv'
<1>1. /\ session' = "listed" /\ session # "playing" /\ items' = [s \in Rows |-> Loaded(s)] /\ promised' = items'
      /\ excuses' = IF tasks # <<>> THEN Excused({"reload"})
                    ELSE IF elsewhere \/ db[Temp] # NoItem THEN excuses ELSE {}
      /\ UNCHANGED <<changes, unrecorded, db, pending, tasks, phase, logout, elsewhere>>
  BY DEF ListCharacters
<1>2. db \in Store /\ \A r \in Rows : db[r] \in Item \cup {NoItem}
  BY DEF PersistenceInv, Typed, Store
<1>3. Temp \in Rows
  BY Basics
<1>4. \A s \in Rows : Loaded(s) \in Item \cup {NoItem}
  BY <1>2, <1>3 DEF Loaded
<1>5. items' \in Store
  BY <1>1, <1>4 DEF Store
<1>6. items'[Temp] = NoItem
  BY <1>1, <1>3 DEF Loaded
<1>7. Typed'
  BY <1>1, <1>5, <1>6 DEF PersistenceInv, Typed, Sound
<1>8. Staged' /\ NothingForgotten' /\ SavedAtExit'
  BY <1>1 DEF PersistenceInv, Staged, NothingForgotten, SavedAtExit, Excused
<1>9. ASSUME excuses' = {} PROVE Settles(db, tasks, items')
  <2>1. tasks = <<>>
    BY <1>1, <1>9 DEF Excused
  <2>2. db[Temp] = NoItem
    <3>1. CASE excuses = {}
      <4>1. Settles(db, tasks, promised) /\ promised[Temp] = NoItem
        BY <3>1 DEF PersistenceInv, Settled, Typed
      <4>2. \A i : i \notin 1..Len(tasks)
        BY <2>1
      <4>3. db[Temp] = promised[Temp]
        BY <1>3, <4>1, <4>2 DEF Settles
      <4>4. QED
        BY <4>1, <4>3
    <3>2. CASE excuses # {}
      BY <1>1, <1>9, <2>1, <3>2
    <3>3. QED
      BY <3>1, <3>2
  <2>3. \A s \in Rows : db[s] = items'[s]
    BY <1>1, <2>2 DEF Loaded
  <2>4. \A i : i \notin 1..Len(tasks)
    BY <2>1
  <2>5. QED
    BY <2>3, <2>4 DEF Settles
<1>10. Settled'
  BY <1>1, <1>9 DEF Settled
<1>11. QED
  BY <1>7, <1>8, <1>10 DEF PersistenceInv

\* The character list is what joins.
LEMMA JoinSaves == ASSUME PersistenceInv, handle_join PROVE PersistenceInv'
<1>1. /\ session = "listed" /\ session' = "playing"
      /\ UNCHANGED <<inventoryVars, db, pending, tasks, phase, logout, elsewhere, promised, excuses>>
  BY DEF handle_join
<1>2. pending = <<>> /\ changes = <<>> /\ promised = items /\ phase = "update"
  BY <1>1 DEF PersistenceInv, Staged
<1>3. Replay(promised, pending \o changes) = items
  <2>1. <<>> \o <<>> = <<>>
    OBVIOUS
  <2>2. QED
    BY <1>2, <2>1, ReplayFew
<1>4. Typed' /\ Settled'
  BY <1>1 DEF PersistenceInv, Typed, Sound, Settled, inventoryVars
<1>5. Staged' /\ NothingForgotten' /\ SavedAtExit'
  BY <1>1, <1>2, <1>3 DEF PersistenceInv, Staged, NothingForgotten, SavedAtExit, inventoryVars
<1>6. QED
  BY <1>4, <1>5 DEF PersistenceInv

\* What another connection does changes the tasks only, and is known to.
LEMMA ElsewhereSaves == ASSUME PersistenceInv, Elsewhere PROVE PersistenceInv'
<1>1. CASE JoinElsewhere
  <2>1. elsewhere' = TRUE /\ excuses' # {} /\ UNCHANGED <<inventoryVars, db, pending, tasks, phase, session, logout, promised>>
    BY <1>1 DEF JoinElsewhere, Excused
  <2>2. QED
    BY <2>1 DEF inventoryVars, PersistenceInv, Typed, Sound, Staged, NothingForgotten, SavedAtExit, Settled
<1>2. CASE LeaveElsewhere
  <2>1. elsewhere' = FALSE /\ UNCHANGED <<inventoryVars, db, pending, tasks, phase, session, logout, promised, excuses>>
    BY <1>2 DEF LeaveElsewhere
  <2>2. QED
    BY <2>1 DEF inventoryVars, PersistenceInv, Typed, Sound, Staged, NothingForgotten, SavedAtExit, Settled
<1>3. ASSUME NEW c \in OtherChanges, SaveElsewhere(c) PROVE PersistenceInv'
  <2>1. /\ elsewhere /\ tasks' = Append(tasks, <<Statements(c)>>)
        /\ UNCHANGED <<inventoryVars, db, pending, phase, session, logout, elsewhere, promised, excuses>>
    BY <1>3 DEF SaveElsewhere
  <2>2. PICK ss \in Piece : ss = Statements(c)
    BY PersistenceAssumption, StatementsIs
  <2>3. <<ss>> \in TaskSet
    BY DEF TaskSet
  <2>4. tasks' \in Seq(TaskSet)
    <3>1. tasks \in Seq(TaskSet)
      BY DEF PersistenceInv, Typed
    <3>2. QED
      BY <2>1, <2>2, <2>3, <3>1, AppendProperties
  <2>5. Typed'
    BY <2>1, <2>4 DEF PersistenceInv, Typed, Sound, inventoryVars
  <2>6. Staged' /\ NothingForgotten' /\ SavedAtExit'
    BY <2>1 DEF PersistenceInv, Staged, NothingForgotten, SavedAtExit, inventoryVars
  <2>7. Settled'
    BY <2>1 DEF PersistenceInv, Staged, Settled
  <2>8. QED
    BY <2>5, <2>6, <2>7 DEF PersistenceInv
<1>4. QED
  BY <1>1, <1>2, <1>3 DEF Elsewhere

\* The invariant holds in every state.
LEMMA PersistenceInductive == PersistenceSpec => []PersistenceInv
<1>1. PersistenceInit => PersistenceInv
  <2> SUFFICES ASSUME PersistenceInit PROVE PersistenceInv
    OBVIOUS
  <2>1. /\ items = NoItems /\ changes = <<>> /\ unrecorded = FALSE /\ db = NoItems /\ pending = <<>> /\ tasks = <<>>
        /\ phase = "update" /\ session = "none" /\ promised = NoItems /\ elsewhere = FALSE
    BY DEF PersistenceInit, Init
  <2>2. Typed
    <3>1. <<>> \in Seq(ChangeSet) /\ <<>> \in Seq(TaskSet)
      OBVIOUS
    <3>2. QED
      BY <2>1, <3>1, NoItemsTidy DEF Typed, Sound
  <2>3. Settles(db, tasks, promised)
    <3>1. \A i : i \notin 1..Len(tasks)
      BY <2>1
    <3>2. QED
      BY <2>1, <3>1 DEF Settles
  <2>4. QED
    BY <2>1, <2>2, <2>3 DEF PersistenceInv, Staged, NothingForgotten, SavedAtExit, Settled
<1>2. PersistenceInv /\ [PersistenceNext]_vars => PersistenceInv'
  <2> SUFFICES ASSUME PersistenceInv, [PersistenceNext]_vars PROVE PersistenceInv'
    OBVIOUS
  <2>1. CASE UNCHANGED vars
    BY <2>1 DEF vars, inventoryVars, persistenceVars, PersistenceInv, Typed, Sound, Staged, NothingForgotten, SavedAtExit, Settled
  <2>2. QED
    BY <2>1, FrameSaves, TasksSave, ListSaves, JoinSaves, ElsewhereSaves DEF PersistenceNext
<1>3. QED
  BY <1>1, <1>2, PTL DEF PersistenceSpec

\* What was saved last is what the database ends up with, however the tasks of
\* several saves interleave with play, logouts, lost connections and new
\* sessions (persistence/mod.rs), but for the six excuses.
THEOREM EverythingIsSaved == PersistenceSpec => []SavedInTheEnd
<1>1. PersistenceInv => SavedInTheEnd
  BY AtRestIs DEF PersistenceInv, Typed, Settled, SavedInTheEnd
<1>2. QED
  BY <1>1, PersistenceInductive, PTL

\* Between the inventory and the collection no change is dropped, applied twice
\* or put in the wrong order, for logs of any length.
THEOREM ChangesReachTheCollection == PersistenceSpec => []NothingForgotten
<1>1. PersistenceInv => NothingForgotten
  BY DEF PersistenceInv
<1>2. QED
  BY <1>1, PersistenceInductive, PTL

\* A player that logs out is despawned only when the saving of all it has has begun.
THEOREM NobodyLeavesUnsaved == PersistenceSpec => LogoutSaves
<1>1. PersistenceInv /\ [PersistenceNext]_vars =>
        [(session = "playing" /\ session' = "none" /\ logout) => promised = items]_vars
  <2> SUFFICES ASSUME PersistenceInv, PersistenceNext, session = "playing", session' = "none", logout
               PROVE  promised = items
    OBVIOUS
  <2>1. disconnected
    BY DEF PersistenceNext, Frame, Tasks, Play, tick_logout, collect_changes, apply_changes, NotYet, apply_changes_exit,
           NobodyLeft, NextFrame, ListCharacters, handle_join, ExecuteStatement, LoseStatement, Spawn, persistenceVars,
           Elsewhere, JoinElsewhere, SaveElsewhere, LeaveElsewhere
  <2>2. QED
    BY <2>1 DEF disconnected, At, PersistenceInv, SavedAtExit
<1>2. QED
  BY <1>1, PersistenceInductive, PTL DEF PersistenceSpec, LogoutSaves

-----------------------------------------------------------------------------
(* Types and bounds.                                                       *)

\* No operation records more than the two changes there is room for.
LEMMA RecordsFew ==
    ASSUME changes \in Seq(ChangeSet), Room, NEW a, NEW b, Record(<<a>>) \/ Record(<<a, b>>)
    PROVE  Len(changes') <= MaxChanges
<1>1. PICK S : S = ChangeSet \cup {a, b}
  OBVIOUS
<1>2. changes \in Seq(S)
  BY <1>1, SeqMonotonic
<1>3. <<a>> \in Seq(S) /\ <<a, b>> \in Seq(S) /\ Len(<<a>>) = 1 /\ Len(<<a, b>>) = 2
  BY <1>1
<1>4. Len(changes) \in Nat /\ Len(changes) + 2 <= MaxChanges /\ MaxChanges \in Nat
  BY LenProperties, InventoryAssumption DEF Room
<1>5. Len(changes \o <<a>>) = Len(changes) + 1 /\ Len(changes \o <<a, b>>) = Len(changes) + 2
  BY <1>2, <1>3, ConcatProperties
<1>6. QED
  BY <1>4, <1>5 DEF Record

\* So the log of changes stays within its bound.
LEMMA OperationsBrief ==
    ASSUME changes \in Seq(ChangeSet), Moves \/ Pickups
    PROVE  Len(changes') <= MaxChanges
<1>1. ASSUME Room, \E a, b : Record(<<a>>) \/ Record(<<a, b>>) PROVE Len(changes') <= MaxChanges
  BY <1>1, RecordsFew
<1>2. CASE Moves
  <2>1. PICK s, t \in Slots, amount \in Nat \ {0} : move_item(s, t, amount)
    BY <1>2, MovesAre
  <2>2. Room
    BY <2>1 DEF move_item
  <2>3. \E a, b : Record(<<a>>) \/ Record(<<a, b>>)
    <3>1. CASE MoveToEmptySlot(s, t)
      BY <3>1, Zenon DEF MoveToEmptySlot
    <3>2. CASE StackAll(s, t, amount)
      BY <3>2, Zenon DEF StackAll
    <3>3. CASE StackSome(s, t, amount)
      BY <3>3, Zenon DEF StackSome
    <3>4. CASE StackFails(s, t, amount)
      BY <3>4, Zenon DEF StackFails
    <3>5. CASE SwapItems(s, t)
      BY <3>5, Zenon DEF SwapItems
    <3>6. QED
      BY <2>1, <3>1, <3>2, <3>3, <3>4, <3>5 DEF move_item
  <2>4. QED
    BY <1>1, <2>2, <2>3
<1>3. CASE Pickups
  <2>1. PICK item \in Drops : add_item(item)
    BY <1>3 DEF Pickups
  <2>2. Room
    BY <2>1 DEF add_item
  <2>3. \E a, b : Record(<<a>>) \/ Record(<<a, b>>)
    <3>1. ASSUME NEW s \in Slots, AddToStack(item, s) PROVE \E a, b : Record(<<a>>) \/ Record(<<a, b>>)
      BY <3>1, Zenon DEF AddToStack
    <3>2. ASSUME NEW s \in Slots, OverflowStack(item, s) PROVE \E a, b : Record(<<a>>) \/ Record(<<a, b>>)
      BY <3>2, Zenon DEF OverflowStack
    <3>3. CASE AddToFreeSlot(item)
      BY <3>3, Zenon DEF AddToFreeSlot
    <3>4. QED
      BY <2>1, <3>1, <3>2, <3>3 DEF add_item
  <2>4. QED
    BY <1>1, <2>2, <2>3
<1>4. QED
  BY <1>2, <1>3

\* The types of the inventory follow from what was proved of it and its bound.
LEMMA InventoryTypes ==
    ASSUME Sound, base \in Store, Len(changes) <= MaxChanges, unrecorded \in BOOLEAN
    PROVE  TypeOK
<1>1. \A i \in 1..Len(changes) : changes[i] \in ChangeSet
  BY ElementOfSeq DEF Sound
<1>2. \A c \in ChangeSet : Touched(c) \subseteq Slots
  BY DEF ChangeSet, Touched
<1>3. QED
  BY <1>1, <1>2 DEF TypeOK, Sound, Store

\* No amount goes below zero in any operation of Inventory, no item is in the parking
\* slot, and every recorded change is about slots of the inventory.
THEOREM InventoryTyped == Spec => []TypeOK
<1> DEFINE Bound == base \in Store /\ Len(changes) <= MaxChanges
<1>1. Init => Bound
  <2>1. Len(<<>>) = 0 /\ MaxChanges \in Nat
    BY InventoryAssumption
  <2>2. QED
    BY <2>1, NoItemsTidy DEF Init
<1>2. InventoryInv /\ Bound /\ [Next]_inventoryVars => Bound'
  <2> SUFFICES ASSUME InventoryInv, Bound, [Next]_inventoryVars PROVE Bound'
    OBVIOUS
  <2>1. Sound
    BY DEF InventoryInv
  <2>2. CASE Moves \/ Pickups
    BY <2>1, <2>2, Recorded, OperationsBrief DEF Sound
  <2>3. CASE TakeChanges
    <3>1. Len(<<>>) = 0 /\ MaxChanges \in Nat
      BY InventoryAssumption
    <3>2. QED
      BY <2>1, <2>3, <3>1 DEF TakeChanges, Sound
  <2>4. CASE UNCHANGED inventoryVars
    BY <2>4 DEF inventoryVars
  <2>5. QED
    BY <2>2, <2>3, <2>4 DEF Next
<1>3. InventoryInv /\ Bound => TypeOK
  BY InventoryTypes DEF InventoryInv
<1>4. QED
  BY <1>1, <1>2, <1>3, InventoryInductive, PTL DEF Spec

\* The bounds of the system: what is recorded and collected fits into one save.
Bounded ==
    /\ base \in Store /\ Len(changes) <= MaxChanges
    /\ Len(pending) + Len(changes) <= MaxPending /\ Len(tasks) <= MaxTasks
    /\ phase \in {"update", "apply", "exit", "first"}
    /\ session \in {"none", "listed", "playing"} /\ logout \in BOOLEAN
    /\ excuses \subseteq Excuses

\* A task that has gone on a statement is one task, or none.
LEMMA FewerTasks ==
    ASSUME tasks \in Seq(TaskSet), NEW t \in DOMAIN tasks, NEW failed, tasks' = Remaining(t, failed), tasks' \in Seq(TaskSet)
    PROVE  Len(tasks') <= Len(tasks)
<1>1. Len(tasks) \in Nat /\ Len(tasks') \in Nat /\ DOMAIN tasks = 1..Len(tasks) /\ DOMAIN tasks' = 1..Len(tasks')
  BY LenProperties
<1>2. PICK rest : tasks' = IF rest = <<>> THEN RemoveAt(tasks, t) ELSE [tasks EXCEPT ![t] = rest]
  BY DEF Remaining
<1>3. CASE rest = <<>>
  <2>1. tasks' = SubSeq(tasks, 1, t - 1) \o SubSeq(tasks, t + 1, Len(tasks))
    BY <1>2, <1>3 DEF RemoveAt
  <2>2. /\ SubSeq(tasks, 1, t - 1) \in Seq(TaskSet) /\ Len(SubSeq(tasks, 1, t - 1)) = t - 1
        /\ SubSeq(tasks, t + 1, Len(tasks)) \in Seq(TaskSet) /\ Len(SubSeq(tasks, t + 1, Len(tasks))) = Len(tasks) - t
    <3>1. t \in Nat /\ 1 <= t /\ t <= Len(tasks)
      BY <1>1
    <3>2. SubSeq(tasks, 1, t - 1) \in Seq(TaskSet) /\ Len(SubSeq(tasks, 1, t - 1)) = t - 1
      BY <1>1, <3>1, SubSeqProperties
    <3>3. SubSeq(tasks, t + 1, Len(tasks)) \in Seq(TaskSet) /\ Len(SubSeq(tasks, t + 1, Len(tasks))) = Len(tasks) - t
      BY <1>1, <3>1, SubSeqProperties
    <3>4. QED
      BY <3>2, <3>3
  <2>3. Len(tasks') = Len(SubSeq(tasks, 1, t - 1)) + Len(SubSeq(tasks, t + 1, Len(tasks)))
    BY <2>1, <2>2, ConcatProperties
  <2>4. QED
    BY <1>1, <2>2, <2>3
<1>4. CASE rest # <<>>
  <2>1. DOMAIN tasks' = DOMAIN tasks
    BY <1>2, <1>4
  <2>2. QED
    BY <1>1, <2>1
<1>5. QED
  BY <1>3, <1>4

\* The bounds hold as the model has them in its guards.
LEMMA BoundedStep ==
    ASSUME PersistenceInv, PersistenceInv', Bounded, [PersistenceNext]_vars
    PROVE  Bounded'
<1>1. /\ changes \in Seq(ChangeSet) /\ pending \in Seq(ChangeSet) /\ tasks \in Seq(TaskSet) /\ tasks' \in Seq(TaskSet)
      /\ Len(changes) \in Nat /\ Len(pending) \in Nat /\ Len(tasks) \in Nat /\ Len(tasks') \in Nat
      /\ items \in Store /\ items' \in Store /\ Sound
  BY LenProperties DEF PersistenceInv, Typed, Sound
<1>2. Len(<<>>) = 0 /\ MaxChanges \in Nat /\ MaxPending \in Nat /\ MaxTasks \in Nat
  BY InventoryAssumption, PersistenceAssumption
<1>3. CASE Play
  <2>1. Moves \/ Pickups
    BY <1>3 DEF Play
  <2>2. base' = base /\ Len(changes') <= MaxChanges
    BY <1>1, <2>1, Recorded, OperationsBrief
  <2>3. UNCHANGED persistenceVars /\ Len(pending) + Len(changes') <= MaxPending
    BY <1>3 DEF Play
  <2>4. QED
    BY <2>2, <2>3 DEF Bounded, persistenceVars
<1>4. CASE tick_logout \/ NotYet \/ NobodyLeft \/ NextFrame \/ handle_join
  BY <1>4 DEF Bounded, tick_logout, NotYet, NobodyLeft, NextFrame, handle_join, inventoryVars
<1>5. CASE collect_changes
  <2>1. Len(pending \o changes) = Len(pending) + Len(changes)
    BY <1>1, ConcatProperties
  <2>2. QED
    BY <1>1, <1>2, <1>5, <2>1 DEF Bounded, collect_changes
<1>6. ASSUME NEW new, Spawn(new), phase' \in {"exit", "first"} PROVE Bounded'
  <2>1. Len(tasks') <= MaxTasks /\ pending' = <<>> /\ UNCHANGED <<inventoryVars, session, logout, elsewhere>>
    BY <1>6 DEF Spawn
  <2>2. excuses' \subseteq excuses \cup {"collision", "reordered", "unrecorded"}
    BY <1>6 DEF Spawn, Excused
  <2>3. excuses' \subseteq Excuses
    BY <2>2 DEF Bounded, Excuses
  <2>4. Len(pending') + Len(changes') <= MaxPending
    BY <1>1, <1>2, <2>1 DEF Bounded, inventoryVars
  <2>5. QED
    BY <1>6, <2>1, <2>3, <2>4 DEF Bounded, inventoryVars
<1>7. CASE apply_changes \/ apply_changes_exit
  BY <1>6, <1>7 DEF apply_changes, apply_changes_exit
<1>8. CASE disconnected
  <2>1. /\ session' = "none" /\ logout' = FALSE /\ phase' = "update" /\ base' = NoItems /\ changes' = <<>>
        /\ pending' = <<>> /\ UNCHANGED <<tasks, excuses>>
    BY <1>8 DEF disconnected
  <2>2. Len(changes') = 0 /\ Len(pending') = 0 /\ 0 <= MaxChanges /\ 0 + 0 <= MaxPending
    BY <1>2, <2>1
  <2>3. logout' \in BOOLEAN /\ base' \in Store
    BY <2>1, NoItemsTidy
  <2>4. QED
    BY <2>1, <2>2, <2>3 DEF Bounded
<1>9. ASSUME NEW t \in DOMAIN tasks, ExecuteStatement(t) \/ LoseStatement(t) PROVE Bounded'
  <2>1. \E failed : tasks' = Remaining(t, failed)
    BY <1>9 DEF ExecuteStatement, LoseStatement
  <2>2. Len(tasks') <= Len(tasks)
    BY <1>1, <1>9, <2>1, FewerTasks
  <2>3. Len(tasks') <= MaxTasks
    BY <1>1, <1>2, <2>2 DEF Bounded
  <2>4. excuses' \subseteq excuses \cup {"error"} /\ UNCHANGED <<inventoryVars, pending, phase, session, logout, elsewhere>>
    BY <1>9 DEF ExecuteStatement, LoseStatement, Excused
  <2>5. QED
    BY <2>3, <2>4 DEF Bounded, Excuses, inventoryVars
<1>10. CASE ListCharacters
  <2>1. base' = items' /\ session' = "listed" /\ UNCHANGED <<changes, pending, tasks, phase, logout, elsewhere>>
    BY <1>10 DEF ListCharacters
  <2>2. excuses' \subseteq excuses \cup {"reload"}
    BY <1>10 DEF ListCharacters, Excused
  <2>3. QED
    BY <1>1, <2>1, <2>2 DEF Bounded, Excuses
<1>11. CASE UNCHANGED vars
  BY <1>11 DEF Bounded, vars, inventoryVars, persistenceVars
<1>12. CASE JoinElsewhere \/ LeaveElsewhere
  <2>1. excuses' \subseteq excuses \cup {"twice"} /\ UNCHANGED <<inventoryVars, pending, tasks, phase, session, logout>>
    BY <1>12 DEF JoinElsewhere, LeaveElsewhere, Excused
  <2>2. QED
    BY <2>1 DEF Bounded, Excuses, inventoryVars
<1>13. ASSUME NEW c \in OtherChanges, SaveElsewhere(c) PROVE Bounded'
  <2>1. /\ tasks' = Append(tasks, <<Statements(c)>>) /\ Len(tasks) < MaxTasks
        /\ UNCHANGED <<inventoryVars, pending, phase, session, logout, excuses>>
    BY <1>13 DEF SaveElsewhere
  <2>2. Len(tasks') = Len(tasks) + 1
    BY <1>1, <2>1
  <2>3. Len(tasks') <= MaxTasks
    BY <1>1, <1>2, <2>1, <2>2
  <2>4. QED
    BY <2>1, <2>3 DEF Bounded, inventoryVars
<1>14. QED
  BY <1>3, <1>4, <1>5, <1>7, <1>8, <1>9, <1>10, <1>11, <1>12, <1>13 DEF PersistenceNext, Frame, Tasks, Elsewhere

\* Over all sessions, rows and items are well formed and no inventory has an item in the
\* parking slot -1, whatever an interrupted swap left there when it was loaded
\* (from_db_inventory); no task is left without a statement.
THEOREM PersistenceTyped == PersistenceSpec => []PersistenceTypeOK
<1>1. PersistenceInit => Bounded
  <2> SUFFICES ASSUME PersistenceInit PROVE Bounded
    OBVIOUS
  <2>1. /\ base = NoItems /\ changes = <<>> /\ pending = <<>> /\ tasks = <<>> /\ phase = "update" /\ session = "none"
        /\ logout = FALSE /\ excuses = {}
    BY DEF PersistenceInit, Init
  <2>2. MaxChanges \in Nat /\ MaxPending \in Nat /\ MaxTasks \in Nat
    BY InventoryAssumption, PersistenceAssumption
  <2>3. Len(changes) <= MaxChanges /\ Len(pending) + Len(changes) <= MaxPending /\ Len(tasks) <= MaxTasks
    BY <2>1, <2>2
  <2>4. logout \in BOOLEAN /\ base \in Store
    BY <2>1, NoItemsTidy
  <2>5. QED
    BY <2>1, <2>3, <2>4 DEF Bounded
<1>2. PersistenceInv /\ PersistenceInv' /\ Bounded /\ [PersistenceNext]_vars => Bounded'
  BY BoundedStep
<1>3. PersistenceInv /\ Bounded => PersistenceTypeOK
  <2> SUFFICES ASSUME PersistenceInv, Bounded PROVE PersistenceTypeOK
    OBVIOUS
  <2>1. TypeOK
    BY InventoryTypes DEF PersistenceInv, Typed, Bounded
  <2>2. Len(pending) <= MaxPending
    <3>1. Len(pending) \in Nat /\ Len(changes) \in Nat /\ MaxPending \in Nat
      BY LenProperties, PersistenceAssumption DEF PersistenceInv, Typed, Sound
    <3>2. QED
      BY <3>1 DEF Bounded
  <2>3. ASSUME NEW t \in DOMAIN tasks PROVE tasks[t] # <<>> /\ \A i \in DOMAIN tasks[t] : tasks[t][i] # <<>>
    <3>1. tasks[t] \in TaskSet
      BY <2>3, LenProperties, ElementOfSeq DEF PersistenceInv, Typed
    <3>2. tasks[t] # <<>> /\ tasks[t] \in Seq(Piece)
      BY <3>1 DEF TaskSet
    <3>3. ASSUME NEW i \in DOMAIN tasks[t] PROVE tasks[t][i] # <<>>
      <4>1. tasks[t][i] \in Piece
        BY <3>2, <3>3, LenProperties, ElementOfSeq
      <4>2. Len(tasks[t][i]) \in 1..3 /\ Len(<<>>) = 0
        BY <4>1, Zenon DEF Piece
      <4>3. QED
        BY <4>2
    <3>4. QED
      BY <3>2, <3>3
  <2>4. QED
    BY <2>1, <2>2, <2>3 DEF PersistenceTypeOK, PersistenceInv, Typed, Bounded, Store
<1>4. QED
  BY <1>1, <1>2, <1>3, PersistenceInductive, PTL DEF PersistenceSpec
====
