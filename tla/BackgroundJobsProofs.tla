------------------------- MODULE BackgroundJobsProofs -------------------------
(* Theorems about BackgroundJobs, for every value of its constants. *)
EXTENDS BackgroundJobs, FiniteSetTheorems, WellFoundedInduction, TLAPS

-----------------------------------------------------------------------------
(* Sets of items *)

LEMMA LeastItem ==
    ASSUME NEW S \in SUBSET Nat, S # {}
    PROVE  \E m \in S : \A n \in S : m <= n
<1> DEFINE R == OpToRel(<, Nat)
<1>1. IsWellFoundedOn(R, Nat)
  BY NatLessThanWellFounded, Zenon
<1>2. \A m, n \in Nat : m < n => <<m, n>> \in R
  BY DEF OpToRel
<1>3. PICK m \in S : \A n \in S : ~(<<n, m>> \in R)
  <2> HIDE DEF R
  <2> QED BY <1>1, WFMin
<1> HIDE DEF R
<1>4. \A n \in S : ~(n < m)
  BY <1>2, <1>3
<1> QED BY <1>3, <1>4

LEMMA GreatestItem ==
    ASSUME NEW S \in SUBSET Items, S # {}
    PROVE  \E m \in S : \A n \in S : n <= m
<1> DEFINE Left(i) == LastItem - i
<1>1. {Left(i) : i \in S} \in SUBSET Nat /\ {Left(i) : i \in S} # {}
  <2>1. \A i \in S : Left(i) \in Nat
    BY ItemsAssumption DEF Items
  <2> QED BY <2>1
<1>2. PICK k \in {Left(i) : i \in S} : \A n \in {Left(i) : i \in S} : k <= n
  <2> HIDE DEF Left
  <2> QED BY <1>1, LeastItem
<1>3. PICK m \in S : k = Left(m)
  OBVIOUS
<1>4. \A n \in S : Left(m) <= Left(n)
  BY <1>2, <1>3
<1> QED BY <1>4, ItemsAssumption DEF Items

-----------------------------------------------------------------------------
(* A table of jobs, and what a refill does to it *)

Tables(table) ==
    /\ IsFiniteSet(DOMAIN table)
    /\ DOMAIN table \subseteq JobIds
    /\ table \in [DOMAIN table -> Rows]

Admissions == [cursor : 0 .. LastItem, resting : BOOLEAN]
Catalogs == [Items -> Evidences \cup {Missing}]

LEMMA RowsOf ==
    ASSUME NEW table, NEW statuses
    PROVE  /\ Having(table, statuses) \subseteq DOMAIN table
           /\ \A id \in DOMAIN table :
                 id \in Having(table, statuses) <=> table[id].status \in statuses
BY DEF Having

\* The items of a refill follow the cursor in the catalog.
LEMMA FollowingItems ==
    ASSUME NEW evidence, NEW cursor
    PROVE  /\ Following(evidence, cursor) \in SUBSET Items
           /\ IsFiniteSet(Following(evidence, cursor))
           /\ \A i \in Following(evidence, cursor) : evidence[i] # Missing
<1>1. Following(evidence, cursor) \in SUBSET Items
      /\ \A i \in Following(evidence, cursor) : evidence[i] # Missing
  BY DEF Following, Admissible
<1>2. IsFiniteSet(Items)
  BY ItemsAssumption, FS_Interval DEF Items
<1> QED BY <1>1, <1>2, FS_Subset

\* As long as the window has room the first of them is examined.
LEMMA FirstExamined ==
    ASSUME NEW table, Tables(table), NEW evidence, NEW revision,
           NEW rows \in SUBSET Items, IsFiniteSet(rows), rows # {},
           Room(Cardinality(Having(table, Active)))
    PROVE  Examined(table, evidence, revision, rows) # {}
<1> DEFINE Before(i) == {j \in rows : j < i /\ Admitted(table, <<j, <<evidence[j], revision>>>>)}
           n == Cardinality(Having(table, Active))
<1>1. rows \in SUBSET Nat
  BY ItemsAssumption DEF Items
<1>2. PICK m \in rows : \A i \in rows : m <= i
  BY <1>1, LeastItem
<1>3. Before(m) = {}
  <2>1. \A j \in rows : ~(j < m)
    BY <1>1, <1>2
  <2> QED BY <2>1
<1>4. n \in Nat
  <2>1. IsFiniteSet(Having(table, Active))
    BY RowsOf, FS_Subset DEF Tables
  <2> QED BY <2>1, FS_CardinalityType
<1>5. n + Cardinality(Before(m)) = n
  <2>1. Cardinality(Before(m)) = 0
    BY <1>3, FS_EmptySet
  <2> HIDE DEF Before, n
  <2> QED BY <1>4, <2>1
<1>6. Room(n + Cardinality(Before(m)))
  <2> HIDE DEF Before, n
  <2> QED BY <1>5 DEF n
<1> QED BY <1>6 DEF Examined

\* What a refill admits fits into the room that the window had.
LEMMA AdmitsWithinWindow ==
    ASSUME NEW table, Tables(table), NEW evidence, NEW revision,
           NEW rows \in SUBSET Items, IsFiniteSet(rows),
           Room(Cardinality(Having(table, Active)))
    PROVE  LET seen == Examined(table, evidence, revision, rows)
               new  == {id \in {<<i, <<evidence[i], revision>>>> : i \in seen} :
                           Admitted(table, id)}
           IN  /\ IsFiniteSet(new)
               /\ Cardinality(Having(table, Active)) + Cardinality(new) <= Window
<1> DEFINE n == Cardinality(Having(table, Active))
           Id(i) == <<i, <<evidence[i], revision>>>>
           Before(i) == {j \in rows : j < i /\ Admitted(table, Id(j))}
           seen == Examined(table, evidence, revision, rows)
           N == {i \in seen : Admitted(table, Id(i))}
           new == {id \in {Id(i) : i \in seen} : Admitted(table, id)}
<1>1. n \in Nat
  <2>1. IsFiniteSet(Having(table, Active))
    BY RowsOf, FS_Subset DEF Tables
  <2> QED BY <2>1, FS_CardinalityType
<1>2. N \in SUBSET rows /\ rows \in SUBSET Nat
  BY ItemsAssumption DEF Examined, Items
<1>3. IsFiniteSet(N) /\ Cardinality(N) \in Nat
  BY <1>2, FS_Subset, FS_CardinalityType
<1>4. n + Cardinality(N) <= Window
  <2>1. CASE N = {}
    <3>1. Cardinality(N) = 0
      BY <2>1, FS_EmptySet
    <3>2. n < Window
      BY DEF Room
    <3> HIDE DEF n, N
    <3> QED BY <1>1, <3>1, <3>2, ItemsAssumption
  <2>2. CASE N # {}
    <3>1. PICK m \in N : \A i \in N : i <= m
      <4>1. N \in SUBSET Items
        BY DEF Examined
      <4> HIDE DEF N
      <4> QED BY <2>2, <4>1, GreatestItem
    <3>2. N \ {m} \subseteq Before(m)
      <4> SUFFICES ASSUME NEW i \in N, i # m PROVE i \in Before(m)
        OBVIOUS
      <4>1. i < m
        <5> HIDE DEF N
        <5> QED BY <1>2, <3>1
      <4> QED BY <1>2, <4>1
    <3>3. IsFiniteSet(Before(m)) /\ Before(m) \in SUBSET rows
      BY FS_Subset
    <3>4. Cardinality(N \ {m}) <= Cardinality(Before(m)) /\ Cardinality(Before(m)) \in Nat
      <4> HIDE DEF N, Before
      <4> QED BY <3>2, <3>3, FS_Subset, FS_CardinalityType
    <3>5. Cardinality(N \ {m}) = Cardinality(N) - 1
      <4> HIDE DEF N
      <4> QED BY <1>3, <3>1, FS_RemoveElement
    <3>6. Room(n + Cardinality(Before(m)))
      BY <3>1 DEF Examined
    <3>7. n + Cardinality(Before(m)) < Window
      <4> HIDE DEF n, Before
      <4> QED BY <3>6 DEF Room
    <3> HIDE DEF n, Before, N
    <3> QED BY <1>1, <1>3, <3>4, <3>5, <3>7, ItemsAssumption
  <2> QED BY <2>1, <2>2
<1>5. IsFiniteSet(new) /\ Cardinality(new) <= Cardinality(N) /\ Cardinality(new) \in Nat
  <2> DEFINE f == [i \in N |-> Id(i)]
  <2>1. f \in Surjection(N, new)
    <3>1. f \in [N -> new]
      OBVIOUS
    <3>2. \A id \in new : \E i \in N : f[i] = id
      OBVIOUS
    <3> HIDE DEF f, N, new
    <3> QED BY <3>1, <3>2 DEF Surjection
  <2> HIDE DEF f, N, new
  <2> QED BY <1>3, <2>1, FS_Surjection, FS_CardinalityType
<1>6. n + Cardinality(new) <= Window
  <2> HIDE DEF n, N, new
  <2> QED BY <1>1, <1>3, <1>4, <1>5, ItemsAssumption
<1> QED BY <1>5, <1>6

\* A refill deletes only queued jobs, changes none that is left, and admits
\* jobs that were not there, up to the window.
LEMMA RefillEffect ==
    ASSUME NEW table, Tables(table), NEW state \in Admissions,
           NEW evidence \in Catalogs, NEW revision \in 0 .. MaxSettings, NEW force,
           Refill(table, state, evidence, revision, force)
    PROVE  /\ Tables(jobs)'
           /\ admission' \in Admissions
           /\ \A id \in DOMAIN table :
                 IF id \in DOMAIN jobs' THEN jobs'[id] = table[id]
                                        ELSE table[id].status = "queued"
           /\ \A id \in (DOMAIN jobs') \ DOMAIN table : jobs'[id] = Queued
           /\ \/ Cardinality(Having(jobs', Active)) <= Window
              \/ Having(jobs', Active) \subseteq Having(table, Active)
<1> DEFINE rows == Following(evidence, state.cursor)
           seen == Examined(table, evidence, revision, rows)
           ids == {<<i, <<evidence[i], revision>>>> : i \in seen}
           stale == {id \in Having(table, {"queued"}) : id[1] \in seen /\ id \notin ids}
           new == {id \in ids : Admitted(table, id)}
<1>1. CASE jobs' = table /\ admission' = state
  BY <1>1 DEF Tables
<1>2. CASE /\ Room(Cardinality(Having(table, Active)))
           /\ jobs' = [id \in (DOMAIN table \ stale) \cup new |->
                          IF id \in new THEN Queued ELSE table[id]]
           /\ admission' = Moved(rows, seen, state.cursor)
  <2>1. /\ rows \in SUBSET Items /\ IsFiniteSet(rows)
        /\ \A i \in rows : evidence[i] # Missing
    BY FollowingItems
  <2>2. seen \in SUBSET rows /\ IsFiniteSet(seen)
    <3>1. seen \in SUBSET rows
      BY DEF Examined
    <3> QED BY <2>1, <3>1, FS_Subset
  <2>3. new \subseteq JobIds /\ new \cap DOMAIN table = {}
    <3>1. \A i \in seen : evidence[i] \in Evidences /\ i \in Items
      BY <2>1, <2>2 DEF Catalogs
    <3> QED BY <3>1 DEF JobIds, Witnesses, Admitted
  <2>4. IsFiniteSet(new) /\ Cardinality(Having(table, Active)) + Cardinality(new) <= Window
    BY <1>2, <2>1, AdmitsWithinWindow
  <2>5. stale \subseteq DOMAIN table /\ \A id \in stale : table[id].status = "queued"
    BY RowsOf
  <2>6. Queued \in Rows /\ Queued.status \in Active
    BY JobsAssumption DEF Queued, Rows, Statuses, Active
  <2>7. /\ DOMAIN jobs' = (DOMAIN table \ stale) \cup new
        /\ \A id \in DOMAIN jobs' : jobs'[id] = IF id \in new THEN Queued ELSE table[id]
    <3> HIDE DEF stale, new
    <3> QED BY <1>2
  <2> HIDE DEF stale, new
  <2>8. IsFiniteSet(DOMAIN jobs')
    <3>1. IsFiniteSet(DOMAIN table \ stale)
      BY FS_Difference DEF Tables
    <3> QED BY <2>4, <2>7, <3>1, FS_Union
  <2>9. Tables(jobs)'
    <3>1. jobs' = [id \in DOMAIN jobs' |-> jobs'[id]]
      BY <1>2
    <3>2. \A id \in DOMAIN jobs' : jobs'[id] \in Rows
      BY <2>6, <2>7 DEF Tables
    <3> QED BY <2>3, <2>7, <2>8, <3>1, <3>2 DEF Tables
  <2>10. Cardinality(Having(jobs', Active)) <= Window
    <3>1. Having(jobs', Active) \subseteq Having(table, Active) \cup new
      BY <2>7, RowsOf
    <3>2. IsFiniteSet(Having(table, Active))
      BY RowsOf, FS_Subset DEF Tables
    <3>3. /\ IsFiniteSet(Having(table, Active) \cup new)
          /\ Cardinality(Having(table, Active) \cup new)
                = Cardinality(Having(table, Active)) + Cardinality(new)
                  - Cardinality(Having(table, Active) \cap new)
      BY <2>4, <3>2, FS_Union
    <3>4. Having(table, Active) \cap new = {}
      BY <2>3, RowsOf
    <3>5. Cardinality(Having(table, Active) \cap new) = 0
      BY <3>4, FS_EmptySet
    <3>6. Cardinality(Having(table, Active)) \in Nat /\ Cardinality(new) \in Nat
      BY <2>4, <3>2, FS_CardinalityType
    <3>7. /\ Cardinality(Having(jobs', Active)) <= Cardinality(Having(table, Active) \cup new)
          /\ Cardinality(Having(jobs', Active)) \in Nat
      BY <3>1, <3>3, FS_Subset, FS_CardinalityType
    <3> QED BY <2>4, <3>3, <3>5, <3>6, <3>7, ItemsAssumption
  <2>11. admission' \in Admissions
    <3>1. CASE seen = rows /\ Cardinality(rows) < Batch
      BY <1>2, <3>1, ItemsAssumption DEF Moved, Admissions
    <3>2. CASE ~(seen = rows /\ Cardinality(rows) < Batch)
      <4>1. seen # {}
        <5>1. CASE rows = {}
          BY <2>2, <3>2, <5>1, FS_EmptySet, ItemsAssumption
        <5>2. CASE rows # {}
          BY <1>2, <2>1, <5>2, FirstExamined
        <5> QED BY <5>1, <5>2
      <4>3. \E m \in seen : \A j \in seen : j <= m
        <5>1. seen \in SUBSET Items
          BY <2>1, <2>2
        <5> HIDE DEF seen
        <5> QED BY <4>1, <5>1, GreatestItem
      <4> DEFINE c == CHOOSE i \in seen : \A j \in seen : j <= i
      <4>4. c \in seen
        <5> HIDE DEF seen
        <5> QED BY <4>3
      <4>5. admission' = [cursor |-> c, resting |-> FALSE]
        BY <1>2, <3>2 DEF Moved
      <4>6. c \in 0 .. LastItem
        <5> HIDE DEF c, seen, rows
        <5> QED BY <2>1, <2>2, <4>4, ItemsAssumption DEF Items
      <4> HIDE DEF c
      <4> QED BY <4>5, <4>6 DEF Admissions
    <3> QED BY <3>1, <3>2
  <2>12. \A id \in DOMAIN table :
            IF id \in DOMAIN jobs' THEN jobs'[id] = table[id]
                                   ELSE table[id].status = "queued"
    BY <2>3, <2>5, <2>7
  <2>13. \A id \in (DOMAIN jobs') \ DOMAIN table : jobs'[id] = Queued
    BY <2>7
  <2> QED BY <2>9, <2>10, <2>11, <2>12, <2>13
<1> QED BY <1>1, <1>2 DEF Refill

-----------------------------------------------------------------------------
(* Types *)

ThreadRows == [phase : {"off", "idle", "run"}, job : JobIds \cup {NoJob}, stop : BOOLEAN]

\* The types, and that the table stays finite.
TypeInv == TypeOK /\ Tables(jobs)

\* The order of creation is one of the jobs that are left, and of new ones.
LEMMA ArrangedTypes ==
    ASSUME TypeOK, NEW before, Arranged(before)
    PROVE  older' \subseteq Having(jobs', Active) \X Having(jobs', Active)
<1> DEFINE left == Having(jobs', Active) \cap before
           new  == Having(jobs', Active) \ before
<1>1. older \subseteq Having(jobs, Active) \X Having(jobs, Active)
  BY DEF TypeOK
<1>2. ASSUME NEW e \in older, e[1] \in left, e[2] \in left
      PROVE  e \in Having(jobs', Active) \X Having(jobs', Active)
  BY <1>1, <1>2
<1>3. left \X new \subseteq Having(jobs', Active) \X Having(jobs', Active)
  OBVIOUS
<1>4. {e \in new \X new : e[1][1] < e[2][1]} \subseteq Having(jobs', Active) \X Having(jobs', Active)
  OBVIOUS
<1>5. older' = {e \in older : e[1] \in left /\ e[2] \in left} \cup (left \X new)
               \cup {e \in new \X new : e[1][1] < e[2][1]}
  BY DEF Arranged
<1> HIDE DEF left, new
<1> QED BY <1>2, <1>3, <1>4, <1>5

\* A table that differs in rows only is a table.
LEMMA RewrittenTable ==
    ASSUME NEW table, Tables(table), NEW next,
           next = [id \in DOMAIN table |-> next[id]],
           \A id \in DOMAIN table : next[id] \in Rows
    PROVE  Tables(next)
BY DEF Tables

\* Neither is one that rows were deleted from another than a table.
LEMMA DeletedRows ==
    ASSUME NEW table, Tables(table), NEW ids
    PROVE  /\ Tables(Without(table, ids))
           /\ DOMAIN Without(table, ids) = DOMAIN table \ ids
           /\ \A id \in DOMAIN table \ ids : Without(table, ids)[id] = table[id]
<1>1. IsFiniteSet(DOMAIN table \ ids)
  BY FS_Difference DEF Tables
<1> QED BY <1>1 DEF Tables, Without

LEMMA WorkerTypes ==
    ASSUME TypeOK, NewWorker
    PROVE  current' \in Threads \cup {Nobody}
<1>1. CASE UNCHANGED current
  BY <1>1 DEF TypeOK
<1>2. CASE (\E t \in Threads : ~Alive(t)) /\ current' = Spare
  BY <1>2 DEF Spare
<1> QED BY <1>1, <1>2 DEF NewWorker

\* A thread that is told to stop does what it did.
LEMMA StoppedTypes ==
    ASSUME TypeOK, NEW t
    PROVE  /\ Stopped(t) \in [Threads -> ThreadRows]
           /\ \A u \in Threads : /\ Stopped(t)[u].phase = threads[u].phase
                                 /\ Stopped(t)[u].job = threads[u].job
<1>1. \A u \in Threads : threads[u] \in ThreadRows
  BY DEF TypeOK, ThreadRows
<1>2. ASSUME NEW u \in Threads
      PROVE  [threads[u] EXCEPT !.stop = @ \/ (u = t /\ Alive(u))] \in ThreadRows
  <2>1. threads[u] \in ThreadRows
    BY <1>1
  <2> DEFINE b == threads[u].stop \/ (u = t /\ Alive(u))
  <2>2. b \in BOOLEAN
    OBVIOUS
  <2> HIDE DEF b
  <2>3. [threads[u] EXCEPT !.stop = b] \in ThreadRows
    BY <2>1, <2>2 DEF ThreadRows
  <2> QED BY <2>3 DEF b
<1>3. \A u \in Threads : Stopped(t)[u] = [threads[u] EXCEPT !.stop = @ \/ (u = t /\ Alive(u))]
  BY DEF Stopped
<1>4. ASSUME NEW u \in Threads
      PROVE  Stopped(t)[u].phase = threads[u].phase /\ Stopped(t)[u].job = threads[u].job
  BY <1>1, <1>3 DEF ThreadRows
<1> QED BY <1>2, <1>4 DEF Stopped

LEMMA GoesTypes ==
    ASSUME TypeOK, NEW t \in Threads, NEW phase \in {"off", "idle", "run"},
           NEW id \in JobIds \cup {NoJob}, Goes(t, phase, id)
    PROVE  /\ threads' \in [Threads -> ThreadRows]
           /\ threads'[t].phase = phase /\ threads'[t].job = id
           /\ \A u \in Threads \ {t} : threads'[u] = threads[u]
BY DEF TypeOK, Goes, ThreadRows

\* What a recovery does to a table: rows that ran too long are put back or fail.
LEMMA RecoverEffect ==
    ASSUME NEW table, Tables(table)
    PROVE  /\ Tables(Recover(table))
           /\ DOMAIN Recover(table) = DOMAIN table
           /\ \A id \in DOMAIN table :
                 LET row == table[id]
                     next == Recover(table)[id]
                 IN  IF row.status = "running" /\ row.aged
                     THEN /\ next.status \in {"queued", "failed"}
                          /\ ~next.aged
                          /\ next.attempts = row.attempts
                          /\ next.status = "queued" => next.attempts < Budget
                     ELSE next = row
<1>1. DOMAIN Recover(table) = DOMAIN table
  BY DEF Recover
<1>2. ASSUME NEW id \in DOMAIN table
      PROVE  /\ Recover(table)[id] \in Rows
             /\ IF table[id].status = "running" /\ table[id].aged
                THEN /\ Recover(table)[id].status \in {"queued", "failed"}
                     /\ ~Recover(table)[id].aged
                     /\ Recover(table)[id].attempts = table[id].attempts
                     /\ Recover(table)[id].status = "queued" => Recover(table)[id].attempts < Budget
                ELSE Recover(table)[id] = table[id]
  <2>1. table[id] \in Rows
    BY DEF Tables
  <2>2. Recover(table)[id] = IF table[id].status = "running" /\ table[id].aged
                             THEN Recovered(table[id]) ELSE table[id]
    BY DEF Recover, Recoverable
  <2> DEFINE s == IF table[id].attempts < Budget THEN "queued" ELSE "failed"
  <2>3. Recovered(table[id]) = [table[id] EXCEPT !.status = s, !.aged = FALSE]
    BY DEF Recovered
  <2>4. s \in {"queued", "failed"} /\ (s = "queued" => table[id].attempts < Budget)
    OBVIOUS
  <2> HIDE DEF s
  <2> QED BY <2>1, <2>2, <2>3, <2>4 DEF Rows, Statuses
<1>3. Tables(Recover(table))
  <2>1. Recover(table) = [id \in DOMAIN table |-> Recover(table)[id]]
    BY DEF Recover
  <2> QED BY <1>2, <2>1, RewrittenTable
<1> QED BY <1>1, <1>2, <1>3

\* What the end of a run does to the table.
LEMMA EndsEffect ==
    ASSUME TypeInv, NEW t \in Threads, NEW status, Ends(t, status),
           threads[t].job \in DOMAIN jobs => status \in Statuses
    PROVE  /\ Tables(jobs)'
           /\ DOMAIN jobs' = DOMAIN jobs
           /\ \A id \in DOMAIN jobs :
                 IF id = threads[t].job
                 THEN jobs'[id] = [jobs[id] EXCEPT !.status = status]
                 ELSE jobs'[id] = jobs[id]
           /\ threads' \in [Threads -> ThreadRows]
           /\ threads'[t].phase = "idle" /\ threads'[t].job = NoJob
           /\ \A u \in Threads \ {t} : threads'[u] = threads[u]
<1>1. /\ DOMAIN jobs' = DOMAIN jobs
      /\ \A id \in DOMAIN jobs :
            IF id = threads[t].job
            THEN jobs'[id] = [jobs[id] EXCEPT !.status = status]
            ELSE jobs'[id] = jobs[id]
  BY DEF TypeInv, TypeOK, Ends
<1>2. ASSUME NEW id \in DOMAIN jobs PROVE jobs'[id] \in Rows
  BY <1>1 DEF TypeInv, Tables, Rows
<1>3. jobs' = [id \in DOMAIN jobs |-> jobs'[id]]
  BY DEF TypeInv, TypeOK, Ends
<1>4. Tables(jobs)'
  BY <1>2, <1>3, RewrittenTable DEF TypeInv
<1>5. Goes(t, "idle", NoJob)
  BY DEF Ends
<1> QED BY <1>1, <1>4, <1>5, GoesTypes DEF TypeInv

\* The types in the terms of the lemmas.
LEMMA TypeParts ==
    TypeInv <=>
        /\ catalog \in Catalogs
        /\ settings \in 0 .. MaxSettings
        /\ Tables(jobs)
        /\ older \subseteq Having(jobs, Active) \X Having(jobs, Active)
        /\ admission \in Admissions
        /\ threads \in [Threads -> ThreadRows]
        /\ current \in Threads \cup {Nobody}
        /\ update \in [pending : BOOLEAN, awaited : Threads \cup {Nobody}]
        /\ events \in 0 .. MaxEvents
BY DEF TypeInv, TypeOK, Tables, Catalogs, Admissions, ThreadRows

LEMMA HappensTypes ==
    ASSUME TypeOK, Happens
    PROVE  events' \in 0 .. MaxEvents
BY BoundsAssumption DEF TypeOK, Happens

LEMMA TypeInit == Init => TypeInv
<1> SUFFICES ASSUME Init PROVE TypeInv
  OBVIOUS
<1>1. Tables(jobs)
  <2>1. DOMAIN jobs = {} /\ jobs = [id \in {} |-> Queued]
    BY DEF Init
  <2> QED BY <2>1, FS_EmptySet DEF Tables
<1>2. First \in Threads
  BY NamesAssumption DEF First
<1>3. threads \in [Threads -> ThreadRows]
  BY DEF Init, Off, ThreadRows
<1> QED
  BY <1>1, <1>2, <1>3, TypeParts, BoundsAssumption, ItemsAssumption
  DEF Init, Catalogs, Admissions, NoUpdate

LEMMA TypePartsNext ==
    TypeInv' <=>
        /\ catalog' \in Catalogs
        /\ settings' \in 0 .. MaxSettings
        /\ Tables(jobs')
        /\ older' \subseteq Having(jobs', Active) \X Having(jobs', Active)
        /\ admission' \in Admissions
        /\ threads' \in [Threads -> ThreadRows]
        /\ current' \in Threads \cup {Nobody}
        /\ update' \in [pending : BOOLEAN, awaited : Threads \cup {Nobody}]
        /\ events' \in 0 .. MaxEvents
BY DEF TypeInv, TypeOK, Tables, Catalogs, Admissions, ThreadRows

\* Every step keeps the types.
LEMMA TypeStep == TypeInv /\ [Next]_vars => TypeInv'
<1> SUFFICES ASSUME TypeInv, [Next]_vars PROVE TypeInv'
  OBVIOUS
<1> USE DEF TypeInv
<1>1. CASE ApplyAgentPage
  <2>1. catalog' \in Catalogs /\ settings \in 0 .. MaxSettings /\ admission \in Admissions
    BY <1>1, TypeParts DEF ApplyAgentPage, Catalogs
  <2>2. Tables(jobs') /\ admission' \in Admissions
    BY <1>1, <2>1, RefillEffect DEF ApplyAgentPage
  <2>3. older' \subseteq Having(jobs', Active) \X Having(jobs', Active)
    BY <1>1, ArrangedTypes DEF ApplyAgentPage
  <2>4. events' \in 0 .. MaxEvents
    BY <1>1, HappensTypes DEF ApplyAgentPage
  <2> QED BY <1>1, <2>1, <2>2, <2>3, <2>4, TypeParts, TypePartsNext DEF ApplyAgentPage
<1>2. CASE \E i \in Requested : AskFor(i)
  <2>1. PICK i \in Requested : AskFor(i)
    BY <1>2
  <2>2. <<i, Asked>> \in JobIds
    BY JobsAssumption DEF JobIds, Items
  <2>3. Tables(jobs')
    <3>1. IsFiniteSet(DOMAIN jobs \cup {<<i, Asked>>})
      BY FS_AddElement DEF Tables
    <3>2. Queued \in Rows
      BY JobsAssumption DEF Queued, Rows, Statuses
    <3> QED BY <2>1, <2>2, <3>1, <3>2 DEF AskFor, Tables
  <2>4. older' \subseteq Having(jobs', Active) \X Having(jobs', Active)
    BY <2>1, ArrangedTypes DEF AskFor
  <2>5. current' \in Threads \cup {Nobody}
    BY <2>1, WorkerTypes DEF AskFor
  <2>6. events' \in 0 .. MaxEvents
    BY <2>1, HappensTypes DEF AskFor
  <2> QED BY <2>1, <2>3, <2>4, <2>5, <2>6, TypeParts, TypePartsNext DEF AskFor
<1>3. CASE ChangeSettings
  <2>1. settings' \in 0 .. MaxSettings
    BY <1>3, BoundsAssumption DEF ChangeSettings, TypeOK
  <2>2. threads' \in [Threads -> ThreadRows]
    BY <1>3, StoppedTypes DEF ChangeSettings
  <2> QED BY <1>3, <2>1, <2>2, TypeParts, TypePartsNext DEF ChangeSettings
<1>4. CASE Requeue
  <2> DEFINE table == Without(jobs, Having(jobs, {"queued"}))
             state == [cursor |-> 0, resting |-> FALSE]
  <2>1. Tables(table)
    BY DeletedRows
  <2>2. state \in Admissions
    BY ItemsAssumption DEF Admissions
  <2>3. Tables(jobs') /\ admission' \in Admissions
    <3>1. Refill(table, state, catalog, settings, TRUE)
      BY <1>4 DEF Requeue
    <3> HIDE DEF table, state
    <3> QED BY <2>1, <2>2, <3>1, TypeParts, RefillEffect
  <2>4. older' \subseteq Having(jobs', Active) \X Having(jobs', Active)
    BY <1>4, ArrangedTypes DEF Requeue
  <2>5. current' \in Threads \cup {Nobody}
    BY <1>4, WorkerTypes DEF Requeue
  <2>6. update' \in [pending : BOOLEAN, awaited : Threads \cup {Nobody}]
    BY <1>4 DEF Requeue, NoUpdate
  <2> QED BY <1>4, <2>3, <2>4, <2>5, <2>6, TypeParts, TypePartsNext DEF Requeue
<1>5. CASE GiveUp
  BY <1>5, TypeParts, TypePartsNext DEF GiveUp, NoUpdate
<1>6. CASE Replace
  <2>1. threads' \in [Threads -> ThreadRows]
    BY <1>6, StoppedTypes DEF Replace
  <2>2. current' \in Threads
    BY <1>6 DEF Replace, Spare
  <2>3. events' \in 0 .. MaxEvents
    BY <1>6, HappensTypes DEF Replace
  <2> QED BY <1>6, <2>1, <2>2, <2>3, TypeParts, TypePartsNext DEF Replace
<1>7. CASE Crash
  <2>1. threads' \in [Threads -> ThreadRows] /\ current' \in Threads
    BY <1>7, NamesAssumption DEF Crash, Off, ThreadRows, First
  <2>2. events' \in 0 .. MaxEvents
    BY <1>7, HappensTypes DEF Crash
  <2> QED BY <1>7, <2>1, <2>2, TypeParts, TypePartsNext DEF Crash, NoUpdate
<1>8. CASE \E id \in JobIds : Age(id)
  <2>1. PICK id \in JobIds : Age(id)
    BY <1>8
  <2>2. /\ DOMAIN jobs' = DOMAIN jobs
        /\ \A j \in DOMAIN jobs : /\ jobs'[j] \in Rows
                                  /\ jobs'[j].status = jobs[j].status
    <3>1. jobs' = [jobs EXCEPT ![id].aged = TRUE]
      BY <2>1 DEF Age
    <3>2. \A j \in DOMAIN jobs : jobs[j] \in Rows
      BY DEF Tables
    <3>3. DOMAIN jobs' = DOMAIN jobs
      BY <3>1 DEF TypeOK
    <3>4. ASSUME NEW j \in DOMAIN jobs
          PROVE  jobs'[j] \in Rows /\ jobs'[j].status = jobs[j].status
      <4>1. jobs'[j] = IF j = id THEN [jobs[j] EXCEPT !.aged = TRUE] ELSE jobs[j]
        BY <3>1 DEF TypeOK
      <4> QED BY <3>2, <4>1 DEF Rows
    <3> QED BY <3>3, <3>4
  <2>3. Having(jobs', Active) = Having(jobs, Active)
    BY <2>2 DEF Having
  <2>4. Tables(jobs')
    <3>1. jobs' = [j \in DOMAIN jobs |-> jobs'[j]]
      BY <2>1 DEF Age, TypeOK
    <3> QED BY <2>2, <3>1, RewrittenTable
  <2> QED BY <2>1, <2>3, <2>4, TypeParts, TypePartsNext DEF Age
<1>9. CASE Rested
  <2>1. admission' \in Admissions
    BY <1>9, TypeParts DEF Rested, Admissions
  <2> QED BY <1>9, <2>1, TypeParts, TypePartsNext DEF Rested
<1>10. ASSUME NEW t \in Threads, Start(t) PROVE TypeInv'
  <2>1. threads' \in [Threads -> ThreadRows]
    BY <1>10, TypeParts DEF Start, Started, ThreadRows
  <2>2. Tables(jobs')
    BY <1>10, RecoverEffect DEF Start
  <2>3. older' \subseteq Having(jobs', Active) \X Having(jobs', Active)
    BY <1>10, ArrangedTypes DEF Start
  <2> QED BY <1>10, <2>1, <2>2, <2>3, TypeParts, TypePartsNext DEF Start
<1>11. ASSUME NEW t \in Threads, Stop(t) PROVE TypeInv'
  <2>1. threads' \in [Threads -> ThreadRows]
    BY <1>11, TypeParts DEF Stop, Off, ThreadRows
  <2> QED BY <1>11, <2>1, TypeParts, TypePartsNext DEF Stop
<1>12. ASSUME NEW t \in Threads, NEW id \in JobIds, Claim(t, id) PROVE TypeInv'
  <2>1. id \in DOMAIN jobs /\ jobs[id].status = "queued" /\ jobs[id].attempts < Budget
    BY <1>12, RowsOf DEF Claim, Foremost
  <2>2. /\ DOMAIN jobs' = DOMAIN jobs
        /\ \A j \in DOMAIN jobs : jobs'[j] \in Rows
        /\ \A j \in DOMAIN jobs : jobs'[j].status \in Active <=> jobs[j].status \in Active
    BY <1>12, <2>1, JobsAssumption DEF Claim, TypeOK, Rows, Statuses, Active
  <2>3. Having(jobs', Active) = Having(jobs, Active)
    BY <2>2 DEF Having
  <2>4. Tables(jobs')
    <3>1. jobs' = [j \in DOMAIN jobs |-> jobs'[j]]
      BY <1>12 DEF Claim, TypeOK
    <3> QED BY <2>2, <3>1, RewrittenTable
  <2>5. threads' \in [Threads -> ThreadRows]
    BY <1>12, GoesTypes DEF Claim
  <2> QED BY <1>12, <2>3, <2>4, <2>5, TypeParts, TypePartsNext DEF Claim
<1>13. ASSUME NEW t \in Threads, NEW status, Ends(t, status),
              threads[t].job \in DOMAIN jobs => status \in Statuses
       PROVE  TypeInv'
  <2>1. Tables(jobs') /\ threads' \in [Threads -> ThreadRows]
    BY <1>13, EndsEffect
  <2>2. older' \subseteq Having(jobs', Active) \X Having(jobs', Active)
    BY <1>13, ArrangedTypes DEF Ends
  <2> QED BY <1>13, <2>1, <2>2, TypeParts, TypePartsNext DEF Ends
<1>14. ASSUME NEW t \in Threads, Finish(t) PROVE TypeInv'
  <2> DEFINE row == jobs[threads[t].job]
             status == IF row.status = "running" THEN "completed" ELSE row.status
  <2>1. Ends(t, status)
    BY <1>14 DEF Finish
  <2>2. threads[t].job \in DOMAIN jobs => status \in Statuses
    BY DEF TypeOK, Rows, Statuses
  <2> HIDE DEF status
  <2> QED BY <1>13, <2>1, <2>2
<1>15. ASSUME NEW t \in Threads, NEW retryable, Fail(t, retryable) PROVE TypeInv'
  <2> DEFINE status == IF retryable /\ jobs[threads[t].job].attempts < Budget
                       THEN "queued" ELSE "failed"
  <2>1. Ends(t, status)
    BY <1>15 DEF Fail
  <2>2. status \in Statuses
    BY DEF Statuses
  <2> HIDE DEF status
  <2> QED BY <1>13, <2>1, <2>2
<1>16. ASSUME NEW t \in Threads, Admit(t) PROVE TypeInv'
  <2>1. Tables(jobs') /\ admission' \in Admissions
    BY <1>16, TypeParts, RefillEffect DEF Admit
  <2>2. older' \subseteq Having(jobs', Active) \X Having(jobs', Active)
    BY <1>16, ArrangedTypes DEF Admit
  <2> QED BY <1>16, <2>1, <2>2, TypeParts, TypePartsNext DEF Admit
<1>17. ASSUME NEW t \in Threads, Raise(t) PROVE TypeInv'
  <2>1. threads' \in [Threads -> ThreadRows]
    BY <1>17, GoesTypes DEF Raise
  <2>2. events' \in 0 .. MaxEvents
    BY <1>17, HappensTypes DEF Raise
  <2> QED BY <1>17, <2>1, <2>2, TypeParts, TypePartsNext DEF Raise
<1>18. ASSUME NEW t \in Threads, Compact(t) PROVE TypeInv'
  <2>1. Tables(jobs')
    <3>1. PICK id \in Having(jobs, {"queued"}) : jobs' = Without(jobs, {id})
      BY <1>18 DEF Compact
    <3>2. Tables(Without(jobs, {id}))
      BY DeletedRows
    <3> QED BY <3>1, <3>2
  <2>2. older' \subseteq Having(jobs', Active) \X Having(jobs', Active)
    BY <1>18, ArrangedTypes DEF Compact
  <2>3. admission' \in Admissions
    BY <1>18, ItemsAssumption DEF Compact, Admissions
  <2> QED BY <1>18, <2>1, <2>2, <2>3, TypeParts, TypePartsNext DEF Compact
<1>19. ASSUME NEW t \in Threads, Prune(t) PROVE TypeInv'
  <2>1. PICK id \in Having(jobs, Ended) : jobs' = Without(jobs, {id})
    BY <1>19 DEF Prune
  <2>2. /\ Tables(jobs')
        /\ DOMAIN jobs' = DOMAIN jobs \ {id}
        /\ \A j \in DOMAIN jobs \ {id} : jobs'[j] = jobs[j]
    <3>1. Tables(jobs)
      OBVIOUS
    <3> QED BY <2>1, <3>1, DeletedRows
  <2>3. Having(jobs', Active) = Having(jobs, Active)
    <3>1. jobs[id].status \notin Active
      BY DEF Having, Ended, Active
    <3> QED BY <2>2, <3>1 DEF Having
  <2> QED BY <1>19, <2>2, <2>3, TypeParts, TypePartsNext DEF Prune
<1>20. CASE UNCHANGED vars
  BY <1>20, TypeParts, TypePartsNext DEF vars
<1>21. ASSUME NEW t \in Threads, Run(t) PROVE TypeInv'
  BY <1>10, <1>11, <1>12, <1>14, <1>15, <1>21 DEF Run
<1> QED
  BY <1>1, <1>2, <1>3, <1>4, <1>5, <1>6, <1>7, <1>8, <1>9, <1>16, <1>17, <1>18, <1>19,
     <1>20, <1>21 DEF Next

(* Whatever becomes of the workers, and however long runs take: a queued job,
   the cursor of the admission and the order of the queue are what the claims
   of a worker take them for (claim_background_job()). *)
THEOREM JobsAreTyped == Spec => []TypeOK
<1>1. TypeInv => TypeOK
  BY DEF TypeInv
<1> QED BY <1>1, TypeInit, TypeStep, PTL DEF Spec

-----------------------------------------------------------------------------
(* Runs and the window, when no run outlasts the stale interval *)

\* A thread that runs holds a row that is running and has not aged; no two hold
\* the same; and a row that waits has not aged and may still be run.
Runs ==
    /\ \A t \in Threads :
          IF threads[t].phase = "run"
          THEN /\ threads[t].job \in DOMAIN jobs
               /\ jobs[threads[t].job].status = "running"
               /\ ~jobs[threads[t].job].aged
          ELSE threads[t].job = NoJob
    /\ \A t, u \in Threads :
          t # u /\ threads[t].phase = "run" => threads[u].job # threads[t].job
    /\ \A id \in DOMAIN jobs :
          jobs[id].status = "queued" => ~jobs[id].aged /\ jobs[id].attempts < Budget

\* The jobs that the admission admitted and that have not ended.
Crowd == {id \in Having(jobs, Active) : id[2] # Asked}

QueueInv == TypeInv /\ Runs /\ Cardinality(Crowd) <= Window

\* What every step leaves of the table.
TableKept ==
    /\ \A t \in Threads : threads[t].phase = "run" /\ threads'[t].phase = "run" =>
          /\ threads[t].job \in DOMAIN jobs'
          /\ jobs'[threads[t].job] = jobs[threads[t].job]
    /\ \A id \in DOMAIN jobs' :
          jobs'[id].status = "queued" => ~jobs'[id].aged /\ jobs'[id].attempts < Budget
    /\ \A id \in DOMAIN jobs \cap DOMAIN jobs' :
          jobs[id].status \in Ended => jobs'[id].status = jobs[id].status
    /\ Crowd' \subseteq Crowd \/ Cardinality(Crowd') <= Window

ThreadsKept ==
    \A t \in Threads :
       IF threads'[t].phase = "run"
       THEN threads[t].phase = "run" /\ threads'[t].job = threads[t].job
       ELSE threads'[t].job = NoJob

LEMMA NoJobIsNone == NoJob \notin JobIds
BY ItemsAssumption DEF NoJob, JobIds, Items

\* No step but a claim gives a thread a job.
LEMMA RunsNext ==
    ASSUME TypeInv, Runs, TableKept, ThreadsKept
    PROVE  Runs'
<1>1. ASSUME NEW t \in Threads
      PROVE  IF threads'[t].phase = "run"
             THEN /\ threads'[t].job \in DOMAIN jobs'
                  /\ jobs'[threads'[t].job].status = "running"
                  /\ ~jobs'[threads'[t].job].aged
             ELSE threads'[t].job = NoJob
  <2>1. CASE threads'[t].phase = "run"
    <3>1. threads[t].phase = "run" /\ threads'[t].job = threads[t].job
      BY <2>1 DEF ThreadsKept
    <3>2. jobs[threads[t].job].status = "running" /\ ~jobs[threads[t].job].aged
      BY <3>1 DEF Runs
    <3>3. /\ threads[t].job \in DOMAIN jobs'
          /\ jobs'[threads[t].job] = jobs[threads[t].job]
      BY <2>1, <3>1 DEF TableKept
    <3> QED BY <2>1, <3>1, <3>2, <3>3
  <2>2. CASE threads'[t].phase # "run"
    BY <2>2 DEF ThreadsKept
  <2> QED BY <2>1, <2>2
<1>2. ASSUME NEW t \in Threads, NEW u \in Threads, t # u, threads'[t].phase = "run"
      PROVE  threads'[u].job # threads'[t].job
  <2>1. threads[t].phase = "run" /\ threads'[t].job = threads[t].job
    BY <1>2 DEF ThreadsKept
  <2>2. threads[u].job # threads[t].job
    BY <1>2, <2>1 DEF Runs
  <2>3. CASE threads'[u].phase = "run"
    BY <2>1, <2>2, <2>3 DEF ThreadsKept
  <2>4. CASE threads'[u].phase # "run"
    <3>1. threads'[u].job = NoJob
      BY <2>4 DEF ThreadsKept
    <3>2. threads[t].job # NoJob
      BY <2>1, NoJobIsNone DEF Runs, TypeInv, Tables
    <3> QED BY <2>1, <3>1, <3>2
  <2> QED BY <2>3, <2>4
<1>3. \A id \in DOMAIN jobs' :
         jobs'[id].status = "queued" => ~jobs'[id].aged /\ jobs'[id].attempts < Budget
  BY DEF TableKept
<1> QED BY <1>1, <1>2, <1>3 DEF Runs

\* A job that was active before is of the crowd if it was.
LEMMA CrowdShrinks ==
    ASSUME \A id \in DOMAIN jobs' :
              jobs'[id].status \in Active /\ id[2] # Asked =>
                 id \in DOMAIN jobs /\ jobs[id].status \in Active
    PROVE  Crowd' \subseteq Crowd
BY DEF Crowd, Having

\* A refill takes no job from a thread and stays within the window.
LEMMA RefillKept ==
    ASSUME TypeInv, Runs, NEW table, Tables(table), DOMAIN table \subseteq DOMAIN jobs,
           \A id \in DOMAIN table : table[id] = jobs[id],
           \A id \in DOMAIN jobs \ DOMAIN table : jobs[id].status = "queued",
           NEW state \in Admissions, NEW evidence \in Catalogs,
           NEW revision \in 0 .. MaxSettings, NEW force,
           Refill(table, state, evidence, revision, force)
    PROVE  TableKept
<1>1. /\ Tables(jobs')
      /\ \A id \in DOMAIN table :
            IF id \in DOMAIN jobs' THEN jobs'[id] = table[id] ELSE table[id].status = "queued"
      /\ \A id \in (DOMAIN jobs') \ DOMAIN table : jobs'[id] = Queued
      /\ \/ Cardinality(Having(jobs', Active)) <= Window
         \/ Having(jobs', Active) \subseteq Having(table, Active)
  BY RefillEffect
<1>2. \A t \in Threads : threads[t].phase = "run" =>
         threads[t].job \in DOMAIN jobs' /\ jobs'[threads[t].job] = jobs[threads[t].job]
  BY <1>1 DEF Runs
<1>3. \A id \in DOMAIN jobs' :
         jobs'[id].status = "queued" => ~jobs'[id].aged /\ jobs'[id].attempts < Budget
  <2>1. Queued.aged = FALSE /\ Queued.attempts < Budget
    BY JobsAssumption DEF Queued
  <2> QED BY <1>1, <2>1 DEF Runs
<1>4. \A id \in DOMAIN jobs \cap DOMAIN jobs' :
         jobs[id].status \in Ended => jobs'[id].status = jobs[id].status
  BY <1>1 DEF Ended
<1>5. CASE Cardinality(Having(jobs', Active)) <= Window
  <2>1. IsFiniteSet(Having(jobs', Active))
    BY <1>1, RowsOf, FS_Subset DEF Tables
  <2>2. Crowd' \subseteq Having(jobs', Active)
    BY DEF Crowd
  <2>3. /\ Cardinality(Crowd') <= Cardinality(Having(jobs', Active))
        /\ Cardinality(Crowd') \in Nat /\ Cardinality(Having(jobs', Active)) \in Nat
    BY <2>1, <2>2, FS_Subset, FS_CardinalityType
  <2>4. Cardinality(Crowd') <= Window
    BY <1>5, <2>3, ItemsAssumption
  <2> QED BY <1>2, <1>3, <1>4, <2>4 DEF TableKept
<1>6. CASE Having(jobs', Active) \subseteq Having(table, Active)
  <2>1. Having(table, Active) \subseteq Having(jobs, Active)
    BY DEF Having
  <2>2. Crowd' \subseteq Crowd
    BY <1>6, <2>1 DEF Crowd
  <2> QED BY <1>2, <1>3, <1>4, <2>2 DEF TableKept
<1> QED BY <1>1, <1>5, <1>6

\* A step that only deletes jobs that wait or have ended.
LEMMA DeletedKept ==
    ASSUME TypeInv, Runs, NEW ids, jobs' = Without(jobs, ids),
           \A id \in ids : id \in DOMAIN jobs => jobs[id].status # "running"
    PROVE  TableKept
<1>1. /\ DOMAIN jobs' = DOMAIN jobs \ ids
      /\ \A id \in DOMAIN jobs \ ids : jobs'[id] = jobs[id]
  BY DeletedRows DEF TypeInv
<1>2. Crowd' \subseteq Crowd
  BY <1>1, CrowdShrinks
<1> QED BY <1>1, <1>2 DEF TableKept, Runs

LEMMA TableUntouched ==
    ASSUME Runs, UNCHANGED jobs
    PROVE  TableKept
<1>1. Crowd' \subseteq Crowd
  BY CrowdShrinks
<1> QED BY <1>1 DEF TableKept, Runs

LEMMA ThreadsUntouched ==
    ASSUME Runs, \A t \in Threads : /\ threads'[t].phase = threads[t].phase
                                    /\ threads'[t].job = threads[t].job
    PROVE  ThreadsKept
BY DEF Runs, ThreadsKept

\* The end of a run.
LEMMA EndsKept ==
    ASSUME TypeInv, Runs, NEW t \in Threads, At(t, "run"), NEW status, Ends(t, status),
           status \in {"queued", "completed", "failed"},
           status = "queued" => jobs[threads[t].job].attempts < Budget
    PROVE  TableKept /\ ThreadsKept
<1> DEFINE job == threads[t].job
<1>1. /\ job \in DOMAIN jobs /\ jobs[job].status = "running" /\ ~jobs[job].aged
      /\ \A u \in Threads \ {t} : threads[u].job # job
  BY DEF Runs, At
<1>2. /\ DOMAIN jobs' = DOMAIN jobs
      /\ jobs'[job] = [jobs[job] EXCEPT !.status = status]
      /\ \A id \in DOMAIN jobs \ {job} : jobs'[id] = jobs[id]
      /\ threads'[t].phase = "idle" /\ threads'[t].job = NoJob
      /\ \A u \in Threads \ {t} : threads'[u] = threads[u]
  <2>1. status \in Statuses
    BY DEF Statuses
  <2>2. /\ DOMAIN jobs' = DOMAIN jobs
        /\ \A id \in DOMAIN jobs :
              IF id = threads[t].job
              THEN jobs'[id] = [jobs[id] EXCEPT !.status = status]
              ELSE jobs'[id] = jobs[id]
        /\ threads'[t].phase = "idle" /\ threads'[t].job = NoJob
        /\ \A u \in Threads \ {t} : threads'[u] = threads[u]
    <3> HIDE DEF job
    <3> QED BY <2>1, EndsEffect
  <2> QED BY <1>1, <2>2
<1>3. /\ jobs'[job].status = status /\ jobs'[job].aged = jobs[job].aged
      /\ jobs'[job].attempts = jobs[job].attempts
  <2>1. jobs[job] \in Rows
    BY <1>1 DEF TypeInv, Tables
  <2> HIDE DEF job
  <2> QED BY <1>2, <2>1 DEF Rows
<1>4. Crowd' \subseteq Crowd
  BY <1>1, <1>2, <1>3, CrowdShrinks DEF Active
<1>5. TableKept
  <2>1. ASSUME NEW u \in Threads, threads[u].phase = "run", threads'[u].phase = "run"
        PROVE  threads[u].job \in DOMAIN jobs' /\ jobs'[threads[u].job] = jobs[threads[u].job]
    <3>1. u # t
      BY <1>2, <2>1
    <3>2. threads[u].job \in DOMAIN jobs /\ threads[u].job # job
      BY <1>1, <2>1, <3>1 DEF Runs
    <3> HIDE DEF job
    <3> QED BY <1>2, <3>2
  <2>2. \A id \in DOMAIN jobs' :
           jobs'[id].status = "queued" => ~jobs'[id].aged /\ jobs'[id].attempts < Budget
    <3>1. status = "queued" => jobs[job].attempts < Budget
      OBVIOUS
    <3> HIDE DEF job
    <3> QED BY <1>1, <1>2, <1>3, <3>1 DEF Runs
  <2>3. \A id \in DOMAIN jobs \cap DOMAIN jobs' :
           jobs[id].status \in Ended => jobs'[id].status = jobs[id].status
    <3> HIDE DEF job
    <3> QED BY <1>1, <1>2 DEF Ended
  <2> QED BY <1>4, <2>1, <2>2, <2>3 DEF TableKept
<1>6. ThreadsKept
  BY <1>2 DEF ThreadsKept, Runs
<1> QED BY <1>5, <1>6

\* A claim gives a thread that has none a job that waits.
LEMMA ClaimKept ==
    ASSUME TypeInv, Runs, NEW t \in Threads, NEW id \in JobIds, Claim(t, id)
    PROVE  TableKept /\ Runs'
<1>1. /\ id \in DOMAIN jobs /\ jobs[id].status = "queued"
      /\ ~jobs[id].aged /\ threads[t].phase = "idle"
  BY RowsOf DEF Claim, Foremost, Runs, At
<1>2. /\ DOMAIN jobs' = DOMAIN jobs
      /\ jobs'[id].status = "running" /\ ~jobs'[id].aged
      /\ \A j \in DOMAIN jobs \ {id} : jobs'[j] = jobs[j]
  <2>1. jobs' = [jobs EXCEPT ![id].status = "running", ![id].attempts = @ + 1]
    BY DEF Claim
  <2>2. jobs[id] \in Rows
    BY <1>1 DEF TypeInv, Tables
  <2>3. jobs'[id] = [jobs[id] EXCEPT !.status = "running", !.attempts = @ + 1]
    BY <1>1, <2>1 DEF TypeInv, TypeOK
  <2>4. DOMAIN jobs' = DOMAIN jobs /\ \A j \in DOMAIN jobs \ {id} : jobs'[j] = jobs[j]
    BY <2>1 DEF TypeInv, TypeOK
  <2> QED BY <1>1, <2>2, <2>3, <2>4 DEF Rows
<1>3. /\ threads'[t].phase = "run" /\ threads'[t].job = id
      /\ \A u \in Threads \ {t} : threads'[u] = threads[u]
  BY GoesTypes DEF Claim, TypeInv
<1>4. \A u \in Threads : threads[u].job # id
  BY <1>1, NoJobIsNone DEF Runs
<1>5. Crowd' \subseteq Crowd
  BY <1>1, <1>2, CrowdShrinks DEF Active
<1>6. TableKept
  <2>1. \A u \in Threads : threads[u].phase = "run" /\ threads'[u].phase = "run" =>
           threads[u].job \in DOMAIN jobs' /\ jobs'[threads[u].job] = jobs[threads[u].job]
    BY <1>2, <1>4 DEF Runs
  <2>2. \A j \in DOMAIN jobs' :
           jobs'[j].status = "queued" => ~jobs'[j].aged /\ jobs'[j].attempts < Budget
    BY <1>2 DEF Runs
  <2>3. \A j \in DOMAIN jobs \cap DOMAIN jobs' :
           jobs[j].status \in Ended => jobs'[j].status = jobs[j].status
    BY <1>1, <1>2 DEF Ended
  <2> QED BY <1>5, <2>1, <2>2, <2>3 DEF TableKept
<1>7. ASSUME NEW u \in Threads
      PROVE  IF threads'[u].phase = "run"
             THEN /\ threads'[u].job \in DOMAIN jobs'
                  /\ jobs'[threads'[u].job].status = "running"
                  /\ ~jobs'[threads'[u].job].aged
             ELSE threads'[u].job = NoJob
  <2>1. CASE u = t
    BY <1>1, <1>2, <1>3, <2>1
  <2>2. CASE u # t
    <3>1. threads'[u] = threads[u] /\ threads[u].job # id
      BY <1>3, <1>4, <2>2
    <3> QED BY <1>2, <3>1 DEF Runs
  <2> QED BY <2>1, <2>2
<1>8. ASSUME NEW u \in Threads, NEW v \in Threads, u # v, threads'[u].phase = "run"
      PROVE  threads'[v].job # threads'[u].job
  <2>1. CASE u = t
    BY <1>3, <1>4, <1>8, <2>1
  <2>2. CASE v = t
    BY <1>3, <1>4, <1>8, <2>2
  <2>3. CASE u # t /\ v # t
    BY <1>3, <1>8, <2>3 DEF Runs
  <2> QED BY <2>1, <2>2, <2>3
<1> QED BY <1>6, <1>7, <1>8 DEF TableKept, Runs

\* Recovered jobs are those that no thread holds.
LEMMA StartKept ==
    ASSUME TypeInv, Runs, NEW t \in Threads, Start(t)
    PROVE  TableKept /\ ThreadsKept
<1>1. /\ DOMAIN jobs' = DOMAIN jobs
      /\ \A id \in DOMAIN jobs :
            IF jobs[id].status = "running" /\ jobs[id].aged
            THEN /\ jobs'[id].status \in {"queued", "failed"}
                 /\ ~jobs'[id].aged
                 /\ jobs'[id].status = "queued" => jobs'[id].attempts < Budget
            ELSE jobs'[id] = jobs[id]
  BY RecoverEffect DEF Start, TypeInv
<1>2. Crowd' \subseteq Crowd
  <2>1. \A id \in DOMAIN jobs' :
           jobs'[id].status \in Active => id \in DOMAIN jobs /\ jobs[id].status \in Active
    BY <1>1 DEF Active
  <2> QED BY <2>1, CrowdShrinks
<1>3. TableKept
  BY <1>1, <1>2 DEF TableKept, Runs, Ended
<1>4. /\ threads'[t].phase = "idle" /\ threads'[t].job = NoJob
      /\ \A u \in Threads \ {t} : threads'[u] = threads[u]
  BY DEF Start, Started, TypeInv, TypeOK
<1>5. ThreadsKept
  BY <1>4 DEF ThreadsKept, Runs
<1> QED BY <1>3, <1>5

\* What every step leaves of the table, and of the runs.
LEMMA QueueKept ==
    ASSUME ~LongRuns, QueueInv, [Next]_vars
    PROVE  TableKept /\ Runs'
<1>0. TypeInv /\ Runs /\ Tables(jobs)
  BY DEF QueueInv, TypeInv
<1>1. CASE ApplyAgentPage
  <2>1. catalog' \in Catalogs /\ settings \in 0 .. MaxSettings /\ admission \in Admissions
    BY <1>0, <1>1, TypeParts DEF ApplyAgentPage, Catalogs
  <2>2. TableKept
    BY <1>0, <1>1, <2>1, RefillKept DEF ApplyAgentPage
  <2>3. ThreadsKept
    BY <1>0, <1>1, ThreadsUntouched DEF ApplyAgentPage
  <2> QED BY <1>0, <2>2, <2>3, RunsNext
<1>2. ASSUME NEW i \in Requested, AskFor(i) PROVE TableKept /\ Runs'
  <2>1. /\ DOMAIN jobs' = DOMAIN jobs \cup {<<i, Asked>>}
        /\ \A id \in DOMAIN jobs : jobs'[id] = jobs[id]
        /\ \A id \in DOMAIN jobs' \ DOMAIN jobs : jobs'[id] = Queued /\ id[2] = Asked
    BY <1>2 DEF AskFor
  <2>2. Crowd' \subseteq Crowd
    BY <2>1, CrowdShrinks
  <2>3. Queued.aged = FALSE /\ Queued.attempts < Budget
    BY JobsAssumption DEF Queued
  <2>4. TableKept
    BY <1>0, <2>1, <2>2, <2>3 DEF TableKept, Runs
  <2>5. ThreadsKept
    BY <1>0, <1>2, ThreadsUntouched DEF AskFor
  <2> QED BY <1>0, <2>4, <2>5, RunsNext
<1>3. CASE ChangeSettings
  <2>1. TableKept
    BY <1>0, <1>3, TableUntouched DEF ChangeSettings
  <2>2. ThreadsKept
    BY <1>0, <1>3, StoppedTypes, ThreadsUntouched DEF ChangeSettings, TypeInv
  <2> QED BY <1>0, <2>1, <2>2, RunsNext
<1>4. CASE Requeue
  <2> DEFINE table == Without(jobs, Having(jobs, {"queued"}))
             state == [cursor |-> 0, resting |-> FALSE]
  <2>1. /\ Tables(table) /\ DOMAIN table \subseteq DOMAIN jobs
        /\ \A id \in DOMAIN table : table[id] = jobs[id]
        /\ \A id \in DOMAIN jobs \ DOMAIN table : jobs[id].status = "queued"
    <3>1. /\ Tables(table) /\ DOMAIN table = DOMAIN jobs \ Having(jobs, {"queued"})
          /\ \A id \in DOMAIN jobs \ Having(jobs, {"queued"}) : table[id] = jobs[id]
      BY <1>0, DeletedRows
    <3>2. \A id \in Having(jobs, {"queued"}) : jobs[id].status = "queued"
      BY DEF Having
    <3> HIDE DEF table
    <3> QED BY <3>1, <3>2
  <2>2. state \in Admissions
    BY ItemsAssumption DEF Admissions
  <2>3. TableKept
    <3>1. Refill(table, state, catalog, settings, TRUE)
      BY <1>4 DEF Requeue
    <3>2. catalog \in Catalogs /\ settings \in 0 .. MaxSettings
      BY <1>0, TypeParts
    <3> HIDE DEF table, state
    <3> QED BY <1>0, <2>1, <2>2, <3>1, <3>2, RefillKept
  <2>4. ThreadsKept
    BY <1>0, <1>4, ThreadsUntouched DEF Requeue
  <2> QED BY <1>0, <2>3, <2>4, RunsNext
<1>5. CASE GiveUp \/ Rested \/ UNCHANGED vars
  <2>1. UNCHANGED jobs /\ UNCHANGED threads
    BY <1>5 DEF GiveUp, Rested, vars
  <2>2. TableKept
    BY <1>0, <2>1, TableUntouched
  <2>3. ThreadsKept
    BY <1>0, <2>1, ThreadsUntouched
  <2> QED BY <1>0, <2>2, <2>3, RunsNext
<1>6. CASE Replace
  <2>1. TableKept
    BY <1>0, <1>6, TableUntouched DEF Replace
  <2>2. ThreadsKept
    BY <1>0, <1>6, StoppedTypes, ThreadsUntouched DEF Replace, TypeInv
  <2> QED BY <1>0, <2>1, <2>2, RunsNext
<1>7. CASE Crash
  <2>1. TableKept
    BY <1>0, <1>7, TableUntouched DEF Crash
  <2>2. ThreadsKept
    BY <1>7 DEF Crash, Off, ThreadsKept
  <2> QED BY <1>0, <2>1, <2>2, RunsNext
<1>8. ASSUME NEW id \in JobIds, Age(id) PROVE TableKept /\ Runs'
  <2>1. /\ id \in DOMAIN jobs /\ jobs[id].status = "running"
        /\ \A t \in Threads : threads[t].job # id
    BY <1>8, RowsOf DEF Age, Held
  <2>2. jobs' = [jobs EXCEPT ![id].aged = TRUE]
    BY <1>8 DEF Age
  <2>3. /\ DOMAIN jobs' = DOMAIN jobs
        /\ jobs'[id].status = "running"
        /\ \A j \in DOMAIN jobs \ {id} : jobs'[j] = jobs[j]
    <3>1. jobs[id] \in Rows
      BY <1>0, <2>1 DEF Tables
    <3>2. jobs'[id] = [jobs[id] EXCEPT !.aged = TRUE]
      BY <1>0, <2>1, <2>2 DEF Tables
    <3>3. DOMAIN jobs' = DOMAIN jobs /\ \A j \in DOMAIN jobs \ {id} : jobs'[j] = jobs[j]
      BY <1>0, <2>2 DEF Tables
    <3> QED BY <2>1, <3>1, <3>2, <3>3 DEF Rows
  <2>4. Crowd' \subseteq Crowd
    BY <2>1, <2>3, CrowdShrinks DEF Active
  <2>5. TableKept
    BY <1>0, <2>1, <2>3, <2>4 DEF TableKept, Runs, Ended
  <2>6. ThreadsKept
    BY <1>0, <1>8, ThreadsUntouched DEF Age
  <2> QED BY <1>0, <2>5, <2>6, RunsNext
<1>9. ASSUME NEW t \in Threads, Start(t) PROVE TableKept /\ Runs'
  BY <1>0, <1>9, StartKept, RunsNext
<1>10. ASSUME NEW t \in Threads, Stop(t) PROVE TableKept /\ Runs'
  <2>1. TableKept
    BY <1>0, <1>10, TableUntouched DEF Stop
  <2>2. ThreadsKept
    BY <1>0, <1>10 DEF Stop, Off, ThreadsKept, Runs, TypeInv, TypeOK
  <2> QED BY <1>0, <2>1, <2>2, RunsNext
<1>11. ASSUME NEW t \in Threads, Finish(t) PROVE TableKept /\ Runs'
  <2>1. At(t, "run") /\ jobs[threads[t].job].status = "running"
    BY <1>0, <1>11 DEF Finish, At, Runs
  <2>2. Ends(t, "completed")
    BY <1>11, <2>1 DEF Finish
  <2> QED BY <1>0, <2>1, <2>2, EndsKept, RunsNext
<1>12. ASSUME NEW t \in Threads, NEW retryable, Fail(t, retryable) PROVE TableKept /\ Runs'
  <2> DEFINE status == IF retryable /\ jobs[threads[t].job].attempts < Budget
                       THEN "queued" ELSE "failed"
  <2>1. At(t, "run") /\ Ends(t, status)
    BY <1>12 DEF Fail
  <2>2. /\ status \in {"queued", "completed", "failed"}
        /\ status = "queued" => jobs[threads[t].job].attempts < Budget
    OBVIOUS
  <2> HIDE DEF status
  <2> QED BY <1>0, <2>1, <2>2, EndsKept, RunsNext
<1>13. ASSUME NEW t \in Threads, Admit(t) PROVE TableKept /\ Runs'
  <2>1. TableKept
    BY <1>0, <1>13, TypeParts, RefillKept DEF Admit
  <2>2. ThreadsKept
    BY <1>0, <1>13, ThreadsUntouched DEF Admit
  <2> QED BY <1>0, <2>1, <2>2, RunsNext
<1>14. ASSUME NEW t \in Threads, Raise(t) PROVE TableKept /\ Runs'
  <2>1. TableKept
    BY <1>0, <1>14, TableUntouched DEF Raise
  <2>2. ThreadsKept
    BY <1>0, <1>14, GoesTypes DEF Raise, ThreadsKept, Runs, TypeInv
  <2> QED BY <1>0, <2>1, <2>2, RunsNext
<1>15. ASSUME NEW t \in Threads, Compact(t) PROVE TableKept /\ Runs'
  <2>1. PICK id \in Having(jobs, {"queued"}) : jobs' = Without(jobs, {id})
    BY <1>15 DEF Compact
  <2>2. TableKept
    <3>1. jobs[id].status # "running"
      BY DEF Having
    <3> QED BY <1>0, <2>1, <3>1, DeletedKept
  <2>3. ThreadsKept
    BY <1>0, <1>15, ThreadsUntouched DEF Compact
  <2> QED BY <1>0, <2>2, <2>3, RunsNext
<1>16. ASSUME NEW t \in Threads, Prune(t) PROVE TableKept /\ Runs'
  <2>1. PICK id \in Having(jobs, Ended) : jobs' = Without(jobs, {id})
    BY <1>16 DEF Prune
  <2>2. TableKept
    <3>1. jobs[id].status # "running"
      BY DEF Having, Ended
    <3> QED BY <1>0, <2>1, <3>1, DeletedKept
  <2>3. ThreadsKept
    BY <1>0, <1>16, ThreadsUntouched DEF Prune
  <2> QED BY <1>0, <2>2, <2>3, RunsNext
<1>17. ASSUME NEW t \in Threads, Run(t) PROVE TableKept /\ Runs'
  BY <1>0, <1>9, <1>10, <1>11, <1>12, <1>17, ClaimKept DEF Run
<1> QED
  BY <1>1, <1>2, <1>3, <1>4, <1>5, <1>6, <1>7, <1>8, <1>13, <1>14, <1>15, <1>16, <1>17 DEF Next

LEMMA QueueStep ==
    ASSUME ~LongRuns, QueueInv, [Next]_vars
    PROVE  QueueInv'
<1>1. TypeInv' /\ TableKept /\ Runs'
  BY TypeStep, QueueKept DEF QueueInv
<1>2. CASE Crowd' \subseteq Crowd
  <2>1. IsFiniteSet(Crowd)
    <3>1. Crowd \subseteq DOMAIN jobs
      BY DEF Crowd, Having
    <3> QED BY <3>1, FS_Subset DEF QueueInv, TypeInv, Tables
  <2>2. /\ Cardinality(Crowd') <= Cardinality(Crowd)
        /\ Cardinality(Crowd') \in Nat /\ Cardinality(Crowd) \in Nat
    BY <1>2, <2>1, FS_Subset, FS_CardinalityType
  <2>3. Cardinality(Crowd') <= Window
    BY <2>2, ItemsAssumption DEF QueueInv
  <2> QED BY <1>1, <2>3 DEF QueueInv
<1>3. CASE Cardinality(Crowd') <= Window
  BY <1>1, <1>3 DEF QueueInv
<1> QED BY <1>1, <1>2, <1>3 DEF TableKept

LEMMA QueueInit == Init => QueueInv
<1> SUFFICES ASSUME Init PROVE QueueInv
  OBVIOUS
<1>1. TypeInv
  BY TypeInit
<1>2. DOMAIN jobs = {}
  BY DEF Init
<1>3. Runs
  BY <1>2 DEF Runs, Init, Off
<1>4. Cardinality(Crowd) <= Window
  <2>1. Crowd = {}
    BY <1>2 DEF Crowd, Having
  <2> QED BY <2>1, FS_EmptySet, ItemsAssumption
<1> QED BY <1>1, <1>3, <1>4 DEF QueueInv

(* If no run outlasts the stale interval, a job is run by one worker and is
   taken from none, also when a worker is replaced, stopped or started while
   another still runs: recover_stale_background_jobs() puts back only what has
   no thread any more. *)
THEOREM OneWorkerRunsAJob ==
    ASSUME ~LongRuns
    PROVE  Spec => []OneRunner
<1>1. QueueInv => OneRunner
  BY DEF QueueInv, Runs, OneRunner, Having
<1>2. QueueInv /\ [Next]_vars => QueueInv'
  BY QueueStep
<1> QED BY <1>1, <1>2, QueueInit, PTL DEF Spec

(* Then the jobs that refills admitted never exceed the window of their kind,
   whatever is put back, and every queued job has an attempt left to be
   claimed with (BACKGROUND_JOB_WINDOWS, claim_background_job()). *)
THEOREM WindowIsKept ==
    ASSUME ~LongRuns
    PROVE  Spec => []WindowKept
<1>1. QueueInv => WindowKept
  BY DEF QueueInv, Runs, WindowKept, Crowd, Having
<1>2. QueueInv /\ [Next]_vars => QueueInv'
  BY QueueStep
<1> QED BY <1>1, <1>2, QueueInit, PTL DEF Spec

(* And then a receipt is final: no late answer of a worker, no recovery and no
   refill makes a job that has ended wait or run again (finish_ and
   fail_background_job(), INSERT OR IGNORE). *)
THEOREM ReceiptsAreFinal ==
    ASSUME ~LongRuns
    PROVE  Spec => ReceiptsStand
<1>1. QueueInv /\ [Next]_vars => QueueInv'
  BY QueueStep
<1>2. QueueInv /\ [Next]_vars
      => [\A id \in Having(jobs, Ended) \cap DOMAIN jobs' :
             jobs'[id].status = jobs[id].status]_vars
  <2> SUFFICES ASSUME QueueInv, [Next]_vars,
                      NEW id \in Having(jobs, Ended) \cap DOMAIN jobs'
               PROVE  jobs'[id].status = jobs[id].status
    OBVIOUS
  <2>1. id \in DOMAIN jobs \cap DOMAIN jobs' /\ jobs[id].status \in Ended
    BY DEF Having
  <2> QED BY <2>1, QueueKept DEF TableKept
<1> QED BY <1>1, <1>2, QueueInit, PTL DEF Spec, ReceiptsStand

=============================================================================
