-------------------------- MODULE CatalogSyncProofs --------------------------
(***************************************************************************)
(* What the journal of an agent guarantees, it guarantees to the catalog    *)
(* that follows it; and what the catalog of a coordinator guarantees to its *)
(* readers, for any files, folders, instances, pullers and page sizes.      *)
(***************************************************************************)
EXTENDS CatalogSync, SourceJournalProofs, WellFoundedInduction

(* Passes, pages, restarts and changes of the topology write nothing but what
   the agent itself writes: pull_deltas() only reads. *)
THEOREM SyncImplementsJournal == Spec => JournalSpec
  <1>1. Init => JournalInit
    BY DEF Init
  <1>2. [Next]_vars => [JournalNext]_journalVars
    BY DEF Next, AgentStep, SyncStep, vars
  <1> QED
    BY <1>1, <1>2, PTL DEF Spec, JournalSpec

(* While a catalog pulls pages between compactions, the newest delta of every
   source stays there to be pulled (compact_storage_batch()). *)
THEOREM SyncJournalComplete == Spec => []JournalComplete
  BY SyncImplementsJournal, JournalIsComplete, PTL

-----------------------------------------------------------------------------
(* What the journal says is true *)

(* What a delta tells of its source. *)
Told(d) == IF d.removed THEN NoContent ELSE d.content

(* What a delta tells, the agent said of the source at that revision. *)
Honest(d) ==
    /\ d.revision <= sources[d.source].revision
    /\ history[d.source][d.revision] = Told(d)

(* The last word of a history is the row as it is, and a row that was ever
   written has a content. *)
Remembered(s) ==
    /\ history[s] \in Seq(Contents \cup {NoContent})
    /\ Len(history[s]) = sources[s].revision
    /\ sources[s].revision = 0 => ~sources[s].present
    /\ sources[s].revision > 0 =>
          /\ sources[s].content \in Contents
          /\ history[s][sources[s].revision] = Shown(sources[s])

JournalTrue ==
    /\ JournalInvariant
    /\ history \in [Sources -> Seq(Contents \cup {NoContent})]
    /\ \A s \in Sources : Remembered(s)
    /\ \A d \in deltas : Honest(d)

(* Two deltas about the same change; one may be a page's copy of the other. *)
Same(r, d) ==
    /\ r.source = d.source /\ r.sequence = d.sequence
    /\ r.revision = d.revision /\ r.removed = d.removed

(* What every step of the agent leaves to a reader of the journal: histories
   only grow, the newest delta of a source is a new one or stays as it was and
   its source with it, and nothing is deleted that nothing supersedes. *)
JournalGrows ==
    /\ sequence <= sequence'
    /\ \A s \in Sources :
          /\ sources[s].revision <= sources'[s].revision
          /\ \A i \in 1 .. sources[s].revision : history'[s][i] = history[s][i]
    /\ \A d \in deltas' : ~Superseded(d)' =>
          \/ d.sequence > sequence
          \/ /\ sources'[d.source] = sources[d.source]
             /\ \E e \in deltas : ~Superseded(e) /\ Same(e, d)
    /\ \A d \in deltas : \E e \in deltas' : e.source = d.source /\ e.sequence >= d.sequence

LEMMA AppendOne ==
    ASSUME NEW T, NEW h \in Seq(T), NEW x \in T
    PROVE  /\ h \o <<x>> \in Seq(T)
           /\ h \o <<x>> = Append(h, x)
           /\ Len(h \o <<x>>) = Len(h) + 1
           /\ \A i \in 1 .. Len(h) : (h \o <<x>>)[i] = h[i]
           /\ (h \o <<x>>)[Len(h) + 1] = x
  OBVIOUS

(* A write takes the next revision. *)
NextRows(D, rows) == \A s \in D : rows[s].revision = sources[s].revision + 1

LEMMA RecordTells ==
    ASSUME JournalTrue, NEW D \in SUBSET Sources, NEW rows,
           RowsToWrite(D, rows), NextRows(D, rows), Record(D, rows), UNCHANGED batch
    PROVE  JournalTrue' /\ JournalGrows
  <1>1. JournalInvariant' /\ JournalTyped
    BY RecordAnnounces DEF JournalTrue, JournalInvariant
  <1>2. Cardinality(D) \in Nat /\ sequence \in Nat
    BY <1>1, SourcesCounted DEF JournalTyped, JournalTypeOK
  <1>3. PICK n \in Numberings(D) :
            deltas' = {d \in deltas : ~(d.source \in D /\ d.reference)}
                         \cup {Delta(s, rows[s], n[s]) : s \in D}
    BY DEF Record
  <1> DEFINE New(s) == Delta(s, rows[s], n[s])
  <1>4. \A d \in deltas : /\ d.sequence \in Nat /\ d.source \in Sources
                          /\ d.revision \in Nat /\ d.revision > 0
    BY <1>1 DEF JournalTyped, JournalTypeOK, Deltas
  <1>5. ASSUME NEW s \in Sources, s \notin D
        PROVE  sources'[s] = sources[s] /\ history'[s] = history[s]
    BY <1>5 DEF Record
  <1>6. ASSUME NEW s \in D
        PROVE  /\ sources'[s] = rows[s]
               /\ sources'[s].revision = sources[s].revision + 1
               /\ rows[s].revision = sources[s].revision + 1
               /\ sources[s].revision \in Nat
               /\ rows[s].content \in Contents
    <2>1. rows[s].content \in Contents /\ rows[s].revision = sources[s].revision + 1
      BY DEF RowsToWrite, NextRows
    <2>2. sources[s].revision \in Nat
      BY <1>1 DEF JournalTyped, JournalTypeOK, SourceRows
    <2>3. sources'[s] = rows[s]
      BY DEF Record
    <2> QED
      BY <2>1, <2>2, <2>3
  <1>7. ASSUME NEW s \in D
        PROVE  /\ history'[s] = history[s] \o <<Shown(rows[s])>>
               /\ Shown(rows[s]) \in Contents \cup {NoContent}
               /\ history[s] \in Seq(Contents \cup {NoContent})
               /\ Len(history[s]) = sources[s].revision
    BY <1>6 DEF Shown, Record, JournalTrue, Remembered
  <1>17. ASSUME NEW s \in D
        PROVE  /\ history'[s] \in Seq(Contents \cup {NoContent})
               /\ Len(history'[s]) = rows[s].revision
               /\ \A i \in 1 .. sources[s].revision : history'[s][i] = history[s][i]
               /\ history'[s][rows[s].revision] = Shown(rows[s])
    <2> DEFINE h == history[s]
               x == Shown(rows[s])
               T == Contents \cup {NoContent}
    <2>1. /\ h \in Seq(T) /\ x \in T /\ history'[s] = h \o <<x>>
          /\ Len(h) = sources[s].revision /\ rows[s].revision = Len(h) + 1
      BY <1>6, <1>7
    <2> HIDE DEF h, x, T
    <2>2. /\ h \o <<x>> \in Seq(T)
          /\ Len(h \o <<x>>) = Len(h) + 1
          /\ \A i \in 1 .. Len(h) : (h \o <<x>>)[i] = h[i]
          /\ (h \o <<x>>)[Len(h) + 1] = x
      <3>1. h \in Seq(T) /\ x \in T
        BY <2>1
      <3> QED
        BY <3>1, AppendOne
    <2>3. /\ history'[s] \in Seq(T)
          /\ Len(history'[s]) = rows[s].revision
          /\ \A i \in 1 .. sources[s].revision : history'[s][i] = h[i]
          /\ history'[s][rows[s].revision] = x
      BY <2>1, <2>2
    <2> QED
      BY <2>3 DEF h, x, T
  <1>8. ASSUME NEW s \in Sources
        PROVE  Remembered(s)' /\ history'[s] \in Seq(Contents \cup {NoContent})
    <2>1. CASE s \in D
      <3>1. sources'[s].revision > 0 /\ sources'[s].revision # 0
        BY <1>6, <2>1
      <3> QED
        BY <1>6, <1>17, <2>1, <3>1 DEF Remembered, Shown
    <2>2. CASE s \notin D
      BY <1>5, <2>2 DEF Remembered, JournalTrue, Shown
    <2> QED
      BY <2>1, <2>2
  <1>9. history' \in [Sources -> Seq(Contents \cup {NoContent})]
    BY <1>8 DEF Record
  <1>10. ASSUME NEW s \in Sources
         PROVE  /\ sources[s].revision <= sources'[s].revision
                /\ \A i \in 1 .. sources[s].revision : history'[s][i] = history[s][i]
    <2>1. CASE s \in D
      <3>1. sources[s].revision <= sources'[s].revision
        BY <1>6, <2>1
      <3> QED
        BY <1>17, <2>1, <3>1
    <2>2. CASE s \notin D
      <3>1. sources[s].revision \in Nat
        BY <1>1 DEF JournalTyped, JournalTypeOK, SourceRows
      <3> QED
        BY <1>5, <2>2, <3>1
    <2> QED
      BY <2>1, <2>2
  <1>11. \A d \in deltas' : d \in deltas \/ \E s \in D : d = New(s)
    BY <1>3
  <1>12. ASSUME NEW s \in D
         PROVE  /\ New(s) \in deltas'
                /\ New(s).source = s /\ New(s).revision = rows[s].revision
                /\ New(s).removed = ~rows[s].present /\ New(s).content = rows[s].content
                /\ New(s).sequence > sequence /\ New(s).sequence \in Nat
    <2>1. n[s] \in sequence + 1 .. sequence + Cardinality(D)
      BY <1>3 DEF Numberings
    <2>2. New(s).removed = ~rows[s].present
      BY DEF Delta
    <2>3. /\ New(s).source = s /\ New(s).revision = rows[s].revision
          /\ New(s).content = rows[s].content /\ New(s).sequence = n[s]
      BY DEF Delta
    <2> QED
      BY <1>2, <1>3, <2>1, <2>2, <2>3
  <1>13. ASSUME NEW d \in deltas' PROVE Honest(d)'
    <2>1. CASE d \in deltas
      <3>1. /\ d.revision \in Nat /\ d.revision > 0 /\ d.source \in Sources
            /\ d.revision <= sources[d.source].revision
            /\ history[d.source][d.revision] = Told(d)
        BY <1>4, <2>1 DEF JournalTrue, Honest
      <3>2. sources[d.source].revision \in Nat /\ sources'[d.source].revision \in Nat
        BY <1>1, <3>1 DEF JournalInvariant, JournalTyped, JournalTypeOK, SourceRows
      <3> QED
        BY <1>10, <3>1, <3>2 DEF Honest, Told
    <2>2. ASSUME NEW s \in D, d = New(s) PROVE Honest(d)'
      <3>1. Told(New(s)) = Shown(rows[s])
        <4>1. New(s).removed = ~rows[s].present /\ New(s).content = rows[s].content
          BY <1>12
        <4>2. Told(New(s)) = IF ~rows[s].present THEN NoContent ELSE rows[s].content
          BY <4>1 DEF Told
        <4> QED
          BY <4>2, Zenon DEF Shown
      <3>2. d.source = s /\ d.revision = rows[s].revision /\ Told(d) = Shown(rows[s])
        BY <1>12, <2>2, <3>1
      <3>3. rows[s].revision \in Nat /\ sources'[s].revision = rows[s].revision
        BY <1>6
      <3>4. Told(d)' = Told(d)
        BY DEF Told
      <3>5. history'[s][rows[s].revision] = Shown(rows[s])
        BY <1>17
      <3>6. d.revision <= sources'[d.source].revision
        BY <3>2, <3>3
      <3>7. history'[d.source][d.revision] = Told(d)
        BY <3>2, <3>5
      <3> QED
        BY <3>4, <3>6, <3>7 DEF Honest
    <2> QED
      BY <1>11, <2>1, <2>2
  <1>14. ASSUME NEW d \in deltas', ~Superseded(d)', ~(d.sequence > sequence)
         PROVE  /\ sources'[d.source] = sources[d.source]
                /\ \E e \in deltas : ~Superseded(e) /\ Same(e, d)
    <2>1. d \in deltas
      BY <1>11, <1>12, <1>14
    <2>2. d.source \notin D
      <3> SUFFICES ASSUME d.source \in D PROVE FALSE
        OBVIOUS
      <3>1. New(d.source) \in deltas' /\ New(d.source).source = d.source
        BY <1>12
      <3>2. New(d.source).sequence > d.sequence
        BY <1>2, <1>4, <1>12, <1>14, <2>1
      <3> QED
        BY <1>14, <3>1, <3>2 DEF Superseded
    <2>3. ~Superseded(d)
      <3> SUFFICES ASSUME NEW e \in deltas, e.source = d.source, e.sequence > d.sequence
                   PROVE  FALSE
        BY DEF Superseded
      <3>1. e \in deltas'
        BY <1>3, <2>2
      <3> QED
        BY <1>14, <3>1 DEF Superseded
    <2> QED
      BY <1>4, <1>5, <2>1, <2>2, <2>3 DEF Same
  <1>15. ASSUME NEW d \in deltas
         PROVE  \E e \in deltas' : e.source = d.source /\ e.sequence >= d.sequence
    <2>1. CASE d \in deltas'
      BY <1>4, <2>1
    <2>2. CASE d \notin deltas'
      <3>1. d.source \in D
        BY <1>3, <2>2
      <3>2. d.sequence <= sequence
        BY DEF JournalTrue, JournalInvariant, Unambiguous
      <3> QED
        BY <1>2, <1>4, <1>12, <3>1, <3>2
    <2> QED
      BY <2>1, <2>2
  <1>16. sequence <= sequence'
    BY <1>2 DEF Record
  <1>18. JournalTrue'
    BY <1>1, <1>8, <1>9, <1>13 DEF JournalTrue
  <1> QED
    BY <1>10, <1>14, <1>15, <1>16, <1>18 DEF JournalGrows

(* The newest delta of a source is the one that announces its row. *)
LEMMA NewestAnnounces ==
    ASSUME JournalTrue, NEW d \in deltas
    PROVE  /\ d.source \in Sources /\ sources[d.source].revision > 0
           /\ \E e \in deltas : /\ e.source = d.source
                                /\ ~Superseded(e)
                                /\ e.sequence >= d.sequence
           /\ ~Superseded(d) => /\ d.revision = sources[d.source].revision
                                /\ d.removed = ~sources[d.source].present
  <1>1. /\ d.source \in Sources /\ d.revision \in Nat \ {0} /\ d.sequence \in Nat
        /\ sources[d.source].revision \in Nat
    BY DEF JournalTrue, JournalInvariant, JournalTyped, JournalTypeOK, Deltas, SourceRows
  <1>2. sources[d.source].revision > 0
    BY <1>1 DEF JournalTrue, Honest
  <1>3. PICK e \in deltas : /\ e.source = d.source
                            /\ ~Superseded(e)
                            /\ e.revision = sources[d.source].revision
                            /\ e.removed = ~sources[d.source].present
    BY <1>1, <1>2 DEF JournalTrue, JournalInvariant, Announced
  <1>4. e.sequence \in Nat /\ ~(d.sequence > e.sequence)
    BY <1>3 DEF Superseded, JournalTrue, JournalInvariant, JournalTyped, JournalTypeOK, Deltas
  <1>5. ASSUME ~Superseded(d) PROVE d = e
    <2>1. ~(e.sequence > d.sequence)
      BY <1>3, <1>5 DEF Superseded
    <2> QED
      BY <1>1, <1>4, <2>1 DEF JournalTrue, JournalInvariant, Unambiguous
  <1>6. e.sequence >= d.sequence
    BY <1>1, <1>4
  <1> QED
    BY <1>1, <1>2, <1>3, <1>5, <1>6

(* A compaction deletes no newest delta, and its marks change nothing that is
   told. *)
LEMMA CompactTells ==
    ASSUME JournalTrue, Compact
    PROVE  JournalTrue' /\ JournalGrows
  <1>1. JournalInvariant'
    BY CompactReadKeeps, CompactWriteKeeps DEF Compact, JournalTrue
  <1>2. UNCHANGED <<sources, sequence, history>>
    BY DEF Compact, CompactRead, CompactWrite
  <1>3. /\ sequence \in Nat
        /\ \A s \in Sources : sources[s].revision \in Nat
        /\ \A d \in deltas : /\ d.source \in Sources /\ d.sequence \in Nat
                             /\ d.revision \in Nat
    BY DEF JournalTrue, JournalInvariant, JournalTyped, JournalTypeOK, Deltas, SourceRows
  <1>4. \A d \in deltas' : \E e \in deltas : Same(e, d) /\ Told(e) = Told(d)
    <2>1. CASE UNCHANGED deltas
      BY <2>1 DEF Same
    <2>2. CASE CompactWrite
      <3> SUFFICES ASSUME NEW d \in deltas'
                   PROVE  \E e \in deltas : Same(e, d) /\ Told(e) = Told(d)
        OBVIOUS
      <3>1. PICK e \in deltas : d = [e EXCEPT !.reference = @ \/ e.sequence \in batch.refer]
        BY <2>2 DEF CompactWrite
      <3>2. e \in Deltas
        BY DEF JournalTrue, JournalInvariant, JournalTyped, JournalTypeOK
      <3>3. /\ d.source = e.source /\ d.sequence = e.sequence /\ d.revision = e.revision
            /\ d.removed = e.removed /\ d.content = e.content
        BY <3>1, <3>2 DEF Deltas
      <3> QED
        BY <3>3 DEF Same, Told
    <2> QED
      BY <2>1, <2>2 DEF Compact, CompactRead
  <1>5. \A d \in deltas : ~Superseded(d) => \E e \in deltas' : Same(d, e)
    <2>1. CASE UNCHANGED deltas
      BY <2>1 DEF Same
    <2>2. CASE CompactWrite
      <3> SUFFICES ASSUME NEW d \in deltas, ~Superseded(d)
                   PROVE  \E e \in deltas' : Same(d, e)
        OBVIOUS
      <3> DEFINE e == [d EXCEPT !.reference = @ \/ d.sequence \in batch.refer]
      <3>1. d.sequence \notin batch.drop
        BY DEF JournalTrue, JournalInvariant, DropsSuperseded
      <3>2. e \in deltas'
        BY <2>2, <3>1 DEF CompactWrite
      <3>3. d \in Deltas
        BY DEF JournalTrue, JournalInvariant, JournalTyped, JournalTypeOK
      <3>4. /\ d.source = e.source /\ d.sequence = e.sequence /\ d.revision = e.revision
            /\ d.removed = e.removed
        BY <3>3 DEF Deltas
      <3> HIDE DEF e
      <3> QED
        BY <3>2, <3>4 DEF Same
    <2> QED
      BY <2>1, <2>2 DEF Compact, CompactRead
  <1>6. ASSUME NEW d \in deltas
        PROVE  \E e \in deltas' : e.source = d.source /\ e.sequence >= d.sequence
    <2>1. PICK x \in deltas : x.source = d.source /\ ~Superseded(x) /\ x.sequence >= d.sequence
      BY NewestAnnounces
    <2>2. PICK e \in deltas' : Same(x, e)
      BY <1>5, <2>1
    <2> QED
      BY <2>1, <2>2 DEF Same
  <1>7. ASSUME NEW d \in deltas', ~Superseded(d)'
        PROVE  \E e \in deltas : ~Superseded(e) /\ Same(e, d)
    <2>1. PICK e \in deltas : Same(e, d)
      BY <1>4
    <2>2. ~Superseded(e)
      <3> SUFFICES ASSUME NEW x \in deltas, x.source = e.source, x.sequence > e.sequence
                   PROVE  FALSE
        BY DEF Superseded
      <3>1. PICK y \in deltas' : y.source = x.source /\ y.sequence >= x.sequence
        BY <1>6
      <3>2. y.sequence \in Nat /\ x.sequence \in Nat /\ e.sequence \in Nat
        BY <1>1, <1>3 DEF JournalInvariant, JournalTyped, JournalTypeOK, Deltas
      <3>3. y.source = d.source /\ y.sequence > d.sequence
        BY <2>1, <3>1, <3>2 DEF Same
      <3> QED
        BY <1>7, <3>3 DEF Superseded
    <2> QED
      BY <2>1, <2>2
  <1>8. \A d \in deltas' : Honest(d)'
    <2> SUFFICES ASSUME NEW d \in deltas' PROVE Honest(d)'
      OBVIOUS
    <2>1. PICK e \in deltas : Same(e, d) /\ Told(e) = Told(d)
      BY <1>4
    <2>2. Honest(e)
      BY DEF JournalTrue
    <2> QED
      BY <1>2, <2>1, <2>2 DEF Honest, Same, Told
  <1>9. \A s \in Sources : Remembered(s)'
    BY <1>2 DEF JournalTrue, Remembered, Shown
  <1>10. JournalTrue'
    BY <1>1, <1>2, <1>8, <1>9 DEF JournalTrue
  <1>11. \A d \in deltas' : d.source \in Sources
    BY <1>1 DEF JournalInvariant, JournalTyped, JournalTypeOK, Deltas
  <1> QED
    BY <1>2, <1>3, <1>6, <1>7, <1>10, <1>11 DEF JournalGrows

(* Every step of the agent keeps the truth of its journal, and only adds. *)
LEMMA JournalTells ==
    ASSUME JournalTrue, [JournalNext]_journalVars
    PROVE  JournalTrue' /\ JournalGrows
  <1>1. JournalTyped
    BY DEF JournalTrue, JournalInvariant
  <1>2. ASSUME NEW s \in Sources, NEW c \in Contents, Upsert(s, c)
        PROVE  JournalTrue' /\ JournalGrows
    <2>1. NextRows({s}, [t \in {s} |-> Stored(sources[t], c)])
      BY DEF NextRows, Stored
    <2> QED
      BY <1>1, <1>2, <2>1, UpsertWrites, RecordTells DEF Upsert
  <1>3. ASSUME NEW D \in SUBSET Sources, Remove(D)
        PROVE  JournalTrue' /\ JournalGrows
    <2>1. \A s \in D : Tombstone(sources[s]).revision = sources[s].revision + 1
      BY <1>1 DEF Tombstone, JournalTyped, JournalTypeOK, SourceRows
    <2>2. NextRows(D, [s \in D |-> Tombstone(sources[s])])
      BY <2>1 DEF NextRows
    <2> QED
      BY <1>1, <1>3, <2>2, RemoveWrites, RecordTells DEF Remove
  <1>4. CASE Compact
    BY <1>4, CompactTells
  <1>5. CASE UNCHANGED journalVars
    <2>1. UNCHANGED <<sources, deltas, sequence, batch, history>>
      BY <1>5 DEF journalVars
    <2>2. JournalTrue'
      BY <2>1 DEF JournalTrue, JournalInvariant, JournalTyped, JournalTypeOK, ContentsKnown,
                  Unambiguous, DropsSuperseded, Announced, Superseded, Remembered, Shown,
                  Honest, Told
    <2>3. /\ sequence \in Nat
          /\ \A s \in Sources : sources[s].revision \in Nat
          /\ \A d \in deltas : d.sequence \in Nat
      BY <1>1 DEF JournalTyped, JournalTypeOK, Deltas, SourceRows
    <2>4. JournalGrows
      BY <2>1, <2>3 DEF JournalGrows, Superseded, Same
    <2> QED
      BY <2>2, <2>4
  <1> QED
    BY <1>2, <1>3, <1>4, <1>5 DEF JournalNext

LEMMA JournalStartsTrue == JournalInit => JournalTrue
  <1> SUFFICES ASSUME JournalInit PROVE JournalTrue
    OBVIOUS
  <1>1. JournalTyped
    BY MaxSequenceAssumption
    DEF JournalInit, JournalTyped, JournalTypeOK, ContentsKnown, NoRow, SourceRows,
        NoBatch, Batches
  <1>2. JournalInvariant
    BY <1>1 DEF JournalInit, JournalInvariant, Unambiguous, DropsSuperseded, NoBatch, NoRow
  <1>3. \A s \in Sources : Remembered(s)
    BY DEF JournalInit, Remembered, NoRow
  <1> QED
    BY <1>2, <1>3 DEF JournalInit, JournalTrue

-----------------------------------------------------------------------------
(* A page, applied delta by delta *)

(* The least of some numbers. *)
LEMMA LeastNumber ==
    ASSUME NEW S \in SUBSET Nat, S # {}
    PROVE  \E m \in S : \A n \in S : m <= n
  <1> DEFINE R == OpToRel(<, Nat)
  <1>1. IsWellFoundedOn(R, Nat)
    BY NatLessThanWellFounded, Zenon
  <1>2. \A m, n \in Nat : m < n => <<m, n>> \in R
    BY DEF OpToRel
  <1>3. PICK m \in S : \A n \in S : ~(<<n, m>> \in R)
    <2> HIDE DEF R
    <2> QED
      BY <1>1, WFMin
  <1> HIDE DEF R
  <1>4. \A n \in S : ~(n < m)
    BY <1>2, <1>3
  <1> QED
    BY <1>4

(* What the delta with sequence q of a page makes of a catalog. *)
StepOf(rows, c, q) ==
    IF \E d \in rows : d.sequence = q
    THEN ApplyDelta(c, CHOOSE d \in rows : d.sequence = q)
    ELSE c

(* The catalogs after each sequence of a page. *)
FoldOf(rows, m, g) ==
    g = [q \in 0 .. m |-> IF q = 0 THEN catalog ELSE StepOf(rows, g[q - 1], q)]

LEMMA FoldExists ==
    ASSUME NEW rows, NEW m \in Nat
    PROVE  \E g : FoldOf(rows, m, g)
  <1> DEFINE Bad == {k \in Nat : ~ \E g : FoldOf(rows, k, g)}
  <1> SUFFICES ASSUME Bad # {} PROVE FALSE
    OBVIOUS
  <1>1. PICK k \in Bad : \A n \in Bad : k <= n
    <2>1. Bad \in SUBSET Nat
      OBVIOUS
    <2> HIDE DEF Bad
    <2> QED
      BY <2>1, LeastNumber
  <1>2. CASE k = 0
    <2> DEFINE g == [q \in 0 .. 0 |-> catalog]
    <2>1. g = [q \in 0 .. 0 |-> IF q = 0 THEN catalog ELSE StepOf(rows, g[q - 1], q)]
      OBVIOUS
    <2> QED
      BY <1>1, <1>2, <2>1 DEF FoldOf
  <1>3. CASE k # 0
    <2>1. k \in Nat /\ k - 1 \in Nat /\ k - 1 \notin Bad
      BY <1>1, <1>3
    <2>2. PICK g : FoldOf(rows, k - 1, g)
      BY <2>1
    <2> DEFINE h == [q \in 0 .. k |-> IF q = k THEN StepOf(rows, g[k - 1], k) ELSE g[q]]
    <2>3. ASSUME NEW q \in 0 .. k
          PROVE  h[q] = IF q = 0 THEN catalog ELSE StepOf(rows, h[q - 1], q)
      <3>1. CASE q = k
        <4>1. h[k] = StepOf(rows, g[k - 1], k)
          BY <2>1
        <4>2. k - 1 \in 0 .. k /\ k - 1 # k
          BY <2>1
        <4>3. h[k - 1] = g[k - 1]
          BY <4>2
        <4> HIDE DEF h
        <4> QED
          BY <1>3, <3>1, <4>1, <4>3
      <3>2. CASE q # k
        <4>1. q \in 0 .. k - 1 /\ h[q] = g[q]
          BY <2>1, <3>2
        <4>2. g[q] = IF q = 0 THEN catalog ELSE StepOf(rows, g[q - 1], q)
          BY <2>2, <4>1 DEF FoldOf
        <4>3. q # 0 => h[q - 1] = g[q - 1]
          BY <2>1, <3>2
        <4> HIDE DEF h
        <4> QED
          BY <4>1, <4>2, <4>3
      <3> QED
        BY <3>1, <3>2
    <2>4. h = [q \in 0 .. k |-> h[q]]
      OBVIOUS
    <2> HIDE DEF h
    <2>5. h = [q \in 0 .. k |-> IF q = 0 THEN catalog ELSE StepOf(rows, h[q - 1], q)]
      BY <2>3, <2>4
    <2>6. FoldOf(rows, k, h)
      BY <2>5 DEF FoldOf
    <2> QED
      BY <1>1, <2>6
  <1> QED
    BY <1>2, <1>3

(* A page takes the catalog through any sets that its deltas, in the order of
   their sequences, take the members of one into the next. *)
LEMMA AppliedThrough ==
    ASSUME NEW rows, NEW T, catalog \in T[0],
           \A q \in 1 .. MaxSequence : \A c \in T[q - 1] :
               /\ \A d \in rows : d.sequence = q => ApplyDelta(c, d) \in T[q]
               /\ (\A d \in rows : d.sequence # q) => c \in T[q]
    PROVE  Applied(rows) \in T[MaxSequence]
  <1>1. MaxSequence \in Nat
    BY MaxSequenceAssumption
  <1> DEFINE g == CHOOSE g : FoldOf(rows, MaxSequence, g)
  <1>2. Applied(rows) = g[MaxSequence]
    BY DEF Applied, FoldOf, StepOf
  <1>3. FoldOf(rows, MaxSequence, g)
    BY <1>1, FoldExists
  <1> HIDE DEF g
  <1>4. ASSUME NEW q \in 1 .. MaxSequence, g[q - 1] \in T[q - 1]
        PROVE  g[q] \in T[q]
    <2>1. g[q] = StepOf(rows, g[q - 1], q)
      <3>1. q \in 0 .. MaxSequence /\ q # 0
        BY <1>1
      <3> QED
        BY <1>3, <3>1 DEF FoldOf
    <2>2. CASE \E d \in rows : d.sequence = q
      <3>1. PICK d \in rows : d = (CHOOSE x \in rows : x.sequence = q) /\ d.sequence = q
        BY <2>2
      <3> QED
        BY <1>4, <2>1, <2>2, <3>1 DEF StepOf
    <2>3. CASE \A d \in rows : d.sequence # q
      BY <1>4, <2>1, <2>3 DEF StepOf
    <2> QED
      BY <2>2, <2>3
  <1>5. g[0] \in T[0]
    BY <1>1, <1>3 DEF FoldOf
  <1> DEFINE Bad == {q \in 0 .. MaxSequence : g[q] \notin T[q]}
  <1>6. Bad = {}
    <2> SUFFICES ASSUME Bad # {} PROVE FALSE
      OBVIOUS
    <2>1. PICK k \in Bad : \A n \in Bad : k <= n
      <3>1. Bad \in SUBSET Nat
        BY <1>1
      <3> HIDE DEF Bad
      <3> QED
        BY <3>1, LeastNumber
    <2>2. k \in 1 .. MaxSequence
      BY <1>1, <1>5, <2>1
    <2>3. k - 1 \in 0 .. MaxSequence /\ k - 1 \notin Bad
      BY <1>1, <2>1, <2>2
    <2> QED
      BY <1>4, <2>1, <2>2, <2>3
  <1> QED
    BY <1>1, <1>2, <1>6

-----------------------------------------------------------------------------
(* What a delta makes of a catalog *)

(* What a catalog shows of a source. *)
Displayed(c, s) == IF Listed(c, s) THEN c.items[s].content ELSE NoContent

(* The sources that count in a folder. *)
ListedIn(c, f) == {s \in Sources : Listed(c, s) /\ f \in FoldersOf[s]}

FoldersCount(c) == \A f \in Folders : c.folders[f] = Cardinality(ListedIn(c, f))

(* A catalog that agrees with itself. *)
Consistent(c) ==
    /\ c \in Catalogs
    /\ \A s \in Sources : Listed(c, s) => c.items[s].content \in Contents
    /\ FoldersCount(c)
    /\ ~retired => c.variants = {s \in Sources : Listed(c, s)}

(* A catalog that page by page got to something later than the saved one: it
   has the items of the saved one, or what the agent said of them later. *)
CaughtUp(c) ==
    \A s \in Sources :
        \/ c.items[s] = catalog.items[s]
        \/ /\ c.items[s].revision > catalog.items[s].revision
           /\ c.items[s].revision <= sources[s].revision
           /\ Displayed(c, s) = history[s][c.items[s].revision]

(* Nothing a delta told is left to do: its source is at least that far, or was
   removed before the catalog ever had it. *)
Done(c, d) ==
    \/ c.items[d.source].revision >= d.revision
    \/ d.removed /\ c.items[d.source].revision = 0

LEMMA CountsFollow ==
    ASSUME NEW c \in Catalogs, NEW e \in Catalogs, NEW s \in Sources, FoldersCount(c),
           \A t \in Sources \ {s} : Listed(e, t) <=> Listed(c, t),
           Listed(e, s) => e.folders = CountedWith(c, s),
           ~Listed(e, s) => e.folders = IF Listed(c, s) THEN Discounted(c, s) ELSE c.folders
    PROVE  FoldersCount(e)
  <1> SUFFICES ASSUME NEW f \in Folders
               PROVE  e.folders[f] = Cardinality(ListedIn(e, f))
    BY DEF FoldersCount
  <1> DEFINE was == ListedIn(c, f)
             is == ListedIn(e, f)
  <1>1. IsFiniteSet(was) /\ IsFiniteSet(is) /\ Cardinality(was) \in Nat
    <2>1. was \in SUBSET Sources /\ is \in SUBSET Sources
      BY DEF ListedIn
    <2> HIDE DEF was, is
    <2> QED
      BY <2>1, SourcesCounted
  <1>2. c.folders[f] = Cardinality(was)
    BY DEF FoldersCount
  <1>3. \A t \in Sources \ {s} : t \in was <=> t \in is
    BY DEF ListedIn
  <1>4. /\ s \in was <=> Listed(c, s) /\ f \in FoldersOf[s]
        /\ s \in is <=> Listed(e, s) /\ f \in FoldersOf[s]
        /\ was \subseteq Sources /\ is \subseteq Sources
    BY DEF ListedIn
  <1>5. CASE s \in was <=> s \in is
    <2>1. is = was
      <3> HIDE DEF was, is
      <3> QED
        BY <1>3, <1>4, <1>5
    <2>2. e.folders[f] = c.folders[f]
      <3>1. CASE Listed(e, s) /\ Listed(c, s)
        BY <3>1 DEF CountedWith
      <3>2. CASE ~Listed(e, s) /\ ~Listed(c, s)
        BY <3>2
      <3>3. CASE Listed(e, s) /\ ~Listed(c, s)
        <4>1. f \notin FoldersOf[s]
          BY <1>4, <1>5, <3>3
        <4> QED
          BY <3>3, <4>1 DEF CountedWith, Counted
      <3>4. CASE ~Listed(e, s) /\ Listed(c, s)
        <4>1. f \notin FoldersOf[s]
          BY <1>4, <1>5, <3>4
        <4> QED
          BY <3>4, <4>1 DEF Discounted
      <3> QED
        BY <3>1, <3>2, <3>3, <3>4
    <2> QED
      BY <1>2, <2>1, <2>2
  <1>6. CASE s \notin was /\ s \in is
    <2>1. is = was \cup {s}
      <3> HIDE DEF was, is
      <3> QED
        BY <1>3, <1>4, <1>6
    <2>2. e.folders[f] = c.folders[f] + 1
      BY <1>4, <1>6 DEF CountedWith, Counted
    <2>3. Cardinality(was \cup {s}) = Cardinality(was) + 1
      <3> HIDE DEF was, is
      <3> QED
        BY <1>1, <1>6, FS_AddElement
    <2> QED
      BY <1>2, <2>1, <2>2, <2>3
  <1>7. CASE s \in was /\ s \notin is
    <2>1. is = was \ {s}
      <3> HIDE DEF was, is
      <3> QED
        BY <1>3, <1>4, <1>7
    <2>2. Cardinality(was) > 0
      <3> HIDE DEF was, is
      <3> QED
        BY <1>1, <1>7, FS_EmptySet
    <2>3. e.folders[f] = c.folders[f] - 1
      BY <1>2, <1>4, <1>7, <2>2 DEF Discounted
    <2>4. Cardinality(was \ {s}) = Cardinality(was) - 1
      <3> HIDE DEF was, is
      <3> QED
        BY <1>1, <1>7, FS_RemoveElement
    <2> QED
      BY <1>2, <2>1, <2>3, <2>4
  <1> QED
    BY <1>5, <1>6, <1>7

LEMMA FoldersTyped ==
    ASSUME NEW c \in Catalogs, NEW s \in Sources
    PROVE  /\ CountedWith(c, s) \in [Folders -> Nat]
           /\ Discounted(c, s) \in [Folders -> Nat]
  <1>1. \A f \in Folders : c.folders[f] \in Nat
    BY DEF Catalogs
  <1>2. Counted(c, s) \in [Folders -> Nat]
    BY <1>1 DEF Counted
  <1>3. Discounted(c, s) \in [Folders -> Nat]
    BY <1>1 DEF Discounted
  <1> QED
    BY <1>2, <1>3 DEF CountedWith, Catalogs

(* What apply_agent_page() does with one delta. *)
LEMMA ApplyEffect ==
    ASSUME NEW c \in Catalogs, NEW d \in Deltas
    PROVE  \/ ApplyDelta(c, d) = c /\ Done(c, d)
           \/ \E e \in Catalogs :
                 /\ ApplyDelta(c, d) = e
                 /\ \A t \in Sources \ {d.source} : e.items[t] = c.items[t]
                 /\ e.items[d.source].revision = d.revision
                 /\ c.items[d.source].revision < d.revision
                 /\ Listed(e, d.source) <=> ~d.removed
                 /\ ~d.removed => e.items[d.source].content = d.content
                 /\ Listed(e, d.source) => e.folders = CountedWith(c, d.source)
                 /\ ~Listed(e, d.source) =>
                       e.folders = IF Listed(c, d.source) THEN Discounted(c, d.source)
                                                          ELSE c.folders
                 /\ e.variants = IF d.removed THEN c.variants \ {d.source}
                                              ELSE c.variants \cup {d.source}
  <1> DEFINE s == d.source
  <1>1. /\ s \in Sources /\ d.revision \in Nat \ {0} /\ d.content \in Contents
        /\ d.removed \in BOOLEAN
        /\ c.items \in [Sources -> ItemRows] /\ c.items[s] \in ItemRows
        /\ c.items[s].revision \in Nat
        /\ c.variants \in SUBSET Sources /\ c.folders \in [Folders -> Nat]
    BY DEF Catalogs, ItemRows, Deltas
  <1>2. CASE Stale(c, d)
    BY <1>2 DEF Stale, ApplyDelta, Done
  <1>3. CASE ~Stale(c, d) /\ d.removed /\ c.items[s].revision = 0
    BY <1>3 DEF ApplyDelta, ApplyRemoved, Done
  <1>4. CASE ~Stale(c, d) /\ d.removed /\ c.items[s].revision # 0
    <2> DEFINE row == [c.items[s] EXCEPT !.missing = TRUE, !.revision = d.revision]
               e == [items    |-> [c.items EXCEPT ![s] = row],
                     folders  |-> IF Listed(c, s) THEN Discounted(c, s) ELSE c.folders,
                     variants |-> c.variants \ {s}]
    <2>1. row \in ItemRows /\ row.missing = TRUE /\ row.revision = d.revision
      BY <1>1 DEF ItemRows
    <2>2. ApplyDelta(c, d) = e
      <3>1. [c.items EXCEPT ![s].missing = TRUE, ![s].revision = d.revision]
              = [c.items EXCEPT ![s] = row]
        BY <1>1 DEF ItemRows
      <3>2. ApplyDelta(c, d) = ApplyRemoved(c, d)
        BY <1>4 DEF ApplyDelta
      <3> QED
        BY <1>4, <3>1, <3>2 DEF ApplyRemoved, PlayableWithout
    <2> HIDE DEF row
    <2>3. e.items \in [Sources -> ItemRows] /\ e.items[s] = row
      BY <1>1, <2>1
    <2>4. e \in Catalogs
      BY <1>1, <2>3, FoldersTyped DEF Catalogs
    <2>5. ~Listed(e, s)
      BY <2>1, <2>3 DEF Listed
    <2>6. c.items[s].revision < d.revision
      BY <1>1, <1>4 DEF Stale
    <2>7. /\ \A t \in Sources \ {s} : e.items[t] = c.items[t]
          /\ e.folders = IF Listed(c, s) THEN Discounted(c, s) ELSE c.folders
          /\ e.variants = c.variants \ {s}
      BY <1>1
    <2> HIDE DEF e
    <2> QED
      BY <1>4, <2>1, <2>2, <2>3, <2>4, <2>5, <2>6, <2>7
  <1>5. CASE ~Stale(c, d) /\ ~d.removed
    <2> DEFINE row == [revision |-> d.revision, missing |-> FALSE, content |-> d.content]
               e == [items    |-> [c.items EXCEPT ![s] = row],
                     folders  |-> CountedWith(c, s),
                     variants |-> c.variants \cup {s}]
    <2>1. /\ row \in ItemRows /\ row.missing = FALSE /\ row.revision = d.revision
          /\ row.content = d.content
      BY <1>1 DEF ItemRows
    <2>2. ApplyDelta(c, d) = e
      BY <1>5 DEF ApplyDelta, ApplyUpsert
    <2> HIDE DEF row
    <2>3. e.items \in [Sources -> ItemRows] /\ e.items[s] = row
      BY <1>1, <2>1
    <2>4. e \in Catalogs
      BY <1>1, <2>3, FoldersTyped DEF Catalogs
    <2>5. Listed(e, s)
      BY <1>1, <2>1, <2>3 DEF Listed
    <2>6. c.items[s].revision < d.revision
      BY <1>1, <1>5 DEF Stale
    <2>7. /\ \A t \in Sources \ {s} : e.items[t] = c.items[t]
          /\ e.folders = CountedWith(c, s)
          /\ e.variants = c.variants \cup {s}
      BY <1>1
    <2> HIDE DEF e
    <2> QED
      BY <1>5, <2>1, <2>2, <2>3, <2>4, <2>5, <2>6, <2>7
  <1> QED
    BY <1>2, <1>3, <1>4, <1>5

(* A delta of the journal keeps a catalog consistent, brings nothing back to
   what the agent no longer says, and is done with. *)
LEMMA ApplyKeeps ==
    ASSUME JournalTrue, catalog \in Catalogs,
           NEW c, Consistent(c), CaughtUp(c), NEW d \in Deltas, Honest(d)
    PROVE  /\ Consistent(ApplyDelta(c, d))
           /\ CaughtUp(ApplyDelta(c, d))
           /\ Done(ApplyDelta(c, d), d)
           /\ \A t \in Sources \ {d.source} : ApplyDelta(c, d).items[t] = c.items[t]
  <1>1. c \in Catalogs
    BY DEF Consistent
  <1>2. CASE ApplyDelta(c, d) = c /\ Done(c, d)
    BY <1>2
  <1>3. ASSUME NEW e \in Catalogs,
               ApplyDelta(c, d) = e,
               \A t \in Sources \ {d.source} : e.items[t] = c.items[t],
               e.items[d.source].revision = d.revision,
               c.items[d.source].revision < d.revision,
               Listed(e, d.source) <=> ~d.removed,
               ~d.removed => e.items[d.source].content = d.content,
               Listed(e, d.source) => e.folders = CountedWith(c, d.source),
               ~Listed(e, d.source) =>
                   e.folders = IF Listed(c, d.source) THEN Discounted(c, d.source)
                                                      ELSE c.folders,
               e.variants = IF d.removed THEN c.variants \ {d.source}
                                         ELSE c.variants \cup {d.source}
        PROVE  /\ Consistent(e)
               /\ CaughtUp(e)
               /\ Done(e, d)
    <2>1. /\ d.source \in Sources /\ d.content \in Contents /\ d.revision \in Nat
          /\ \A s \in Sources : c.items[s].revision \in Nat /\ catalog.items[s].revision \in Nat
      BY <1>1 DEF Deltas, Catalogs, ItemRows
    <2>2. \A t \in Sources \ {d.source} : /\ Listed(e, t) <=> Listed(c, t)
                                          /\ Displayed(e, t) = Displayed(c, t)
      BY <1>3 DEF Listed, Displayed
    <2>3. FoldersCount(e)
      BY <1>1, <1>3, <2>1, <2>2, CountsFollow DEF Consistent
    <2>4. \A s \in Sources : Listed(e, s) => e.items[s].content \in Contents
      BY <1>3, <2>1, <2>2 DEF Consistent
    <2>5. ~retired => e.variants = {s \in Sources : Listed(e, s)}
      BY <1>3, <2>1, <2>2 DEF Consistent
    <2>6. Displayed(e, d.source) = Told(d)
      BY <1>3 DEF Displayed, Told
    <2>7. CaughtUp(e)
      <3> SUFFICES ASSUME NEW s \in Sources
                   PROVE  \/ e.items[s] = catalog.items[s]
                          \/ /\ e.items[s].revision > catalog.items[s].revision
                             /\ e.items[s].revision <= sources[s].revision
                             /\ Displayed(e, s) = history[s][e.items[s].revision]
        BY DEF CaughtUp
      <3>1. CASE s = d.source
        <4>1. c.items[s].revision >= catalog.items[s].revision
          BY <2>1 DEF CaughtUp
        <4> QED
          BY <1>3, <2>1, <2>6, <3>1, <4>1 DEF Honest
      <3>2. CASE s # d.source
        BY <1>3, <2>2, <3>2 DEF CaughtUp
      <3> QED
        BY <3>1, <3>2
    <2>8. Done(e, d)
      BY <1>3, <2>1 DEF Done
    <2> QED
      BY <2>3, <2>4, <2>5, <2>7, <2>8 DEF Consistent
  <1> QED
    BY <1>1, <1>2, <1>3, ApplyEffect

-----------------------------------------------------------------------------
(* What a page makes of the catalog *)

(* The catalog is not ahead of the agent. *)
Bounded(c) == \A s \in Sources : c.items[s].revision <= sources[s].revision

(* What it shows is what the agent said at the revision it claims. *)
Faithful(c) ==
    \A s \in Sources :
        c.items[s].revision > 0 => Displayed(c, s) = history[s][c.items[s].revision]

CatalogOK ==
    /\ Consistent(catalog)
    /\ Bounded(catalog)
    /\ ~retired => Faithful(catalog)

ReflectedIn(c, s) ==
    IF sources[s].present
    THEN Listed(c, s) /\ c.items[s].revision = sources[s].revision
    ELSE ~Listed(c, s)

(* There is nothing more to say of a source. *)
SettledIn(c, s) ==
    \/ c.items[s].revision = sources[s].revision
    \/ ~sources[s].present /\ c.items[s].revision = 0

LEMMA SettledReflects ==
    ASSUME JournalTrue, NEW c, Consistent(c), Faithful(c), NEW s \in Sources, SettledIn(c, s)
    PROVE  ReflectedIn(c, s)
  <1>1. c.items[s].revision \in Nat /\ sources[s].revision \in Nat
    BY DEF Consistent, Catalogs, ItemRows, JournalTrue, JournalInvariant, JournalTyped,
           JournalTypeOK, SourceRows
  <1>2. CASE c.items[s].revision = 0
    BY <1>2 DEF SettledIn, ReflectedIn, Listed, JournalTrue, Remembered
  <1>3. CASE c.items[s].revision # 0
    <2>1. /\ c.items[s].revision = sources[s].revision /\ sources[s].revision > 0
          /\ c.items[s].revision > 0
      BY <1>1, <1>3 DEF SettledIn
    <2>2. Displayed(c, s) = Shown(sources[s]) /\ sources[s].content \in Contents
      BY <2>1 DEF Faithful, JournalTrue, Remembered
    <2>3. Listed(c, s) => c.items[s].content \in Contents
      BY DEF Consistent
    <2>4. CASE sources[s].present
      <3>1. Displayed(c, s) # NoContent
        BY <2>2, <2>4, NoContentAssumption DEF Shown
      <3> QED
        BY <2>1, <2>4, <3>1 DEF ReflectedIn, Displayed
    <2>5. CASE ~sources[s].present
      <3>1. Displayed(c, s) = NoContent
        BY <2>2, <2>5 DEF Shown
      <3> QED
        BY <2>3, <2>5, <3>1, NoContentAssumption DEF ReflectedIn, Displayed
    <2> QED
      BY <2>4, <2>5
  <1> QED
    BY <1>2, <1>3

LEMMA CaughtUpIsOK ==
    ASSUME JournalTrue, CatalogOK, NEW c, Consistent(c), CaughtUp(c)
    PROVE  Bounded(c) /\ (~retired => Faithful(c))
  <1>1. Bounded(c)
    BY DEF CatalogOK, Bounded, CaughtUp
  <1>2. ASSUME ~retired, NEW s \in Sources, c.items[s].revision > 0
        PROVE  Displayed(c, s) = history[s][c.items[s].revision]
    <2>1. CASE c.items[s] = catalog.items[s]
      BY <1>2, <2>1 DEF CatalogOK, Faithful, Displayed, Listed
    <2>2. CASE c.items[s] # catalog.items[s]
      BY <2>2 DEF CaughtUp
    <2> QED
      BY <2>1, <2>2
  <1> QED
    BY <1>1, <1>2 DEF Faithful

(* What a page is made of. *)
RowsTrue(rows) ==
    /\ rows \subseteq Deltas
    /\ \A d \in rows : Honest(d)
    /\ \A d, e \in rows : d.sequence = e.sequence => d = e

LEMMA PageKeeps ==
    ASSUME JournalTrue, CatalogOK, NEW rows, RowsTrue(rows)
    PROVE  Consistent(Applied(rows)) /\ CaughtUp(Applied(rows))
  <1> DEFINE S == {c \in Catalogs : Consistent(c) /\ CaughtUp(c)}
             T == [q \in 0 .. MaxSequence |-> S]
  <1>1. MaxSequence \in Nat /\ catalog \in Catalogs
    BY MaxSequenceAssumption DEF CatalogOK, Consistent
  <1>2. catalog \in S
    BY <1>1 DEF CatalogOK, CaughtUp
  <1>3. ASSUME NEW c \in S, NEW d \in rows PROVE ApplyDelta(c, d) \in S
    BY <1>1, <1>3, ApplyKeeps DEF RowsTrue, Consistent
  <1>4. \A q \in 0 .. MaxSequence : T[q] = S
    OBVIOUS
  <1>5. Applied(rows) \in T[MaxSequence]
    <2>1. catalog \in T[0]
      BY <1>1, <1>2, <1>4
    <2>2. ASSUME NEW q \in 1 .. MaxSequence, NEW c \in T[q - 1]
          PROVE  /\ \A d \in rows : d.sequence = q => ApplyDelta(c, d) \in T[q]
                 /\ (\A d \in rows : d.sequence # q) => c \in T[q]
      <3>1. q \in 0 .. MaxSequence /\ q - 1 \in 0 .. MaxSequence
        BY <1>1
      <3>2. T[q] = S /\ T[q - 1] = S
        BY <1>4, <3>1
      <3> HIDE DEF T, S
      <3> QED
        BY <1>3, <3>2
    <2> HIDE DEF T, S
    <2> QED
      BY <2>1, <2>2, AppliedThrough
  <1>6. Applied(rows) \in S
    BY <1>1, <1>4, <1>5
  <1> QED
    BY <1>6

(* The page after a cursor, as it stands when its rows were read: nothing of
   it is overtaken by what the cursor has passed, ... *)
RowsAhead(cursor, next, rows) ==
    \A r \in rows :
        /\ cursor < r.sequence /\ r.sequence <= next
        /\ \E e \in deltas : e.source = r.source /\ e.sequence >= r.sequence

(* ... and the newest deltas up to the next cursor are all in it. *)
RowsCover(cursor, next, rows) ==
    \A d \in deltas :
        ~Superseded(d) /\ cursor < d.sequence /\ d.sequence <= next =>
            \E r \in rows : Same(r, d)

(* What a cursor has passed is in the catalog. *)
Passed(q) == \A d \in deltas : ~Superseded(d) /\ d.sequence <= q => Reflects(d.source)

LEMMA PagePasses ==
    ASSUME JournalTrue, CatalogOK, ~retired,
           NEW cursor \in Nat, NEW next \in Nat, NEW rows, RowsTrue(rows),
           RowsAhead(cursor, next, rows), RowsCover(cursor, next, rows),
           Passed(cursor), NEW d \in deltas, ~Superseded(d), d.sequence <= next
    PROVE  ReflectedIn(Applied(rows), d.source)
  <1> DEFINE s == d.source
             after == Applied(rows)
  <1>1. MaxSequence \in Nat /\ catalog \in Catalogs
    BY MaxSequenceAssumption DEF CatalogOK, Consistent
  <1>2. /\ s \in Sources /\ d.sequence \in Nat \ {0}
        /\ sources[s].revision \in Nat /\ d.revision = sources[s].revision
        /\ d.removed = ~sources[s].present
        /\ d.sequence \in 1 .. MaxSequence
    <2>1. s \in Sources /\ d.sequence \in Nat \ {0} /\ d.sequence <= sequence
      BY DEF JournalTrue, JournalInvariant, JournalTyped, JournalTypeOK, Unambiguous, Deltas
    <2>2. sources[s].revision \in Nat /\ sequence \in 0 .. MaxSequence
      BY <2>1 DEF JournalTrue, JournalInvariant, JournalTyped, JournalTypeOK, SourceRows
    <2>3. d.revision = sources[s].revision /\ d.removed = ~sources[s].present
      BY NewestAnnounces
    <2> QED
      BY <1>1, <2>1, <2>2, <2>3
  <1>3. Consistent(after) /\ CaughtUp(after) /\ Bounded(after) /\ Faithful(after)
    BY PageKeeps, CaughtUpIsOK
  <1>4. \A r \in rows : /\ r \in Deltas /\ Honest(r) /\ r.sequence \in Nat
                        /\ r.source = s => r.sequence <= d.sequence
    <2> SUFFICES ASSUME NEW r \in rows
                 PROVE  /\ r \in Deltas /\ Honest(r) /\ r.sequence \in Nat
                        /\ r.source = s => r.sequence <= d.sequence
      OBVIOUS
    <2>1. r \in Deltas /\ Honest(r) /\ r.sequence \in Nat
      BY DEF RowsTrue, Deltas
    <2>2. PICK e \in deltas : e.source = r.source /\ e.sequence >= r.sequence
      BY DEF RowsAhead
    <2>3. e.sequence \in Nat
      BY DEF JournalTrue, JournalInvariant, JournalTyped, JournalTypeOK, Deltas
    <2>4. e.source = s => ~(e.sequence > d.sequence)
      BY DEF Superseded
    <2> QED
      BY <1>2, <2>1, <2>2, <2>3, <2>4
  <1>5. CASE d.sequence <= cursor
    <2> DEFINE S == {c \in Catalogs : /\ Consistent(c) /\ CaughtUp(c)
                                      /\ c.items[s] = catalog.items[s]}
               T == [q \in 0 .. MaxSequence |-> S]
    <2>1. catalog \in S
      BY <1>1 DEF CatalogOK, CaughtUp
    <2>2. \A r \in rows : r.source # s
      BY <1>2, <1>4, <1>5 DEF RowsAhead
    <2>3. ASSUME NEW c \in S, NEW r \in rows PROVE ApplyDelta(c, r) \in S
      BY <1>1, <1>2, <1>4, <2>2, <2>3, ApplyKeeps DEF Consistent
    <2>4. \A q \in 0 .. MaxSequence : T[q] = S
      OBVIOUS
    <2>5. after \in T[MaxSequence]
      <3>1. catalog \in T[0]
        BY <1>1, <2>1, <2>4
      <3>2. ASSUME NEW q \in 1 .. MaxSequence, NEW c \in T[q - 1]
            PROVE  /\ \A r \in rows : r.sequence = q => ApplyDelta(c, r) \in T[q]
                   /\ (\A r \in rows : r.sequence # q) => c \in T[q]
        <4>1. q \in 0 .. MaxSequence /\ q - 1 \in 0 .. MaxSequence
          BY <1>1
        <4>2. T[q] = S /\ T[q - 1] = S
          BY <2>4, <4>1
        <4> HIDE DEF T, S
        <4> QED
          BY <2>3, <4>2
      <3> HIDE DEF T, S
      <3> QED
        BY <3>1, <3>2, AppliedThrough
    <2>6. after.items[s] = catalog.items[s]
      BY <1>1, <2>4, <2>5
    <2>7. Reflects(s)
      BY <1>5 DEF Passed
    <2> QED
      BY <2>6, <2>7 DEF Reflects, ReflectedIn, Listed
  <1>6. CASE ~(d.sequence <= cursor)
    <2>1. PICK r \in rows : Same(r, d)
      BY <1>2, <1>6 DEF RowsCover
    <2> DEFINE S(q) == {c \in Catalogs : /\ Consistent(c) /\ CaughtUp(c)
                                         /\ q >= d.sequence => SettledIn(c, s)}
               T == [q \in 0 .. MaxSequence |-> S(q)]
    <2>2. \A q \in 0 .. MaxSequence : T[q] = S(q)
      OBVIOUS
    <2>3. catalog \in S(0)
      BY <1>1, <1>2 DEF CatalogOK, CaughtUp
    <2>4. ASSUME NEW q \in 1 .. MaxSequence, NEW c \in S(q - 1), NEW x \in rows,
                 x.sequence = q
          PROVE  ApplyDelta(c, x) \in S(q)
      <3> DEFINE e == ApplyDelta(c, x)
      <3>1. /\ Consistent(e) /\ CaughtUp(e) /\ Done(e, x) /\ e \in Catalogs
            /\ \A t \in Sources \ {x.source} : e.items[t] = c.items[t]
        BY <1>1, <1>4, ApplyKeeps DEF Consistent
      <3>2. Bounded(e) /\ e.items[s].revision \in Nat
        BY <1>2, <3>1, CaughtUpIsOK DEF Catalogs, ItemRows
      <3>3. ASSUME q >= d.sequence PROVE SettledIn(e, s)
        <4>1. CASE x.source = s
          <5>1. x = r
            <6>1. x.sequence = d.sequence
              BY <1>1, <1>2, <1>4, <2>4, <3>3, <4>1
            <6> QED
              BY <2>1, <6>1 DEF Same, RowsTrue
          <5>2. \/ e.items[s].revision >= sources[s].revision
                \/ ~sources[s].present /\ e.items[s].revision = 0
            BY <1>2, <2>1, <3>1, <4>1, <5>1 DEF Done, Same
          <5> HIDE DEF e
          <5> QED
            BY <1>2, <3>2, <5>2 DEF Bounded, SettledIn
        <4>2. CASE x.source # s
          <5>1. q # d.sequence
            <6>1. x # r
              BY <2>1, <4>2 DEF Same
            <6> QED
              BY <2>1, <2>4, <6>1 DEF Same, RowsTrue
          <5>2. q - 1 >= d.sequence
            BY <1>1, <1>2, <3>3, <5>1
          <5>3. SettledIn(c, s)
            BY <2>4, <5>2
          <5>4. e.items[s] = c.items[s]
            BY <1>2, <3>1, <4>2
          <5> QED
            BY <5>3, <5>4 DEF SettledIn
        <4> QED
          BY <4>1, <4>2
      <3> QED
        BY <3>1, <3>3
    <2>5. ASSUME NEW q \in 1 .. MaxSequence, NEW c \in S(q - 1),
                 \A x \in rows : x.sequence # q
          PROVE  c \in S(q)
      <3>1. q # d.sequence
        BY <2>1, <2>5 DEF Same
      <3>2. q >= d.sequence => q - 1 >= d.sequence
        BY <1>1, <1>2, <3>1
      <3> QED
        BY <2>5, <3>2
    <2>6. after \in T[MaxSequence]
      <3>1. catalog \in T[0]
        BY <1>1, <2>2, <2>3
      <3>2. ASSUME NEW q \in 1 .. MaxSequence, NEW c \in T[q - 1]
            PROVE  /\ \A x \in rows : x.sequence = q => ApplyDelta(c, x) \in T[q]
                   /\ (\A x \in rows : x.sequence # q) => c \in T[q]
        <4>1. q \in 0 .. MaxSequence /\ q - 1 \in 0 .. MaxSequence
          BY <1>1
        <4>2. T[q] = S(q) /\ T[q - 1] = S(q - 1)
          BY <2>2, <4>1
        <4> HIDE DEF T, S
        <4> QED
          BY <2>4, <2>5, <4>2
      <3> HIDE DEF T, S
      <3> QED
        BY <3>1, <3>2, AppliedThrough
    <2>7. after \in S(MaxSequence)
      BY <1>1, <2>2, <2>6
    <2>8. SettledIn(after, s)
      BY <1>1, <1>2, <2>7
    <2> QED
      BY <1>2, <1>3, <2>8, SettledReflects
  <1> QED
    BY <1>5, <1>6

-----------------------------------------------------------------------------
(* What a page holds when it is read *)

(* The next cursor is that of the last row. *)
LEMMA NextCursorIs ==
    ASSUME JournalTrue, NEW cursor \in Nat, NEW rows, rows \subseteq deltas
    PROVE  /\ NextCursor(cursor, rows) \in Nat
           /\ cursor <= sequence => NextCursor(cursor, rows) <= sequence
           /\ \A d \in rows : d.sequence <= NextCursor(cursor, rows)
           /\ rows = {} => NextCursor(cursor, rows) = cursor
           /\ rows # {} => \E d \in rows : d.sequence = NextCursor(cursor, rows)
  <1>1. sequence \in Nat /\ \A d \in rows : d.sequence \in Nat \ {0} /\ d.sequence <= sequence
    BY DEF JournalTrue, JournalInvariant, JournalTyped, JournalTypeOK, Unambiguous, Deltas
  <1>2. CASE rows = {}
    BY <1>2 DEF NextCursor
  <1>3. CASE rows # {}
    <2> DEFINE Above == {q \in Nat : \A d \in rows : d.sequence <= q}
               Numbers == {d.sequence : d \in rows}
    <2>1. PICK m \in Above : \A n \in Above : m <= n
      <3>1. Above \in SUBSET Nat /\ Above # {}
        BY <1>1
      <3> HIDE DEF Above
      <3> QED
        BY <3>1, LeastNumber
    <2>2. \E d \in rows : d.sequence = m
      <3> SUFFICES ASSUME \A d \in rows : d.sequence # m PROVE FALSE
        OBVIOUS
      <3>1. \A d \in rows : d.sequence <= m - 1
        BY <1>1, <2>1
      <3>2. m - 1 \in Nat
        BY <1>1, <1>3, <2>1
      <3>3. m - 1 \in Above
        BY <3>1, <3>2
      <3> QED
        BY <2>1, <3>3
    <2>3. m \in Numbers /\ \A d \in rows : d.sequence <= m
      BY <2>1, <2>2
    <2>4. /\ NextCursor(cursor, rows) \in Numbers
          /\ \A d \in rows : d.sequence <= NextCursor(cursor, rows)
      BY <1>3, <2>3 DEF NextCursor
    <2> HIDE DEF Numbers
    <2>5. \E d \in rows : d.sequence = NextCursor(cursor, rows)
      BY <2>4 DEF Numbers
    <2> QED
      BY <1>1, <1>3, <2>4, <2>5
  <1> QED
    BY <1>2, <1>3

LEMMA PageReads ==
    ASSUME JournalTrue, NEW cursor \in Nat, cursor <= sequence, NEW limit \in Nat
    PROVE  LET rows == Page(cursor, limit)
               next == NextCursor(cursor, rows)
           IN  /\ rows \subseteq deltas /\ RowsTrue(rows)
               /\ next \in Nat /\ next <= sequence
               /\ RowsAhead(cursor, next, rows)
               /\ RowsCover(cursor, next, rows)
  <1> DEFINE rows == Page(cursor, limit)
             next == NextCursor(cursor, rows)
             UpTo(q) == {e \in After(cursor) : e.sequence <= q}
  <1>1. rows \subseteq deltas
    BY DEF Page, After
  <1>2. RowsTrue(rows)
    BY <1>1 DEF RowsTrue, JournalTrue, JournalInvariant, JournalTyped, JournalTypeOK, Unambiguous
  <1>3. \A d \in deltas : d.sequence \in Nat
    BY DEF JournalTrue, JournalInvariant, JournalTyped, JournalTypeOK, Deltas
  <1>4. /\ next \in Nat /\ next <= sequence
        /\ \A d \in rows : d.sequence <= next
        /\ rows = {} => next = cursor
        /\ rows # {} => \E d \in rows : d.sequence = next
    <2> HIDE DEF rows
    <2> QED
      BY <1>1, NextCursorIs
  <1>5. RowsAhead(cursor, next, rows)
    <2>1. ASSUME NEW r \in rows
          PROVE  /\ cursor < r.sequence
                 /\ \E e \in deltas : e.source = r.source /\ e.sequence >= r.sequence
      <3>1. r \in deltas /\ r.sequence > cursor /\ r.sequence \in Nat
        BY <1>1, <1>3 DEF Page, After
      <3> QED
        BY <3>1
    <2> HIDE DEF rows, next
    <2> QED
      BY <1>4, <2>1 DEF RowsAhead
  <1>6. ASSUME NEW d \in deltas, cursor < d.sequence, d.sequence <= next
        PROVE  d \in rows
    <2>1. rows # {}
      <3> HIDE DEF rows, next
      <3> QED
        BY <1>3, <1>4, <1>6
    <2>2. PICK r \in rows : r.sequence = next
      <3> HIDE DEF rows, next
      <3> QED
        BY <1>4, <2>1
    <2>3. r.sequence \in Nat /\ d.sequence \in Nat /\ d.sequence <= r.sequence
      <3> HIDE DEF rows, next
      <3> QED
        BY <1>1, <1>3, <1>6, <2>2
    <2>4. Cardinality(UpTo(r.sequence)) <= limit
      BY <2>2 DEF Page
    <2>5. IsFiniteSet(UpTo(r.sequence))
      <3> DEFINE Q == {e.sequence : e \in UpTo(r.sequence)}
      <3>1. IsFiniteSet(Q)
        <4>1. Q \in SUBSET Nat /\ \A q \in Q : q <= r.sequence
          BY <1>3 DEF After
        <4> HIDE DEF Q
        <4> QED
          BY <2>3, <4>1, FS_BoundedSetOfNaturals
      <3> DEFINE f == [q \in Q |-> CHOOSE e \in UpTo(r.sequence) : e.sequence = q]
      <3>2. f \in Surjection(Q, UpTo(r.sequence))
        <4>1. ASSUME NEW e \in UpTo(r.sequence) PROVE e.sequence \in Q /\ f[e.sequence] = e
          <5>1. \A x \in UpTo(r.sequence) : x.sequence = e.sequence => x = e
            BY DEF After, JournalTrue, JournalInvariant, Unambiguous
          <5> QED
            BY <5>1
        <4>2. f \in [Q -> UpTo(r.sequence)]
          BY <4>1
        <4> HIDE DEF f, Q
        <4> QED
          BY <4>1, <4>2 DEF Surjection
      <3> HIDE DEF f, Q
      <3> QED
        BY <3>1, <3>2, FS_Surjection
    <2>6. UpTo(d.sequence) \in SUBSET UpTo(r.sequence)
      BY <1>3, <2>3 DEF After
    <2>7. /\ Cardinality(UpTo(d.sequence)) <= Cardinality(UpTo(r.sequence))
          /\ Cardinality(UpTo(d.sequence)) \in Nat /\ Cardinality(UpTo(r.sequence)) \in Nat
      <3> HIDE DEF UpTo
      <3> QED
        BY <2>5, <2>6, FS_Subset, FS_CardinalityType
    <2>8. Cardinality(UpTo(d.sequence)) <= limit
      <3> HIDE DEF UpTo
      <3> QED
        BY <2>4, <2>7
    <2>9. d \in After(cursor)
      BY <1>3, <1>6 DEF After
    <2> QED
      BY <2>8, <2>9 DEF Page
  <1>7. RowsCover(cursor, next, rows)
    <2> HIDE DEF rows, next
    <2> QED
      BY <1>6 DEF RowsCover, Same
  <1> HIDE DEF rows, next
  <1>8. /\ rows \subseteq deltas /\ RowsTrue(rows)
        /\ next \in Nat /\ next <= sequence
        /\ RowsAhead(cursor, next, rows)
        /\ RowsCover(cursor, next, rows)
    BY <1>1, <1>2, <1>4, <1>5, <1>7
  <1> QED
    BY <1>8 DEF rows, next

(* The second read of a pull drops the rows it cannot expand any more, which
   were superseded, and expands the others to what they told. *)
LEMMA ExpandedTells ==
    ASSUME JournalTrue, NEW rows, RowsTrue(rows)
    PROVE  /\ RowsTrue(Expanded(rows))
           /\ \A x \in Expanded(rows) : \E d \in rows : Same(x, d)
           /\ \A d \in rows : Readable(d) => \E x \in Expanded(rows) : Same(x, d)
  <1> DEFINE Copy(d) == [d EXCEPT !.content = IF d.reference THEN sources[d.source].content
                                                             ELSE @,
                                  !.reference = FALSE]
  <1>1. Expanded(rows) = {Copy(d) : d \in {e \in rows : Readable(e)}}
    BY DEF Expanded
  <1>2. ASSUME NEW d \in rows, Readable(d)
        PROVE  Copy(d) \in Deltas /\ Same(Copy(d), d) /\ Honest(Copy(d))
    <2>1. d \in Deltas /\ Honest(d)
      BY DEF RowsTrue
    <2>2. /\ d.sequence \in Nat \ {0} /\ d.source \in Sources /\ d.revision \in Nat \ {0}
          /\ d.removed \in BOOLEAN /\ d.content \in Contents
      BY <2>1 DEF Deltas
    <2>3. ASSUME d.reference
          PROVE  /\ sources[d.source].content \in Contents
                 /\ ~d.removed => sources[d.source].content = d.content
      <3>1. sources[d.source].revision = d.revision /\ d.revision > 0
        BY <1>2, <2>2, <2>3 DEF Readable
      <3>2. /\ sources[d.source].content \in Contents
            /\ history[d.source][d.revision] = Shown(sources[d.source])
        BY <2>2, <3>1 DEF JournalTrue, Remembered
      <3>3. Told(d) = Shown(sources[d.source])
        BY <2>1, <3>2 DEF Honest
      <3> QED
        BY <2>2, <3>2, <3>3, NoContentAssumption DEF Told, Shown
    <2>4. Copy(d) \in Deltas
      <3> DEFINE c == IF d.reference THEN sources[d.source].content ELSE d.content
      <3>1. c \in Contents
        BY <2>2, <2>3
      <3>2. Copy(d) = [d EXCEPT !.content = c, !.reference = FALSE]
        BY <2>1 DEF Deltas
      <3> HIDE DEF c
      <3> QED
        BY <2>1, <3>1, <3>2 DEF Deltas
    <2>5. /\ Copy(d).sequence = d.sequence /\ Copy(d).source = d.source
          /\ Copy(d).revision = d.revision /\ Copy(d).removed = d.removed
      BY <2>1 DEF Deltas
    <2>6. Copy(d).content = IF d.reference THEN sources[d.source].content ELSE d.content
      BY <2>1 DEF Deltas
    <2> HIDE DEF Copy
    <2>7. Told(Copy(d)) = Told(d)
      BY <2>3, <2>5, <2>6 DEF Told
    <2> QED
      BY <2>1, <2>4, <2>5, <2>7 DEF Same, Honest
  <1> HIDE DEF Copy
  <1>3. \A x \in Expanded(rows) : \E d \in rows : Readable(d) /\ x = Copy(d)
    BY <1>1
  <1>4. \A x, y \in Expanded(rows) : x.sequence = y.sequence => x = y
    <2> SUFFICES ASSUME NEW x \in Expanded(rows), NEW y \in Expanded(rows),
                        x.sequence = y.sequence
                 PROVE  x = y
      OBVIOUS
    <2>1. PICK d \in rows : Readable(d) /\ x = Copy(d)
      BY <1>3
    <2>2. PICK e \in rows : Readable(e) /\ y = Copy(e)
      BY <1>3
    <2>3. d.sequence = e.sequence
      BY <1>2, <2>1, <2>2 DEF Same
    <2> QED
      BY <2>1, <2>2, <2>3 DEF RowsTrue
  <1>5. \A x \in Expanded(rows) : x \in Deltas /\ Honest(x)
    BY <1>2, <1>3
  <1>6. RowsTrue(Expanded(rows))
    BY <1>4, <1>5 DEF RowsTrue
  <1>7. \A x \in Expanded(rows) : \E d \in rows : Same(x, d)
    BY <1>2, <1>3
  <1>8. \A d \in rows : Readable(d) => \E x \in Expanded(rows) : Same(x, d)
    BY <1>1, <1>2
  <1> QED
    BY <1>6, <1>7, <1>8

LEMMA ExpandedReads ==
    ASSUME JournalTrue, NEW cursor \in Nat, NEW next \in Nat, NEW rows, RowsTrue(rows),
           RowsAhead(cursor, next, rows), RowsCover(cursor, next, rows)
    PROVE  /\ RowsTrue(Expanded(rows))
           /\ RowsAhead(cursor, next, Expanded(rows))
           /\ RowsCover(cursor, next, Expanded(rows))
  <1>1. RowsAhead(cursor, next, Expanded(rows))
    BY ExpandedTells DEF RowsAhead, Same
  <1>2. RowsCover(cursor, next, Expanded(rows))
    <2> SUFFICES ASSUME NEW d \in deltas, ~Superseded(d), cursor < d.sequence,
                        d.sequence <= next
                 PROVE  \E x \in Expanded(rows) : Same(x, d)
      BY DEF RowsCover
    <2>1. PICK r \in rows : Same(r, d)
      BY DEF RowsCover
    <2>2. Readable(r)
      BY <2>1, NewestAnnounces DEF Same, Readable
    <2>3. PICK x \in Expanded(rows) : Same(x, r)
      BY <2>2, ExpandedTells
    <2> QED
      BY <2>1, <2>3 DEF Same
  <1> QED
    BY <1>1, <1>2, ExpandedTells

-----------------------------------------------------------------------------
(* The invariant of the synchronisation *)

CursorOK(q) ==
    /\ q <= sequence
    /\ ~retired => Passed(q)

(* A pull knows the deltas its page is made of until it is applied. *)
PullOK(k) ==
    /\ k.phase = "idle" => k.cursor = 0
    /\ k.phase \notin {"rows", "page"} => k.rows = {}
    /\ k.next <= sequence
    /\ CursorOK(k.cursor)
    /\ RowsTrue(k.rows)
    /\ RowsAhead(k.cursor, k.next, k.rows)
    /\ k.phase \in {"rows", "page"} => RowsCover(k.cursor, k.next, k.rows)

(* One pass of the process at a time. *)
OneActive ==
    \A p, q \in Pullers : pulls[p].phase # "idle" /\ pulls[q].phase # "idle" => p = q

SyncInvariant ==
    /\ TypeOK
    /\ JournalTrue
    /\ CatalogOK
    /\ CursorOK(state.cursor)
    /\ OneActive
    /\ \A p \in Pullers : PullOK(pulls[p])

LEMMA NothingPassed ==
    ASSUME JournalTrue
    PROVE  CursorOK(0)
  <1>1. sequence \in Nat /\ \A d \in deltas : d.sequence \in Nat \ {0}
    BY DEF JournalTrue, JournalInvariant, JournalTyped, JournalTypeOK, Deltas
  <1> QED
    BY <1>1 DEF CursorOK, Passed

LEMMA IdleTyped == Idle \in Pulls
  BY PageLimitAssumption DEF Idle, Pulls, Phases

LEMMA IdleOK ==
    ASSUME JournalTrue
    PROVE  PullOK(Idle)
  <1>1. sequence \in Nat
    BY DEF JournalTrue, JournalInvariant, JournalTyped, JournalTypeOK
  <1> QED
    BY <1>1, NothingPassed DEF PullOK, Idle, RowsTrue, RowsAhead

(* A pass that asks has nothing in hand. *)
LEMMA AskOK ==
    ASSUME JournalTrue, NEW k \in Pulls, k.phase \in {"ask", "others"}, k.rows = {},
           k.next = 0, CursorOK(k.cursor)
    PROVE  PullOK(k)
  <1>1. sequence \in Nat
    BY DEF JournalTrue, JournalInvariant, JournalTyped, JournalTypeOK
  <1> QED
    BY <1>1 DEF PullOK, RowsTrue, RowsAhead

LEMMA CursorUnmoved ==
    ASSUME UNCHANGED <<journalVars, catalog, retired>>, NEW q, CursorOK(q)
    PROVE  CursorOK(q)'
  BY DEF journalVars, CursorOK, Passed, Reflects, Listed, Superseded

LEMMA PullUnmoved ==
    ASSUME UNCHANGED <<journalVars, catalog, retired>>, NEW k, PullOK(k)
    PROVE  PullOK(k)'
  BY DEF journalVars, PullOK, CursorOK, Passed, Reflects, Listed, Superseded, RowsTrue,
         RowsAhead, RowsCover, Same, Honest, Told

LEMMA CatalogUnmoved ==
    ASSUME UNCHANGED <<journalVars, catalog, retired>>, CatalogOK
    PROVE  CatalogOK'
  BY DEF journalVars, CatalogOK, Consistent, FoldersCount, ListedIn, Listed, Bounded,
         Faithful, Displayed

LEMMA JournalUnmoved ==
    ASSUME UNCHANGED journalVars, JournalTrue
    PROVE  JournalTrue'
  BY DEF journalVars, JournalTrue, JournalInvariant, JournalTyped, JournalTypeOK, ContentsKnown,
         Unambiguous, DropsSuperseded, Announced, Superseded, Remembered, Shown, Honest, Told

(* A step of one puller that applies nothing. *)
LEMMA PullKeeps ==
    ASSUME SyncInvariant, UNCHANGED <<journalVars, catalog, retired>>,
           NEW p \in Pullers, NEW k \in Pulls, PullOK(k), pulls' = [pulls EXCEPT ![p] = k],
           k.phase = "idle" \/ \A q \in Pullers \ {p} : pulls[q].phase = "idle",
           state' \in StateRows, NEW c, c = state'.cursor, CursorOK(c),
           topology' \in Topologies
    PROVE  SyncInvariant'
  <1>1. JournalTrue'
    BY JournalUnmoved DEF SyncInvariant
  <1>2. CatalogOK'
    BY CatalogUnmoved DEF SyncInvariant
  <1>3. pulls \in [Pullers -> Pulls] /\ pulls' \in [Pullers -> Pulls]
    BY DEF SyncInvariant, TypeOK
  <1>4. TypeOK'
    BY <1>1, <1>3 DEF SyncInvariant, TypeOK, JournalTrue, JournalInvariant, JournalTyped
  <1>5. CursorOK(state.cursor)'
    <2>1. CursorOK(c)'
      BY CursorUnmoved
    <2> QED
      BY <2>1 DEF CursorOK, Passed
  <1>6. OneActive'
    BY <1>3 DEF SyncInvariant, OneActive
  <1>7. ASSUME NEW q \in Pullers PROVE PullOK(pulls[q])'
    <2>1. PICK j : j = pulls'[q]
      OBVIOUS
    <2>2. PullOK(j)
      BY <1>3, <2>1 DEF SyncInvariant
    <2>3. PullOK(j)'
      BY <2>2, PullUnmoved
    <2> QED
      BY <2>1, <2>3 DEF PullOK, CursorOK, RowsTrue, RowsAhead, RowsCover, Passed, Honest, Told
  <1> QED
    BY <1>1, <1>2, <1>4, <1>5, <1>6, <1>7 DEF SyncInvariant

(* What every state row is made of. *)
LEMMA StateTyped ==
    ASSUME SyncInvariant
    PROVE  /\ state \in StateRows /\ state.cursor \in Nat
           /\ state.instance \in Instances \cup {Nowhere}
           /\ Reconciled \in StateRows /\ Reconciled.cursor = state.cursor
           /\ [state EXCEPT !.available = FALSE] \in StateRows
           /\ [state EXCEPT !.available = FALSE].cursor = state.cursor
  <1>1. /\ state \in StateRows /\ state.cursor \in Nat
        /\ state.instance \in Instances \cup {Nowhere}
    BY DEF SyncInvariant, TypeOK, StateRows
  <1>2. /\ [state EXCEPT !.available = FALSE] \in StateRows
        /\ [state EXCEPT !.available = FALSE].cursor = state.cursor
    BY <1>1 DEF StateRows
  <1> QED
    BY <1>1, <1>2 DEF Reconciled

LEMMA Alone ==
    ASSUME SyncInvariant, NEW p \in Pullers, Unlocked \/ pulls[p].phase # "idle"
    PROVE  \A q \in Pullers \ {p} : pulls[q].phase = "idle"
  BY DEF SyncInvariant, OneActive, Unlocked

LEMMA AskTyped ==
    ASSUME NEW i \in Instances \cup {Nowhere}, NEW c \in Nat, NEW l \in 1 .. PageLimit
    PROVE  LET k == [Idle EXCEPT !.phase = "ask", !.instance = i, !.cursor = c, !.limit = l]
           IN  /\ k \in Pulls /\ k.phase = "ask" /\ k.rows = {} /\ k.next = 0
               /\ k.cursor = c
  BY IdleTyped DEF Idle, Pulls, Phases

LEMMA StartTyped ==
    ASSUME NEW i \in Instances \cup {Nowhere}, NEW c \in Nat
    PROVE  LET k == [Idle EXCEPT !.phase = "ask", !.instance = i, !.cursor = c]
           IN  /\ k \in Pulls /\ k.phase = "ask" /\ k.rows = {} /\ k.next = 0
               /\ k.cursor = c
  BY IdleTyped DEF Idle, Pulls, Phases

(* A pass begins. *)
LEMMA BeginKeeps ==
    ASSUME SyncInvariant, UNCHANGED journalVars, NEW p \in Pullers, Begin(p)
    PROVE  SyncInvariant'
  <1>1. /\ JournalTrue /\ pulls \in [Pullers -> Pulls] /\ CursorOK(state.cursor)
        /\ topology \in Topologies
    BY DEF SyncInvariant, TypeOK
  <1>2. Unlocked /\ UNCHANGED <<journalVars, catalog, retired, topology>>
    BY DEF Begin, BeginInstance, BeginLocal, BeginOthers
  <1>3. ASSUME NEW i \in Instances \cup {Nowhere}, NEW c \in Nat, CursorOK(c), Start(p, i, c),
               state' \in StateRows, state'.cursor = state.cursor
        PROVE  SyncInvariant'
    <2> DEFINE k == [Idle EXCEPT !.phase = "ask", !.instance = i, !.cursor = c]
    <2>1. k \in Pulls /\ k.phase = "ask" /\ k.rows = {} /\ k.next = 0 /\ k.cursor = c
      BY StartTyped
    <2>2. pulls' = [pulls EXCEPT ![p] = k]
      BY <1>3 DEF Start
    <2> HIDE DEF k
    <2>3. PullOK(k)
      BY <1>1, <1>3, <2>1, AskOK
    <2> QED
      BY <1>1, <1>2, <1>3, <2>1, <2>2, <2>3, Alone, PullKeeps
  <1>4. CASE BeginInstance(p)
    <2>1. BoundCursor(topology) \in Nat /\ CursorOK(BoundCursor(topology))
      BY <1>1, NothingPassed, StateTyped DEF BoundCursor
    <2>2. topology \in Instances \cup {Nowhere}
      BY <1>4 DEF BeginInstance
    <2> QED
      BY <1>3, <1>4, <2>1, <2>2, StateTyped DEF BeginInstance
  <1>5. CASE BeginLocal(p)
    BY <1>1, <1>3, <1>5, StateTyped DEF BeginLocal
  <1>6. CASE BeginOthers(p)
    <2> DEFINE k == [pulls[p] EXCEPT !.phase = "others"]
    <2>1. pulls[p] \in Pulls /\ pulls[p].phase = "idle" /\ PullOK(pulls[p])
      BY <1>1, <1>6 DEF BeginOthers, SyncInvariant
    <2>2. /\ k \in Pulls /\ k.phase = "others" /\ k.rows = pulls[p].rows
          /\ k.next = pulls[p].next /\ k.cursor = pulls[p].cursor
      BY <2>1 DEF Pulls, Phases
    <2>3. pulls' = [pulls EXCEPT ![p] = k]
      BY <1>1, <1>6 DEF BeginOthers
    <2> HIDE DEF k
    <2>4. PullOK(k)
      BY <2>1, <2>2 DEF PullOK
    <2>5. state' \in StateRows /\ state'.cursor = state.cursor
      BY <1>6, StateTyped DEF BeginOthers
    <2> QED
      BY <1>1, <1>2, <2>2, <2>3, <2>4, <2>5, Alone, PullKeeps
  <1> QED
    BY <1>4, <1>5, <1>6 DEF Begin

(* A pass over others ends; if the agent is not bound to an instance, it is
   retired, and everything of it withdrawn. *)
LEMMA FinishKeeps ==
    ASSUME SyncInvariant, UNCHANGED journalVars, NEW p \in Pullers, Finish(p)
    PROVE  SyncInvariant'
  <1>1. /\ JournalTrue /\ pulls \in [Pullers -> Pulls] /\ CursorOK(state.cursor)
        /\ topology \in Topologies
    BY DEF SyncInvariant, TypeOK
  <1>2. pulls[p].phase # "idle" /\ pulls' = [pulls EXCEPT ![p] = Idle] /\ UNCHANGED topology
    BY DEF Finish, RetireUnbound, OthersIncomplete
  <1>3. CASE UNCHANGED <<state, catalog, retired>>
    BY <1>1, <1>2, <1>3, IdleTyped, IdleOK, StateTyped, PullKeeps DEF Idle
  <1>4. CASE /\ state' = NoState
             /\ catalog' = [catalog EXCEPT !.items = [s \in Sources |-> Withdrawn(@[s])],
                                           !.folders = FoldersLeft]
             /\ retired' = TRUE
    <2>1. /\ catalog \in Catalogs
          /\ \A s \in Sources : /\ catalog.items[s] \in ItemRows
                                /\ catalog.items[s].revision \in Nat
                                /\ catalog.items[s].revision <= sources[s].revision
      BY DEF SyncInvariant, CatalogOK, Consistent, Bounded, Catalogs, ItemRows
    <2>2. ASSUME NEW r \in ItemRows
          PROVE  /\ Withdrawn(r) \in ItemRows /\ Withdrawn(r).revision = r.revision
                 /\ Withdrawn(r).missing <=> r.revision > 0
      <3> DEFINE gone == r.revision > 0
      <3>1. Withdrawn(r) = [r EXCEPT !.missing = gone] /\ gone \in BOOLEAN
        BY DEF Withdrawn
      <3> HIDE DEF gone
      <3>2. /\ Withdrawn(r) \in ItemRows /\ Withdrawn(r).revision = r.revision
            /\ Withdrawn(r).missing = gone
        BY <3>1 DEF ItemRows
      <3> QED
        BY <3>2 DEF gone
    <2>3. catalog'.items = [s \in Sources |-> Withdrawn(catalog.items[s])]
      BY <1>4, <2>1 DEF Catalogs
    <2>4. catalog'.folders = [f \in Folders |-> 0]
      BY <1>4, <2>1 DEF Catalogs, FoldersLeft
    <2>5. catalog' \in Catalogs
      <3>1. catalog'.items \in [Sources -> ItemRows]
        BY <2>1, <2>2, <2>3
      <3>2. catalog'.folders \in [Folders -> Nat]
        BY <2>4
      <3>3. catalog' = [items |-> catalog'.items, folders |-> catalog'.folders,
                        variants |-> catalog.variants]
        BY <1>4, <2>1 DEF Catalogs
      <3>4. catalog.variants \in SUBSET Sources
        BY <2>1 DEF Catalogs
      <3> QED
        BY <3>1, <3>2, <3>3, <3>4 DEF Catalogs
    <2>6. \A s \in Sources : /\ ~Listed(catalog', s)
                             /\ catalog'.items[s].revision <= sources[s].revision
      BY <2>1, <2>2, <2>3 DEF Listed
    <2>7. FoldersCount(catalog')
      <3> SUFFICES ASSUME NEW f \in Folders
                   PROVE  catalog'.folders[f] = Cardinality(ListedIn(catalog', f))
        BY DEF FoldersCount
      <3>1. ListedIn(catalog', f) = {}
        BY <2>6 DEF ListedIn
      <3> QED
        BY <2>4, <3>1, FS_EmptySet
    <2>8. CatalogOK'
      <3>1. Consistent(catalog)'
        BY <1>4, <2>5, <2>6, <2>7 DEF Consistent, FoldersCount, ListedIn, Listed
      <3>2. Bounded(catalog)'
        BY <2>6 DEF Bounded, journalVars
      <3> QED
        BY <1>4, <3>1, <3>2 DEF CatalogOK
    <2>9. JournalTrue'
      BY <1>1, JournalUnmoved
    <2>10. state' \in StateRows /\ state'.cursor = 0
      BY <1>4 DEF NoState, StateRows
    <2>11. pulls' \in [Pullers -> Pulls]
      BY <1>1, <1>2, IdleTyped
    <2>12. TypeOK'
      BY <1>1, <1>2, <1>4, <2>5, <2>9, <2>10, <2>11
      DEF TypeOK, JournalTrue, JournalInvariant, JournalTyped
    <2>13. sequence \in Nat
      BY DEF SyncInvariant, TypeOK, JournalTypeOK
    <2>14. CursorOK(state.cursor)'
      BY <1>4, <2>10, <2>13 DEF CursorOK, journalVars
    <2>15. ASSUME NEW q \in Pullers PROVE pulls'[q].phase = "idle" /\ PullOK(pulls[q])'
      <3>1. pulls[q].phase = "idle" \/ q = p
        BY <1>2 DEF SyncInvariant, OneActive
      <3>2. pulls'[q].phase = "idle"
        BY <1>1, <1>2, <3>1 DEF Idle
      <3>3. PullOK(pulls'[q])
        BY <1>1, <1>2, IdleOK DEF SyncInvariant
      <3>4. pulls'[q].rows = {}
        BY <3>2, <3>3 DEF PullOK
      <3> QED
        BY <1>4, <3>2, <3>3, <3>4
        DEF PullOK, CursorOK, RowsTrue, RowsAhead, journalVars
    <2> QED
      BY <2>8, <2>9, <2>12, <2>14, <2>15 DEF SyncInvariant, OneActive
  <1> QED
    BY <1>3, <1>4 DEF Finish, RetireUnbound, OthersIncomplete

(* A call fails, or its answer is too large. *)
LEMMA FailureKeeps ==
    ASSUME SyncInvariant, UNCHANGED journalVars, NEW p \in Pullers, Failure(p)
    PROVE  SyncInvariant'
  <1>1. /\ JournalTrue /\ pulls \in [Pullers -> Pulls] /\ CursorOK(state.cursor)
        /\ topology \in Topologies /\ pulls[p] \in Pulls /\ PullOK(pulls[p])
    BY DEF SyncInvariant, TypeOK
  <1>2. CASE LocalUnreachable(p)
    <2>1. pulls' = [pulls EXCEPT ![p] = pulls[p]] /\ pulls[p].phase = "idle"
      BY <1>1, <1>2 DEF LocalUnreachable
    <2>2. UNCHANGED <<catalog, retired, topology>>
      BY <1>2 DEF LocalUnreachable
    <2>3. state' \in StateRows /\ state'.cursor = state.cursor
      BY <1>2, StateTyped DEF LocalUnreachable
    <2> QED
      BY <1>1, <2>1, <2>2, <2>3, PullKeeps
  <1>3. CASE PageTooLarge(p)
    <2> DEFINE half == pulls[p].limit \div 2
               instance == pulls[p].instance
               cursor == pulls[p].cursor
               k == [Idle EXCEPT !.phase = "ask", !.instance = instance, !.cursor = cursor,
                                 !.limit = half]
    <2>1. /\ pulls[p].instance \in Instances \cup {Nowhere} /\ pulls[p].cursor \in Nat
          /\ half \in 1 .. PageLimit
          /\ CursorOK(pulls[p].cursor)
      <3>1. pulls[p].limit \in 1 .. PageLimit /\ pulls[p].limit > 1
        BY <1>1, <1>3 DEF Pulls, PageTooLarge
      <3>2. pulls[p].limit \div 2 \in 1 .. PageLimit
        BY <3>1, PageLimitAssumption
      <3> QED
        BY <1>1, <3>2 DEF Pulls, PullOK
    <2>2. /\ k \in Pulls /\ k.phase = "ask" /\ k.rows = {} /\ k.next = 0
          /\ k.cursor = cursor
      <3>1. instance \in Instances \cup {Nowhere} /\ cursor \in Nat /\ half \in 1 .. PageLimit
        BY <2>1
      <3> HIDE DEF half, instance, cursor
      <3> QED
        BY <3>1, AskTyped
    <2>3. pulls' = [pulls EXCEPT ![p] = k] /\ pulls[p].phase # "idle"
      BY <1>3 DEF PageTooLarge
    <2>4. UNCHANGED <<state, catalog, retired, topology>>
      BY <1>3 DEF PageTooLarge
    <2> HIDE DEF k
    <2>5. PullOK(k)
      BY <1>1, <2>1, <2>2, AskOK
    <2> QED
      BY <1>1, <2>2, <2>3, <2>4, <2>5, Alone, StateTyped, PullKeeps
  <1>4. CASE PageLost(p)
    <2>1. pulls' = [pulls EXCEPT ![p] = Idle] /\ UNCHANGED <<catalog, retired, topology>>
      BY <1>4 DEF PageLost
    <2>2. /\ [NoState EXCEPT !.known = TRUE] \in StateRows
          /\ [NoState EXCEPT !.known = TRUE].cursor = 0
      BY DEF NoState, StateRows
    <2>3. state' \in StateRows /\ (state'.cursor = state.cursor \/ state'.cursor = 0)
      BY <1>4, <2>2, StateTyped DEF PageLost, MarkedUnavailable
    <2> QED
      BY <1>1, <2>1, <2>3, IdleTyped, IdleOK, NothingPassed, PullKeeps DEF Idle
  <1> QED
    BY <1>2, <1>3, <1>4 DEF Failure

(* The two reads of a page. *)
LEMMA PullRowsKeeps ==
    ASSUME SyncInvariant, UNCHANGED journalVars, NEW p \in Pullers, PullRows(p)
    PROVE  SyncInvariant'
  <1>1. /\ JournalTrue /\ pulls \in [Pullers -> Pulls] /\ CursorOK(state.cursor)
        /\ topology \in Topologies /\ pulls[p] \in Pulls /\ PullOK(pulls[p])
    BY DEF SyncInvariant, TypeOK
  <1> DEFINE cursor == pulls[p].cursor
             limit == pulls[p].limit
             rows == Page(cursor, limit)
             next == NextCursor(cursor, rows)
             more == HasMore(cursor, limit)
             k == [pulls[p] EXCEPT !.phase = "rows", !.rows = rows, !.next = next,
                                   !.more = more]
  <1>2. cursor \in Nat /\ limit \in Nat /\ cursor <= sequence
    BY <1>1, PageLimitAssumption DEF Pulls, PullOK, CursorOK
  <1>3. /\ rows \subseteq deltas /\ RowsTrue(rows) /\ next \in Nat /\ next <= sequence
        /\ RowsAhead(cursor, next, rows) /\ RowsCover(cursor, next, rows)
    <2> HIDE DEF cursor, limit
    <2> QED
      BY <1>1, <1>2, PageReads
  <1>4. more \in BOOLEAN
    BY DEF HasMore
  <1>5. pulls' = [pulls EXCEPT ![p] = k] /\ pulls[p].phase # "idle"
    BY <1>1 DEF PullRows
  <1>6. UNCHANGED <<state, catalog, retired, topology>>
    BY DEF PullRows
  <1> HIDE DEF rows, next, more
  <1>7. rows \in SUBSET Deltas
    BY <1>3 DEF RowsTrue
  <1>8. /\ k \in Pulls /\ k.phase = "rows" /\ k.rows = rows /\ k.next = next
        /\ k.cursor = cursor
    BY <1>1, <1>3, <1>4, <1>7 DEF Pulls, Phases
  <1> HIDE DEF k
  <1>9. PullOK(k)
    BY <1>1, <1>3, <1>8 DEF PullOK
  <1> QED
    BY <1>1, <1>5, <1>6, <1>8, <1>9, Alone, StateTyped, PullKeeps

LEMMA PullSourcesKeeps ==
    ASSUME SyncInvariant, UNCHANGED journalVars, NEW p \in Pullers, PullSources(p)
    PROVE  SyncInvariant'
  <1>1. /\ JournalTrue /\ pulls \in [Pullers -> Pulls] /\ CursorOK(state.cursor)
        /\ topology \in Topologies /\ pulls[p] \in Pulls /\ PullOK(pulls[p])
        /\ pulls[p].phase = "rows"
    BY DEF SyncInvariant, TypeOK, PullSources
  <1> DEFINE cursor == pulls[p].cursor
             next == pulls[p].next
             rows == Expanded(pulls[p].rows)
             k == [pulls[p] EXCEPT !.phase = "page", !.rows = rows]
  <1>2. cursor \in Nat /\ next \in Nat
    BY <1>1 DEF Pulls
  <1>3. /\ RowsTrue(rows) /\ RowsAhead(cursor, next, rows) /\ RowsCover(cursor, next, rows)
    BY <1>1, <1>2, ExpandedReads DEF PullOK
  <1>4. pulls' = [pulls EXCEPT ![p] = k]
    BY <1>1 DEF PullSources, Answered, Pulls
  <1>5. UNCHANGED <<state, catalog, retired, topology>>
    BY DEF PullSources
  <1> HIDE DEF rows
  <1>6. rows \in SUBSET Deltas
    BY <1>3 DEF RowsTrue
  <1>7. /\ k \in Pulls /\ k.phase = "page" /\ k.rows = rows /\ k.next = next
        /\ k.cursor = cursor
    BY <1>1, <1>6 DEF Pulls, Phases
  <1> HIDE DEF k
  <1>8. PullOK(k)
    BY <1>1, <1>3, <1>7 DEF PullOK
  <1> QED
    BY <1>1, <1>4, <1>5, <1>7, <1>8, Alone, StateTyped, PullKeeps

(* The transaction that applies a page. *)
LEMMA ApplyPageKeeps ==
    ASSUME SyncInvariant, UNCHANGED journalVars, NEW p \in Pullers, ApplyPage(p)
    PROVE  SyncInvariant'
  <1>1. /\ JournalTrue /\ CatalogOK /\ pulls \in [Pullers -> Pulls] /\ CursorOK(state.cursor)
        /\ topology \in Topologies /\ pulls[p] \in Pulls /\ PullOK(pulls[p])
        /\ pulls[p].phase = "page"
    BY DEF SyncInvariant, TypeOK, ApplyPage
  <1> DEFINE k == pulls[p]
             after == Applied(k.rows)
             instance == k.instance
             next == k.next
             limit == k.limit
             onward == [Idle EXCEPT !.phase = "ask", !.instance = instance, !.cursor = next,
                                    !.limit = limit]
  <1>2. /\ catalog' = after /\ UNCHANGED <<journalVars, topology, retired>>
        /\ state' = Advanced(k)
        /\ pulls' = [pulls EXCEPT ![p] = Idle] \/ pulls' = [pulls EXCEPT ![p] = onward]
    BY DEF ApplyPage
  <1>3. /\ k.cursor \in Nat /\ k.next \in Nat /\ k.next <= sequence
        /\ k.limit \in 1 .. PageLimit /\ k.instance \in Instances \cup {Nowhere}
        /\ RowsTrue(k.rows) /\ RowsAhead(k.cursor, k.next, k.rows)
        /\ RowsCover(k.cursor, k.next, k.rows)
        /\ ~retired => Passed(k.cursor)
    BY <1>1 DEF Pulls, PullOK, CursorOK
  <1>4. /\ Consistent(after) /\ CaughtUp(after) /\ Bounded(after)
        /\ ~retired => Faithful(after)
    BY <1>1, <1>3, PageKeeps, CaughtUpIsOK
  <1>5. ASSUME ~retired, NEW d \in deltas, ~Superseded(d), d.sequence <= k.next
        PROVE  ReflectedIn(after, d.source)
    BY <1>1, <1>3, <1>5, PagePasses
  <1>6. /\ onward \in Pulls /\ onward.phase = "ask" /\ onward.rows = {} /\ onward.next = 0
        /\ onward.cursor = next
    <2>1. instance \in Instances \cup {Nowhere} /\ next \in Nat /\ limit \in 1 .. PageLimit
      BY <1>3
    <2> HIDE DEF instance, next, limit
    <2> QED
      BY <2>1, AskTyped
  <1> HIDE DEF after, onward
  <1>7. JournalTrue'
    BY <1>1, <1>2, JournalUnmoved
  <1>8. CatalogOK'
    <2>1. Consistent(catalog)'
      BY <1>2, <1>4 DEF Consistent, FoldersCount, ListedIn, Listed
    <2>2. Bounded(catalog)' /\ (~retired' => Faithful(catalog)')
      BY <1>2, <1>4 DEF Bounded, Faithful, Displayed, Listed, journalVars
    <2> QED
      BY <2>1, <2>2 DEF CatalogOK
  <1>9. /\ deltas' = deltas /\ sources' = sources /\ sequence' = sequence /\ sequence \in Nat
        /\ \A d \in deltas : d.sequence \in Nat \ {0}
    BY <1>1, <1>2 DEF journalVars, JournalTrue, JournalInvariant, JournalTyped, JournalTypeOK, Deltas
  <1>10. ASSUME ~retired', NEW d \in deltas', ~Superseded(d)', d.sequence <= k.next
         PROVE  Reflects(d.source)'
    <2>1. ~retired /\ d \in deltas /\ ~Superseded(d)
      BY <1>2, <1>9, <1>10 DEF Superseded
    <2>2. ReflectedIn(after, d.source)
      BY <1>5, <1>10, <2>1
    <2> QED
      BY <1>2, <1>9, <2>2 DEF ReflectedIn, Reflects, Listed
  <1>11. ASSUME NEW q, q = k.next \/ q = 0 PROVE CursorOK(q)'
    <2>1. q <= sequence'
      BY <1>3, <1>9, <1>11
    <2>2. ASSUME ~retired', NEW d \in deltas', ~Superseded(d)', d.sequence <= q
          PROVE  Reflects(d.source)'
      BY <1>9, <1>10, <1>11, <2>2
    <2> QED
      BY <2>1, <2>2 DEF CursorOK, Passed
  <1>12. state' \in StateRows /\ state'.cursor = k.next
    <2>1. state.instance \in Instances \cup {Nowhere}
      BY StateTyped
    <2> QED
      BY <1>2, <1>3, <2>1 DEF Advanced, StateRows
  <1>13. CursorOK(state.cursor)'
    BY <1>11, <1>12 DEF CursorOK, Passed
  <1>14. pulls' \in [Pullers -> Pulls] /\ OneActive'
    BY <1>1, <1>2, <1>6, IdleTyped DEF OneActive, SyncInvariant
  <1>15. ASSUME NEW q \in Pullers PROVE PullOK(pulls[q])'
    <2>1. /\ pulls'[q].phase \notin {"rows", "page"} /\ pulls'[q].rows = {}
          /\ pulls'[q].phase = "idle" => pulls'[q].cursor = 0
          /\ pulls'[q].next <= sequence'
          /\ pulls'[q].cursor = k.next \/ pulls'[q].cursor = 0
      <3>1. CASE q = p
        BY <1>1, <1>2, <1>3, <1>6, <1>9, <3>1 DEF Idle
      <3>2. CASE q # p
        <4>1. pulls[q].phase = "idle" /\ PullOK(pulls[q])
          BY <1>1, <3>2, Alone DEF SyncInvariant
        <4>2. pulls'[q] = pulls[q]
          BY <1>1, <1>2, <3>2
        <4> QED
          BY <1>9, <4>1, <4>2 DEF PullOK
      <3> QED
        BY <3>1, <3>2
    <2>2. CursorOK(pulls[q].cursor)'
      BY <1>11, <2>1 DEF CursorOK, Passed
    <2>3. RowsTrue(pulls[q].rows)' /\ RowsAhead(pulls[q].cursor, pulls[q].next, pulls[q].rows)'
      BY <2>1 DEF RowsTrue, RowsAhead
    <2> QED
      BY <2>1, <2>2, <2>3 DEF PullOK
  <1>16. TypeOK'
    BY <1>1, <1>2, <1>7, <1>8, <1>12, <1>14
    DEF TypeOK, JournalTrue, JournalInvariant, JournalTyped, CatalogOK, Consistent,
        SyncInvariant
  <1> QED
    BY <1>7, <1>8, <1>13, <1>14, <1>15, <1>16 DEF SyncInvariant

(* The process stops, or the topology changes. *)
LEMMA OutsideKeeps ==
    ASSUME SyncInvariant, UNCHANGED journalVars, Restart \/ TopologyChange
    PROVE  SyncInvariant'
  <1>1. JournalTrue' /\ CatalogOK' /\ JournalTrue
    BY JournalUnmoved, CatalogUnmoved DEF SyncInvariant, Restart, TopologyChange
  <1>2. UNCHANGED <<journalVars, state, catalog, retired>>
    BY DEF Restart, TopologyChange
  <1>3. CursorOK(state.cursor)'
    BY <1>2 DEF SyncInvariant, journalVars, CursorOK, Passed, Reflects, Listed, Superseded
  <1>4. /\ pulls' \in [Pullers -> Pulls] /\ topology' \in Topologies /\ OneActive'
        /\ \A q \in Pullers : PullOK(pulls'[q])
    <2>1. CASE Restart
      <3>1. \A q \in Pullers : pulls'[q] = Idle
        BY <2>1 DEF Restart
      <3>2. pulls' \in [Pullers -> Pulls] /\ topology' \in Topologies
        BY <2>1, IdleTyped DEF Restart, SyncInvariant, TypeOK
      <3>3. OneActive'
        BY <3>1 DEF OneActive, Idle
      <3> QED
        BY <1>1, <3>1, <3>2, <3>3, IdleOK
    <2>2. CASE TopologyChange
      BY <2>2 DEF TopologyChange, SyncInvariant, TypeOK, OneActive
    <2> QED
      BY <2>1, <2>2
  <1>5. ASSUME NEW q \in Pullers PROVE PullOK(pulls[q])'
    <2>1. PICK j : j = pulls'[q]
      OBVIOUS
    <2>2. PullOK(j)'
      BY <1>2, <1>4, <2>1, PullUnmoved
    <2> QED
      BY <2>1, <2>2 DEF PullOK, CursorOK, RowsTrue, RowsAhead, RowsCover, Passed, Honest, Told
  <1>6. TypeOK'
    BY <1>1, <1>2, <1>4 DEF SyncInvariant, TypeOK, JournalTrue, JournalInvariant, JournalTyped
  <1> QED
    BY <1>1, <1>3, <1>4, <1>5, <1>6 DEF SyncInvariant

(* The agent writes or compacts under the readers. *)
LEMMA AgentKeeps ==
    ASSUME SyncInvariant, [JournalNext]_journalVars, UNCHANGED syncVars
    PROVE  SyncInvariant'
  <1>1. JournalTrue /\ CatalogOK /\ pulls \in [Pullers -> Pulls] /\ state.cursor \in Nat
    BY StateTyped DEF SyncInvariant, TypeOK
  <1>2. JournalTrue' /\ JournalGrows
    BY <1>1, JournalTells
  <1>3. UNCHANGED <<state, catalog, pulls, topology, retired>>
    BY DEF syncVars
  <1>4. /\ sequence \in Nat /\ sequence' \in Nat /\ sequence <= sequence'
        /\ \A s \in Sources : /\ sources[s].revision \in Nat /\ sources'[s].revision \in Nat
                              /\ sources[s].revision <= sources'[s].revision
        /\ \A d \in deltas : d.sequence \in Nat
        /\ \A d \in deltas' : d.sequence \in Nat
    BY <1>1, <1>2 DEF JournalGrows, JournalTrue, JournalInvariant, JournalTyped, JournalTypeOK,
                      SourceRows, Deltas
  <1>5. ASSUME NEW s \in Sources, NEW i \in Nat, 0 < i, i <= sources[s].revision
        PROVE  history'[s][i] = history[s][i]
    BY <1>2, <1>4, <1>5 DEF JournalGrows
  <1>6. ASSUME NEW d \in Deltas, Honest(d) PROVE Honest(d)'
    <2>1. d.source \in Sources /\ d.revision \in Nat /\ 0 < d.revision
      BY DEF Deltas
    <2> QED
      BY <1>4, <1>5, <1>6, <2>1 DEF Honest, Told
  <1>7. ASSUME NEW rows, RowsTrue(rows) PROVE RowsTrue(rows)'
    BY <1>6, <1>7 DEF RowsTrue
  <1>8. ASSUME NEW q \in Nat, CursorOK(q) PROVE CursorOK(q)'
    <2>1. q <= sequence'
      BY <1>4, <1>8 DEF CursorOK
    <2>2. ASSUME ~retired', NEW d \in deltas', ~Superseded(d)', d.sequence <= q
          PROVE  Reflects(d.source)'
      <3>1. ~(d.sequence > sequence)
        BY <1>4, <1>8, <2>2 DEF CursorOK
      <3>2. /\ sources'[d.source] = sources[d.source]
            /\ \E e \in deltas : ~Superseded(e) /\ Same(e, d)
        BY <1>2, <2>2, <3>1 DEF JournalGrows
      <3>3. Reflects(d.source)
        BY <1>3, <1>8, <2>2, <3>2 DEF CursorOK, Passed, Same
      <3> QED
        BY <1>3, <3>2, <3>3 DEF Reflects, Listed
    <2> QED
      BY <2>1, <2>2 DEF CursorOK, Passed
  <1>9. ASSUME NEW cursor, NEW next, NEW rows, RowsTrue(rows), RowsAhead(cursor, next, rows)
        PROVE  RowsAhead(cursor, next, rows)'
    <2> SUFFICES ASSUME NEW r \in rows
                 PROVE  \E e \in deltas' : e.source = r.source /\ e.sequence >= r.sequence
      BY <1>9 DEF RowsAhead
    <2>1. PICK x \in deltas : x.source = r.source /\ x.sequence >= r.sequence
      BY <1>9 DEF RowsAhead
    <2>2. PICK e \in deltas' : e.source = x.source /\ e.sequence >= x.sequence
      BY <1>2 DEF JournalGrows
    <2>3. r.sequence \in Nat
      BY <1>9 DEF RowsTrue, Deltas
    <2> QED
      BY <1>4, <2>1, <2>2, <2>3
  <1>10. ASSUME NEW cursor, NEW next \in Nat, next <= sequence, NEW rows,
                RowsCover(cursor, next, rows)
         PROVE  RowsCover(cursor, next, rows)'
    <2> SUFFICES ASSUME NEW d \in deltas', ~Superseded(d)', cursor < d.sequence,
                        d.sequence <= next
                 PROVE  \E r \in rows : Same(r, d)
      BY DEF RowsCover
    <2>1. ~(d.sequence > sequence)
      BY <1>4, <1>10
    <2>2. PICK e \in deltas : ~Superseded(e) /\ Same(e, d)
      BY <1>2, <2>1 DEF JournalGrows
    <2>3. PICK r \in rows : Same(r, e)
      BY <1>10, <2>2 DEF RowsCover, Same
    <2> QED
      BY <2>2, <2>3 DEF Same
  <1>11. ASSUME NEW k \in Pulls, PullOK(k) PROVE PullOK(k)'
    <2>1. k.cursor \in Nat /\ k.next \in Nat
      BY DEF Pulls
    <2>2. CursorOK(k.cursor)' /\ RowsTrue(k.rows)' /\ RowsAhead(k.cursor, k.next, k.rows)'
      BY <1>7, <1>8, <1>9, <1>11, <2>1 DEF PullOK
    <2>3. k.phase \in {"rows", "page"} => RowsCover(k.cursor, k.next, k.rows)'
      BY <1>10, <1>11, <2>1 DEF PullOK
    <2>4. k.next <= sequence'
      BY <1>4, <1>11, <2>1 DEF PullOK
    <2> QED
      BY <1>11, <2>2, <2>3, <2>4 DEF PullOK
  <1>12. CatalogOK'
    <2>1. Consistent(catalog)'
      BY <1>1, <1>3 DEF CatalogOK, Consistent, FoldersCount, ListedIn, Listed
    <2>2. \A s \in Sources : catalog.items[s].revision \in Nat
      BY <1>1 DEF CatalogOK, Consistent, Catalogs, ItemRows
    <2>3. Bounded(catalog)'
      BY <1>1, <1>3, <1>4, <2>2 DEF CatalogOK, Bounded
    <2>4. ASSUME ~retired', NEW s \in Sources, catalog.items[s].revision > 0
          PROVE  Displayed(catalog, s) = history'[s][catalog.items[s].revision]
      BY <1>1, <1>3, <1>5, <2>2, <2>4 DEF CatalogOK, Bounded, Faithful
    <2>5. ~retired' => Faithful(catalog)'
      BY <1>3, <2>4 DEF Faithful, Displayed, Listed
    <2> QED
      BY <2>1, <2>3, <2>5 DEF CatalogOK
  <1>13. CursorOK(state.cursor)'
    <2>1. PICK q \in Nat : q = state.cursor
      BY <1>1
    <2>2. CursorOK(q)'
      BY <1>8, <2>1 DEF SyncInvariant
    <2> QED
      BY <1>3, <2>1, <2>2 DEF CursorOK, Passed
  <1>14. ASSUME NEW q \in Pullers PROVE PullOK(pulls[q])'
    <2>1. PICK j \in Pulls : j = pulls[q]
      BY <1>1
    <2>2. PullOK(j)'
      BY <1>11, <2>1 DEF SyncInvariant
    <2> QED
      BY <1>3, <2>1, <2>2
      DEF PullOK, CursorOK, RowsTrue, RowsAhead, RowsCover, Passed, Honest, Told
  <1>15. TypeOK'
    BY <1>2, <1>3 DEF SyncInvariant, TypeOK, JournalTrue, JournalInvariant, JournalTyped
  <1>16. OneActive'
    BY <1>3 DEF SyncInvariant, OneActive
  <1> QED
    BY <1>2, <1>12, <1>13, <1>14, <1>15, <1>16 DEF SyncInvariant

LEMMA SyncStarts == Init => SyncInvariant
  <1> SUFFICES ASSUME Init PROVE SyncInvariant
    OBVIOUS
  <1>1. JournalTrue
    BY JournalStartsTrue DEF Init
  <1>2. /\ state = NoState /\ catalog = NoCatalog /\ pulls = [p \in Pullers |-> Idle]
        /\ topology \in Topologies /\ retired = FALSE
    BY DEF Init, SyncInit
  <1>3. /\ catalog \in Catalogs
        /\ \A s \in Sources : catalog.items[s].revision = 0 /\ ~Listed(catalog, s)
        /\ \A f \in Folders : catalog.folders[f] = 0
        /\ catalog.variants = {}
    <2>1. NoItem \in ItemRows /\ NoItem.revision = 0
      BY DEF NoItem, ItemRows
    <2> QED
      BY <1>2, <2>1 DEF NoCatalog, Catalogs, Listed
  <1>4. CatalogOK
    <2>1. FoldersCount(catalog)
      <3> SUFFICES ASSUME NEW f \in Folders
                   PROVE  catalog.folders[f] = Cardinality(ListedIn(catalog, f))
        BY DEF FoldersCount
      <3>1. ListedIn(catalog, f) = {}
        BY <1>3 DEF ListedIn
      <3> QED
        BY <1>3, <3>1, FS_EmptySet
    <2>2. \A s \in Sources : sources[s].revision \in Nat
      BY <1>1 DEF JournalTrue, JournalInvariant, JournalTyped, JournalTypeOK, SourceRows
    <2>3. Bounded(catalog) /\ Faithful(catalog)
      BY <1>3, <2>2 DEF Bounded, Faithful
    <2> QED
      BY <1>3, <2>1, <2>3 DEF CatalogOK, Consistent
  <1>5. state \in StateRows /\ state.cursor = 0
    BY <1>2 DEF NoState, StateRows
  <1>6. CursorOK(state.cursor)
    BY <1>1, <1>5, NothingPassed
  <1>7. /\ pulls \in [Pullers -> Pulls]
        /\ \A p \in Pullers : pulls[p].phase = "idle" /\ PullOK(pulls[p])
    <2>1. \A p \in Pullers : pulls[p] = Idle
      BY <1>2
    <2> QED
      BY <1>1, <1>2, <2>1, IdleTyped, IdleOK DEF Idle
  <1>8. TypeOK
    BY <1>1, <1>2, <1>3, <1>5, <1>7 DEF TypeOK, JournalTrue, JournalInvariant, JournalTyped
  <1> QED
    BY <1>1, <1>4, <1>6, <1>7, <1>8 DEF SyncInvariant, OneActive

THEOREM SyncInvariantHolds == Spec => []SyncInvariant
  <1>1. SyncInvariant /\ [Next]_vars => SyncInvariant'
    <2> SUFFICES ASSUME SyncInvariant, [Next]_vars PROVE SyncInvariant'
      OBVIOUS
    <2>1. CASE AgentStep
      BY <2>1, AgentKeeps DEF AgentStep
    <2>2. CASE UNCHANGED vars
      BY <2>2, AgentKeeps DEF vars
    <2>3. CASE SyncStep
      BY <2>3, BeginKeeps, FinishKeeps, FailureKeeps, PullRowsKeeps, PullSourcesKeeps,
         ApplyPageKeeps, OutsideKeeps
      DEF SyncStep
    <2> QED
      BY <2>1, <2>2, <2>3 DEF Next
  <1> QED
    BY <1>1, SyncStarts, PTL DEF Spec

-----------------------------------------------------------------------------
(* What a catalog promises *)

(* The tables of the coordinator keep their types. *)
THEOREM CatalogTyped == Spec => []TypeOK
  <1>1. SyncInvariant => TypeOK
    BY DEF SyncInvariant
  <1> QED
    BY <1>1, SyncInvariantHolds, PTL

(* What the saved cursor has passed is in the catalog, whatever was lost,
   repeated, compacted, restarted or rebound (apply_agent_page(),
   agent_binding(), pull_deltas()). *)
THEOREM CatalogMissesNothing == Spec => []NoChangeLost
  <1>1. SyncInvariant => NoChangeLost
    <2> SUFFICES ASSUME SyncInvariant, ~retired, NEW s \in Sources,
                        \A d \in deltas : d.source = s => d.sequence <= state.cursor
                 PROVE  Reflects(s)
      BY DEF NoChangeLost
    <2>1. /\ JournalTrue /\ CatalogOK /\ Passed(state.cursor)
          /\ sources[s].revision \in Nat
          /\ catalog.items[s].revision \in Nat
      BY DEF SyncInvariant, CursorOK, TypeOK, JournalTypeOK, SourceRows, Catalogs, ItemRows
    <2>2. CASE sources[s].revision = 0
      <3>1. catalog.items[s].revision = 0 /\ ~sources[s].present
        BY <2>1, <2>2 DEF CatalogOK, Bounded, JournalTrue, Remembered
      <3> QED
        BY <3>1 DEF Reflects, Listed
    <2>3. CASE sources[s].revision > 0
      <3>1. PICK d \in deltas : d.source = s /\ ~Superseded(d)
        BY <2>1, <2>3 DEF JournalTrue, JournalInvariant, Announced
      <3> QED
        BY <2>1, <3>1 DEF Passed
    <2> QED
      BY <2>1, <2>2, <2>3
  <1> QED
    BY <1>1, SyncInvariantHolds, PTL

(* Folder nodes count the listed items, and what can be played is what is
   listed, after any additions, removals and replays (_apply_delta()). *)
THEOREM ProjectionsAgree == Spec => []ProjectionsFollowItems
  <1>1. SyncInvariant => ProjectionsFollowItems
    BY DEF SyncInvariant, CatalogOK, Consistent, FoldersCount, ListedIn, ProjectionsFollowItems
  <1> QED
    BY <1>1, SyncInvariantHolds, PTL

-----------------------------------------------------------------------------
(* The catalog is a replica *)

(* An agent says one thing at a time of a source. *)
LEMMA HistoryAppends ==
    ASSUME JournalTrue, [JournalNext]_journalVars
    PROVE  \A s \in Sources :
              \/ history'[s] = history[s]
              \/ \E x \in Contents \cup {NoContent} : history'[s] = Append(history[s], x)
  <1>1. JournalTyped
    BY DEF JournalTrue, JournalInvariant
  <1>2. ASSUME NEW D \in SUBSET Sources, NEW rows, RowsToWrite(D, rows), Record(D, rows),
               NEW s \in Sources
        PROVE  \/ history'[s] = history[s]
               \/ \E x \in Contents \cup {NoContent} : history'[s] = Append(history[s], x)
    <2>1. CASE s \notin D
      BY <1>2, <2>1 DEF Record
    <2>2. CASE s \in D
      <3> DEFINE x == Shown(rows[s])
                 h == history[s]
      <3>1. x \in Contents \cup {NoContent}
        BY <1>2, <2>2 DEF RowsToWrite, Shown
      <3>2. history'[s] = h \o <<x>>
        BY <1>2, <2>2 DEF Record
      <3>3. h \in Seq(Contents \cup {NoContent})
        BY DEF JournalTrue, Remembered
      <3> HIDE DEF x, h
      <3>4. h \o <<x>> = Append(h, x)
        BY <3>1, <3>3, AppendOne
      <3> QED
        BY <3>1, <3>2, <3>4 DEF h
    <2> QED
      BY <2>1, <2>2
  <1>3. ASSUME NEW s \in Sources, NEW c \in Contents, Upsert(s, c)
        PROVE  \A t \in Sources :
                  \/ history'[t] = history[t]
                  \/ \E x \in Contents \cup {NoContent} : history'[t] = Append(history[t], x)
    BY <1>1, <1>2, <1>3, UpsertWrites DEF Upsert
  <1>4. ASSUME NEW D \in SUBSET Sources, Remove(D)
        PROVE  \A t \in Sources :
                  \/ history'[t] = history[t]
                  \/ \E x \in Contents \cup {NoContent} : history'[t] = Append(history[t], x)
    BY <1>1, <1>2, <1>4, RemoveWrites DEF Remove
  <1>5. CASE Compact \/ UNCHANGED journalVars
    BY <1>5 DEF Compact, CompactRead, CompactWrite, journalVars
  <1> QED
    BY <1>3, <1>4, <1>5 DEF JournalNext

LEMMA ReplicaStarts == Init => Replica!Init
  <1> SUFFICES ASSUME Init PROVE Replica!Init
    OBVIOUS
  <1>1. \A s \in Sources : catalog.items[s].revision = 0 /\ ~Listed(catalog, s)
    BY DEF Init, SyncInit, NoCatalog, NoItem, Listed
  <1> QED
    BY <1>1 DEF Init, JournalInit, Replica!Init

(* A page lets the catalog catch up. *)
LEMMA PageFollows ==
    ASSUME SyncInvariant, UNCHANGED journalVars, NEW p \in Pullers, ApplyPage(p)
    PROVE  Replica!Follow
  <1>1. /\ JournalTrue /\ CatalogOK /\ RowsTrue(pulls[p].rows)
        /\ catalog' = Applied(pulls[p].rows)
    BY DEF SyncInvariant, PullOK, ApplyPage
  <1>2. CaughtUp(catalog')
    BY <1>1, PageKeeps
  <1>3. ASSUME NEW s \in Sources
        PROVE  \/ /\ catalog'.items[s].revision = catalog.items[s].revision
                  /\ Displayed(catalog', s) = Displayed(catalog, s)
               \/ /\ catalog'.items[s].revision > catalog.items[s].revision
                  /\ catalog'.items[s].revision <= Len(history[s])
                  /\ Displayed(catalog', s) = history[s][catalog'.items[s].revision]
    <2>1. CASE catalog'.items[s] = catalog.items[s]
      BY <2>1 DEF Displayed, Listed
    <2>2. CASE catalog'.items[s] # catalog.items[s]
      BY <1>1, <1>2, <2>2 DEF CaughtUp, JournalTrue, Remembered
    <2> QED
      BY <2>1, <2>2
  <1>4. history' = history
    BY DEF journalVars
  <1> QED
    BY <1>3, <1>4 DEF Replica!Follow, Displayed

(* A retirement withdraws. *)
LEMMA RetirementWithdraws ==
    ASSUME SyncInvariant, UNCHANGED journalVars, NEW p \in Pullers, RetireUnbound(p)
    PROVE  Replica!Withdraw \/ UNCHANGED <<catalog, history>>
  <1>1. CASE UNCHANGED catalog
    BY <1>1 DEF journalVars
  <1>2. CASE catalog' = [catalog EXCEPT !.items = [s \in Sources |-> Withdrawn(@[s])],
                                        !.folders = FoldersLeft]
    <2>1. catalog \in Catalogs /\ \A s \in Sources : catalog.items[s] \in ItemRows
      BY DEF SyncInvariant, TypeOK, Catalogs
    <2>2. catalog'.items = [s \in Sources |-> Withdrawn(catalog.items[s])]
      BY <1>2, <2>1 DEF Catalogs
    <2>3. ASSUME NEW r \in ItemRows
          PROVE  Withdrawn(r).revision = r.revision /\ (Withdrawn(r).missing <=> r.revision > 0)
      <3> DEFINE gone == r.revision > 0
      <3>1. Withdrawn(r) = [r EXCEPT !.missing = gone]
        BY DEF Withdrawn
      <3> HIDE DEF gone
      <3>2. Withdrawn(r).revision = r.revision /\ Withdrawn(r).missing = gone
        BY <3>1 DEF ItemRows
      <3> QED
        BY <3>2 DEF gone
    <2>4. \A s \in Sources : /\ catalog'.items[s].revision = catalog.items[s].revision
                             /\ ~Listed(catalog', s)
      BY <2>1, <2>2, <2>3 DEF Listed
    <2> QED
      BY <2>4 DEF Replica!Withdraw, journalVars
  <1> QED
    BY <1>1, <1>2 DEF RetireUnbound

LEMMA ReplicaStep ==
    ASSUME SyncInvariant, [Next]_vars
    PROVE  [Replica!Next]_(Replica!vars)
  <1>1. CASE UNCHANGED <<catalog, history>>
    BY <1>1 DEF Replica!vars, Listed
  <1>2. CASE AgentStep
    <2>1. JournalTrue /\ JournalTrue' /\ UNCHANGED catalog
      BY <1>2, JournalTells DEF SyncInvariant, AgentStep, syncVars
    <2>2. \A s \in Sources :
              \/ history'[s] = history[s]
              \/ \E x \in Contents \cup {NoContent} : history'[s] = Append(history[s], x)
      BY <1>2, <2>1, HistoryAppends DEF AgentStep
    <2>3. history' \in [Sources -> Seq(Contents \cup {NoContent})]
      BY <2>1 DEF JournalTrue
    <2>4. Replica!Change
      BY <2>1, <2>2, <2>3 DEF Replica!Change, Listed
    <2> QED
      BY <2>4 DEF Replica!Next
  <1>3. ASSUME NEW p \in Pullers, ApplyPage(p), UNCHANGED journalVars
        PROVE  Replica!Next
    BY <1>3, PageFollows DEF Replica!Next
  <1>4. ASSUME NEW p \in Pullers, RetireUnbound(p), UNCHANGED journalVars
        PROVE  Replica!Next \/ UNCHANGED <<catalog, history>>
    BY <1>4, RetirementWithdraws DEF Replica!Next
  <1>5. \/ AgentStep
        \/ UNCHANGED <<catalog, history>>
        \/ \E p \in Pullers : (ApplyPage(p) \/ RetireUnbound(p)) /\ UNCHANGED journalVars
    BY DEF Next, SyncStep, Begin, BeginInstance, BeginLocal, BeginOthers, Finish,
           OthersIncomplete, Failure, LocalUnreachable, PageTooLarge, PageLost, PullRows,
           PullSources, Restart, TopologyChange, vars, journalVars, syncVars
  <1> QED
    BY <1>1, <1>2, <1>3, <1>4, <1>5

(* The catalog implements the abstract replica: it shows of a file what the
   agent said of it at the revision it claims, never goes back to an older
   revision, and shows nothing once the agent is retired (apply_agent_page(),
   retire_unbound_agent_states()). *)
THEOREM CatalogIsReplica == Spec => ImplementsLibrary
  <1>1. SyncInvariant /\ [Next]_vars => [Replica!Next]_(Replica!vars)
    BY ReplicaStep
  <1> QED
    BY <1>1, ReplicaStarts, SyncInvariantHolds, PTL DEF Spec, ImplementsLibrary, Replica!Spec
=============================================================================
