------------------------- MODULE SourceJournalProofs -------------------------
(***************************************************************************)
(* The journal of a library agent tells a reader everything, for any number *)
(* of sources, any contents and any compactions.                            *)
(***************************************************************************)
EXTENDS SourceJournal, FiniteSetTheorems, TLAPS

(* A source that is there has a content, so that its tombstone has one. *)
ContentsKnown == \A s \in Sources : sources[s].present => sources[s].content \in Contents

JournalTyped == JournalTypeOK /\ ContentsKnown

(* What a transaction is given to write. *)
RowsToWrite(D, rows) ==
    /\ D \subseteq Sources
    /\ rows \in [D -> SourceRows]
    /\ \A s \in D : rows[s].revision > 0 /\ rows[s].content \in Contents

(* A set of sources is finite, and its size a number. *)
LEMMA SourcesCounted ==
    ASSUME NEW D \in SUBSET Sources
    PROVE  IsFiniteSet(D) /\ Cardinality(D) \in Nat
  <1>1. IsFiniteSet(D)
    BY SourcesAssumption, FS_Subset
  <1>2. Cardinality(D) \in Nat
    BY <1>1, FS_CardinalityType
  <1> QED
    BY <1>1, <1>2

(* upsert_source() gives its transaction rows it can write. *)
LEMMA UpsertWrites ==
    ASSUME JournalTyped, NEW s \in Sources, NEW c \in Contents
    PROVE  RowsToWrite({s}, [t \in {s} |-> Stored(sources[t], c)])
  <1>1. sources[s] \in SourceRows /\ sources[s].revision \in Nat
    BY DEF JournalTyped, JournalTypeOK, SourceRows
  <1>2. /\ Stored(sources[s], c) \in SourceRows
        /\ Stored(sources[s], c).revision > 0
        /\ Stored(sources[s], c).content \in Contents
    BY <1>1 DEF Stored, SourceRows
  <1> QED
    BY <1>2 DEF RowsToWrite

(* So do mark_missing() and disable_root(). *)
LEMMA RemoveWrites ==
    ASSUME JournalTyped, NEW D \in SUBSET Sources, \A s \in D : Removable(s)
    PROVE  RowsToWrite(D, [s \in D |-> Tombstone(sources[s])])
  <1>1. ASSUME NEW s \in D
        PROVE  /\ Tombstone(sources[s]) \in SourceRows
               /\ Tombstone(sources[s]).revision > 0
               /\ Tombstone(sources[s]).content \in Contents
    <2>1. /\ sources[s] \in SourceRows /\ sources[s].revision \in Nat
          /\ sources[s].content \in Contents
      BY DEF JournalTyped, JournalTypeOK, ContentsKnown, SourceRows, Removable
    <2>2. ASSUME NEW row \in SourceRows
          PROVE  /\ Tombstone(row) \in SourceRows
                 /\ Tombstone(row).revision = row.revision + 1
                 /\ Tombstone(row).content = row.content
      <3>1. row.revision + 1 \in Nat
        BY DEF SourceRows
      <3> QED
        BY <3>1 DEF Tombstone, SourceRows
    <2> QED
      BY <2>1, <2>2
  <1> QED
    BY <1>1 DEF RowsToWrite

(* A transaction keeps the types. *)
LEMMA RecordTyped ==
    ASSUME JournalTyped, NEW D \in SUBSET Sources, NEW rows,
           RowsToWrite(D, rows), Record(D, rows), UNCHANGED batch
    PROVE  JournalTyped'
  <1>1. Cardinality(D) \in Nat /\ sequence \in Nat /\ MaxSequence \in Nat
    BY SourcesCounted, MaxSequenceAssumption DEF JournalTyped, JournalTypeOK
  <1>2. PICK n \in Numberings(D) :
            deltas' = {d \in deltas : ~(d.source \in D /\ d.reference)}
                         \cup {Delta(s, rows[s], n[s]) : s \in D}
    BY DEF Record
  <1>3. sources' \in [Sources -> SourceRows]
    BY DEF Record, RowsToWrite, JournalTyped, JournalTypeOK
  <1>4. \A s \in D : Delta(s, rows[s], n[s]) \in Deltas
    <2> SUFFICES ASSUME NEW s \in D PROVE Delta(s, rows[s], n[s]) \in Deltas
      OBVIOUS
    <2>1. n[s] \in Nat \ {0}
      BY <1>1 DEF Numberings
    <2>2. /\ rows[s].revision \in Nat \ {0} /\ rows[s].present \in BOOLEAN
          /\ rows[s].content \in Contents
      BY DEF RowsToWrite, SourceRows
    <2> QED
      BY <2>1, <2>2 DEF Delta, Deltas
  <1>5. deltas' \subseteq Deltas
    BY <1>2, <1>4 DEF JournalTyped, JournalTypeOK
  <1>6. sequence' \in 0 .. MaxSequence
    BY <1>1 DEF Record
  <1>7. batch' \in Batches
    BY DEF JournalTyped, JournalTypeOK
  <1>8. ContentsKnown'
    BY DEF Record, RowsToWrite, JournalTyped, JournalTypeOK, ContentsKnown
  <1> QED
    BY <1>3, <1>5, <1>6, <1>7, <1>8 DEF JournalTyped, JournalTypeOK

(* The compaction keeps the types. *)
LEMMA CompactTyped ==
    ASSUME JournalTyped, Compact
    PROVE  JournalTyped'
  <1>1. ASSUME NEW low, NEW high, CompactRead(low, high)
        PROVE  JournalTyped'
    <2>1. batch' \in Batches
      BY <1>1 DEF CompactRead, Window, Batches, Deltas, JournalTyped, JournalTypeOK
    <2> QED
      BY <1>1, <2>1 DEF CompactRead, JournalTyped, JournalTypeOK, ContentsKnown
  <1>2. CASE CompactWrite
    <2>1. \A d \in Deltas : [d EXCEPT !.reference = @ \/ d.sequence \in batch.refer] \in Deltas
      BY DEF Deltas
    <2>2. deltas' \subseteq Deltas
      BY <1>2, <2>1 DEF CompactWrite, JournalTyped, JournalTypeOK
    <2>3. batch' \in Batches
      BY <1>2 DEF CompactWrite, NoBatch, Batches
    <2> QED
      BY <1>2, <2>2, <2>3 DEF CompactWrite, JournalTyped, JournalTypeOK, ContentsKnown
  <1> QED
    BY <1>1, <1>2 DEF Compact

-----------------------------------------------------------------------------
(* No two deltas have one sequence, and none has one that was not handed out. *)
Unambiguous ==
    /\ \A d, e \in deltas : d.sequence = e.sequence => d = e
    /\ \A d \in deltas : d.sequence <= sequence

(* Whatever a compaction is about to delete was handed out already, and has
   been superseded. *)
DropsSuperseded ==
    /\ \A q \in batch.drop : q <= sequence
    /\ \A d \in deltas : d.sequence \in batch.drop => Superseded(d)

(* The newest delta of a source is about the row it has. *)
Announced(s) ==
    \E d \in deltas :
        /\ d.source = s
        /\ ~Superseded(d)
        /\ d.revision = sources[s].revision
        /\ d.removed = ~sources[s].present

JournalInvariant ==
    /\ JournalTyped
    /\ Unambiguous
    /\ DropsSuperseded
    /\ \A s \in Sources : sources[s].revision > 0 => Announced(s)

(* A transaction announces the rows it writes, and disturbs no other. *)
LEMMA RecordAnnounces ==
    ASSUME JournalInvariant, NEW D \in SUBSET Sources, NEW rows,
           RowsToWrite(D, rows), Record(D, rows), UNCHANGED batch
    PROVE  JournalInvariant'
  <1>1. JournalTyped'
    BY RecordTyped DEF JournalInvariant
  <1>2. Cardinality(D) \in Nat /\ sequence \in Nat
    BY SourcesCounted DEF JournalInvariant, JournalTyped, JournalTypeOK
  <1>3. PICK n \in Numberings(D) :
            deltas' = {d \in deltas : ~(d.source \in D /\ d.reference)}
                         \cup {Delta(s, rows[s], n[s]) : s \in D}
    BY DEF Record
  <1> DEFINE Kept == {d \in deltas : ~(d.source \in D /\ d.reference)}
             New(s) == Delta(s, rows[s], n[s])
  <1>4. /\ \A d \in deltas : d.sequence \in Nat /\ d.source \in Sources
        /\ sequence' = sequence + Cardinality(D)
        /\ \A d \in deltas : d.sequence <= sequence
    BY DEF Record, JournalInvariant, JournalTyped, JournalTypeOK, Deltas, Unambiguous
  <1>5. \A s \in D : /\ New(s) \in deltas'
                     /\ New(s).source = s
                     /\ New(s).sequence = n[s]
                     /\ n[s] \in Nat
                     /\ sequence < n[s] /\ n[s] <= sequence'
                     /\ New(s).revision = rows[s].revision
                     /\ New(s).removed = ~rows[s].present
    <2> SUFFICES ASSUME NEW s \in D
                 PROVE  /\ New(s) \in deltas'
                        /\ New(s).source = s
                        /\ New(s).sequence = n[s]
                        /\ n[s] \in Nat
                        /\ sequence < n[s] /\ n[s] <= sequence'
                        /\ New(s).revision = rows[s].revision
                        /\ New(s).removed = ~rows[s].present
      OBVIOUS
    <2>1. New(s) \in deltas'
      BY <1>3
    <2>2. n[s] \in sequence + 1 .. sequence + Cardinality(D)
      BY <1>3 DEF Numberings
    <2>3. /\ New(s).source = s
          /\ New(s).sequence = n[s]
          /\ New(s).revision = rows[s].revision
      BY DEF Delta
    <2>4. New(s).removed = ~rows[s].present
      BY DEF Delta
    <2> QED
      BY <1>2, <1>4, <2>1, <2>2, <2>3, <2>4
  <1>6. \A d \in deltas' : d \in deltas \/ \E s \in D : d = New(s)
    BY <1>3
  <1>7. \A s, t \in D : n[s] = n[t] => s = t
    BY <1>3 DEF Numberings
  <1>8. Unambiguous'
    <2>1. ASSUME NEW d \in deltas', NEW e \in deltas', d.sequence = e.sequence PROVE d = e
      <3>1. CASE d \in deltas /\ e \in deltas
        BY <2>1, <3>1 DEF JournalInvariant, Unambiguous
      <3>2. CASE \E s \in D : d = New(s)
        BY <1>2, <1>4, <1>5, <1>6, <1>7, <2>1, <3>2
      <3>3. CASE \E s \in D : e = New(s)
        BY <1>2, <1>4, <1>5, <1>6, <1>7, <2>1, <3>3
      <3> QED
        BY <1>6, <3>1, <3>2, <3>3
    <2>2. ASSUME NEW d \in deltas' PROVE d.sequence <= sequence'
      BY <1>2, <1>4, <1>5, <1>6
    <2> QED
      BY <2>1, <2>2 DEF Unambiguous
  <1>9. ASSUME NEW d \in deltas', d \in deltas, Superseded(d) PROVE Superseded(d)'
    <2>1. PICK e \in deltas : e.source = d.source /\ e.sequence > d.sequence
      BY <1>9 DEF Superseded
    <2>2. CASE e \in deltas'
      BY <2>1, <2>2 DEF Superseded
    <2>3. CASE e \notin deltas'
      <3>1. e.source \in D
        BY <1>3, <2>3
      <3>2. New(e.source) \in deltas' /\ New(e.source).source = d.source
        BY <1>5, <2>1, <3>1
      <3>3. New(e.source).sequence > d.sequence
        BY <1>2, <1>4, <1>5, <1>9, <3>1
      <3> QED
        BY <3>2, <3>3 DEF Superseded
    <2> QED
      BY <2>2, <2>3
  <1>10. DropsSuperseded'
    <2>1. \A q \in batch'.drop : q <= sequence'
      BY <1>2, <1>4 DEF JournalInvariant, DropsSuperseded, JournalTyped, JournalTypeOK, Batches
    <2>2. ASSUME NEW d \in deltas', d.sequence \in batch'.drop PROVE Superseded(d)'
      <3>1. d \in deltas
        BY <1>2, <1>5, <1>6, <2>2 DEF JournalInvariant, DropsSuperseded
      <3>2. Superseded(d)
        BY <2>2, <3>1 DEF JournalInvariant, DropsSuperseded
      <3> QED
        BY <1>9, <3>1, <3>2
    <2> QED
      BY <2>1, <2>2 DEF DropsSuperseded
  <1>11. ASSUME NEW s \in Sources, sources'[s].revision > 0 PROVE Announced(s)'
    <2>1. CASE s \in D
      <3>1. sources'[s] = rows[s]
        BY <2>1 DEF Record
      <3>2. ~Superseded(New(s))'
        BY <1>2, <1>4, <1>5, <1>6, <2>1 DEF Superseded
      <3> QED
        BY <1>5, <2>1, <3>1, <3>2 DEF Announced
    <2>2. CASE s \notin D
      <3>1. sources'[s] = sources[s]
        BY <2>2 DEF Record
      <3>2. PICK d \in deltas : /\ d.source = s
                                /\ ~Superseded(d)
                                /\ d.revision = sources[s].revision
                                /\ d.removed = ~sources[s].present
        BY <1>11, <3>1 DEF JournalInvariant, Announced
      <3>3. d \in deltas'
        BY <1>3, <2>2, <3>2
      <3>4. ~Superseded(d)'
        BY <1>5, <1>6, <2>2, <3>2 DEF Superseded
      <3> QED
        BY <3>1, <3>2, <3>3, <3>4 DEF Announced
    <2> QED
      BY <2>1, <2>2
  <1> QED
    BY <1>1, <1>8, <1>10, <1>11 DEF JournalInvariant

(* A compaction decides on deltas that are superseded, ... *)
LEMMA CompactReadKeeps ==
    ASSUME JournalInvariant, NEW low, NEW high, CompactRead(low, high)
    PROVE  JournalInvariant'
  <1>1. JournalTyped'
    BY CompactTyped DEF JournalInvariant, CompactRead, JournalTyped, JournalTypeOK,
                        ContentsKnown, Window, Batches, Deltas
  <1>2. UNCHANGED <<sources, deltas, sequence>>
    BY DEF CompactRead
  <1>3. batch'.drop = {d.sequence : d \in {e \in Window(low, high) : Superseded(e)}}
    BY DEF CompactRead
  <1>4. DropsSuperseded'
    <2>1. \A q \in batch'.drop :
             \E d \in deltas : d.sequence = q /\ Superseded(d)
      BY <1>3 DEF Window
    <2> QED
      BY <1>2, <2>1 DEF DropsSuperseded, Superseded, JournalInvariant, Unambiguous
  <1>5. Unambiguous' /\ \A s \in Sources : sources'[s].revision > 0 => Announced(s)'
    BY <1>2 DEF JournalInvariant, Unambiguous, Announced, Superseded
  <1> QED
    BY <1>1, <1>4, <1>5 DEF JournalInvariant

(* ... and deletes them while they still are, whatever was written meanwhile. *)
LEMMA CompactWriteKeeps ==
    ASSUME JournalInvariant, CompactWrite
    PROVE  JournalInvariant'
  <1> DEFINE Marked(d) == [d EXCEPT !.reference = @ \/ d.sequence \in batch.refer]
  <1>1. JournalTyped'
    BY CompactTyped DEF JournalInvariant, Compact
  <1>2. /\ UNCHANGED <<sources, sequence>>
        /\ deltas' = {Marked(d) : d \in {e \in deltas : e.sequence \notin batch.drop}}
        /\ batch'.drop = {}
    BY DEF CompactWrite, NoBatch
  <1>3. \A d \in deltas : /\ Marked(d).sequence = d.sequence
                          /\ Marked(d).source = d.source
                          /\ Marked(d).revision = d.revision
                          /\ Marked(d).removed = d.removed
    BY DEF JournalInvariant, JournalTyped, JournalTypeOK, Deltas
  <1>4. Unambiguous'
    <2>1. ASSUME NEW d \in deltas', NEW e \in deltas', d.sequence = e.sequence PROVE d = e
      <3>1. PICK x \in deltas : d = Marked(x)
        BY <1>2
      <3>2. PICK y \in deltas : e = Marked(y)
        BY <1>2
      <3>3. x = y
        BY <1>3, <2>1, <3>1, <3>2 DEF JournalInvariant, Unambiguous
      <3> QED
        BY <3>1, <3>2, <3>3
    <2>2. ASSUME NEW d \in deltas' PROVE d.sequence <= sequence'
      <3>1. PICK x \in deltas : d = Marked(x)
        BY <1>2
      <3> QED
        BY <1>2, <1>3, <3>1 DEF JournalInvariant, Unambiguous
    <2> QED
      BY <2>1, <2>2 DEF Unambiguous
  <1>5. DropsSuperseded'
    BY <1>2 DEF DropsSuperseded
  <1>6. ASSUME NEW s \in Sources, sources'[s].revision > 0 PROVE Announced(s)'
    <2>1. PICK d \in deltas : /\ d.source = s
                              /\ ~Superseded(d)
                              /\ d.revision = sources[s].revision
                              /\ d.removed = ~sources[s].present
      BY <1>2, <1>6 DEF JournalInvariant, Announced
    <2>2. d.sequence \notin batch.drop
      BY <2>1 DEF JournalInvariant, DropsSuperseded
    <2>3. PICK m \in deltas' : /\ m.source = d.source
                               /\ m.sequence = d.sequence
                               /\ m.revision = d.revision
                               /\ m.removed = d.removed
      BY <1>2, <1>3, <2>1, <2>2
    <2>4. ~Superseded(m)'
      <3>1. ASSUME NEW e \in deltas'
            PROVE  \E x \in deltas : e.source = x.source /\ e.sequence = x.sequence
        <4>1. PICK x \in deltas : e = Marked(x)
          BY <1>2
        <4> QED
          BY <1>3, <4>1
      <3> QED
        BY <2>1, <2>3, <3>1 DEF Superseded
    <2> QED
      BY <1>2, <2>1, <2>3, <2>4 DEF Announced
  <1> QED
    BY <1>1, <1>4, <1>5, <1>6 DEF JournalInvariant

(* The invariant of the journal, and what it implies. *)
THEOREM JournalInvariantHolds == JournalSpec => []JournalInvariant
  <1>1. JournalInit => JournalInvariant
    <2> SUFFICES ASSUME JournalInit PROVE JournalInvariant
      OBVIOUS
    <2>1. JournalTyped
      BY MaxSequenceAssumption
      DEF JournalInit, JournalTyped, JournalTypeOK, ContentsKnown, NoRow, SourceRows,
          NoBatch, Batches
    <2> QED
      BY <2>1 DEF JournalInit, JournalInvariant, Unambiguous, DropsSuperseded, NoBatch, NoRow
  <1>2. JournalInvariant /\ [JournalNext]_journalVars => JournalInvariant'
    <2> SUFFICES ASSUME JournalInvariant, [JournalNext]_journalVars PROVE JournalInvariant'
      OBVIOUS
    <2>1. ASSUME NEW s \in Sources, NEW c \in Contents, Upsert(s, c) PROVE JournalInvariant'
      BY <2>1, UpsertWrites, RecordAnnounces DEF Upsert, JournalInvariant
    <2>2. ASSUME NEW D \in SUBSET Sources, Remove(D) PROVE JournalInvariant'
      BY <2>2, RemoveWrites, RecordAnnounces DEF Remove, JournalInvariant
    <2>3. CASE Compact
      BY <2>3, CompactReadKeeps, CompactWriteKeeps DEF Compact
    <2>4. CASE UNCHANGED journalVars
      BY <2>4 DEF journalVars, JournalInvariant, JournalTyped, JournalTypeOK, ContentsKnown,
                  Unambiguous, DropsSuperseded, Announced, Superseded
    <2> QED
      BY <2>1, <2>2, <2>3, <2>4 DEF JournalNext
  <1> QED
    BY <1>1, <1>2, PTL DEF JournalSpec

(* The tables of the agent keep their types. *)
THEOREM JournalTypeCorrect == JournalSpec => []JournalTypeOK
  <1>1. JournalInvariant => JournalTypeOK
    BY DEF JournalInvariant, JournalTyped
  <1> QED
    BY <1>1, JournalInvariantHolds, PTL

(* Whatever is written and compacted, the journal tells a reader who starts
   anywhere the present row of every source (_insert_delta(),
   compact_storage_batch()). *)
THEOREM JournalIsComplete == JournalSpec => []JournalComplete
  <1>1. JournalInvariant => JournalComplete
    BY DEF JournalInvariant, JournalComplete, Unambiguous, Announced
  <1> QED
    BY <1>1, JournalInvariantHolds, PTL
=============================================================================
