---------------------------- MODULE SourceJournal ----------------------------
(***************************************************************************)
(* The tables of one media library agent that a coordinator follows: the   *)
(* sources table and the journal of source deltas, their transactions, the *)
(* compaction of the journal and the two reads of pull_deltas().            *)
(*                                                                         *)
(* Abstracted: the descriptor, the metadata and the fingerprint of a       *)
(* source are one content; a delta is past its grace period at any time.   *)
(* Not covered: the "sources" and "deltas" phases of the compaction, which *)
(* rewrite rows to an equivalent form, and compactions of two processes at *)
(* the same time.                                                          *)
(***************************************************************************)
EXTENDS Naturals, Sequences, FiniteSets

CONSTANTS
    Sources,        \* files of the library; a row's id is a hash of its path
    Contents,       \* what a row may say of a file
    NoContent,      \* the content of a source that has no row
    MaxSequence     \* bound on the deltas ever written

ASSUME NoContentAssumption == NoContent \notin Contents
ASSUME SourcesAssumption == IsFiniteSet(Sources)
ASSUME MaxSequenceAssumption == MaxSequence \in Nat

VARIABLES
    sources,        \* the sources table; a source without a row has revision 0
    deltas,         \* the source_deltas table
    sequence,       \* the last sequence that table has handed out
    batch,          \* the rows a compaction has read and not yet written
    history         \* every content each source has had, in order; not in the code

journalVars == <<sources, deltas, sequence, batch, history>>

SourceRows == [revision : Nat, present : BOOLEAN, content : Contents \cup {NoContent}]
NoRow == [revision |-> 0, present |-> FALSE, content |-> NoContent]
Deltas == [sequence : Nat \ {0}, source : Sources, revision : Nat \ {0},
           removed : BOOLEAN, content : Contents, reference : BOOLEAN]
Batches == [drop : SUBSET (Nat \ {0}), refer : SUBSET (Nat \ {0})]
NoBatch == [drop |-> {}, refer |-> {}]

JournalInit ==
    /\ sources = [s \in Sources |-> NoRow]
    /\ deltas = {}
    /\ sequence = 0
    /\ batch = NoBatch
    /\ history = [s \in Sources |-> <<>>]

-----------------------------------------------------------------------------
(* What one transaction writes: a new row for every source of D, and for   *)
(* each of them a delta, which replaces the reference to its former row.    *)

Delta(s, row, number) ==
    [sequence |-> number, source |-> s, revision |-> row.revision,
     removed |-> ~row.present, content |-> row.content, reference |-> FALSE]

Shown(row) == IF row.present THEN row.content ELSE NoContent

(* Variant: the next sequence is one more than the largest in the table. *)
NumberingsReused(D) ==
    LET last == CHOOSE q \in 0 .. sequence :
                    /\ \A d \in deltas : d.sequence <= q \/ (d.source \in D /\ d.reference)
                    /\ \A p \in 0 .. q - 1 : \E d \in deltas :
                           d.sequence > p /\ ~(d.source \in D /\ d.reference)
    IN {n \in [D -> last + 1 .. last + Cardinality(D)] : \A s, t \in D : n[s] = n[t] => s = t}

(* AUTOINCREMENT: a sequence is never handed out twice. *)
Numberings(D) ==
    {n \in [D -> sequence + 1 .. sequence + Cardinality(D)] :
        \A s, t \in D : n[s] = n[t] => s = t}

Record(D, rows) ==
    /\ sequence + Cardinality(D) <= MaxSequence
    /\ \E n \in Numberings(D) :
           deltas' = {d \in deltas : ~(d.source \in D /\ d.reference)}
                        \cup {Delta(s, rows[s], n[s]) : s \in D}
    /\ sequence' = sequence + Cardinality(D)
    /\ sources' = [s \in Sources |-> IF s \in D THEN rows[s] ELSE sources[s]]
    /\ history' = [s \in Sources |-> IF s \in D THEN history[s] \o <<Shown(rows[s])>>
                                                ELSE history[s]]

(* What is written in place of a row that was read before. *)
Stored(row, c) == [revision |-> row.revision + 1, present |-> TRUE, content |-> c]
Tombstone(row) == [row EXCEPT !.revision = @ + 1, !.present = FALSE]

(* upsert_source() of a source that changed; one that did not writes nothing
   a reader of the journal can see. *)
Upsert(s, c) ==
    /\ sources[s].present => sources[s].content # c
    /\ Record({s}, [t \in {s} |-> Stored(sources[t], c)])
    /\ UNCHANGED batch

(* Variant: sources that are not present are removed as well. *)
RemovableAny(s) == TRUE

Removable(s) == sources[s].present

(* mark_missing() and disable_root(): all the tombstones in one transaction. *)
Remove(D) ==
    /\ D # {}
    /\ \A s \in D : Removable(s)
    /\ Record(D, [s \in D |-> Tombstone(sources[s])])
    /\ UNCHANGED batch

-----------------------------------------------------------------------------
(* compact_storage_batch() reads a window of the journal and writes what it
   decided on in a transaction of its own. *)

(* Variant: the newest delta of a source is deleted as well. *)
SupersededAny(d) == \E e \in deltas : e.sequence > d.sequence

Superseded(d) == \E e \in deltas : e.source = d.source /\ e.sequence > d.sequence

Window(low, high) == {d \in deltas : low < d.sequence /\ d.sequence <= high}

CompactRead(low, high) ==
    LET old     == Window(low, high)
        drop    == {d \in old : Superseded(d)}
        current == {d \in old \ drop : /\ d.revision = sources[d.source].revision
                                       /\ ~d.removed
                                       /\ ~d.reference}
    IN /\ batch = NoBatch
       /\ drop \cup current # {}
       /\ batch' = [drop |-> {d.sequence : d \in drop}, refer |-> {d.sequence : d \in current}]
       /\ UNCHANGED <<sources, deltas, sequence, history>>

CompactWrite ==
    /\ batch # NoBatch
    /\ deltas' = {[d EXCEPT !.reference = @ \/ d.sequence \in batch.refer] :
                    d \in {e \in deltas : e.sequence \notin batch.drop}}
    /\ batch' = NoBatch
    /\ UNCHANGED <<sources, sequence, history>>

-----------------------------------------------------------------------------
(* pull_deltas(): the rows after a cursor, and then, in a second read, the
   sources that the references among them stand for. *)

After(cursor) == {d \in deltas : d.sequence > cursor}

Page(cursor, limit) ==
    {d \in After(cursor) :
        Cardinality({e \in After(cursor) : e.sequence <= d.sequence}) <= limit}

HasMore(cursor, limit) == Cardinality(After(cursor)) > limit

NextCursor(cursor, rows) ==
    IF rows = {} THEN cursor
    ELSE CHOOSE q \in {d.sequence : d \in rows} : \A d \in rows : d.sequence <= q

(* Variant: a reference is expanded to whatever the source says now. *)
ReadableAlways(d) == TRUE

Readable(d) == d.reference => sources[d.source].revision = d.revision

Expanded(rows) ==
    {[d EXCEPT !.content = IF d.reference THEN sources[d.source].content ELSE @,
               !.reference = FALSE] : d \in {e \in rows : Readable(e)}}

-----------------------------------------------------------------------------
Compact ==
    \/ \E low \in 0 .. sequence : \E high \in low + 1 .. sequence : CompactRead(low, high)
    \/ CompactWrite

JournalNext ==
    \/ \E s \in Sources, c \in Contents : Upsert(s, c)
    \/ \E D \in SUBSET Sources : Remove(D)
    \/ Compact

JournalSpec == JournalInit /\ [][JournalNext]_journalVars

JournalTypeOK ==
    /\ sources \in [Sources -> SourceRows]
    /\ deltas \subseteq Deltas
    /\ sequence \in 0 .. MaxSequence
    /\ batch \in Batches

(* The journal tells a reader who starts anywhere everything it has to
   know: whatever was compacted, the newest delta of a source is there, is
   about its row as it is now, and no delta has the sequence of another. *)
JournalComplete ==
    /\ \A d, e \in deltas : d.sequence = e.sequence => d = e
    /\ \A d \in deltas : d.sequence <= sequence
    /\ \A s \in Sources : sources[s].revision > 0 =>
          \E d \in deltas :
              /\ d.source = s
              /\ ~Superseded(d)
              /\ d.revision = sources[s].revision
              /\ d.removed = ~sources[s].present
=============================================================================
