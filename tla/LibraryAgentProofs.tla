-------------------------- MODULE LibraryAgentProofs --------------------------
(* The scans of a library agent, for any directories, files, threads and     *)
(* bounds: what they write, what they may announce as removed, and what a    *)
(* scan that was completed has found out.                                    *)
EXTENDS LibraryAgent, SourceJournalProofs, SequenceTheorems

-----------------------------------------------------------------------------
(* Which steps write what *)

LEMMA JournalSteps ==
    ASSUME [Next]_vars
    PROVE  \/ UNCHANGED journalVars
           \/ \E t \in Threads : Disable(t)
           \/ \E s \in Sources : Write(s)
           \/ MarkMissing
<1>1. ASSUME NEW t \in Threads, Call(t), ~Disable(t) PROVE UNCHANGED journalVars
  BY <1>1 DEF Call, StartScan, Queue, CancelScan, Cancel, RemoveRoot
<1>2. ASSUME Outside \/ EnsureStarted \/ AddRoot \/ Fail PROVE UNCHANGED journalVars
  BY <1>2 DEF Outside, DiskChange, Dispose, Restart, EnsureStarted, AddRoot, Fail
<1>3. ASSUME Work, ~MarkMissing, ~ \E s \in Sources : Write(s) PROVE UNCHANGED journalVars
  BY <1>3 DEF Work, Claim, List, PassOver, Abort, Visit, Complete
<1>4. ASSUME NEW s \in Sources, LeaveOut(s) PROVE UNCHANGED journalVars
  BY <1>4 DEF LeaveOut
<1>5. UNCHANGED vars => UNCHANGED journalVars
  BY DEF vars
<1> QED BY <1>1, <1>2, <1>3, <1>4, <1>5 DEF Next

LEMMA ScanSteps ==
    ASSUME [Next]_vars
    PROVE  \/ UNCHANGED scans
           \/ Restart \/ Claim \/ Fail \/ Complete
           \/ \E s \in Sources : Abort(s)
           \/ \E t \in Threads : Queue(t) \/ Cancel(t) \/ Disable(t)
<1>1. ASSUME NEW t \in Threads, StartScan(t) \/ CancelScan(t) \/ RemoveRoot(t)
      PROVE  UNCHANGED scans
  BY <1>1 DEF StartScan, CancelScan, RemoveRoot
<1>2. ASSUME Dispose \/ EnsureStarted \/ AddRoot \/ \E s \in Sources : DiskChange(s)
      PROVE  UNCHANGED scans
  BY <1>2 DEF DiskChange, Dispose, EnsureStarted, AddRoot
<1>3. ASSUME NEW s \in Sources, PassOver(s) \/ Visit(s) \/ Write(s) \/ LeaveOut(s)
      PROVE  UNCHANGED scans
  BY <1>3 DEF PassOver, Visit, Write, LeaveOut
<1>4. ASSUME MarkMissing \/ \E d \in Directories : List(d) PROVE UNCHANGED scans
  BY <1>4 DEF MarkMissing, List
<1>5. UNCHANGED vars => UNCHANGED scans
  BY DEF vars, agentVars
<1> QED BY <1>1, <1>2, <1>3, <1>4, <1>5 DEF Next, Outside, Call, Work

LEMMA CallSteps ==
    ASSUME [Next]_vars
    PROVE  \/ UNCHANGED calls
           \/ Restart
           \/ \E t \in Threads : Call(t)
<1>1. ASSUME Dispose \/ EnsureStarted \/ AddRoot \/ Fail \/ \E s \in Sources : DiskChange(s)
      PROVE  UNCHANGED calls
  BY <1>1 DEF DiskChange, Dispose, EnsureStarted, AddRoot, Fail
<1>2. ASSUME Work PROVE UNCHANGED calls
  BY <1>2 DEF Work, Claim, List, PassOver, Abort, Visit, Write, MarkMissing, Complete
<1>3. ASSUME NEW s \in Sources, LeaveOut(s) PROVE UNCHANGED calls
  BY <1>3 DEF LeaveOut
<1>4. UNCHANGED vars => UNCHANGED calls
  BY DEF vars, agentVars
<1> QED BY <1>1, <1>2, <1>3, <1>4 DEF Next, Outside

LEMMA WorkerSteps ==
    ASSUME [Next]_vars
    PROVE  \/ UNCHANGED worker
           \/ Restart \/ Fail \/ Work
           \/ \E s \in Sources : LeaveOut(s)
<1>1. ASSUME NEW t \in Threads, Call(t) PROVE UNCHANGED worker
  BY <1>1 DEF Call, StartScan, Queue, CancelScan, Cancel, RemoveRoot, Disable
<1>2. ASSUME Dispose \/ EnsureStarted \/ AddRoot \/ \E s \in Sources : DiskChange(s)
      PROVE  UNCHANGED worker
  BY <1>2 DEF DiskChange, Dispose, EnsureStarted, AddRoot
<1>3. UNCHANGED vars => UNCHANGED worker
  BY DEF vars, agentVars
<1> QED BY <1>1, <1>2, <1>3 DEF Next, Outside

-----------------------------------------------------------------------------
(* Types *)

\* What a call has in its hands: the scan it cancels is there, and a row that it
\* has read as present is the row of a source with a content.
CallOK(k) ==
    /\ k.op = "cancel" => k.scan \in DOMAIN scans
    /\ \A s \in Sources : k.rows[s].present => sources[s].content \in Contents

\* What the worker has in its hands.
WorkerOK ==
    /\ worker.phase # "idle" => worker.scan \in DOMAIN scans
    /\ worker.phase # "write" => worker.file = {}
    /\ worker.phase = "write" =>
          /\ \E s \in Sources : worker.file = {s}
          /\ worker.content \in Contents
          /\ worker.row.present => worker.row.content \in Contents

AgentInv ==
    /\ TypeOK
    /\ ContentsKnown
    /\ WorkerOK
    /\ \A t \in Threads : CallOK(calls[t])

\* What no step takes back.
Lasting ==
    /\ DOMAIN scans \subseteq DOMAIN scans'
    /\ \A s \in Sources : sources[s].content \in Contents => sources'[s].content \in Contents

LEMMA RestingTyped == Resting \in Workers
BY MaxScansAssumption DEF Resting, Workers, Phases, NoRow, SourceRows

LEMMA NoCallTyped == NoCall \in Calls
BY MaxScansAssumption DEF NoCall, Calls, NoRow, SourceRows

LEMMA AgentInit == Init => AgentInv
<1> SUFFICES ASSUME Init PROVE AgentInv
  OBVIOUS
<1>1. JournalTypeOK /\ ContentsKnown
  BY MaxSequenceAssumption
     DEF Init, JournalInit, JournalTypeOK, ContentsKnown, NoRow, SourceRows, NoBatch, Batches
<1>2. worker \in Workers /\ calls \in [Threads -> Calls]
  BY RestingTyped, NoCallTyped DEF Init
<1>3. scans \in Seq(Scan) /\ Len(scans) <= MaxScans
  BY MaxScansAssumption DEF Init
<1>4. witness \in Witnesses
  BY DEF Init, NoWitness, Witnesses
<1>5. disk \in [Sources -> Contents \cup {NoContent}] /\ events \in 0 .. MaxEvents
  BY MaxEventsAssumption DEF Init
<1>6. enabled \in BOOLEAN /\ stopping \in BOOLEAN
  BY DEF Init
<1>7. WorkerOK
  BY DEF Init, WorkerOK, Resting
<1>8. \A t \in Threads : CallOK(calls[t])
  BY DEF Init, CallOK, NoCall, NoRow
<1> QED BY <1>1, <1>2, <1>3, <1>4, <1>5, <1>6, <1>7, <1>8 DEF AgentInv, TypeOK

\* What a walk writes of a file: its row, as it was read, with a new content.
LEMMA WriteStep ==
    ASSUME AgentInv, NEW s \in Sources, Write(s)
    PROVE  /\ JournalTypeOK' /\ ContentsKnown'
           /\ \A u \in Sources : sources[u].content \in Contents => sources'[u].content \in Contents
<1>1. /\ worker.phase = "write" /\ s \in worker.file
      /\ worker.row \in SourceRows /\ worker.content \in Contents
      /\ worker.row.present => worker.row.content \in Contents
      /\ JournalTyped
  BY DEF Write, AgentInv, TypeOK, Workers, WorkerOK, JournalTyped
<1>2. CASE UNCHANGED journalVars
  BY <1>1, <1>2 DEF journalVars, JournalTyped, JournalTypeOK, ContentsKnown
<1>3. CASE /\ Unchanged(worker.row, worker.content)
           /\ sources' = [sources EXCEPT ![s] = worker.row]
           /\ UNCHANGED <<deltas, sequence, batch, history>>
  <2>1. worker.row.content \in Contents
    BY <1>1, <1>3 DEF Unchanged
  <2> QED BY <1>1, <1>3, <2>1 DEF JournalTyped, JournalTypeOK, ContentsKnown
<1> DEFINE rows == [t \in {s} |-> Stored(worker.row, worker.content)]
<1>4. CASE Record({s}, rows) /\ UNCHANGED batch
  <2>1. RowsToWrite({s}, rows)
    <3>1. worker.row.revision \in Nat
      BY <1>1 DEF SourceRows
    <3>2. /\ Stored(worker.row, worker.content) \in SourceRows
          /\ Stored(worker.row, worker.content).revision > 0
          /\ Stored(worker.row, worker.content).content \in Contents
      BY <1>1, <3>1 DEF Stored, SourceRows
    <3> QED BY <3>2 DEF RowsToWrite
  <2>2. JournalTyped'
    BY <1>1, <1>4, <2>1, RecordTyped
  <2>3. \A u \in Sources : sources[u].content \in Contents => sources'[u].content \in Contents
    BY <1>4, <2>1 DEF Record, RowsToWrite
  <2> QED BY <2>2, <2>3 DEF JournalTyped
<1> QED BY <1>2, <1>3, <1>4 DEF Write

\* Tombstones, with revisions that were read earlier or now.
LEMMA TombstonesTyped ==
    ASSUME AgentInv, NEW D \in SUBSET Sources, NEW rows, DOMAIN rows = D,
           rows = [s \in D |-> rows[s]],
           \A s \in D : /\ sources[s].content \in Contents
                        /\ \E n \in Nat : rows[s] = Tombstone([sources[s] EXCEPT !.revision = n]),
           Record(D, rows), UNCHANGED batch
    PROVE  /\ JournalTypeOK' /\ ContentsKnown'
           /\ \A u \in Sources : sources[u].content \in Contents => sources'[u].content \in Contents
<1>1. ASSUME NEW s \in D
      PROVE  rows[s] \in SourceRows /\ rows[s].revision > 0 /\ rows[s].content \in Contents
  <2>1. PICK n \in Nat : rows[s] = Tombstone([sources[s] EXCEPT !.revision = n])
    OBVIOUS
  <2>2. sources[s] \in SourceRows /\ sources[s].content \in Contents
    BY DEF AgentInv, TypeOK, JournalTypeOK
  <2>3. \A row \in SourceRows :
           /\ Tombstone(row) \in SourceRows
           /\ Tombstone(row).revision = row.revision + 1
           /\ Tombstone(row).content = row.content
    <3>1. \A row \in SourceRows : row.revision + 1 \in Nat
      BY DEF SourceRows
    <3> QED BY <3>1 DEF Tombstone, SourceRows
  <2> DEFINE read == [sources[s] EXCEPT !.revision = n]
  <2>4. read \in SourceRows /\ read.revision = n /\ read.content = sources[s].content
    BY <2>2 DEF SourceRows
  <2>5. rows[s] = Tombstone(read)
    BY <2>1
  <2> HIDE DEF read
  <2> QED BY <2>2, <2>3, <2>4, <2>5
<1>2. RowsToWrite(D, rows)
  BY <1>1 DEF RowsToWrite
<1>3. JournalTyped'
  BY <1>2, RecordTyped DEF AgentInv, TypeOK, JournalTyped
<1>4. \A u \in Sources : sources[u].content \in Contents => sources'[u].content \in Contents
  BY <1>2 DEF Record, RowsToWrite
<1> QED BY <1>3, <1>4 DEF JournalTyped

LEMMA JournalKept ==
    ASSUME AgentInv, [Next]_vars
    PROVE  /\ JournalTypeOK' /\ ContentsKnown'
           /\ \A u \in Sources : sources[u].content \in Contents => sources'[u].content \in Contents
<1>1. CASE UNCHANGED journalVars
  BY <1>1 DEF AgentInv, TypeOK, journalVars, JournalTypeOK, ContentsKnown
<1>2. ASSUME NEW t \in Threads, Disable(t)
      PROVE  /\ JournalTypeOK' /\ ContentsKnown'
             /\ \A u \in Sources : sources[u].content \in Contents => sources'[u].content \in Contents
  <2> DEFINE read == calls[t].rows
             gone == {s \in Sources : read[s].present}
             rows == [s \in gone |-> Tombstone([sources[s] EXCEPT !.revision = read[s].revision])]
  <2>1. Record(gone, rows) /\ UNCHANGED batch
    BY <1>2 DEF Disable
  <2>2. \A s \in gone : sources[s].content \in Contents /\ read[s].revision \in Nat
    BY DEF AgentInv, TypeOK, Calls, SourceRows, CallOK
  <2>3. \A s \in gone : \E n \in Nat : rows[s] = Tombstone([sources[s] EXCEPT !.revision = n])
    BY <2>2
  <2>4. DOMAIN rows = gone /\ rows = [s \in gone |-> rows[s]] /\ gone \in SUBSET Sources
    OBVIOUS
  <2> HIDE DEF gone, rows, read
  <2> QED BY <2>1, <2>2, <2>3, <2>4, TombstonesTyped
<1>3. CASE MarkMissing
  <2> DEFINE rows == [s \in Missing |-> Tombstone(sources[s])]
  <2>1. Record(Missing, rows) /\ UNCHANGED batch
    BY <1>3 DEF MarkMissing
  <2>2. Missing \in SUBSET Sources /\ \A s \in Missing : sources[s].content \in Contents
    BY DEF Missing, Present, AgentInv, ContentsKnown
  <2>3. ASSUME NEW s \in Missing
        PROVE  \E n \in Nat : rows[s] = Tombstone([sources[s] EXCEPT !.revision = n])
    <3>1. sources[s] \in SourceRows /\ sources[s].revision \in Nat
      BY <2>2 DEF AgentInv, TypeOK, JournalTypeOK, SourceRows
    <3>2. sources[s] = [sources[s] EXCEPT !.revision = sources[s].revision]
      BY <3>1 DEF SourceRows
    <3> QED BY <3>1, <3>2
  <2>4. DOMAIN rows = Missing /\ rows = [s \in Missing |-> rows[s]]
    OBVIOUS
  <2> HIDE DEF rows
  <2> QED BY <2>1, <2>2, <2>3, <2>4, TombstonesTyped
<1> QED BY <1>1, <1>2, <1>3, WriteStep, JournalSteps

LEMMA ScansKept ==
    ASSUME AgentInv, [Next]_vars
    PROVE  scans' \in Seq(Scan) /\ Len(scans') <= MaxScans /\ DOMAIN scans \subseteq DOMAIN scans'
<1>1. scans \in Seq(Scan) /\ Len(scans) \in Nat /\ Len(scans) <= MaxScans
  BY DEF AgentInv, TypeOK
<1>2. scans \in [1 .. Len(scans) -> Scan] /\ DOMAIN scans = 1 .. Len(scans)
  BY <1>1
<1>3. ASSUME scans' \in [1 .. Len(scans) -> Scan]
      PROVE  scans' \in Seq(Scan) /\ Len(scans') <= MaxScans /\ DOMAIN scans \subseteq DOMAIN scans'
  <2>1. scans' \in Seq(Scan)
    BY <1>1, <1>3, SeqDef
  <2>2. DOMAIN scans' = 1 .. Len(scans)
    BY <1>3
  <2> HIDE <1>3
  <2>3. Len(scans') = Len(scans)
    BY <1>1, <2>1, <2>2
  <2> QED BY <1>1, <1>2, <2>1, <2>2, <2>3
<1>4. ASSUME NEW j, NEW status \in Active \cup Ended, scans' = [scans EXCEPT ![j].status = status]
      PROVE  scans' \in [1 .. Len(scans) -> Scan]
  BY <1>2, <1>4 DEF Scan
<1>5. CASE Restart
  <2>1. scans' \in [1 .. Len(scans) -> Scan]
    BY <1>2, <1>5 DEF Restart, Scan, Active
  <2> QED BY <1>3, <2>1
<1>6. CASE Claim
  <2>1. PICK j \in DOMAIN scans : scans' = [scans EXCEPT ![j].status = "running"]
    BY <1>6 DEF Claim
  <2> QED BY <1>3, <1>4, <2>1 DEF Active
<1>7. ASSUME Fail \/ Complete \/ \E s \in Sources : Abort(s)
      PROVE  scans' \in [1 .. Len(scans) -> Scan]
  <2>1. PICK status \in Ended : EndScan(status)
    BY <1>7 DEF Fail, Complete, Abort, Ended
  <2> QED BY <1>4, <2>1 DEF EndScan
<1>8. ASSUME NEW t \in Threads, Cancel(t) \/ Disable(t)
      PROVE  scans' \in [1 .. Len(scans) -> Scan]
  <2>1. CASE Cancel(t)
    <3>1. /\ [status |-> "canceled", cancel |-> TRUE] \in Scan
          /\ [status |-> "canceling", cancel |-> TRUE] \in Scan
      BY DEF Scan, Active, Ended
    <3> QED BY <1>2, <2>1, <3>1 DEF Cancel
  <2>2. CASE Disable(t)
    BY <1>2, <2>2 DEF Disable, Scan
  <2> QED BY <1>8, <2>1, <2>2
<1>9. ASSUME NEW t \in Threads, Queue(t)
      PROVE  scans' \in Seq(Scan) /\ Len(scans') <= MaxScans /\ DOMAIN scans \subseteq DOMAIN scans'
  <2>1. [status |-> "queued", cancel |-> FALSE] \in Scan
    BY DEF Scan, Active
  <2>2. scans' = Append(scans, [status |-> "queued", cancel |-> FALSE]) /\ Len(scans) < MaxScans
    BY <1>9 DEF Queue
  <2>3. scans' \in Seq(Scan) /\ Len(scans') = Len(scans) + 1
    BY <1>1, <2>1, <2>2
  <2> QED BY <1>1, <2>2, <2>3, MaxScansAssumption
<1>10. CASE UNCHANGED scans
  BY <1>1, <1>10
<1> QED BY <1>3, <1>5, <1>6, <1>7, <1>8, <1>9, <1>10, ScanSteps

LEMMA CallsKept ==
    ASSUME AgentInv, [Next]_vars
    PROVE  calls' \in [Threads -> Calls] /\ \A t \in Threads : CallOK(calls[t])'
<1>1. /\ calls \in [Threads -> Calls] /\ \A t \in Threads : CallOK(calls[t])
      /\ DOMAIN scans \subseteq 1 .. MaxScans /\ sources \in [Sources -> SourceRows] /\ ContentsKnown
  BY MaxScansAssumption DEF AgentInv, TypeOK, JournalTypeOK
<1>2. /\ DOMAIN scans \subseteq DOMAIN scans'
      /\ \A s \in Sources : sources[s].content \in Contents => sources'[s].content \in Contents
  BY ScansKept, JournalKept
<1> DEFINE StillOK(k) == /\ k.op = "cancel" => k.scan \in DOMAIN scans'
                         /\ \A s \in Sources : k.rows[s].present => sources'[s].content \in Contents
<1>3. \A k : CallOK(k) => StillOK(k)
  BY <1>2 DEF CallOK
<1>12. ASSUME \A u \in Threads : StillOK(calls'[u]) PROVE \A u \in Threads : CallOK(calls[u])'
  BY <1>12 DEF CallOK
<1>4. NoCall \in Calls /\ CallOK(NoCall)
  BY NoCallTyped DEF CallOK, NoCall, NoRow
<1>5. ASSUME NEW t \in Threads, NEW k \in Calls, CallOK(k), calls' = [calls EXCEPT ![t] = k]
      PROVE  calls' \in [Threads -> Calls] /\ \A u \in Threads : CallOK(calls[u])'
  <2>1. calls' \in [Threads -> Calls] /\ \A u \in Threads : calls'[u] \in {k, calls[u]}
    BY <1>1, <1>5
  <2>2. \A u \in Threads : StillOK(calls'[u])
    <3> HIDE DEF StillOK
    <3> QED BY <1>1, <1>3, <1>5, <2>1
  <2> QED BY <1>12, <2>1, <2>2
<1>6. ASSUME NEW t \in Threads, StartScan(t)
      PROVE  calls' \in [Threads -> Calls] /\ \A u \in Threads : CallOK(calls[u])'
  <2> DEFINE k == [calls[t] EXCEPT !.op = "start"]
  <2>1. k \in Calls /\ CallOK(k)
    BY <1>1 DEF Calls, CallOK
  <2> QED BY <1>5, <1>6, <2>1 DEF StartScan
<1>7. ASSUME NEW t \in Threads, CancelScan(t)
      PROVE  calls' \in [Threads -> Calls] /\ \A u \in Threads : CallOK(calls[u])'
  <2>1. PICK j \in DOMAIN scans :
           calls' = [calls EXCEPT ![t] = [NoCall EXCEPT
                        !.op = "cancel", !.scan = j, !.queued = (scans[j].status = "queued")]]
    BY <1>7 DEF CancelScan
  <2> DEFINE queued == (scans[j].status = "queued")
             k == [NoCall EXCEPT !.op = "cancel", !.scan = j, !.queued = queued]
  <2>2. queued \in BOOLEAN
    OBVIOUS
  <2>3. calls' = [calls EXCEPT ![t] = k]
    BY <2>1
  <2> HIDE DEF queued
  <2>4. j \in 0 .. MaxScans
    BY <1>1
  <2>5. k \in Calls /\ k.scan = j /\ k.rows = NoCall.rows
    BY <1>4, <2>2, <2>4 DEF Calls
  <2>6. CallOK(k)
    <3> HIDE DEF k
    <3> QED BY <1>4, <2>5 DEF CallOK
  <2> HIDE DEF k
  <2> QED BY <1>5, <2>3, <2>5, <2>6
<1>8. ASSUME NEW t \in Threads, RemoveRoot(t)
      PROVE  calls' \in [Threads -> Calls] /\ \A u \in Threads : CallOK(calls[u])'
  <2> DEFINE k == [NoCall EXCEPT !.op = "disable", !.rows = sources]
  <2>1. k \in Calls /\ k.op = "disable" /\ k.rows = sources
    BY <1>1, <1>4 DEF Calls
  <2>2. calls' = [calls EXCEPT ![t] = k]
    BY <1>8 DEF RemoveRoot
  <2> HIDE DEF k
  <2>3. CallOK(k)
    BY <1>1, <2>1 DEF CallOK, ContentsKnown
  <2> QED BY <1>5, <2>1, <2>2, <2>3
<1>9. ASSUME NEW t \in Threads, Queue(t) \/ Cancel(t) \/ Disable(t)
      PROVE  calls' \in [Threads -> Calls] /\ \A u \in Threads : CallOK(calls[u])'
  <2>1. calls' = [calls EXCEPT ![t] = NoCall]
    BY <1>9 DEF Queue, Cancel, Disable, Answer
  <2> QED BY <1>4, <1>5, <2>1
<1>10. CASE Restart
  <2>1. calls' = [t \in Threads |-> NoCall]
    BY <1>10 DEF Restart
  <2>2. StillOK(NoCall)
    BY <1>3, <1>4
  <2> QED BY <1>4, <1>12, <2>1, <2>2
<1>11. CASE UNCHANGED calls
  <2>1. \A t \in Threads : StillOK(calls'[t])
    BY <1>1, <1>3, <1>11
  <2> QED BY <1>1, <1>11, <1>12, <2>1
<1> QED BY <1>6, <1>7, <1>8, <1>9, <1>10, <1>11, CallSteps DEF Call

\* A worker that rests has nothing in its hands.
LEMMA RestingStep ==
    ASSUME worker' = Resting
    PROVE  worker' \in Workers /\ WorkerOK'
BY RestingTyped DEF WorkerOK, Resting

LEMMA WorkerKept ==
    ASSUME AgentInv, [Next]_vars
    PROVE  worker' \in Workers /\ WorkerOK'
<1>1. /\ worker \in Workers /\ WorkerOK
      /\ DOMAIN scans \subseteq 1 .. MaxScans
      /\ sources \in [Sources -> SourceRows] /\ ContentsKnown
      /\ disk \in [Sources -> Contents \cup {NoContent}] /\ enabled \in BOOLEAN
  BY MaxScansAssumption DEF AgentInv, TypeOK, JournalTypeOK
<1>2. DOMAIN scans \subseteq DOMAIN scans'
  BY ScansKept
<1>3. CASE UNCHANGED worker
  BY <1>1, <1>2, <1>3 DEF WorkerOK
<1>4. CASE Restart \/ Fail \/ Complete \/ \E s \in Sources : Abort(s)
  BY <1>4, RestingStep DEF Restart, Fail, Complete, Abort
<1>5. CASE Claim
  <2>1. PICK j \in DOMAIN scans :
           worker' = [Resting EXCEPT !.phase = "walk", !.scan = j, !.directories = Directories]
    BY <1>5 DEF Claim
  <2>2. /\ worker' \in Workers /\ worker'.phase = "walk" /\ worker'.scan = j
        /\ worker'.file = Resting.file
    <3>1. j \in 0 .. MaxScans
      BY <1>1
    <3>2. Directories \in SUBSET Directories /\ "walk" \in Phases
      BY DEF Phases
    <3> QED BY <2>1, <3>1, <3>2, RestingTyped DEF Workers
  <2> QED BY <1>2, <2>2 DEF WorkerOK, Resting
<1>6. ASSUME NEW d \in Directories, List(d) PROVE worker' \in Workers /\ WorkerOK'
  <2>1. PICK listed \in SUBSET Sources :
           /\ worker.phase = "walk"
           /\ \/ worker' = [worker EXCEPT !.directories = @ \ {d}, !.listed = listed]
              \/ worker' = [worker EXCEPT !.directories = @ \ {d}]
    <3> DEFINE there == {s \in Sources : DirectoryOf[s] = d /\ disk[s] # NoContent}
    <3>1. /\ worker.phase = "walk"
          /\ \/ worker' = [worker EXCEPT !.directories = @ \ {d}, !.listed = there]
             \/ worker' = [worker EXCEPT !.directories = @ \ {d}]
      BY <1>6 DEF List
    <3>2. there \in SUBSET Sources
      OBVIOUS
    <3> HIDE DEF there
    <3> QED BY <3>1, <3>2
  <2>2. /\ worker' \in Workers /\ worker'.phase = "walk" /\ worker'.scan = worker.scan
        /\ worker'.file = worker.file
    <3>1. worker.directories \ {d} \in SUBSET Directories
      BY <1>1 DEF Workers
    <3>2. CASE worker' = [worker EXCEPT !.directories = @ \ {d}, !.listed = listed]
      BY <1>1, <2>1, <3>1, <3>2 DEF Workers
    <3>3. CASE worker' = [worker EXCEPT !.directories = @ \ {d}]
      BY <1>1, <2>1, <3>1, <3>3 DEF Workers
    <3> QED BY <2>1, <3>2, <3>3
  <2> QED BY <1>1, <1>2, <2>1, <2>2 DEF WorkerOK
<1>7. ASSUME NEW s \in Sources, PassOver(s) PROVE worker' \in Workers /\ WorkerOK'
  <2>1. /\ worker' \in Workers /\ worker'.phase = "walk" /\ worker'.scan = worker.scan
        /\ worker'.file = worker.file /\ worker.phase = "walk"
    BY <1>1, <1>7 DEF PassOver, Workers
  <2> QED BY <1>1, <1>2, <2>1 DEF WorkerOK
<1>8. ASSUME NEW s \in Sources, Visit(s) PROVE worker' \in Workers /\ WorkerOK'
  <2>1. /\ worker.phase = "walk" /\ disk[s] # NoContent
        /\ worker' = [worker EXCEPT !.phase = "write", !.listed = @ \ {s}, !.seen = @ \cup {s},
                                    !.file = {s}, !.row = sources[s], !.allowed = enabled,
                                    !.content = disk[s]]
    BY <1>8 DEF Visit, Seen
  <2>2. sources[s] \in SourceRows /\ disk[s] \in Contents
    BY <1>1, <2>1
  <2>3. /\ worker' \in Workers /\ worker'.phase = "write" /\ worker'.scan = worker.scan
        /\ worker'.file = {s} /\ worker'.row = sources[s] /\ worker'.content = disk[s]
    BY <1>1, <2>1, <2>2 DEF Workers, Phases
  <2> QED BY <1>1, <1>2, <2>1, <2>2, <2>3 DEF WorkerOK, ContentsKnown
<1>9. ASSUME NEW s \in Sources, Write(s) \/ LeaveOut(s) PROVE worker' \in Workers /\ WorkerOK'
  <2>1. worker.phase = "write" /\ worker' = Walking
    BY <1>9 DEF Write, LeaveOut
  <2>2. NoRow \in SourceRows
    BY DEF NoRow, SourceRows
  <2>3. /\ worker' \in Workers /\ worker'.phase = "walk" /\ worker'.scan = worker.scan
        /\ worker'.file = {}
    BY <1>1, <2>1, <2>2 DEF Walking, Workers, Phases
  <2> QED BY <1>1, <1>2, <2>1, <2>3 DEF WorkerOK
<1>10. CASE MarkMissing
  <2>1. /\ worker' \in Workers /\ worker'.phase = "close" /\ worker'.scan = worker.scan
        /\ worker'.file = worker.file /\ worker.phase = "walk"
    BY <1>1, <1>10 DEF MarkMissing, Workers, Phases
  <2> QED BY <1>1, <1>2, <2>1 DEF WorkerOK
<1> QED BY <1>3, <1>4, <1>5, <1>6, <1>7, <1>8, <1>9, <1>10, WorkerSteps DEF Work

LEMMA WitnessSteps ==
    ASSUME [Next]_vars
    PROVE  \/ UNCHANGED witness
           \/ Restart \/ Claim \/ Fail \/ Complete
           \/ \E s \in Sources : DiskChange(s) \/ Abort(s) \/ LeaveOut(s)
           \/ \E d \in Directories : List(d)
           \/ \E t \in Threads : Disable(t)
<1>1. ASSUME NEW t \in Threads, StartScan(t) \/ Queue(t) \/ CancelScan(t) \/ Cancel(t) \/ RemoveRoot(t)
      PROVE  UNCHANGED witness
  BY <1>1 DEF StartScan, Queue, CancelScan, Cancel, RemoveRoot
<1>2. ASSUME Dispose \/ EnsureStarted \/ AddRoot \/ MarkMissing
      PROVE  UNCHANGED witness
  BY <1>2 DEF Dispose, EnsureStarted, AddRoot, MarkMissing
<1>3. ASSUME NEW s \in Sources, PassOver(s) \/ Visit(s) \/ Write(s)
      PROVE  UNCHANGED witness
  BY <1>3 DEF PassOver, Visit, Write
<1>4. UNCHANGED vars => UNCHANGED witness
  BY DEF vars, agentVars
<1> QED BY <1>1, <1>2, <1>3, <1>4 DEF Next, Outside, Call, Work

LEMMA WitnessKept ==
    ASSUME AgentInv, [Next]_vars
    PROVE  witness' \in Witnesses
<1>1. witness \in Witnesses /\ enabled \in BOOLEAN
  BY DEF AgentInv, TypeOK
<1>2. NoWitness \in Witnesses
  BY DEF NoWitness, Witnesses
<1>3. CASE Restart \/ Fail \/ Complete \/ \E s \in Sources : Abort(s)
  BY <1>2, <1>3 DEF Restart, Fail, Complete, Abort
<1>4. CASE Claim
  BY <1>1, <1>4 DEF Claim, Witnesses
<1>5. ASSUME NEW s \in Sources, DiskChange(s) \/ LeaveOut(s) PROVE witness' \in Witnesses
  BY <1>1, <1>5 DEF DiskChange, LeaveOut, Witnesses
<1>6. ASSUME NEW d \in Directories, List(d) PROVE witness' \in Witnesses
  BY <1>1, <1>6 DEF List, Witnesses
<1>7. ASSUME NEW t \in Threads, Disable(t) PROVE witness' \in Witnesses
  BY <1>1, <1>7 DEF Disable, Witnesses
<1> QED BY <1>1, <1>3, <1>4, <1>5, <1>6, <1>7, WitnessSteps

LEMMA OutsideKept ==
    ASSUME AgentInv, [Next]_vars
    PROVE  /\ enabled' \in BOOLEAN /\ stopping' \in BOOLEAN
           /\ disk' \in [Sources -> Contents \cup {NoContent}]
           /\ events' \in 0 .. MaxEvents
<1>1. /\ enabled \in BOOLEAN /\ stopping \in BOOLEAN
      /\ disk \in [Sources -> Contents \cup {NoContent}]
      /\ events \in 0 .. MaxEvents
  BY DEF AgentInv, TypeOK
<1>2. Happens => events' \in 0 .. MaxEvents
  BY <1>1, MaxEventsAssumption DEF Happens
<1>3. ASSUME NEW t \in Threads, Call(t)
      PROVE  /\ enabled' \in {enabled, FALSE} /\ UNCHANGED <<disk, stopping>>
             /\ Happens \/ UNCHANGED events
  BY <1>3 DEF Call, StartScan, Queue, CancelScan, Cancel, RemoveRoot, Disable
<1>4. ASSUME Work
      PROVE  UNCHANGED <<enabled, disk, stopping>> /\ (Happens \/ UNCHANGED events)
  BY <1>4 DEF Work, Claim, List, PassOver, Abort, Visit, Write, MarkMissing, Complete
<1>5. ASSUME Fail \/ \E s \in Sources : LeaveOut(s)
      PROVE  UNCHANGED <<enabled, disk, stopping>> /\ Happens
  BY <1>5 DEF LeaveOut, Fail
<1>6. ASSUME Dispose \/ Restart \/ EnsureStarted \/ AddRoot
      PROVE  /\ UNCHANGED disk /\ (Happens \/ UNCHANGED events)
             /\ enabled' = enabled \/ enabled' = TRUE
             /\ stopping' = stopping \/ stopping' = TRUE \/ stopping' = FALSE
  BY <1>6 DEF Dispose, Restart, EnsureStarted, AddRoot
<1>7. ASSUME NEW s \in Sources, DiskChange(s)
      PROVE  /\ UNCHANGED <<enabled, stopping>> /\ Happens
             /\ disk' \in [Sources -> Contents \cup {NoContent}]
  BY <1>1, <1>7 DEF DiskChange
<1>8. CASE UNCHANGED vars
  BY <1>1, <1>8 DEF vars, agentVars
<1>9. CASE \E t \in Threads : Call(t)
  BY <1>1, <1>2, <1>3, <1>9
<1>10. CASE Work \/ Fail \/ \E s \in Sources : LeaveOut(s)
  BY <1>1, <1>2, <1>4, <1>5, <1>10
<1>11. CASE EnsureStarted \/ AddRoot \/ Outside
  BY <1>1, <1>2, <1>6, <1>7, <1>11 DEF Outside
<1> QED BY <1>8, <1>9, <1>10, <1>11 DEF Next

LEMMA AgentStep == AgentInv /\ [Next]_vars => AgentInv'
<1> SUFFICES ASSUME AgentInv, [Next]_vars PROVE AgentInv'
  OBVIOUS
<1>1. TypeOK'
  BY JournalKept, ScansKept, CallsKept, WorkerKept, WitnessKept, OutsideKept DEF TypeOK
<1> QED BY <1>1, JournalKept, CallsKept, WorkerKept DEF AgentInv

(* Whatever calls overtake each other, and wherever the worker is stopped: what
   the agent keeps is what its calls take it for, and no delta is written without
   a content (upsert_source(), mark_missing(), disable_root()). *)
THEOREM AgentTyped == Spec => []TypeOK
<1>1. AgentInv => TypeOK
  BY DEF AgentInv
<1> QED BY <1>1, AgentInit, AgentStep, PTL DEF Spec

-----------------------------------------------------------------------------
(* What a scan has found out *)

\* Where a walk has been, it has seen the files that were there all the time; what
\* it has written of a file that did not change is what the file is; and after
\* mark_missing() the other rows are tombstones.
Found ==
    /\ worker.phase = "close" => worker.listed = {}
    /\ witness.sound => enabled
    /\ worker.phase # "idle" /\ witness.sound =>
          /\ worker.phase = "write" => worker.allowed
          /\ \A s \in witness.steady :
                disk[s] # NoContent /\ DirectoryOf[s] \notin worker.directories
                   => s \in worker.listed \cup worker.seen
          /\ \A s \in witness.steady \ witness.left :
                /\ s \in worker.file => worker.content = disk[s]
                /\ s \in worker.seen \ worker.file =>
                      sources[s].present /\ sources[s].content = disk[s]
                /\ worker.phase = "close" /\ s \notin worker.seen => ~sources[s].present

LEMMA FoundInit == Init => Found
BY DEF Init, Found, Resting, NoWitness

\* What makes a step of the worker that is looked at here what it is.
LEMMA Shape ==
    ASSUME AgentInv
    PROVE  /\ worker \in Workers /\ witness \in Witnesses /\ WorkerOK
           /\ disk \in [Sources -> Contents \cup {NoContent}]
           /\ sources \in [Sources -> SourceRows]
BY DEF AgentInv, TypeOK, JournalTypeOK

LEMMA FoundOutside ==
    ASSUME AgentInv, Found, NEW s \in Sources, DiskChange(s)
    PROVE  Found'
<1>1. /\ UNCHANGED <<sources, enabled, worker>>
      /\ witness' = [witness EXCEPT !.steady = @ \ {s}]
      /\ \A u \in Sources \ {s} : disk'[u] = disk[u]
  BY Shape DEF DiskChange, journalVars
<1>2. /\ witness'.steady = witness.steady \ {s} /\ witness'.sound = witness.sound
      /\ witness'.left = witness.left /\ witness.steady \subseteq Sources
  BY <1>1, Shape DEF Witnesses
<1> QED BY <1>1, <1>2 DEF Found

LEMMA FoundUnsound ==
    ASSUME worker'.phase = "close" => worker'.listed = {}, ~witness'.sound
    PROVE  Found'
BY DEF Found

LEMMA FoundClaim ==
    ASSUME AgentInv, Found, Claim
    PROVE  Found'
<1>1. PICK j \in DOMAIN scans :
         worker' = [Resting EXCEPT !.phase = "walk", !.scan = j, !.directories = Directories]
  BY DEF Claim
<1>2. /\ worker'.phase = "walk" /\ worker'.directories = Directories /\ worker'.seen = {}
      /\ worker'.file = {}
  BY <1>1 DEF Resting
<1>3. witness'.sound = enabled /\ witness'.steady = Sources /\ UNCHANGED enabled
  BY DEF Claim
<1>4. \A s \in Sources : DirectoryOf[s] \in Directories
  BY DirectoriesAssumption
<1> QED BY <1>2, <1>3, <1>4 DEF Found

LEMMA FoundWalk ==
    ASSUME AgentInv, Found,
           \/ \E d \in Directories : List(d)
           \/ \E s \in Sources : PassOver(s) \/ Visit(s)
    PROVE  Found'
<1>0. /\ UNCHANGED <<sources, disk, enabled>> /\ worker.phase = "walk"
      /\ worker \in Workers /\ witness \in Witnesses /\ worker.file = {}
  BY Shape DEF List, PassOver, Visit, journalVars, WorkerOK
<1>1. ASSUME NEW d \in Directories, List(d) PROVE Found'
  <2>1. CASE witness' = [witness EXCEPT !.sound = FALSE]
    <3>1. worker' = [worker EXCEPT !.directories = @ \ {d}] \/
          \E listed \in SUBSET Sources :
             worker' = [worker EXCEPT !.directories = @ \ {d}, !.listed = listed]
      BY <1>1 DEF List
    <3>2. worker'.phase = "walk"
      BY <1>0, <3>1 DEF Workers
    <3>3. ~witness'.sound
      BY <1>0, <2>1 DEF Witnesses
    <3> QED BY <3>2, <3>3, FoundUnsound
  <2> DEFINE listed == {s \in Sources : DirectoryOf[s] = d /\ disk[s] # NoContent}
  <2>2. CASE UNCHANGED witness /\ worker' = [worker EXCEPT !.directories = @ \ {d}, !.listed = listed]
    <3> HIDE DEF listed
    <3>1. /\ worker'.phase = "walk" /\ worker'.directories = worker.directories \ {d}
          /\ worker'.listed = listed /\ worker'.seen = worker.seen /\ worker'.file = {}
          /\ worker.listed = {} /\ witness.steady \subseteq Sources
      BY <1>0, <1>1, <2>2 DEF Workers, List, Witnesses
    <3>2. \A s \in Sources : DirectoryOf[s] = d /\ disk[s] # NoContent => s \in listed
      BY DEF listed
    <3> QED BY <1>0, <2>2, <3>1, <3>2 DEF Found
  <2> QED BY <1>1, <2>1, <2>2 DEF List
<1>2. ASSUME NEW s \in Sources, PassOver(s) PROVE Found'
  <2>1. /\ worker'.phase = "walk" /\ worker'.directories = worker.directories
        /\ worker'.listed = worker.listed \ {s} /\ worker'.seen = worker.seen /\ worker'.file = {}
        /\ disk[s] = NoContent /\ UNCHANGED witness
    BY <1>0, <1>2 DEF Workers, PassOver
  <2> QED BY <1>0, <2>1 DEF Found
<1>3. ASSUME NEW s \in Sources, Visit(s) PROVE Found'
  <2>1. /\ worker'.phase = "write" /\ worker'.directories = worker.directories
        /\ worker'.listed = worker.listed \ {s} /\ worker'.seen = worker.seen \cup {s}
        /\ worker'.file = {s} /\ worker'.allowed = enabled /\ worker'.content = disk[s]
        /\ UNCHANGED witness
    BY <1>0, <1>3 DEF Workers, Visit, Seen
  <2> QED BY <1>0, <2>1 DEF Found
<1> QED BY <1>1, <1>2, <1>3

LEMMA FoundWrite ==
    ASSUME AgentInv, Found, NEW s \in Sources, Write(s)
    PROVE  Found'
<1>0. /\ UNCHANGED <<disk, enabled, witness>> /\ worker.phase = "write" /\ worker' = Walking
      /\ worker \in Workers /\ witness \in Witnesses /\ worker.file = {s}
      /\ worker.content \in Contents /\ worker.row \in SourceRows
      /\ sources \in [Sources -> SourceRows]
  BY Shape DEF Write, WorkerOK, Workers
<1>1. /\ worker'.phase = "walk" /\ worker'.directories = worker.directories
      /\ worker'.listed = worker.listed /\ worker'.seen = worker.seen /\ worker'.file = {}
  BY <1>0 DEF Walking, Workers
<1>2. CASE witness.sound
  <2>1. worker.allowed
    BY <1>0, <1>2 DEF Found
  <2>2. sources'[s].present /\ sources'[s].content = worker.content
    <3>1. CASE Unchanged(worker.row, worker.content) /\ sources' = [sources EXCEPT ![s] = worker.row]
      BY <1>0, <3>1 DEF Unchanged
    <3>2. CASE Record({s}, [t \in {s} |-> Stored(worker.row, worker.content)])
      <4>1. sources'[s] = Stored(worker.row, worker.content)
        BY <3>2 DEF Record
      <4> QED BY <4>1 DEF Stored
    <3> QED BY <2>1, <3>1, <3>2 DEF Write
  <2>3. \A u \in Sources \ {s} : sources'[u] = sources[u]
    <3>1. CASE sources' = [sources EXCEPT ![s] = worker.row]
      BY <1>0, <3>1
    <3>2. CASE Record({s}, [t \in {s} |-> Stored(worker.row, worker.content)])
      BY <3>2 DEF Record
    <3> QED BY <2>1, <3>1, <3>2 DEF Write
  <2>4. witness.steady \subseteq Sources
    BY <1>0 DEF Witnesses
  <2> QED BY <1>0, <1>1, <1>2, <2>2, <2>3, <2>4 DEF Found
<1>3. CASE ~witness.sound
  BY <1>0, <1>1, <1>3, FoundUnsound
<1> QED BY <1>2, <1>3

LEMMA FoundLeaveOut ==
    ASSUME AgentInv, Found, NEW s \in Sources, LeaveOut(s)
    PROVE  Found'
<1>0. /\ UNCHANGED <<sources, disk, enabled>> /\ worker.phase = "write" /\ worker' = Walking
      /\ worker \in Workers /\ witness \in Witnesses /\ worker.file = {s}
      /\ witness' = [witness EXCEPT !.left = @ \cup {s}]
  BY Shape DEF LeaveOut, WorkerOK, journalVars
<1>1. /\ worker'.phase = "walk" /\ worker'.directories = worker.directories
      /\ worker'.listed = worker.listed /\ worker'.seen = worker.seen /\ worker'.file = {}
  BY <1>0 DEF Walking, Workers
<1>2. /\ witness'.left = witness.left \cup {s} /\ witness'.sound = witness.sound
      /\ witness'.steady = witness.steady
  BY <1>0 DEF Witnesses
<1> QED BY <1>0, <1>1, <1>2 DEF Found

LEMMA FoundMarkMissing ==
    ASSUME AgentInv, Found, MarkMissing
    PROVE  Found'
<1>0. /\ UNCHANGED <<disk, enabled, witness>> /\ worker.phase = "walk" /\ worker.listed = {}
      /\ worker \in Workers /\ witness \in Witnesses /\ worker.file = {}
      /\ worker' = [worker EXCEPT !.phase = "close"]
  BY Shape DEF MarkMissing, Walked, WorkerOK
<1>1. /\ worker'.phase = "close" /\ worker'.directories = worker.directories
      /\ worker'.listed = {} /\ worker'.seen = worker.seen /\ worker'.file = {}
  BY <1>0 DEF Workers
<1>2. \A u \in Sources : IF u \in Missing THEN ~sources'[u].present ELSE sources'[u] = sources[u]
  <2>1. sources' = [u \in Sources |-> IF u \in Missing
                                      THEN [s \in Missing |-> Tombstone(sources[s])][u]
                                      ELSE sources[u]]
    BY DEF MarkMissing, Record
  <2>2. \A u \in Sources : sources[u] \in SourceRows /\ ~Tombstone(sources[u]).present
    BY Shape DEF Tombstone, SourceRows
  <2> QED BY <2>1, <2>2
<1>3. \A u \in Sources : u \in Missing <=> sources[u].present /\ u \notin worker.seen
  BY DEF Missing, Present
<1>4. witness.steady \subseteq Sources
  BY <1>0 DEF Witnesses
<1> QED BY <1>0, <1>1, <1>2, <1>3, <1>4 DEF Found

LEMMA FoundStep == AgentInv /\ Found /\ [Next]_vars => Found'
<1> SUFFICES ASSUME AgentInv, Found, [Next]_vars PROVE Found'
  OBVIOUS
<1>1. ASSUME UNCHANGED <<sources, disk, worker, witness>>, enabled' = enabled \/ enabled'
      PROVE  Found'
  BY <1>1 DEF Found
<1>2. ASSUME NEW t \in Threads, Call(t) PROVE Found'
  <2>1. CASE Disable(t)
    <3>1. UNCHANGED worker /\ witness' = [witness EXCEPT !.sound = FALSE]
      BY <2>1 DEF Disable
    <3>2. ~witness'.sound
      BY <3>1, Shape DEF Witnesses
    <3> QED BY <3>1, <3>2, FoundUnsound DEF Found
  <2>2. CASE ~Disable(t)
    <3>1. UNCHANGED <<sources, disk, worker, witness, enabled>>
      BY <1>2, <2>2 DEF Call, StartScan, Queue, CancelScan, Cancel, RemoveRoot, journalVars
    <3> QED BY <1>1, <3>1
  <2> QED BY <2>1, <2>2
<1>3. ASSUME Restart \/ Fail \/ Complete \/ \E s \in Sources : Abort(s) PROVE Found'
  <2>1. worker' = Resting /\ witness' = NoWitness
    BY <1>3 DEF Restart, Fail, Complete, Abort
  <2> QED BY <2>1, FoundUnsound DEF Resting, NoWitness
<1>4. ASSUME Dispose \/ EnsureStarted \/ AddRoot PROVE Found'
  BY <1>1, <1>4 DEF Dispose, EnsureStarted, AddRoot, journalVars
<1>5. CASE UNCHANGED vars
  BY <1>1, <1>5 DEF vars, agentVars, journalVars
<1>6. CASE Work
  BY <1>3, <1>6, FoundClaim, FoundWalk, FoundWrite, FoundMarkMissing DEF Work
<1> QED BY <1>2, <1>3, <1>4, <1>5, <1>6, FoundOutside, FoundLeaveOut DEF Next, Outside

(* Whatever calls overtake each other: a file that was there all through a scan
   is not announced as removed by it, unless the root was removed or could not be
   read, or the walk was cut short (mark_missing()). *)
THEOREM RemovalsAreReal == Spec => RemovedIsGone
<1> DEFINE Real == \A s \in Sources :
                      /\ sources[s].present
                      /\ ~sources'[s].present
                      /\ enabled'
                      => \/ s \notin witness.steady
                         \/ disk[s] = NoContent
                         \/ ~witness.sound
                         \/ worker.directories # {}
<1>1. AgentInv /\ Found /\ [Next]_vars => [Real]_vars
  <2> SUFFICES ASSUME AgentInv, Found, [Next]_vars, NEW s \in Sources,
                      sources[s].present, ~sources'[s].present, enabled',
                      s \in witness.steady, disk[s] # NoContent, witness.sound,
                      worker.directories = {}
               PROVE  FALSE
    OBVIOUS
  <2>1. CASE UNCHANGED journalVars
    BY <2>1 DEF journalVars
  <2>2. CASE \E t \in Threads : Disable(t)
    BY <2>2 DEF Disable
  <2>3. ASSUME NEW u \in Sources, Write(u) PROVE FALSE
    <3>0. sources \in [Sources -> SourceRows]
      BY Shape
    <3>1. CASE UNCHANGED journalVars
      BY <3>1 DEF journalVars
    <3>2. CASE Unchanged(worker.row, worker.content) /\ sources' = [sources EXCEPT ![u] = worker.row]
      BY <3>0, <3>2 DEF Unchanged
    <3>3. CASE Record({u}, [t \in {u} |-> Stored(worker.row, worker.content)])
      <4>1. sources'[s] = IF s = u THEN Stored(worker.row, worker.content) ELSE sources[s]
        BY <3>3 DEF Record
      <4> QED BY <4>1 DEF Stored
    <3> QED BY <2>3, <3>1, <3>2, <3>3 DEF Write
  <2>4. CASE MarkMissing
    <3>1. s \in Missing
      BY <2>4 DEF MarkMissing, Record
    <3>2. worker.phase = "walk" /\ worker.listed = {}
      BY <2>4 DEF MarkMissing, Walked
    <3>3. s \notin worker.seen
      BY <3>1 DEF Missing
    <3> QED BY <3>2, <3>3 DEF Found
  <2> QED BY <2>1, <2>2, <2>3, <2>4, JournalSteps
<1> QED BY <1>1, AgentInit, AgentStep, FoundInit, FoundStep, PTL DEF Spec, RemovedIsGone

\* Of the steps of a walk only the last completes the scan.
LEMMA CompletesScan ==
    ASSUME AgentInv, [Next]_vars, NEW j \in DOMAIN scans,
           scans[j].status # "completed", scans'[j].status = "completed"
    PROVE  Complete
<1>1. scans \in [DOMAIN scans -> Scan]
  BY DEF AgentInv, TypeOK
<1>2. CASE Restart
  BY <1>2 DEF Restart
<1>3. CASE Claim
  BY <1>1, <1>3 DEF Claim, Scan
<1>4. ASSUME Fail \/ \E s \in Sources : Abort(s) PROVE FALSE
  <2>1. PICK status \in {"failed", "canceled"} : EndScan(status)
    BY <1>4 DEF Fail, Abort
  <2> QED BY <1>1, <2>1 DEF EndScan, Scan
<1>5. ASSUME NEW t \in Threads, Queue(t) PROVE FALSE
  <2>1. scans' = Append(scans, [status |-> "queued", cancel |-> FALSE]) /\ scans \in Seq(Scan)
    BY <1>5 DEF Queue, AgentInv, TypeOK
  <2>2. scans'[j] = scans[j]
    BY <2>1
  <2> QED BY <2>2
<1>6. ASSUME NEW t \in Threads, Cancel(t) PROVE FALSE
  BY <1>1, <1>6 DEF Cancel
<1>7. ASSUME NEW t \in Threads, Disable(t) PROVE FALSE
  BY <1>1, <1>7 DEF Disable, Scan
<1> QED BY <1>2, <1>3, <1>4, <1>5, <1>6, <1>7, ScanSteps

(* Whatever calls overtake each other: a scan that was completed, of a root that
   stayed enabled and readable, leaves the table as the files are, except for
   those that changed under it or could not be examined (_run_job()). *)
THEOREM CompletedScansAgree == Spec => CompletedScanAgrees
<1> DEFINE Agrees == \A j \in DOMAIN scans :
                        /\ scans[j].status # "completed"
                        /\ scans'[j].status = "completed"
                        /\ witness.sound
                        /\ worker.directories = {}
                        => \A s \in witness.steady \ witness.left :
                              /\ sources[s].present <=> disk[s] # NoContent
                              /\ sources[s].present => sources[s].content = disk[s]
<1>1. AgentInv /\ Found /\ [Next]_vars => [Agrees]_vars
  <2> SUFFICES ASSUME AgentInv, Found, [Next]_vars, NEW j \in DOMAIN scans,
                      scans[j].status # "completed", scans'[j].status = "completed",
                      witness.sound, worker.directories = {},
                      NEW s \in witness.steady \ witness.left
               PROVE  /\ sources[s].present <=> disk[s] # NoContent
                      /\ sources[s].present => sources[s].content = disk[s]
    OBVIOUS
  <2>1. Complete
    BY CompletesScan
  <2>2. worker.phase = "close" /\ worker.file = {} /\ worker.listed = {} /\ s \in Sources
    BY <2>1, Shape DEF Complete, WorkerOK, Found, Witnesses
  <2>3. CASE s \in worker.seen
    <3>1. sources[s].present /\ sources[s].content = disk[s]
      BY <2>2, <2>3 DEF Found
    <3>2. disk[s] # NoContent
      BY <2>2, <3>1, NoContentAssumption DEF AgentInv, ContentsKnown
    <3> QED BY <3>1, <3>2
  <2>4. CASE s \notin worker.seen
    <3>1. ~sources[s].present /\ disk[s] = NoContent
      BY <2>2, <2>4 DEF Found
    <3> QED BY <3>1
  <2> QED BY <2>3, <2>4
<1> QED BY <1>1, AgentInit, AgentStep, FoundInit, FoundStep, PTL DEF Spec, CompletedScanAgrees

-----------------------------------------------------------------------------
(* The journal, when no call is overtaken *)

\* At most one call, or the worker, is between its queries and its transaction,
\* and what it has read is still there.
Apart ==
    /\ worker.phase = "write" => \A t \in Threads : calls[t].op = "none"
    /\ \A t, u \in Threads : calls[t].op # "none" /\ calls[u].op # "none" => t = u
    /\ \A t \in Threads : calls[t].op = "disable" => calls[t].rows = sources
    /\ \A s \in worker.file : worker.row = sources[s]

LEMMA ApartInit == Init => Apart
BY DEF Init, Apart, Resting, NoCall

LEMMA NoCallOp == NoCall.op = "none"
BY DEF NoCall

\* A call begins when nobody is at work.
LEMMA ApartBegins ==
    ASSUME ~CallsInterleave, AgentInv, Apart, NEW t \in Threads,
           StartScan(t) \/ CancelScan(t) \/ RemoveRoot(t)
    PROVE  Apart'
<1>1. /\ UNCHANGED <<worker, sources>> /\ worker.phase # "write"
      /\ \A u \in Threads : calls[u].op = "none"
      /\ \A u \in Threads \ {t} : calls'[u] = calls[u]
      /\ calls \in [Threads -> Calls] /\ worker.file = {}
  BY Shape DEF StartScan, CancelScan, RemoveRoot, Alone, journalVars, AgentInv, TypeOK, WorkerOK
<1>2. calls'[t].op = "disable" => calls'[t].rows = sources
  <2>1. CASE StartScan(t)
    BY <1>1, <2>1 DEF StartScan, Calls
  <2>2. CASE CancelScan(t)
    <3>1. PICK j \in DOMAIN scans :
             calls' = [calls EXCEPT ![t] = [NoCall EXCEPT
                          !.op = "cancel", !.scan = j, !.queued = (scans[j].status = "queued")]]
      BY <2>2 DEF CancelScan
    <3>2. calls'[t] = [NoCall EXCEPT !.op = "cancel", !.scan = j, !.queued = (scans[j].status = "queued")]
      BY <1>1, <3>1
    <3> DEFINE k == calls'[t]
    <3>3. k.op = "cancel"
      BY <3>2, NoCallTyped DEF Calls
    <3> QED BY <3>3
  <2>3. CASE RemoveRoot(t)
    <3>1. calls'[t] = [NoCall EXCEPT !.op = "disable", !.rows = sources]
      BY <1>1, <2>3 DEF RemoveRoot
    <3> QED BY <3>1, NoCallTyped DEF Calls
  <2> QED BY <2>1, <2>2, <2>3
<1> QED BY <1>1, <1>2 DEF Apart

\* A call is answered when it has written.
LEMMA ApartEnds ==
    ASSUME AgentInv, Apart, NEW t \in Threads, Queue(t) \/ Cancel(t) \/ Disable(t)
    PROVE  Apart'
<1>1. /\ UNCHANGED worker /\ calls' = [calls EXCEPT ![t] = NoCall] /\ calls[t].op # "none"
      /\ calls \in [Threads -> Calls]
  BY DEF Queue, Cancel, Disable, Answer, AgentInv, TypeOK
<1>2. worker.phase # "write" /\ \A u \in Threads \ {t} : calls[u].op = "none"
  BY <1>1 DEF Apart
<1>3. \A u \in Threads : calls'[u].op = "none"
  BY <1>1, <1>2, NoCallOp
<1>4. worker.file = {}
  BY <1>2 DEF AgentInv, WorkerOK
<1> QED BY <1>1, <1>3, <1>4 DEF Apart

LEMMA ApartStep ==
    ASSUME ~CallsInterleave
    PROVE  AgentInv /\ Apart /\ [Next]_vars => Apart'
<1> SUFFICES ASSUME AgentInv, Apart, [Next]_vars PROVE Apart'
  OBVIOUS
<1>0. WorkerOK' /\ worker \in Workers /\ WorkerOK
  BY WorkerKept, Shape
<1>1. ASSUME UNCHANGED <<sources, calls>>, worker'.phase # "write" PROVE Apart'
  BY <1>0, <1>1 DEF Apart, WorkerOK
<1>2. ASSUME UNCHANGED <<sources, calls, worker>> PROVE Apart'
  BY <1>2 DEF Apart
<1>3. CASE Restart
  <2>1. UNCHANGED sources /\ worker' = Resting /\ \A t \in Threads : calls'[t] = NoCall
    BY <1>3 DEF Restart, journalVars
  <2> QED BY <2>1, NoCallOp DEF Apart, Resting
<1>4. ASSUME Fail \/ Complete \/ \E s \in Sources : Abort(s) PROVE Apart'
  <2>1. worker' = Resting /\ UNCHANGED <<sources, calls>>
    BY <1>4 DEF Fail, Complete, Abort, journalVars
  <2> QED BY <1>1, <2>1 DEF Resting
<1>5. CASE Claim
  <2>1. UNCHANGED <<sources, calls>> /\ worker'.phase = "walk"
    BY <1>5 DEF Claim, Resting, journalVars
  <2> QED BY <1>1, <2>1
<1>6. ASSUME (\E d \in Directories : List(d)) \/ (\E s \in Sources : PassOver(s) \/ LeaveOut(s))
      PROVE  Apart'
  <2>1. UNCHANGED <<sources, calls>>
    BY <1>6 DEF List, PassOver, LeaveOut, journalVars
  <2>2. ASSUME NEW d \in Directories, List(d) PROVE worker'.phase = "walk"
    BY <1>0, <2>2 DEF List, Workers
  <2>3. ASSUME NEW s \in Sources, PassOver(s) \/ LeaveOut(s) PROVE worker'.phase = "walk"
    BY <1>0, <2>3 DEF PassOver, LeaveOut, Walking, Workers
  <2> QED BY <1>1, <1>6, <2>1, <2>2, <2>3
<1>7. ASSUME NEW s \in Sources, Visit(s) PROVE Apart'
  <2>1. /\ UNCHANGED <<sources, calls>> /\ worker'.row = sources[s] /\ worker'.file = {s}
        /\ \A t \in Threads : calls[t].op = "none"
    BY <1>0, <1>7 DEF Visit, Alone, Workers, journalVars
  <2> QED BY <2>1 DEF Apart
<1>8. ASSUME NEW s \in Sources, Write(s) PROVE Apart'
  <2>1. /\ UNCHANGED calls /\ worker.phase = "write" /\ worker'.phase = "walk"
    BY <1>0, <1>8 DEF Write, Walking, Workers
  <2>2. \A t \in Threads : calls[t].op = "none"
    BY <2>1 DEF Apart
  <2>3. worker'.file = {}
    BY <1>0, <2>1 DEF WorkerOK
  <2> QED BY <2>1, <2>2, <2>3 DEF Apart
<1>9. CASE MarkMissing
  <2>1. /\ UNCHANGED calls /\ worker'.phase = "close" /\ worker.phase = "walk" /\ Alone
    BY <1>0, <1>9 DEF MarkMissing, Workers
  <2>2. \A t \in Threads : calls[t].op = "none"
    BY <2>1 DEF Alone
  <2>3. worker'.file = {}
    BY <1>0, <2>1 DEF WorkerOK
  <2> QED BY <2>1, <2>2, <2>3 DEF Apart
<1>10. ASSUME Dispose \/ EnsureStarted \/ AddRoot \/ \E s \in Sources : DiskChange(s) PROVE Apart'
  BY <1>2, <1>10 DEF Dispose, EnsureStarted, AddRoot, DiskChange, journalVars
<1>11. CASE UNCHANGED vars
  BY <1>2, <1>11 DEF vars, agentVars, journalVars
<1>12. ASSUME NEW t \in Threads, Call(t) PROVE Apart'
  BY <1>12, ApartBegins, ApartEnds DEF Call
<1>13. CASE Work
  BY <1>4, <1>5, <1>6, <1>7, <1>8, <1>9, <1>13 DEF Work
<1> QED BY <1>3, <1>4, <1>6, <1>10, <1>11, <1>12, <1>13 DEF Next, Outside

\* A transaction that has nothing to write writes nothing.
LEMMA NothingRecorded ==
    ASSUME NEW rows, Record({}, rows), sequence \in Nat,
           sources \in [Sources -> SourceRows], DOMAIN history = Sources,
           history = [s \in Sources |-> history[s]]
    PROVE  UNCHANGED <<sources, deltas, sequence, history>>
<1>1. Cardinality({}) = 0
  BY FS_EmptySet
<1>2. sources' = [s \in Sources |-> sources[s]] /\ history' = [s \in Sources |-> history[s]]
  BY DEF Record
<1>3. deltas' = deltas
  BY DEF Record
<1>4. sequence' = sequence
  BY <1>1 DEF Record
<1> QED BY <1>2, <1>3, <1>4

\* What a removal of present sources writes is what the journal allows.
LEMMA RemovalStep ==
    ASSUME AgentInv, history = [s \in Sources |-> history[s]],
           NEW D \in SUBSET Sources, \A s \in D : sources[s].present,
           Record(D, [s \in D |-> Tombstone(sources[s])]), UNCHANGED batch
    PROVE  [JournalNext]_journalVars
<1>1. CASE D = {}
  <2>1. sequence \in Nat /\ sources \in [Sources -> SourceRows]
    BY DEF AgentInv, TypeOK, JournalTypeOK
  <2>2. Record({}, [s \in {} |-> Tombstone(sources[s])])
    BY <1>1
  <2>3. UNCHANGED <<sources, deltas, sequence, history>>
    BY <2>1, <2>2, NothingRecorded
  <2> QED BY <2>3 DEF journalVars
<1>2. CASE D # {}
  BY <1>2 DEF Remove, Removable, JournalNext
<1> QED BY <1>1, <1>2

LEMMA JournalStep ==
    ASSUME AgentInv, Apart, history = [s \in Sources |-> history[s]], [Next]_vars
    PROVE  [JournalNext]_journalVars
<1>1. ASSUME NEW t \in Threads, Disable(t) PROVE [JournalNext]_journalVars
  <2> DEFINE gone == {s \in Sources : sources[s].present}
  <2>1. calls[t].rows = sources
    BY <1>1 DEF Disable, Apart
  <2>2. /\ Record(gone, [s \in gone |-> Tombstone([sources[s] EXCEPT !.revision = sources[s].revision])])
        /\ UNCHANGED batch
    BY <1>1, <2>1 DEF Disable
  <2>3. \A s \in gone : [sources[s] EXCEPT !.revision = sources[s].revision] = sources[s]
    BY Shape DEF SourceRows
  <2>4. [s \in gone |-> Tombstone([sources[s] EXCEPT !.revision = sources[s].revision])]
           = [s \in gone |-> Tombstone(sources[s])]
    BY <2>3
  <2> QED BY <2>2, <2>4, RemovalStep
<1>2. CASE MarkMissing
  <2>1. Record(Missing, [s \in Missing |-> Tombstone(sources[s])]) /\ UNCHANGED batch
    BY <1>2 DEF MarkMissing
  <2>2. Missing \in SUBSET Sources /\ \A s \in Missing : sources[s].present
    BY DEF Missing, Present
  <2> QED BY <2>1, <2>2, RemovalStep
<1>3. ASSUME NEW s \in Sources, Write(s) PROVE [JournalNext]_journalVars
  <2>1. worker.row = sources[s] /\ worker.content \in Contents
    BY <1>3, Shape DEF Write, WorkerOK, Apart
  <2>2. CASE UNCHANGED journalVars
    BY <2>2
  <2>3. CASE sources' = [sources EXCEPT ![s] = worker.row] /\ UNCHANGED <<deltas, sequence, batch, history>>
    <3>1. sources' = sources
      BY <2>1, <2>3, Shape
    <3> QED BY <2>3, <3>1 DEF journalVars
  <2>4. CASE /\ ~Unchanged(worker.row, worker.content) /\ UNCHANGED batch
             /\ Record({s}, [t \in {s} |-> Stored(worker.row, worker.content)])
    <3>1. [t \in {s} |-> Stored(worker.row, worker.content)]
             = [t \in {s} |-> Stored(sources[t], worker.content)]
      BY <2>1
    <3>2. Upsert(s, worker.content)
      BY <2>1, <2>4, <3>1 DEF Upsert, Unchanged
    <3> QED BY <2>1, <3>2 DEF JournalNext
  <2> QED BY <1>3, <2>2, <2>3, <2>4 DEF Write
<1> QED BY <1>1, <1>2, <1>3, JournalSteps

\* The contents that a source has had are kept for every source.
LEMMA HistoryKept ==
    ASSUME AgentInv, history = [s \in Sources |-> history[s]], [Next]_vars
    PROVE  history' = [s \in Sources |-> history'[s]]
<1>1. CASE UNCHANGED history
  BY <1>1
<1>2. ASSUME NEW D, NEW rows, Record(D, rows) PROVE history' = [s \in Sources |-> history'[s]]
  BY <1>2 DEF Record
<1>3. UNCHANGED history \/ \E D : \E rows : Record(D, rows)
  BY JournalSteps DEF Disable, Write, MarkMissing, journalVars
<1> QED BY <1>1, <1>2, <1>3

(* If calls and the worker do not overtake each other between their queries and
   their transactions: scans, removals and restorations of the root write
   nothing but the transactions of the journal, so that revisions go up by one
   and each change has its delta (upsert_source(), mark_missing(), disable_root()). *)
THEOREM ScansImplementJournal == ~CallsInterleave => (Spec => ImplementsJournal)
<1> SUFFICES ASSUME ~CallsInterleave PROVE Spec => ImplementsJournal
  OBVIOUS
<1> DEFINE Kept == history = [s \in Sources |-> history[s]]
<1>1. Init => JournalInit /\ Kept
  BY DEF Init, JournalInit
<1>2. AgentInv /\ Apart /\ Kept /\ [Next]_vars => [JournalNext]_journalVars
  BY JournalStep
<1>3. AgentInv /\ Kept /\ [Next]_vars => Kept'
  BY HistoryKept
<1> HIDE DEF Kept
<1> QED BY <1>1, <1>2, <1>3, AgentInit, AgentStep, ApartInit, ApartStep, PTL
        DEF Spec, ImplementsJournal, JournalSpec

(* So the journal of an agent whose calls are not overtaken tells a coordinator
   the present row of every source, wherever scans end. *)
THEOREM ScansKeepJournalComplete == ~CallsInterleave => (Spec => []JournalComplete)
BY ScansImplementJournal, JournalIsComplete, PTL DEF ImplementsJournal

=============================================================================
