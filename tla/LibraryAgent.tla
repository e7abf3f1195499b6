---------------------------- MODULE LibraryAgent ----------------------------
(***************************************************************************)
(* The scans of one root of a media library agent: the calls that add and   *)
(* remove the root, queue and cancel scans, the one worker thread that      *)
(* walks the directories of the root and writes what it finds, while files  *)
(* come, change and go, directories cannot be read, the worker is stopped,  *)
(* and the process ends and starts again.                                   *)
(*                                                                         *)
(* Abstracted: scan counters and progress, the two waiting statuses (they   *)
(* are left the way they are entered), exclusions, the file limit, schedules*)
(* (they create jobs as start_scan does) and the modes of a scan, which run *)
(* the same code.  The compaction of the journal is in CatalogSync.         *)
(***************************************************************************)
EXTENDS SourceJournal

CONSTANTS
    Directories,        \* directories of the root
    DirectoryOf,        \* the directory of a file
    Threads,            \* threads that serve calls
    MaxScans,           \* bound on the scan jobs ever created
    MaxEvents,          \* bound on what befalls the agent from outside
    CallsInterleave     \* whether a call may be overtaken between the
                        \* queries it decides on and its transaction

ASSUME DirectoriesAssumption ==
    IsFiniteSet(Directories) /\ DirectoryOf \in [Sources -> Directories]
ASSUME MaxScansAssumption == MaxScans \in Nat
ASSUME MaxEventsAssumption == MaxEvents \in Nat
ASSUME CallsInterleaveAssumption == CallsInterleave \in BOOLEAN

VARIABLES
    enabled,    \* roots.enabled
    disk,       \* the files, as they are
    scans,      \* scan_jobs, in the order they were requested
    worker,     \* where the worker thread is
    stopping,   \* the stop flag of the worker
    calls,      \* the call each thread is serving
    witness,    \* what happened since the scan began; not in the code
    events      \* how many outside events there were; not in the code

agentVars == <<enabled, disk, scans, worker, stopping, calls, witness, events>>
vars == <<journalVars, agentVars>>

Active == {"queued", "running", "canceling"}
Ended == {"completed", "failed", "canceled"}
Scan == [status : Active \cup Ended, cancel : BOOLEAN]

Phases == {"idle", "walk", "write", "close"}
Workers == [phase : Phases, scan : 0 .. MaxScans,
            directories : SUBSET Directories, listed : SUBSET Sources, seen : SUBSET Sources,
            file : SUBSET Sources, row : SourceRows, allowed : BOOLEAN,
            content : Contents \cup {NoContent}]
Resting == [phase |-> "idle", scan |-> 0, directories |-> {}, listed |-> {}, seen |-> {},
            file |-> {}, row |-> NoRow, allowed |-> FALSE, content |-> NoContent]

Calls == [op : {"none", "start", "cancel", "disable"}, scan : 0 .. MaxScans,
          queued : BOOLEAN, rows : [Sources -> SourceRows]]
NoCall == [op |-> "none", scan |-> 0, queued |-> FALSE, rows |-> [s \in Sources |-> NoRow]]

(* The files that did not change, whether the root was enabled and readable,
   and the files that were left out because of an error. *)
Witnesses == [steady : SUBSET Sources, sound : BOOLEAN, left : SUBSET Sources]
NoWitness == [steady |-> {}, sound |-> FALSE, left |-> {}]

Init ==
    /\ JournalInit
    /\ enabled = TRUE
    /\ disk \in [Sources -> Contents \cup {NoContent}]
    /\ scans = <<>>
    /\ worker = Resting
    /\ stopping = FALSE
    /\ calls = [t \in Threads |-> NoCall]
    /\ witness = NoWitness
    /\ events = 0

(* Whether nobody is between his queries and his transaction. *)
Alone ==
    \/ CallsInterleave
    \/ worker.phase # "write" /\ \A t \in Threads : calls[t].op = "none"

Present == {s \in Sources : sources[s].present}

-----------------------------------------------------------------------------
(* Outside the agent.                                                      *)

Happens == events < MaxEvents /\ events' = events + 1

DiskChange(s) ==
    /\ Happens
    /\ \E c \in (Contents \cup {NoContent}) \ {disk[s]} : disk' = [disk EXCEPT ![s] = c]
    /\ witness' = [witness EXCEPT !.steady = @ \ {s}]
    /\ UNCHANGED <<journalVars, enabled, scans, worker, stopping, calls>>

(* dispose() sets the stop flag; the worker sees it where it looks. *)
Dispose ==
    /\ Happens
    /\ ~stopping
    /\ stopping' = TRUE
    /\ UNCHANGED <<journalVars, enabled, disk, scans, worker, calls, witness>>

(* Variant: a scan that was being canceled is not put back. *)
InterruptedRunning == {"running"}

Interrupted == {"running", "canceling"}

(* The process ends and starts again: recover_interrupted_runtime() puts the
   interrupted scans back into the queue and starts the worker. *)
Restart ==
    /\ Happens
    /\ scans' = [j \in DOMAIN scans |-> IF scans[j].status \in Interrupted
                                        THEN [scans[j] EXCEPT !.status = "queued"]
                                        ELSE scans[j]]
    /\ worker' = Resting
    /\ stopping' = FALSE
    /\ calls' = [t \in Threads |-> NoCall]
    /\ witness' = NoWitness
    /\ UNCHANGED <<journalVars, enabled, disk>>

(* ensure_started(), at the end of most calls: a worker whose thread has
   ended gets a new one. *)
EnsureStarted ==
    /\ stopping
    /\ worker.phase = "idle"
    /\ stopping' = FALSE
    /\ UNCHANGED <<journalVars, enabled, disk, scans, worker, calls, witness, events>>

-----------------------------------------------------------------------------
(* Calls: first the queries, then the transaction.                         *)

Answer(t) == calls' = [calls EXCEPT ![t] = NoCall]

AddRoot ==
    /\ ~enabled
    /\ Alone
    /\ enabled' = TRUE
    /\ UNCHANGED <<journalVars, disk, scans, worker, stopping, calls, witness, events>>

(* create_job(): a root with an active scan gets no second one. *)
StartScan(t) ==
    /\ calls[t].op = "none"
    /\ Alone
    /\ enabled
    /\ Len(scans) < MaxScans
    /\ \A j \in DOMAIN scans : scans[j].status \notin Active
    /\ calls' = [calls EXCEPT ![t].op = "start"]
    /\ UNCHANGED <<journalVars, enabled, disk, scans, worker, stopping, witness, events>>

Queue(t) ==
    /\ calls[t].op = "start"
    /\ Len(scans) < MaxScans
    /\ scans' = Append(scans, [status |-> "queued", cancel |-> FALSE])
    /\ Answer(t)
    /\ UNCHANGED <<journalVars, enabled, disk, worker, stopping, witness, events>>

(* request_cancel(); one that is being canceled anyway is left alone. *)
CancelScan(t) ==
    /\ calls[t].op = "none"
    /\ Alone
    /\ \E j \in DOMAIN scans :
          /\ scans[j].status \in Active
          /\ scans[j].status = "canceling" => ~scans[j].cancel
          /\ calls' = [calls EXCEPT ![t] = [NoCall EXCEPT
                          !.op = "cancel", !.scan = j, !.queued = (scans[j].status = "queued")]]
    /\ UNCHANGED <<journalVars, enabled, disk, scans, worker, stopping, witness, events>>

Cancel(t) ==
    /\ calls[t].op = "cancel"
    /\ scans' = [scans EXCEPT ![calls[t].scan] =
                    [status |-> IF calls[t].queued THEN "canceled" ELSE "canceling",
                     cancel |-> TRUE]]
    /\ Answer(t)
    /\ UNCHANGED <<journalVars, enabled, disk, worker, stopping, witness, events>>

RemoveRoot(t) ==
    /\ Happens
    /\ calls[t].op = "none"
    /\ Alone
    /\ enabled \/ Present # {}
    /\ calls' = [calls EXCEPT ![t] = [NoCall EXCEPT !.op = "disable", !.rows = sources]]
    /\ UNCHANGED <<journalVars, enabled, disk, scans, worker, stopping, witness>>

(* disable_root(), with the rows it has read. *)
Disable(t) ==
    /\ calls[t].op = "disable"
    /\ LET rows == calls[t].rows
           gone == {s \in Sources : rows[s].present}
       IN Record(gone, [s \in gone |-> Tombstone([sources[s] EXCEPT !.revision = rows[s].revision])])
    /\ enabled' = FALSE
    /\ scans' = [j \in DOMAIN scans |-> IF scans[j].status \in Active
                                        THEN [scans[j] EXCEPT !.cancel = TRUE]
                                        ELSE scans[j]]
    /\ witness' = [witness EXCEPT !.sound = FALSE]
    /\ Answer(t)
    /\ UNCHANGED <<batch, disk, worker, stopping, events>>

-----------------------------------------------------------------------------
(* The worker thread.                                                      *)

EndScan(status) == scans' = [scans EXCEPT ![worker.scan].status = status]

(* claim_job() of the scan that was queued first. *)
Claim ==
    /\ worker.phase = "idle"
    /\ ~stopping
    /\ Alone
    /\ \E j \in DOMAIN scans :
          /\ scans[j].status = "queued"
          /\ \A i \in 1 .. j - 1 : scans[i].status # "queued"
          /\ scans' = [scans EXCEPT ![j].status = "running"]
          /\ worker' = [Resting EXCEPT !.phase = "walk", !.scan = j, !.directories = Directories]
    /\ witness' = [steady |-> Sources, sound |-> enabled, left |-> {}]
    /\ UNCHANGED <<journalVars, enabled, disk, stopping, calls, events>>

(* The root is not there, or a write failed. *)
Fail ==
    /\ Happens
    /\ worker.phase \in {"walk", "close"}
    /\ Alone
    /\ EndScan("failed")
    /\ worker' = Resting
    /\ witness' = NoWitness
    /\ UNCHANGED <<journalVars, enabled, disk, stopping, calls>>

(* _walk() takes the next directory, unless the worker is being stopped; one
   that cannot be read has no files. *)
List(d) ==
    /\ worker.phase = "walk"
    /\ worker.listed = {}
    /\ d \in worker.directories
    /\ ~stopping
    /\ \/ /\ worker' = [worker EXCEPT !.directories = @ \ {d},
                                      !.listed = {s \in Sources : /\ DirectoryOf[s] = d
                                                                  /\ disk[s] # NoContent}]
          /\ UNCHANGED <<witness, events>>
       \/ /\ Happens
          /\ worker' = [worker EXCEPT !.directories = @ \ {d}]
          /\ witness' = [witness EXCEPT !.sound = FALSE]
    /\ UNCHANGED <<journalVars, enabled, disk, scans, stopping, calls>>

(* A file that is gone when it is its turn is passed over. *)
PassOver(s) ==
    /\ worker.phase = "walk"
    /\ s \in worker.listed
    /\ disk[s] = NoContent
    /\ worker' = [worker EXCEPT !.listed = @ \ {s}]
    /\ UNCHANGED <<journalVars, enabled, disk, scans, stopping, calls, witness, events>>

Abort(s) ==
    /\ worker.phase = "walk"
    /\ s \in worker.listed
    /\ disk[s] # NoContent
    /\ stopping \/ scans[worker.scan].cancel
    /\ Alone
    /\ EndScan("canceled")
    /\ worker' = Resting
    /\ witness' = NoWitness
    /\ UNCHANGED <<journalVars, enabled, disk, stopping, calls, events>>

(* Variant: only a file that has a row counts as seen. *)
SeenKnown(s) == IF sources[s].present THEN worker.seen \cup {s} ELSE worker.seen

(* A file counts as seen before it is examined; then upsert_source() reads
   whether the root is enabled and what the row of the file is. *)
Seen(s) == worker.seen \cup {s}

Visit(s) ==
    /\ worker.phase = "walk"
    /\ s \in worker.listed
    /\ disk[s] # NoContent
    /\ ~stopping
    /\ ~scans[worker.scan].cancel
    /\ Alone
    /\ worker' = [worker EXCEPT !.phase = "write", !.listed = @ \ {s}, !.seen = Seen(s),
                                !.file = {s}, !.row = sources[s], !.allowed = enabled,
                                !.content = disk[s]]
    /\ UNCHANGED <<journalVars, enabled, disk, scans, stopping, calls, witness, events>>

Walking == [worker EXCEPT !.phase = "walk", !.file = {}, !.row = NoRow, !.allowed = FALSE,
                          !.content = NoContent]

(* Variant: every file that is visited is written. *)
UnchangedNever(row, c) == FALSE

(* Variant: a file that comes back as it was is unchanged. *)
UnchangedContent(row, c) == row.content = c

Unchanged(row, c) == row.present /\ row.content = c

(* Of an unchanged file the row is written as it was read, without a delta. *)
Write(s) ==
    /\ worker.phase = "write"
    /\ s \in worker.file
    /\ IF ~worker.allowed THEN UNCHANGED journalVars
       ELSE IF Unchanged(worker.row, worker.content)
       THEN /\ sources' = [sources EXCEPT ![s] = worker.row]
            /\ UNCHANGED <<deltas, sequence, batch, history>>
       ELSE /\ Record({s}, [t \in {s} |-> Stored(worker.row, worker.content)])
            /\ UNCHANGED batch
    /\ worker' = Walking
    /\ UNCHANGED <<enabled, disk, scans, stopping, calls, witness, events>>

(* A file that cannot be examined or written counts as an error. *)
LeaveOut(s) ==
    /\ Happens
    /\ worker.phase = "write"
    /\ s \in worker.file
    /\ worker' = Walking
    /\ witness' = [witness EXCEPT !.left = @ \cup {s}]
    /\ UNCHANGED <<journalVars, enabled, disk, scans, stopping, calls>>

(* The walk is at its end, or was cut short by the stop flag. *)
Walked == worker.listed = {} /\ (worker.directories = {} \/ stopping)

(* Variant: sources that are missing already are marked again. *)
MissingAny == Sources \ worker.seen

Missing == Present \ worker.seen

(* mark_missing() *)
MarkMissing ==
    /\ worker.phase = "walk"
    /\ Walked
    /\ Alone
    /\ Record(Missing, [s \in Missing |-> Tombstone(sources[s])])
    /\ worker' = [worker EXCEPT !.phase = "close"]
    /\ UNCHANGED <<batch, enabled, disk, scans, stopping, calls, witness, events>>

Complete ==
    /\ worker.phase = "close"
    /\ Alone
    /\ EndScan("completed")
    /\ worker' = Resting
    /\ witness' = NoWitness
    /\ UNCHANGED <<journalVars, enabled, disk, stopping, calls, events>>

-----------------------------------------------------------------------------
Outside == (\E s \in Sources : DiskChange(s)) \/ Dispose \/ Restart

Call(t) ==
    \/ StartScan(t) \/ Queue(t)
    \/ CancelScan(t) \/ Cancel(t)
    \/ RemoveRoot(t) \/ Disable(t)

Reply(t) == Queue(t) \/ Cancel(t) \/ Disable(t)

Work ==
    \/ Claim
    \/ \E d \in Directories : List(d)
    \/ \E s \in Sources : PassOver(s) \/ Abort(s) \/ Visit(s) \/ Write(s)
    \/ MarkMissing
    \/ Complete

Next ==
    \/ Outside
    \/ EnsureStarted
    \/ AddRoot
    \/ \E t \in Threads : Call(t)
    \/ Work
    \/ \E s \in Sources : LeaveOut(s)
    \/ Fail

Spec == Init /\ [][Next]_vars

(* The worker goes on, calls are answered, and a worker that was stopped is
   started again by the next call. *)
Fairness ==
    /\ WF_vars(Work)
    /\ WF_vars(EnsureStarted)
    /\ \A t \in Threads : WF_vars(Reply(t))

FairSpec == Spec /\ Fairness

-----------------------------------------------------------------------------
TypeOK ==
    /\ JournalTypeOK
    /\ enabled \in BOOLEAN
    /\ disk \in [Sources -> Contents \cup {NoContent}]
    /\ scans \in Seq(Scan) /\ Len(scans) <= MaxScans
    /\ worker \in Workers
    /\ stopping \in BOOLEAN
    /\ calls \in [Threads -> Calls]
    /\ witness \in Witnesses
    /\ events \in 0 .. MaxEvents

(* Scans, removals, restorations and restarts of the root write nothing but
   the journal's own transactions: in particular, revisions go up by one, a
   change has its delta, and a visit that finds no change writes none. *)
ImplementsJournal == JournalSpec

(* A scan that walked the whole of a root that stayed enabled and readable
   leaves the table as the files are, except for those that changed under it
   or could not be examined. *)
CompletedScanAgrees ==
    [][\A j \in DOMAIN scans :
          /\ scans[j].status # "completed"
          /\ scans'[j].status = "completed"
          /\ witness.sound
          /\ worker.directories = {}
          => \A s \in witness.steady \ witness.left :
                /\ sources[s].present <=> disk[s] # NoContent
                /\ sources[s].present => sources[s].content = disk[s]]_vars

(* Whatever becomes of a scan, a file that was there all the time is not
   announced as removed, unless its root was removed or could not be read,
   or the walk was cut short. *)
RemovedIsGone ==
    [][\A s \in Sources :
          /\ sources[s].present
          /\ ~sources'[s].present
          /\ enabled'
          => \/ s \notin witness.steady
             \/ disk[s] = NoContent
             \/ ~witness.sound
             \/ worker.directories # {}]_vars

(* Every scan ends, through cancellations, removals of the root, stops and
   restarts: none is active for good and keeps new scans from being queued. *)
ScansEnd ==
    \A j \in 1 .. MaxScans :
        (j \in DOMAIN scans) ~> (j \in DOMAIN scans /\ scans[j].status \in Ended)
=============================================================================
