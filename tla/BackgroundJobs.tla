---------------------------- MODULE BackgroundJobs ----------------------------
(***************************************************************************)
(* The background jobs of the media center coordinator: jobs are admitted   *)
(* for the items of the catalog, a window of them at a time, along a durable*)
(* cursor, and are run by the enrichment worker, whose thread is started,   *)
(* replaced, stopped, and lost with its process.                            *)
(*                                                                         *)
(* A job is named by its item and its witness, a hash of the evidence it    *)
(* was admitted for.  Abstracted: the kinds of jobs, which share nothing but*)
(* the worker (one kind stands for all; it is the metadata enrichment,      *)
(* whose witness includes the revision of the settings), the order in which *)
(* jobs are claimed and receipts pruned, what a job computes, and the       *)
(* upgrade of queues of former releases.                                    *)
(***************************************************************************)
EXTENDS Naturals, FiniteSets

CONSTANTS
    LastItem,       \* items are numbered in the order of their ids
    Evidences,      \* what is known of an item
    Missing,        \* the evidence of an item that is missing
    Asked,          \* the witness of a job that a caller asked for
    Requested,      \* the items that callers ask jobs for
    Threads,        \* threads of enrichment workers
    Nobody,         \* no thread
    Window,         \* BACKGROUND_JOB_WINDOWS of the kind
    Batch,          \* items a refill looks at
    Budget,         \* how often a job is run
    Retained,       \* receipts that are kept
    MaxSettings,    \* bound on changes of the settings
    MaxEvents,      \* bound on what happens to the worker from outside
    LongRuns        \* whether a run may outlast the stale interval

ASSUME ItemsAssumption == LastItem \in Nat /\ Batch \in Nat \ {0} /\ Window \in Nat \ {0}
ASSUME JobsAssumption == Budget \in Nat \ {0} /\ Retained \in Nat /\ Requested \subseteq 1 .. LastItem
ASSUME BoundsAssumption == MaxSettings \in Nat /\ MaxEvents \in Nat /\ LongRuns \in BOOLEAN
ASSUME NamesAssumption == Missing \notin Evidences /\ Nobody \notin Threads /\ Threads # {}

VARIABLES
    catalog,        \* the evidence of each item
    settings,       \* the revision of the metadata settings
    jobs,           \* the table media_background_jobs
    older,          \* pairs of jobs that have not ended, the one created before first
    admission,      \* the state of the admission: its cursor and its pause
    threads,        \* where each thread is
    current,        \* the thread of the worker the runtime holds
    update,         \* the change of the settings that is under way
    events          \* how many outside events there were; not in the code

vars == <<catalog, settings, jobs, older, admission, threads, current, update, events>>

Items == 1 .. LastItem
Witnesses == Evidences \X (0 .. MaxSettings)
JobIds == Items \X (Witnesses \cup {Asked})
Statuses == {"queued", "running", "completed", "failed"}
Rows == [status : Statuses, attempts : 0 .. Budget, aged : BOOLEAN]
Queued == [status |-> "queued", attempts |-> 0, aged |-> FALSE]
NoJob == <<0, Asked>>

Off == [phase |-> "off", job |-> NoJob, stop |-> FALSE]
Started == [phase |-> "idle", job |-> NoJob, stop |-> FALSE]
NoUpdate == [pending |-> FALSE, awaited |-> Nobody]
Alive(t) == t \in Threads /\ threads[t].phase # "off"
Stopped(t) == [u \in Threads |-> [threads[u] EXCEPT !.stop = @ \/ (u = t /\ Alive(u))]]

First == CHOOSE t \in Threads : TRUE
Spare == CHOOSE t \in Threads : ~Alive(t)

(* A worker is made if the runtime holds none. *)
NewWorker ==
    IF current = Nobody THEN (\E t \in Threads : ~Alive(t)) /\ current' = Spare
                        ELSE UNCHANGED current

Having(table, statuses) == {id \in DOMAIN table : table[id].status \in statuses}
Without(table, ids) == [id \in DOMAIN table \ ids |-> table[id]]
Active == {"queued", "running"}
Ended == {"completed", "failed"}

(* The order of creation after a step: the jobs of before that are left, then
   new ones in the order of their items. *)
Arranged(before) ==
    LET left == Having(jobs', Active) \cap before
        new  == Having(jobs', Active) \ before
    IN older' = {e \in older : e[1] \in left /\ e[2] \in left} \cup (left \X new)
                \cup {e \in new \X new : e[1][1] < e[2][1]}

Held(id) == \E t \in Threads : threads[t].job = id

Init ==
    /\ catalog = [i \in Items |-> Missing]
    /\ settings = 0
    /\ jobs = [id \in {} |-> Queued]
    /\ older = {}
    /\ admission = [cursor |-> 0, resting |-> FALSE]
    /\ threads = [t \in Threads |-> Off]
    /\ current = First
    /\ update = NoUpdate
    /\ events = 0

Happens == events < MaxEvents /\ events' = events + 1

-----------------------------------------------------------------------------
(* _refill_background_job_windows_connection(): the next items after the
   cursor, until the window is full.                                       *)

(* Variant: missing items are admitted as well. *)
AdmissibleAny(evidence) == TRUE

Admissible(evidence) == evidence # Missing

(* Variant: a job that was run is inserted again. *)
AdmittedAgain(table, id) == id \notin Having(table, Active)

(* INSERT OR IGNORE: a job of this witness has not been there. *)
Admitted(table, id) == id \notin DOMAIN table

Following(evidence, cursor) ==
    LET after == {i \in Items : i > cursor /\ Admissible(evidence[i])}
    IN {i \in after : Cardinality({j \in after : j <= i}) <= Batch}

(* Variant: the window is left only when it is exceeded. *)
RoomOneMore(active) == active <= Window

Room(active) == active < Window

(* The items before which the window still had room. *)
Examined(table, evidence, revision, rows) ==
    {i \in rows :
        Room(Cardinality(Having(table, Active))
             + Cardinality({j \in rows :
                   j < i /\ Admitted(table, <<j, <<evidence[j], revision>>>>)}))}

(* Variant: the cursor stays at the end of the catalog. *)
CursorKept(rows, seen, cursor) ==
    [cursor |-> IF seen = {} THEN cursor ELSE CHOOSE i \in seen : \A j \in seen : j <= i,
     resting |-> seen = rows /\ Cardinality(rows) < Batch]

Moved(rows, seen, cursor) ==
    IF seen = rows /\ Cardinality(rows) < Batch
    THEN [cursor |-> 0, resting |-> TRUE]
    ELSE [cursor |-> CHOOSE i \in seen : \A j \in seen : j <= i, resting |-> FALSE]

(* _queue_source_background_jobs() for each item: queued jobs of another
   witness give way to the job of its present witness. *)
Refill(table, state, evidence, revision, force) ==
    LET rows  == Following(evidence, state.cursor)
        seen  == Examined(table, evidence, revision, rows)
        ids   == {<<i, <<evidence[i], revision>>>> : i \in seen}
        stale == {id \in Having(table, {"queued"}) : id[1] \in seen /\ id \notin ids}
        new   == {id \in ids : Admitted(table, id)}
    IN IF Room(Cardinality(Having(table, Active))) /\ (force \/ ~state.resting)
       THEN /\ jobs' = [id \in (DOMAIN table \ stale) \cup new |->
                           IF id \in new THEN Queued ELSE table[id]]
            /\ admission' = Moved(rows, seen, state.cursor)
       ELSE jobs' = table /\ admission' = state

-----------------------------------------------------------------------------
(* The catalog and the callers.                                            *)

(* apply_agent_page(): items change, and the windows are refilled. *)
ApplyAgentPage ==
    /\ Happens
    /\ catalog' \in [Items -> Evidences \cup {Missing}]
    /\ catalog' # catalog
    /\ Refill(jobs, admission, catalog', settings, TRUE)
    /\ Arranged(Having(jobs, Active))
    /\ UNCHANGED <<settings, threads, current, update>>

(* Variant: jobs are recovered however long they have been running. *)
RecoverableSoon(row) == row.status = "running"

Recoverable(row) == row.status = "running" /\ row.aged

(* Variant: jobs are put back however often they were run. *)
RecoveredAlways(row) == [row EXCEPT !.status = "queued", !.aged = FALSE]

Recovered(row) ==
    [row EXCEPT !.status = IF row.attempts < Budget THEN "queued" ELSE "failed", !.aged = FALSE]

(* recover_stale_background_jobs() *)
Recover(table) ==
    [id \in DOMAIN table |-> IF Recoverable(table[id]) THEN Recovered(table[id]) ELSE table[id]]

(* queue_background_job(): a job of its own, whatever the window holds, and
   a worker if the runtime has none. *)
AskFor(i) ==
    /\ Happens
    /\ catalog[i] # Missing
    /\ <<i, Asked>> \notin DOMAIN jobs
    /\ jobs' = [id \in DOMAIN jobs \cup {<<i, Asked>>} |->
                   IF id \in DOMAIN jobs THEN jobs[id] ELSE Queued]
    /\ Arranged(Having(jobs, Active))
    /\ NewWorker
    /\ UNCHANGED <<catalog, settings, admission, threads, update>>

(* A change of the settings takes the worker from the runtime, stops it and
   waits for it; *)
ChangeSettings ==
    /\ settings < MaxSettings
    /\ ~update.pending
    /\ settings' = settings + 1
    /\ threads' = Stopped(current)
    /\ current' = Nobody
    /\ update' = [pending |-> TRUE, awaited |-> current]
    /\ UNCHANGED <<catalog, jobs, older, admission, events>>

(* then requeue_metadata_enrichment() starts the admission anew, and there
   is a new worker; *)
Requeue ==
    /\ update.pending
    /\ ~Alive(update.awaited)
    /\ Refill(Without(jobs, Having(jobs, {"queued"})), [cursor |-> 0, resting |-> FALSE],
              catalog, settings, TRUE)
    /\ Arranged(Having(jobs, {"running"}))
    /\ NewWorker
    /\ update' = NoUpdate
    /\ UNCHANGED <<catalog, settings, threads, events>>

(* or a run takes longer than the call waits, and the call fails. *)
GiveUp ==
    /\ update.pending
    /\ Alive(update.awaited)
    /\ threads[update.awaited].phase = "run"
    /\ update' = NoUpdate
    /\ UNCHANGED <<catalog, settings, jobs, older, admission, threads, current, events>>

(* enrichment_worker(), when the credential of a provider has changed: the
   worker is told to stop and a new one is started without waiting for it. *)
Replace ==
    /\ Happens
    /\ Alive(current)
    /\ threads' = Stopped(current)
    /\ \E t \in Threads : ~Alive(t)
    /\ current' = Spare
    /\ UNCHANGED <<catalog, settings, jobs, older, admission, update>>

(* The process ends and starts again. *)
Crash ==
    /\ Happens
    /\ threads' = [t \in Threads |-> Off]
    /\ current' = First
    /\ update' = NoUpdate
    /\ UNCHANGED <<catalog, settings, jobs, older, admission>>

(* Time passes: a run has been interrupted for the stale interval; *)
Age(id) ==
    /\ id \in Having(jobs, {"running"})
    /\ ~jobs[id].aged
    /\ LongRuns \/ ~Held(id)
    /\ jobs' = [jobs EXCEPT ![id].aged = TRUE]
    /\ UNCHANGED <<older, catalog, settings, admission, threads, current, update, events>>

(* and the pause between two passes over the catalog is over. *)
Rested ==
    /\ admission.resting
    /\ admission' = [admission EXCEPT !.resting = FALSE]
    /\ UNCHANGED <<catalog, settings, jobs, older, threads, current, update, events>>

-----------------------------------------------------------------------------
(* The thread of a worker.                                                 *)

At(t, phase) == threads[t].phase = phase
Goes(t, phase, id) == threads' = [threads EXCEPT ![t].phase = phase, ![t].job = id]

Start(t) ==
    /\ current = t
    /\ ~Alive(t)
    /\ threads' = [threads EXCEPT ![t] = Started]
    /\ jobs' = Recover(jobs)
    /\ Arranged(Having(jobs, Active))
    /\ UNCHANGED <<catalog, settings, admission, current, update, events>>

Stop(t) ==
    /\ At(t, "idle")
    /\ threads[t].stop
    /\ threads' = [threads EXCEPT ![t] = Off]
    /\ UNCHANGED <<catalog, settings, jobs, older, admission, current, update, events>>

(* run_once() refills the windows, if it has not just done so, *)
Admit(t) ==
    /\ At(t, "idle")
    /\ ~threads[t].stop
    /\ Refill(jobs, admission, catalog, settings, FALSE)
    /\ Arranged(Having(jobs, Active))
    /\ UNCHANGED <<catalog, settings, threads, current, update, events>>

(* A caller gives a job a priority of his own. *)
Foremost(id) ==
    /\ id \in Having(jobs, {"queued"})
    /\ \A j \in Having(jobs, {"queued"}) :
          (j[2] = Asked <=> id[2] = Asked) => <<j, id>> \notin older

(* claims the oldest job of its priority (one that is claimed just after the
   stop was claimed, as far as anyone can tell, just before), *)
Claim(t, id) ==
    /\ At(t, "idle")
    /\ ~threads[t].stop
    /\ Foremost(id)
    /\ jobs[id].attempts < Budget
    /\ jobs' = [jobs EXCEPT ![id].status = "running", ![id].attempts = @ + 1]
    /\ Goes(t, "run", id)
    /\ UNCHANGED <<older, catalog, settings, admission, current, update, events>>

Ends(t, status) ==
    /\ jobs' = [jobs EXCEPT ![threads[t].job].status = status]
    /\ Arranged(Having(jobs, Active))
    /\ Goes(t, "idle", NoJob)
    /\ UNCHANGED <<catalog, settings, admission, current, update, events>>

(* and runs it: finish_background_job(), which leaves alone a job that is
   not running any more, *)
Finish(t) ==
    /\ At(t, "run")
    /\ Ends(t, IF jobs[threads[t].job].status = "running" THEN "completed"
               ELSE jobs[threads[t].job].status)

(* fail_background_job(), which does not look, *)
Fail(t, retryable) ==
    /\ At(t, "run")
    /\ Ends(t, IF retryable /\ jobs[threads[t].job].attempts < Budget THEN "queued" ELSE "failed")

(* or an exception that the loop catches, with the job as it is. *)
Raise(t) ==
    /\ Happens
    /\ At(t, "run")
    /\ Goes(t, "idle", NoJob)
    /\ UNCHANGED <<catalog, settings, jobs, older, admission, current, update>>

(* compact_background_job_queue(): queued jobs beyond the window are deleted
   in batches (of one), and then the admission starts anew; *)
Compact(t) ==
    /\ At(t, "idle")
    /\ Cardinality(Having(jobs, {"queued"})) > Window
    /\ \E id \in Having(jobs, {"queued"}) : jobs' = Without(jobs, {id})
    /\ Arranged(Having(jobs, Active))
    /\ admission' = [cursor |-> 0, resting |-> FALSE]
    /\ UNCHANGED <<catalog, settings, threads, current, update, events>>

(* prune_terminal_background_jobs(): so are receipts beyond those retained. *)
Prune(t) ==
    /\ At(t, "idle")
    /\ Cardinality(Having(jobs, Ended)) > Retained
    /\ \E id \in Having(jobs, Ended) : jobs' = Without(jobs, {id})
    /\ UNCHANGED <<older, catalog, settings, admission, threads, current, update, events>>

-----------------------------------------------------------------------------
Run(t) ==
    \/ Start(t) \/ Stop(t)
    \/ \E id \in JobIds : Claim(t, id)
    \/ Finish(t) \/ Fail(t, TRUE) \/ Fail(t, FALSE)

Next ==
    \/ ApplyAgentPage
    \/ \E i \in Requested : AskFor(i)
    \/ ChangeSettings \/ Requeue \/ GiveUp
    \/ Replace \/ Crash
    \/ \E id \in JobIds : Age(id)
    \/ Rested
    \/ \E t \in Threads : Run(t) \/ Admit(t) \/ Raise(t) \/ Compact(t) \/ Prune(t)

Spec == Init /\ [][Next]_vars

(* The thread of a worker goes on; it refills the windows again and again,
   before it claims and as long as it is idle; the pause ends; a change of the
   settings is not kept waiting. *)
Fairness ==
    /\ \A t \in Threads : WF_vars(Run(t)) /\ SF_vars(Admit(t))
    /\ WF_vars(Rested)
    /\ WF_vars(Requeue \/ GiveUp)

FairSpec == Spec /\ Fairness

-----------------------------------------------------------------------------
TypeOK ==
    /\ catalog \in [Items -> Evidences \cup {Missing}]
    /\ settings \in 0 .. MaxSettings
    /\ DOMAIN jobs \subseteq JobIds /\ jobs \in [DOMAIN jobs -> Rows]
    /\ older \subseteq Having(jobs, Active) \X Having(jobs, Active)
    /\ admission \in [cursor : 0 .. LastItem, resting : BOOLEAN]
    /\ threads \in [Threads -> [phase : {"off", "idle", "run"},
                               job : JobIds \cup {NoJob}, stop : BOOLEAN]]
    /\ current \in Threads \cup {Nobody}
    /\ update \in [pending : BOOLEAN, awaited : Threads \cup {Nobody}]
    /\ events \in 0 .. MaxEvents

(* The jobs that were admitted never exceed the window, whatever is put back,
   recovered, superseded, requeued or compacted, and none that waits holds its
   place for good: it was not put back after its last attempt. *)
WindowKept ==
    /\ Cardinality({id \in Having(jobs, Active) : id[2] # Asked}) <= Window
    /\ \A id \in Having(jobs, {"queued"}) : jobs[id].attempts < Budget

(* A job is run by one thread at a time, and is not taken from it: also
   when a worker is replaced while its thread still runs. *)
OneRunner ==
    \A t \in Threads : threads[t].phase = "run" =>
        /\ threads[t].job \in Having(jobs, {"running"})
        /\ \A u \in Threads \ {t} : threads[u].job # threads[t].job

(* A job that has ended is not run again while its receipt is kept. *)
ReceiptsStand ==
    [][\A id \in Having(jobs, Ended) \cap DOMAIN jobs' : jobs'[id].status = jobs[id].status]_vars

Abandoned == {id \in Having(jobs, {"running"}) : ~Held(id)}

(* Nothing runs jobs any more, or what was left running fills the window. *)
Halted ==
    \/ current = Nobody /\ ~update.pending
    \/ Cardinality(Abandoned) >= Window

(* Every item that stays is examined on the evidence it has in the end: the
   cursor, the window, pauses, failures, pruned receipts, changes of the
   settings and replaced workers leave none out, but for a job that was left
   running. *)
EvidenceExamined ==
    \A i \in Items : []<>(LET id == <<i, <<catalog[i], settings>>>>
                          IN catalog[i] = Missing \/ id \in Having(jobs, Ended)
                             \/ id \in Abandoned \/ Halted)
=============================================================================
