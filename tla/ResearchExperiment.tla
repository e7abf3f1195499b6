-------------------------- MODULE ResearchExperiment --------------------------
(***************************************************************************)
(* The execution of one locked research experiment: start_experiment(),     *)
(* reconcile_experiment(), cancel_experiment(), retry_run() and             *)
(* finalize_experiment() of the research manager.                           *)
(*                                                                         *)
(* A call commits one step after another, in no transaction, and calls the  *)
(* executor, the runner and the tracker in between: it may end anywhere,    *)
(* with an exception or with its process.  Each commit is one action here.  *)
(*                                                                         *)
(* Abstracted: the events of a session (it has observations once they were  *)
(* collected, and artifacts), "lost", which is one more way to fail, the    *)
(* records of a plan (put() returns those that are there), and what is      *)
(* computed from results.                                                   *)
(***************************************************************************)
EXTENDS Naturals, Sequences, FiniteSets, SequencesExt

CONSTANTS
    Callers,        \* calls of the tools that may be under way
    PlanSize,       \* the runs of the plan of the experiment are numbered
    MaxAttempts,    \* bound on the attempts of the experiment
    MaxFaults       \* bound on the calls that end halfway

ASSUME PlanAssumption == PlanSize \in Nat \ {0}
ASSUME BoundsAssumption == MaxAttempts \in Nat /\ MaxFaults \in Nat

VARIABLES
    lifecycle,      \* state and generation, read from the last transition event
    outcomes,       \* the idempotency keys reconcile_experiment() has used
    executor,       \* what the executor knows of each attempt submitted to it
    bindings,       \* the attempts of each run, in the order of their numbers
    attempts,       \* what is recorded of each attempt that is bound
    result,         \* whether the experiment_result record is there
    call,           \* where each call is
    faults          \* how many calls ended halfway; not in the code

vars == <<lifecycle, outcomes, executor, bindings, attempts, result, call, faults>>

Runs == 1 .. PlanSize
Unsuccessful == {"failed", "cancelled"}
Terminal == Unsuccessful \cup {"succeeded"}
Statuses == Terminal \cup {"running", "stopping"}
States == {"locked", "running", "cancelling", "results_ready", "failed", "cancelled", "finalized"}

\* An attempt is named by its idempotency key: the generation of the command,
\* the run, and the number of the attempt.
Attempt(g, r) == <<g, r, Len(bindings[r]) + 1>>
Bound == {r \in Runs : bindings[r] # <<>>}
Latest(r) == Last(bindings[r])
Known(r) == attempts[Latest(r)].known

\* Variant: the status the attempt is bound with is not looked at.
FreshUnknown(status) == [known |-> "none", session |-> "none", journal |-> {}, recorded |-> FALSE]

Fresh(status) == [known |-> status, session |-> "none", journal |-> {}, recorded |-> FALSE]

Idle == [op |-> "none", at |-> "idle", todo |-> {}, on |-> <<>>, status |-> "none",
         generation |-> 0, seen |-> {}]

Init ==
    /\ lifecycle = [state |-> "locked", generation |-> 0]
    /\ outcomes = {}
    /\ executor = [a \in {} |-> "running"]
    /\ bindings = [r \in Runs |-> <<>>]
    /\ attempts = [a \in {} |-> Fresh("running")]
    /\ result = FALSE
    /\ call = [c \in Callers |-> Idle]
    /\ faults = 0

\* EXPERIMENT_TRANSITIONS
Targets ==
    [command \in {"start", "cancel", "ready", "fail", "cancelled", "retry", "finalize"} |->
        CASE command = "start"     -> [from |-> {"locked"}, to |-> "running"]
          [] command = "cancel"    -> [from |-> {"running"}, to |-> "cancelling"]
          [] command = "ready"     -> [from |-> {"running", "cancelling"}, to |-> "results_ready"]
          [] command = "fail"      -> [from |-> {"running"}, to |-> "failed"]
          [] command = "cancelled" -> [from |-> {"cancelling"}, to |-> "cancelled"]
          [] command = "retry"     -> [from |-> {"failed", "cancelled"}, to |-> "running"]
          [] command = "finalize"  -> [from |-> {"results_ready"}, to |-> "finalized"]]

Admitted(command, generation) ==
    generation = lifecycle.generation /\ lifecycle.state \in Targets[command].from

Transition(command) ==
    lifecycle' = [state |-> Targets[command].to, generation |-> lifecycle.generation + 1]

Open(c, op, at, todo) ==
    /\ call[c] = Idle
    /\ call' = [call EXCEPT ![c] = [Idle EXCEPT !.op = op, !.at = at, !.todo = todo,
                                                !.generation = lifecycle.generation]]

\* The runs of a plan, and their attempts, are gone through in order.
Least(s) == CHOOSE i \in s : \A j \in s : i <= j
Foremost(s) == CHOOSE a \in s : \A b \in s : a[2] <= b[2]

Goes(c, at) == call' = [call EXCEPT ![c].at = at]
Returns(c) == call' = [call EXCEPT ![c] = Idle]
Within(c, at) == call[c].at = at

\* A call ends with an exception or with its process.
Fails(c) ==
    /\ call[c] # Idle
    /\ faults < MaxFaults
    /\ faults' = faults + 1
    /\ Returns(c)
    /\ UNCHANGED <<lifecycle, outcomes, executor, bindings, attempts, result>>

\* The executor lets an attempt run for its wall time at most.
Ends(a) ==
    /\ executor[a] \notin Terminal
    /\ \E status \in IF executor[a] = "stopping" THEN Terminal ELSE {"succeeded", "failed"} :
          executor' = [executor EXCEPT ![a] = status]
    /\ UNCHANGED <<lifecycle, outcomes, bindings, attempts, result, call, faults>>

-----------------------------------------------------------------------------
(* start_experiment() and retry_run() *)

HasRoom(submissions) == Cardinality(DOMAIN attempts) + submissions <= MaxAttempts

Start(c) ==
    /\ lifecycle.state = "locked"
    /\ HasRoom(PlanSize)
    /\ Open(c, "start", "submit", Runs)
    /\ UNCHANGED <<lifecycle, outcomes, executor, bindings, attempts, result, faults>>

Retries(r) == r \in Bound /\ Known(r) \in Unsuccessful

Retry(c, r) ==
    /\ lifecycle.state \in Targets["retry"].from
    /\ Retries(r) /\ HasRoom(1)
    /\ Open(c, "retry", "submit", {r})
    /\ UNCHANGED <<lifecycle, outcomes, executor, bindings, attempts, result, faults>>

\* _submit_runner_attempt(): the executor returns the attempt it has for the
\* key, or starts one; ...
Submit(c) ==
    /\ Within(c, "submit")
    /\ LET a == Attempt(call[c].generation, Least(call[c].todo))
           status == IF a \in DOMAIN executor THEN executor[a] ELSE "running"
       IN  /\ executor' = [b \in DOMAIN executor \cup {a} |->
                              IF b = a THEN status ELSE executor[b]]
           /\ call' = [call EXCEPT ![c].at = "bind", ![c].on = a, ![c].status = status]
    /\ UNCHANGED <<lifecycle, outcomes, bindings, attempts, result, faults>>

\* ... it is bound to its run, with its status, ...
Bind(c) ==
    LET a == call[c].on
    IN  /\ Within(c, "bind")
        /\ Goes(c, "open")
        /\ IF a \in DOMAIN attempts THEN UNCHANGED <<bindings, attempts>>
           ELSE /\ bindings' = [bindings EXCEPT ![a[2]] = Append(@, a)]
                /\ attempts' = [b \in DOMAIN attempts \cup {a} |->
                                   IF b = a THEN Fresh(call[c].status) ELSE attempts[b]]
        /\ UNCHANGED <<lifecycle, outcomes, executor, result, faults>>

\* ... and its tracking session is opened.
OpenSession(c) ==
    LET left == call[c].todo \ {call[c].on[2]}
    IN  /\ Within(c, "open")
        /\ attempts' = [attempts EXCEPT ![call[c].on].session = IF @ = "none" THEN "running" ELSE @]
        /\ call' = [call EXCEPT ![c].todo = left,
                                ![c].at = IF left = {} THEN "transition" ELSE "submit"]
        /\ UNCHANGED <<lifecycle, outcomes, executor, bindings, result, faults>>

\* The last step of start_experiment(), retry_run() and finalize_experiment();
\* it is refused if another call has changed the experiment.
Conclude(c) ==
    /\ Within(c, "transition")
    /\ Returns(c)
    /\ IF Admitted(call[c].op, call[c].generation)
       THEN Transition(call[c].op) ELSE UNCHANGED lifecycle
    /\ UNCHANGED <<outcomes, executor, bindings, attempts, result, faults>>

-----------------------------------------------------------------------------
(* reconcile_experiment() *)

\* The latest attempts of the runs, as they are bound when the call begins.
Reconcile(c) ==
    /\ Bound # {}
    /\ Open(c, "reconcile", "poll", {Latest(r) : r \in Bound})
    /\ UNCHANGED <<lifecycle, outcomes, executor, bindings, attempts, result, faults>>

Done(c, a, status) ==
    call' = [call EXCEPT ![c].at = "poll", ![c].todo = @ \ {a}, ![c].on = <<>>,
                         ![c].status = "none", ![c].seen = @ \cup {<<a[2], status>>}]

\* An attempt that is known to have ended is not looked at again.
PollEnded(c) ==
    /\ Within(c, "poll") /\ call[c].todo # {}
    /\ LET a == Foremost(call[c].todo)
       IN  /\ attempts[a].known \in Terminal
           /\ Done(c, a, attempts[a].known)
    /\ UNCHANGED <<lifecycle, outcomes, executor, bindings, attempts, result, faults>>

\* The status of the executor is recorded, ...
Poll(c) ==
    /\ Within(c, "poll") /\ call[c].todo # {}
    /\ LET a == Foremost(call[c].todo)
       IN  /\ attempts[a].known \notin Terminal
           /\ attempts' = [attempts EXCEPT ![a].known = executor[a]]
           /\ call' = [call EXCEPT ![c].at = "ingest", ![c].on = a, ![c].status = executor[a]]
    /\ UNCHANGED <<lifecycle, outcomes, executor, bindings, result, faults>>

\* Variant: artifacts are not awaited.
ThenClosed(status) == "close"

\* Variant: only the session of an attempt that succeeded is closed.
ThenRecorded(status) == IF status = "succeeded" THEN "artifacts" ELSE "record"

\* What comes after the progress of an attempt that ended.
ThenIngested(status) == IF status = "succeeded" THEN "artifacts" ELSE "close"

\* ... what the runner has collected is appended to the session, ...
Ingest(c) ==
    LET a == call[c].on
        status == call[c].status
    IN  /\ Within(c, "ingest")
        /\ attempts[a].session = "running"
        /\ attempts' = [attempts EXCEPT ![a].journal = @ \cup {"observations"}]
        /\ IF status \in Terminal
           THEN Goes(c, ThenIngested(status))
           ELSE Done(c, a, status)
        /\ UNCHANGED <<lifecycle, outcomes, executor, bindings, result, faults>>

\* ... which is an error if the session is not open, ...
IngestRaises(c) ==
    /\ Within(c, "ingest")
    /\ attempts[call[c].on].session # "running"
    /\ Returns(c)
    /\ UNCHANGED <<lifecycle, outcomes, executor, bindings, attempts, result, faults>>

\* ... the artifacts of one that succeeded are appended, ...
IngestArtifacts(c) ==
    /\ Within(c, "artifacts")
    /\ attempts' = [attempts EXCEPT ![call[c].on].journal = @ \cup {"artifacts"}]
    /\ Goes(c, "close")
    /\ UNCHANGED <<lifecycle, outcomes, executor, bindings, result, faults>>

\* ... the session of one that ended is closed, ...
Close(c) ==
    /\ Within(c, "close")
    /\ attempts' = [attempts EXCEPT ![call[c].on].session = call[c].status]
    /\ Goes(c, "record")
    /\ UNCHANGED <<lifecycle, outcomes, executor, bindings, result, faults>>

\* ... and the attempt is recorded.
RecordAttempt(c) ==
    /\ Within(c, "record")
    /\ attempts' = [attempts EXCEPT ![call[c].on].recorded = TRUE]
    /\ Done(c, call[c].on, call[c].status)
    /\ UNCHANGED <<lifecycle, outcomes, executor, bindings, result, faults>>

\* Variant: one run that succeeded is enough.
OutcomeOfAny(statuses) ==
    IF "succeeded" \in statuses THEN "ready"
    ELSE IF lifecycle.state = "cancelling" THEN "cancelled" ELSE "fail"

Outcome(statuses) ==
    IF statuses = {"succeeded"} THEN "ready"
    ELSE IF lifecycle.state = "cancelling" THEN "cancelled" ELSE "fail"

\* Variant: a canceled run counts as one that has not ended.
EndedUncanceled(statuses) == statuses \subseteq {"succeeded", "failed"}

AllEnded(statuses) == statuses \subseteq Terminal

\* When every run has ended, the experiment is settled, once for each key,
\* which is made of the statuses of the runs.  The key is committed after the
\* transition: a call that ends in between leaves it out.
Settle(c) ==
    LET statuses == {seen[2] : seen \in call[c].seen}
        outcome == Outcome(statuses)
        key == <<outcome, call[c].seen>>
    IN  /\ Within(c, "poll") /\ call[c].todo = {}
        /\ Returns(c)
        /\ IF /\ AllEnded(statuses)
              /\ lifecycle.state \in {"running", "cancelling"}
              /\ key \notin outcomes
           THEN /\ Transition(outcome)
                /\ \/ outcomes' = outcomes \cup {key} /\ UNCHANGED faults
                   \/ faults < MaxFaults /\ faults' = faults + 1 /\ UNCHANGED outcomes
           ELSE UNCHANGED <<lifecycle, outcomes, faults>>
        /\ UNCHANGED <<executor, bindings, attempts, result>>

-----------------------------------------------------------------------------
(* cancel_experiment() *)

Cancel(c) ==
    /\ Admitted("cancel", lifecycle.generation)
    /\ Transition("cancel")
    /\ Open(c, "cancel", "cancel", {Latest(r) : r \in Bound})
    /\ UNCHANGED <<outcomes, executor, bindings, attempts, result, faults>>

\* Variant: an attempt that was asked to stop counts as cancelled.
StoppedAtOnce(status) == "cancelled"

\* What is recorded of an attempt the executor was asked to stop.
Stopped(status) == status

\* The executor stops an attempt at once or in a while.
CancelAttempt(c) ==
    /\ Within(c, "cancel") /\ call[c].todo # {}
    /\ LET a == Foremost(call[c].todo)
       IN  /\ call' = [call EXCEPT ![c].todo = @ \ {a}]
           /\ IF attempts[a].known \in Terminal THEN UNCHANGED <<executor, attempts>>
              ELSE \E status \in IF executor[a] \in Terminal THEN {executor[a]}
                                 ELSE {"stopping", "cancelled"} :
                      /\ executor' = [executor EXCEPT ![a] = status]
                      /\ attempts' = [attempts EXCEPT ![a].known = Stopped(status)]
    /\ UNCHANGED <<lifecycle, outcomes, bindings, result, faults>>

CancelReturns(c) ==
    /\ Within(c, "cancel") /\ call[c].todo = {}
    /\ Returns(c)
    /\ UNCHANGED <<lifecycle, outcomes, executor, bindings, attempts, result, faults>>

-----------------------------------------------------------------------------
(* finalize_experiment() *)

SessionsClosed == \A a \in DOMAIN attempts : attempts[a].session # "running"

Finalize(c) ==
    /\ Admitted("finalize", lifecycle.generation)
    /\ SessionsClosed
    /\ Open(c, "finalize", "result", {})
    /\ UNCHANGED <<lifecycle, outcomes, executor, bindings, attempts, result, faults>>

\* The record holds the time it was made at: it cannot be put a second time.
PutResult(c) ==
    /\ Within(c, "result")
    /\ result' = TRUE
    /\ IF result THEN Returns(c) ELSE Goes(c, "transition")
    /\ UNCHANGED <<lifecycle, outcomes, executor, bindings, attempts, faults>>

-----------------------------------------------------------------------------
Step(c) ==
    \/ Submit(c) \/ Bind(c) \/ OpenSession(c) \/ Conclude(c)
    \/ PollEnded(c) \/ Poll(c) \/ Ingest(c) \/ IngestRaises(c) \/ IngestArtifacts(c)
    \/ Close(c) \/ RecordAttempt(c) \/ Settle(c)
    \/ CancelAttempt(c) \/ CancelReturns(c)
    \/ PutResult(c)

Next ==
    \/ \E c \in Callers :
          \/ Start(c) \/ Reconcile(c) \/ Cancel(c) \/ Finalize(c)
          \/ \E r \in Runs : Retry(c, r)
          \/ Step(c) \/ Fails(c)
    \/ \E a \in DOMAIN executor : Ends(a)

\* A call goes on, and attempts end.  Reconciliation and finalization are asked
\* for again and again, by the workbench or by the orchestrator's sync.
Fairness ==
    /\ \A c \in Callers : WF_vars(Step(c))
    /\ WF_vars(\E a \in DOMAIN executor : Ends(a))
    /\ SF_vars(\E c \in Callers : Reconcile(c))
    /\ SF_vars(\E c \in Callers : Finalize(c))

Spec == Init /\ [][Next]_vars
FairSpec == Spec /\ Fairness

-----------------------------------------------------------------------------
(* Properties *)

\* Every variable has its type; a bound attempt was submitted.
TypeOK ==
    /\ lifecycle \in [state : States, generation : Nat]
    /\ \A a \in DOMAIN executor : executor[a] \in Statuses
    /\ \A r \in Runs : \A i \in DOMAIN bindings[r] :
          bindings[r][i] \in DOMAIN attempts /\ bindings[r][i][2] = r
    /\ DOMAIN attempts \subseteq DOMAIN executor
    /\ \A a \in DOMAIN attempts :
          attempts[a] \in [known : Statuses, session : Terminal \cup {"none", "running"},
                           journal : SUBSET {"observations", "artifacts"}, recorded : BOOLEAN]
    /\ result \in BOOLEAN /\ faults \in 0 .. MaxFaults
    /\ \A c \in Callers :
          call[c].todo \subseteq IF call[c].op \in {"start", "retry"} THEN Runs ELSE DOMAIN attempts

\* Where the executor has the latest attempt of each run.
Truth == {executor[Latest(r)] : r \in Bound}

\* reconcile_experiment() settles an experiment only when the latest attempts of
\* all runs of the plan have ended at the executor, whatever was interrupted, and
\* its results are ready just if all of them succeeded.
SettledOnTruth ==
    [][lifecycle' # lifecycle /\ lifecycle'.state \in {"failed", "cancelled", "results_ready"} =>
          /\ Bound = Runs
          /\ Truth \subseteq Terminal
          /\ lifecycle'.state = "results_ready" <=> Truth = {"succeeded"}]_vars

\* A session that is closed says of its attempt what the executor says, and that
\* of one that succeeded is complete, wherever calls were interrupted.
EvidenceComplete ==
    \A a \in DOMAIN attempts :
        attempts[a].session \in Terminal =>
            /\ attempts[a].session = executor[a]
            /\ executor[a] = "succeeded" => attempts[a].journal = {"observations", "artifacts"}

\* retry_run() adds an attempt only after the last one has ended at the executor.
RetryAfterEnd ==
    [][\A r \in Runs : bindings'[r] # bindings[r] /\ lifecycle.state # "locked"
          => executor[Latest(r)] \in Terminal]_vars

\* The first outcome of an experiment is settled, whatever calls end halfway.
OutcomeSettles ==
    (lifecycle.state \in {"running", "cancelling"} /\ outcomes = {})
        ~> lifecycle.state \notin {"running", "cancelling"}

\* "Cancellation was requested; reconcile until every attempt is terminal."
\* (research/guidance.py:28)
CancellingEnds == lifecycle.state = "cancelling" ~> lifecycle.state # "cancelling"

\* No call has ended halfway, and no attempt was canceled.
Undisturbed == faults = 0 /\ lifecycle.state # "cancelling"

\* Results that are ready are finalized in the end, also after retries of runs
\* that failed, if nothing disturbs the experiment.
ResultsFinalized ==
    []Undisturbed => (lifecycle.state = "results_ready" ~> lifecycle.state = "finalized")
=============================================================================
