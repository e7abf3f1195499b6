----------------------- MODULE ResearchExperimentProofs -----------------------
(* Theorems about ResearchExperiment, for every value of its constants. *)
EXTENDS ResearchExperiment, SequenceTheorems, WellFoundedInduction, TLAPS

-----------------------------------------------------------------------------
(* The order of a plan *)

LEMMA LeastNumber ==
    ASSUME NEW S \in SUBSET Nat, S # {}
    PROVE  \E m \in S : \A n \in S : m <= n
<1> DEFINE R == OpToRel(<, Nat)
<1>1. IsWellFoundedOn(R, Nat)
  BY NatLessThanWellFounded, Zenon
<1>2. \A m, n \in Nat : m < n => <<m, n>> \in R
  BY DEF OpToRel
<1>3. PICK m \in S : \A n \in S : ~(<<n, m>> \in R)
  <2> HIDE DEF R
  <2> QED BY <1>1, WFMin
<1> HIDE DEF R
<1>4. \A n \in S : ~(n < m)
  BY <1>2, <1>3
<1> QED BY <1>3, <1>4

AttemptIds == Nat \X Runs \X Nat

\* Runs of the plan that are to do have a first one.
LEMMA LeastOfRuns ==
    ASSUME NEW S \in SUBSET Runs, S # {}
    PROVE  Least(S) \in S
<1>1. S \in SUBSET Nat
  BY PlanAssumption DEF Runs
<1>2. \E m \in S : \A n \in S : m <= n
  BY <1>1, LeastNumber
<1> QED BY <1>2 DEF Least

\* Attempts to do have a first one.
LEMMA ForemostOfAttempts ==
    ASSUME NEW S \in SUBSET AttemptIds, S # {}
    PROVE  Foremost(S) \in S
<1> DEFINE T == {a[2] : a \in S}
<1>1. T \in SUBSET Nat /\ T # {}
  BY PlanAssumption DEF AttemptIds, Runs
<1>2. PICK m \in T : \A n \in T : m <= n
  <2> HIDE DEF T
  <2> QED BY <1>1, LeastNumber
<1>3. PICK a \in S : m = a[2]
  OBVIOUS
<1>4. \A b \in S : a[2] <= b[2]
  BY <1>2, <1>3
<1> QED BY <1>4 DEF Foremost

-----------------------------------------------------------------------------
(* Types *)

Ops == {"none", "start", "retry", "reconcile", "cancel", "finalize"}
Submitting == {"submit", "bind", "open"}
Collecting == {"ingest", "artifacts", "close", "record"}
Places == Submitting \cup Collecting \cup {"idle", "transition", "poll", "cancel", "result"}
Calls == [op : Ops, at : Places, todo : SUBSET (Runs \cup AttemptIds), on : AttemptIds \cup {<<>>},
          status : Statuses \cup {"none"}, generation : Nat, seen : SUBSET (Runs \X Statuses)]
AttemptRows == [known : Statuses, session : Terminal \cup {"none", "running"},
                journal : SUBSET {"observations", "artifacts"}, recorded : BOOLEAN]

\* The records have their types, an attempt that is bound was submitted, and the
\* attempts that are bound to a run are attempts of this run.
RecordsOK ==
    /\ lifecycle \in [state : States, generation : Nat]
    /\ DOMAIN executor \subseteq AttemptIds
    /\ executor \in [DOMAIN executor -> Statuses]
    /\ DOMAIN attempts \subseteq DOMAIN executor
    /\ attempts \in [DOMAIN attempts -> AttemptRows]
    /\ bindings \in [Runs -> Seq(DOMAIN attempts)]
    /\ \A r \in Runs : \A i \in DOMAIN bindings[r] : bindings[r][i][2] = r
    /\ result \in BOOLEAN
    /\ faults \in 0 .. MaxFaults

\* Where a call of each operation may be, and what it has then in its hands.
CallOK(k) ==
    /\ k.op \in {"start", "retry"} => k.todo \subseteq Runs
    /\ k.op \notin {"start", "retry"} => k.todo \subseteq DOMAIN attempts
    /\ k.at \in Submitting => k.op \in {"start", "retry"} /\ k.todo # {}
    /\ k.at \in {"bind", "open"} => k.on[2] \in k.todo
    /\ k.at = "bind" => k.on \in DOMAIN executor /\ k.status \in Statuses
    /\ k.at = "open" => k.on \in DOMAIN attempts
    /\ k.at = "transition" => k.op \in {"start", "retry", "finalize"}
    /\ k.at = "transition" => k.todo = {}
    /\ k.at = "poll" \/ k.at \in Collecting => k.op = "reconcile"
    /\ k.at \in Collecting => k.on \in k.todo /\ k.status \in Statuses
    /\ k.at = "cancel" => k.op = "cancel"
    /\ k.at = "result" => k.op = "finalize" /\ k.todo = {}

TypeInv ==
    /\ RecordsOK
    /\ call \in [Callers -> Calls]
    /\ \A c \in Callers : CallOK(call[c])

LEMMA TypeInvImpliesTypeOK == TypeInv => TypeOK
<1> SUFFICES ASSUME TypeInv PROVE TypeOK
  OBVIOUS
<1>1. ASSUME NEW r \in Runs, NEW i \in DOMAIN bindings[r]
      PROVE  bindings[r][i] \in DOMAIN attempts
  <2>1. bindings[r] \in Seq(DOMAIN attempts)
    BY DEF TypeInv, RecordsOK
  <2> QED BY <2>1
<1>2. \A c \in Callers :
         call[c].todo \subseteq IF call[c].op \in {"start", "retry"} THEN Runs ELSE DOMAIN attempts
  BY DEF TypeInv, CallOK
<1> QED BY <1>1, <1>2 DEF TypeInv, RecordsOK, TypeOK, AttemptRows

LEMMA IdleCall == Idle \in Calls /\ CallOK(Idle)
BY DEF Idle, Calls, CallOK, Ops, Places, Submitting, Collecting

LEMMA TypeInit == Init => TypeInv
<1> SUFFICES ASSUME Init PROVE TypeInv
  OBVIOUS
<1>1. RecordsOK
  <2>1. /\ DOMAIN executor = {} /\ executor = [a \in {} |-> "running"]
        /\ DOMAIN attempts = {} /\ attempts = [a \in {} |-> Fresh("running")]
        /\ bindings = [r \in Runs |-> <<>>]
    BY DEF Init
  <2>2. lifecycle \in [state : States, generation : Nat]
    BY DEF Init, States
  <2>3. bindings \in [Runs -> Seq(DOMAIN attempts)]
    <3>1. <<>> \in Seq(DOMAIN attempts)
      BY EmptySeq
    <3> QED BY <2>1, <3>1
  <2>4. \A r \in Runs : \A i \in DOMAIN bindings[r] : bindings[r][i][2] = r
    BY <2>1
  <2>5. executor \in [DOMAIN executor -> Statuses] /\ attempts \in [DOMAIN attempts -> AttemptRows]
    BY <2>1
  <2>6. result \in BOOLEAN /\ faults \in 0 .. MaxFaults
    <3>1. result \in BOOLEAN
      BY DEF Init
    <3>2. faults \in 0 .. MaxFaults
      BY BoundsAssumption DEF Init
    <3> QED BY <3>1, <3>2
  <2>7. DOMAIN executor \subseteq AttemptIds /\ DOMAIN attempts \subseteq DOMAIN executor
    BY <2>1
  <2> QED BY <2>2, <2>3, <2>4, <2>5, <2>6, <2>7 DEF RecordsOK
<1>2. call \in [Callers -> Calls] /\ \A c \in Callers : CallOK(call[c])
  BY IdleCall DEF Init
<1> QED BY <1>1, <1>2 DEF TypeInv

\* The latest attempt of a run that has one.
LEMMA LatestAttempt ==
    ASSUME RecordsOK, NEW r \in Bound
    PROVE  Latest(r) \in DOMAIN attempts /\ Latest(r)[2] = r
<1>1. bindings[r] \in Seq(DOMAIN attempts) /\ bindings[r] # <<>> /\ r \in Runs
  BY DEF RecordsOK, Bound
<1>2. Len(bindings[r]) \in DOMAIN bindings[r]
  BY <1>1
<1> QED BY <1>1, <1>2 DEF RecordsOK, Latest, Last

-----------------------------------------------------------------------------
(* What is known of attempts, by any number of calls *)

\* The status recorded of an attempt that has ended is the one of the executor,
\* and a session that is closed tells it all.
Truthful ==
    /\ \A a \in DOMAIN attempts : attempts[a].known \in Terminal => executor[a] = attempts[a].known
    /\ EvidenceComplete

\* An experiment that was started has an attempt for each run, and the attempts
\* there are were bound.
Planned ==
    /\ lifecycle.state # "locked" => Bound = Runs
    /\ \A a \in DOMAIN attempts : a[2] \in Bound

\* What a call has learned of the attempt it is at is true, and what it has
\* done for it, or for the plan, is done.
Knows(k) ==
    /\ k.at = "bind" \/ k.at \in Collecting =>
          (k.status \in Terminal => executor[k.on] = k.status)
    /\ k.at \in {"artifacts", "close", "record"} => k.status \in Terminal
    /\ k.at \in {"artifacts", "close"} => "observations" \in attempts[k.on].journal
    /\ k.at = "close" /\ k.status = "succeeded" => "artifacts" \in attempts[k.on].journal
    /\ k.op = "start" /\ k.at \in Submitting \cup {"transition"} => Runs \ k.todo \subseteq Bound
    /\ k.at = "open" => k.on[2] \in Bound

Inv ==
    /\ RecordsOK /\ Truthful /\ Planned
    /\ call \in [Callers -> Calls]
    /\ \A c \in Callers : CallOK(call[c]) /\ Knows(call[c])

\* What no step takes back.
Grows ==
    /\ DOMAIN executor \subseteq DOMAIN executor'
    /\ \A a \in DOMAIN executor : executor[a] \in Terminal => executor'[a] = executor[a]
    /\ DOMAIN attempts \subseteq DOMAIN attempts'
    /\ \A a \in DOMAIN attempts : attempts[a].journal \subseteq attempts'[a].journal
    /\ Bound \subseteq Bound'

LEMMA CallKept ==
    ASSUME RecordsOK, Grows, NEW d \in Callers, call'[d] = call[d],
           CallOK(call[d]), Knows(call[d])
    PROVE  CallOK(call[d])' /\ Knows(call[d])'
<1> DEFINE k == call[d]
<1>1. CallOK(call[d])'
  BY DEF CallOK, Grows
<1>2. k.at = "bind" \/ k.at \in Collecting =>
         (k.status \in Terminal => executor'[k.on] = k.status)
  <2>1. k.at = "bind" \/ k.at \in Collecting => k.on \in DOMAIN executor
    BY DEF CallOK, RecordsOK
  <2> QED BY <2>1 DEF Knows, Grows
<1>3. k.at \in {"artifacts", "close"} => k.on \in DOMAIN attempts
  BY DEF CallOK, Collecting
<1>4. /\ k.at \in {"artifacts", "close"} => "observations" \in attempts'[k.on].journal
      /\ k.at = "close" /\ k.status = "succeeded" => "artifacts" \in attempts'[k.on].journal
  <2> HIDE DEF k
  <2>1. Knows(k)
    BY DEF k
  <2> QED BY <1>3, <2>1 DEF Knows, Grows
<1>5. /\ k.op = "start" /\ k.at \in Submitting \cup {"transition"} => Runs \ k.todo \subseteq Bound'
      /\ k.at = "open" => k.on[2] \in Bound'
  BY DEF Knows, Grows
<1>6. k.at \in {"artifacts", "close", "record"} => k.status \in Terminal
  BY DEF Knows
<1> QED BY <1>1, <1>2, <1>4, <1>5, <1>6 DEF Knows

\* A step of c, after which what c has in its hands is right, leaves all calls so.
LEMMA CallStep ==
    ASSUME Inv, Grows, RecordsOK', Truthful', Planned', NEW c \in Callers,
           call' \in [Callers -> Calls],
           \A d \in Callers \ {c} : call'[d] = call[d],
           CallOK(call[c])', Knows(call[c])'
    PROVE  Inv'
<1>1. ASSUME NEW d \in Callers PROVE CallOK(call[d])' /\ Knows(call[d])'
  <2>1. CASE d = c
    BY <2>1
  <2>2. CASE d # c
    BY <2>2, CallKept DEF Inv
  <2> QED BY <2>1, <2>2
<1> QED BY <1>1 DEF Inv

\* Steps that change nothing at the executor and of the attempts.
LEMMA RowsKept ==
    ASSUME RecordsOK, Truthful, UNCHANGED <<executor, bindings, attempts>>
    PROVE  Grows /\ Truthful' /\ Bound' = Bound
BY DEF RecordsOK, Truthful, EvidenceComplete, Grows, Bound

\* A call that returns has nothing in its hands.
LEMMA ReturnsStep ==
    ASSUME Inv, NEW c \in Callers, Returns(c)
    PROVE  /\ call' \in [Callers -> Calls]
           /\ \A d \in Callers \ {c} : call'[d] = call[d]
           /\ CallOK(call[c])' /\ Knows(call[c])'
<1>1. call' \in [Callers -> Calls] /\ call'[c] = Idle
      /\ \A d \in Callers \ {c} : call'[d] = call[d]
  BY IdleCall DEF Inv, Returns
<1>2. CallOK(call[c])' /\ Knows(call[c])'
  BY <1>1 DEF CallOK, Knows, Idle, Submitting, Collecting
<1> QED BY <1>1, <1>2

\* A call that opens has nothing but what it is to do.
LEMMA OpensStep ==
    ASSUME Inv, NEW c \in Callers, NEW op \in Ops, NEW at \in Places,
           NEW todo \in SUBSET (Runs \cup AttemptIds), Open(c, op, at, todo)
    PROVE  /\ call' \in [Callers -> Calls]
           /\ \A d \in Callers \ {c} : call'[d] = call[d]
           /\ call'[c].op = op /\ call'[c].at = at /\ call'[c].todo = todo
           /\ call'[c].status = "none" /\ call'[c].seen = {} /\ call'[c].on = <<>>
           /\ call'[c].generation = lifecycle.generation
<1>1. lifecycle.generation \in Nat
  BY DEF Inv, RecordsOK
<1> DEFINE k == [Idle EXCEPT !.op = op, !.at = at, !.todo = todo, !.generation = lifecycle.generation]
<1>2. /\ k \in Calls
      /\ k.op = op /\ k.at = at /\ k.todo = todo /\ k.generation = lifecycle.generation
      /\ k.status = "none" /\ k.seen = {} /\ k.on = <<>>
  BY <1>1 DEF Idle, Calls
<1>3. call' = [call EXCEPT ![c] = k] /\ call \in [Callers -> Calls]
  BY DEF Open, Inv
<1> HIDE DEF k
<1> QED BY <1>2, <1>3

LEMMA InvInit == Init => Inv
<1> SUFFICES ASSUME Init PROVE Inv
  OBVIOUS
<1>1. TypeInv
  BY TypeInit
<1>2. DOMAIN attempts = {}
  BY DEF Init
<1>3. Truthful
  BY <1>2 DEF Truthful, EvidenceComplete
<1>4. Planned
  BY DEF Init, Planned
<1>5. \A c \in Callers : Knows(call[c])
  BY DEF Init, Knows, Idle, Submitting, Collecting
<1> QED BY <1>1, <1>3, <1>4, <1>5 DEF TypeInv, Inv

\* Where the steps of a call leave nothing but the call to look at.
LEMMA QuietStep ==
    ASSUME Inv, UNCHANGED <<executor, bindings, attempts>>,
           lifecycle' \in [state : States, generation : Nat], Planned',
           result' \in BOOLEAN, faults' \in 0 .. MaxFaults
    PROVE  Grows /\ RecordsOK' /\ Truthful'
<1>1. RecordsOK /\ Truthful
  BY DEF Inv
<1>2. Grows /\ Truthful'
  BY <1>1, RowsKept
<1>3. RecordsOK'
  BY <1>1 DEF RecordsOK
<1> QED BY <1>2, <1>3

LEMMA FailsStep ==
    ASSUME Inv, NEW c \in Callers, Fails(c)
    PROVE  Inv'
<1>1. Planned'
  BY DEF Inv, Planned, Fails, Bound
<1>2. faults' \in 0 .. MaxFaults
  BY BoundsAssumption DEF Inv, RecordsOK, Fails
<1>3. Grows /\ RecordsOK' /\ Truthful'
  BY <1>1, <1>2, QuietStep DEF Fails, Inv, RecordsOK
<1> QED BY <1>1, <1>3, ReturnsStep, CallStep DEF Fails

LEMMA EndsStep ==
    ASSUME Inv, NEW a \in DOMAIN executor, Ends(a)
    PROVE  Inv' /\ Grows
<1>1. PICK status \in Terminal : executor' = [executor EXCEPT ![a] = status]
  BY DEF Ends, Terminal, Unsuccessful
<1>2. /\ executor[a] \notin Terminal
      /\ UNCHANGED <<lifecycle, bindings, attempts, result, call, faults>>
  BY DEF Ends
<1>3. /\ DOMAIN executor' = DOMAIN executor
      /\ \A b \in DOMAIN executor : executor'[b] \in Statuses
      /\ \A b \in DOMAIN executor : executor[b] \in Terminal => executor'[b] = executor[b]
  BY <1>1, <1>2 DEF Inv, RecordsOK, Statuses
<1>4. RecordsOK'
  <2>1. executor' \in [DOMAIN executor' -> Statuses]
    BY <1>1, <1>3 DEF Inv, RecordsOK
  <2> QED BY <1>2, <1>3, <2>1 DEF Inv, RecordsOK
<1>5. Grows
  BY <1>2, <1>3 DEF Grows, Bound
<1>6. Truthful'
  BY <1>2, <1>3 DEF Inv, RecordsOK, Truthful, EvidenceComplete
<1>7. Planned'
  BY <1>2 DEF Inv, Planned, Bound
<1>8. \A d \in Callers : CallOK(call[d])' /\ Knows(call[d])'
  BY <1>2, <1>5, CallKept DEF Inv
<1> QED BY <1>2, <1>4, <1>5, <1>6, <1>7, <1>8 DEF Inv

Commands == {"start", "cancel", "ready", "fail", "cancelled", "retry", "finalize"}

\* EXPERIMENT_TRANSITIONS: only a start leaves "locked", and nothing leads there.
LEMMA TargetStates ==
    ASSUME NEW command \in Commands
    PROVE  /\ Targets[command].to \in States \ {"locked"}
           /\ "locked" \in Targets[command].from => command = "start"
BY DEF Commands, Targets, States

\* A step of a call that changes nothing of the executor and of the attempts.
LEMMA QuietCall ==
    ASSUME Inv, NEW c \in Callers, UNCHANGED <<executor, bindings, attempts>>,
           \/ UNCHANGED lifecycle
           \/ \E command \in Commands :
                 /\ lifecycle.state \in Targets[command].from
                 /\ Transition(command)
                 /\ command = "start" => Bound = Runs,
           result' \in BOOLEAN, faults' \in 0 .. MaxFaults,
           call' \in [Callers -> Calls],
           \A d \in Callers \ {c} : call'[d] = call[d],
           CallOK(call[c])', Knows(call[c])'
    PROVE  Inv' /\ Grows
<1>1. lifecycle' \in [state : States, generation : Nat] /\ Planned'
  <2>1. CASE UNCHANGED lifecycle
    BY <2>1 DEF Inv, RecordsOK, Planned, Bound
  <2>2. CASE \E command \in Commands :
                /\ lifecycle.state \in Targets[command].from
                /\ Transition(command)
                /\ command = "start" => Bound = Runs
    <3>1. PICK command \in Commands :
             /\ lifecycle.state \in Targets[command].from
             /\ Transition(command)
             /\ command = "start" => Bound = Runs
      BY <2>2
    <3>2. lifecycle' = [state |-> Targets[command].to, generation |-> lifecycle.generation + 1]
      BY <3>1 DEF Transition
    <3>3. lifecycle.generation \in Nat
      BY DEF Inv, RecordsOK
    <3>4. Bound = Runs /\ Bound' = Bound
      BY <3>1, TargetStates DEF Inv, Planned, Bound
    <3>5. \A a \in DOMAIN attempts' : a[2] \in Bound'
      BY <3>4 DEF Inv, Planned
    <3>6. lifecycle' \in [state : States, generation : Nat]
      BY <3>2, <3>3, TargetStates
    <3> QED BY <3>4, <3>5, <3>6 DEF Planned
  <2> QED BY <2>1, <2>2
<1>2. Grows /\ RecordsOK' /\ Truthful'
  BY <1>1, QuietStep
<1> QED BY <1>1, <1>2, CallStep

\* A call that ends, or is refused, or has nothing more to do.
LEMMA QuietReturn ==
    ASSUME Inv, NEW c \in Callers, Returns(c),
           UNCHANGED <<executor, bindings, attempts>>,
           \/ UNCHANGED lifecycle
           \/ \E command \in Commands :
                 /\ lifecycle.state \in Targets[command].from
                 /\ Transition(command)
                 /\ command = "start" => Bound = Runs,
           result' \in BOOLEAN, faults' \in 0 .. MaxFaults
    PROVE  Inv' /\ Grows
<1>1. /\ call' \in [Callers -> Calls]
      /\ \A d \in Callers \ {c} : call'[d] = call[d]
      /\ CallOK(call[c])' /\ Knows(call[c])'
  BY ReturnsStep
<1> QED BY <1>1, QuietCall

\* The call c is typed.
LEMMA CallTypes ==
    ASSUME Inv, NEW c \in Callers
    PROVE  /\ call[c] \in Calls /\ CallOK(call[c]) /\ Knows(call[c])
           /\ result \in BOOLEAN /\ faults \in 0 .. MaxFaults
<1>1. result \in BOOLEAN
  BY DEF Inv, RecordsOK
<1> QED BY <1>1 DEF Inv, RecordsOK

\* A call that is opened: by Start, Retry, Reconcile, Cancel or Finalize.
LEMMA OpeningSteps ==
    ASSUME Inv, NEW c \in Callers,
           \/ Start(c) \/ Reconcile(c) \/ Cancel(c) \/ Finalize(c)
           \/ \E r \in Runs : Retry(c, r)
    PROVE  Inv' /\ Grows
<1>0. /\ UNCHANGED <<executor, bindings, attempts, result, faults>>
      /\ result \in BOOLEAN /\ faults \in 0 .. MaxFaults
  BY CallTypes DEF Start, Reconcile, Cancel, Finalize, Retry
<1>1. CASE Start(c)
  <2>1. Open(c, "start", "submit", Runs) /\ UNCHANGED lifecycle
    BY <1>1 DEF Start
  <2>2. Runs # {}
    BY PlanAssumption DEF Runs
  <2>3. /\ call' \in [Callers -> Calls] /\ \A d \in Callers \ {c} : call'[d] = call[d]
        /\ call'[c].op = "start" /\ call'[c].at = "submit" /\ call'[c].todo = Runs
    BY <2>1, OpensStep DEF Ops, Places, Submitting
  <2>4. CallOK(call[c])' /\ Knows(call[c])'
    BY <2>2, <2>3 DEF CallOK, Knows, Submitting, Collecting
  <2> QED BY <1>0, <2>1, <2>3, <2>4, QuietCall
<1>2. CASE \E r \in Runs : Retry(c, r)
  <2>1. PICK r \in Runs : Open(c, "retry", "submit", {r}) /\ UNCHANGED lifecycle
    BY <1>2 DEF Retry
  <2>2. {r} \in SUBSET (Runs \cup AttemptIds) /\ "retry" \in Ops /\ "submit" \in Places
    BY DEF Ops, Places, Submitting
  <2>3. /\ call' \in [Callers -> Calls] /\ \A d \in Callers \ {c} : call'[d] = call[d]
        /\ call'[c].op = "retry" /\ call'[c].at = "submit" /\ call'[c].todo = {r}
    BY <2>1, <2>2, OpensStep
  <2>4. CallOK(call[c])' /\ Knows(call[c])'
    BY <2>3 DEF CallOK, Knows, Submitting, Collecting
  <2> QED BY <1>0, <2>1, <2>3, <2>4, QuietCall
<1> DEFINE latest == {Latest(r) : r \in Bound}
<1>3. latest \subseteq DOMAIN attempts /\ latest \in SUBSET (Runs \cup AttemptIds)
  BY LatestAttempt DEF Inv, RecordsOK
<1>4. CASE Reconcile(c)
  <2>1. Open(c, "reconcile", "poll", latest) /\ UNCHANGED lifecycle
    BY <1>4 DEF Reconcile
  <2> HIDE DEF latest
  <2>3. /\ call' \in [Callers -> Calls] /\ \A d \in Callers \ {c} : call'[d] = call[d]
        /\ call'[c].op = "reconcile" /\ call'[c].at = "poll" /\ call'[c].todo = latest
    BY <1>3, <2>1, OpensStep DEF Ops, Places
  <2>4. CallOK(call[c])' /\ Knows(call[c])'
    BY <1>0, <1>3, <2>3 DEF CallOK, Knows, Submitting, Collecting
  <2> QED BY <1>0, <2>1, <2>3, <2>4, QuietCall
<1>5. CASE Cancel(c)
  <2>1. /\ Open(c, "cancel", "cancel", latest)
        /\ lifecycle.state \in Targets["cancel"].from /\ Transition("cancel")
    BY <1>5 DEF Cancel, Admitted
  <2> HIDE DEF latest
  <2>3. /\ call' \in [Callers -> Calls] /\ \A d \in Callers \ {c} : call'[d] = call[d]
        /\ call'[c].op = "cancel" /\ call'[c].at = "cancel" /\ call'[c].todo = latest
    <3>1. "cancel" \in Ops /\ "cancel" \in Places
      BY DEF Ops, Places
    <3> QED BY <1>3, <2>1, <3>1, OpensStep
  <2>4. CallOK(call[c])' /\ Knows(call[c])'
    BY <1>0, <1>3, <2>3 DEF CallOK, Knows, Submitting, Collecting
  <2>5. "cancel" \in Commands
    BY DEF Commands
  <2> QED BY <1>0, <2>1, <2>3, <2>4, <2>5, QuietCall
<1>6. CASE Finalize(c)
  <2>1. Open(c, "finalize", "result", {}) /\ UNCHANGED lifecycle
    BY <1>6 DEF Finalize
  <2>3. /\ call' \in [Callers -> Calls] /\ \A d \in Callers \ {c} : call'[d] = call[d]
        /\ call'[c].op = "finalize" /\ call'[c].at = "result" /\ call'[c].todo = {}
    <3>1. {} \in SUBSET (Runs \cup AttemptIds) /\ "finalize" \in Ops /\ "result" \in Places
      BY DEF Ops, Places
    <3> QED BY <2>1, <3>1, OpensStep
  <2>4. CallOK(call[c])' /\ Knows(call[c])'
    BY <2>3 DEF CallOK, Knows, Submitting, Collecting
  <2> QED BY <1>0, <2>1, <2>3, <2>4, QuietCall
<1> QED BY <1>1, <1>2, <1>4, <1>5, <1>6

\* A call that returns.
LEMMA ReturningSteps ==
    ASSUME Inv, NEW c \in Callers,
           \/ Fails(c) \/ Conclude(c) \/ IngestRaises(c) \/ Settle(c) \/ CancelReturns(c)
    PROVE  Inv' /\ Grows
<1>0. call[c] \in Calls /\ CallOK(call[c]) /\ Knows(call[c])
      /\ result \in BOOLEAN /\ faults \in 0 .. MaxFaults
  BY CallTypes
<1>1. Returns(c) /\ UNCHANGED <<executor, bindings, attempts, result>>
  BY DEF Fails, Conclude, IngestRaises, Settle, CancelReturns
<1>2. CASE Fails(c)
  <2>1. faults' \in 0 .. MaxFaults
    BY <1>0, <1>2, BoundsAssumption DEF Fails
  <2> QED BY <1>0, <1>1, <1>2, <2>1, QuietReturn DEF Fails
<1>3. CASE Conclude(c)
  <2>1. CASE UNCHANGED lifecycle
    BY <1>0, <1>1, <1>3, <2>1, QuietReturn DEF Conclude
  <2>2. CASE Admitted(call[c].op, call[c].generation) /\ Transition(call[c].op)
    <3>1. call[c].op \in {"start", "retry", "finalize"} /\ call[c].todo = {}
      BY <1>0, <1>3 DEF Conclude, Within, CallOK
    <3>2. call[c].op = "start" => Bound = Runs
      BY <1>0, <1>3, <3>1 DEF Conclude, Within, Knows, Bound
    <3>3. call[c].op \in Commands /\ lifecycle.state \in Targets[call[c].op].from
      BY <2>2, <3>1 DEF Commands, Admitted
    <3> QED BY <1>0, <1>1, <1>3, <2>2, <3>2, <3>3, QuietReturn DEF Conclude
  <2> QED BY <1>3, <2>1, <2>2 DEF Conclude
<1>4. CASE IngestRaises(c) \/ CancelReturns(c)
  BY <1>0, <1>1, <1>4, QuietReturn DEF IngestRaises, CancelReturns
<1>5. CASE Settle(c)
  <2> DEFINE outcome == Outcome({seen[2] : seen \in call[c].seen})
  <2>1. faults' \in 0 .. MaxFaults
    BY <1>0, <1>5, BoundsAssumption DEF Settle
  <2>2. CASE UNCHANGED lifecycle
    BY <1>0, <1>1, <2>1, <2>2, QuietReturn
  <2>3. CASE lifecycle.state \in {"running", "cancelling"} /\ Transition(outcome)
    <3>1. /\ outcome \in Commands \ {"start"}
          /\ lifecycle.state \in Targets[outcome].from
      BY <2>3 DEF Outcome, Commands, Targets
    <3> HIDE DEF outcome
    <3> QED BY <1>0, <1>1, <2>1, <2>3, <3>1, QuietReturn
  <2> QED BY <1>5, <2>2, <2>3 DEF Settle
<1> QED BY <1>2, <1>3, <1>4, <1>5

\* A step that rewrites what is recorded of one attempt.
LEMMA RowStep ==
    ASSUME Inv, NEW a \in DOMAIN attempts, NEW row \in AttemptRows,
           attempts' = [attempts EXCEPT ![a] = row],
           UNCHANGED <<lifecycle, executor, bindings, result, faults>>,
           attempts[a].journal \subseteq row.journal,
           row.known \in Terminal => executor[a] = row.known,
           row.session \in Terminal =>
              /\ row.session = executor[a]
              /\ executor[a] = "succeeded" => row.journal = {"observations", "artifacts"}
    PROVE  Grows /\ RecordsOK' /\ Truthful' /\ Planned' /\ Bound' = Bound
<1>1. /\ DOMAIN attempts' = DOMAIN attempts
      /\ attempts'[a] = row
      /\ \A b \in DOMAIN attempts \ {a} : attempts'[b] = attempts[b]
  BY DEF Inv, RecordsOK
<1>2. attempts' \in [DOMAIN attempts' -> AttemptRows]
  BY DEF Inv, RecordsOK
<1>3. Bound' = Bound
  BY DEF Bound
<1>4. RecordsOK'
  BY <1>1, <1>2 DEF Inv, RecordsOK
<1>5. Grows
  <2>1. \A b \in DOMAIN attempts : attempts[b].journal \subseteq attempts'[b].journal
    BY <1>1
  <2> QED BY <1>1, <1>3, <2>1 DEF Grows
<1>6. Truthful'
  BY <1>1 DEF Inv, Truthful, EvidenceComplete
<1>7. Planned'
  BY <1>3 DEF Inv, Planned
<1> QED BY <1>3, <1>4, <1>5, <1>6, <1>7

\* The attempt a call collects from.
LEMMA CollectedAttempt ==
    ASSUME Inv, NEW c \in Callers, call[c].at \in Collecting
    PROVE  /\ call[c].on \in call[c].todo /\ call[c].on \in DOMAIN attempts
           /\ call[c].on \in DOMAIN executor /\ call[c].on \in AttemptIds
           /\ attempts[call[c].on] \in AttemptRows
           /\ call[c].op = "reconcile" /\ call[c].status \in Statuses
<1>1. /\ call[c].op = "reconcile" /\ call[c].todo \subseteq DOMAIN attempts
      /\ call[c].on \in call[c].todo /\ call[c].status \in Statuses
  BY CallTypes DEF CallOK
<1> QED BY <1>1 DEF Inv, RecordsOK

\* The attempt that a call looks at next.
LEMMA NextAttempt ==
    ASSUME Inv, NEW c \in Callers, call[c].at \in {"poll", "cancel"}, call[c].todo # {}
    PROVE  /\ Foremost(call[c].todo) \in call[c].todo
           /\ call[c].todo \subseteq DOMAIN attempts
           /\ Foremost(call[c].todo) \in DOMAIN attempts
           /\ Foremost(call[c].todo) \in DOMAIN executor
           /\ Foremost(call[c].todo) \in AttemptIds
           /\ attempts[Foremost(call[c].todo)] \in AttemptRows
           /\ executor[Foremost(call[c].todo)] \in Statuses
<1>1. call[c].todo \subseteq DOMAIN attempts
  BY CallTypes DEF CallOK
<1>2. call[c].todo \in SUBSET AttemptIds
  BY <1>1 DEF Inv, RecordsOK
<1>3. Foremost(call[c].todo) \in call[c].todo
  BY <1>2, ForemostOfAttempts
<1> QED BY <1>1, <1>3 DEF Inv, RecordsOK

\* A call is done with an attempt.
LEMMA DoneStep ==
    ASSUME Inv, NEW c \in Callers, call[c].op = "reconcile",
           NEW a \in AttemptIds, NEW status \in Statuses, Done(c, a, status),
           DOMAIN attempts' = DOMAIN attempts
    PROVE  /\ call' \in [Callers -> Calls]
           /\ \A d \in Callers \ {c} : call'[d] = call[d]
           /\ CallOK(call[c])' /\ Knows(call[c])'
           /\ call'[c].op = "reconcile" /\ call'[c].at = "poll"
           /\ call'[c].todo = call[c].todo \ {a}
           /\ call'[c].seen = call[c].seen \cup {<<a[2], status>>}
<1> DEFINE k == [call[c] EXCEPT !.at = "poll", !.todo = @ \ {a}, !.on = <<>>,
                                !.status = "none", !.seen = @ \cup {<<a[2], status>>}]
<1>1. call[c] \in Calls /\ CallOK(call[c])
  BY CallTypes
<1>2. <<a[2], status>> \in Runs \X Statuses
  BY DEF AttemptIds
<1>3. /\ k \in Calls
      /\ k.op = "reconcile" /\ k.at = "poll" /\ k.todo = call[c].todo \ {a}
      /\ k.seen = call[c].seen \cup {<<a[2], status>>}
  BY <1>1, <1>2 DEF Calls, Places
<1>4. call' = [call EXCEPT ![c] = k] /\ call \in [Callers -> Calls]
  BY DEF Inv, Done
<1> HIDE DEF k
<1>5. call' \in [Callers -> Calls] /\ call'[c] = k /\ \A d \in Callers \ {c} : call'[d] = call[d]
  BY <1>3, <1>4
<1>6. CallOK(call[c])'
  BY <1>1, <1>3, <1>5 DEF CallOK, Submitting, Collecting
<1>7. Knows(call[c])'
  BY <1>3, <1>5 DEF Knows, Submitting, Collecting
<1> QED BY <1>3, <1>5, <1>6, <1>7

\* A call goes from one place to another.
LEMMA GoesStep ==
    ASSUME Inv, NEW c \in Callers, NEW at \in Places, Goes(c, at)
    PROVE  /\ call' \in [Callers -> Calls]
           /\ \A d \in Callers \ {c} : call'[d] = call[d]
           /\ call'[c].at = at /\ call'[c].op = call[c].op /\ call'[c].todo = call[c].todo
           /\ call'[c].on = call[c].on /\ call'[c].status = call[c].status
           /\ call'[c].seen = call[c].seen /\ call'[c].generation = call[c].generation
BY CallTypes DEF Inv, Goes, Calls

\* The reconciliation of one attempt.
LEMMA PollEndedStep ==
    ASSUME Inv, NEW c \in Callers, PollEnded(c)
    PROVE  Inv' /\ Grows
<1> DEFINE a == Foremost(call[c].todo)
<1>1. /\ call[c].at = "poll" /\ call[c].todo # {} /\ attempts[a].known \in Terminal
      /\ Done(c, a, attempts[a].known)
      /\ UNCHANGED <<lifecycle, executor, bindings, attempts, result, faults>>
  BY DEF PollEnded, Within
<1>2. call[c].op = "reconcile" /\ result \in BOOLEAN /\ faults \in 0 .. MaxFaults
  BY <1>1, CallTypes DEF CallOK
<1>3. a \in AttemptIds /\ attempts[a].known \in Statuses
  BY <1>1, NextAttempt DEF AttemptRows
<1> HIDE DEF a
<1>4. /\ call' \in [Callers -> Calls]
      /\ \A d \in Callers \ {c} : call'[d] = call[d]
      /\ CallOK(call[c])' /\ Knows(call[c])'
  BY <1>1, <1>2, <1>3, DoneStep
<1> QED BY <1>1, <1>2, <1>4, QuietCall

LEMMA PollStep ==
    ASSUME Inv, NEW c \in Callers, Poll(c)
    PROVE  /\ Inv' /\ Grows /\ Bound' = Bound
           /\ call'[c].op = call[c].op /\ call'[c].at = "ingest"
           /\ call'[c].todo = call[c].todo /\ call'[c].seen = call[c].seen
           /\ call[c].op = "reconcile"
           /\ call'[c].on = Foremost(call[c].todo)
<1> DEFINE a == Foremost(call[c].todo)
           row == [attempts[a] EXCEPT !.known = executor[a]]
           k == [call[c] EXCEPT !.at = "ingest", !.on = a, !.status = executor[a]]
<1>1. /\ call[c].at = "poll" /\ call[c].todo # {} /\ attempts[a].known \notin Terminal
      /\ attempts' = [attempts EXCEPT ![a].known = executor[a]]
      /\ call' = [call EXCEPT ![c].at = "ingest", ![c].on = a, ![c].status = executor[a]]
      /\ UNCHANGED <<lifecycle, executor, bindings, result, faults>>
  BY DEF Poll, Within
<1>2. /\ a \in call[c].todo /\ a \in DOMAIN attempts /\ a \in AttemptIds
      /\ attempts[a] \in AttemptRows /\ executor[a] \in Statuses
      /\ call[c].todo \subseteq DOMAIN attempts
  BY <1>1, NextAttempt
<1>3. /\ call[c] \in Calls /\ CallOK(call[c]) /\ call[c].op = "reconcile"
  BY <1>1, CallTypes DEF CallOK
<1> HIDE DEF a
<1>4. /\ row \in AttemptRows /\ row.known = executor[a]
      /\ row.journal = attempts[a].journal /\ row.session = attempts[a].session
  BY <1>2 DEF AttemptRows
<1>5. attempts' = [attempts EXCEPT ![a] = row]
  BY <1>1, <1>2 DEF Inv, RecordsOK
<1> HIDE DEF row
<1>6. Grows /\ RecordsOK' /\ Truthful' /\ Planned' /\ Bound' = Bound
  <2>1. row.session \in Terminal =>
           /\ row.session = executor[a]
           /\ executor[a] = "succeeded" => row.journal = {"observations", "artifacts"}
    BY <1>2, <1>4 DEF Inv, Truthful, EvidenceComplete
  <2> QED BY <1>1, <1>2, <1>4, <1>5, <2>1, RowStep
<1>7. /\ k \in Calls /\ k.op = call[c].op /\ k.at = "ingest" /\ k.todo = call[c].todo
      /\ k.on = a /\ k.status = executor[a] /\ k.seen = call[c].seen
  BY <1>2, <1>3 DEF Calls, Places, Collecting
<1>8. call' = [call EXCEPT ![c] = k] /\ call \in [Callers -> Calls]
  BY <1>1 DEF Inv
<1> HIDE DEF k
<1>9. call' \in [Callers -> Calls] /\ call'[c] = k /\ \A d \in Callers \ {c} : call'[d] = call[d]
  BY <1>7, <1>8
<1>10. CallOK(call[c])'
  BY <1>2, <1>3, <1>6, <1>7, <1>9 DEF CallOK, Submitting, Collecting, Grows
<1>11. Knows(call[c])'
  BY <1>1, <1>7, <1>9 DEF Knows, Submitting, Collecting
<1> QED BY <1>3, <1>6, <1>7, <1>9, <1>10, <1>11, CallStep DEF a

LEMMA IngestStep ==
    ASSUME Inv, NEW c \in Callers, Ingest(c)
    PROVE  Inv' /\ Grows
<1> DEFINE a == call[c].on
           status == call[c].status
           row == [attempts[a] EXCEPT !.journal = @ \cup {"observations"}]
<1>1. /\ call[c].at = "ingest" /\ attempts[a].session = "running"
      /\ attempts' = [attempts EXCEPT ![a].journal = @ \cup {"observations"}]
      /\ IF status \in Terminal THEN Goes(c, ThenIngested(status)) ELSE Done(c, a, status)
      /\ UNCHANGED <<lifecycle, executor, bindings, result, faults>>
  BY DEF Ingest, Within
<1>2. /\ a \in call[c].todo /\ a \in DOMAIN attempts /\ a \in AttemptIds
      /\ attempts[a] \in AttemptRows /\ call[c].op = "reconcile" /\ status \in Statuses
  BY <1>1, CollectedAttempt DEF Collecting
<1>3. /\ call[c] \in Calls /\ CallOK(call[c])
      /\ status \in Terminal => executor[a] = status
  BY <1>1, CallTypes DEF Knows, Collecting
<1> HIDE DEF a, status
<1>4. /\ row \in AttemptRows /\ row.known = attempts[a].known
      /\ row.journal = attempts[a].journal \cup {"observations"}
      /\ row.session = "running"
  BY <1>1, <1>2 DEF AttemptRows
<1>5. attempts' = [attempts EXCEPT ![a] = row]
  BY <1>1, <1>2 DEF Inv, RecordsOK
<1> HIDE DEF row
<1>6. Grows /\ RecordsOK' /\ Truthful' /\ Planned' /\ Bound' = Bound
  <2>1. row.session \notin Terminal /\ attempts[a].journal \subseteq row.journal
    BY <1>4 DEF Terminal, Unsuccessful
  <2>2. row.known \in Terminal => executor[a] = row.known
    BY <1>2, <1>4 DEF Inv, Truthful
  <2> QED BY <1>1, <1>2, <1>4, <1>5, <2>1, <2>2, RowStep
<1>7. attempts'[a].journal = attempts[a].journal \cup {"observations"}
      /\ DOMAIN attempts' = DOMAIN attempts
  BY <1>2, <1>4, <1>5 DEF Inv, RecordsOK
<1>8. CASE status \in Terminal
  <2> DEFINE next == ThenIngested(status)
  <2>1. next \in {"artifacts", "close"} /\ (next = "close" => status # "succeeded") /\ Goes(c, next)
    BY <1>1, <1>8 DEF ThenIngested
  <2> HIDE DEF next
  <2>2. /\ call' \in [Callers -> Calls] /\ \A d \in Callers \ {c} : call'[d] = call[d]
        /\ call'[c].at = next /\ call'[c].op = call[c].op /\ call'[c].todo = call[c].todo
        /\ call'[c].on = a /\ call'[c].status = status
    <3>1. next \in Places
      BY <2>1 DEF Places, Collecting
    <3> QED BY <2>1, <3>1, GoesStep DEF a, status
  <2>3. CallOK(call[c])'
    BY <1>2, <1>3, <1>7, <2>1, <2>2 DEF CallOK, Submitting, Collecting
  <2>4. Knows(call[c])'
    BY <1>1, <1>2, <1>3, <1>7, <1>8, <2>1, <2>2 DEF Knows, Submitting, Collecting
  <2> QED BY <1>6, <2>2, <2>3, <2>4, CallStep
<1>9. CASE status \notin Terminal
  <2>1. Done(c, a, status)
    BY <1>1, <1>9
  <2>2. /\ call' \in [Callers -> Calls] /\ \A d \in Callers \ {c} : call'[d] = call[d]
        /\ CallOK(call[c])' /\ Knows(call[c])'
    BY <1>2, <1>7, <2>1, DoneStep
  <2> QED BY <1>6, <2>2, CallStep
<1> QED BY <1>8, <1>9

LEMMA IngestArtifactsStep ==
    ASSUME Inv, NEW c \in Callers, IngestArtifacts(c)
    PROVE  Inv' /\ Grows
<1> DEFINE a == call[c].on
           row == [attempts[a] EXCEPT !.journal = @ \cup {"artifacts"}]
<1>1. /\ call[c].at = "artifacts"
      /\ attempts' = [attempts EXCEPT ![a].journal = @ \cup {"artifacts"}]
      /\ Goes(c, "close")
      /\ UNCHANGED <<lifecycle, executor, bindings, result, faults>>
  BY DEF IngestArtifacts, Within
<1>2. /\ a \in call[c].todo /\ a \in DOMAIN attempts /\ a \in AttemptIds
      /\ attempts[a] \in AttemptRows /\ call[c].op = "reconcile" /\ call[c].status \in Statuses
  BY <1>1, CollectedAttempt DEF Collecting
<1>3. /\ call[c] \in Calls /\ CallOK(call[c]) /\ "observations" \in attempts[a].journal
      /\ call[c].status \in Terminal /\ executor[a] = call[c].status
  BY <1>1, CallTypes DEF Knows, Collecting
<1> HIDE DEF a
<1>4. /\ row \in AttemptRows /\ row.known = attempts[a].known
      /\ row.journal = {"observations", "artifacts"}
      /\ row.session = attempts[a].session
  BY <1>2, <1>3 DEF AttemptRows
<1>5. attempts' = [attempts EXCEPT ![a] = row]
  BY <1>1, <1>2 DEF Inv, RecordsOK
<1> HIDE DEF row
<1>6. Grows /\ RecordsOK' /\ Truthful' /\ Planned' /\ Bound' = Bound
  <2>1. attempts[a].journal \subseteq row.journal
    BY <1>2, <1>4 DEF AttemptRows
  <2>2. row.known \in Terminal => executor[a] = row.known
    BY <1>2, <1>4 DEF Inv, Truthful
  <2>3. row.session \in Terminal => row.session = executor[a]
    BY <1>2, <1>4 DEF Inv, Truthful, EvidenceComplete
  <2> QED BY <1>1, <1>2, <1>4, <1>5, <2>1, <2>2, <2>3, RowStep
<1>7. attempts'[a].journal = {"observations", "artifacts"} /\ DOMAIN attempts' = DOMAIN attempts
  BY <1>2, <1>4, <1>5 DEF Inv, RecordsOK
<1>8. /\ call' \in [Callers -> Calls] /\ \A d \in Callers \ {c} : call'[d] = call[d]
      /\ call'[c].at = "close" /\ call'[c].op = call[c].op /\ call'[c].todo = call[c].todo
      /\ call'[c].on = a /\ call'[c].status = call[c].status
  <2>1. "close" \in Places
    BY DEF Places, Collecting
  <2> QED BY <1>1, <2>1, GoesStep DEF a
<1>9. CallOK(call[c])'
  BY <1>2, <1>3, <1>7, <1>8 DEF CallOK, Submitting, Collecting
<1>10. Knows(call[c])'
  BY <1>1, <1>2, <1>3, <1>7, <1>8 DEF Knows, Submitting, Collecting
<1> QED BY <1>6, <1>8, <1>9, <1>10, CallStep

LEMMA CloseStep ==
    ASSUME Inv, NEW c \in Callers, Close(c)
    PROVE  Inv' /\ Grows
<1> DEFINE a == call[c].on
           row == [attempts[a] EXCEPT !.session = call[c].status]
<1>1. /\ call[c].at = "close"
      /\ attempts' = [attempts EXCEPT ![a].session = call[c].status]
      /\ Goes(c, "record")
      /\ UNCHANGED <<lifecycle, executor, bindings, result, faults>>
  BY DEF Close, Within
<1>2. /\ a \in call[c].todo /\ a \in DOMAIN attempts /\ a \in AttemptIds
      /\ attempts[a] \in AttemptRows /\ call[c].op = "reconcile" /\ call[c].status \in Statuses
  BY <1>1, CollectedAttempt DEF Collecting
<1>3. /\ call[c] \in Calls /\ CallOK(call[c]) /\ "observations" \in attempts[a].journal
      /\ call[c].status = "succeeded" => "artifacts" \in attempts[a].journal
      /\ call[c].status \in Terminal /\ executor[a] = call[c].status
  BY <1>1, CallTypes DEF Knows, Collecting
<1> HIDE DEF a
<1>4. /\ row \in AttemptRows /\ row.known = attempts[a].known
      /\ row.journal = attempts[a].journal
      /\ row.session = call[c].status
  BY <1>2, <1>3 DEF AttemptRows
<1>5. attempts' = [attempts EXCEPT ![a] = row]
  BY <1>1, <1>2 DEF Inv, RecordsOK
<1> HIDE DEF row
<1>6. Grows /\ RecordsOK' /\ Truthful' /\ Planned' /\ Bound' = Bound
  <2>1. /\ row.session = executor[a]
        /\ executor[a] = "succeeded" => row.journal = {"observations", "artifacts"}
        /\ attempts[a].journal \subseteq row.journal
    BY <1>2, <1>3, <1>4 DEF AttemptRows
  <2>2. row.known \in Terminal => executor[a] = row.known
    BY <1>2, <1>4 DEF Inv, Truthful
  <2> QED BY <1>1, <1>2, <1>4, <1>5, <2>1, <2>2, RowStep
<1>7. DOMAIN attempts' = DOMAIN attempts
  BY <1>5 DEF Inv, RecordsOK
<1>8. /\ call' \in [Callers -> Calls] /\ \A d \in Callers \ {c} : call'[d] = call[d]
      /\ call'[c].at = "record" /\ call'[c].op = call[c].op /\ call'[c].todo = call[c].todo
      /\ call'[c].on = a /\ call'[c].status = call[c].status
  <2>1. "record" \in Places
    BY DEF Places, Collecting
  <2> QED BY <1>1, <2>1, GoesStep DEF a
<1>9. CallOK(call[c])'
  BY <1>2, <1>3, <1>7, <1>8 DEF CallOK, Submitting, Collecting
<1>10. Knows(call[c])'
  BY <1>1, <1>2, <1>3, <1>8 DEF Knows, Submitting, Collecting
<1> QED BY <1>6, <1>8, <1>9, <1>10, CallStep

LEMMA RecordStep ==
    ASSUME Inv, NEW c \in Callers, RecordAttempt(c)
    PROVE  Inv' /\ Grows
<1> DEFINE a == call[c].on
           row == [attempts[a] EXCEPT !.recorded = TRUE]
<1>1. /\ call[c].at = "record"
      /\ attempts' = [attempts EXCEPT ![a].recorded = TRUE]
      /\ Done(c, a, call[c].status)
      /\ UNCHANGED <<lifecycle, executor, bindings, result, faults>>
  BY DEF RecordAttempt, Within
<1>2. /\ a \in DOMAIN attempts /\ a \in AttemptIds
      /\ attempts[a] \in AttemptRows /\ call[c].op = "reconcile" /\ call[c].status \in Statuses
  BY <1>1, CollectedAttempt DEF Collecting
<1> HIDE DEF a
<1>3. /\ row \in AttemptRows /\ row.known = attempts[a].known
      /\ row.journal = attempts[a].journal /\ row.session = attempts[a].session
  BY <1>2 DEF AttemptRows
<1>4. attempts' = [attempts EXCEPT ![a] = row]
  BY <1>1, <1>2 DEF Inv, RecordsOK
<1> HIDE DEF row
<1>5. Grows /\ RecordsOK' /\ Truthful' /\ Planned' /\ Bound' = Bound
  <2>1. /\ row.known \in Terminal => executor[a] = row.known
        /\ row.session \in Terminal =>
              /\ row.session = executor[a]
              /\ executor[a] = "succeeded" => row.journal = {"observations", "artifacts"}
    BY <1>2, <1>3 DEF Inv, Truthful, EvidenceComplete
  <2> QED BY <1>1, <1>2, <1>3, <1>4, <2>1, RowStep
<1>6. DOMAIN attempts' = DOMAIN attempts
  BY <1>4 DEF Inv, RecordsOK
<1>7. /\ call' \in [Callers -> Calls] /\ \A d \in Callers \ {c} : call'[d] = call[d]
      /\ CallOK(call[c])' /\ Knows(call[c])'
  BY <1>1, <1>2, <1>6, DoneStep
<1> QED BY <1>5, <1>7, CallStep

LEMMA PutResultStep ==
    ASSUME Inv, NEW c \in Callers, PutResult(c)
    PROVE  Inv' /\ Grows
<1>1. /\ call[c].at = "result" /\ UNCHANGED <<lifecycle, executor, bindings, attempts, faults>>
      /\ result' = TRUE /\ IF result THEN Returns(c) ELSE Goes(c, "transition")
  BY DEF PutResult, Within
<1>2. CallOK(call[c]) /\ faults' \in 0 .. MaxFaults
  BY <1>1, CallTypes
<1>3. result' \in BOOLEAN
  BY <1>1
<1>4. CASE Returns(c)
  BY <1>1, <1>2, <1>3, <1>4, QuietReturn
<1>5. CASE Goes(c, "transition")
  <2>1. /\ call' \in [Callers -> Calls] /\ \A d \in Callers \ {c} : call'[d] = call[d]
        /\ call'[c].at = "transition" /\ call'[c].op = call[c].op /\ call'[c].todo = call[c].todo
    <3>1. "transition" \in Places
      BY DEF Places
    <3> QED BY <1>5, <3>1, GoesStep
  <2>2. CallOK(call[c])'
    BY <1>1, <1>2, <2>1 DEF CallOK, Submitting, Collecting
  <2>3. Knows(call[c])'
    BY <1>1, <1>2, <2>1 DEF CallOK, Knows, Submitting, Collecting
  <2> QED BY <1>1, <1>2, <1>3, <2>1, <2>2, <2>3, QuietCall
<1> QED BY <1>1, <1>4, <1>5

\* The executor is asked to stop an attempt.
LEMMA CancelAttemptStep ==
    ASSUME Inv, NEW c \in Callers, CancelAttempt(c)
    PROVE  Inv' /\ Grows
<1> DEFINE a == Foremost(call[c].todo)
           k == [call[c] EXCEPT !.todo = @ \ {a}]
<1>1. /\ call[c].at = "cancel" /\ call[c].todo # {}
      /\ call' = [call EXCEPT ![c].todo = @ \ {a}]
      /\ UNCHANGED <<lifecycle, bindings, result, faults>>
  BY DEF CancelAttempt, Within
<1>2. \/ UNCHANGED <<executor, attempts>>
      \/ \E status \in IF executor[a] \in Terminal THEN {executor[a]} ELSE {"stopping", "cancelled"} :
            /\ executor' = [executor EXCEPT ![a] = status]
            /\ attempts' = [attempts EXCEPT ![a].known = status]
  BY DEF CancelAttempt, Stopped
<1>3. /\ a \in call[c].todo /\ a \in DOMAIN attempts /\ a \in DOMAIN executor
      /\ attempts[a] \in AttemptRows /\ executor[a] \in Statuses
  BY <1>1, NextAttempt
<1>4. /\ call[c] \in Calls /\ CallOK(call[c]) /\ call[c].op = "cancel"
      /\ result \in BOOLEAN /\ faults \in 0 .. MaxFaults
  BY <1>1, CallTypes DEF CallOK
<1> HIDE DEF a
<1>5. k \in Calls /\ k.op = "cancel" /\ k.at = "cancel" /\ k.todo = call[c].todo \ {a}
  BY <1>1, <1>4 DEF Calls
<1>6. call' = [call EXCEPT ![c] = k] /\ call \in [Callers -> Calls]
  BY <1>1 DEF Inv
<1> HIDE DEF k
<1>7. call' \in [Callers -> Calls] /\ call'[c] = k /\ \A d \in Callers \ {c} : call'[d] = call[d]
  BY <1>5, <1>6
<1>8. ASSUME DOMAIN attempts \subseteq DOMAIN attempts'
      PROVE  CallOK(call[c])' /\ Knows(call[c])'
  <2>1. CallOK(call[c])'
    BY <1>4, <1>5, <1>7, <1>8 DEF CallOK, Submitting, Collecting
  <2>2. Knows(call[c])'
    BY <1>5, <1>7 DEF Knows, Submitting, Collecting
  <2> QED BY <2>1, <2>2
<1>9. CASE UNCHANGED <<executor, attempts>>
  <2>1. CallOK(call[c])' /\ Knows(call[c])'
    BY <1>8, <1>9
  <2> QED BY <1>1, <1>4, <1>7, <1>9, <2>1, QuietCall
<1>10. ASSUME NEW status \in IF executor[a] \in Terminal THEN {executor[a]} ELSE {"stopping", "cancelled"},
              executor' = [executor EXCEPT ![a] = status],
              attempts' = [attempts EXCEPT ![a].known = status]
       PROVE  Inv' /\ Grows
  <2>1. /\ status \in Statuses
        /\ executor[a] \in Terminal => status = executor[a]
    BY <1>3, <1>10 DEF Statuses, Terminal, Unsuccessful
  <2>2. /\ DOMAIN executor' = DOMAIN executor /\ executor'[a] = status
        /\ executor' \in [DOMAIN executor' -> Statuses]
        /\ \A b \in DOMAIN executor \ {a} : executor'[b] = executor[b]
    BY <1>3, <1>10, <2>1 DEF Inv, RecordsOK
  <2> DEFINE row == [attempts[a] EXCEPT !.known = status]
  <2>3. /\ row \in AttemptRows /\ row.known = status
        /\ row.journal = attempts[a].journal /\ row.session = attempts[a].session
    BY <1>3, <2>1 DEF AttemptRows
  <2>4. attempts' = [attempts EXCEPT ![a] = row]
    BY <1>3, <1>10 DEF Inv, RecordsOK
  <2> HIDE DEF row
  <2>5. /\ DOMAIN attempts' = DOMAIN attempts /\ attempts'[a] = row
        /\ attempts' \in [DOMAIN attempts' -> AttemptRows]
        /\ \A b \in DOMAIN attempts \ {a} : attempts'[b] = attempts[b]
    BY <1>3, <2>3, <2>4 DEF Inv, RecordsOK
  <2>6. RecordsOK'
    BY <1>1, <1>3, <2>2, <2>5 DEF Inv, RecordsOK
  <2>7. Grows
    <3>1. \A b \in DOMAIN executor : executor[b] \in Terminal => executor'[b] = executor[b]
      BY <2>1, <2>2
    <3>2. \A b \in DOMAIN attempts : attempts[b].journal \subseteq attempts'[b].journal
      BY <2>3, <2>5
    <3> QED BY <1>1, <2>2, <2>5, <3>1, <3>2 DEF Grows, Bound
  <2>8. Truthful'
    <3>1. ASSUME NEW b \in DOMAIN attempts
          PROVE  /\ attempts'[b].known \in Terminal => executor'[b] = attempts'[b].known
                 /\ attempts'[b].session \in Terminal =>
                       /\ attempts'[b].session = executor'[b]
                       /\ executor'[b] = "succeeded" =>
                             attempts'[b].journal = {"observations", "artifacts"}
      <4>1. CASE b = a
        <5>1. attempts[a].session \in Terminal =>
                 /\ attempts[a].session = executor[a]
                 /\ executor[a] = "succeeded" => attempts[a].journal = {"observations", "artifacts"}
          BY <1>3 DEF Inv, Truthful, EvidenceComplete
        <5> QED BY <2>1, <2>2, <2>3, <2>5, <4>1, <5>1
      <4>2. CASE b # a
        <5>1. executor'[b] = executor[b] /\ attempts'[b] = attempts[b]
          BY <2>2, <2>5, <4>2 DEF Inv, RecordsOK
        <5> QED BY <5>1 DEF Inv, Truthful, EvidenceComplete
      <4> QED BY <4>1, <4>2
    <3> QED BY <2>5, <3>1 DEF Truthful, EvidenceComplete
  <2>9. Planned'
    BY <1>1, <2>5 DEF Inv, Planned, Bound
  <2>10. CallOK(call[c])' /\ Knows(call[c])'
    BY <1>8, <2>5
  <2> QED BY <1>7, <2>6, <2>7, <2>8, <2>9, <2>10, CallStep
<1> QED BY <1>2, <1>9, <1>10

\* A submission: to the executor, ...
LEMMA SubmitStep ==
    ASSUME Inv, NEW c \in Callers, Submit(c)
    PROVE  Inv' /\ Grows
<1> DEFINE r == Least(call[c].todo)
           a == Attempt(call[c].generation, r)
           status == IF a \in DOMAIN executor THEN executor[a] ELSE "running"
           k == [call[c] EXCEPT !.at = "bind", !.on = a, !.status = status]
<1>1. /\ call[c].at = "submit"
      /\ executor' = [b \in DOMAIN executor \cup {a} |-> IF b = a THEN status ELSE executor[b]]
      /\ call' = [call EXCEPT ![c].at = "bind", ![c].on = a, ![c].status = status]
      /\ UNCHANGED <<lifecycle, bindings, attempts, result, faults>>
  BY DEF Submit, Within
<1>2. /\ call[c] \in Calls /\ CallOK(call[c]) /\ Knows(call[c])
      /\ call[c].op \in {"start", "retry"} /\ call[c].todo \in SUBSET Runs /\ call[c].todo # {}
  BY <1>1, CallTypes DEF CallOK, Submitting
<1>3. r \in call[c].todo
  BY <1>2, LeastOfRuns
<1>4. a \in AttemptIds /\ a[2] = r
  <2> HIDE DEF r
  <2>1. r \in Runs
    BY <1>2, <1>3
  <2>2. Len(bindings[r]) \in Nat
    BY <2>1 DEF Inv, RecordsOK
  <2>3. call[c].generation \in Nat
    BY <1>2 DEF Calls
  <2> QED BY <2>1, <2>2, <2>3 DEF AttemptIds, Attempt
<1> HIDE DEF a, r
<1>5. status \in Statuses /\ (a \in DOMAIN executor => status = executor[a])
  BY DEF Inv, RecordsOK, Statuses
<1> HIDE DEF status
<1>6. /\ DOMAIN executor' = DOMAIN executor \cup {a} /\ executor'[a] = status
      /\ \A b \in DOMAIN executor : executor'[b] = executor[b]
      /\ executor' \in [DOMAIN executor' -> Statuses]
  BY <1>1, <1>5 DEF Inv, RecordsOK
<1>7. RecordsOK'
  BY <1>1, <1>4, <1>6 DEF Inv, RecordsOK
<1>8. Grows
  BY <1>1, <1>6 DEF Grows, Bound
<1>9. Truthful'
  BY <1>1, <1>6 DEF Inv, RecordsOK, Truthful, EvidenceComplete
<1>10. Planned'
  BY <1>1 DEF Inv, Planned, Bound
<1>11. /\ k \in Calls /\ k.op = call[c].op /\ k.at = "bind" /\ k.todo = call[c].todo
       /\ k.on = a /\ k.status = status
  BY <1>2, <1>4, <1>5 DEF Calls, Places, Submitting
<1>12. call' = [call EXCEPT ![c] = k] /\ call \in [Callers -> Calls]
  BY <1>1 DEF Inv
<1> HIDE DEF k
<1>13. call' \in [Callers -> Calls] /\ call'[c] = k /\ \A d \in Callers \ {c} : call'[d] = call[d]
  BY <1>11, <1>12
<1>14. CallOK(call[c])'
  BY <1>2, <1>3, <1>4, <1>5, <1>6, <1>11, <1>13 DEF CallOK, Submitting, Collecting
<1>15. Knows(call[c])'
  <2>1. call[c].op = "start" => Runs \ call[c].todo \subseteq Bound'
    BY <1>1, <1>2, <1>8 DEF Knows, Submitting, Grows
  <2> QED BY <1>6, <1>11, <1>13, <2>1 DEF Knows, Submitting, Collecting
<1> QED BY <1>7, <1>8, <1>9, <1>10, <1>13, <1>14, <1>15, CallStep

\* ... to the table, ...
LEMMA BindStep ==
    ASSUME Inv, NEW c \in Callers, Bind(c)
    PROVE  Inv' /\ Grows
<1> DEFINE a == call[c].on
           r == a[2]
<1>1. /\ call[c].at = "bind" /\ Goes(c, "open")
      /\ UNCHANGED <<lifecycle, executor, result, faults>>
  BY DEF Bind, Within
<1>2. /\ call[c] \in Calls /\ CallOK(call[c]) /\ Knows(call[c])
      /\ call[c].op \in {"start", "retry"} /\ call[c].todo \in SUBSET Runs /\ call[c].todo # {}
      /\ r \in call[c].todo /\ a \in DOMAIN executor /\ call[c].status \in Statuses
      /\ call[c].status \in Terminal => executor[a] = call[c].status
      /\ result \in BOOLEAN /\ faults \in 0 .. MaxFaults
  BY <1>1, CallTypes DEF CallOK, Knows, Submitting
<1>3. /\ call' \in [Callers -> Calls] /\ \A d \in Callers \ {c} : call'[d] = call[d]
      /\ call'[c].at = "open" /\ call'[c].op = call[c].op /\ call'[c].todo = call[c].todo
      /\ call'[c].on = a
  <2>1. "open" \in Places
    BY DEF Places, Submitting
  <2> QED BY <1>1, <2>1, GoesStep
<1>4. ASSUME a \in DOMAIN attempts', Bound \subseteq Bound', r \in Bound'
      PROVE  CallOK(call[c])' /\ Knows(call[c])'
  <2>1. CallOK(call[c])'
    <3> HIDE DEF a
    <3> QED BY <1>2, <1>3, <1>4 DEF CallOK, Submitting, Collecting
  <2>2. call[c].op = "start" => Runs \ call[c].todo \subseteq Bound
    BY <1>1, <1>2 DEF Knows, Submitting
  <2>3. Knows(call[c])'
    BY <1>3, <1>4, <2>2 DEF Knows, Submitting, Collecting
  <2> QED BY <2>1, <2>3
<1>5. CASE a \in DOMAIN attempts
  <2>1. UNCHANGED <<bindings, attempts>>
    BY <1>5 DEF Bind
  <2>2. r \in Bound /\ Bound' = Bound
    BY <1>5, <2>1 DEF Inv, Planned, Bound
  <2>3. CallOK(call[c])' /\ Knows(call[c])'
    BY <1>4, <1>5, <2>1, <2>2
  <2> QED BY <1>1, <1>2, <1>3, <2>1, <2>3, QuietCall
<1>6. CASE a \notin DOMAIN attempts
  <2>1. /\ bindings' = [bindings EXCEPT ![r] = Append(@, a)]
        /\ attempts' = [b \in DOMAIN attempts \cup {a} |->
                           IF b = a THEN Fresh(call[c].status) ELSE attempts[b]]
    BY <1>6 DEF Bind
  <2>2. r \in Runs /\ bindings[r] \in Seq(DOMAIN attempts)
    BY <1>2 DEF Inv, RecordsOK
  <2>3. Fresh(call[c].status) \in AttemptRows
        /\ Fresh(call[c].status).known = call[c].status
        /\ Fresh(call[c].status).session = "none"
    BY <1>2 DEF Fresh, AttemptRows
  <2> HIDE DEF a, r
  <2>4. /\ DOMAIN attempts' = DOMAIN attempts \cup {a}
        /\ attempts'[a] = Fresh(call[c].status)
        /\ \A b \in DOMAIN attempts : attempts'[b] = attempts[b]
        /\ attempts' \in [DOMAIN attempts' -> AttemptRows]
    BY <1>6, <2>1, <2>3 DEF Inv, RecordsOK
  <2>5. /\ bindings'[r] = Append(bindings[r], a)
        /\ \A q \in Runs \ {r} : bindings'[q] = bindings[q]
        /\ DOMAIN bindings' = Runs
    BY <2>1, <2>2 DEF Inv, RecordsOK
  <2>6. ASSUME NEW q \in Runs
        PROVE  /\ bindings'[q] \in Seq(DOMAIN attempts')
               /\ \A i \in DOMAIN bindings'[q] : bindings'[q][i][2] = q
               /\ q \in Bound \/ q = r <=> bindings'[q] # <<>>
    <3>1. bindings[q] \in Seq(DOMAIN attempts')
      BY <2>4, SeqMonotonic DEF Inv, RecordsOK
    <3>2. CASE q = r
      <4>1. /\ bindings'[q] = Append(bindings[q], a)
            /\ bindings'[q] \in Seq(DOMAIN attempts')
            /\ Len(bindings'[q]) = Len(bindings[q]) + 1
            /\ \A i \in 1 .. Len(bindings[q]) + 1 :
                  bindings'[q][i] = IF i <= Len(bindings[q]) THEN bindings[q][i] ELSE a
        BY <2>4, <2>5, <3>1, <3>2, AppendProperties
      <4>2. \A i \in DOMAIN bindings[q] : bindings[q][i][2] = q
        BY DEF Inv, RecordsOK
      <4>3. \A i \in DOMAIN bindings'[q] : bindings'[q][i][2] = q
        BY <3>1, <3>2, <4>1, <4>2 DEF r
      <4>4. bindings'[q] # <<>>
        BY <3>1, <4>1
      <4> QED BY <3>2, <4>1, <4>3, <4>4
    <3>3. CASE q # r
      <4>1. bindings'[q] = bindings[q]
        BY <2>5, <3>3
      <4> QED BY <3>1, <3>3, <4>1 DEF Inv, RecordsOK, Bound
    <3> QED BY <3>2, <3>3
  <2>7. Bound' = Bound \cup {r}
    BY <2>2, <2>6 DEF Bound
  <2>8. RecordsOK'
    <3>1. bindings' \in [Runs -> Seq(DOMAIN attempts')]
      <4>1. bindings' = [q \in Runs |-> bindings'[q]]
        BY <2>1 DEF Inv, RecordsOK
      <4> QED BY <2>6, <4>1
    <3>2. DOMAIN attempts' \subseteq DOMAIN executor'
      BY <1>1, <1>2, <2>4 DEF Inv, RecordsOK, a
    <3> QED BY <1>1, <2>4, <2>6, <3>1, <3>2 DEF Inv, RecordsOK
  <2>9. Grows
    BY <1>1, <2>4, <2>7 DEF Grows
  <2>10. Truthful'
    <3>1. executor[a] = call[c].status \/ call[c].status \notin Terminal
      BY <1>2 DEF a
    <3>2. "none" \notin Terminal
      BY DEF Terminal, Unsuccessful
    <3>3. /\ attempts'[a].known \in Terminal => executor'[a] = attempts'[a].known
          /\ attempts'[a].session \notin Terminal
      BY <1>1, <2>3, <2>4, <3>1, <3>2
    <3>4. \A b \in DOMAIN attempts :
             /\ attempts'[b].known \in Terminal => executor'[b] = attempts'[b].known
             /\ attempts'[b].session \in Terminal =>
                   /\ attempts'[b].session = executor'[b]
                   /\ executor'[b] = "succeeded" =>
                         attempts'[b].journal = {"observations", "artifacts"}
      BY <1>1, <2>4 DEF Inv, Truthful, EvidenceComplete
    <3> QED BY <2>4, <3>3, <3>4 DEF Truthful, EvidenceComplete
  <2>11. Planned'
    BY <1>1, <2>2, <2>4, <2>7 DEF Inv, Planned, Bound, r
  <2>12. CallOK(call[c])' /\ Knows(call[c])'
    BY <1>4, <2>4, <2>7 DEF a, r
  <2> QED BY <1>3, <2>8, <2>9, <2>10, <2>11, <2>12, CallStep
<1> QED BY <1>5, <1>6

\* ... and to the tracker.
LEMMA OpenSessionStep ==
    ASSUME Inv, NEW c \in Callers, OpenSession(c)
    PROVE  Inv' /\ Grows
<1> DEFINE a == call[c].on
           left == call[c].todo \ {a[2]}
           session == IF attempts[a].session = "none" THEN "running" ELSE attempts[a].session
           row == [attempts[a] EXCEPT !.session = session]
           at == IF left = {} THEN "transition" ELSE "submit"
           k == [call[c] EXCEPT !.todo = left, !.at = at]
<1>1. /\ call[c].at = "open"
      /\ attempts' = [attempts EXCEPT ![a].session = IF @ = "none" THEN "running" ELSE @]
      /\ call' = [call EXCEPT ![c].todo = left, ![c].at = at]
      /\ UNCHANGED <<lifecycle, executor, bindings, result, faults>>
  BY DEF OpenSession, Within
<1>2. /\ call[c] \in Calls /\ CallOK(call[c]) /\ Knows(call[c])
      /\ call[c].op \in {"start", "retry"} /\ call[c].todo \in SUBSET Runs
      /\ a \in DOMAIN attempts /\ a[2] \in Bound
      /\ call[c].op = "start" => Runs \ call[c].todo \subseteq Bound
  BY <1>1, CallTypes DEF CallOK, Knows, Submitting
<1>3. attempts[a] \in AttemptRows
  BY <1>2 DEF Inv, RecordsOK
<1> HIDE DEF a
<1>4. /\ session \in Terminal \cup {"none", "running"}
      /\ session \in Terminal => session = attempts[a].session
  BY <1>3 DEF AttemptRows, Terminal, Unsuccessful
<1>5. attempts' = [attempts EXCEPT ![a] = row]
  BY <1>1, <1>2 DEF Inv, RecordsOK
<1> HIDE DEF session
<1>6. /\ row \in AttemptRows /\ row.known = attempts[a].known
      /\ row.journal = attempts[a].journal /\ row.session = session
  BY <1>3, <1>4 DEF AttemptRows
<1> HIDE DEF row
<1>7. Grows /\ RecordsOK' /\ Truthful' /\ Planned' /\ Bound' = Bound
  <2>1. /\ row.known \in Terminal => executor[a] = row.known
        /\ row.session \in Terminal =>
              /\ row.session = executor[a]
              /\ executor[a] = "succeeded" => row.journal = {"observations", "artifacts"}
    BY <1>2, <1>4, <1>6 DEF Inv, Truthful, EvidenceComplete
  <2> QED BY <1>1, <1>2, <1>5, <1>6, <2>1, RowStep
<1>8. /\ at \in {"submit", "transition"} /\ (at = "submit" => left # {})
      /\ (at = "transition" => left = {}) /\ left \in SUBSET Runs
  BY <1>2
<1>9. call[c].op = "start" => Runs \ left \subseteq Bound
  BY <1>2
<1> HIDE DEF at, left
<1>10. k \in Calls /\ k.op = call[c].op /\ k.at = at /\ k.todo = left
  BY <1>2, <1>8 DEF Calls, Places, Submitting
<1>11. call' = [call EXCEPT ![c] = k] /\ call \in [Callers -> Calls]
  BY <1>1 DEF Inv
<1> HIDE DEF k
<1>12. call' \in [Callers -> Calls] /\ call'[c] = k /\ \A d \in Callers \ {c} : call'[d] = call[d]
  BY <1>10, <1>11
<1>13. CallOK(call[c])'
  BY <1>2, <1>8, <1>10, <1>12 DEF CallOK, Submitting, Collecting
<1>14. Knows(call[c])'
  BY <1>7, <1>8, <1>9, <1>10, <1>12 DEF Knows, Submitting, Collecting
<1> QED BY <1>7, <1>12, <1>13, <1>14, CallStep

\* Every step: nothing is taken back, and what is known stays known.
LEMMA InvStep == Inv /\ [Next]_vars => Inv' /\ Grows
<1> SUFFICES ASSUME Inv, [Next]_vars PROVE Inv' /\ Grows
  OBVIOUS
<1>1. ASSUME NEW c \in Callers, Step(c) PROVE Inv' /\ Grows
  BY <1>1, SubmitStep, BindStep, OpenSessionStep, PollEndedStep, PollStep, IngestStep,
     IngestArtifactsStep, CloseStep, RecordStep, CancelAttemptStep, PutResultStep,
     ReturningSteps DEF Step
<1>2. ASSUME NEW c \in Callers,
             \/ Start(c) \/ Reconcile(c) \/ Cancel(c) \/ Finalize(c)
             \/ \E r \in Runs : Retry(c, r)
      PROVE  Inv' /\ Grows
  BY <1>2, OpeningSteps
<1>3. ASSUME NEW c \in Callers, Fails(c) PROVE Inv' /\ Grows
  BY <1>3, ReturningSteps
<1>4. ASSUME NEW a \in DOMAIN executor, Ends(a) PROVE Inv' /\ Grows
  BY <1>4, EndsStep
<1>5. CASE UNCHANGED vars
  <2>1. Grows
    BY <1>5 DEF Inv, RecordsOK, Grows, Bound, vars
  <2>2. RecordsOK' /\ Truthful' /\ Planned'
    BY <1>5 DEF Inv, RecordsOK, Truthful, EvidenceComplete, Planned, Bound, vars
  <2>3. \A c \in Callers : CallOK(call[c])' /\ Knows(call[c])'
    BY <1>5, <2>1, CallKept DEF Inv, vars
  <2> QED BY <1>5, <2>1, <2>2, <2>3 DEF Inv, vars
<1> QED BY <1>1, <1>2, <1>3, <1>4, <1>5 DEF Next

(* Whatever calls overlap and wherever they end: the records of an experiment
   are what its calls take them for, and a call never looks for an attempt that
   was not submitted. *)
THEOREM ExperimentTyped == Spec => []TypeOK
<1>1. Inv => TypeOK
  BY TypeInvImpliesTypeOK DEF Inv, TypeInv
<1> QED BY <1>1, InvInit, InvStep, PTL DEF Spec

(* Whatever calls overlap and wherever they end: a tracking session that is
   closed tells the end of its attempt as the executor has it, and all that was
   collected of one that succeeded (_ingest_attempt_progress(),
   _ingest_attempt_artifacts(), close_session()). *)
THEOREM EvidenceIsComplete == Spec => []EvidenceComplete
<1>1. Inv => EvidenceComplete
  BY DEF Inv, Truthful
<1> QED BY <1>1, InvInit, InvStep, PTL DEF Spec

-----------------------------------------------------------------------------
(* What is known when calls do not overlap *)

OneCaller == \A c, d \in Callers : c = d

\* A start finds the experiment as it was when it began; the last attempt of a run
\* that is retried has ended; and a reconciliation has looked, or will look, at
\* the last attempt of each run, and at nothing else.
Focus(k) ==
    /\ k.op = "start" => lifecycle.state = "locked"
    /\ k.op = "retry" => \A q, r \in k.todo : q = r
    /\ k.op = "retry" /\ k.at \in {"submit", "bind"} =>
          \A r \in k.todo : r \in Bound /\ executor[Latest(r)] \in Terminal
    /\ k.op = "reconcile" =>
          /\ \A a \in k.todo : a[2] \in Bound /\ a = Latest(a[2])
          /\ \A p \in k.seen : /\ p[1] \in Bound
                               /\ p[2] \in Terminal => executor[Latest(p[1])] = p[2]
          /\ \A r \in Bound : Latest(r) \in k.todo \/ \E p \in k.seen : p[1] = r

SoloInv == Inv /\ \A c \in Callers : Focus(call[c])

\* The end of an attempt that was submitted last is final.
LEMMA LatestKept ==
    ASSUME Inv, Grows, UNCHANGED bindings, NEW r \in Bound, executor[Latest(r)] \in Terminal
    PROVE  executor'[Latest(r)] = executor[Latest(r)]
<1>1. Latest(r) \in DOMAIN executor
  BY LatestAttempt DEF Inv, RecordsOK
<1> QED BY <1>1 DEF Grows

\* Steps that leave the plan and what a call has to do.
LEMMA FocusKept ==
    ASSUME SoloInv, Grows, UNCHANGED <<lifecycle, bindings>>, NEW c \in Callers,
           call'[c].op = call[c].op, call'[c].todo = call[c].todo,
           call'[c].seen = call[c].seen,
           call'[c].at \in {"submit", "bind"} => call[c].at \in {"submit", "bind"}
    PROVE  Focus(call[c])'
<1>1. Bound' = Bound /\ \A r \in Runs : Latest(r)' = Latest(r)
  BY DEF Bound, Latest
<1>2. Focus(call[c]) /\ Inv
  BY DEF SoloInv
<1>3. \A r \in Bound : r \in Runs /\
         (executor[Latest(r)] \in Terminal => executor'[Latest(r)] = executor[Latest(r)])
  BY <1>2, LatestKept DEF Bound
<1> DEFINE k == call[c]
<1>4. k.op = "start" => lifecycle'.state = "locked"
  BY <1>2 DEF Focus
<1>5. k.op = "retry" => \A q, r \in k.todo : q = r
  BY <1>2 DEF Focus
<1>6. k.op = "retry" /\ k.at \in {"submit", "bind"} =>
         \A r \in k.todo : r \in Bound /\ executor'[Latest(r)] \in Terminal
  BY <1>2, <1>3 DEF Focus
<1>7. k.op = "reconcile" =>
         /\ \A a \in k.todo : a[2] \in Bound /\ a = Latest(a[2])
         /\ \A p \in k.seen : /\ p[1] \in Bound
                              /\ p[2] \in Terminal => executor'[Latest(p[1])] = p[2]
         /\ \A r \in Bound : Latest(r) \in k.todo \/ \E p \in k.seen : p[1] = r
  BY <1>2, <1>3 DEF Focus
<1>8. \A r \in Bound : Latest(r)' = Latest(r)
  BY <1>1, <1>3
<1> HIDE DEF k
<1>9. call'[c].op = k.op /\ call'[c].todo = k.todo /\ call'[c].seen = k.seen
      /\ (call'[c].at \in {"submit", "bind"} => k.at \in {"submit", "bind"})
  BY DEF k
<1>10. call'[c].op = "retry" /\ call'[c].at \in {"submit", "bind"} =>
          \A r \in call'[c].todo : r \in Bound' /\ executor'[Latest(r)'] \in Terminal
  BY <1>1, <1>6, <1>8, <1>9
<1>11. call'[c].op = "reconcile" =>
          /\ \A a \in call'[c].todo : a[2] \in Bound' /\ a = Latest(a[2])'
          /\ \A p \in call'[c].seen : /\ p[1] \in Bound'
                                      /\ p[2] \in Terminal => executor'[Latest(p[1])'] = p[2]
          /\ \A r \in Bound' : Latest(r)' \in call'[c].todo \/ \E p \in call'[c].seen : p[1] = r
  BY <1>1, <1>7, <1>8, <1>9
<1> QED BY <1>4, <1>5, <1>9, <1>10, <1>11 DEF Focus

\* A call is done with an attempt of its own.
LEMMA FocusDone ==
    ASSUME SoloInv, Grows, UNCHANGED <<lifecycle, bindings>>, NEW c \in Callers,
           call[c].op = "reconcile", call'[c].op = "reconcile",
           NEW a \in call[c].todo, call'[c].todo = call[c].todo \ {a},
           NEW status, call'[c].seen = call[c].seen \cup {<<a[2], status>>},
           status \in Terminal => executor[a] = status
    PROVE  Focus(call[c])'
<1>1. Bound' = Bound /\ \A r \in Runs : Latest(r)' = Latest(r)
  BY DEF Bound, Latest
<1>2. Focus(call[c]) /\ Inv
  BY DEF SoloInv
<1>3. \A r \in Bound : r \in Runs /\
         (executor[Latest(r)] \in Terminal => executor'[Latest(r)] = executor[Latest(r)])
  BY <1>2, LatestKept DEF Bound
<1>4. \A r \in Bound : Latest(r)' = Latest(r)
  BY <1>1, <1>3
<1>5. /\ \A b \in call[c].todo : b[2] \in Bound /\ b = Latest(b[2])
      /\ \A p \in call[c].seen : /\ p[1] \in Bound
                                 /\ p[2] \in Terminal => executor[Latest(p[1])] = p[2]
      /\ \A r \in Bound : Latest(r) \in call[c].todo \/ \E p \in call[c].seen : p[1] = r
  BY <1>2 DEF Focus
<1>6. \A b \in call'[c].todo : b[2] \in Bound' /\ b = Latest(b[2])'
  BY <1>1, <1>4, <1>5
<1>7. ASSUME NEW p \in call'[c].seen
      PROVE  p[1] \in Bound' /\ (p[2] \in Terminal => executor'[Latest(p[1])'] = p[2])
  <2>1. p[1] \in Bound /\ (p[2] \in Terminal => executor[Latest(p[1])] = p[2])
    <3>1. CASE p \in call[c].seen
      BY <1>5, <3>1
    <3>2. CASE p = <<a[2], status>>
      <4>1. p[1] = a[2] /\ p[2] = status
        BY <3>2
      <4> QED BY <1>5, <4>1
    <3> QED BY <3>1, <3>2
  <2> QED BY <1>1, <1>3, <1>4, <2>1
<1>8. ASSUME NEW r \in Bound'
      PROVE  Latest(r)' \in call'[c].todo \/ \E p \in call'[c].seen : p[1] = r
  <2>1. CASE Latest(r) = a
    <3>1. a[2] = r
      BY <1>1, <1>2, <2>1, LatestAttempt DEF Inv
    <3>2. <<a[2], status>> \in call'[c].seen /\ <<a[2], status>>[1] = r
      BY <3>1
    <3> QED BY <3>2
  <2>2. CASE Latest(r) # a
    BY <1>1, <1>4, <1>5, <2>2
  <2> QED BY <2>1, <2>2
<1> QED BY <1>6, <1>7, <1>8 DEF Focus

LEMMA FocusIdle ==
    ASSUME NEW c \in Callers, call'[c].op \notin {"start", "retry", "reconcile"}
    PROVE  Focus(call[c])'
BY DEF Focus

\* Where a call starts.
LEMMA FocusOpening ==
    ASSUME SoloInv, NEW c \in Callers,
           \/ Start(c) \/ Reconcile(c) \/ Cancel(c) \/ Finalize(c)
           \/ \E r \in Runs : Retry(c, r)
    PROVE  Focus(call[c])'
<1>0. Inv
  BY DEF SoloInv
<1>1. CASE Start(c)
  <2>1. Open(c, "start", "submit", Runs) /\ lifecycle.state = "locked" /\ UNCHANGED lifecycle
    BY <1>1 DEF Start
  <2>2. call'[c].op = "start"
    BY <1>0, <2>1, OpensStep DEF Ops, Places, Submitting
  <2> QED BY <2>1, <2>2 DEF Focus
<1>2. CASE \E r \in Runs : Retry(c, r)
  <2>1. PICK r \in Runs : /\ Open(c, "retry", "submit", {r}) /\ Retries(r)
                          /\ UNCHANGED <<executor, bindings>>
    BY <1>2 DEF Retry
  <2>2. {r} \in SUBSET (Runs \cup AttemptIds) /\ "retry" \in Ops /\ "submit" \in Places
    BY DEF Ops, Places, Submitting
  <2>3. call'[c].op = "retry" /\ call'[c].todo = {r}
    BY <1>0, <2>1, <2>2, OpensStep
  <2>4. r \in Bound /\ executor[Latest(r)] \in Terminal
    <3>1. r \in Bound /\ attempts[Latest(r)].known \in Terminal
      BY <2>1 DEF Retries, Known, Terminal
    <3> QED BY <1>0, <3>1, LatestAttempt DEF Inv, Truthful
  <2>5. r \in Bound' /\ executor'[Latest(r)'] \in Terminal
    BY <2>1, <2>4 DEF Bound, Latest
  <2> QED BY <2>3, <2>5 DEF Focus
<1> DEFINE latest == {Latest(r) : r \in Bound}
<1>3. CASE Reconcile(c)
  <2>1. Open(c, "reconcile", "poll", latest) /\ UNCHANGED <<executor, bindings>>
    BY <1>3 DEF Reconcile
  <2>2. latest \in SUBSET (Runs \cup AttemptIds) /\ "reconcile" \in Ops /\ "poll" \in Places
    BY <1>0, LatestAttempt DEF Ops, Places, Inv, RecordsOK
  <2>3. call'[c].op = "reconcile" /\ call'[c].todo = latest /\ call'[c].seen = {}
    <3> HIDE DEF latest
    <3> QED BY <1>0, <2>1, <2>2, OpensStep
  <2>4. Bound' = Bound /\ \A r \in Bound : Latest(r)' = Latest(r)
    BY <2>1 DEF Bound, Latest
  <2>5. \A a \in latest : a[2] \in Bound /\ a = Latest(a[2])
    BY <1>0, LatestAttempt DEF Inv
  <2>6. \A a \in call'[c].todo : a[2] \in Bound' /\ a = Latest(a[2])'
    BY <2>3, <2>4, <2>5
  <2>7. \A r \in Bound' : Latest(r)' \in call'[c].todo
    BY <2>3, <2>4
  <2> HIDE DEF latest
  <2> QED BY <2>3, <2>6, <2>7 DEF Focus
<1>4. CASE Cancel(c)
  <2>1. Open(c, "cancel", "cancel", latest)
    BY <1>4 DEF Cancel
  <2>2. latest \in SUBSET (Runs \cup AttemptIds) /\ "cancel" \in Ops /\ "cancel" \in Places
    BY <1>0, LatestAttempt DEF Ops, Places, Inv, RecordsOK
  <2>3. call'[c].op = "cancel"
    <3> HIDE DEF latest
    <3> QED BY <1>0, <2>1, <2>2, OpensStep
  <2> QED BY <2>3, FocusIdle
<1>5. CASE Finalize(c)
  <2>1. Open(c, "finalize", "result", {})
    BY <1>5 DEF Finalize
  <2>2. {} \in SUBSET (Runs \cup AttemptIds) /\ "finalize" \in Ops /\ "result" \in Places
    BY DEF Ops, Places
  <2>3. call'[c].op = "finalize"
    BY <1>0, <2>1, <2>2, OpensStep
  <2> QED BY <2>3, FocusIdle
<1> QED BY <1>1, <1>2, <1>3, <1>4, <1>5

\* Where a call goes on.
LEMMA FocusSubmitting ==
    ASSUME SoloInv, Grows, NEW c \in Callers, Submit(c) \/ Bind(c) \/ OpenSession(c)
    PROVE  Focus(call[c])'
<1>0. Inv /\ Focus(call[c]) /\ call[c] \in Calls /\ CallOK(call[c]) /\ call \in [Callers -> Calls]
  BY CallTypes DEF SoloInv, Inv
<1>1. CASE Submit(c)
  <2>1. /\ call[c].at = "submit" /\ UNCHANGED <<lifecycle, bindings>>
        /\ call'[c].op = call[c].op /\ call'[c].todo = call[c].todo /\ call'[c].seen = call[c].seen
    BY <1>0, <1>1 DEF Submit, Within, Calls
  <2> QED BY <2>1, FocusKept
<1>2. CASE Bind(c)
  <2>1. call[c].at = "bind" /\ Goes(c, "open") /\ UNCHANGED lifecycle
    BY <1>2 DEF Bind, Within
  <2>2. call[c].op \in {"start", "retry"}
    BY <1>0, <2>1 DEF CallOK, Submitting
  <2>3. call'[c].op = call[c].op /\ call'[c].at = "open" /\ call'[c].todo = call[c].todo
    BY <1>0, <2>1 DEF Goes, Calls
  <2> QED BY <1>0, <2>1, <2>2, <2>3 DEF Focus
<1>3. CASE OpenSession(c)
  <2> DEFINE left == call[c].todo \ {call[c].on[2]}
             at == IF left = {} THEN "transition" ELSE "submit"
  <2>1. /\ call[c].at = "open" /\ UNCHANGED <<lifecycle, bindings>>
        /\ call' = [call EXCEPT ![c].todo = left, ![c].at = at]
    BY <1>3 DEF OpenSession, Within
  <2>2. call[c].op \in {"start", "retry"} /\ call[c].on[2] \in call[c].todo
    BY <1>0, <2>1 DEF CallOK, Submitting
  <2>3. call'[c].op = call[c].op /\ call'[c].at = at /\ call'[c].todo = left
    <3> HIDE DEF left, at
    <3> QED BY <1>0, <2>1 DEF Calls
  <2>4. call[c].op = "retry" => left = {}
    BY <1>0, <2>2 DEF Focus
  <2>5. call[c].op = "retry" => at = "transition"
    BY <2>4
  <2>6. call[c].op = "start" => lifecycle'.state = "locked"
    BY <1>0, <2>1 DEF Focus
  <2> HIDE DEF left, at
  <2> QED BY <2>2, <2>3, <2>4, <2>5, <2>6 DEF Focus
<1> QED BY <1>1, <1>2, <1>3

LEMMA FocusCollecting ==
    ASSUME SoloInv, Grows, NEW c \in Callers,
           \/ PollEnded(c) \/ Poll(c) \/ Ingest(c) \/ IngestArtifacts(c)
           \/ Close(c) \/ RecordAttempt(c)
    PROVE  Focus(call[c])'
<1>0. Inv /\ call[c] \in Calls /\ CallOK(call[c]) /\ Knows(call[c])
  BY CallTypes DEF SoloInv
<1>1. UNCHANGED <<lifecycle, bindings>>
  BY DEF PollEnded, Poll, Ingest, IngestArtifacts, Close, RecordAttempt
<1>2. ASSUME NEW a \in call[c].todo, NEW status \in Statuses, Done(c, a, status),
             DOMAIN attempts' = DOMAIN attempts, a \in AttemptIds, call[c].op = "reconcile",
             status \in Terminal => executor[a] = status
      PROVE  Focus(call[c])'
  <2>1. /\ call'[c].op = "reconcile" /\ call'[c].todo = call[c].todo \ {a}
        /\ call'[c].seen = call[c].seen \cup {<<a[2], status>>}
    BY <1>0, <1>2, DoneStep
  <2> QED BY <1>1, <1>2, <2>1, FocusDone
<1>3. ASSUME NEW at \in Collecting, Goes(c, at) PROVE Focus(call[c])'
  <2>1. at \in Places /\ at \notin {"submit", "bind"}
    BY DEF Places, Collecting
  <2>2. /\ call'[c].op = call[c].op /\ call'[c].todo = call[c].todo
        /\ call'[c].seen = call[c].seen /\ call'[c].at = at
    BY <1>0, <1>3, <2>1, GoesStep
  <2> QED BY <1>1, <2>1, <2>2, FocusKept
<1>4. CASE PollEnded(c)
  <2> DEFINE a == Foremost(call[c].todo)
  <2>1. /\ call[c].at = "poll" /\ call[c].todo # {} /\ Done(c, a, attempts[a].known)
        /\ UNCHANGED attempts
    BY <1>4 DEF PollEnded, Within
  <2>2. /\ a \in call[c].todo /\ a \in AttemptIds /\ a \in DOMAIN attempts
        /\ attempts[a].known \in Statuses
    BY <1>0, <2>1, NextAttempt DEF AttemptRows
  <2>3. attempts[a].known \in Terminal => executor[a] = attempts[a].known
    BY <1>0, <2>2 DEF Inv, Truthful
  <2>4. call[c].op = "reconcile"
    BY <1>0, <2>1 DEF CallOK
  <2> HIDE DEF a
  <2> QED BY <1>2, <2>1, <2>2, <2>3, <2>4
<1>5. CASE Poll(c)
  <2>1. /\ call'[c].op = call[c].op /\ call'[c].at = "ingest"
        /\ call'[c].todo = call[c].todo /\ call'[c].seen = call[c].seen
    BY <1>0, <1>5, PollStep
  <2> QED BY <1>1, <2>1, FocusKept
<1> DEFINE on == call[c].on
           status == call[c].status
<1>6. ASSUME call[c].at \in {"ingest", "record"}, Done(c, on, status),
             DOMAIN attempts' = DOMAIN attempts
      PROVE  Focus(call[c])'
  <2>1. /\ on \in call[c].todo /\ on \in AttemptIds
        /\ call[c].op = "reconcile" /\ status \in Statuses
    BY <1>0, <1>6, CollectedAttempt DEF Collecting
  <2>2. status \in Terminal => executor[on] = status
    BY <1>0, <1>6 DEF Knows, Collecting
  <2> HIDE DEF on, status
  <2> QED BY <1>2, <1>6, <2>1, <2>2
<1>7. CASE Ingest(c)
  <2>1. /\ call[c].at = "ingest"
        /\ IF status \in Terminal THEN Goes(c, ThenIngested(status)) ELSE Done(c, on, status)
        /\ attempts' = [attempts EXCEPT ![on].journal = @ \cup {"observations"}]
    BY <1>7 DEF Ingest, Within
  <2>2. DOMAIN attempts' = DOMAIN attempts
    BY <1>0, <2>1 DEF Inv, RecordsOK
  <2>3. ThenIngested(status) \in Collecting
    BY DEF ThenIngested, Collecting
  <2> HIDE DEF on, status
  <2>4. CASE Goes(c, ThenIngested(status))
    BY <1>3, <2>3, <2>4
  <2>5. CASE Done(c, on, status)
    BY <1>6, <2>1, <2>2, <2>5
  <2> QED BY <2>1, <2>4, <2>5
<1>8. CASE IngestArtifacts(c)
  <2>1. Goes(c, "close") /\ "close" \in Collecting
    BY <1>8 DEF IngestArtifacts, Collecting
  <2> QED BY <1>3, <2>1
<1>9. CASE Close(c)
  <2>1. Goes(c, "record") /\ "record" \in Collecting
    BY <1>9 DEF Close, Collecting
  <2> QED BY <1>3, <2>1
<1>10. CASE RecordAttempt(c)
  <2>1. /\ call[c].at = "record" /\ Done(c, on, status)
        /\ attempts' = [attempts EXCEPT ![on].recorded = TRUE]
    BY <1>10 DEF RecordAttempt, Within
  <2>2. DOMAIN attempts' = DOMAIN attempts
    BY <1>0, <2>1 DEF Inv, RecordsOK
  <2> HIDE DEF on, status
  <2> QED BY <1>6, <2>1, <2>2
<1> QED BY <1>4, <1>5, <1>7, <1>8, <1>9, <1>10

\* Where a call returns, or cancels, or finalizes.
LEMMA FocusOther ==
    ASSUME SoloInv, NEW c \in Callers,
           \/ Fails(c) \/ Conclude(c) \/ IngestRaises(c) \/ Settle(c) \/ CancelReturns(c)
           \/ CancelAttempt(c) \/ PutResult(c)
    PROVE  Focus(call[c])'
<1>0. Inv /\ call[c] \in Calls /\ CallOK(call[c]) /\ call \in [Callers -> Calls]
  BY CallTypes DEF SoloInv, Inv
<1>1. CASE Returns(c)
  <2>1. call'[c] = Idle
    BY <1>0, <1>1 DEF Returns
  <2> QED BY <2>1, FocusIdle DEF Idle
<1>2. CASE CancelAttempt(c)
  <2>1. call[c].op = "cancel"
    BY <1>0, <1>2 DEF CancelAttempt, Within, CallOK
  <2>2. call'[c].op = "cancel"
    BY <1>0, <1>2, <2>1 DEF CancelAttempt, Calls
  <2> QED BY <2>2, FocusIdle
<1>3. CASE PutResult(c)
  <2>1. call[c].op = "finalize"
    BY <1>0, <1>3 DEF PutResult, Within, CallOK
  <2>2. CASE Goes(c, "transition")
    <3>1. call'[c].op = "finalize"
      BY <1>0, <2>1, <2>2 DEF Goes, Calls
    <3> QED BY <3>1, FocusIdle
  <2> QED BY <1>1, <1>3, <2>2 DEF PutResult
<1> QED BY <1>1, <1>2, <1>3 DEF Fails, Conclude, IngestRaises, Settle, CancelReturns

LEMMA SoloInit == Init => SoloInv
<1>1. Init => \A c \in Callers : Focus(call[c])
  BY DEF Init, Idle, Focus
<1> QED BY <1>1, InvInit DEF SoloInv

LEMMA SoloStep ==
    ASSUME OneCaller
    PROVE  SoloInv /\ [Next]_vars => SoloInv'
<1> SUFFICES ASSUME SoloInv, [Next]_vars PROVE SoloInv'
  OBVIOUS
<1>1. Inv' /\ Grows
  BY InvStep DEF SoloInv
<1>2. ASSUME NEW c \in Callers, Focus(call[c])' PROVE SoloInv'
  <2>1. \A d \in Callers : d = c
    BY DEF OneCaller
  <2>2. \A d \in Callers : Focus(call[d])'
    BY <1>2, <2>1
  <2> QED BY <1>1, <2>2 DEF SoloInv
<1>3. ASSUME NEW c \in Callers,
             \/ Start(c) \/ Reconcile(c) \/ Cancel(c) \/ Finalize(c)
             \/ \E r \in Runs : Retry(c, r)
      PROVE  SoloInv'
  BY <1>2, <1>3, FocusOpening
<1>4. ASSUME NEW c \in Callers, Step(c) \/ Fails(c) PROVE SoloInv'
  <2>1. Focus(call[c])'
    BY <1>1, <1>4, FocusSubmitting, FocusCollecting, FocusOther DEF Step
  <2> QED BY <1>2, <2>1
<1>5. ASSUME UNCHANGED <<lifecycle, bindings, call>> PROVE SoloInv'
  <2>1. ASSUME NEW c \in Callers PROVE Focus(call[c])'
    BY <1>1, <1>5, FocusKept
  <2> QED BY <1>1, <2>1 DEF SoloInv
<1>6. ASSUME NEW a \in DOMAIN executor, Ends(a) PROVE SoloInv'
  BY <1>5, <1>6 DEF Ends
<1>7. CASE UNCHANGED vars
  BY <1>5, <1>7 DEF vars
<1> QED BY <1>3, <1>4, <1>6, <1>7 DEF Next

\* The step that settles an experiment.
LEMMA SettlesOnTruth ==
    ASSUME SoloInv, NEW c \in Callers, Settle(c), lifecycle' # lifecycle
    PROVE  /\ Bound = Runs
           /\ Truth \subseteq Terminal
           /\ lifecycle'.state = "results_ready" <=> Truth = {"succeeded"}
<1> DEFINE statuses == {p[2] : p \in call[c].seen}
           outcome == Outcome(statuses)
<1>1. /\ call[c].at = "poll" /\ call[c].todo = {}
      /\ statuses \subseteq Terminal
      /\ lifecycle.state \in {"running", "cancelling"}
      /\ Transition(outcome)
  BY DEF Settle, Within, AllEnded
<1>2. Inv /\ Focus(call[c]) /\ CallOK(call[c])
  BY DEF SoloInv, Inv
<1>3. /\ \A p \in call[c].seen : p[1] \in Bound /\ executor[Latest(p[1])] = p[2]
      /\ \A r \in Bound : \E p \in call[c].seen : p[1] = r
  <2>1. call[c].op = "reconcile"
    BY <1>1, <1>2 DEF CallOK
  <2>2. \A p \in call[c].seen : p[2] \in Terminal
    BY <1>1
  <2> QED BY <1>1, <1>2, <2>1, <2>2 DEF Focus
<1>4. Truth = statuses
  <2>1. statuses \subseteq Truth
    BY <1>3 DEF Truth
  <2>2. ASSUME NEW r \in Bound PROVE executor[Latest(r)] \in statuses
    <3>1. PICK p \in call[c].seen : p[1] = r
      BY <1>3
    <3>2. executor[Latest(r)] = p[2]
      BY <1>3, <3>1
    <3> QED BY <3>2
  <2> HIDE DEF statuses
  <2> QED BY <2>1, <2>2 DEF Truth
<1>5. Bound = Runs
  BY <1>1, <1>2 DEF Inv, Planned
<1>6. lifecycle'.state = Targets[outcome].to
  BY <1>1 DEF Transition
<1> HIDE DEF statuses
<1>7. Targets[outcome].to = "results_ready" <=> statuses = {"succeeded"}
  BY DEF Outcome, Targets
<1> QED BY <1>1, <1>4, <1>5, <1>6, <1>7

(* If calls do not overlap, and wherever they end: an experiment is settled by
   reconcile_experiment() alone, when the last attempts of all runs of its plan
   have ended at the executor, and its results are ready just if all succeeded. *)
THEOREM OutcomesAreTrue == OneCaller => (Spec => SettledOnTruth)
<1> SUFFICES ASSUME OneCaller PROVE Spec => SettledOnTruth
  OBVIOUS
<1> DEFINE Settled ==
             lifecycle' # lifecycle /\ lifecycle'.state \in {"failed", "cancelled", "results_ready"} =>
                /\ Bound = Runs
                /\ Truth \subseteq Terminal
                /\ lifecycle'.state = "results_ready" <=> Truth = {"succeeded"}
<1>1. SoloInv /\ [Next]_vars => [Settled]_vars
  <2> SUFFICES ASSUME SoloInv, Next, lifecycle' # lifecycle,
                      lifecycle'.state \in {"failed", "cancelled", "results_ready"}
               PROVE  /\ Bound = Runs
                      /\ Truth \subseteq Terminal
                      /\ lifecycle'.state = "results_ready" <=> Truth = {"succeeded"}
    OBVIOUS
  <2>1. \/ \E c \in Callers : Settle(c)
        \/ \E c \in Callers : Cancel(c)
        \/ \E c \in Callers : Conclude(c)
    <3>1. ASSUME NEW c \in Callers, Step(c) PROVE Settle(c) \/ Conclude(c)
      BY <3>1 DEF Step, Submit, Bind, OpenSession, PollEnded, Poll, Ingest, IngestRaises,
                  IngestArtifacts, Close, RecordAttempt, CancelAttempt, CancelReturns, PutResult
    <3>2. ASSUME NEW c \in Callers,
                 \/ Start(c) \/ Reconcile(c) \/ Finalize(c) \/ Fails(c)
                 \/ \E r \in Runs : Retry(c, r)
          PROVE  FALSE
      BY <3>2 DEF Start, Reconcile, Finalize, Retry, Fails
    <3>3. ASSUME NEW a \in DOMAIN executor, Ends(a) PROVE FALSE
      BY <3>3 DEF Ends
    <3> QED BY <3>1, <3>2, <3>3 DEF Next
  <2>2. ~ \E c \in Callers : Cancel(c)
    <3>1. Targets["cancel"].to = "cancelling"
      BY DEF Targets
    <3>2. ASSUME NEW c \in Callers, Cancel(c) PROVE lifecycle'.state = Targets["cancel"].to
      BY <3>2 DEF Cancel, Transition
    <3> QED BY <3>1, <3>2
  <2>3. ~ \E c \in Callers : Conclude(c)
    <3>1. SUFFICES ASSUME NEW c \in Callers, Conclude(c) PROVE FALSE
      OBVIOUS
    <3>2. call[c].op \in {"start", "retry", "finalize"}
      BY <3>1 DEF SoloInv, Inv, Conclude, Within, CallOK
    <3>3. lifecycle'.state = Targets[call[c].op].to
      BY <3>1 DEF Conclude, Transition
    <3> QED BY <3>2, <3>3 DEF Targets
  <2> QED BY <2>1, <2>2, <2>3, SettlesOnTruth
<1> QED BY <1>1, SoloInit, SoloStep, PTL DEF Spec, SettledOnTruth

(* If calls do not overlap, and wherever they end: retry_run() binds an attempt
   to a run only after the last one of the run has ended at the executor. *)
THEOREM RetriesFollowEnds == OneCaller => (Spec => RetryAfterEnd)
<1> SUFFICES ASSUME OneCaller PROVE Spec => RetryAfterEnd
  OBVIOUS
<1> DEFINE Follows ==
             \A r \in Runs : bindings'[r] # bindings[r] /\ lifecycle.state # "locked"
                => executor[Latest(r)] \in Terminal
<1>1. SoloInv /\ [Next]_vars => [Follows]_vars
  <2> SUFFICES ASSUME SoloInv, Next, NEW r \in Runs,
                      bindings'[r] # bindings[r], lifecycle.state # "locked"
               PROVE  executor[Latest(r)] \in Terminal
    OBVIOUS
  <2>1. PICK c \in Callers : Bind(c)
    <3>1. ASSUME NEW c \in Callers, Step(c) PROVE Bind(c)
      BY <3>1 DEF Step, Submit, OpenSession, Conclude, PollEnded, Poll, Ingest, IngestRaises,
                  IngestArtifacts, Close, RecordAttempt, Settle, CancelAttempt, CancelReturns,
                  PutResult
    <3>2. ASSUME NEW c \in Callers,
                 \/ Start(c) \/ Reconcile(c) \/ Cancel(c) \/ Finalize(c) \/ Fails(c)
                 \/ \E q \in Runs : Retry(c, q)
          PROVE  FALSE
      BY <3>2 DEF Start, Reconcile, Cancel, Finalize, Retry, Fails
    <3>3. ASSUME NEW a \in DOMAIN executor, Ends(a) PROVE FALSE
      BY <3>3 DEF Ends
    <3> QED BY <3>1, <3>2, <3>3 DEF Next
  <2>2. /\ call[c].at = "bind"
        /\ bindings' = [bindings EXCEPT ![call[c].on[2]] = Append(@, call[c].on)]
    BY <2>1 DEF Bind, Within
  <2>3. CallOK(call[c]) /\ Focus(call[c]) /\ bindings \in [Runs -> Seq(DOMAIN attempts)]
    BY DEF SoloInv, Inv, RecordsOK
  <2>4. call[c].on[2] = r
    BY <2>2, <2>3
  <2>5. r \in call[c].todo /\ call[c].op = "retry"
    BY <2>2, <2>3, <2>4 DEF CallOK, Focus, Submitting
  <2> QED BY <2>2, <2>3, <2>5 DEF Focus
<1> QED BY <1>1, SoloInit, SoloStep, PTL DEF Spec, RetryAfterEnd

=============================================================================
