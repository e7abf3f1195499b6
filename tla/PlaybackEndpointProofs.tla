----------------------- MODULE PlaybackEndpointProofs -----------------------
(* The control plane with its endpoints, for every value of the constants:  *)
(* shells are endpoints as MediaControl knows them, so that what is proved  *)
(* of it holds of them, and as they acknowledge only what they received,    *)
(* acknowledged prefixes survive handoffs.                                  *)
EXTENDS PlaybackEndpoint, MediaControlSessionProofs, WellFoundedInduction

\* Endpoints may report any state, as reconcile_endpoint() takes any.
AnyReport == Reports = States /\ "endpoint_preferred" \in Authorities

-----------------------------------------------------------------------------
(* The invariant *)

ScreenRows ==
    [session : Nat, item : Items \cup {NoItem}, state : States,
     confirmed : BOOLEAN, queue_revision : Nat, applied : Nat,
     revision : Nat, changed : BOOLEAN,
     doing : {"nothing", "poll", "pull", "report"}]

\* A shell is bound to a session that exists, and has its queue or an earlier one.
BoundOK(e) ==
    /\ e.session \in DOMAIN session \cup {0}
    /\ e.session = 0 => e.applied = 0
    /\ e.session # 0 => e.queue_revision <= session[e.session].queue_revision

\* What the shell of t has applied is a command of its session that was sent to it.
Received(e, t) ==
    e.applied # 0 => \E k \in Rows(e.session, t) : command[k].revision = e.applied

ScreensOK ==
    /\ screen \in [Shells -> ScreenRows]
    /\ \A t \in Shells : BoundOK(screen[t]) /\ Received(screen[t], t)

ShellInv == TypeOK /\ LogInv /\ ScreensOK

-----------------------------------------------------------------------------
(* Shells as endpoints *)

\* A command that a shell has applied is one that its session has issued.
LEMMA AppliedIssued ==
    ASSUME ShellInv, NEW t \in Shells, screen[t].session # 0
    PROVE  screen[t].applied \in 0 .. session[screen[t].session].command_revision
<1> DEFINE e == screen[t]
<1>1. e \in ScreenRows /\ BoundOK(e) /\ Received(e, t)
  BY DEF ShellInv, ScreensOK
<1>2. e.session \in DOMAIN session /\ session[e.session] \in SessionRows
  BY <1>1 DEF BoundOK, ShellInv, TypeOK, SessionsOK
<1>3. session[e.session].command_revision \in Nat /\ e.applied \in Nat
  BY <1>1, <1>2 DEF SessionRows, ScreenRows
<1>4. ASSUME e.applied # 0
      PROVE  e.applied <= session[e.session].command_revision
  <2>1. PICK k \in Rows(e.session, t) : command[k].revision = e.applied
    BY <1>1, <1>4 DEF Received
  <2> QED BY <1>2, <2>1 DEF Rows, ShellInv, LogInv, LogContiguous
<1> HIDE DEF e
<1> QED BY <1>3, <1>4 DEF e

\* The report of a shell is an observation as endpoints send them.
LEMMA ReportIsObservation ==
    ASSUME ShellInv, AnyReport, NEW t \in Shells, Report(t)
    PROVE  EndpointStep(t)
<1> DEFINE e == screen[t]
           s == call[t].session
           obs == Observed(e)
<1>1. e \in ScreenRows /\ BoundOK(e)
  BY DEF ShellInv, ScreensOK
<1>2. /\ s = e.session /\ e.revision < MaxEndpointRevision
      /\ Reconcile(t, t, e.revision + 1, e.applied, obs, "endpoint_preferred")
  BY DEF Report
<1>3. s \in DOMAIN session /\ s # 0 /\ session[s] \in SessionRows
  BY <1>2, ConstantAssumption DEF Reconcile, ShellInv, TypeOK, SessionsOK
<1>4. e.revision + 1 \in 1 .. MaxEndpointRevision
  BY <1>1, <1>2, ConstantAssumption DEF ScreenRows
<1>5. e.applied \in 0 .. session[s].command_revision + 1
  <2>1. e.applied \in 0 .. session[s].command_revision
    BY <1>2, <1>3, AppliedIssued
  <2> QED BY <1>3, <2>1 DEF SessionRows
<1>6. obs \in Observations(t)
  <2>1. e.queue_revision \in 0 .. session[s].queue_revision
    BY <1>1, <1>2, <1>3 DEF BoundOK, ScreenRows, SessionRows
  <2>2. obs = [item |-> e.item, state |-> e.state, confirmed |-> e.confirmed,
               queue_revision |-> e.queue_revision]
    BY DEF Observed
  <2>3. /\ e.item \in Items \cup {NoItem} /\ e.state \in Reports
        /\ e.confirmed \in BOOLEAN
    BY <1>1 DEF ScreenRows, AnyReport
  <2> HIDE DEF obs, e, s
  <2> QED BY <2>1, <2>2, <2>3 DEF Observations, s
<1>7. t \in Targets /\ "endpoint_preferred" \in Authorities
  BY DEF Shells, AnyReport
<1> HIDE DEF e, obs
<1> QED BY <1>2, <1>3, <1>4, <1>5, <1>6, <1>7 DEF EndpointStep, s

\* Steps that leave the commands and the acknowledgements of sessions alone, or
\* log commands.
Sending ==
    \/ Quiet
    \/ \E p \in Callers, a \in Actors, key \in Keys, kind \in Commands,
          t \in Targets \cup {NoTarget}, seconds \in Nat :
             Command(p, a, key, kind, t, seconds)
    \/ \E p \in Callers : ApplyDueSleepTimers(p)

LEMMA ControllerSends ==
    ASSUME TypeOK, NEW p \in Callers, ControllerStep(p)
    PROVE  Sending
<1>1. CASE \E a \in Actors, q \in Queues :
              \E index \in {0} \cup DOMAIN q : UpdateQueue(p, a, q, index)
  BY <1>1, QuietSteps DEF Sending
<1>2. ASSUME NEW a \in Actors, NEW key \in Keys, NEW kind \in Commands,
             NEW t \in IF kind = "handoff" THEN Targets ELSE {NoTarget},
             NEW seconds \in IF kind = "sleep_timer" THEN {0, SleepFor} ELSE {0},
             Command(p, a, key, kind, t, seconds)
      PROVE  Sending
  <2>1. seconds \in Nat /\ t \in Targets \cup {NoTarget}
    BY ConstantAssumption
  <2> QED BY <1>2, <2>1 DEF Sending
<1> QED BY <1>1, <1>2 DEF ControllerStep

\* What a shell does to the control plane.
LEMMA ShellCalls ==
    ASSUME ShellInv, NEW t \in Shells, ShellStep(t)
    PROVE  SessionStep(t) \/ ApplyDueSleepTimers(t) \/ UNCHANGED vars \/ Report(t)
<1>0. DOMAIN session \subseteq Sessions /\ t \in Targets
  BY DEF ShellInv, TypeOK, SessionsOK, Shells
<1>1. CASE SendPoll(t) \/ SendPull(t) \/ SendReport(t)
  <2>1. \E s \in Sessions \cup {0} : Open(t, s)
    BY <1>0, <1>1 DEF SendPoll, SendPull, SendReport, Send, Open
  <2> QED BY <2>1 DEF SessionStep
<1>2. CASE Poll(t) \/ PollReply(t) \/ Reattach(t) \/ Pull(t) \/ ReportRefused(t)
  <2>1. InboxRegister(t, t) \/ InboxSelect(t) \/ InboxResumable(t)
        \/ InboxReattach(t) \/ Return(t)
    BY <1>2 DEF Poll, PollReply, Reattach, Pull, ReportRefused
  <2> QED BY <1>0, <2>1 DEF SessionStep
<1>3. CASE PullTimers(t)
  BY <1>3 DEF PullTimers
<1>4. CASE Confirm(t) \/ MediaEnd(t)
  BY <1>4 DEF Confirm, MediaEnd
<1> QED BY <1>1, <1>2, <1>3, <1>4 DEF ShellStep

\* What a controller does.
LEMMA ControlCalls ==
    ASSUME ShellInv, NEW p \in Controllers, ControlStep(p)
    PROVE  SessionStep(p) \/ ControllerStep(p)
<1>1. ASSUME NEW s \in Sessions, NEW a \in Actors, NEW q \in Queues,
             CreateSession(p, s, a, q, 1)
      PROVE  SessionStep(p)
  <2>1. 1 \in DOMAIN q
    BY QueueAssumption
  <2> QED BY <1>1, <2>1 DEF SessionStep
<1> QED BY <1>1 DEF ControlStep, SessionStep

\* A step of the composition is a step of the control plane.
LEMMA ShellNextIsNext ==
    ASSUME ShellInv, AnyReport, [ShellNext]_allVars
    PROVE  [Next]_vars
<1>1. ASSUME NEW p \in Controllers, ControlStep(p) PROVE [Next]_vars
  BY <1>1, ControlCalls DEF Next, Controllers
<1>2. ASSUME NEW t \in Shells, ShellStep(t) PROVE [Next]_vars
  <2>1. SessionStep(t) \/ ApplyDueSleepTimers(t) \/ UNCHANGED vars \/ Report(t)
    BY <1>2, ShellCalls
  <2>2. Report(t) \/ ApplyDueSleepTimers(t) => EndpointStep(t)
    BY ReportIsObservation DEF EndpointStep
  <2> QED BY <2>1, <2>2 DEF Next, Shells
<1>3. CASE UNCHANGED allVars
  BY <1>3 DEF allVars, vars
<1> QED BY <1>1, <1>2, <1>3 DEF ShellNext, Next

\* Every step but a report sends commands at most.
LEMMA SendingOrReport ==
    ASSUME ShellInv, [ShellNext]_allVars
    PROVE  Sending \/ \E t \in Shells : Report(t)
<1>0. UNCHANGED vars \/ Tick => Sending
  BY DEF vars, Tick, Quiet, Sending
<1>1. ASSUME NEW p \in Callers, SessionStep(p) PROVE Sending
  BY <1>1, QuietSteps DEF ShellInv, Sending
<1>2. ASSUME NEW p \in Controllers, ControlStep(p) PROVE Sending
  BY <1>1, <1>2, ControlCalls, ControllerSends DEF Controllers, ShellInv
<1>3. ASSUME NEW t \in Shells, ShellStep(t) PROVE Sending \/ Report(t)
  BY <1>0, <1>1, <1>3, ShellCalls DEF Shells, Sending
<1>4. CASE UNCHANGED allVars
  BY <1>0, <1>4 DEF allVars, vars
<1> QED BY <1>0, <1>2, <1>3, <1>4 DEF ShellNext

-----------------------------------------------------------------------------
(* What the shells hold *)

\* Rows keep what they were logged as.
RowsStay ==
    /\ DOMAIN command \subseteq DOMAIN command'
    /\ \A k \in DOMAIN command : /\ command'[k].session = command[k].session
                                 /\ command'[k].target = command[k].target
                                 /\ command'[k].revision = command[k].revision

LEMMA RowsKept ==
    ASSUME ShellInv, [Next]_vars
    PROVE  RowsStay
<1>0. \A k \in DOMAIN command : command[k] \in CommandRows
  BY DEF ShellInv, TypeOK, CommandsOK
<1>1. CASE Quiet
  BY <1>1 DEF Quiet, RowsStay
<1>2. ASSUME NEW p \in Callers, NEW a \in Actors, NEW key \in Keys,
             NEW kind \in Commands, NEW t \in Targets \cup {NoTarget},
             NEW seconds \in Nat, Command(p, a, key, kind, t, seconds)
      PROVE  RowsStay
  <2> DEFINE s == call[p].session
  <2>1. /\ DOMAIN command \subseteq DOMAIN command'
        /\ \A k \in DOMAIN command : command'[k] = Coalesced(s, kind)[k]
    BY <1>2, CommandEffect DEF ShellInv, CommandEffects
  <2>2. \A k \in DOMAIN command :
           Coalesced(s, kind)[k]
              \in {command[k], [command[k] EXCEPT !.status = "superseded"]}
    BY DEF Coalesced
  <2> HIDE DEF s
  <2> QED BY <1>0, <2>1, <2>2 DEF RowsStay, CommandRows
<1>3. ASSUME NEW p \in Callers, NEW k \in DOMAIN command, NEW status \in Outcomes,
             AcknowledgeCommand(p, k, status)
      PROVE  RowsStay
  BY <1>0, <1>3 DEF AcknowledgeCommand, RowsStay, CommandRows
<1>4. ASSUME NEW p \in Callers, ApplyDueSleepTimers(p)
      PROVE  RowsStay
  <2>1. /\ DOMAIN command \subseteq DOMAIN command'
        /\ \A k \in DOMAIN command : command'[k] = command[k]
    BY <1>4, TimersEffect DEF ShellInv, LogInv
  <2> QED BY <2>1 DEF RowsStay
<1>5. ASSUME NEW p \in Callers, NEW t \in Targets, NEW revision \in Nat, NEW ack \in Nat,
             NEW authority \in Authorities, NEW obs \in Observations(p),
             Reconcile(p, t, revision, ack, obs, authority)
      PROVE  RowsStay
  <2> DEFINE s == call[p].session
             upTo == Accepted(s, t, ack, obs)
  <2>1. command' = Settled(s, t, upTo)
    BY <1>5 DEF Reconcile
  <2> HIDE DEF s, upTo
  <2>2. /\ DOMAIN command' = DOMAIN command
        /\ \A k \in DOMAIN command :
              command'[k] \in {command[k], [command[k] EXCEPT !.status = "applied"]}
    BY <2>1 DEF Settled
  <2> QED BY <1>0, <2>2 DEF RowsStay, CommandRows
<1> QED BY <1>1, <1>2, <1>3, <1>4, <1>5, StepKinds DEF ShellInv

\* The screen e of the shell of t fits the tables.
Fitting(e, t) == e \in ScreenRows /\ BoundOK(e) /\ Received(e, t)

\* ... and does so as the tables go on.
LEMMA FittingStays ==
    ASSUME ShellInv, [Next]_vars, NEW t, NEW e, Fitting(e, t)
    PROVE  /\ e \in ScreenRows
           /\ BoundOK(e)'
           /\ Received(e, t)'
<1>1. /\ DOMAIN session \subseteq DOMAIN session'
      /\ \A r \in DOMAIN session :
            session'[r].queue_revision >= session[r].queue_revision
  BY RowStep DEF ShellInv, Follows
<1>2. TypeOK' /\ RowsStay
  BY TypeStep, RowsKept DEF ShellInv
<1>3. \A r \in DOMAIN session : /\ session[r].queue_revision \in Nat
                                /\ session'[r].queue_revision \in Nat
  BY <1>1, <1>2 DEF ShellInv, TypeOK, SessionsOK, SessionRows
<1>4. e.queue_revision \in Nat
  BY DEF Fitting, ScreenRows
<1>5. BoundOK(e)'
  BY <1>1, <1>3, <1>4 DEF Fitting, BoundOK
<1>6. Received(e, t)'
  BY <1>2 DEF Fitting, Received, Rows, RowsStay
<1> QED BY <1>5, <1>6 DEF Fitting

\* Of a set of revisions that does not go beyond n, one is the latest.
LEMMA LatestRevision ==
    ASSUME NEW n \in Nat, NEW T \in SUBSET (0 .. n), T # {}
    PROVE  \E x \in T : \A y \in T : y <= x
<1> DEFINE R == OpToRel(<, Nat)
           D == {n - x : x \in T}
<1>1. IsWellFoundedOn(R, Nat)
  BY NatLessThanWellFounded, Zenon
<1>2. D \subseteq Nat /\ D # {}
  <2>1. PICK x \in T : TRUE
    OBVIOUS
  <2>2. n - x \in D
    OBVIOUS
  <2>3. \A y \in T : n - y \in Nat
    OBVIOUS
  <2> QED BY <2>2, <2>3
<1>3. PICK d \in D : \A c \in D : ~(<<c, d>> \in R)
  <2> HIDE DEF R, D
  <2> QED BY <1>1, <1>2, WFMin
<1>4. \A c \in D : ~(c < d)
  <2> HIDE DEF D
  <2> QED BY <1>2, <1>3 DEF OpToRel
<1>5. PICK x \in T : d = n - x
  OBVIOUS
<1>6. \A y \in T : n - y \in D
  OBVIOUS
<1> HIDE DEF D
<1> QED BY <1>4, <1>5, <1>6

\* Playing commands of its session that were sent to it leaves a shell fitting.
LEMMA PlayedFits ==
    ASSUME ShellInv, NEW t \in Shells, NEW e, Fitting(e, t),
           NEW K \in SUBSET Rows(e.session, t)
    PROVE  /\ Fitting(Played(e, K), t)
           /\ Played(e, K).session = e.session
           /\ Played(e, K).revision = e.revision
<1> DEFINE moves == {k \in K : command[k].kind \in {"play", "pause", "stop"}}
           last == CHOOSE k \in moves : \A j \in moves :
                      command[j].revision <= command[k].revision
           latest == CHOOSE k \in K : \A j \in K :
                        command[j].revision <= command[k].revision
           state == CASE command[last].kind = "play"  ->
                            IF e.confirmed /\ e.state = "playing"
                            THEN "playing" ELSE "loading"
                      [] command[last].kind = "pause" -> "paused"
                      [] OTHER -> "stopped"
           n == IF command[latest].revision > e.applied
                THEN command[latest].revision ELSE e.applied
           m == IF moves = {} THEN e.state ELSE state
           w == [e EXCEPT !.applied = n, !.state = m, !.changed = TRUE]
<1>1. CASE K = {}
  BY <1>1 DEF Played
<1>2. CASE K # {}
  <2>1. Played(e, K) = w
    BY <1>2 DEF Played
  <2>2. e.session # 0 => e.session \in DOMAIN session
    BY DEF Fitting, BoundOK
  <2>3. latest \in K
    <3> DEFINE T == {command[k].revision : k \in K}
    <3>1. PICK k0 \in K : TRUE
      BY <1>2
    <3>2. e.session \in DOMAIN session
      BY <3>1 DEF Rows, ShellInv, LogInv, RowsOwned
    <3>3. session[e.session].command_revision \in Nat
      BY <3>2 DEF ShellInv, TypeOK, SessionsOK, SessionRows
    <3>4. \A k \in K : command[k].revision \in 0 .. session[e.session].command_revision
      BY <3>2, <3>3 DEF Rows, ShellInv, LogInv, LogContiguous, TypeOK, CommandsOK,
                         CommandRows
    <3>5. T \subseteq 0 .. session[e.session].command_revision /\ T # {}
      BY <3>1, <3>4
    <3>6. \E x \in T : \A y \in T : y <= x
      <4> HIDE DEF T
      <4> QED BY <3>3, <3>5, LatestRevision
    <3>7. \E k \in K : \A j \in K : command[j].revision <= command[k].revision
      BY <3>6
    <3> QED BY <3>7
  <2>4. latest \in Rows(e.session, t) /\ command[latest].revision \in Nat
    <3> HIDE DEF latest
    <3> QED BY <2>3 DEF Rows, ShellInv, TypeOK, CommandsOK, CommandRows
  <2>5. n \in Nat /\ n \in {command[latest].revision, e.applied}
    <3> HIDE DEF latest
    <3> QED BY <2>4 DEF Fitting, ScreenRows
  <2>6. m \in States
    <3> HIDE DEF moves, last
    <3> QED BY DEF Fitting, ScreenRows, States
  <2>7. /\ w \in ScreenRows /\ w.applied = n /\ w.session = e.session
        /\ w.queue_revision = e.queue_revision /\ w.revision = e.revision
    <3> HIDE DEF n, m
    <3> QED BY <2>5, <2>6 DEF Fitting, ScreenRows
  <2>8. e.session # 0
    BY <2>4, ConstantAssumption DEF Rows, ShellInv, LogInv, RowsOwned, TypeOK, SessionsOK
  <2>9. BoundOK(w) /\ Received(w, t)
    <3> HIDE DEF n, w, latest
    <3> QED BY <2>4, <2>5, <2>7, <2>8 DEF Fitting, BoundOK, Received
  <2> HIDE DEF w
  <2> QED BY <2>1, <2>7, <2>9 DEF Fitting
<1> QED BY <1>1, <1>2

-----------------------------------------------------------------------------
(* ... step by step *)

LEMMA FittingAlike ==
    ASSUME NEW t, NEW e, Fitting(e, t), NEW w \in ScreenRows,
           w.session = e.session, w.queue_revision = e.queue_revision,
           w.applied = e.applied
    PROVE  Fitting(w, t)
BY DEF Fitting, BoundOK, Received

LEMMA EnteredState == \A state \in States : Entered(state) \in States
BY DEF Entered, States

LEMMA DarkScreen == Dark \in ScreenRows /\ Dark.session = 0 /\ Dark.applied = 0
<1>1. "ready" \in States
  BY DEF States
<1> QED BY <1>1 DEF Dark, ScreenRows

LEMMA DarkFits ==
    ASSUME NEW t, NEW n \in Nat
    PROVE  Fitting([Dark EXCEPT !.revision = n], t)
<1> DEFINE w == [Dark EXCEPT !.revision = n]
<1>1. Dark \in ScreenRows /\ Dark.session = 0 /\ Dark.applied = 0
  BY DarkScreen
<1>2. w \in ScreenRows /\ w.session = 0 /\ w.applied = 0
  BY <1>1 DEF ScreenRows
<1> HIDE DEF w
<1>3. Fitting(w, t)
  BY <1>2 DEF Fitting, BoundOK, Received
<1> QED BY <1>3 DEF w

\* A shell that the inbox binds to session s.
LEMMA BoundFits ==
    ASSUME ShellInv, NEW t, NEW e, Fitting(e, t), NEW s \in DOMAIN session
    PROVE  Fitting(Bound(e, s), t)
<1> DEFINE w == [e EXCEPT !.session = s, !.item = session[s].item,
                          !.state = Entered(session[s].state), !.confirmed = FALSE,
                          !.queue_revision = session[s].queue_revision,
                          !.applied = 0, !.changed = TRUE]
<1>1. Bound(e, s) = IF e.session = s THEN e ELSE w
  BY DEF Bound
<1>2. s \in Nat /\ session[s] \in SessionRows
  BY ConstantAssumption DEF ShellInv, TypeOK, SessionsOK
<1>3. Entered(session[s].state) \in States /\ session[s].item \in Items
      /\ session[s].queue_revision \in Nat
  BY <1>2, EnteredState DEF SessionRows
<1>4. /\ w \in ScreenRows /\ w.session = s /\ w.applied = 0
      /\ w.queue_revision = session[s].queue_revision
  BY <1>2, <1>3 DEF Fitting, ScreenRows
<1>5. Fitting(w, t)
  <2> HIDE DEF w
  <2> QED BY <1>3, <1>4 DEF Fitting, BoundOK, Received
<1> HIDE DEF w
<1> QED BY <1>1, <1>5

\* A shell that carries out the decision of reconcile_endpoint().
LEMMA AnsweredFits ==
    ASSUME ShellInv, NEW t \in Shells, NEW e, Fitting(e, t),
           e.session \in DOMAIN session, e.session # 0
    PROVE  Fitting(Answered(e, e.session, t), t)
<1> DEFINE s == e.session
           r == session[s]
           upTo == Accepted(s, t, e.applied, Observed(e))
           done == [e EXCEPT !.revision = @ + 1, !.changed = FALSE, !.doing = "nothing"]
           K == Unsettled(s, t, upTo)
           replayed == Played(done, K)
           loaded == [done EXCEPT !.item = r.item, !.state = Entered(r.state),
                                  !.confirmed = FALSE, !.queue_revision = r.queue_revision,
                                  !.changed = TRUE]
           differs == replayed.state # e.state \/ replayed.applied # e.applied
           w == [replayed EXCEPT !.changed = differs]
<1>1. Answered(e, s, t) \in {done, loaded, w}
  BY DEF Answered
<1>2. r \in SessionRows
  BY DEF ShellInv, TypeOK, SessionsOK
<1>3. done \in ScreenRows /\ done.session = s /\ done.applied = e.applied
      /\ done.queue_revision = e.queue_revision
  <2>1. e \in ScreenRows /\ e.revision + 1 \in Nat
    BY DEF Fitting, ScreenRows
  <2> QED BY <2>1 DEF ScreenRows
<1>4. Fitting(done, t)
  <2> HIDE DEF done
  <2> QED BY <1>3, FittingAlike
<1>5. Fitting(loaded, t)
  <2>1. r.item \in Items /\ Entered(r.state) \in States /\ r.queue_revision \in Nat
    BY <1>2, EnteredState DEF SessionRows
  <2>2. /\ loaded \in ScreenRows /\ loaded.session = s /\ loaded.applied = e.applied
        /\ loaded.queue_revision = r.queue_revision
    <3> HIDE DEF done, r
    <3> QED BY <1>3, <2>1 DEF ScreenRows
  <2> HIDE DEF loaded, done
  <2> QED BY <2>1, <2>2 DEF Fitting, BoundOK, Received
<1>6. Fitting(w, t)
  <2>1. K \subseteq Rows(s, t)
    BY DEF Unsettled, Pending, Rows
  <2>2. Fitting(replayed, t)
    <3> HIDE DEF done, K
    <3> QED BY <1>3, <1>4, <2>1, PlayedFits
  <2>3. differs \in BOOLEAN
    OBVIOUS
  <2>4. /\ w \in ScreenRows /\ w.session = replayed.session
        /\ w.applied = replayed.applied
        /\ w.queue_revision = replayed.queue_revision
    <3> HIDE DEF replayed, differs
    <3> QED BY <2>2, <2>3 DEF Fitting, ScreenRows
  <2> HIDE DEF w, replayed
  <2> QED BY <2>2, <2>4, FittingAlike
<1> HIDE DEF done, loaded, w
<1> QED BY <1>1, <1>4, <1>5, <1>6

\* A step of a shell leaves another shell as it is and its own screen fitting.
LEMMA ShellFits ==
    ASSUME ShellInv, NEW t \in Shells, ShellStep(t)
    PROVE  \E w : Fitting(w, t) /\ screen' = [screen EXCEPT ![t] = w]
<1> DEFINE e == screen[t]
           Doing(d) == [e EXCEPT !.doing = d]
<1>0. /\ screen \in [Shells -> ScreenRows] /\ Fitting(e, t)
      /\ screen' = screen => screen' = [screen EXCEPT ![t] = e]
  BY DEF ShellInv, ScreensOK, Fitting
<1>1. ASSUME NEW f, Fitting(f, t),
             NEW d \in {"nothing", "poll", "pull", "report"}
      PROVE  Fitting([f EXCEPT !.doing = d], t)
  <2> DEFINE w == [f EXCEPT !.doing = d]
  <2>1. /\ w \in ScreenRows /\ w.session = f.session
        /\ w.queue_revision = f.queue_revision /\ w.applied = f.applied
    BY <1>1 DEF Fitting, ScreenRows
  <2> HIDE DEF w
  <2>2. Fitting(w, t)
    BY <1>1, <2>1, FittingAlike
  <2> QED BY <2>2 DEF w
<1>2. ASSUME NEW d \in {"nothing", "poll", "pull", "report"},
             screen' = [screen EXCEPT ![t].doing = d]
      PROVE  \E w : Fitting(w, t) /\ screen' = [screen EXCEPT ![t] = w]
  <2>1. Fitting(Doing(d), t)
    BY <1>0, <1>1
  <2>2. screen' = [screen EXCEPT ![t] = Doing(d)]
    BY <1>2
  <2> QED BY <2>1, <2>2
<1>3. CASE SendPoll(t) \/ SendPull(t) \/ SendReport(t)
  <2>1. \E d \in {"nothing", "poll", "pull", "report"} :
           screen' = [screen EXCEPT ![t].doing = d]
    BY <1>3 DEF SendPoll, SendPull, SendReport, Send
  <2> QED BY <1>2, <2>1
<1>4. CASE Poll(t)
  BY <1>0, <1>4 DEF Poll
<1>5. CASE PollReply(t)
  <2> DEFINE s == CHOOSE s \in Assignment(t) : TRUE
             f == IF Assignment(t) = {} THEN e ELSE Bound(e, s)
             d == IF call'[t].pc = "idle" THEN "nothing" ELSE "poll"
  <2>1. screen' = [screen EXCEPT ![t] = [f EXCEPT !.doing = d]]
    BY <1>5 DEF PollReply
  <2>2. Fitting(f, t)
    <3>1. Assignment(t) # {} => s \in DOMAIN session
      BY DEF Assignment, Assignable
    <3> HIDE DEF e, s
    <3> QED BY <1>0, <3>1, BoundFits
  <2>3. d \in {"nothing", "poll", "pull", "report"}
    OBVIOUS
  <2> HIDE DEF f, d
  <2> QED BY <1>1, <2>1, <2>2, <2>3
<1>6. CASE Reattach(t)
  <2>1. \E d \in {"nothing", e.doing} : screen' = [screen EXCEPT ![t].doing = d]
    BY <1>6 DEF Reattach
  <2>2. e.doing \in {"nothing", "poll", "pull", "report"}
    BY <1>0 DEF ScreenRows
  <2> QED BY <1>2, <2>1, <2>2
<1>7. CASE PullTimers(t)
  BY <1>2, <1>7 DEF PullTimers
<1>8. CASE Pull(t)
  <2> DEFINE K == {k \in Rows(e.session, t) : command[k].revision > e.applied}
             f == Played(e, K)
  <2>1. screen' = [screen EXCEPT ![t] = [f EXCEPT !.doing = "nothing"]]
    BY <1>8 DEF Pull
  <2>2. Fitting(f, t)
    BY <1>0, PlayedFits
  <2> HIDE DEF f
  <2> QED BY <1>1, <2>1, <2>2
<1>9. CASE Confirm(t)
  <2> DEFINE w == [e EXCEPT !.state = "playing", !.confirmed = TRUE, !.changed = TRUE]
  <2>1. screen' = [screen EXCEPT ![t] = w]
    BY <1>9 DEF Confirm
  <2>2. /\ w \in ScreenRows /\ w.session = e.session
        /\ w.queue_revision = e.queue_revision /\ w.applied = e.applied
    <3>1. "playing" \in States
      BY DEF States
    <3> HIDE DEF e
    <3> QED BY <1>0, <3>1 DEF Fitting, ScreenRows
  <2> HIDE DEF w
  <2> QED BY <1>0, <2>1, <2>2, FittingAlike
<1>10. CASE MediaEnd(t)
  <2> DEFINE w == [e EXCEPT !.state = "ended", !.changed = TRUE]
  <2>1. screen' = [screen EXCEPT ![t] = w]
    BY <1>10 DEF MediaEnd
  <2>2. /\ w \in ScreenRows /\ w.session = e.session
        /\ w.queue_revision = e.queue_revision /\ w.applied = e.applied
    <3>1. "ended" \in States
      BY DEF States, Detached
    <3> HIDE DEF e
    <3> QED BY <1>0, <3>1 DEF Fitting, ScreenRows
  <2> HIDE DEF w
  <2> QED BY <1>0, <2>1, <2>2, FittingAlike
<1>11. CASE Report(t)
  <2>1. /\ screen' = [screen EXCEPT ![t] = Answered(e, e.session, t)]
        /\ e.session \in DOMAIN session
    BY <1>11 DEF Report, Reconcile
  <2>2. e.session # 0
    BY <2>1, ConstantAssumption DEF ShellInv, TypeOK, SessionsOK
  <2> QED BY <1>0, <2>1, <2>2, AnsweredFits
<1>12. CASE ReportRefused(t)
  <2>1. screen' = [screen EXCEPT ![t] = [Dark EXCEPT !.revision = e.revision]]
    BY <1>12 DEF ReportRefused
  <2>2. e.revision \in Nat
    BY <1>0 DEF ScreenRows
  <2> QED BY <2>1, <2>2, DarkFits
<1> QED BY <1>3, <1>4, <1>5, <1>6, <1>7, <1>8, <1>9, <1>10, <1>11, <1>12 DEF ShellStep

LEMMA ScreenStep ==
    ASSUME ShellInv, AnyReport, [ShellNext]_allVars
    PROVE  ScreensOK'
<1>0. [Next]_vars
  BY ShellNextIsNext
<1>1. /\ screen \in [Shells -> ScreenRows]
      /\ \A t \in Shells : Fitting(screen[t], t)
  BY DEF ShellInv, ScreensOK, Fitting
<1>2. ASSUME screen' \in [Shells -> ScreenRows],
             \A t \in Shells : Fitting(screen'[t], t)
      PROVE  ScreensOK'
  <2>1. ASSUME NEW t \in Shells
        PROVE  BoundOK(screen[t])' /\ Received(screen[t], t)'
    <3> DEFINE e == screen'[t]
    <3>1. Fitting(e, t)
      BY <1>2
    <3> HIDE DEF e
    <3>2. /\ \/ e.session \in DOMAIN session'
             \/ e.session = 0
          /\ e.session = 0 => e.applied = 0
          /\ e.session # 0 => e.queue_revision <= session'[e.session].queue_revision
      BY <1>0, <3>1, FittingStays DEF BoundOK
    <3>3. e.applied # 0 => \E k \in DOMAIN command' :
              /\ command'[k].session = e.session /\ command'[k].target = t
              /\ command'[k].revision = e.applied
      BY <1>0, <3>1, FittingStays DEF Received, Rows
    <3> QED BY <3>2, <3>3 DEF e, BoundOK, Received, Rows
  <2> QED BY <1>2, <2>1 DEF ScreensOK
<1>3. ASSUME NEW t \in Shells, ShellStep(t) PROVE ScreensOK'
  <2>1. PICK w : Fitting(w, t) /\ screen' = [screen EXCEPT ![t] = w]
    BY <1>3, ShellFits
  <2>2. w \in ScreenRows
    BY <2>1 DEF Fitting
  <2> QED BY <1>1, <1>2, <2>1, <2>2
<1>4. CASE screen' = screen
  BY <1>1, <1>2, <1>4
<1> QED BY <1>3, <1>4 DEF ShellNext, ControlStep, allVars

LEMMA ShellInvStep ==
    ASSUME AnyReport
    PROVE  ShellInv /\ [ShellNext]_allVars => ShellInv'
BY ShellNextIsNext, ScreenStep, TypeStep, LogStep DEF ShellInv

LEMMA ShellInvInit == ShellInit => ShellInv
<1> SUFFICES ASSUME ShellInit PROVE ShellInv
  OBVIOUS
<1>1. TypeOK /\ LogInv
  BY TypeInit DEF ShellInit, Init, LogInv, RowsOwned, TimerFresh, LogContiguous
<1>3. ScreensOK
  BY DarkScreen DEF ShellInit, ScreensOK, BoundOK, Received
<1> QED BY <1>1, <1>3 DEF ShellInv

-----------------------------------------------------------------------------
(* Acknowledgements *)

\* No command becomes applied.
NoneApplied ==
    \A k \in DOMAIN command :
        command[k].status = "pending" => command'[k].status # "applied"

LEMMA SendingKeeps ==
    ASSUME ShellInv, ObservedIssued, AckedPrefixSettled, Sending
    PROVE  AckedPrefixSettled' /\ NoneApplied
<1>0. /\ \A s \in DOMAIN session : /\ session[s].observed \in Nat
                                   /\ session[s].command_revision \in Nat
                                   /\ session[s].observed <= session[s].command_revision
      /\ \A k \in DOMAIN command : /\ command[k] \in CommandRows
                                   /\ command[k].session \in DOMAIN session
                                   /\ command[k].revision \in Nat
                                   /\ command[k].status = "pending" =>
                                         command[k].revision
                                            > session[command[k].session].observed
  BY DEF ShellInv, TypeOK, SessionsOK, SessionRows, ObservedIssued, CommandsOK, CommandRows,
         LogInv, RowsOwned, AckedPrefixSettled
<1>1. CASE Quiet
  BY <1>0, <1>1 DEF Quiet, AckedPrefixSettled, NoneApplied
<1>2. ASSUME NEW p \in Callers, NEW a \in Actors, NEW key \in Keys,
             NEW kind \in Commands, NEW t \in Targets \cup {NoTarget},
             NEW seconds \in Nat, Command(p, a, key, kind, t, seconds)
      PROVE  AckedPrefixSettled' /\ NoneApplied
  <2> DEFINE s == call[p].session
             x == ClientKey(key)
  <2>1. CommandEffects(s, a, x, kind)
    BY <1>2, CommandEffect DEF ShellInv
  <2>2. \A k \in DOMAIN command :
           /\ command'[k].session = command[k].session
           /\ command'[k].revision = command[k].revision
           /\ command'[k].status \in {command[k].status, "superseded"}
    BY <1>0, <2>1 DEF CommandEffects, Coalesced, CommandRows
  <2> HIDE DEF s, x
  <2>3. \A r \in DOMAIN session : session'[r].observed = session[r].observed
    BY <2>1 DEF CommandEffects
  <2>4. /\ command'[x].session = s
        /\ command'[x].revision = session[s].command_revision + 1
    BY <2>1 DEF CommandEffects, Row
  <2>5. DOMAIN command' = DOMAIN command \cup {x} /\ s \in DOMAIN session
    BY <2>1 DEF CommandEffects
  <2> QED BY <1>0, <2>2, <2>3, <2>4, <2>5 DEF AckedPrefixSettled, NoneApplied
<1>3. ASSUME NEW p \in Callers, ApplyDueSleepTimers(p)
      PROVE  AckedPrefixSettled' /\ NoneApplied
  <2> DEFINE K == [s \in DueSessions |-> SleepKey(s, session[s].timer)]
  <2>1. /\ DueSessions \subseteq DOMAIN session
        /\ DOMAIN session' = DOMAIN session
        /\ \A s \in DOMAIN session \ DueSessions : session'[s] = session[s]
        /\ \A s \in DueSessions : session'[s].observed = session[s].observed
        /\ DOMAIN command' = DOMAIN command \cup {K[s] : s \in DueSessions}
        /\ \A s \in DueSessions :
              command'[K[s]] = Row(s, session[s].target, SystemActor, "pause",
                                   session[s].command_revision + 1)
        /\ \A k \in DOMAIN command : command'[k] = command[k]
    BY <1>3, TimersEffect DEF ShellInv, LogInv
  <2> HIDE DEF K
  <2>2. \A s \in DueSessions :
           /\ command'[K[s]].session = s
           /\ command'[K[s]].revision = session[s].command_revision + 1
    <3>1. ASSUME NEW s \in DueSessions
          PROVE  /\ command'[K[s]].session = s
                 /\ command'[K[s]].revision = session[s].command_revision + 1
      <4>1. command'[K[s]] = Row(s, session[s].target, SystemActor, "pause",
                                 session[s].command_revision + 1)
        BY <2>1
      <4> QED BY <4>1 DEF Row
    <3> QED BY <3>1
  <2>3. \A r \in DOMAIN session : session'[r].observed = session[r].observed
    BY <2>1
  <2> QED BY <1>0, <2>1, <2>2, <2>3 DEF AckedPrefixSettled, NoneApplied
<1> QED BY <1>1, <1>2, <1>3 DEF Sending

\* An accepted acknowledgement reaches from what was observed to what its shell
\* applied, through rows that were sent to this shell: had a row in between been
\* sent to another, the shell's would not be contiguous.
LEMMA AcceptedAreOwn ==
    ASSUME ShellInv, NEW t \in Shells, Report(t),
           NEW k \in DOMAIN command, command[k].session = screen[t].session,
           command[k].revision > session[screen[t].session].observed,
           command[k].revision
              <= Accepted(screen[t].session, t, screen[t].applied, Observed(screen[t]))
    PROVE  command[k].target = t /\ command[k].revision <= screen[t].applied
<1> DEFINE e == screen[t]
           s == e.session
           r == session[s]
           rows == AcknowledgedRows(s, t, e.applied)
           n == command[k].revision
<1>0. /\ s \in DOMAIN session /\ r.observed \in Nat /\ n \in Nat
      /\ e.applied \in Nat /\ Received(e, t)
  BY DEF Report, Reconcile, ShellInv, TypeOK, SessionsOK, SessionRows, CommandsOK,
         CommandRows, ScreensOK, ScreenRows
<1>1. /\ Accepted(s, t, e.applied, Observed(e)) = e.applied
      /\ e.applied > r.observed /\ Contiguous(s, rows)
  BY <1>0 DEF Accepted
<1>2. n \in r.observed + 1 .. e.applied
  BY <1>0, <1>1
<1>3. PICK k0 \in Rows(s, t) : command[k0].revision = e.applied
  BY <1>0, <1>1 DEF Received
<1>4. k0 \in rows
  BY <1>0, <1>1, <1>3 DEF AcknowledgedRows, Rows
<1>5. PICK j \in rows : command[j].revision = n
  <2> HIDE DEF e, rows, n, r
  <2> QED BY <1>1, <1>2, <1>3, <1>4 DEF Contiguous, r
<1>6. /\ j \in DOMAIN command /\ command[j].session = s /\ command[j].target = t
  BY <1>5 DEF AcknowledgedRows
<1>7. j = k
  BY <1>0, <1>5, <1>6 DEF ShellInv, LogInv, LogContiguous
<1> QED BY <1>1, <1>6, <1>7

LEMMA ReportKeeps ==
    ASSUME ShellInv, ObservedIssued, AckedPrefixSettled, AnyReport,
           NEW t \in Shells, Report(t)
    PROVE  /\ AckedPrefixSettled'
           /\ \A k \in DOMAIN command :
                 command[k].status = "pending" /\ command'[k].status = "applied" =>
                    /\ command[k].target = t
                    /\ screen[t].session = command[k].session
                    /\ screen[t].applied >= command[k].revision
<1> DEFINE e == screen[t]
           s == e.session
           upTo == Accepted(s, t, e.applied, Observed(e))
<1>0. /\ \A k \in DOMAIN command : /\ command[k] \in CommandRows
                                   /\ command[k].session \in DOMAIN session
                                   /\ command[k].revision \in Nat
                                   /\ command[k].status = "pending" =>
                                         command[k].revision
                                            > session[command[k].session].observed
  BY DEF ShellInv, TypeOK, SessionsOK, CommandsOK, CommandRows,
         LogInv, RowsOwned, AckedPrefixSettled
<1>1. /\ s = call[t].session /\ t \in Targets /\ t \in Callers
      /\ Reconcile(t, t, e.revision + 1, e.applied, Observed(e), "endpoint_preferred")
  BY DEF Report, Shells
<1>2. e.revision + 1 \in Nat /\ e.applied \in Nat
  BY DEF ShellInv, ScreensOK, ScreenRows
<1>3. /\ s \in DOMAIN session /\ DOMAIN session' = DOMAIN session
      /\ \A r \in DOMAIN session : r # s => session'[r] = session[r]
      /\ session'[s].observed = upTo
      /\ command' = Settled(s, t, upTo)
  <2> HIDE DEF e
  <2> QED BY <1>1, <1>2, ReconcileEffect DEF ShellInv
<1>4. upTo \in Nat
  BY <1>2, <1>3 DEF Accepted, ShellInv, TypeOK, SessionsOK, SessionRows
<1>5. ASSUME NEW k \in DOMAIN command
      PROVE  /\ command'[k].session = command[k].session
             /\ command'[k].revision = command[k].revision
             /\ command'[k].status # command[k].status =>
                   k \in Pending(s, t) /\ command[k].revision <= upTo
             /\ k \in Pending(s, t) /\ command[k].revision <= upTo =>
                   command'[k].status = "applied"
  <2>1. command'[k] = IF k \in Pending(s, t) /\ command[k].revision <= upTo
                      THEN [command[k] EXCEPT !.status = "applied"] ELSE command[k]
    BY <1>3 DEF Settled
  <2> HIDE DEF e, s, upTo
  <2> QED BY <1>0, <2>1 DEF CommandRows
<1>6. ASSUME NEW k \in DOMAIN command, command[k].session = s,
             command[k].status = "pending", command[k].revision <= upTo
      PROVE  command[k].target = t /\ command[k].revision <= e.applied
  BY <1>0, <1>6, AcceptedAreOwn
<1>7. DOMAIN command' = DOMAIN command
  BY <1>3 DEF Settled
<1>8. AckedPrefixSettled'
  <2>1. ASSUME NEW k \in DOMAIN command, command'[k].status = "pending"
        PROVE  command[k].revision > session'[command[k].session].observed
    <3>1. command[k].status = "pending"
      BY <1>5, <2>1
    <3>2. CASE command[k].session # s
      BY <1>0, <1>3, <3>1, <3>2
    <3>3. CASE command[k].session = s
      <4>1. ~(command[k].revision <= upTo)
        <5>1. k \in Pending(s, t) \/ ~(command[k].revision <= upTo)
          BY <1>6, <3>1, <3>3 DEF Pending
        <5> HIDE DEF upTo, s
        <5> QED BY <1>5, <2>1, <5>1
      <4> HIDE DEF upTo, s
      <4> QED BY <1>0, <1>3, <1>4, <3>3, <4>1
    <3> QED BY <3>2, <3>3
  <2> QED BY <1>5, <1>7, <2>1 DEF AckedPrefixSettled
<1>9. ASSUME NEW k \in DOMAIN command, command[k].status = "pending",
             command'[k].status = "applied"
      PROVE  /\ command[k].target = t /\ e.session = command[k].session
             /\ e.applied >= command[k].revision
  <2>1. k \in Pending(s, t) /\ command[k].revision <= upTo
    BY <1>5, <1>9
  <2>2. command[k].session = s
    BY <2>1 DEF Pending
  <2>3. command[k].revision <= e.applied /\ command[k].target = t
    BY <1>6, <1>9, <2>1, <2>2
  <2> QED BY <1>0, <1>2, <2>2, <2>3
<1> QED BY <1>8, <1>9

PrefixOfShells == ShellInv /\ ObservedIssued /\ AckedPrefixSettled

\* What DeliveredBeforeSettled says of one step.
SettledDelivered ==
    \A k \in DOMAIN command :
        command[k].status = "pending" /\ command'[k].status = "applied" =>
           /\ command[k].target \in Shells
           /\ screen[command[k].target].session = command[k].session
           /\ screen[command[k].target].applied >= command[k].revision

LEMMA PrefixShellStep ==
    ASSUME AnyReport
    PROVE  PrefixOfShells /\ [ShellNext]_allVars => PrefixOfShells' /\ SettledDelivered
<1> SUFFICES ASSUME PrefixOfShells, [ShellNext]_allVars
             PROVE  PrefixOfShells' /\ SettledDelivered
  OBVIOUS
<1>1. ShellInv' /\ ObservedIssued'
  BY ShellInvStep, ShellNextIsNext, ObservedStep DEF PrefixOfShells, ShellInv, LogInv
<1>2. CASE Sending
  BY <1>1, <1>2, SendingKeeps DEF PrefixOfShells, NoneApplied, SettledDelivered
<1>3. ASSUME NEW t \in Shells, Report(t)
      PROVE  AckedPrefixSettled' /\ SettledDelivered
  BY <1>3, ReportKeeps DEF PrefixOfShells, SettledDelivered
<1> QED BY <1>1, <1>2, <1>3, SendingOrReport DEF PrefixOfShells

LEMMA PrefixShellInit == ShellInit => PrefixOfShells
<1>1. ShellInit => ObservedIssued /\ AckedPrefixSettled
  BY DEF ShellInit, Init, ObservedIssued, AckedPrefixSettled
<1> QED BY <1>1, ShellInvInit DEF PrefixOfShells

-----------------------------------------------------------------------------
(* The theorems *)

\* The control plane with its shells takes only steps of the control plane: a
\* shell names sessions that exist, acknowledges commands that were issued, and
\* reports a queue its session has had.  So what is proved of MediaControl, with
\* any endpoints, holds with these.
THEOREM ShellsAreEndpoints ==
    ASSUME AnyReport
    PROVE  ShellSpec => Spec
<1>1. ShellInit => Init /\ ShellInv
  BY ShellInvInit DEF ShellInit
<1>2. ShellInv /\ [ShellNext]_allVars => ShellInv' /\ [Next]_vars
  BY ShellInvStep, ShellNextIsNext
<1> QED BY <1>1, <1>2, PTL DEF ShellSpec, Spec

\* As shells acknowledge only what they have applied, an acknowledged prefix is
\* settled even when handoffs spread the commands of a session over several
\* endpoints: a report that would jump over another endpoint's command is not
\* contiguous and acknowledges nothing.
THEOREM ShellsKeepPrefixSettled ==
    ASSUME AnyReport
    PROVE  ShellSpec => []AckedPrefixSettled
<1>1. PrefixOfShells => AckedPrefixSettled
  BY DEF PrefixOfShells
<1>2. PrefixOfShells /\ [ShellNext]_allVars => PrefixOfShells'
  BY PrefixShellStep
<1> QED BY <1>1, <1>2, PrefixShellInit, PTL DEF ShellSpec

\* A report settles only what its shell has received and applied, whatever
\* handoffs take the session from shell to shell and back.
THEOREM SettledAreDelivered ==
    ASSUME AnyReport
    PROVE  ShellSpec => DeliveredBeforeSettled
<1>1. PrefixOfShells /\ [ShellNext]_allVars => PrefixOfShells' /\ SettledDelivered
  BY PrefixShellStep
<1>2. SettledDelivered =>
         [\A k \in DOMAIN command :
             command[k].status = "pending" /\ command'[k].status = "applied" =>
                /\ command[k].target \in Shells
                /\ screen[command[k].target].session = command[k].session
                /\ screen[command[k].target].applied >= command[k].revision]_allVars
  BY DEF SettledDelivered
<1> QED BY <1>1, <1>2, PrefixShellInit, PTL DEF ShellSpec, DeliveredBeforeSettled

=============================================================================
