---------------------------- MODULE MediaControl ----------------------------
(***************************************************************************)
(* The control plane of Media Center playback                              *)
(* (skills/media_control_skill): playback targets, sessions, revisioned    *)
(* queues, the idempotent command log, control leases, sleep timers and    *)
(* the reconciliation of what endpoints report.                            *)
(*                                                                         *)
(* Every tool call opens the SQLite repository, which first runs the       *)
(* repair of the one-session-per-target rule (Open), and then runs its own *)
(* transactions.  Calls of several callers interleave between these        *)
(* transactions.  A call that fails one of its checks, and a tool that     *)
(* only reads, ends in Return.                                             *)
(*                                                                         *)
(* A definition marked "Variant" is the next one with a defect a change of *)
(* the code could bring in; nothing uses it but the runs that show which   *)
(* property detects the defect.                                            *)
(***************************************************************************)
EXTENDS Integers, Sequences

CONSTANTS
    Callers,        \* concurrent tool calls
    Sessions,       \* session ids, numbers in the order of created_at
    Targets,        \* playback targets
    Actors,         \* controllers that may hold a control lease
    Keys,           \* idempotency keys of client commands
    Commands,       \* command tokens the controllers send
    Items,          \* queue members
    Missing,        \* the members that are not available
    Queues,         \* the queues controllers submit
    Reports,        \* transport states endpoints report
    Outcomes,       \* statuses endpoints acknowledge a single command with
    Authorities,    \* reconciliation authorities endpoints ask for
    LeaseTerm,      \* length of a control lease
    Freshness,      \* age up to which a target counts as available
    SleepFor,       \* delay of a sleep timer
    MaxTime,        \* bound: last value of the clock
    MaxRevision,    \* bound: last revision of a session that calls build on
    MaxEndpointRevision \* bound: last revision of an endpoint observation

AllCommands == {"play", "pause", "stop", "seek", "mute", "rate", "tracks",
                "volume", "presentation", "next", "previous", "sleep_timer",
                "handoff"}

\* Sessions in these states are no longer attached to their endpoint.
Detached == {"ended", "error", "failed", "superseded"}

States == Detached \cup {"requested", "ready", "loading", "buffering",
                         "playing", "paused", "stopped", "recovering"}

NoItem == "none"
NoTarget == "none"
NoActor == "none"
SystemActor == "system:sleep_timer"

ASSUME ConstantAssumption ==
    /\ \A s \in Sessions : s \in Nat /\ s > 0
    /\ Commands \subseteq AllCommands
    /\ Reports \subseteq States
    /\ Authorities \subseteq {"endpoint_preferred", "coordinator_preferred"}
    /\ Outcomes \subseteq {"applied", "rejected", "failed"}
    /\ Missing \subseteq Items
    /\ NoItem \notin Items /\ NoTarget \notin Targets
    /\ NoActor \notin Actors /\ SystemActor \notin Actors
    /\ LeaseTerm \in Nat /\ LeaseTerm > 0 /\ Freshness \in Nat /\ SleepFor \in Nat /\ SleepFor > 0
    /\ MaxTime \in Nat /\ MaxRevision \in Nat /\ MaxEndpointRevision \in Nat

ASSUME QueueAssumption ==
    \A q \in Queues : q \in Seq(Items) /\ q # <<>>

VARIABLES
    now,          \* wall clock, in seconds
    target,       \* registered target -> last_seen_at
    session,      \* created session -> its row
    newer,        \* pairs of sessions, the more recently touched one first
    command,      \* idempotency key -> command row
    observation,  \* recorded endpoint observations
    call          \* what each caller is about to do

vars == <<now, target, session, newer, command, observation, call>>

-----------------------------------------------------------------------------
(* Rows.  A client command is keyed by the key its sender chose, the pause  *)
(* of a sleep timer by its session and deadline.                            *)

ClientKey(k) == <<"client", k, 0>>
SleepKey(s, deadline) == <<"sleep-expire", s, deadline>>

Put(f, x, v) == [y \in DOMAIN f \cup {x} |-> IF y = x THEN v ELSE f[y]]

\* What a controller reads of a session before it acts on it.
View(s) == [revision |-> session[s].revision,
            queue_revision |-> session[s].queue_revision,
            target |-> session[s].target, item |-> session[s].item,
            state |-> session[s].state]

NoView == [revision |-> 0, queue_revision |-> 0, target |-> NoTarget,
           item |-> NoItem, state |-> "superseded"]

\* A call: its next transaction, the session and target it names, its view.
Idle == [pc |-> "idle", session |-> 0, target |-> NoTarget, view |-> NoView]

Init ==
    /\ now = 1
    /\ target = [t \in {} |-> 0]
    /\ session = [s \in {} |-> 0]
    /\ newer = {}
    /\ command = [k \in {} |-> 0]
    /\ observation = {}
    /\ call = [p \in Callers |-> Idle]

-----------------------------------------------------------------------------
(* Helpers on sessions *)

Attached(s) == session[s].state \notin Detached

Available(t) == t \in DOMAIN target /\ now - target[t] <= Freshness

\* Variant: the expiry is compared the wrong way round.
LeaseAllowsLive(s, a) ==
    session[s].holder \in {NoActor, a} \/ session[s].lease > now

LeaseAllows(s, a) ==
    \/ session[s].holder \in {NoActor, a}
    \/ session[s].lease <= now

Pending(s, t) ==
    {k \in DOMAIN command : /\ command[k].session = s
                            /\ command[k].target = t
                            /\ command[k].status = "pending"}

\* The sort key of the repair is endpoint_last_seen_at once a session has one,
\* and updated_at before: an observation moves a session to the front, another
\* write only a session never seen.  Superseding moves nothing that matters,
\* because the write that attaches such a session again moves it too.
Front(s) == {e \in newer : s \notin {e[1], e[2]}}
            \cup ({s} \X (DOMAIN session \ {s}))

TouchIfUnseen(s) == newer' = IF session[s].seen THEN newer ELSE Front(s)

Supersede(r) == [r EXCEPT !.state = "superseded", !.revision = @ + 1]

\* Variant: ties between sessions in like states are not broken.
PrecedesUnordered(s, r) ==
    \/ session[s].state # "stopped" /\ session[r].state = "stopped"
    \/ (session[s].state = "stopped") = (session[r].state = "stopped")

\* The order of the repair: stopped sessions last, then the latest touched.
Precedes(s, r) ==
    \/ session[s].state # "stopped" /\ session[r].state = "stopped"
    \/ /\ (session[s].state = "stopped") = (session[r].state = "stopped")
       /\ <<s, r>> \in newer

\* Every attached session but the first of its target.
Surplus ==
    {r \in DOMAIN session :
        /\ Attached(r)
        /\ \E s \in DOMAIN session \ {r} :
              /\ Attached(s)
              /\ session[s].target = session[r].target
              /\ Precedes(s, r)}

-----------------------------------------------------------------------------
(* The life of a call *)

\* reconcile_single_session_invariant(), at the end of ensure_schema().  The
\* session s is the one the call names (0: none); what its caller knows of the
\* session was read before this transaction and grows stale from here on.
Open(p, s) ==
    /\ call[p].pc = "idle"
    /\ s \in DOMAIN session \cup {0}
    /\ session' = [r \in DOMAIN session |->
                     IF r \in Surplus THEN Supersede(session[r]) ELSE session[r]]
    /\ call' = [call EXCEPT ![p] = [@ EXCEPT
                  !.pc = "open", !.session = s,
                  !.view = IF s = 0 THEN NoView ELSE View(s)]]
    /\ UNCHANGED <<now, target, newer, command, observation>>

Finish(p) == call[p].pc = "open" /\ call' = [call EXCEPT ![p] = Idle]

\* A read-only tool, or a call refused by one of its checks, the empty queue
\* of create_session() among them.
Return(p) ==
    /\ call[p].pc \in {"open", "create"}
    /\ call' = [call EXCEPT ![p] = Idle]
    /\ UNCHANGED <<now, target, session, newer, command, observation>>

-----------------------------------------------------------------------------
(* Targets and sessions *)

Register(t) == target' = Put(target, t, now)

RegisterTarget(p, t) ==
    /\ Finish(p)
    /\ call[p].session = 0
    /\ Register(t)
    /\ UNCHANGED <<now, session, newer, command, observation>>

\* create_session() reads the target before its transaction ...
CheckTarget(p, t) ==
    /\ call[p].pc = "open" /\ call[p].session = 0
    /\ Available(t)
    /\ call' = [call EXCEPT ![p] = [@ EXCEPT !.pc = "create", !.target = t]]
    /\ UNCHANGED <<now, target, session, newer, command, observation>>

\* ... open_endpoint_session() registers it instead.
OpenEndpointSession(p, t) ==
    /\ call[p].pc = "open" /\ call[p].session = 0
    /\ Register(t)
    /\ call' = [call EXCEPT ![p] = [@ EXCEPT !.pc = "create", !.target = t]]
    /\ UNCHANGED <<now, session, newer, command, observation>>

NewSession(t, a, q, i) ==
    [target |-> t, state |-> "requested", queue |-> q, index |-> i,
     item |-> q[i], revision |-> 1, queue_revision |-> 1,
     command_revision |-> 0, observed |-> 0, endpoint_revision |-> 0,
     seen |-> FALSE, confirmed |-> FALSE, timer |-> 0, holder |-> a,
     lease |-> now + LeaseTerm]

\* The transaction of create_session(): retire the target's sessions, insert.
CreateSession(p, s, a, q, i) ==
    LET t == call[p].target
        retired == {r \in DOMAIN session : Attached(r) /\ session[r].target = t}
    IN  /\ call[p].pc = "create"
        /\ s \notin DOMAIN session
        /\ \A r \in Sessions : r < s => r \in DOMAIN session
        /\ session' = Put([r \in DOMAIN session |->
                              IF r \in retired THEN Supersede(session[r])
                                               ELSE session[r]],
                          s, NewSession(t, a, q, i))
        /\ newer' = Front(s)
        /\ call' = [call EXCEPT ![p] = Idle]
        /\ UNCHANGED <<now, target, command, observation>>

-----------------------------------------------------------------------------
(* endpoint_inbox(): a registration, two reads and a write, each on its own *)

\* Variant: a stopped session stays although its last command is acknowledged.
AssignableAfterStop(t) ==
    {s \in DOMAIN session :
        /\ session[s].target = t
        /\ \/ session[s].state \notin Detached \cup {"stopped"}
           \/ session[s].command_revision >= session[s].observed}

\* The sessions the inbox may hand to target t; it returns the latest created.
Assignable(t) ==
    {s \in DOMAIN session :
        /\ session[s].target = t
        /\ \/ session[s].state \notin Detached \cup {"stopped"}
           \/ session[s].command_revision > session[s].observed}

InboxRegister(p, t) ==
    /\ call[p].pc = "open"
    /\ call[p].session # 0 =>
          \A r \in DOMAIN session \ {call[p].session} : session[r].revision < MaxRevision
    /\ Register(t)
    /\ call' = [call EXCEPT ![p] = [@ EXCEPT !.pc = "inbox", !.target = t]]
    /\ UNCHANGED <<now, session, newer, command, observation>>

\* Variant: an endpoint that knows no session resumes one.
InboxSelectAnyone(p) ==
    /\ call[p].pc = "inbox"
    /\ call' = [call EXCEPT ![p] =
                  IF Assignable(@.target) = {} THEN [@ EXCEPT !.pc = "resume"] ELSE Idle]
    /\ UNCHANGED <<now, target, session, newer, command, observation>>

InboxSelect(p) ==
    /\ call[p].pc = "inbox"
    /\ call' = [call EXCEPT ![p] =
                  IF Assignable(@.target) = {} /\ @.session # 0
                  THEN [@ EXCEPT !.pc = "resume"] ELSE Idle]
    /\ UNCHANGED <<now, target, session, newer, command, observation>>

InboxResumable(p) ==
    /\ call[p].pc = "resume"
    /\ call' = [call EXCEPT ![p] =
                  IF /\ @.session \in DOMAIN session
                     /\ session[@.session].target = @.target
                     /\ session[@.session].state \in {"stopped", "superseded"}
                  THEN [@ EXCEPT !.pc = "reattach"] ELSE Idle]
    /\ UNCHANGED <<now, target, session, newer, command, observation>>

InboxReattach(p) ==
    LET t == call[p].target
        known == call[p].session
        others == {r \in DOMAIN session \ {known} :
                      Attached(r) /\ session[r].target = t}
    IN  /\ call[p].pc = "reattach"
        /\ session' = [r \in DOMAIN session |->
                         IF r \in others THEN Supersede(session[r])
                         ELSE IF r = known
                              THEN [session[r] EXCEPT !.state = "stopped", !.seen = TRUE]
                              ELSE session[r]]
        /\ newer' = Front(known)
        /\ call' = [call EXCEPT ![p] = Idle]
        /\ UNCHANGED <<now, target, command, observation>>

-----------------------------------------------------------------------------
(* Commands *)

\* _next_available(): the nearest available member in the given direction.
Ahead(r, kind) ==
    {i \in DOMAIN r.queue :
        /\ r.queue[i] \notin Missing
        /\ IF kind = "next" THEN i > r.index ELSE i < r.index}

Nearest(S, kind) ==
    {i \in S : \A j \in S : IF kind = "next" THEN i <= j ELSE i >= j}

\* Variant: the index moves and the item stays.
SkipIndexOnly(r, kind) ==
    LET nearest == Nearest(Ahead(r, kind), kind)
    IN  IF nearest = {} THEN r ELSE [r EXCEPT !.index = CHOOSE i \in nearest : TRUE]

Skip(r, kind) ==
    LET nearest == Nearest(Ahead(r, kind), kind)
        i == CHOOSE i \in nearest : TRUE
    IN  IF nearest = {} THEN r      \* the queue boundary is a no-op
        ELSE [r EXCEPT !.index = i, !.item = r.queue[i],
                       !.state = IF @ \in {"requested", "playing", "loading",
                                           "buffering", "recovering"}
                                 THEN "playing" ELSE @]

\* _command_updates(): t is the handoff target, seconds the sleep delay.
Updated(r, kind, t, seconds) ==
    CASE kind = "play"  -> [r EXCEPT !.state = "playing"]
      [] kind = "pause" -> [r EXCEPT !.state = "paused"]
      [] kind = "stop"  -> [r EXCEPT !.state = "stopped"]
      [] kind \in {"next", "previous"} -> Skip(r, kind)
      [] kind = "sleep_timer" ->
            [r EXCEPT !.timer = IF seconds = 0 THEN 0 ELSE now + seconds]
      [] kind = "handoff" -> [r EXCEPT !.target = t, !.state = "recovering"]
      [] OTHER -> r     \* seek, volume, ...: data without control state

Row(s, t, a, kind, revision) ==
    [session |-> s, target |-> t, actor |-> a, kind |-> kind,
     revision |-> revision, status |-> "pending"]

\* Variant: volume commands pile up.
CoalescedPresentation(s, kind) ==
    [k \in DOMAIN command |->
        IF kind = "presentation" /\ k \in Pending(s, session[s].target)
           /\ command[k].kind = kind
        THEN [command[k] EXCEPT !.status = "superseded"]
        ELSE command[k]]

\* A newer volume or presentation command replaces the pending one.
Coalesced(s, kind) ==
    [k \in DOMAIN command |->
        IF /\ kind \in {"volume", "presentation"}
           /\ k \in Pending(s, session[s].target)
           /\ command[k].kind = kind
        THEN [command[k] EXCEPT !.status = "superseded"]
        ELSE command[k]]

\* Variant: only a caller that is ahead is refused.
ExpectedAtMost(p, r) == call[p].view.revision <= r.revision

\* The expected_revision of a call is the one its caller has seen.
Expected(p, r) == call[p].view.revision = r.revision

\* command(): a key already logged is an idempotent replay (Return).
Command(p, a, key, kind, t, seconds) ==
    LET s == call[p].session
        r == session[s]
        n == r.command_revision + 1
    IN  /\ Finish(p)
        /\ ClientKey(key) \notin DOMAIN command
        /\ s \in DOMAIN session
        /\ Expected(p, r)
        /\ LeaseAllows(s, a)
        /\ kind = "handoff" => Available(t)
        /\ session' = [session EXCEPT ![s] =
              [Updated(r, kind, t, seconds) EXCEPT
                  !.revision = r.revision + 1, !.command_revision = n,
                  !.holder = a, !.lease = now + LeaseTerm]]
        /\ TouchIfUnseen(s)
        /\ command' = Put(Coalesced(s, kind), ClientKey(key),
                          Row(s, r.target, a, kind, n))
        /\ UNCHANGED <<now, target, observation>>

\* update_queue(): the index is kept when the caller names none (0).
UpdateQueue(p, a, q, index) ==
    LET s == call[p].session
        r == session[s]
        wanted == IF index = 0 THEN r.index ELSE index
        i == IF wanted \in DOMAIN q THEN wanted ELSE Len(q)
        selected == index # 0 \/ q[i] # r.item
    IN  /\ Finish(p)
        /\ s \in DOMAIN session
        /\ r.revision < MaxRevision
        /\ call[p].view.queue_revision = r.queue_revision
        /\ LeaseAllows(s, a)
        /\ session' = [session EXCEPT ![s] =
              [r EXCEPT !.queue = q, !.index = i, !.item = q[i],
                        !.queue_revision = @ + 1, !.revision = @ + 1,
                        !.state = IF selected THEN "ready" ELSE @]]
        /\ TouchIfUnseen(s)
        /\ UNCHANGED <<now, target, command, observation>>

\* checkpoint(): neither the lease nor the endpoint is asked.
Checkpoint(p, state) ==
    LET s == call[p].session
        r == session[s]
    IN  /\ Finish(p)
        /\ s \in DOMAIN session
        /\ r.revision < MaxRevision
        /\ Expected(p, r)
        /\ session' = [session EXCEPT ![s] =
              [r EXCEPT !.state = state, !.revision = @ + 1]]
        /\ TouchIfUnseen(s)
        /\ UNCHANGED <<now, target, command, observation>>

\* acknowledge_command(): one pending row, whatever its place in the log.
AcknowledgeCommand(p, k, status) ==
    /\ Finish(p)
    /\ call[p].session = 0
    /\ k \in DOMAIN command
    /\ command[k].status = "pending"
    /\ command' = [command EXCEPT ![k].status = status]
    /\ UNCHANGED <<now, target, session, newer, observation>>

-----------------------------------------------------------------------------
(* apply_due_sleep_timers(), run by pull_commands(), now_playing() and on     *)
(* sys.ready.  The row is inserted with INSERT OR IGNORE.                   *)

Due(s) ==
    /\ session[s].timer > 0 /\ session[s].timer <= now
    /\ session[s].state \notin {"paused", "stopped", "ended", "superseded"}

\* Variant: the timer is not cleared.
SleptAgain(r) == [r EXCEPT !.state = "paused", !.revision = @ + 1,
                           !.command_revision = @ + 1]

\* Asleep, with its timer spent.
Slept(r) == [r EXCEPT !.state = "paused", !.timer = 0,
                      !.revision = @ + 1, !.command_revision = @ + 1]

DueSessions == {s \in DOMAIN session : Due(s)}

ApplyDueSleepTimers(p) ==
    LET keyOf(s) == SleepKey(s, session[s].timer)
        sessionOf(k) == CHOOSE s \in DueSessions : keyOf(s) = k
        pause(s) == Row(s, session[s].target, SystemActor, "pause",
                        session[s].command_revision + 1)
    IN  /\ Finish(p)
        /\ call[p].session = 0
        /\ DueSessions # {}
        /\ session' = [s \in DOMAIN session |->
              IF Due(s) THEN Slept(session[s]) ELSE session[s]]
        /\ command' = [k \in DOMAIN command \cup {keyOf(s) : s \in DueSessions} |->
              IF k \in DOMAIN command THEN command[k] ELSE pause(sessionOf(k))]
        /\ newer' = LET moved == {s \in DueSessions : ~session[s].seen}
                    IN  {e \in newer : e[1] \notin moved /\ e[2] \notin moved}
                        \cup (moved \X (DOMAIN session \ moved))
                        \cup {e \in moved \X moved :
                                 \/ session[e[1]].timer > session[e[2]].timer
                                 \/ /\ session[e[1]].timer = session[e[2]].timer
                                    /\ e[1] > e[2]}
        /\ UNCHANGED <<now, target, observation>>

-----------------------------------------------------------------------------
(* reconcile_endpoint() *)

\* Variant: the acknowledged revision itself is left out.
AcknowledgedRowsBelow(s, t, ack) ==
    {k \in DOMAIN command : /\ command[k].session = s
                            /\ command[k].target = t
                            /\ command[k].revision > session[s].observed
                            /\ command[k].revision < ack}

\* The rows _accepted_endpoint_acknowledgement() reads.
AcknowledgedRows(s, t, ack) ==
    {k \in DOMAIN command : /\ command[k].session = s
                            /\ command[k].target = t
                            /\ command[k].revision > session[s].observed
                            /\ command[k].revision <= ack}

\* Read in order, each revision is one above the one before.
Contiguous(s, rows) ==
    \A k \in rows : \A n \in session[s].observed + 1 .. command[k].revision :
        \E j \in rows : command[j].revision = n

\* Variant: a stop counts only at the end of the media.
StateMatchesEnded(kind, desired, reported) ==
    CASE kind = "play"  -> reported = "playing"
      [] kind = "pause" -> reported = "paused"
      [] kind = "stop"  -> reported = "ended"
      [] OTHER -> TRUE

\* The state an endpoint must be in to have carried out a command.
StateMatches(kind, desired, reported) ==
    CASE kind = "play"  -> reported = "playing"
      [] kind = "pause" -> reported = "paused"
      [] kind = "stop"  -> reported \in {"stopped", "ended"}
      [] kind \in {"next", "previous"} -> reported = desired
      [] OTHER -> TRUE

FinalKind(rows) ==
    command[CHOOSE k \in rows : \A j \in rows :
                command[j].revision <= command[k].revision].kind

Accepted(s, t, ack, obs) ==
    LET r == session[s]
        rows == AcknowledgedRows(s, t, ack)
    IN  IF /\ ack > r.observed
           /\ rows # {} /\ Contiguous(s, rows)
           /\ obs.item = r.item
           /\ StateMatches(FinalKind(rows), r.state, obs.state)
           /\ r.state = "playing" => obs.confirmed
        THEN ack ELSE r.observed

\* Variant: only the row of the acknowledged revision is settled.
SettledLast(s, t, upTo) ==
    [k \in DOMAIN command |->
        IF k \in Pending(s, t) /\ command[k].revision = upTo
        THEN [command[k] EXCEPT !.status = "applied"] ELSE command[k]]

\* Variant: an accepted report settles every command of its endpoint.
SettledAll(s, t, upTo) ==
    [k \in DOMAIN command |->
        IF k \in Pending(s, t) /\ session[s].observed < upTo
        THEN [command[k] EXCEPT !.status = "applied"] ELSE command[k]]

Settled(s, t, upTo) ==
    [k \in DOMAIN command |->
        IF k \in Pending(s, t) /\ command[k].revision <= upTo
        THEN [command[k] EXCEPT !.status = "applied"] ELSE command[k]]

\* The rows still to be replayed once upTo is accepted.
Unsettled(s, t, upTo) == {k \in Pending(s, t) : command[k].revision > upTo}

\* The lowest ordinal of an item, if the queue has it.
Ordinal(q, item) ==
    {i \in DOMAIN q : q[i] = item /\ \A j \in DOMAIN q : q[j] = item => i <= j}

\* The endpoint moved on within the admitted queue on its own.
AdvanceAccepted(s, t, upTo, obs, authority) ==
    /\ obs.item \notin {NoItem, session[s].item}
    /\ authority = "endpoint_preferred"
    /\ Unsettled(s, t, upTo) = {}
    /\ Ordinal(session[s].queue, obs.item) # {}
    /\ obs.queue_revision = session[s].queue_revision

\* Variant: a report overrides commands still to be replayed.
StateAcceptedEarly(s, t, upTo, obs, authority) ==
    obs.item \in {NoItem, session[s].item} /\ authority = "endpoint_preferred"

\* The endpoint's own transport state replaces the desired one.
StateAccepted(s, t, upTo, obs, authority) ==
    /\ obs.item \in {NoItem, session[s].item}
    /\ authority = "endpoint_preferred"
    /\ Unsettled(s, t, upTo) = {}

\* Variant: a report that was overtaken is taken all the same.
AdmittedLate(r, revision, ack) == ack <= r.command_revision

\* An observation is not older than the last, nor ahead of the commands.
Admitted(r, revision, ack) ==
    revision >= r.endpoint_revision /\ ack <= r.command_revision

Reconcile(p, t, revision, ack, obs, authority) ==
    LET s == call[p].session
        r == session[s]
        upTo == Accepted(s, t, ack, obs)
        seen == [r EXCEPT !.observed = upTo, !.endpoint_revision = revision,
                          !.seen = TRUE, !.confirmed = obs.confirmed]
    IN  /\ Finish(p)
        /\ t \in DOMAIN target
        /\ s \in DOMAIN session
        /\ r.target = t
        /\ <<s, t, revision>> \notin observation     \* else the recorded action
        /\ Admitted(r, revision, ack)
        /\ session' = [session EXCEPT ![s] =
              IF AdvanceAccepted(s, t, upTo, obs, authority)
              THEN [seen EXCEPT !.index = CHOOSE i \in Ordinal(r.queue, obs.item) : TRUE,
                                !.item = obs.item, !.state = obs.state,
                                !.revision = @ + 1]
              ELSE IF StateAccepted(s, t, upTo, obs, authority)
              THEN [seen EXCEPT !.state = obs.state, !.revision = @ + 1]
              ELSE seen]
        /\ newer' = Front(s)
        /\ command' = Settled(s, t, upTo)
        /\ observation' = observation \cup {<<s, t, revision>>}
        /\ UNCHANGED <<now, target>>

-----------------------------------------------------------------------------
Tick ==
    /\ now < MaxTime
    /\ now' = now + 1
    /\ UNCHANGED <<target, session, newer, command, observation, call>>

SessionStep(p) ==
    \/ \E s \in Sessions \cup {0} : Open(p, s)
    \/ Return(p)
    \/ \E t \in Targets : \/ RegisterTarget(p, t)
                          \/ CheckTarget(p, t)
                          \/ OpenEndpointSession(p, t)
                          \/ InboxRegister(p, t)
    \/ \E s \in Sessions, a \in Actors, q \in Queues :
          \E i \in DOMAIN q : CreateSession(p, s, a, q, i)
    \/ InboxSelect(p)
    \/ InboxResumable(p)
    \/ InboxReattach(p)

ControllerStep(p) ==
    \/ \E a \in Actors, key \in Keys, kind \in Commands :
          \E t \in IF kind = "handoff" THEN Targets ELSE {NoTarget},
             seconds \in IF kind = "sleep_timer" THEN {0, SleepFor} ELSE {0} :
                Command(p, a, key, kind, t, seconds)
    \/ \E a \in Actors, q \in Queues :
          \E index \in {0} \cup DOMAIN q : UpdateQueue(p, a, q, index)

\* The observations an endpoint may send about the session of call p: the queue
\* it has may be an earlier one.
Observations(p) ==
    [item : Items \cup {NoItem}, state : Reports, confirmed : BOOLEAN,
     queue_revision : 0 .. session[call[p].session].queue_revision]

EndpointStep(p) ==
    \/ \E state \in Reports : Checkpoint(p, state)
    \/ \E k \in DOMAIN command, status \in Outcomes :
          AcknowledgeCommand(p, k, status)
    \/ ApplyDueSleepTimers(p)
    \/ /\ call[p].session # 0
       /\ \E t \in Targets, revision \in 1 .. MaxEndpointRevision,
             ack \in 0 .. session[call[p].session].command_revision + 1,
             obs \in Observations(p), authority \in Authorities :
                Reconcile(p, t, revision, ack, obs, authority)

Next ==
    \/ \E p \in Callers : SessionStep(p) \/ ControllerStep(p) \/ EndpointStep(p)
    \/ Tick

Spec == Init /\ [][Next]_vars

-----------------------------------------------------------------------------
(* Properties *)

SessionRows == [target : Targets, state : States, index : Nat, item : Items,
                queue : Queues, revision : Nat, queue_revision : Nat,
                command_revision : Nat, observed : Nat, endpoint_revision : Nat,
                seen : BOOLEAN, confirmed : BOOLEAN, timer : Nat,
                holder : Actors, lease : Nat]

CommandRows == [session : Sessions, target : Targets,
                actor : Actors \cup {SystemActor}, kind : AllCommands,
                revision : Nat \ {0},
                status : {"pending", "applied", "rejected", "failed", "superseded"}]

Views == [revision : Nat, queue_revision : Nat,
          target : Targets \cup {NoTarget}, item : Items \cup {NoItem},
          state : States]

Calls == [pc : {"idle", "open", "create", "inbox", "resume", "reattach"},
          session : Sessions \cup {0}, target : Targets \cup {NoTarget},
          view : Views]

SessionsOK ==
    /\ DOMAIN session \subseteq Sessions
    /\ \A s \in DOMAIN session : session[s] \in SessionRows
    /\ newer \subseteq (DOMAIN session) \X (DOMAIN session)

\* A sleep timer that fired is keyed by a deadline in the past.
CommandsOK ==
    /\ DOMAIN command \subseteq {ClientKey(k) : k \in Keys}
                               \cup {SleepKey(s, d) : s \in Sessions, d \in 0 .. now}
    /\ \A k \in DOMAIN command : command[k] \in CommandRows

\* A call names a session and a target that exist.
CallsOK ==
    /\ call \in [Callers -> Calls]
    /\ \A p \in Callers :
          /\ call[p].session \in DOMAIN session \cup {0}
          /\ call[p].pc \notin {"idle", "open"} => call[p].target \in DOMAIN target
          /\ call[p].pc \in {"resume", "reattach"} => call[p].session # 0

\* Every variable has the shape its table or record gives it.
TypeOK ==
    /\ now \in Nat
    /\ DOMAIN target \subseteq Targets
    /\ \A t \in DOMAIN target : target[t] \in Nat
    /\ SessionsOK
    /\ CommandsOK
    /\ observation \subseteq Sessions \X Targets \X Nat
    /\ CallsOK

\* The log of a session holds each of the revisions 1 .. command_revision once.
LogContiguous ==
    \A s \in DOMAIN session :
        /\ \A n \in 1 .. session[s].command_revision :
              \E k \in DOMAIN command :
                 command[k].session = s /\ command[k].revision = n
        /\ \A j, k \in DOMAIN command :
              /\ command[k].session = s
              => /\ command[k].revision <= session[s].command_revision
                 /\ command[j].session = s /\ command[j].revision = command[k].revision
                    => j = k

\* No command is pending once its revision is within the acknowledged prefix.
AckedPrefixSettled ==
    \A k \in DOMAIN command :
        command[k].status = "pending"
            => command[k].revision > session[command[k].session].observed

\* A slider gesture leaves one pending volume or presentation command at most.
LevelsCoalesced ==
    \A j, k \in DOMAIN command :
        /\ command[j].status = "pending" /\ command[k].status = "pending"
        /\ command[j].kind \in {"volume", "presentation"}
        /\ command[j].kind = command[k].kind
        /\ command[j].session = command[k].session
        /\ command[j].target = command[k].target
        => j = k

\* The selected item is the member of the queue at the selected index, however
\* commands, queue replacements and endpoint advances interleave.
ActiveItemQueued ==
    \A s \in DOMAIN session :
        /\ session[s].index \in DOMAIN session[s].queue
        /\ session[s].item = session[s].queue[session[s].index]

\* One attached session per playback target.
OneAttached ==
    \A s, r \in DOMAIN session :
        Attached(s) /\ Attached(r) /\ session[s].target = session[r].target => s = r

\* The repair detaches all but one of a target's sessions, and never the last.
RepairKeepsOne ==
    [][\A p \in Callers :
          call[p].pc = "idle" /\ call'[p].pc = "open" =>
             /\ OneAttached'
             /\ \A s \in DOMAIN session : Attached(s) =>
                   \E r \in DOMAIN session' :
                      session'[r].target = session[s].target
                      /\ session'[r].state \notin Detached]_vars

\* A command enters the log through call p.
Sends(p) ==
    /\ call[p].pc = "open" /\ call[p].session # 0
    /\ call'[p].pc = "idle"
    /\ command' # command
    /\ session'[call[p].session].command_revision
          > session[call[p].session].command_revision

\* A command is accepted only from a caller that has seen the current state of
\* its session; SawCurrent leaves out that the inbox stopped it meanwhile.
SawCurrent ==
    [][\A p \in Callers :
          Sends(p) => LET current == View(call[p].session)
                      IN  \/ call[p].view = current
                          \/ /\ current.state = "stopped"
                             /\ call[p].view = [current EXCEPT !.state = call[p].view.state]]_vars

\* A report settles the commands of its session and target in the order they
\* were logged: none is applied while an earlier one stays pending.
AppliedInOrder ==
    [][\A e \in observation' \ observation : \A j, k \in DOMAIN command :
          /\ command[k].status = "pending" /\ command'[k].status = "applied"
          /\ command[j].session = command[k].session
          /\ command[j].target = command[k].target
          /\ command[j].revision < command[k].revision
          => command'[j].status # "pending"]_vars

\* Control of a session passes to another actor only when the lease has run
\* out: no command, queue, handoff, timer or report takes it away before.
LeaseRunsOut ==
    [][\A s \in DOMAIN session :
          session'[s].holder # session[s].holder => session[s].lease <= now]_vars

\* What an endpoint reports moves a session only when every command it was
\* sent is settled.
PendingShieldsState ==
    [][\A e \in observation' \ observation :
          \/ /\ session'[e[1]].state = session[e[1]].state
             /\ session'[e[1]].item = session[e[1]].item
          \/ \A k \in DOMAIN command' :
                command'[k].status = "pending"
                    => <<command'[k].session, command'[k].target>> # <<e[1], e[2]>>]_vars

\* Acknowledgements and observations of a session only move forward, and never
\* past the commands that exist.
ObservationsAdvance ==
    [][\A s \in DOMAIN session :
          /\ session[s].observed <= session'[s].observed
          /\ session[s].endpoint_revision <= session'[s].endpoint_revision
          /\ session'[s].observed <= session'[s].command_revision]_vars

=============================================================================
