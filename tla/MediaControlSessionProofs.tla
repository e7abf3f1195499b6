--------------------- MODULE MediaControlSessionProofs ---------------------
(* The sessions of MediaControl, for every value of its constants: what a   *)
(* session plays, who controls it, what commands and reports may do to it,  *)
(* and the repair of the one-session-per-target rule.                       *)
EXTENDS MediaControlProofs, FiniteSetTheorems

-----------------------------------------------------------------------------
(* What a step may do to the row of a session *)

\* The selected item is the member of the queue at the selected index.
Fits(r) == r.index \in DOMAIN r.queue /\ r.item = r.queue[r.index]

\* The row r of a session has become w.  A write that a controller could have
\* noticed takes the next revision, except the stop of a resumed session.
Follows(r, w) ==
    /\ Fits(r) => Fits(w)
    /\ w.holder # r.holder => r.lease <= now
    /\ w.revision >= r.revision /\ w.queue_revision >= r.queue_revision
    /\ w.revision = r.revision =>
          /\ w.queue_revision = r.queue_revision
          /\ w.target = r.target /\ w.item = r.item
          /\ w.state \in {r.state, "stopped"}

LEMMA FollowsSelf == \A r \in SessionRows : Follows(r, r)
BY DEF Follows, SessionRows

\* A write that selects nothing and keeps the holder.
LEMMA FollowsOf ==
    ASSUME NEW r \in SessionRows, NEW w,
           w.queue = r.queue, w.index = r.index, w.item = r.item,
           w.holder = r.holder, w.revision = r.revision + 1,
           w.queue_revision = r.queue_revision
    PROVE  Follows(r, w)
BY DEF Follows, Fits, SessionRows

LEMMA SupersedeFollows ==
    ASSUME NEW r \in SessionRows
    PROVE  Follows(r, Supersede(r))
<1>1. /\ Supersede(r).queue = r.queue /\ Supersede(r).index = r.index
      /\ Supersede(r).item = r.item /\ Supersede(r).holder = r.holder
      /\ Supersede(r).revision = r.revision + 1
      /\ Supersede(r).queue_revision = r.queue_revision
  BY DEF Supersede, SessionRows
<1> QED BY <1>1, FollowsOf

LEMMA SkipFits ==
    ASSUME NEW r \in SessionRows, NEW kind, Fits(r)
    PROVE  Fits(Skip(r, kind))
<1> DEFINE nearest == Nearest(Ahead(r, kind), kind)
           i == CHOOSE i \in nearest : TRUE
<1>1. CASE nearest = {}
  BY <1>1 DEF Skip
<1>2. CASE nearest # {}
  <2>1. i \in DOMAIN r.queue
    <3>1. i \in nearest
      BY <1>2
    <3> QED BY <3>1 DEF Nearest, Ahead
  <2>2. /\ Skip(r, kind).queue = r.queue
        /\ Skip(r, kind).index = i
        /\ Skip(r, kind).item = r.queue[i]
    <3> HIDE DEF i
    <3>1. Skip(r, kind) = [r EXCEPT !.index = i, !.item = r.queue[i],
                           !.state = IF @ \in {"requested", "playing", "loading",
                                               "buffering", "recovering"}
                                     THEN "playing" ELSE @]
      BY <1>2 DEF Skip, i
    <3> QED BY <3>1 DEF SessionRows
  <2> HIDE DEF i
  <2> QED BY <2>1, <2>2 DEF Fits
<1> QED BY <1>1, <1>2

LEMMA UpdatedFits ==
    ASSUME NEW r \in SessionRows, NEW kind, NEW t, NEW seconds, Fits(r)
    PROVE  Fits(Updated(r, kind, t, seconds))
<1>1. CASE kind \in {"next", "previous"}
  BY <1>1, SkipFits DEF Updated
<1>2. CASE kind \in {"play", "pause", "stop"}
  BY <1>2 DEF Updated, Fits, SessionRows
<1>3. CASE kind = "sleep_timer"
  BY <1>3 DEF Updated, Fits, SessionRows
<1>4. CASE kind = "handoff"
  BY <1>4 DEF Updated, Fits, SessionRows
<1>5. CASE kind \notin {"play", "pause", "stop", "next", "previous",
                        "sleep_timer", "handoff"}
  BY <1>5 DEF Updated
<1> QED BY <1>1, <1>2, <1>3, <1>4, <1>5

\* Only one session changes, and its row follows.
LEMMA OneFollows ==
    ASSUME TypeOK, NEW s \in DOMAIN session, NEW w, Follows(session[s], w),
           session' = [session EXCEPT ![s] = w]
    PROVE  /\ DOMAIN session' = DOMAIN session
           /\ \A r \in DOMAIN session : Follows(session[r], session'[r])
BY FollowsSelf DEF TypeOK, SessionsOK

LEMMA CommandFollows ==
    ASSUME TypeOK, NEW p \in Callers, NEW a \in Actors, NEW key,
           NEW kind \in Commands, NEW t \in Targets \cup {NoTarget},
           NEW seconds \in Nat, Command(p, a, key, kind, t, seconds)
    PROVE  /\ DOMAIN session' = DOMAIN session
           /\ \A r \in DOMAIN session : Follows(session[r], session'[r])
<1> DEFINE s == call[p].session
           r == session[s]
           u == Updated(r, kind, t, seconds)
           n == r.command_revision + 1
           w == [u EXCEPT !.revision = r.revision + 1, !.command_revision = n,
                          !.holder = a, !.lease = now + LeaseTerm]
<1>1. s \in DOMAIN session /\ r \in SessionRows /\ now \in Nat
  BY DEF Command, TypeOK, SessionsOK
<1>2. session' = [session EXCEPT ![s] = w]
  BY DEF Command
<1>3. DOMAIN u = DOMAIN r /\ u.queue_revision = r.queue_revision
  BY <1>1 DEF Updated, Skip, SessionRows
<1>4. /\ w.queue = u.queue /\ w.index = u.index /\ w.item = u.item
      /\ w.queue_revision = u.queue_revision
      /\ w.holder = a /\ w.revision = r.revision + 1
  <2>1. {"queue", "index", "item", "holder", "revision", "queue_revision", "lease",
         "command_revision"}
            \subseteq DOMAIN u
    BY <1>1, <1>3 DEF SessionRows
  <2> HIDE DEF u, n, r
  <2> QED BY <2>1
<1>5. Fits(r) => Fits(w)
  <2>1. Fits(r) => Fits(u)
    BY <1>1, UpdatedFits
  <2> HIDE DEF w, u, r
  <2> QED BY <1>4, <2>1 DEF Fits
<1>6. a # r.holder => r.lease <= now
  BY <1>1, ConstantAssumption DEF Command, LeaseAllows, SessionRows
<1>7. Follows(r, w)
  <2>1. r.revision \in Nat /\ r.queue_revision \in Nat
    BY <1>1 DEF SessionRows
  <2> HIDE DEF w, u, r
  <2> QED BY <1>3, <1>4, <1>5, <1>6, <2>1 DEF Follows
<1> HIDE DEF w
<1> QED BY <1>1, <1>2, <1>7, OneFollows

LEMMA UpdateQueueFollows ==
    ASSUME TypeOK, NEW p \in Callers, NEW a \in Actors, NEW q \in Queues,
           NEW index \in {0} \cup DOMAIN q, UpdateQueue(p, a, q, index)
    PROVE  /\ DOMAIN session' = DOMAIN session
           /\ \A r \in DOMAIN session : Follows(session[r], session'[r])
<1> DEFINE s == call[p].session
           r == session[s]
           wanted == IF index = 0 THEN r.index ELSE index
           i == IF wanted \in DOMAIN q THEN wanted ELSE Len(q)
           selected == index # 0 \/ q[i] # r.item
           w == [r EXCEPT !.queue = q, !.index = i, !.item = q[i],
                          !.queue_revision = @ + 1, !.revision = @ + 1,
                          !.state = IF selected THEN "ready" ELSE @]
<1>1. s \in DOMAIN session /\ r \in SessionRows
  BY DEF UpdateQueue, TypeOK, SessionsOK
<1>2. session' = [session EXCEPT ![s] = w]
  BY DEF UpdateQueue
<1>3. i \in DOMAIN q
  BY QueueAssumption
<1>4. /\ w.queue = q /\ w.index = i /\ w.item = q[i] /\ w.holder = r.holder
      /\ w.revision = r.revision + 1 /\ w.queue_revision = r.queue_revision + 1
  <2> HIDE DEF i, selected, r
  <2> QED BY <1>1 DEF SessionRows
<1>5. Follows(r, w)
  <2>1. r.revision \in Nat /\ r.queue_revision \in Nat
    BY <1>1 DEF SessionRows
  <2> HIDE DEF w, r, i
  <2> QED BY <1>3, <1>4, <2>1 DEF Follows, Fits
<1> HIDE DEF w
<1> QED BY <1>1, <1>2, <1>5, OneFollows

LEMMA ReconcileFollows ==
    ASSUME TypeOK, NEW p \in Callers, NEW t \in Targets, NEW revision \in Nat,
           NEW ack \in Nat, NEW obs, NEW authority,
           Reconcile(p, t, revision, ack, obs, authority)
    PROVE  /\ DOMAIN session' = DOMAIN session
           /\ \A r \in DOMAIN session : Follows(session[r], session'[r])
<1> DEFINE s == call[p].session
           r == session[s]
           upTo == Accepted(s, t, ack, obs)
           seen == [r EXCEPT !.observed = upTo, !.endpoint_revision = revision,
                             !.seen = TRUE, !.confirmed = obs.confirmed]
           i == CHOOSE i \in Ordinal(r.queue, obs.item) : TRUE
           advanced == [seen EXCEPT !.index = i, !.item = obs.item,
                                    !.state = obs.state, !.revision = @ + 1]
           moved == [seen EXCEPT !.state = obs.state, !.revision = @ + 1]
           adv == AdvanceAccepted(s, t, upTo, obs, authority)
           mov == StateAccepted(s, t, upTo, obs, authority)
           w == IF adv THEN advanced ELSE IF mov THEN moved ELSE seen
<1>1. s \in DOMAIN session /\ r \in SessionRows
  BY DEF Reconcile, TypeOK, SessionsOK
<1>2. session' = [session EXCEPT ![s] = w]
  BY DEF Reconcile
<1>3. Follows(r, seen)
  <2>1. /\ seen.queue = r.queue /\ seen.index = r.index /\ seen.item = r.item
        /\ seen.holder = r.holder /\ seen.revision = r.revision
        /\ seen.queue_revision = r.queue_revision
        /\ seen.target = r.target /\ seen.state = r.state
    <3> HIDE DEF upTo, r
    <3> QED BY <1>1 DEF SessionRows
  <2>2. r.revision \in Nat /\ r.queue_revision \in Nat
    BY <1>1 DEF SessionRows
  <2> HIDE DEF seen, r
  <2> QED BY <2>1, <2>2 DEF Follows, Fits
<1>4. Follows(r, moved)
  <2>1. /\ moved.queue = r.queue /\ moved.index = r.index /\ moved.item = r.item
        /\ moved.holder = r.holder /\ moved.revision = r.revision + 1
        /\ moved.queue_revision = r.queue_revision
    <3> HIDE DEF upTo, r
    <3> QED BY <1>1 DEF SessionRows
  <2> HIDE DEF moved, r
  <2> QED BY <1>1, <2>1, FollowsOf
<1>5. adv => Follows(r, advanced)
  <2> SUFFICES ASSUME adv PROVE Follows(r, advanced)
    OBVIOUS
  <2>1. /\ advanced.queue = r.queue /\ advanced.index = i
        /\ advanced.item = obs.item
        /\ advanced.holder = r.holder /\ advanced.revision = r.revision + 1
        /\ advanced.queue_revision = r.queue_revision
    <3> HIDE DEF upTo, r, i
    <3> QED BY <1>1 DEF SessionRows
  <2>2. i \in DOMAIN r.queue /\ r.queue[i] = obs.item
    <3>1. i \in Ordinal(r.queue, obs.item)
      BY DEF AdvanceAccepted
    <3> HIDE DEF i, r
    <3> QED BY <3>1 DEF Ordinal
  <2>3. r.revision \in Nat /\ r.queue_revision \in Nat
    BY <1>1 DEF SessionRows
  <2> HIDE DEF advanced, r, i
  <2> QED BY <2>1, <2>2, <2>3 DEF Follows, Fits
<1>6. Follows(r, w)
  <2> HIDE DEF advanced, moved, seen, mov, r
  <2> QED BY <1>3, <1>4, <1>5
<1> HIDE DEF w
<1> QED BY <1>1, <1>2, <1>6, OneFollows

LEMMA QuietFollows ==
    ASSUME TypeOK, NEW p \in Callers,
           \/ \E s \in Sessions \cup {0} : Open(p, s)
           \/ InboxReattach(p)
           \/ \E state \in Reports : Checkpoint(p, state)
           \/ ApplyDueSleepTimers(p)
    PROVE  /\ DOMAIN session' = DOMAIN session
           /\ \A r \in DOMAIN session : Follows(session[r], session'[r])
<1>0. \A s \in DOMAIN session : session[s] \in SessionRows
  BY DEF TypeOK, SessionsOK
<1>1. CASE \E s \in Sessions \cup {0} : Open(p, s)
  <2>1. /\ DOMAIN session' = DOMAIN session
        /\ \A s \in DOMAIN session : session'[s] \in {session[s], Supersede(session[s])}
    BY <1>1 DEF Open
  <2> QED BY <1>0, <2>1, FollowsSelf, SupersedeFollows
<1>2. CASE InboxReattach(p)
  <2> DEFINE Stop(r) == [r EXCEPT !.state = "stopped", !.seen = TRUE]
  <2>1. /\ DOMAIN session' = DOMAIN session
        /\ \A s \in DOMAIN session :
              session'[s] \in {session[s], Supersede(session[s]), Stop(session[s])}
    BY <1>2 DEF InboxReattach
  <2>2. ASSUME NEW r \in SessionRows PROVE Follows(r, Stop(r))
    BY DEF Follows, Fits, SessionRows
  <2> HIDE DEF Stop
  <2> QED BY <1>0, <2>1, <2>2, FollowsSelf, SupersedeFollows
<1>3. ASSUME NEW state \in Reports, Checkpoint(p, state)
      PROVE  /\ DOMAIN session' = DOMAIN session
             /\ \A r \in DOMAIN session : Follows(session[r], session'[r])
  <2> DEFINE s == call[p].session
             w == [session[s] EXCEPT !.state = state, !.revision = @ + 1]
  <2>1. s \in DOMAIN session /\ session' = [session EXCEPT ![s] = w]
    BY <1>3 DEF Checkpoint
  <2>2. /\ w.queue = session[s].queue /\ w.index = session[s].index
        /\ w.item = session[s].item /\ w.holder = session[s].holder
        /\ w.revision = session[s].revision + 1
        /\ w.queue_revision = session[s].queue_revision
    BY <1>0, <2>1 DEF SessionRows
  <2> HIDE DEF w
  <2>3. Follows(session[s], w)
    BY <1>0, <2>1, <2>2, FollowsOf
  <2> QED BY <2>1, <2>3, OneFollows
<1>4. CASE ApplyDueSleepTimers(p)
  <2>1. /\ DOMAIN session' = DOMAIN session
        /\ \A s \in DOMAIN session : session'[s] \in {session[s], Slept(session[s])}
    BY <1>4 DEF ApplyDueSleepTimers
  <2>2. ASSUME NEW r \in SessionRows PROVE Follows(r, Slept(r))
    <3>1. /\ Slept(r).queue = r.queue /\ Slept(r).index = r.index
          /\ Slept(r).item = r.item /\ Slept(r).holder = r.holder
          /\ Slept(r).revision = r.revision + 1
          /\ Slept(r).queue_revision = r.queue_revision
      BY DEF Slept, SessionRows
    <3> QED BY <3>1, FollowsOf
  <2> QED BY <1>0, <2>1, <2>2, FollowsSelf
<1> QED BY <1>1, <1>2, <1>3, <1>4

LEMMA CreateFollows ==
    ASSUME TypeOK, NEW p \in Callers, NEW s \in Sessions, NEW a \in Actors,
           NEW q \in Queues, NEW i \in DOMAIN q, CreateSession(p, s, a, q, i)
    PROVE  /\ DOMAIN session' = DOMAIN session \cup {s} /\ s \notin DOMAIN session
           /\ \A r \in DOMAIN session : Follows(session[r], session'[r])
           /\ Fits(session'[s])
<1> DEFINE t == call[p].target
           retired == {r \in DOMAIN session : Attached(r) /\ session[r].target = t}
           before == [r \in DOMAIN session |->
                        IF r \in retired THEN Supersede(session[r]) ELSE session[r]]
           row == NewSession(t, a, q, i)
<1>1. session' = Put(before, s, row) /\ s \notin DOMAIN session
  BY DEF CreateSession
<1>2. /\ DOMAIN before = DOMAIN session
      /\ \A r \in DOMAIN session : before[r] \in {session[r], Supersede(session[r])}
  OBVIOUS
<1>3. /\ DOMAIN session' = DOMAIN session \cup {s}
      /\ session'[s] = row
      /\ \A r \in DOMAIN session : session'[r] \in {session[r], Supersede(session[r])}
  <2> HIDE DEF before, row
  <2> QED BY <1>1, <1>2 DEF Put
<1>4. Fits(row)
  BY DEF NewSession, Fits
<1> HIDE DEF row
<1> QED BY <1>1, <1>3, <1>4, FollowsSelf, SupersedeFollows DEF TypeOK, SessionsOK

\* Every row a step leaves follows the one it found; a new one fits its queue.
LEMMA RowStep ==
    ASSUME TypeOK, [Next]_vars
    PROVE  /\ DOMAIN session \subseteq DOMAIN session'
           /\ \A r \in DOMAIN session : Follows(session[r], session'[r])
           /\ \A r \in (DOMAIN session') \ (DOMAIN session) : Fits(session'[r])
<1>0. session' = session => \A r \in DOMAIN session : Follows(session[r], session'[r])
  BY FollowsSelf DEF TypeOK, SessionsOK
<1>1. CASE UNCHANGED vars \/ Tick
  BY <1>0, <1>1 DEF vars, Tick
<1>2. ASSUME NEW p \in Callers, SessionStep(p)
      PROVE  /\ DOMAIN session \subseteq DOMAIN session'
             /\ \A r \in DOMAIN session : Follows(session[r], session'[r])
             /\ \A r \in (DOMAIN session') \ (DOMAIN session) : Fits(session'[r])
  <2>1. CASE (\E s \in Sessions \cup {0} : Open(p, s)) \/ InboxReattach(p)
    BY <2>1, QuietFollows
  <2>2. CASE \/ Return(p) \/ InboxSelect(p) \/ InboxResumable(p)
             \/ \E t \in Targets : \/ RegisterTarget(p, t)
                                   \/ CheckTarget(p, t)
                                   \/ OpenEndpointSession(p, t)
                                   \/ InboxRegister(p, t)
    BY <1>0, <2>2 DEF Return, InboxSelect, InboxResumable, RegisterTarget,
                      CheckTarget, OpenEndpointSession, InboxRegister
  <2>3. ASSUME NEW s \in Sessions, NEW a \in Actors, NEW q \in Queues,
               NEW i \in DOMAIN q, CreateSession(p, s, a, q, i)
        PROVE  /\ DOMAIN session' = DOMAIN session \cup {s}
               /\ \A r \in DOMAIN session : Follows(session[r], session'[r])
               /\ Fits(session'[s])
    BY <2>3, CreateFollows
  <2> QED BY <1>2, <2>1, <2>2, <2>3 DEF SessionStep
<1>3. ASSUME NEW p \in Callers, ControllerStep(p)
      PROVE  /\ DOMAIN session' = DOMAIN session
             /\ \A r \in DOMAIN session : Follows(session[r], session'[r])
  <2>1. ASSUME NEW a \in Actors, NEW key \in Keys, NEW kind \in Commands,
               NEW t \in IF kind = "handoff" THEN Targets ELSE {NoTarget},
               NEW seconds \in IF kind = "sleep_timer" THEN {0, SleepFor} ELSE {0},
               Command(p, a, key, kind, t, seconds)
        PROVE  /\ DOMAIN session' = DOMAIN session
               /\ \A r \in DOMAIN session : Follows(session[r], session'[r])
    <3>1. seconds \in Nat /\ t \in Targets \cup {NoTarget}
      BY ConstantAssumption
    <3> QED BY <2>1, <3>1, CommandFollows
  <2>2. ASSUME NEW a \in Actors, NEW q \in Queues, NEW index \in {0} \cup DOMAIN q,
               UpdateQueue(p, a, q, index)
        PROVE  /\ DOMAIN session' = DOMAIN session
               /\ \A r \in DOMAIN session : Follows(session[r], session'[r])
    BY <2>2, UpdateQueueFollows
  <2> QED BY <1>3, <2>1, <2>2 DEF ControllerStep
<1>4. ASSUME NEW p \in Callers, EndpointStep(p)
      PROVE  /\ DOMAIN session' = DOMAIN session
             /\ \A r \in DOMAIN session : Follows(session[r], session'[r])
  <2>1. CASE (\E state \in Reports : Checkpoint(p, state)) \/ ApplyDueSleepTimers(p)
    BY <2>1, QuietFollows
  <2>2. CASE \E k \in DOMAIN command, status \in Outcomes : AcknowledgeCommand(p, k, status)
    BY <1>0, <2>2 DEF AcknowledgeCommand
  <2>3. ASSUME NEW t \in Targets, NEW revision \in 1 .. MaxEndpointRevision,
               NEW ack \in 0 .. session[call[p].session].command_revision + 1,
               NEW obs \in Observations(p), NEW authority \in Authorities,
               Reconcile(p, t, revision, ack, obs, authority)
        PROVE  /\ DOMAIN session' = DOMAIN session
               /\ \A r \in DOMAIN session : Follows(session[r], session'[r])
    <3>1. revision \in Nat /\ ack \in Nat
      BY ConstantAssumption
    <3> QED BY <2>3, <3>1, ReconcileFollows
  <2> QED BY <1>4, <2>1, <2>2, <2>3 DEF EndpointStep
<1> QED BY <1>1, <1>2, <1>3, <1>4 DEF Next

-----------------------------------------------------------------------------
(* What a session plays and who controls it *)

LEMMA ItemStep == TypeOK /\ ActiveItemQueued /\ [Next]_vars => ActiveItemQueued'
BY RowStep DEF ActiveItemQueued, Follows, Fits

\* Whatever skips, queue replacements with or without an index, and advances
\* endpoints report, in whatever order, the item a session plays stays the
\* member of its queue at its index.
THEOREM ActiveItemStaysQueued == Spec => []ActiveItemQueued
<1>1. Init => ActiveItemQueued
  BY DEF Init, ActiveItemQueued
<1>2. TypeOK /\ ActiveItemQueued /\ [Next]_vars => ActiveItemQueued'
  BY ItemStep
<1> QED BY <1>1, <1>2, TypeCorrect, PTL DEF Spec

\* Nothing hands control of a session to another actor before its lease has
\* run out: not the queue of another controller, nor a handoff, a sleep timer,
\* the repair or a report of an endpoint.
THEOREM LeaseProtectsHolder == Spec => LeaseRunsOut
<1>1. TypeOK /\ [Next]_vars =>
         [\A s \in DOMAIN session :
             session'[s].holder # session[s].holder => session[s].lease <= now]_vars
  BY RowStep DEF Follows
<1> QED BY <1>1, TypeCorrect, PTL DEF Spec, LeaseRunsOut

-----------------------------------------------------------------------------
(* A command is accepted from a caller that is up to date *)

\* What a call read of its session is older than the row, or the row as it is
\* but for a stop by the inbox of a resuming endpoint.
SeenBy(v, r) ==
    /\ v.revision <= r.revision
    /\ v.revision = r.revision =>
          /\ v.queue_revision = r.queue_revision
          /\ v.target = r.target /\ v.item = r.item
          /\ v.state = r.state \/ r.state = "stopped"

ViewsHonest ==
    \A p \in Callers :
        call[p].pc = "open" /\ call[p].session # 0
            => SeenBy(call[p].view, session[call[p].session])

LEMMA SeenFollows ==
    ASSUME NEW v \in Views, NEW r \in SessionRows, NEW w \in SessionRows,
           SeenBy(v, r), Follows(r, w)
    PROVE  SeenBy(v, w)
BY DEF SeenBy, Follows, Views, SessionRows

\* A step opens a call, or leaves it as it is, or takes it further or back.
LEMMA CallSteps ==
    ASSUME TypeOK, [Next]_vars, NEW p \in Callers,
           call'[p].pc = "open", call'[p] # call[p]
    PROVE  \E s \in Sessions \cup {0} : Open(p, s)
<1>0. call \in [Callers -> Calls]
  BY DEF TypeOK, CallsOK
<1>1. PICK q \in Callers : SessionStep(q) \/ ControllerStep(q) \/ EndpointStep(q)
  BY DEF Next, vars, Tick
<1> SUFFICES ASSUME \A s \in Sessions \cup {0} : ~Open(p, s) PROVE FALSE
  OBVIOUS
<1>2. \A s \in Sessions \cup {0} : Open(q, s) => call' = [call EXCEPT ![q] = call'[q]]
  BY <1>0 DEF Open
<1>3. ASSUME \A s \in Sessions \cup {0} : ~Open(q, s)
      PROVE  \E c \in [pc : {"idle", "create", "inbox", "resume", "reattach"},
                       session : Sessions \cup {0}, target : Targets \cup {NoTarget},
                       view : Views] :
                call' = [call EXCEPT ![q] = c]
  <2>0. call[q] \in Calls /\ Idle \in Calls /\ Idle.pc = "idle"
    BY <1>0 DEF Idle, Calls, Views, NoView, States, Detached
  <2> DEFINE C == [pc : {"idle", "create", "inbox", "resume", "reattach"},
                   session : Sessions \cup {0}, target : Targets \cup {NoTarget},
                   view : Views]
  <2>1. Idle \in C
    BY <2>0 DEF Calls
  <2>2. \A t \in Targets : \A pc \in {"create", "inbox"} :
           [call[q] EXCEPT !.pc = pc, !.target = t] \in C
    BY <2>0 DEF Calls
  <2>3. \A pc \in {"resume", "reattach"} : [call[q] EXCEPT !.pc = pc] \in C
    BY <2>0 DEF Calls
  <2> DEFINE Goes == \E c \in C : call' = [call EXCEPT ![q] = c]
  <2>4. ASSUME NEW c \in C, call' = [call EXCEPT ![q] = c] PROVE Goes
    BY <2>4
  <2> SUFFICES Goes
    BY DEF C
  <2> HIDE DEF C, Goes
  <2>5. CASE SessionStep(q)
    <3>1. CASE Return(q)
      BY <2>1, <2>4, <3>1 DEF Return
    <3>2. ASSUME NEW t \in Targets, \/ RegisterTarget(q, t) \/ CheckTarget(q, t)
                                    \/ OpenEndpointSession(q, t) \/ InboxRegister(q, t)
          PROVE  Goes
      <4>1. CASE RegisterTarget(q, t)
        BY <2>1, <2>4, <4>1 DEF RegisterTarget, Finish
      <4>2. CASE CheckTarget(q, t)
        BY <2>2, <2>4, <4>2 DEF CheckTarget
      <4>3. CASE OpenEndpointSession(q, t)
        BY <2>2, <2>4, <4>3 DEF OpenEndpointSession
      <4>4. CASE InboxRegister(q, t)
        BY <2>2, <2>4, <4>4 DEF InboxRegister
      <4> QED BY <3>2, <4>1, <4>2, <4>3, <4>4
    <3>3. CASE \E s \in Sessions, a \in Actors, u \in Queues :
                  \E i \in DOMAIN u : CreateSession(q, s, a, u, i)
      BY <2>1, <2>4, <3>3 DEF CreateSession
    <3>4. CASE InboxSelect(q)
      BY <2>1, <2>3, <2>4, <3>4 DEF InboxSelect
    <3>5. CASE InboxResumable(q)
      BY <2>1, <2>3, <2>4, <3>5 DEF InboxResumable
    <3>6. CASE InboxReattach(q)
      BY <2>1, <2>4, <3>6 DEF InboxReattach
    <3> QED BY <1>3, <2>5, <3>1, <3>2, <3>3, <3>4, <3>5, <3>6 DEF SessionStep
  <2>6. CASE ControllerStep(q) \/ EndpointStep(q)
    <3>1. call' = [call EXCEPT ![q] = Idle]
      <4>1. ASSUME NEW a, NEW key, NEW kind, NEW t, NEW seconds,
                   Command(q, a, key, kind, t, seconds)
            PROVE  call' = [call EXCEPT ![q] = Idle]
        BY <4>1 DEF Command, Finish
      <4>2. ASSUME NEW a, NEW u, NEW index, UpdateQueue(q, a, u, index)
            PROVE  call' = [call EXCEPT ![q] = Idle]
        BY <4>2 DEF UpdateQueue, Finish
      <4>3. ASSUME NEW state, Checkpoint(q, state)
            PROVE  call' = [call EXCEPT ![q] = Idle]
        BY <4>3 DEF Checkpoint, Finish
      <4>4. ASSUME NEW k, NEW status, AcknowledgeCommand(q, k, status)
            PROVE  call' = [call EXCEPT ![q] = Idle]
        BY <4>4 DEF AcknowledgeCommand, Finish
      <4>5. CASE ApplyDueSleepTimers(q)
        BY <4>5 DEF ApplyDueSleepTimers, Finish
      <4>6. ASSUME NEW t, NEW revision, NEW ack, NEW obs, NEW authority,
                   Reconcile(q, t, revision, ack, obs, authority)
            PROVE  call' = [call EXCEPT ![q] = Idle]
        BY <4>6 DEF Reconcile, Finish
      <4> QED BY <2>6, <4>1, <4>2, <4>3, <4>4, <4>5, <4>6
              DEF ControllerStep, EndpointStep
    <3> QED BY <2>1, <2>4, <3>1
  <2> QED BY <1>1, <2>5, <2>6
<1> QED BY <1>0, <1>2, <1>3

LEMMA ViewsInit == Init => ViewsHonest
BY DEF Init, ViewsHonest, Idle

LEMMA ViewsStep == TypeOK /\ ViewsHonest /\ [Next]_vars => ViewsHonest'
<1> SUFFICES ASSUME TypeOK, ViewsHonest, [Next]_vars,
                    NEW p \in Callers, call'[p].pc = "open", call'[p].session # 0
             PROVE  SeenBy(call'[p].view, session'[call'[p].session])
  BY DEF ViewsHonest
<1>1. TypeOK'
  BY TypeStep
<1>2. \A r \in DOMAIN session : Follows(session[r], session'[r])
  BY RowStep
<1>3. CASE call'[p] = call[p]
  <2>1. call[p].session \in DOMAIN session /\ call[p].view \in Views
    BY <1>3 DEF TypeOK, CallsOK, Calls
  <2>2. session[call[p].session] \in SessionRows
    BY <2>1 DEF TypeOK, SessionsOK
  <2>3. session'[call[p].session] \in SessionRows
    BY <2>1, <1>1, RowStep DEF TypeOK, SessionsOK
  <2>4. SeenBy(call[p].view, session[call[p].session])
    BY <1>3 DEF ViewsHonest
  <2> QED BY <1>2, <1>3, <2>1, <2>2, <2>3, <2>4, SeenFollows
<1>4. CASE call'[p] # call[p]
  <2>1. PICK s \in Sessions \cup {0} : Open(p, s)
    BY <1>4, CallSteps
  <2>2. call'[p].session = s /\ (s # 0 => call'[p].view = View(s))
    BY <2>1 DEF Open, TypeOK, CallsOK, Calls
  <2>3. s \in DOMAIN session
    BY <2>1, <2>2 DEF Open
  <2>4. session[s] \in SessionRows /\ Follows(session[s], session'[s])
    BY <1>2, <2>3 DEF TypeOK, SessionsOK
  <2>5. SeenBy(View(s), session[s])
    BY <2>4 DEF SeenBy, View, SessionRows
  <2>6. View(s) \in Views /\ session'[s] \in SessionRows
    <3>1. s \in DOMAIN session'
      BY <2>3, RowStep
    <3> QED BY <1>1, <2>4, <3>1 DEF View, Views, SessionRows, TypeOK, SessionsOK
  <2> QED BY <2>2, <2>3, <2>4, <2>5, <2>6, SeenFollows
<1> QED BY <1>3, <1>4

\* A call that logs a command is a command(): no other step raises the command
\* revision of the session its call names.
LEMMA SendsIsCommand ==
    ASSUME TypeOK, [Next]_vars, NEW p \in Callers, Sends(p)
    PROVE  Expected(p, session[call[p].session])
<1>0. call \in [Callers -> Calls]
  BY DEF TypeOK, CallsOK
<1>1. ASSUME NEW q \in Callers, call' = [call EXCEPT ![q] = Idle]
      PROVE  q = p
  BY <1>0, <1>1 DEF Sends
<1>2. ~Quiet
  <2>1. Quiet => command' = command
    BY DEF Quiet
  <2> QED BY <2>1 DEF Sends
<1>3. ASSUME NEW q \in Callers, NEW a \in Actors, NEW key, NEW kind, NEW t,
             NEW seconds, Command(q, a, key, kind, t, seconds)
      PROVE  Expected(p, session[call[p].session])
  BY <1>1, <1>3 DEF Command, Finish
<1>4. ASSUME NEW q \in Callers, NEW k, NEW status, AcknowledgeCommand(q, k, status)
      PROVE  FALSE
  BY <1>1, <1>4 DEF AcknowledgeCommand, Finish, Sends
<1>5. ASSUME NEW q \in Callers, ApplyDueSleepTimers(q) PROVE FALSE
  BY <1>1, <1>5 DEF ApplyDueSleepTimers, Finish, Sends
<1>6. ASSUME NEW q \in Callers, NEW t \in Targets, NEW revision \in Nat,
             NEW ack \in Nat, NEW obs \in Observations(q), NEW authority,
             Reconcile(q, t, revision, ack, obs, authority)
      PROVE  FALSE
  <2>1. q = p
    BY <1>1, <1>6 DEF Reconcile, Finish
  <2>2. /\ call[q].session \in DOMAIN session
        /\ session'[call[q].session].command_revision
              = session[call[q].session].command_revision
    BY <1>6, ReconcileEffect
  <2>3. session[call[q].session].command_revision \in Nat
    BY <2>2 DEF TypeOK, SessionsOK, SessionRows
  <2> QED BY <2>1, <2>2, <2>3 DEF Sends
<1> QED BY <1>2, <1>3, <1>4, <1>5, <1>6, StepKinds

\* A command that is logged was decided on the session as it still is: between
\* the read of a controller and its command, no other command, queue, report,
\* checkpoint, timer or repair changed what the controller saw, but for the
\* stop of a session whose endpoint resumes it, which takes no revision.
THEOREM CommandsSeeCurrent == Spec => SawCurrent
<1>1. TypeOK /\ ViewsHonest /\ [Next]_vars =>
         [\A p \in Callers :
             Sends(p) => LET current == View(call[p].session)
                         IN  \/ call[p].view = current
                             \/ /\ current.state = "stopped"
                                /\ call[p].view = [current EXCEPT !.state = call[p].view.state]]_vars
  <2> SUFFICES ASSUME TypeOK, ViewsHonest, [Next]_vars, NEW p \in Callers, Sends(p)
               PROVE  LET current == View(call[p].session)
                      IN  \/ call[p].view = current
                          \/ /\ current.state = "stopped"
                             /\ call[p].view = [current EXCEPT !.state = call[p].view.state]
    OBVIOUS
  <2> DEFINE s == call[p].session
             v == call[p].view
             r == session[s]
  <2>1. s \in DOMAIN session /\ v \in Views /\ SeenBy(v, r)
    BY DEF Sends, TypeOK, CallsOK, Calls, ViewsHonest
  <2>2. v.revision = r.revision
    BY SendsIsCommand DEF Expected
  <2>3. /\ v.revision = r.revision /\ v.queue_revision = r.queue_revision
        /\ v.target = r.target /\ v.item = r.item
        /\ v.state = r.state \/ r.state = "stopped"
    BY <2>1, <2>2 DEF SeenBy
  <2> HIDE DEF r
  <2>4. View(s) = [revision |-> r.revision, queue_revision |-> r.queue_revision,
                   target |-> r.target, item |-> r.item, state |-> r.state]
    BY DEF View, r
  <2>5. v = [revision |-> v.revision, queue_revision |-> v.queue_revision,
             target |-> v.target, item |-> v.item, state |-> v.state]
    BY <2>1 DEF Views
  <2> HIDE DEF v
  <2>6. CASE v.state = r.state
    BY <2>3, <2>4, <2>5, <2>6 DEF v
  <2>7. CASE r.state = "stopped"
    <3>1. View(s).state = "stopped"
      BY <2>4, <2>7
    <3>2. v = [View(s) EXCEPT !.state = v.state]
      BY <2>3, <2>4, <2>5
    <3> QED BY <3>1, <3>2 DEF v
  <2> QED BY <2>3, <2>6, <2>7
<1> QED BY <1>1, ViewsInit, ViewsStep, TypeCorrect, PTL DEF Spec, SawCurrent

-----------------------------------------------------------------------------
(* What a report of an endpoint may do *)

\* Only a report adds an observation, the one of its session and target.
LEMMA ObservationIsReconcile ==
    ASSUME TypeOK, [Next]_vars, NEW e \in observation' \ observation
    PROVE  \E p \in Callers, t \in Targets, revision \in Nat, ack \in Nat,
              authority \in Authorities :
              \E obs \in Observations(p) :
                 /\ Reconcile(p, t, revision, ack, obs, authority)
                 /\ e = <<call[p].session, t, revision>>
<1>1. ~(UNCHANGED vars \/ Tick)
  BY DEF vars, Tick
<1>2. ASSUME NEW p \in Callers, SessionStep(p) PROVE FALSE
  BY <1>2 DEF SessionStep, Open, Return, RegisterTarget, CheckTarget,
              OpenEndpointSession, InboxRegister, CreateSession, InboxSelect,
              InboxResumable, InboxReattach
<1>3. ASSUME NEW p \in Callers, ControllerStep(p) PROVE FALSE
  <2>1. ASSUME NEW a, NEW key, NEW kind, NEW t, NEW seconds,
               Command(p, a, key, kind, t, seconds)
        PROVE  FALSE
    BY <2>1 DEF Command
  <2>2. ASSUME NEW a, NEW q, NEW index, UpdateQueue(p, a, q, index) PROVE FALSE
    BY <2>2 DEF UpdateQueue
  <2> QED BY <1>3, <2>1, <2>2 DEF ControllerStep
<1>4. PICK p \in Callers : EndpointStep(p)
  BY <1>1, <1>2, <1>3 DEF Next
<1>5. ~(\E state \in Reports : Checkpoint(p, state)) /\ ~ApplyDueSleepTimers(p)
  BY DEF Checkpoint, ApplyDueSleepTimers
<1>6. ~\E k \in DOMAIN command, status \in Outcomes : AcknowledgeCommand(p, k, status)
  BY DEF AcknowledgeCommand
<1>7. PICK t \in Targets, revision \in 1 .. MaxEndpointRevision,
           ack \in 0 .. session[call[p].session].command_revision + 1,
           obs \in Observations(p), authority \in Authorities :
              Reconcile(p, t, revision, ack, obs, authority)
  BY <1>4, <1>5, <1>6 DEF EndpointStep
<1>8. revision \in Nat /\ ack \in Nat
  BY ConstantAssumption
<1>9. e = <<call[p].session, t, revision>>
  BY <1>7 DEF Reconcile
<1> QED BY <1>7, <1>8, <1>9

\* What a report settles is a prefix of what its session still has pending.
LEMMA SettledPrefix ==
    ASSUME TypeOK, NEW s, NEW t, NEW upTo \in Nat, NEW j \in DOMAIN command,
           NEW k \in DOMAIN command, command[k].status = "pending",
           Settled(s, t, upTo)[k].status = "applied",
           command[j].session = command[k].session,
           command[j].target = command[k].target,
           command[j].revision < command[k].revision
    PROVE  Settled(s, t, upTo)[j].status # "pending"
<1>1. command[j] \in CommandRows /\ command[k] \in CommandRows
  BY DEF TypeOK, CommandsOK
<1>2. k \in Pending(s, t) /\ command[k].revision <= upTo
  BY DEF Settled
<1>3. command[j].revision <= upTo
  BY <1>1, <1>2 DEF CommandRows
<1>4. CASE command[j].status = "pending"
  <2>1. j \in Pending(s, t)
    BY <1>2, <1>4 DEF Pending
  <2>2. Settled(s, t, upTo)[j] = [command[j] EXCEPT !.status = "applied"]
    BY <1>3, <2>1 DEF Settled
  <2> QED BY <1>1, <2>2 DEF CommandRows
<1>5. CASE command[j].status # "pending"
  BY <1>5 DEF Settled, Pending
<1> QED BY <1>4, <1>5

\* A report applies what is pending in the order of the log, whichever of its
\* rows were acknowledged one by one before and whatever revision it names.
THEOREM ReportsApplyInOrder == Spec => AppliedInOrder
<1>1. TypeOK /\ [Next]_vars =>
         [\A e \in observation' \ observation : \A j, k \in DOMAIN command :
             /\ command[k].status = "pending" /\ command'[k].status = "applied"
             /\ command[j].session = command[k].session
             /\ command[j].target = command[k].target
             /\ command[j].revision < command[k].revision
             => command'[j].status # "pending"]_vars
  <2> SUFFICES ASSUME TypeOK, [Next]_vars, NEW e \in observation' \ observation,
                      NEW j \in DOMAIN command, NEW k \in DOMAIN command,
                      command[k].status = "pending", command'[k].status = "applied",
                      command[j].session = command[k].session,
                      command[j].target = command[k].target,
                      command[j].revision < command[k].revision
               PROVE  command'[j].status # "pending"
    OBVIOUS
  <2>1. PICK p \in Callers, t \in Targets, revision \in Nat, ack \in Nat,
             authority \in Authorities :
             \E obs \in Observations(p) :
                Reconcile(p, t, revision, ack, obs, authority)
    BY ObservationIsReconcile
  <2>2. PICK obs \in Observations(p) : Reconcile(p, t, revision, ack, obs, authority)
    BY <2>1
  <2> DEFINE s == call[p].session
             upTo == session'[s].observed
  <2>3. command' = Settled(s, t, upTo) /\ s \in DOMAIN session'
    BY <2>2, ReconcileEffect
  <2>4. upTo \in Nat
    <3>1. TypeOK'
      BY TypeStep
    <3> QED BY <2>3, <3>1 DEF TypeOK, SessionsOK, SessionRows
  <2> HIDE DEF s, upTo
  <2> QED BY <2>3, <2>4, SettledPrefix
<1> QED BY <1>1, TypeCorrect, PTL DEF Spec, AppliedInOrder

\* Nothing of a target is left pending once nothing of it is unsettled.
LEMMA NothingPending ==
    ASSUME TypeOK, NEW s, NEW t, NEW upTo \in Nat, Unsettled(s, t, upTo) = {},
           NEW k \in DOMAIN command, Settled(s, t, upTo)[k].status = "pending"
    PROVE  <<Settled(s, t, upTo)[k].session, Settled(s, t, upTo)[k].target>> # <<s, t>>
<1>1. command[k] \in CommandRows
  BY DEF TypeOK, CommandsOK
<1>2. CASE k \in Pending(s, t) /\ command[k].revision <= upTo
  <2>1. Settled(s, t, upTo)[k] = [command[k] EXCEPT !.status = "applied"]
    BY <1>2 DEF Settled
  <2> QED BY <1>1, <2>1 DEF CommandRows
<1>3. CASE ~(k \in Pending(s, t) /\ command[k].revision <= upTo)
  <2>1. Settled(s, t, upTo)[k] = command[k]
    BY <1>3 DEF Settled
  <2>2. k \notin Pending(s, t)
    BY <1>1, <1>3 DEF Unsettled, CommandRows
  <2> QED BY <2>1, <2>2 DEF Pending
<1> QED BY <1>2, <1>3

LEMMA ReconcileShields ==
    ASSUME TypeOK, NEW p \in Callers, NEW t \in Targets, NEW revision \in Nat,
           NEW ack \in Nat, NEW obs, NEW authority,
           Reconcile(p, t, revision, ack, obs, authority)
    PROVE  LET s == call[p].session
           IN  \/ /\ session'[s].state = session[s].state
                  /\ session'[s].item = session[s].item
               \/ Unsettled(s, t, session'[s].observed) = {}
<1> DEFINE s == call[p].session
           r == session[s]
           upTo == Accepted(s, t, ack, obs)
           seen == [r EXCEPT !.observed = upTo, !.endpoint_revision = revision,
                             !.seen = TRUE, !.confirmed = obs.confirmed]
           i == CHOOSE i \in Ordinal(r.queue, obs.item) : TRUE
           advanced == [seen EXCEPT !.index = i, !.item = obs.item,
                                    !.state = obs.state, !.revision = @ + 1]
           moved == [seen EXCEPT !.state = obs.state, !.revision = @ + 1]
           adv == AdvanceAccepted(s, t, upTo, obs, authority)
           mov == StateAccepted(s, t, upTo, obs, authority)
           w == IF adv THEN advanced ELSE IF mov THEN moved ELSE seen
<1>1. s \in DOMAIN session /\ r \in SessionRows
  BY DEF Reconcile, TypeOK, SessionsOK
<1>2. session' = [session EXCEPT ![s] = w]
  BY DEF Reconcile
<1>3. session'[s] = w
  <2> HIDE DEF w
  <2> QED BY <1>1, <1>2
<1>4. /\ advanced.observed = upTo /\ moved.observed = upTo
      /\ seen.state = r.state /\ seen.item = r.item
  <2> HIDE DEF upTo, r, i
  <2> QED BY <1>1 DEF SessionRows
<1>5. adv \/ mov => Unsettled(s, t, upTo) = {}
  BY DEF AdvanceAccepted, StateAccepted
<1> HIDE DEF adv, mov, advanced, moved, seen, upTo, r
<1>6. CASE adv \/ mov
  BY <1>3, <1>4, <1>5, <1>6
<1>7. CASE ~adv /\ ~mov
  BY <1>3, <1>4, <1>7 DEF r
<1> QED BY <1>6, <1>7

\* As long as a command for its target is still to be carried out, nothing an
\* endpoint reports, under either authority, moves the desired state or item.
THEOREM PendingCommandsShield == Spec => PendingShieldsState
<1>1. TypeOK /\ [Next]_vars =>
         [\A e \in observation' \ observation :
             \/ /\ session'[e[1]].state = session[e[1]].state
                /\ session'[e[1]].item = session[e[1]].item
             \/ \A k \in DOMAIN command' :
                   command'[k].status = "pending"
                      => <<command'[k].session, command'[k].target>> # <<e[1], e[2]>>]_vars
  <2> SUFFICES ASSUME TypeOK, [Next]_vars, NEW e \in observation' \ observation
               PROVE  \/ /\ session'[e[1]].state = session[e[1]].state
                         /\ session'[e[1]].item = session[e[1]].item
                      \/ \A k \in DOMAIN command' :
                            command'[k].status = "pending"
                              => <<command'[k].session, command'[k].target>> # <<e[1], e[2]>>
    OBVIOUS
  <2>1. PICK p \in Callers, t \in Targets, revision \in Nat, ack \in Nat,
             authority \in Authorities :
             \E obs \in Observations(p) :
                /\ Reconcile(p, t, revision, ack, obs, authority)
                /\ e = <<call[p].session, t, revision>>
    BY ObservationIsReconcile
  <2>2. PICK obs \in Observations(p) : Reconcile(p, t, revision, ack, obs, authority)
    BY <2>1
  <2> DEFINE s == call[p].session
             upTo == session'[s].observed
  <2>3. command' = Settled(s, t, upTo) /\ s \in DOMAIN session'
    BY <2>2, ReconcileEffect
  <2>4. upTo \in Nat
    <3>1. TypeOK'
      BY TypeStep
    <3> QED BY <2>3, <3>1 DEF TypeOK, SessionsOK, SessionRows
  <2>5. \/ /\ session'[s].state = session[s].state
           /\ session'[s].item = session[s].item
        \/ Unsettled(s, t, upTo) = {}
    BY <2>2, ReconcileShields
  <2>6. e[1] = s /\ e[2] = t
    BY <2>1
  <2>7. DOMAIN command' = DOMAIN command
    BY <2>3 DEF Settled
  <2> HIDE DEF s, upTo
  <2> QED BY <2>3, <2>4, <2>5, <2>6, <2>7, NothingPending
<1> QED BY <1>1, TypeCorrect, PTL DEF Spec, PendingShieldsState

-----------------------------------------------------------------------------
(* The commands of a slider gesture *)

\* Rows that are only ever taken out of the pending ones.
LEMMA LevelsKept ==
    ASSUME LevelsCoalesced, DOMAIN command' = DOMAIN command,
           \A k \in DOMAIN command :
              command'[k].status = "pending" => command'[k] = command[k]
    PROVE  LevelsCoalesced'
BY DEF LevelsCoalesced

\* A row that is no longer pending was settled, or else it is unchanged.
LEMMA StatusOnly ==
    ASSUME NEW r \in CommandRows, NEW status
    PROVE  [r EXCEPT !.status = status].status = status
BY DEF CommandRows

LEMMA LevelsStep == TypeOK /\ LogInv /\ LevelsCoalesced /\ [Next]_vars => LevelsCoalesced'
<1> SUFFICES ASSUME TypeOK, LogInv, LevelsCoalesced, [Next]_vars
             PROVE  LevelsCoalesced'
  OBVIOUS
<1>0. \A k \in DOMAIN command : command[k] \in CommandRows
  BY DEF TypeOK, CommandsOK
<1>1. CASE Quiet
  BY <1>1 DEF Quiet, LevelsCoalesced
<1>2. ASSUME NEW p \in Callers, NEW a \in Actors, NEW key \in Keys,
             NEW kind \in Commands, NEW t \in Targets \cup {NoTarget},
             NEW seconds \in Nat, Command(p, a, key, kind, t, seconds)
      PROVE  LevelsCoalesced'
  <2> DEFINE s == call[p].session
             x == ClientKey(key)
  <2>1. /\ x \notin DOMAIN command
        /\ DOMAIN command' = DOMAIN command \cup {x}
        /\ command'[x] = Row(s, session[s].target, a, kind, session[s].command_revision + 1)
        /\ \A k \in DOMAIN command : command'[k] = Coalesced(s, kind)[k]
    <3>1. CommandEffects(s, a, x, kind)
      BY <1>2, CommandEffect
    <3> HIDE DEF s, x
    <3> QED BY <3>1 DEF CommandEffects
  <2> HIDE DEF s, x
  <2>2. \A k \in DOMAIN command :
           command'[k].status = "pending" =>
              /\ command'[k] = command[k]
              /\ ~ /\ kind \in {"volume", "presentation"}
                   /\ k \in Pending(s, session[s].target)
                   /\ command[k].kind = kind
    <3> SUFFICES ASSUME NEW k \in DOMAIN command, command'[k].status = "pending"
                 PROVE  /\ command'[k] = command[k]
                        /\ ~ /\ kind \in {"volume", "presentation"}
                             /\ k \in Pending(s, session[s].target)
                             /\ command[k].kind = kind
      OBVIOUS
    <3>1. [command[k] EXCEPT !.status = "superseded"].status = "superseded"
      BY <1>0, StatusOnly
    <3>2. command'[k] # [command[k] EXCEPT !.status = "superseded"]
      BY <3>1
    <3> QED BY <2>1, <3>2 DEF Coalesced
  <2>3. /\ command'[x].kind = kind /\ command'[x].session = s
        /\ command'[x].target = session[s].target
    BY <2>1 DEF Row
  <2>4. ASSUME NEW k \in DOMAIN command, command'[k].status = "pending",
               kind \in {"volume", "presentation"}
        PROVE  ~ /\ command'[k].kind = kind /\ command'[k].session = s
                 /\ command'[k].target = session[s].target
    BY <2>2, <2>4 DEF Pending
  <2> QED BY <2>1, <2>2, <2>3, <2>4 DEF LevelsCoalesced
<1>3. ASSUME NEW p \in Callers, NEW k \in DOMAIN command, NEW status \in Outcomes,
             AcknowledgeCommand(p, k, status)
      PROVE  LevelsCoalesced'
  <2>1. /\ DOMAIN command' = DOMAIN command
        /\ \A j \in DOMAIN command : j # k => command'[j] = command[j]
        /\ command'[k] = [command[k] EXCEPT !.status = status]
    BY <1>3 DEF AcknowledgeCommand
  <2>2. command'[k].status # "pending"
    <3>1. command'[k].status = status
      BY <1>0, <2>1, StatusOnly
    <3> QED BY <3>1, ConstantAssumption
  <2> QED BY <2>1, <2>2, LevelsKept
<1>4. ASSUME NEW p \in Callers, ApplyDueSleepTimers(p) PROVE LevelsCoalesced'
  <2> DEFINE K == [s \in DueSessions |-> SleepKey(s, session[s].timer)]
  <2>1. /\ DOMAIN command' = DOMAIN command \cup {K[s] : s \in DueSessions}
        /\ \A s \in DueSessions : command'[K[s]].kind = "pause"
        /\ \A k \in DOMAIN command : command'[k] = command[k]
    <3>1. /\ DOMAIN command' = DOMAIN command \cup {K[s] : s \in DueSessions}
          /\ \A s \in DueSessions :
                command'[K[s]] = Row(s, session[s].target, SystemActor, "pause",
                                     session[s].command_revision + 1)
          /\ \A k \in DOMAIN command : command'[k] = command[k]
      <4>1. TimerFresh
        BY DEF LogInv
      <4> QED BY <1>4, <4>1, TimersEffect
    <3>2. \A s, t, n : Row(s, t, SystemActor, "pause", n).kind = "pause"
      BY DEF Row
    <3> HIDE DEF K
    <3> QED BY <3>1, <3>2
  <2> HIDE DEF K
  <2> QED BY <2>1 DEF LevelsCoalesced
<1>5. ASSUME NEW p \in Callers, NEW t \in Targets, NEW revision \in Nat,
             NEW ack \in Nat, NEW obs \in Observations(p), NEW authority,
             Reconcile(p, t, revision, ack, obs, authority)
      PROVE  LevelsCoalesced'
  <2> DEFINE s == call[p].session
             upTo == session'[s].observed
  <2>1. command' = Settled(s, t, upTo)
    BY <1>5, ReconcileEffect
  <2> HIDE DEF s, upTo
  <2>2. DOMAIN command' = DOMAIN command
    BY <2>1 DEF Settled
  <2>3. ASSUME NEW k \in DOMAIN command
        PROVE  command'[k] = command[k] \/ command'[k].status = "applied"
    <3>1. [command[k] EXCEPT !.status = "applied"].status = "applied"
      BY <1>0, StatusOnly
    <3>2. command'[k] \in {command[k], [command[k] EXCEPT !.status = "applied"]}
      BY <2>1 DEF Settled
    <3> QED BY <3>1, <3>2
  <2> QED BY <2>2, <2>3, LevelsKept
<1> QED BY <1>1, <1>2, <1>3, <1>4, <1>5, StepKinds

\* A slider gesture leaves at most one volume and one presentation command of
\* a session for its endpoint to carry out, whatever handoffs move the session
\* back and forth and whatever else is logged or acknowledged in between.
THEOREM LevelsStayCoalesced == Spec => []LevelsCoalesced
<1>1. Init => LevelsCoalesced
  BY DEF Init, LevelsCoalesced
<1>2. TypeOK /\ LogInv /\ LevelsCoalesced /\ [Next]_vars => LevelsCoalesced'
  BY LevelsStep
<1>3. Init => LogInv
  BY DEF Init, LogInv, RowsOwned, TimerFresh, LogContiguous
<1> QED BY <1>1, <1>2, <1>3, LogStep, TypeCorrect, PTL DEF Spec

-----------------------------------------------------------------------------
(* The repair of the one-session-per-target rule *)

\* The order in which the repair reads the sessions is one: of any two, one was
\* touched after the other, and there is always one touched last.
TouchOrder ==
    /\ IsFiniteSet(DOMAIN session)
    /\ \A s, r \in DOMAIN session : s # r => <<s, r>> \in newer \/ <<r, s>> \in newer
    /\ \A s \in DOMAIN session : <<s, s>> \notin newer
    /\ \A s, r, q \in DOMAIN session :
          <<s, r>> \in newer /\ <<r, q>> \in newer => <<s, q>> \in newer

\* Of the subsets of a finite set one is least.
LEMMA LeastSubset ==
    ASSUME NEW S, IsFiniteSet(S), NEW F \in SUBSET SUBSET S, F # {}
    PROVE  \E T \in F : \A U \in F : U \subseteq T => U = T
<1> DEFINE R == StrictSubsetOrdering(S)
<1>1. IsWellFoundedOn(R, SUBSET S)
  BY FS_StrictSubsetOrderingWellFounded, FS_FiniteSubsetsOfFinite
<1>2. PICK T \in F : \A U \in F : ~(<<U, T>> \in R)
  <2> HIDE DEF R
  <2> QED BY <1>1, WFMin
<1>3. \A U \in F : U \subseteq T /\ U # T => <<U, T>> \in R
  BY DEF StrictSubsetOrdering
<1> HIDE DEF R
<1>4. ASSUME NEW U \in F, U \subseteq T PROVE U = T
  <2>1. ~(<<U, T>> \in R)
    BY <1>2
  <2> QED BY <1>3, <1>4, <2>1
<1> QED BY <1>4

LEMMA LatestTouched ==
    ASSUME TouchOrder, NEW T \in SUBSET DOMAIN session, T # {}
    PROVE  \E m \in T : \A x \in T \ {m} : <<m, x>> \in newer
<1> DEFINE Before(m) == {y \in T : <<y, m>> \in newer}
           F == {Before(m) : m \in T}
<1>1. IsFiniteSet(T)
  BY FS_Subset DEF TouchOrder
<1>2. F \in SUBSET SUBSET T /\ F # {}
  OBVIOUS
<1>3. PICK P \in F : \A U \in F : U \subseteq P => U = P
  <2> HIDE DEF F
  <2> QED BY <1>1, <1>2, LeastSubset
<1>4. PICK m \in T : P = Before(m)
  OBVIOUS
<1>5. ASSUME NEW y \in Before(m) PROVE FALSE
  <2>1. Before(y) \subseteq Before(m)
    BY <1>5 DEF TouchOrder
  <2>2. Before(y) = Before(m)
    <3>1. Before(y) \in F
      BY <1>5
    <3> HIDE DEF F, Before
    <3> QED BY <1>3, <1>4, <2>1, <3>1
  <2>3. y \in Before(y)
    BY <1>5, <2>2
  <2> QED BY <1>5, <2>3 DEF TouchOrder
<1>6. \A x \in T \ {m} : <<m, x>> \in newer
  BY <1>5 DEF TouchOrder
<1> QED BY <1>6

\* A touched session, new or not, comes first; the others keep their order.
LEMMA FrontOrder ==
    ASSUME TouchOrder, SessionsOK, NEW s, newer' = Front(s),
           DOMAIN session' = DOMAIN session \cup {s}
    PROVE  TouchOrder'
<1>1. IsFiniteSet(DOMAIN session')
  BY FS_AddElement DEF TouchOrder
<1>2. \A x, y \in DOMAIN session' :
         <<x, y>> \in newer' <=> \/ x = s /\ y # s
                                 \/ x # s /\ y # s /\ <<x, y>> \in newer
  <2>1. ASSUME NEW x, NEW y
        PROVE  <<x, y>> \in Front(s) <=>
                  \/ x = s /\ y \in DOMAIN session \ {s}
                  \/ x # s /\ y # s /\ <<x, y>> \in newer
    <3>1. <<x, y>> \in {e \in newer : s \notin {e[1], e[2]}}
             <=> x # s /\ y # s /\ <<x, y>> \in newer
      OBVIOUS
    <3>2. <<x, y>> \in {s} \X (DOMAIN session \ {s})
             <=> x = s /\ y \in DOMAIN session \ {s}
      OBVIOUS
    <3> QED BY <3>1, <3>2 DEF Front
  <2> QED BY <2>1
<1>3. \A x \in DOMAIN session' : x # s => x \in DOMAIN session
  OBVIOUS
<1> QED BY <1>1, <1>2, <1>3 DEF TouchOrder

\* The sleep timers touch their sessions in the order of the deadlines.
LEMMA TimersOrder ==
    ASSUME TypeOK, TouchOrder, NEW p \in Callers, ApplyDueSleepTimers(p)
    PROVE  TouchOrder'
<1> DEFINE moved == {s \in DueSessions : ~session[s].seen}
           Later(x, y) == \/ session[x].timer > session[y].timer
                          \/ session[x].timer = session[y].timer /\ x > y
<1>0. DOMAIN session' = DOMAIN session
  BY DEF ApplyDueSleepTimers
<1>1. \A x \in DOMAIN session : x \in Nat /\ session[x].timer \in Nat
  BY ConstantAssumption DEF TypeOK, SessionsOK, SessionRows
<1>2. moved \subseteq DOMAIN session
  BY DEF DueSessions
<1>3. newer' = {e \in newer : e[1] \notin moved /\ e[2] \notin moved}
               \cup (moved \X (DOMAIN session \ moved))
               \cup {e \in moved \X moved :
                        \/ session[e[1]].timer > session[e[2]].timer
                        \/ /\ session[e[1]].timer = session[e[2]].timer
                           /\ e[1] > e[2]}
  BY DEF ApplyDueSleepTimers
<1> HIDE DEF moved
<1>4. \A x, y \in DOMAIN session :
         <<x, y>> \in newer' <=>
            \/ x \notin moved /\ y \notin moved /\ <<x, y>> \in newer
            \/ x \in moved /\ y \notin moved
            \/ x \in moved /\ y \in moved /\ Later(x, y)
  <2> SUFFICES ASSUME NEW x \in DOMAIN session, NEW y \in DOMAIN session
               PROVE  <<x, y>> \in newer' <=>
                         \/ x \notin moved /\ y \notin moved /\ <<x, y>> \in newer
                         \/ x \in moved /\ y \notin moved
                         \/ x \in moved /\ y \in moved /\ Later(x, y)
    OBVIOUS
  <2>1. <<x, y>> \in {e \in newer : e[1] \notin moved /\ e[2] \notin moved}
           <=> x \notin moved /\ y \notin moved /\ <<x, y>> \in newer
    OBVIOUS
  <2>2. <<x, y>> \in moved \X (DOMAIN session \ moved) <=> x \in moved /\ y \notin moved
    OBVIOUS
  <2>3. <<x, y>> \in {e \in moved \X moved :
                         \/ session[e[1]].timer > session[e[2]].timer
                         \/ /\ session[e[1]].timer = session[e[2]].timer
                            /\ e[1] > e[2]}
           <=> x \in moved /\ y \in moved /\ Later(x, y)
    OBVIOUS
  <2> HIDE DEF Later
  <2> QED BY <1>3, <2>1, <2>2, <2>3
<1>5. \A x, y \in DOMAIN session : x # y => Later(x, y) \/ Later(y, x)
  BY <1>1
<1>6. \A x \in DOMAIN session : ~Later(x, x)
  BY <1>1
<1>7. \A x, y, z \in DOMAIN session : Later(x, y) /\ Later(y, z) => Later(x, z)
  BY <1>1
<1> HIDE DEF Later
<1>8. \A x, y \in DOMAIN session : x # y => <<x, y>> \in newer' \/ <<y, x>> \in newer'
  BY <1>4, <1>5 DEF TouchOrder
<1>9. \A x \in DOMAIN session : <<x, x>> \notin newer'
  BY <1>4, <1>6 DEF TouchOrder
<1>10. \A x, y, z \in DOMAIN session :
          <<x, y>> \in newer' /\ <<y, z>> \in newer' => <<x, z>> \in newer'
  BY <1>4, <1>7 DEF TouchOrder
<1> QED BY <1>0, <1>8, <1>9, <1>10 DEF TouchOrder

LEMMA OrderStep == TypeOK /\ TouchOrder /\ [Next]_vars => TouchOrder'
<1> SUFFICES ASSUME TypeOK, TouchOrder, [Next]_vars PROVE TouchOrder'
  OBVIOUS
<1>0. SessionsOK
  BY DEF TypeOK
<1>1. ASSUME newer' = newer, DOMAIN session' = DOMAIN session PROVE TouchOrder'
  BY <1>1 DEF TouchOrder
<1>2. ASSUME NEW s \in DOMAIN session, newer' = Front(s) \/ newer' = newer,
             DOMAIN session' = DOMAIN session
      PROVE  TouchOrder'
  BY <1>0, <1>1, <1>2, FrontOrder
<1>3. CASE UNCHANGED vars \/ Tick
  BY <1>1, <1>3 DEF vars, Tick
<1>4. ASSUME NEW p \in Callers, SessionStep(p) PROVE TouchOrder'
  <2>1. CASE \E s \in Sessions \cup {0} : Open(p, s)
    BY <1>1, <2>1 DEF Open
  <2>2. CASE \/ Return(p) \/ InboxSelect(p) \/ InboxResumable(p)
             \/ \E t \in Targets : \/ RegisterTarget(p, t)
                                   \/ CheckTarget(p, t)
                                   \/ OpenEndpointSession(p, t)
                                   \/ InboxRegister(p, t)
    BY <1>1, <2>2 DEF Return, InboxSelect, InboxResumable, RegisterTarget,
                      CheckTarget, OpenEndpointSession, InboxRegister
  <2>3. ASSUME NEW s \in Sessions, NEW a \in Actors, NEW q \in Queues,
               NEW i \in DOMAIN q, CreateSession(p, s, a, q, i)
        PROVE  TouchOrder'
    <3>1. newer' = Front(s) /\ DOMAIN session' = DOMAIN session \cup {s}
      BY <2>3, CreateFollows DEF CreateSession
    <3> QED BY <1>0, <3>1, FrontOrder
  <2>4. CASE InboxReattach(p)
    <3>1. call[p].session \in DOMAIN session
      BY <2>4 DEF InboxReattach, TypeOK, CallsOK
    <3>2. newer' = Front(call[p].session) /\ DOMAIN session' = DOMAIN session
      BY <2>4 DEF InboxReattach
    <3> QED BY <1>2, <3>1, <3>2
  <2> QED BY <1>4, <2>1, <2>2, <2>3, <2>4 DEF SessionStep
<1>5. ASSUME NEW p \in Callers, ControllerStep(p) PROVE TouchOrder'
  <2>1. ASSUME NEW a, NEW key, NEW kind, NEW t, NEW seconds,
               Command(p, a, key, kind, t, seconds)
        PROVE  TouchOrder'
    <3>1. /\ call[p].session \in DOMAIN session /\ DOMAIN session' = DOMAIN session
          /\ newer' = Front(call[p].session) \/ newer' = newer
      BY <2>1 DEF Command, TouchIfUnseen
    <3> QED BY <1>2, <3>1
  <2>2. ASSUME NEW a, NEW q, NEW index, UpdateQueue(p, a, q, index)
        PROVE  TouchOrder'
    <3>1. /\ call[p].session \in DOMAIN session /\ DOMAIN session' = DOMAIN session
          /\ newer' = Front(call[p].session) \/ newer' = newer
      BY <2>2 DEF UpdateQueue, TouchIfUnseen
    <3> QED BY <1>2, <3>1
  <2> QED BY <1>5, <2>1, <2>2 DEF ControllerStep
<1>6. ASSUME NEW p \in Callers, EndpointStep(p) PROVE TouchOrder'
  <2>1. ASSUME NEW state, Checkpoint(p, state) PROVE TouchOrder'
    <3>1. /\ call[p].session \in DOMAIN session /\ DOMAIN session' = DOMAIN session
          /\ newer' = Front(call[p].session) \/ newer' = newer
      BY <2>1 DEF Checkpoint, TouchIfUnseen
    <3> QED BY <1>2, <3>1
  <2>2. ASSUME NEW k, NEW status, AcknowledgeCommand(p, k, status) PROVE TouchOrder'
    BY <1>1, <2>2 DEF AcknowledgeCommand
  <2>3. CASE ApplyDueSleepTimers(p)
    BY <2>3, TimersOrder
  <2>4. ASSUME NEW t, NEW revision, NEW ack, NEW obs, NEW authority,
               Reconcile(p, t, revision, ack, obs, authority)
        PROVE  TouchOrder'
    <3>1. /\ call[p].session \in DOMAIN session /\ DOMAIN session' = DOMAIN session
          /\ newer' = Front(call[p].session)
      BY <2>4 DEF Reconcile
    <3> QED BY <1>2, <3>1
  <2> QED BY <1>6, <2>1, <2>2, <2>3, <2>4 DEF EndpointStep
<1> QED BY <1>3, <1>4, <1>5, <1>6 DEF Next

\* The repair: what it leaves, and that it leaves one.
LEMMA RepairEffect ==
    ASSUME TypeOK, TouchOrder, NEW p \in Callers, NEW s0, Open(p, s0)
    PROVE  /\ OneAttached'
           /\ \A s \in DOMAIN session : Attached(s) =>
                 \E r \in DOMAIN session' :
                    session'[r].target = session[s].target
                    /\ session'[r].state \notin Detached
<1>1. /\ DOMAIN session' = DOMAIN session
      /\ \A r \in DOMAIN session :
            session'[r] = IF r \in Surplus THEN Supersede(session[r]) ELSE session[r]
  BY DEF Open
<1>2. \A r \in DOMAIN session : session[r] \in SessionRows
  BY DEF TypeOK, SessionsOK
<1>3. ASSUME NEW r \in Surplus PROVE session'[r].state = "superseded"
  <2>1. r \in DOMAIN session /\ session'[r] = Supersede(session[r])
    BY <1>1, <1>3 DEF Surplus
  <2> QED BY <1>2, <2>1 DEF Supersede, SessionRows
<1>4. ASSUME NEW r \in DOMAIN session, session'[r].state \notin Detached
      PROVE  Attached(r) /\ r \notin Surplus /\ session'[r] = session[r]
  BY <1>1, <1>3, <1>4 DEF Attached, Detached
<1>5. ASSUME NEW s \in DOMAIN session, NEW r \in DOMAIN session,
             Attached(s), Attached(r), session[s].target = session[r].target, s # r
      PROVE  s \in Surplus \/ r \in Surplus
  <2>1. Precedes(s, r) \/ Precedes(r, s)
    BY <1>5 DEF Precedes, TouchOrder
  <2> QED BY <1>5, <2>1 DEF Surplus
<1>6. OneAttached'
  <2> SUFFICES ASSUME NEW s \in DOMAIN session, NEW r \in DOMAIN session,
                      session'[s].state \notin Detached,
                      session'[r].state \notin Detached,
                      session'[s].target = session'[r].target
               PROVE  s = r
    BY <1>1 DEF OneAttached, Attached
  <2> QED BY <1>4, <1>5
<1>7. ASSUME NEW s \in DOMAIN session, Attached(s)
      PROVE  \E r \in DOMAIN session' :
                session'[r].target = session[s].target
                /\ session'[r].state \notin Detached
  <2> DEFINE A == {r \in DOMAIN session :
                      Attached(r) /\ session[r].target = session[s].target}
             Playing == {r \in A : session[r].state # "stopped"}
             T == IF Playing = {} THEN A ELSE Playing
  <2>1. T \in SUBSET DOMAIN session /\ T # {} /\ T \subseteq A
    BY <1>7
  <2>2. PICK m \in T : \A x \in T \ {m} : <<m, x>> \in newer
    <3> HIDE DEF T
    <3> QED BY <2>1, LatestTouched
  <2>3. m \notin Surplus
    <3> SUFFICES ASSUME NEW x \in DOMAIN session \ {m}, Attached(x),
                        session[x].target = session[m].target, Precedes(x, m)
                 PROVE  FALSE
      BY DEF Surplus
    <3>1. x \in A
      BY <2>1
    <3>2. x \in T
      BY <2>2, <3>1 DEF Precedes
    <3>3. <<m, x>> \in newer
      BY <2>2, <3>2
    <3>4. <<x, m>> \in newer
      BY <2>2, <3>2 DEF Precedes
    <3> QED BY <2>1, <3>3, <3>4 DEF TouchOrder
  <2>4. session'[m] = session[m]
    BY <1>1, <2>1, <2>3
  <2> QED BY <1>1, <2>1, <2>4 DEF Attached
<1> QED BY <1>6, <1>7

\* Opening the repository leaves exactly one attached session with every target
\* that had any, in whatever order handoffs, resumed sessions, sleep timers and
\* reports touched its sessions before: no target is ever repaired down to none.
THEOREM RepairLeavesOne == Spec => RepairKeepsOne
<1>1. TypeOK /\ TouchOrder /\ [Next]_vars =>
         [\A p \in Callers :
             call[p].pc = "idle" /\ call'[p].pc = "open" =>
                /\ OneAttached'
                /\ \A s \in DOMAIN session : Attached(s) =>
                      \E r \in DOMAIN session' :
                         session'[r].target = session[s].target
                         /\ session'[r].state \notin Detached]_vars
  <2> SUFFICES ASSUME TypeOK, TouchOrder, [Next]_vars, NEW p \in Callers,
                      call[p].pc = "idle", call'[p].pc = "open"
               PROVE  /\ OneAttached'
                      /\ \A s \in DOMAIN session : Attached(s) =>
                            \E r \in DOMAIN session' :
                               session'[r].target = session[s].target
                               /\ session'[r].state \notin Detached
    OBVIOUS
  <2>1. PICK s \in Sessions \cup {0} : Open(p, s)
    BY CallSteps
  <2> QED BY <2>1, RepairEffect
<1>2. Init => TouchOrder
  BY FS_EmptySet DEF Init, TouchOrder
<1> QED BY <1>1, <1>2, OrderStep, TypeCorrect, PTL DEF Spec, RepairKeepsOne

=============================================================================
