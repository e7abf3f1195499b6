------------------------- MODULE MediaControlProofs -------------------------
(* MediaControl, for every value of its constants: the types of its tables  *)
(* and calls; the command log, whose revisions have neither gap nor         *)
(* duplicate, and its acknowledgement; without handoffs, CommandStream.     *)
EXTENDS MediaControlStream, TLAPS

-----------------------------------------------------------------------------
(* Types of the helpers *)

LEMMA SkipType ==
    ASSUME NEW r \in SessionRows, NEW kind
    PROVE  Skip(r, kind) \in SessionRows
<1> DEFINE nearest == Nearest(Ahead(r, kind), kind)
           i == CHOOSE i \in nearest : TRUE
<1>1. CASE nearest = {}
  BY <1>1 DEF Skip
<1>2. CASE nearest # {}
  <2>1. i \in nearest
    BY <1>2
  <2>2. i \in DOMAIN r.queue
    BY <2>1 DEF Nearest, Ahead
  <2>3. r.queue \in Seq(Items)
    BY QueueAssumption DEF SessionRows
  <2>4. i \in Nat /\ r.queue[i] \in Items
    BY <2>2, <2>3
  <2>5. Skip(r, kind) = [r EXCEPT !.index = i, !.item = r.queue[i],
                       !.state = IF @ \in {"requested", "playing", "loading",
                                           "buffering", "recovering"}
                                 THEN "playing" ELSE @]
    BY <1>2 DEF Skip
  <2> QED BY <2>4, <2>5 DEF SessionRows, States
<1> QED BY <1>1, <1>2

LEMMA UpdatedType ==
    ASSUME NEW r \in SessionRows, NEW kind, NEW t, NEW seconds \in Nat,
           now \in Nat, kind = "handoff" => t \in Targets
    PROVE  Updated(r, kind, t, seconds) \in SessionRows
<1>1. CASE kind \in {"play", "pause", "stop"}
  BY <1>1 DEF Updated, SessionRows, States
<1>2. CASE kind \in {"next", "previous"}
  BY <1>2, SkipType DEF Updated
<1>3. CASE kind = "sleep_timer"
  BY <1>3 DEF Updated, SessionRows
<1>4. CASE kind = "handoff"
  BY <1>4 DEF Updated, SessionRows, States
<1>5. CASE kind \notin {"play", "pause", "stop", "next", "previous",
                        "sleep_timer", "handoff"}
  BY <1>5 DEF Updated
<1> QED BY <1>1, <1>2, <1>3, <1>4, <1>5

LEMMA SupersedeType ==
    ASSUME NEW r \in SessionRows
    PROVE  Supersede(r) \in SessionRows
<1>1. "superseded" \in States
  BY DEF States, Detached
<1>2. r.revision + 1 \in Nat
  BY DEF SessionRows
<1> QED BY <1>1, <1>2 DEF Supersede, SessionRows

LEMMA NewSessionType ==
    ASSUME NEW t \in Targets, NEW a \in Actors, NEW q \in Queues,
           NEW i \in DOMAIN q, now \in Nat
    PROVE  NewSession(t, a, q, i) \in SessionRows
<1>1. q \in Seq(Items)
  BY QueueAssumption
<1>2. i \in Nat /\ q[i] \in Items
  BY <1>1
<1> QED BY <1>2, ConstantAssumption DEF NewSession, SessionRows, States

LEMMA FrontType ==
    ASSUME SessionsOK, NEW s \in DOMAIN session
    PROVE  Front(s) \subseteq (DOMAIN session) \X (DOMAIN session)
BY DEF Front, SessionsOK

LEMMA PutFact ==
    ASSUME NEW f, NEW x, NEW v
    PROVE  /\ DOMAIN Put(f, x, v) = DOMAIN f \cup {x}
           /\ Put(f, x, v)[x] = v
           /\ \A y \in DOMAIN f : y # x => Put(f, x, v)[y] = f[y]
BY DEF Put

-----------------------------------------------------------------------------
(* Types of the state *)

\* Only the callers' pcs, sessions and targets matter to the frame of a call.
LEMMA FinishCalls ==
    ASSUME TypeOK, NEW p \in Callers, call' = [call EXCEPT ![p] = Idle],
           DOMAIN session \subseteq DOMAIN session',
           DOMAIN target \subseteq DOMAIN target'
    PROVE  CallsOK'
<1>1. Idle \in Calls
  BY DEF Idle, Calls, Views, NoView, States, Detached
<1>2. call' \in [Callers -> Calls]
  BY <1>1 DEF TypeOK, CallsOK
<1>3. ASSUME NEW q \in Callers
      PROVE  /\ call'[q].session \in DOMAIN session' \cup {0}
             /\ call'[q].pc \notin {"idle", "open"} => call'[q].target \in DOMAIN target'
             /\ call'[q].pc \in {"resume", "reattach"} => call'[q].session # 0
  BY <1>3 DEF TypeOK, CallsOK, Idle
<1> QED BY <1>2, <1>3 DEF CallsOK

\* A call goes on to its next transaction.
LEMMA AdvanceCalls ==
    ASSUME TypeOK, NEW p \in Callers, NEW c \in Calls,
           call' = [call EXCEPT ![p] = c],
           c.session \in DOMAIN session' \cup {0},
           c.pc \notin {"idle", "open"} => c.target \in DOMAIN target',
           c.pc \in {"resume", "reattach"} => c.session # 0,
           DOMAIN session \subseteq DOMAIN session',
           DOMAIN target \subseteq DOMAIN target'
    PROVE  CallsOK'
<1>1. call' \in [Callers -> Calls]
  BY DEF TypeOK, CallsOK
<1>2. ASSUME NEW q \in Callers
      PROVE  /\ call'[q].session \in DOMAIN session' \cup {0}
             /\ call'[q].pc \notin {"idle", "open"} => call'[q].target \in DOMAIN target'
             /\ call'[q].pc \in {"resume", "reattach"} => call'[q].session # 0
  BY <1>2 DEF TypeOK, CallsOK
<1> QED BY <1>1, <1>2 DEF CallsOK

LEMMA RegisterTargets ==
    ASSUME TypeOK, NEW t \in Targets, Register(t)
    PROVE  /\ DOMAIN target' = DOMAIN target \cup {t}
           /\ DOMAIN target' \subseteq Targets
           /\ \A x \in DOMAIN target' : target'[x] \in Nat
BY DEF TypeOK, Register, Put

\* One row of an existing session is replaced.
LEMMA OneSession ==
    ASSUME TypeOK, NEW s \in DOMAIN session, NEW r \in SessionRows,
           session' = [session EXCEPT ![s] = r],
           newer' = newer \/ newer' = Front(s)
    PROVE  SessionsOK' /\ DOMAIN session' = DOMAIN session
BY FrontType DEF TypeOK, SessionsOK

\* A step of one call leaves the types intact once its own rows have them.
LEMMA TypeInit == Init => TypeOK
<1> SUFFICES ASSUME Init PROVE TypeOK
  OBVIOUS
<1>1. Idle \in Calls
  BY DEF Idle, Calls, Views, NoView, States, Detached
<1>2. CallsOK
  BY <1>1 DEF Init, CallsOK, Idle
<1> QED BY <1>2 DEF Init, TypeOK, SessionsOK, CommandsOK

\* Every session of S is superseded, the others are left alone.
LEMMA SupersedeSome ==
    ASSUME TypeOK, NEW S,
           session' = [r \in DOMAIN session |->
                         IF r \in S THEN Supersede(session[r]) ELSE session[r]],
           newer' = newer
    PROVE  SessionsOK' /\ DOMAIN session' = DOMAIN session
BY SupersedeType DEF TypeOK, SessionsOK

LEMMA OpenType ==
    ASSUME TypeOK, NEW p \in Callers, NEW s, Open(p, s)
    PROVE  TypeOK'
<1>1. SessionsOK' /\ DOMAIN session' = DOMAIN session
  BY SupersedeSome DEF Open
<1>2. s \in DOMAIN session => View(s) \in Views
  BY DEF TypeOK, SessionsOK, SessionRows, View, Views
<1>3. NoView \in Views
  BY DEF NoView, Views, States, Detached
<1> DEFINE c == [call[p] EXCEPT !.pc = "open", !.session = s,
                               !.view = IF s = 0 THEN NoView ELSE View(s)]
<1>4. s \in DOMAIN session \cup {0} /\ DOMAIN session \subseteq Sessions
  BY DEF Open, TypeOK, SessionsOK
<1>5. c \in Calls /\ c.pc = "open" /\ c.session = s
  BY <1>2, <1>3, <1>4 DEF TypeOK, CallsOK, Calls
<1>6. call' = [call EXCEPT ![p] = c]
  BY DEF Open
<1> HIDE DEF c
<1>7. CallsOK'
  BY <1>1, <1>4, <1>5, <1>6, AdvanceCalls DEF Open
<1> QED BY <1>1, <1>7 DEF TypeOK, CommandsOK, Open

LEMMA ReturnType ==
    ASSUME TypeOK, NEW p \in Callers, Return(p)
    PROVE  TypeOK'
<1>1. CallsOK'
  BY FinishCalls DEF Return
<1> QED BY <1>1 DEF TypeOK, SessionsOK, CommandsOK, Return

LEMMA TargetStepsType ==
    ASSUME TypeOK, NEW p \in Callers, NEW t \in Targets,
           \/ RegisterTarget(p, t)
           \/ CheckTarget(p, t)
           \/ OpenEndpointSession(p, t)
           \/ InboxRegister(p, t)
    PROVE  TypeOK'
<1>a. call[p] \in Calls /\ call[p].session \in DOMAIN session \cup {0}
  BY DEF TypeOK, CallsOK
<1>0. ASSUME NEW pc \in {"create", "inbox"}
      PROVE  /\ [call[p] EXCEPT !.pc = pc, !.target = t] \in Calls
             /\ [call[p] EXCEPT !.pc = pc, !.target = t].session = call[p].session
             /\ [call[p] EXCEPT !.pc = pc, !.target = t].target = t
             /\ [call[p] EXCEPT !.pc = pc, !.target = t].pc = pc
  BY <1>a, <1>0 DEF Calls
<1>1. CASE RegisterTarget(p, t)
  <2>1. /\ DOMAIN target' = DOMAIN target \cup {t}
        /\ DOMAIN target' \subseteq Targets
        /\ \A x \in DOMAIN target' : target'[x] \in Nat
    BY <1>1, RegisterTargets DEF RegisterTarget
  <2>2. CallsOK'
    BY <1>1, <2>1, FinishCalls DEF RegisterTarget, Finish
  <2> QED BY <1>1, <2>1, <2>2 DEF RegisterTarget, TypeOK, SessionsOK, CommandsOK
<1>2. CASE CheckTarget(p, t)
  <2>1. CallsOK'
    BY <1>a, <1>0, <1>2, AdvanceCalls DEF CheckTarget, Available
  <2> QED BY <1>2, <2>1 DEF CheckTarget, TypeOK, SessionsOK, CommandsOK
<1>3. CASE OpenEndpointSession(p, t)
  <2>1. /\ DOMAIN target' = DOMAIN target \cup {t}
        /\ DOMAIN target' \subseteq Targets
        /\ \A x \in DOMAIN target' : target'[x] \in Nat
    BY <1>3, RegisterTargets DEF OpenEndpointSession
  <2>2. CallsOK'
    BY <1>a, <1>0, <1>3, <2>1, AdvanceCalls DEF OpenEndpointSession
  <2> QED BY <1>3, <2>1, <2>2 DEF OpenEndpointSession, TypeOK, SessionsOK, CommandsOK
<1>4. CASE InboxRegister(p, t)
  <2>1. /\ DOMAIN target' = DOMAIN target \cup {t}
        /\ DOMAIN target' \subseteq Targets
        /\ \A x \in DOMAIN target' : target'[x] \in Nat
    BY <1>4, RegisterTargets DEF InboxRegister
  <2>2. CallsOK'
    BY <1>a, <1>0, <1>4, <2>1, AdvanceCalls DEF InboxRegister
  <2> QED BY <1>4, <2>1, <2>2 DEF InboxRegister, TypeOK, SessionsOK, CommandsOK
<1> QED BY <1>1, <1>2, <1>3, <1>4

LEMMA CreateSessionType ==
    ASSUME TypeOK, NEW p \in Callers, NEW s \in Sessions, NEW a \in Actors,
           NEW q \in Queues, NEW i \in DOMAIN q, CreateSession(p, s, a, q, i)
    PROVE  TypeOK'
<1> DEFINE t == call[p].target
           retired == {r \in DOMAIN session : Attached(r) /\ session[r].target = t}
           before == [r \in DOMAIN session |->
                        IF r \in retired THEN Supersede(session[r]) ELSE session[r]]
<1>1. t \in Targets
  BY DEF CreateSession, TypeOK, CallsOK
<1>2. NewSession(t, a, q, i) \in SessionRows
  BY <1>1, NewSessionType DEF TypeOK
<1>3. \A r \in DOMAIN session : before[r] \in SessionRows
  BY SupersedeType DEF TypeOK, SessionsOK
<1>4. session' = Put(before, s, NewSession(t, a, q, i))
  BY DEF CreateSession
<1>5. /\ DOMAIN session' = DOMAIN session \cup {s}
      /\ \A r \in DOMAIN session' : session'[r] \in SessionRows
  BY <1>2, <1>3, <1>4 DEF Put
<1>6. newer' \subseteq (DOMAIN session') \X (DOMAIN session')
  BY <1>5 DEF CreateSession, Front, TypeOK, SessionsOK
<1>7. SessionsOK'
  BY <1>5, <1>6 DEF SessionsOK, TypeOK
<1>8. CallsOK'
  BY <1>5, FinishCalls DEF CreateSession
<1> QED BY <1>7, <1>8 DEF TypeOK, CommandsOK, CreateSession

LEMMA InboxType ==
    ASSUME TypeOK, NEW p \in Callers,
           InboxSelect(p) \/ InboxResumable(p) \/ InboxReattach(p)
    PROVE  TypeOK'
<1>a. call[p] \in Calls /\ call[p].session \in DOMAIN session \cup {0}
  BY DEF TypeOK, CallsOK
<1>b. ASSUME NEW pc \in {"resume", "reattach"}
      PROVE  /\ [call[p] EXCEPT !.pc = pc] \in Calls
             /\ [call[p] EXCEPT !.pc = pc].session = call[p].session
             /\ [call[p] EXCEPT !.pc = pc].target = call[p].target
  BY <1>a, <1>b DEF Calls
<1>1. CASE InboxSelect(p)
  <2>1. CASE Assignable(call[p].target) = {} /\ call[p].session # 0
    <3>1. call' = [call EXCEPT ![p] = [call[p] EXCEPT !.pc = "resume"]]
      BY <1>1, <2>1 DEF InboxSelect, TypeOK, CallsOK
    <3>2. call[p].target \in DOMAIN target
      BY <1>1 DEF InboxSelect, TypeOK, CallsOK
    <3>3. CallsOK'
      BY <1>a, <1>b, <1>1, <2>1, <3>1, <3>2, AdvanceCalls DEF InboxSelect
    <3> QED BY <1>1, <3>3 DEF InboxSelect, TypeOK, SessionsOK, CommandsOK
  <2>2. CASE ~(Assignable(call[p].target) = {} /\ call[p].session # 0)
    <3>1. call' = [call EXCEPT ![p] = Idle]
      BY <1>1, <2>2 DEF InboxSelect, TypeOK, CallsOK
    <3>2. CallsOK'
      BY <1>1, <3>1, FinishCalls DEF InboxSelect
    <3> QED BY <1>1, <3>2 DEF InboxSelect, TypeOK, SessionsOK, CommandsOK
  <2> QED BY <2>1, <2>2
<1>2. CASE InboxResumable(p)
  <2>1. \/ call' = [call EXCEPT ![p] = Idle]
        \/ call' = [call EXCEPT ![p] = [call[p] EXCEPT !.pc = "reattach"]]
    BY <1>2 DEF InboxResumable, TypeOK, CallsOK
  <2>2. call[p].target \in DOMAIN target /\ call[p].session # 0
    BY <1>2 DEF InboxResumable, TypeOK, CallsOK
  <2>3. UNCHANGED <<now, target, session, newer, command, observation>>
    BY <1>2 DEF InboxResumable
  <2>4. ASSUME call' = [call EXCEPT ![p] = Idle] PROVE CallsOK'
    BY <2>3, <2>4, FinishCalls
  <2>5. ASSUME call' = [call EXCEPT ![p] = [call[p] EXCEPT !.pc = "reattach"]]
        PROVE  CallsOK'
    BY <1>a, <1>b, <2>2, <2>3, <2>5, AdvanceCalls
  <2>6. CallsOK'
    BY <2>1, <2>4, <2>5
  <2> QED BY <2>3, <2>6 DEF TypeOK, SessionsOK, CommandsOK
<1>3. CASE InboxReattach(p)
  <2> DEFINE known == call[p].session
             parked == [session[known] EXCEPT !.state = "stopped", !.seen = TRUE]
  <2>1. known \in DOMAIN session
    BY <1>a, <1>3 DEF InboxReattach, TypeOK, CallsOK
  <2>2. parked \in SessionRows
    <3>1. session[known] \in SessionRows
      BY <2>1 DEF TypeOK, SessionsOK
    <3>2. ASSUME NEW row \in SessionRows
          PROVE  [row EXCEPT !.state = "stopped", !.seen = TRUE] \in SessionRows
      BY DEF SessionRows, States
    <3> QED BY <3>1, <3>2
  <2>3. DOMAIN session' = DOMAIN session
    BY <1>3 DEF InboxReattach
  <2>4. ASSUME NEW r \in DOMAIN session
        PROVE  session'[r] \in SessionRows
    <3>1. session[r] \in SessionRows
      BY DEF TypeOK, SessionsOK
    <3>2. \/ session'[r] = session[r]
          \/ session'[r] = Supersede(session[r])
          \/ session'[r] = parked
      BY <1>3 DEF InboxReattach
    <3> QED BY <2>2, <3>1, <3>2, SupersedeType
  <2>5. newer' = Front(known)
    BY <1>3 DEF InboxReattach
  <2>6. newer' \subseteq (DOMAIN session) \X (DOMAIN session)
    BY <2>1, <2>5, FrontType DEF TypeOK
  <2>7. SessionsOK'
    BY <2>3, <2>4, <2>6 DEF TypeOK, SessionsOK
  <2>8. UNCHANGED <<now, target, command, observation>>
        /\ call' = [call EXCEPT ![p] = Idle]
    BY <1>3 DEF InboxReattach
  <2>9. CallsOK'
    BY <2>3, <2>8, FinishCalls
  <2>10. CommandsOK'
    BY <2>8 DEF TypeOK, CommandsOK
  <2> QED BY <2>7, <2>8, <2>9, <2>10 DEF TypeOK
<1> QED BY <1>1, <1>2, <1>3

\* A new row is logged under a key of the right kind.
LEMMA LogRow ==
    ASSUME TypeOK, NEW f, DOMAIN f = DOMAIN command,
           \A k \in DOMAIN f : f[k] \in CommandRows,
           NEW key \in {ClientKey(k) : k \in Keys}
                       \cup {SleepKey(s, d) : s \in Sessions, d \in 0 .. now},
           NEW row \in CommandRows, now' = now, command' = Put(f, key, row)
    PROVE  CommandsOK'
BY DEF TypeOK, CommandsOK, Put

LEMMA CoalescedType ==
    ASSUME TypeOK, NEW s, NEW kind
    PROVE  /\ DOMAIN Coalesced(s, kind) = DOMAIN command
           /\ \A k \in DOMAIN command : Coalesced(s, kind)[k] \in CommandRows
<1>1. \A k \in DOMAIN command :
         /\ command[k] \in CommandRows
         /\ [command[k] EXCEPT !.status = "superseded"] \in CommandRows
  BY DEF TypeOK, CommandsOK, CommandRows
<1> QED BY <1>1 DEF Coalesced

LEMMA CommandType ==
    ASSUME TypeOK, NEW p \in Callers, NEW a \in Actors, NEW key \in Keys,
           NEW kind \in Commands, NEW t, kind = "handoff" => t \in Targets,
           NEW seconds \in Nat, Command(p, a, key, kind, t, seconds)
    PROVE  TypeOK'
<1> DEFINE s == call[p].session
           r == session[s]
           n == r.command_revision + 1
           u == Updated(r, kind, t, seconds)
           w == [u EXCEPT !.revision = r.revision + 1, !.command_revision = n,
                          !.holder = a, !.lease = now + LeaseTerm]
<1>1. s \in DOMAIN session /\ s \in Sessions /\ r \in SessionRows
  BY DEF Command, TypeOK, SessionsOK
<1>2. u \in SessionRows
  BY <1>1, UpdatedType DEF TypeOK
<1>3. n \in Nat \ {0} /\ r.revision + 1 \in Nat /\ now + LeaseTerm \in Nat
      /\ r.target \in Targets
  BY <1>1, ConstantAssumption DEF SessionRows, TypeOK
<1>4. w \in SessionRows
  <2> HIDE DEF u, n
  <2> QED BY <1>2, <1>3 DEF SessionRows
<1>5. session' = [session EXCEPT ![s] = w]
  BY DEF Command
<1>6. newer' = newer \/ newer' = Front(s)
  BY DEF Command, TouchIfUnseen
<1>7. SessionsOK' /\ DOMAIN session' = DOMAIN session
  <2> HIDE DEF w
  <2> QED BY <1>1, <1>4, <1>5, <1>6, OneSession
<1>8. Row(s, r.target, a, kind, n) \in CommandRows
  BY <1>1, <1>3, ConstantAssumption DEF Row, CommandRows
<1>9. CommandsOK'
  <2>1. command' = Put(Coalesced(s, kind), ClientKey(key), Row(s, r.target, a, kind, n))
    BY DEF Command
  <2>2. now' = now
    BY DEF Command
  <2> HIDE DEF n, r
  <2> QED BY <1>8, <2>1, <2>2, CoalescedType, LogRow
<1>10. CallsOK'
  BY <1>7, FinishCalls DEF Command, Finish
<1> QED BY <1>7, <1>9, <1>10 DEF Command, TypeOK

LEMMA UpdateQueueType ==
    ASSUME TypeOK, NEW p \in Callers, NEW a \in Actors, NEW q \in Queues,
           NEW index \in {0} \cup DOMAIN q, UpdateQueue(p, a, q, index)
    PROVE  TypeOK'
<1> DEFINE s == call[p].session
           r == session[s]
           wanted == IF index = 0 THEN r.index ELSE index
           i == IF wanted \in DOMAIN q THEN wanted ELSE Len(q)
           selected == index # 0 \/ q[i] # r.item
           state == IF selected THEN "ready" ELSE r.state
           w == [r EXCEPT !.queue = q, !.index = i, !.item = q[i],
                          !.queue_revision = @ + 1, !.revision = @ + 1,
                          !.state = state]
<1>1. s \in DOMAIN session /\ r \in SessionRows
  BY DEF UpdateQueue, TypeOK, SessionsOK
<1>2. q \in Seq(Items) /\ q # <<>>
  BY QueueAssumption
<1>3. i \in DOMAIN q
  BY <1>2
<1>4. i \in Nat /\ q[i] \in Items
  BY <1>2, <1>3
<1>5. w \in SessionRows
  <2>1. \A st \in {r.state, "ready"} : st \in States
    BY <1>1 DEF SessionRows, States
  <2>2. state \in States
    BY <2>1
  <2>3. r.queue_revision + 1 \in Nat /\ r.revision + 1 \in Nat
    BY <1>1 DEF SessionRows
  <2> HIDE DEF i, state, r
  <2> QED BY <1>1, <1>4, <2>2, <2>3 DEF SessionRows
<1>6. session' = [session EXCEPT ![s] = w]
  BY DEF UpdateQueue
<1>7. newer' = newer \/ newer' = Front(s)
  BY DEF UpdateQueue, TouchIfUnseen
<1>8. SessionsOK' /\ DOMAIN session' = DOMAIN session
  <2> HIDE DEF w
  <2> QED BY <1>1, <1>5, <1>6, <1>7, OneSession
<1>9. CallsOK'
  BY <1>8, FinishCalls DEF UpdateQueue, Finish
<1> QED BY <1>8, <1>9 DEF UpdateQueue, TypeOK, CommandsOK

LEMMA CheckpointType ==
    ASSUME TypeOK, NEW p \in Callers, NEW state \in Reports, Checkpoint(p, state)
    PROVE  TypeOK'
<1> DEFINE s == call[p].session
           r == session[s]
           w == [r EXCEPT !.state = state, !.revision = @ + 1]
<1>1. s \in DOMAIN session /\ r \in SessionRows
  BY DEF Checkpoint, TypeOK, SessionsOK
<1>2. w \in SessionRows
  <2>1. state \in States
    BY ConstantAssumption
  <2>2. r.revision + 1 \in Nat
    BY <1>1 DEF SessionRows
  <2> HIDE DEF r
  <2> QED BY <1>1, <2>1, <2>2 DEF SessionRows
<1>3. session' = [session EXCEPT ![s] = w]
  BY DEF Checkpoint
<1>4. newer' = newer \/ newer' = Front(s)
  BY DEF Checkpoint, TouchIfUnseen
<1>5. SessionsOK' /\ DOMAIN session' = DOMAIN session
  <2> HIDE DEF w
  <2> QED BY <1>1, <1>2, <1>3, <1>4, OneSession
<1>6. CallsOK'
  BY <1>5, FinishCalls DEF Checkpoint, Finish
<1> QED BY <1>5, <1>6 DEF Checkpoint, TypeOK, CommandsOK

LEMMA AcknowledgeType ==
    ASSUME TypeOK, NEW p \in Callers, NEW k \in DOMAIN command,
           NEW status \in Outcomes, AcknowledgeCommand(p, k, status)
    PROVE  TypeOK'
<1>1. status \in {"applied", "rejected", "failed"}
  BY ConstantAssumption
<1>2. [command[k] EXCEPT !.status = status] \in CommandRows
  BY <1>1 DEF TypeOK, CommandsOK, CommandRows
<1>3. CommandsOK'
  BY <1>2 DEF AcknowledgeCommand, TypeOK, CommandsOK
<1>4. CallsOK'
  BY FinishCalls DEF AcknowledgeCommand, Finish
<1> QED BY <1>3, <1>4 DEF AcknowledgeCommand, TypeOK, SessionsOK

LEMMA TickType == TypeOK /\ Tick => TypeOK'
<1> SUFFICES ASSUME TypeOK, Tick PROVE TypeOK'
  OBVIOUS
<1>1. now' \in Nat /\ 0 .. now \subseteq 0 .. now'
  BY DEF Tick, TypeOK
<1>2. CommandsOK'
  <2>1. {SleepKey(s, d) : s \in Sessions, d \in 0 .. now}
           \subseteq {SleepKey(s, d) : s \in Sessions, d \in 0 .. now'}
    BY <1>1
  <2> QED BY <2>1 DEF TypeOK, CommandsOK, Tick
<1>3. CallsOK'
  BY DEF TypeOK, CallsOK, Tick
<1> QED BY <1>1, <1>2, <1>3 DEF TypeOK, SessionsOK, Tick

\* The rows the sleep timers log have a deadline in the past.
LEMMA TimersType ==
    ASSUME TypeOK, NEW p \in Callers, ApplyDueSleepTimers(p)
    PROVE  TypeOK'
<1> DEFINE keyOf(s) == SleepKey(s, session[s].timer)
           sessionOf(k) == CHOOSE s \in DueSessions : keyOf(s) = k
           pause(s) == Row(s, session[s].target, SystemActor, "pause",
                           session[s].command_revision + 1)
           slept(s) == [session[s] EXCEPT !.state = "paused", !.timer = 0,
                            !.revision = @ + 1, !.command_revision = @ + 1]
<1>1. /\ DOMAIN session' = DOMAIN session
      /\ \A s \in DOMAIN session : session'[s] = IF Due(s) THEN slept(s) ELSE session[s]
  BY DEF ApplyDueSleepTimers, Slept
<1>2. ASSUME NEW s \in DOMAIN session
      PROVE  session'[s] \in SessionRows
  <2>1. session[s] \in SessionRows
    BY DEF TypeOK, SessionsOK
  <2>2. slept(s) \in SessionRows
    <3>1. "paused" \in States /\ session[s].revision + 1 \in Nat
          /\ session[s].command_revision + 1 \in Nat
      BY <2>1 DEF SessionRows, States
    <3> DEFINE r == session[s]
    <3> HIDE DEF r
    <3>2. [r EXCEPT !.state = "paused", !.timer = 0, !.revision = @ + 1,
                    !.command_revision = @ + 1] \in SessionRows
      BY <2>1, <3>1 DEF SessionRows, r
    <3> QED BY <3>2 DEF r
  <2> QED BY <1>1, <2>1, <2>2
<1>3. DueSessions \subseteq DOMAIN session
  BY DEF DueSessions
<1>4. newer' \subseteq (DOMAIN session) \X (DOMAIN session)
  BY <1>3 DEF ApplyDueSleepTimers, TypeOK, SessionsOK
<1>5. SessionsOK'
  BY <1>1, <1>2, <1>4 DEF TypeOK, SessionsOK
<1>6. ASSUME NEW s \in DueSessions
      PROVE  /\ pause(s) \in CommandRows
             /\ s \in Sessions /\ session[s].timer \in 0 .. now
  <2>1. s \in Sessions /\ session[s] \in SessionRows
    BY <1>3 DEF TypeOK, SessionsOK
  <2>2. session[s].timer \in 0 .. now
    BY <2>1 DEF DueSessions, Due, SessionRows, TypeOK
  <2>3. session[s].command_revision + 1 \in Nat \ {0} /\ session[s].target \in Targets
    BY <2>1 DEF SessionRows
  <2> QED BY <2>1, <2>2, <2>3 DEF Row, CommandRows, AllCommands
<1>7. /\ DOMAIN command' = DOMAIN command \cup {keyOf(s) : s \in DueSessions}
      /\ \A k \in DOMAIN command' :
            command'[k] = IF k \in DOMAIN command THEN command[k]
                                                  ELSE pause(sessionOf(k))
  BY DEF ApplyDueSleepTimers
<1>8. ASSUME NEW k \in DOMAIN command'
      PROVE  command'[k] \in CommandRows
  <2>1. CASE k \in DOMAIN command
    BY <1>7, <2>1 DEF TypeOK, CommandsOK
  <2>2. CASE k \notin DOMAIN command
    <3>1. \E s \in DueSessions : keyOf(s) = k
      BY <1>7, <2>2
    <3>2. sessionOf(k) \in DueSessions
      BY <3>1
    <3> QED BY <1>6, <1>7, <2>2, <3>2
  <2> QED BY <2>1, <2>2
<1>9. now' = now
  BY DEF ApplyDueSleepTimers
<1>10. CommandsOK'
  BY <1>6, <1>7, <1>8, <1>9 DEF TypeOK, CommandsOK
<1>11. CallsOK'
  BY <1>1, FinishCalls DEF ApplyDueSleepTimers, Finish
<1> QED BY <1>5, <1>10, <1>11 DEF ApplyDueSleepTimers, TypeOK

LEMMA SettledType ==
    ASSUME TypeOK, NEW s, NEW t, NEW upTo
    PROVE  /\ DOMAIN Settled(s, t, upTo) = DOMAIN command
           /\ \A k \in DOMAIN command : Settled(s, t, upTo)[k] \in CommandRows
<1>1. \A k \in DOMAIN command :
         /\ command[k] \in CommandRows
         /\ [command[k] EXCEPT !.status = "applied"] \in CommandRows
  BY DEF TypeOK, CommandsOK, CommandRows
<1> QED BY <1>1 DEF Settled

LEMMA ReconcileType ==
    ASSUME TypeOK, NEW p \in Callers, NEW t \in Targets, NEW revision \in Nat,
           NEW ack \in Nat, NEW obs \in Observations(p), NEW authority,
           Reconcile(p, t, revision, ack, obs, authority)
    PROVE  TypeOK'
<1> DEFINE s == call[p].session
           r == session[s]
           upTo == Accepted(s, t, ack, obs)
           seen == [r EXCEPT !.observed = upTo, !.endpoint_revision = revision,
                             !.seen = TRUE, !.confirmed = obs.confirmed]
           i == CHOOSE i \in Ordinal(r.queue, obs.item) : TRUE
           advanced == [seen EXCEPT !.index = i, !.item = obs.item,
                                    !.state = obs.state, !.revision = @ + 1]
           moved == [seen EXCEPT !.state = obs.state, !.revision = @ + 1]
<1>1. s \in DOMAIN session /\ s \in Sessions /\ r \in SessionRows
  BY DEF Reconcile, Admitted, TypeOK, SessionsOK
<1>2. obs.item \in Items \cup {NoItem} /\ obs.state \in States /\ obs.confirmed \in BOOLEAN
  BY ConstantAssumption DEF Observations
<1>3. upTo \in Nat
  BY <1>1 DEF Accepted, SessionRows
<1>4. r.revision + 1 \in Nat
  BY <1>1 DEF SessionRows
<1>5. seen \in SessionRows /\ seen.revision = r.revision
  <2> HIDE DEF upTo, r
  <2> QED BY <1>1, <1>2, <1>3 DEF SessionRows
<1>6. moved \in SessionRows
  <2> HIDE DEF seen
  <2> QED BY <1>2, <1>4, <1>5 DEF SessionRows
<1>7. AdvanceAccepted(s, t, upTo, obs, authority) => advanced \in SessionRows
  <2> SUFFICES ASSUME AdvanceAccepted(s, t, upTo, obs, authority)
               PROVE  advanced \in SessionRows
    OBVIOUS
  <2>1. obs.item \in Items
    BY <1>2 DEF AdvanceAccepted
  <2>2. i \in Ordinal(r.queue, obs.item)
    BY DEF AdvanceAccepted
  <2>3. r.queue \in Seq(Items)
    BY <1>1, QueueAssumption DEF SessionRows
  <2>4. i \in Nat
    <3>1. i \in DOMAIN r.queue
      <4> HIDE DEF i, r
      <4> QED BY <2>2 DEF Ordinal
    <3> HIDE DEF i, r
    <3> QED BY <2>3, <3>1
  <2> HIDE DEF seen, i
  <2> QED BY <1>2, <1>4, <1>5, <2>1, <2>4 DEF SessionRows
<1>8. PICK w \in SessionRows : session' = [session EXCEPT ![s] = w]
  <2> DEFINE adv == AdvanceAccepted(s, t, upTo, obs, authority)
             mov == StateAccepted(s, t, upTo, obs, authority)
  <2>1. session' = [session EXCEPT ![s] =
                      IF adv THEN advanced ELSE IF mov THEN moved ELSE seen]
    BY DEF Reconcile
  <2>2. (IF adv THEN advanced ELSE IF mov THEN moved ELSE seen) \in SessionRows
    <3> HIDE DEF mov, advanced, moved, seen
    <3> QED BY <1>5, <1>6, <1>7
  <2> QED BY <2>1, <2>2
<1>9. newer' = Front(s)
  BY DEF Reconcile
<1>10. SessionsOK' /\ DOMAIN session' = DOMAIN session
  BY <1>1, <1>8, <1>9, OneSession
<1>11. command' = Settled(s, t, upTo) /\ now' = now /\ target' = target
  BY DEF Reconcile
<1>12. CommandsOK'
  <2> HIDE DEF s, upTo
  <2> QED BY <1>11, SettledType DEF TypeOK, CommandsOK
<1>13. observation' \subseteq Sessions \X Targets \X Nat
  BY <1>1 DEF Reconcile, TypeOK
<1>14. CallsOK'
  BY <1>10, <1>11, FinishCalls DEF Reconcile, Finish
<1> QED BY <1>10, <1>11, <1>12, <1>13, <1>14 DEF TypeOK

LEMMA TypeStep == TypeOK /\ [Next]_vars => TypeOK'
<1> SUFFICES ASSUME TypeOK, [Next]_vars PROVE TypeOK'
  OBVIOUS
<1>1. CASE UNCHANGED vars
  BY <1>1 DEF vars, TypeOK, SessionsOK, CommandsOK, CallsOK
<1>2. CASE Tick
  BY <1>2, TickType
<1>3. ASSUME NEW p \in Callers, SessionStep(p) PROVE TypeOK'
  <2>1. ASSUME NEW s \in Sessions \cup {0}, Open(p, s) PROVE TypeOK'
    BY <2>1, OpenType
  <2>2. ASSUME NEW t \in Targets,
               \/ RegisterTarget(p, t) \/ CheckTarget(p, t)
               \/ OpenEndpointSession(p, t) \/ InboxRegister(p, t)
        PROVE  TypeOK'
    BY <2>2, TargetStepsType
  <2>3. ASSUME NEW s \in Sessions, NEW a \in Actors, NEW q \in Queues,
               NEW i \in DOMAIN q, CreateSession(p, s, a, q, i)
        PROVE  TypeOK'
    BY <2>3, CreateSessionType
  <2>4. CASE InboxSelect(p) \/ InboxResumable(p) \/ InboxReattach(p)
    BY <2>4, InboxType
  <2>5. CASE Return(p)
    BY <2>5, ReturnType
  <2> QED BY <1>3, <2>1, <2>2, <2>3, <2>4, <2>5 DEF SessionStep
<1>4. ASSUME NEW p \in Callers, ControllerStep(p) PROVE TypeOK'
  <2>1. ASSUME NEW a \in Actors, NEW key \in Keys, NEW kind \in Commands,
               NEW t \in IF kind = "handoff" THEN Targets ELSE {NoTarget},
               NEW seconds \in IF kind = "sleep_timer" THEN {0, SleepFor} ELSE {0},
               Command(p, a, key, kind, t, seconds)
        PROVE  TypeOK'
    <3>1. seconds \in Nat /\ (kind = "handoff" => t \in Targets)
      BY ConstantAssumption
    <3> QED BY <2>1, <3>1, CommandType
  <2>2. ASSUME NEW a \in Actors, NEW q \in Queues, NEW index \in {0} \cup DOMAIN q,
               UpdateQueue(p, a, q, index)
        PROVE  TypeOK'
    BY <2>2, UpdateQueueType
  <2> QED BY <1>4, <2>1, <2>2 DEF ControllerStep
<1>5. ASSUME NEW p \in Callers, EndpointStep(p) PROVE TypeOK'
  <2>1. ASSUME NEW state \in Reports, Checkpoint(p, state) PROVE TypeOK'
    BY <2>1, CheckpointType
  <2>2. ASSUME NEW k \in DOMAIN command, NEW status \in Outcomes,
               AcknowledgeCommand(p, k, status)
        PROVE  TypeOK'
    BY <2>2, AcknowledgeType
  <2>3. CASE ApplyDueSleepTimers(p)
    BY <2>3, TimersType
  <2>4. ASSUME call[p].session # 0,
               NEW t \in Targets, NEW revision \in 1 .. MaxEndpointRevision,
               NEW ack \in 0 .. session[call[p].session].command_revision + 1,
               NEW obs \in Observations(p), NEW authority \in Authorities,
               Reconcile(p, t, revision, ack, obs, authority)
        PROVE  TypeOK'
    BY <2>4, ReconcileType, ConstantAssumption
  <2> QED BY <1>5, <2>1, <2>2, <2>3, <2>4 DEF EndpointStep
<1> QED BY <1>1, <1>2, <1>3, <1>4, <1>5 DEF Next

\* Whatever calls run and however their transactions interleave, every table
\* of the repository and every call in flight keeps its shape: a session that
\* is named exists, a timer that fired was due, a handoff leaves a real target.
THEOREM TypeCorrect == Spec => []TypeOK
<1>1. Init => TypeOK
  BY TypeInit
<1>2. TypeOK /\ [Next]_vars => TypeOK'
  BY TypeStep
<1> QED BY <1>1, <1>2, PTL DEF Spec

-----------------------------------------------------------------------------
(* The strengthened invariants *)

RowsOwned == \A k \in DOMAIN command : command[k].session \in DOMAIN session

\* The timer of a session has not been logged yet, so that INSERT OR IGNORE
\* never drops the row of a revision that the session has taken.
TimerFresh ==
    \A s \in DOMAIN session :
        session[s].timer > 0 => SleepKey(s, session[s].timer) \notin DOMAIN command

LogInv == RowsOwned /\ TimerFresh /\ LogContiguous

ObservedIssued ==
    \A s \in DOMAIN session : session[s].observed <= session[s].command_revision

\* Without a handoff the rows of a session stay with one target.
RowsAtTarget ==
    \A k \in DOMAIN command :
        command[k].target = session[command[k].session].target

PrefixInv == RowsAtTarget /\ AckedPrefixSettled

-----------------------------------------------------------------------------
(* The steps that do not touch the log *)

Quiet ==
    /\ command' = command
    /\ DOMAIN session \subseteq DOMAIN session'
    /\ \A s \in DOMAIN session :
          /\ session'[s].target = session[s].target
          /\ session'[s].timer = session[s].timer
          /\ session'[s].command_revision = session[s].command_revision
          /\ session'[s].observed = session[s].observed
          /\ session'[s].endpoint_revision = session[s].endpoint_revision
    /\ \A s \in (DOMAIN session') \ (DOMAIN session) :
          session'[s].command_revision = 0 /\ session'[s].observed = 0
          /\ session'[s].timer = 0

LEMMA SupersedeKeeps ==
    ASSUME NEW r \in SessionRows
    PROVE  /\ Supersede(r).target = r.target
           /\ Supersede(r).timer = r.timer
           /\ Supersede(r).command_revision = r.command_revision
           /\ Supersede(r).observed = r.observed
           /\ Supersede(r).endpoint_revision = r.endpoint_revision
BY DEF Supersede, SessionRows

LEMMA QuietSteps ==
    ASSUME TypeOK, NEW p \in Callers,
           \/ SessionStep(p)
           \/ \E a \in Actors, q \in Queues :
                 \E index \in {0} \cup DOMAIN q : UpdateQueue(p, a, q, index)
           \/ \E state \in Reports : Checkpoint(p, state)
    PROVE  Quiet
<1> USE DEF TypeOK, SessionsOK, SessionRows
<1>1. CASE \E s \in Sessions \cup {0} : Open(p, s)
  <2>1. /\ command' = command /\ DOMAIN session' = DOMAIN session
        /\ \A s \in DOMAIN session : session'[s] \in {session[s], Supersede(session[s])}
    BY <1>1 DEF Open
  <2> QED BY <2>1, SupersedeKeeps DEF Quiet
<1>2. CASE \/ Return(p) \/ InboxSelect(p) \/ InboxResumable(p)
           \/ \E t \in Targets : \/ RegisterTarget(p, t)
                                 \/ CheckTarget(p, t)
                                 \/ OpenEndpointSession(p, t)
                                 \/ InboxRegister(p, t)
  BY <1>2 DEF Quiet, Return, InboxSelect, InboxResumable, RegisterTarget,
              CheckTarget, OpenEndpointSession, InboxRegister
<1>3. ASSUME NEW s \in Sessions, NEW a \in Actors, NEW q \in Queues,
             NEW i \in DOMAIN q, CreateSession(p, s, a, q, i)
      PROVE  Quiet
  BY <1>3 DEF Quiet, CreateSession, Put, Supersede, NewSession
<1>4. CASE InboxReattach(p)
  BY <1>4 DEF Quiet, InboxReattach, Supersede
<1>5. ASSUME NEW a \in Actors, NEW q \in Queues, NEW index \in {0} \cup DOMAIN q,
             UpdateQueue(p, a, q, index)
      PROVE  Quiet
  <2> DEFINE s == call[p].session
             wanted == IF index = 0 THEN session[s].index ELSE index
             i == IF wanted \in DOMAIN q THEN wanted ELSE Len(q)
             selected == index # 0 \/ q[i] # session[s].item
  <2>1. /\ command' = command /\ s \in DOMAIN session
        /\ DOMAIN session' = DOMAIN session
        /\ \A r \in DOMAIN session \ {s} : session'[r] = session[r]
    BY <1>5 DEF UpdateQueue
  <2>2. /\ session'[s].target = session[s].target
        /\ session'[s].timer = session[s].timer
        /\ session'[s].command_revision = session[s].command_revision
        /\ session'[s].observed = session[s].observed
        /\ session'[s].endpoint_revision = session[s].endpoint_revision
    <3> HIDE DEF TypeOK, SessionsOK, SessionRows
    <3>1. session[s] \in SessionRows
      BY <2>1 DEF TypeOK, SessionsOK
    <3>2. session'[s] = [session[s] EXCEPT
             !.queue = q, !.index = i, !.item = q[i],
             !.queue_revision = @ + 1, !.revision = @ + 1,
             !.state = IF selected THEN "ready" ELSE @]
      BY <1>5, <2>1 DEF UpdateQueue
    <3>3. ASSUME NEW r \in SessionRows, NEW items, NEW position, NEW item,
                 NEW revision, NEW n, NEW state
          PROVE  LET new == [r EXCEPT
                        !.queue = items, !.index = position, !.item = item,
                        !.queue_revision = revision, !.revision = n, !.state = state]
                 IN  /\ new.target = r.target
                     /\ new.timer = r.timer
                     /\ new.command_revision = r.command_revision
                     /\ new.observed = r.observed
                     /\ new.endpoint_revision = r.endpoint_revision
      BY DEF SessionRows
    <3> QED BY <3>1, <3>2, <3>3
  <2> HIDE DEF s
  <2> QED BY <2>1, <2>2 DEF Quiet
<1>6. ASSUME NEW state \in Reports, Checkpoint(p, state)
      PROVE  Quiet
  BY <1>6 DEF Quiet, Checkpoint
<1> QED BY <1>1, <1>2, <1>3, <1>4, <1>5, <1>6 DEF SessionStep

\* A command leaves what its session is sent to alone, unless it hands it off.
LEMMA UpdatedKeeps ==
    ASSUME NEW r \in SessionRows, NEW kind, NEW t, NEW seconds
    PROVE  /\ Updated(r, kind, t, seconds).observed = r.observed
           /\ Updated(r, kind, t, seconds).endpoint_revision = r.endpoint_revision
           /\ kind # "handoff" => Updated(r, kind, t, seconds).target = r.target
           /\ kind # "sleep_timer" => Updated(r, kind, t, seconds).timer = r.timer
           /\ kind = "sleep_timer" =>
                 Updated(r, kind, t, seconds).timer
                    = IF seconds = 0 THEN 0 ELSE now + seconds
<1> USE DEF SessionRows
<1>1. CASE kind \in {"next", "previous"}
  BY <1>1 DEF Updated, Skip
<1>2. CASE kind \in {"play", "pause", "stop"}
  BY <1>2 DEF Updated
<1>3. CASE kind = "sleep_timer"
  BY <1>3 DEF Updated
<1>4. CASE kind = "handoff"
  BY <1>4 DEF Updated
<1>5. CASE kind \notin {"play", "pause", "stop", "next", "previous",
                        "sleep_timer", "handoff"}
  BY <1>5 DEF Updated
<1> QED BY <1>1, <1>2, <1>3, <1>4, <1>5

\* What a command does to its session s and to the log, under the key x.
CommandEffects(s, a, x, kind) ==
    /\ s \in DOMAIN session /\ DOMAIN session' = DOMAIN session
    /\ \A r \in DOMAIN session : r # s => session'[r] = session[r]
    /\ session'[s].command_revision = session[s].command_revision + 1
    /\ session'[s].observed = session[s].observed
    /\ session'[s].endpoint_revision = session[s].endpoint_revision
    /\ kind # "handoff" => session'[s].target = session[s].target
    /\ session'[s].timer \in {0, session[s].timer} \/ session'[s].timer > now
    /\ x \notin DOMAIN command
    /\ DOMAIN command' = DOMAIN command \cup {x}
    /\ command'[x] = Row(s, session[s].target, a, kind, session[s].command_revision + 1)
    /\ \A k \in DOMAIN command : command'[k] = Coalesced(s, kind)[k]

LEMMA CommandEffect ==
    ASSUME TypeOK, NEW p \in Callers, NEW a \in Actors, NEW key \in Keys,
           NEW kind \in Commands, NEW t, NEW seconds \in Nat,
           Command(p, a, key, kind, t, seconds)
    PROVE  CommandEffects(call[p].session, a, ClientKey(key), kind)
<1> DEFINE s == call[p].session
           r == session[s]
           n == r.command_revision + 1
           u == Updated(r, kind, t, seconds)
           w == [u EXCEPT !.revision = r.revision + 1, !.command_revision = n,
                          !.holder = a, !.lease = now + LeaseTerm]
<1>1. s \in DOMAIN session /\ r \in SessionRows /\ now \in Nat
  BY DEF Command, TypeOK, SessionsOK
<1>2. session' = [session EXCEPT ![s] = w]
  BY DEF Command
<1>3. u.command_revision = u.command_revision /\ DOMAIN u = DOMAIN r
  BY <1>1 DEF Updated, Skip, SessionRows
<1>4. /\ w.command_revision = n /\ w.observed = u.observed
      /\ w.endpoint_revision = u.endpoint_revision
      /\ w.target = u.target /\ w.timer = u.timer
  <2>1. {"command_revision", "observed", "endpoint_revision", "target", "timer"}
           \subseteq DOMAIN u
    BY <1>1, <1>3 DEF SessionRows
  <2> HIDE DEF u, n, r
  <2> QED BY <2>1
<1>5. u.timer \in {0, r.timer} \/ u.timer > now
  BY <1>1, UpdatedKeeps
<1>6. /\ u.observed = r.observed /\ u.endpoint_revision = r.endpoint_revision
      /\ kind # "handoff" => u.target = r.target
  BY <1>1, UpdatedKeeps
<1>7. session'[s] = w /\ DOMAIN session' = DOMAIN session
      /\ \A x \in DOMAIN session : x # s => session'[x] = session[x]
  <2> HIDE DEF w
  <2> QED BY <1>1, <1>2
<1>8. /\ ClientKey(key) \notin DOMAIN command
      /\ command' = Put(Coalesced(s, kind), ClientKey(key), Row(s, r.target, a, kind, n))
  BY DEF Command
<1>9. /\ DOMAIN command' = DOMAIN command \cup {ClientKey(key)}
      /\ command'[ClientKey(key)] = Row(s, r.target, a, kind, n)
      /\ \A k \in DOMAIN command : command'[k] = Coalesced(s, kind)[k]
  <2> DEFINE f == Coalesced(s, kind)
             x == ClientKey(key)
             row == Row(s, r.target, a, kind, n)
  <2>1. DOMAIN f = DOMAIN command
    BY DEF Coalesced
  <2>2. command' = Put(f, x, row) /\ x \notin DOMAIN command
    BY <1>8
  <2>3. /\ DOMAIN command' = DOMAIN command \cup {x}
        /\ command'[x] = row
        /\ \A k \in DOMAIN command : command'[k] = f[k]
    <3> HIDE DEF f, x, row
    <3> QED BY <2>1, <2>2 DEF Put
  <2> QED BY <2>3
<1> HIDE DEF w, u
<1> QED BY <1>1, <1>4, <1>5, <1>6, <1>7, <1>8, <1>9 DEF CommandEffects

\* What the sleep timers do to their sessions and to the log.
LEMMA TimersEffect ==
    ASSUME TypeOK, TimerFresh, NEW p \in Callers, ApplyDueSleepTimers(p)
    PROVE  LET K == [s \in DueSessions |-> SleepKey(s, session[s].timer)]
           IN  /\ DueSessions \subseteq DOMAIN session
               /\ DOMAIN session' = DOMAIN session
               /\ \A s \in DOMAIN session \ DueSessions : session'[s] = session[s]
               /\ \A s \in DueSessions :
                     /\ session'[s].command_revision = session[s].command_revision + 1
                     /\ session'[s].observed = session[s].observed
                     /\ session'[s].endpoint_revision = session[s].endpoint_revision
                     /\ session'[s].target = session[s].target
                     /\ session'[s].timer = 0
               /\ DOMAIN command' = DOMAIN command \cup {K[s] : s \in DueSessions}
               /\ \A s \in DueSessions :
                     /\ K[s] \notin DOMAIN command
                     /\ command'[K[s]] = Row(s, session[s].target, SystemActor, "pause",
                                             session[s].command_revision + 1)
               /\ \A k \in DOMAIN command : command'[k] = command[k]
<1> DEFINE keyOf(s) == SleepKey(s, session[s].timer)
           K == [s \in DueSessions |-> keyOf(s)]
           sessionOf(k) == CHOOSE s \in DueSessions : keyOf(s) = k
           pause(s) == Row(s, session[s].target, SystemActor, "pause",
                           session[s].command_revision + 1)
<1>1. DueSessions \subseteq DOMAIN session
  BY DEF DueSessions
<1>2. \A s \in DueSessions : session[s].timer > 0 /\ session[s] \in SessionRows
  BY DEF DueSessions, Due, TypeOK, SessionsOK
<1>3. /\ DOMAIN session' = DOMAIN session
      /\ \A s \in DOMAIN session : ~Due(s) => session'[s] = session[s]
      /\ \A s \in DOMAIN session : Due(s) =>
            session'[s] = Slept(session[s])
  BY DEF ApplyDueSleepTimers
<1>4. \A s \in DueSessions :
         /\ session'[s].command_revision = session[s].command_revision + 1
         /\ session'[s].observed = session[s].observed
         /\ session'[s].endpoint_revision = session[s].endpoint_revision
         /\ session'[s].target = session[s].target
         /\ session'[s].timer = 0
  <2>1. ASSUME NEW r \in SessionRows
        PROVE  /\ Slept(r).command_revision = r.command_revision + 1
               /\ Slept(r).observed = r.observed
               /\ Slept(r).endpoint_revision = r.endpoint_revision
               /\ Slept(r).target = r.target
               /\ Slept(r).timer = 0
    BY DEF SessionRows, Slept
  <2>2. \A s \in DueSessions : session'[s] = Slept(session[s])
    BY <1>3 DEF DueSessions
  <2> QED BY <1>2, <2>1, <2>2
<1>5. /\ DOMAIN command' = DOMAIN command \cup {keyOf(s) : s \in DueSessions}
      /\ \A k \in DOMAIN command' :
            command'[k] = IF k \in DOMAIN command THEN command[k]
                                                  ELSE pause(sessionOf(k))
  BY DEF ApplyDueSleepTimers
<1>6. ASSUME NEW s \in DueSessions
      PROVE  K[s] \notin DOMAIN command /\ command'[K[s]] = pause(s)
  <2>1. keyOf(s) \notin DOMAIN command
    BY <1>1, <1>2 DEF TimerFresh
  <2>2. \A r \in DueSessions : keyOf(r) = keyOf(s) => r = s
    BY DEF SleepKey
  <2>3. sessionOf(keyOf(s)) = s
    <3> HIDE DEF keyOf
    <3> QED BY <2>2
  <2> HIDE DEF pause
  <2> QED BY <1>5, <2>1, <2>3
<1>7. /\ DOMAIN command' = DOMAIN command \cup {K[s] : s \in DueSessions}
      /\ \A k \in DOMAIN command : command'[k] = command[k]
  BY <1>5
<1>8. \A s \in DOMAIN session \ DueSessions : session'[s] = session[s]
  BY <1>3 DEF DueSessions
<1>9. DOMAIN session' = DOMAIN session
  BY <1>3
<1> QED BY <1>1, <1>4, <1>6, <1>7, <1>8, <1>9

-----------------------------------------------------------------------------
(* The log has neither gaps nor duplicates *)

\* A step that logs the next revision of each session of S, under key K[s].
Appends(S, K) ==
    /\ S \subseteq DOMAIN session
    /\ DOMAIN command' = DOMAIN command \cup {K[s] : s \in S}
    /\ \A k \in DOMAIN command : /\ command'[k].session = command[k].session
                                  /\ command'[k].revision = command[k].revision
    /\ \A s \in S : /\ K[s] \notin DOMAIN command
                     /\ command'[K[s]].session = s
                     /\ command'[K[s]].revision = session[s].command_revision + 1
                     /\ session'[s].command_revision = session[s].command_revision + 1
    /\ DOMAIN session \subseteq DOMAIN session'
    /\ \A s \in DOMAIN session \ S :
          session'[s].command_revision = session[s].command_revision
    /\ \A s \in (DOMAIN session') \ (DOMAIN session) : session'[s].command_revision = 0

LEMMA LogAppend ==
    ASSUME TypeOK, RowsOwned, LogContiguous, NEW S, NEW K, Appends(S, K)
    PROVE  RowsOwned' /\ LogContiguous'
<1> USE DEF Appends
<1>1. RowsOwned'
  BY DEF RowsOwned
<1>2. \A s \in DOMAIN session : session[s].command_revision \in Nat
  BY DEF TypeOK, SessionsOK, SessionRows
<1>3. \A k \in DOMAIN command : command[k].revision \in Nat \ {0}
  BY DEF TypeOK, CommandsOK, CommandRows
<1>4. ASSUME NEW s \in DOMAIN session', NEW n \in 1 .. session'[s].command_revision
      PROVE  \E k \in DOMAIN command' : command'[k].session = s /\ command'[k].revision = n
  <2>1. s \in DOMAIN session
    BY <1>4
  <2>2. CASE n \in 1 .. session[s].command_revision
    BY <2>1, <2>2 DEF LogContiguous
  <2>3. CASE n \notin 1 .. session[s].command_revision
    <3>1. s \in S /\ n = session[s].command_revision + 1
      BY <1>2, <2>1, <2>3
    <3> QED BY <3>1
  <2> QED BY <2>2, <2>3
<1>5. ASSUME NEW s \in DOMAIN session', NEW k \in DOMAIN command',
             command'[k].session = s
      PROVE  /\ command'[k].revision <= session'[s].command_revision
             /\ k \notin DOMAIN command =>
                   /\ s \in S /\ k = K[s]
                   /\ command'[k].revision = session[s].command_revision + 1
             /\ k \in DOMAIN command =>
                   s \in DOMAIN session
                   /\ command'[k].revision <= session[s].command_revision
  <2>1. CASE k \in DOMAIN command
    <3>1. s \in DOMAIN session
      BY <1>5, <2>1 DEF RowsOwned
    <3>2. command[k].revision <= session[s].command_revision
      BY <1>5, <2>1, <3>1 DEF LogContiguous
    <3> QED BY <1>2, <1>3, <2>1, <3>1, <3>2
  <2>2. CASE k \notin DOMAIN command
    <3>1. PICK r \in S : k = K[r]
      BY <2>2
    <3>2. r = s
      BY <1>5, <3>1
    <3> QED BY <1>2, <2>2, <3>1, <3>2
  <2> QED BY <2>1, <2>2
<1>6. ASSUME NEW s \in DOMAIN session', NEW j \in DOMAIN command',
             NEW k \in DOMAIN command',
             command'[k].session = s, command'[j].session = s,
             command'[j].revision = command'[k].revision
      PROVE  j = k
  <2>1. CASE j \in DOMAIN command /\ k \in DOMAIN command
    BY <1>5, <1>6, <2>1 DEF LogContiguous
  <2>2. CASE j \notin DOMAIN command /\ k \notin DOMAIN command
    BY <1>5, <1>6, <2>2
  <2>3. CASE j \in DOMAIN command /\ k \notin DOMAIN command
    BY <1>2, <1>3, <1>5, <1>6, <2>3
  <2>4. CASE j \notin DOMAIN command /\ k \in DOMAIN command
    BY <1>2, <1>3, <1>5, <1>6, <2>4
  <2> QED BY <2>1, <2>2, <2>3, <2>4
<1>7. LogContiguous'
  BY <1>4, <1>5, <1>6 DEF LogContiguous
<1> QED BY <1>1, <1>7

\* A step is quiet, or one of the four that write the log.
LEMMA StepKinds ==
    ASSUME TypeOK, [Next]_vars
    PROVE  \/ Quiet
           \/ \E p \in Callers, a \in Actors, key \in Keys, kind \in Commands,
                 t \in Targets \cup {NoTarget}, seconds \in Nat :
                    Command(p, a, key, kind, t, seconds)
           \/ \E p \in Callers, k \in DOMAIN command, status \in Outcomes :
                 AcknowledgeCommand(p, k, status)
           \/ \E p \in Callers : ApplyDueSleepTimers(p)
           \/ \E p \in Callers, t \in Targets, revision \in Nat, ack \in Nat,
                 authority \in Authorities :
                    \E obs \in Observations(p) :
                       Reconcile(p, t, revision, ack, obs, authority)
<1>1. CASE UNCHANGED vars \/ Tick
  BY <1>1 DEF vars, Tick, Quiet
<1>2. ASSUME NEW p \in Callers, SessionStep(p) PROVE Quiet
  BY <1>2, QuietSteps
<1>3. ASSUME NEW p \in Callers, ControllerStep(p)
      PROVE  \/ Quiet
             \/ \E a \in Actors, key \in Keys, kind \in Commands,
                   t \in Targets \cup {NoTarget}, seconds \in Nat :
                      Command(p, a, key, kind, t, seconds)
  <2>1. CASE \E a \in Actors, q \in Queues :
                \E index \in {0} \cup DOMAIN q : UpdateQueue(p, a, q, index)
    BY <2>1, QuietSteps
  <2>2. ASSUME NEW a \in Actors, NEW key \in Keys, NEW kind \in Commands,
               NEW t \in IF kind = "handoff" THEN Targets ELSE {NoTarget},
               NEW seconds \in IF kind = "sleep_timer" THEN {0, SleepFor} ELSE {0},
               Command(p, a, key, kind, t, seconds)
        PROVE  \E b \in Actors, x \in Keys, c \in Commands,
                  u \in Targets \cup {NoTarget}, d \in Nat : Command(p, b, x, c, u, d)
    <3>1. seconds \in Nat /\ t \in Targets \cup {NoTarget}
      BY ConstantAssumption
    <3> QED BY <2>2, <3>1
  <2> QED BY <1>3, <2>1, <2>2 DEF ControllerStep
<1>4. ASSUME NEW p \in Callers, EndpointStep(p)
      PROVE  \/ Quiet
             \/ \E k \in DOMAIN command, status \in Outcomes :
                   AcknowledgeCommand(p, k, status)
             \/ ApplyDueSleepTimers(p)
             \/ \E t \in Targets, revision \in Nat, ack \in Nat,
                   authority \in Authorities, obs \in Observations(p) :
                      Reconcile(p, t, revision, ack, obs, authority)
  <2>1. CASE \E state \in Reports : Checkpoint(p, state)
    BY <2>1, QuietSteps
  <2>2. ASSUME NEW t \in Targets, NEW revision \in 1 .. MaxEndpointRevision,
               NEW ack \in 0 .. session[call[p].session].command_revision + 1,
               NEW obs \in Observations(p), NEW authority \in Authorities,
               Reconcile(p, t, revision, ack, obs, authority)
        PROVE  \E u \in Targets, n \in Nat, m \in Nat, b \in Authorities,
                  o \in Observations(p) : Reconcile(p, u, n, m, o, b)
    <3>1. revision \in Nat /\ ack \in Nat
      BY ConstantAssumption
    <3> QED BY <2>2, <3>1
  <2> QED BY <1>4, <2>1, <2>2 DEF EndpointStep
<1> QED BY <1>1, <1>2, <1>3, <1>4 DEF Next

\* What an observation does to its session and to the log.
LEMMA ReconcileEffect ==
    ASSUME TypeOK, NEW p \in Callers, NEW t \in Targets, NEW revision \in Nat,
           NEW ack \in Nat, NEW obs, NEW authority,
           Reconcile(p, t, revision, ack, obs, authority)
    PROVE  LET s == call[p].session
           IN  /\ s \in DOMAIN session /\ DOMAIN session' = DOMAIN session
               /\ session[s].target = t
               /\ \A r \in DOMAIN session : r # s => session'[r] = session[r]
               /\ session'[s].command_revision = session[s].command_revision
               /\ session'[s].target = session[s].target
               /\ session'[s].timer = session[s].timer
               /\ session[s].endpoint_revision <= session'[s].endpoint_revision
               /\ session'[s].observed = Accepted(s, t, ack, obs)
               /\ session[s].observed <= session'[s].observed
               /\ session'[s].observed
                     <= IF ack > session[s].observed THEN ack ELSE session[s].observed
               /\ ack <= session[s].command_revision
               /\ command' = Settled(s, t, session'[s].observed)
<1> DEFINE s == call[p].session
           r == session[s]
           upTo == Accepted(s, t, ack, obs)
           seen == [r EXCEPT !.observed = upTo, !.endpoint_revision = revision,
                             !.seen = TRUE, !.confirmed = obs.confirmed]
           i == CHOOSE i \in Ordinal(r.queue, obs.item) : TRUE
           advanced == [seen EXCEPT !.index = i, !.item = obs.item,
                                    !.state = obs.state, !.revision = @ + 1]
           moved == [seen EXCEPT !.state = obs.state, !.revision = @ + 1]
<1>1. s \in DOMAIN session /\ r \in SessionRows /\ r.target = t
      /\ ack <= r.command_revision /\ revision >= r.endpoint_revision
  BY DEF Reconcile, Admitted, TypeOK, SessionsOK
<1>2. upTo \in {ack, r.observed} /\ upTo >= r.observed
  BY <1>1 DEF Accepted, SessionRows
<1>3. \E w \in {advanced, moved, seen} : session' = [session EXCEPT ![s] = w]
  <2> DEFINE adv == AdvanceAccepted(s, t, upTo, obs, authority)
             mov == StateAccepted(s, t, upTo, obs, authority)
  <2>1. session' = [session EXCEPT ![s] =
                      IF adv THEN advanced ELSE IF mov THEN moved ELSE seen]
    BY DEF Reconcile
  <2> HIDE DEF adv, mov, advanced, moved, seen
  <2> QED BY <2>1
<1>4. ASSUME NEW w \in {advanced, moved, seen}
      PROVE  /\ w.observed = upTo /\ w.endpoint_revision = revision
             /\ w.command_revision = r.command_revision
             /\ w.target = r.target /\ w.timer = r.timer
  <2> HIDE DEF upTo, r, i
  <2> QED BY <1>1 DEF SessionRows
<1>5. PICK w \in {advanced, moved, seen} : session' = [session EXCEPT ![s] = w]
  BY <1>3
<1>6. session'[s] = w /\ DOMAIN session' = DOMAIN session
      /\ \A x \in DOMAIN session : x # s => session'[x] = session[x]
  <2> HIDE DEF advanced, moved, seen
  <2> QED BY <1>1, <1>5
<1>7. command' = Settled(s, t, upTo)
  BY DEF Reconcile
<1>8. r.observed \in Nat /\ r.endpoint_revision \in Nat
  BY <1>1 DEF SessionRows
<1>9. upTo = Accepted(s, t, ack, obs)
  OBVIOUS
<1> HIDE DEF advanced, moved, seen, upTo
<1> QED BY <1>1, <1>2, <1>4, <1>6, <1>7, <1>8, <1>9

\* Rows that only change status and sessions that keep their command revision.
LEMMA LogKept ==
    ASSUME TypeOK, LogInv,
           DOMAIN command' = DOMAIN command,
           \A k \in DOMAIN command : /\ command'[k].session = command[k].session
                                     /\ command'[k].revision = command[k].revision,
           DOMAIN session \subseteq DOMAIN session',
           \A s \in DOMAIN session :
              /\ session'[s].command_revision = session[s].command_revision
              /\ session'[s].timer = session[s].timer,
           \A s \in (DOMAIN session') \ (DOMAIN session) :
              session'[s].command_revision = 0 /\ session'[s].timer = 0
    PROVE  LogInv'
<1>1. RowsOwned' /\ LogContiguous'
  <2> DEFINE S == {}
             K == command
  <2>1. Appends(S, K)
    BY DEF Appends
  <2> HIDE DEF S, K
  <2> QED BY <2>1, LogAppend DEF LogInv
<1>2. TimerFresh'
  BY DEF LogInv, TimerFresh
<1> QED BY <1>1, <1>2 DEF LogInv

LEMMA LogStep == TypeOK /\ LogInv /\ [Next]_vars => LogInv'
<1> SUFFICES ASSUME TypeOK, LogInv, [Next]_vars PROVE LogInv'
  OBVIOUS
<1>1. CASE Quiet
  BY <1>1, LogKept DEF Quiet
<1>2. ASSUME NEW p \in Callers, NEW a \in Actors, NEW key \in Keys,
             NEW kind \in Commands, NEW t \in Targets \cup {NoTarget},
             NEW seconds \in Nat, Command(p, a, key, kind, t, seconds)
      PROVE  LogInv'
  <2> DEFINE s == call[p].session
             x == ClientKey(key)
             K == [r \in {s} |-> x]
  <2>1. /\ s \in DOMAIN session /\ DOMAIN session' = DOMAIN session
        /\ \A r \in DOMAIN session : r # s => session'[r] = session[r]
        /\ session'[s].command_revision = session[s].command_revision + 1
        /\ session'[s].timer \in {0, session[s].timer} \/ session'[s].timer > now
        /\ x \notin DOMAIN command
        /\ DOMAIN command' = DOMAIN command \cup {x}
        /\ command'[x] = Row(s, session[s].target, a, kind, session[s].command_revision + 1)
        /\ \A k \in DOMAIN command : command'[k] = Coalesced(s, kind)[k]
    <3>1. CommandEffects(s, a, x, kind)
      BY <1>2, CommandEffect
    <3> HIDE DEF s, x
    <3> QED BY <3>1 DEF CommandEffects
  <2>2. \A k \in DOMAIN command : /\ command'[k].session = command[k].session
                                  /\ command'[k].revision = command[k].revision
    BY <2>1 DEF Coalesced, TypeOK, CommandsOK, CommandRows
  <2>3. command'[x].session = s
        /\ command'[x].revision = session[s].command_revision + 1
    BY <2>1 DEF Row
  <2>4. RowsOwned' /\ LogContiguous'
    <3> DEFINE S == {s}
    <3>1. S \subseteq DOMAIN session /\ \A r \in S : r = s /\ K[r] = x
      BY <2>1
    <3>2. {K[r] : r \in S} = {x}
      OBVIOUS
    <3> HIDE DEF S, K, s, x
    <3>3. Appends(S, K)
      BY <2>1, <2>2, <2>3, <3>1, <3>2 DEF Appends
    <3> QED BY <3>3, LogAppend DEF LogInv
  <2>5. TimerFresh'
    <3> SUFFICES ASSUME NEW r \in DOMAIN session', session'[r].timer > 0
                 PROVE  SleepKey(r, session'[r].timer) \notin DOMAIN command'
      BY DEF TimerFresh
    <3>1. SleepKey(r, session'[r].timer) # x
      BY DEF SleepKey, ClientKey
    <3>2. CASE session'[r].timer = session[r].timer
      BY <2>1, <3>1, <3>2 DEF LogInv, TimerFresh
    <3>3. CASE session'[r].timer > now
      <4>1. SleepKey(r, session'[r].timer)
               \notin {SleepKey(q, d) : q \in Sessions, d \in 0 .. now}
        BY <3>3 DEF SleepKey, TypeOK
      <4>2. SleepKey(r, session'[r].timer) \notin {ClientKey(k) : k \in Keys}
        BY DEF SleepKey, ClientKey
      <4> QED BY <2>1, <3>1, <4>1, <4>2 DEF TypeOK, CommandsOK
    <3> QED BY <2>1, <3>2, <3>3
  <2> QED BY <2>4, <2>5 DEF LogInv
<1>3. ASSUME NEW p \in Callers, NEW k \in DOMAIN command, NEW status \in Outcomes,
             AcknowledgeCommand(p, k, status)
      PROVE  LogInv'
  <2>1. /\ DOMAIN command' = DOMAIN command
        /\ \A j \in DOMAIN command : /\ command'[j].session = command[j].session
                                      /\ command'[j].revision = command[j].revision
    BY <1>3 DEF AcknowledgeCommand, TypeOK, CommandsOK, CommandRows
  <2> QED BY <1>3, <2>1, LogKept DEF AcknowledgeCommand
<1>4. ASSUME NEW p \in Callers, ApplyDueSleepTimers(p) PROVE LogInv'
  <2> DEFINE K == [s \in DueSessions |-> SleepKey(s, session[s].timer)]
  <2>1. /\ DueSessions \subseteq DOMAIN session
        /\ DOMAIN session' = DOMAIN session
        /\ \A s \in DOMAIN session \ DueSessions : session'[s] = session[s]
        /\ \A s \in DueSessions :
              /\ session'[s].command_revision = session[s].command_revision + 1
              /\ session'[s].timer = 0
        /\ DOMAIN command' = DOMAIN command \cup {K[s] : s \in DueSessions}
        /\ \A s \in DueSessions :
              /\ K[s] \notin DOMAIN command
              /\ command'[K[s]] = Row(s, session[s].target, SystemActor, "pause",
                                      session[s].command_revision + 1)
        /\ \A k \in DOMAIN command : command'[k] = command[k]
    BY <1>4, TimersEffect DEF LogInv
  <2>2. \A s \in DueSessions :
           /\ command'[K[s]].session = s
           /\ command'[K[s]].revision = session[s].command_revision + 1
    <3> SUFFICES ASSUME NEW s \in DueSessions
                 PROVE  /\ command'[K[s]].session = s
                        /\ command'[K[s]].revision = session[s].command_revision + 1
      OBVIOUS
    <3>1. command'[K[s]] = Row(s, session[s].target, SystemActor, "pause",
                               session[s].command_revision + 1)
      BY <2>1
    <3> HIDE DEF K
    <3> QED BY <3>1 DEF Row
  <2>3. \A s, r \in Sessions : \A m, n : SleepKey(s, m) = SleepKey(r, n) => s = r
    BY DEF SleepKey
  <2>4. RowsOwned' /\ LogContiguous'
    <3> HIDE DEF K
    <3>1. Appends(DueSessions, K)
      BY <2>1, <2>2 DEF Appends
    <3> QED BY <3>1, LogAppend DEF LogInv
  <2>5. TimerFresh'
    <3> SUFFICES ASSUME NEW r \in DOMAIN session', session'[r].timer > 0
                 PROVE  SleepKey(r, session'[r].timer) \notin DOMAIN command'
      BY DEF TimerFresh
    <3>1. r \in DOMAIN session \ DueSessions /\ session'[r] = session[r]
      BY <2>1
    <3>2. SleepKey(r, session[r].timer) \notin DOMAIN command
      BY <3>1 DEF LogInv, TimerFresh
    <3>3. \A s \in DueSessions : K[s] # SleepKey(r, session[r].timer)
      BY <2>1, <2>3, <3>1 DEF TypeOK, SessionsOK
    <3> HIDE DEF K
    <3> QED BY <2>1, <3>1, <3>2, <3>3
  <2> QED BY <2>4, <2>5 DEF LogInv
<1>5. ASSUME NEW p \in Callers, NEW t \in Targets, NEW revision \in Nat, NEW ack \in Nat,
             NEW authority \in Authorities, NEW obs \in Observations(p),
             Reconcile(p, t, revision, ack, obs, authority)
      PROVE  LogInv'
  <2> DEFINE s == call[p].session
  <2>1. /\ s \in DOMAIN session /\ DOMAIN session' = DOMAIN session
        /\ \A r \in DOMAIN session : r # s => session'[r] = session[r]
        /\ session'[s].command_revision = session[s].command_revision
        /\ session'[s].timer = session[s].timer
        /\ command' = Settled(s, t, session'[s].observed)
    BY <1>5, ReconcileEffect
  <2>2. /\ DOMAIN command' = DOMAIN command
        /\ \A k \in DOMAIN command : /\ command'[k].session = command[k].session
                                      /\ command'[k].revision = command[k].revision
    BY <2>1 DEF Settled, TypeOK, CommandsOK, CommandRows
  <2> QED BY <2>1, <2>2, LogKept
<1> QED BY <1>1, <1>2, <1>3, <1>4, <1>5, StepKinds

\* The command log of a session holds each revision up to the one the session
\* has reached once, whichever of command() and the sleep timers logged it and
\* however often endpoints, inboxes and handoffs come in between: a timer row
\* that INSERT OR IGNORE dropped would leave a gap no acknowledgement crosses.
THEOREM LogIsContiguous == Spec => []LogContiguous
<1>1. Init => TypeOK /\ LogInv
  BY TypeInit DEF Init, LogInv, RowsOwned, TimerFresh, LogContiguous
<1>2. TypeOK /\ LogInv /\ [Next]_vars => (TypeOK /\ LogInv)'
  BY TypeStep, LogStep
<1>3. LogInv => LogContiguous
  BY DEF LogInv
<1> QED BY <1>1, <1>2, <1>3, PTL DEF Spec

-----------------------------------------------------------------------------
(* Acknowledgements *)

\* What ObservationsAdvance says of one step.
ObservedForward ==
    \A s \in DOMAIN session :
        /\ session[s].observed <= session'[s].observed
        /\ session[s].endpoint_revision <= session'[s].endpoint_revision
        /\ session'[s].observed <= session'[s].command_revision

LEMMA ObservedStep ==
    TypeOK /\ TimerFresh /\ ObservedIssued /\ [Next]_vars
        => ObservedIssued' /\ ObservedForward
<1> SUFFICES ASSUME TypeOK, TimerFresh, ObservedIssued, [Next]_vars
             PROVE  ObservedIssued' /\ ObservedForward
  OBVIOUS
<1>0. \A s \in DOMAIN session : /\ session[s].observed \in Nat
                                /\ session[s].command_revision \in Nat
                                /\ session[s].endpoint_revision \in Nat
                                /\ session[s].observed <= session[s].command_revision
  BY DEF TypeOK, SessionsOK, SessionRows, ObservedIssued
<1>1. CASE Quiet
  BY <1>0, <1>1 DEF Quiet, ObservedIssued, ObservedForward
<1>2. ASSUME NEW p \in Callers, NEW a \in Actors, NEW key \in Keys,
             NEW kind \in Commands, NEW t \in Targets \cup {NoTarget},
             NEW seconds \in Nat, Command(p, a, key, kind, t, seconds)
      PROVE  ObservedIssued' /\ ObservedForward
  <2> DEFINE s == call[p].session
             x == ClientKey(key)
  <2>1. CommandEffects(s, a, x, kind)
    BY <1>2, CommandEffect
  <2> HIDE DEF s, x
  <2> QED BY <1>0, <2>1 DEF CommandEffects, ObservedIssued, ObservedForward
<1>3. ASSUME NEW p \in Callers, NEW k \in DOMAIN command, NEW status \in Outcomes,
             AcknowledgeCommand(p, k, status)
      PROVE  ObservedIssued' /\ ObservedForward
  BY <1>0, <1>3 DEF AcknowledgeCommand, ObservedIssued, ObservedForward
<1>4. ASSUME NEW p \in Callers, ApplyDueSleepTimers(p)
      PROVE  ObservedIssued' /\ ObservedForward
  <2>1. /\ DOMAIN session' = DOMAIN session
        /\ \A s \in DOMAIN session \ DueSessions : session'[s] = session[s]
        /\ \A s \in DueSessions :
              /\ session'[s].command_revision = session[s].command_revision + 1
              /\ session'[s].observed = session[s].observed
              /\ session'[s].endpoint_revision = session[s].endpoint_revision
    BY <1>4, TimersEffect
  <2> QED BY <1>0, <2>1 DEF ObservedIssued, ObservedForward
<1>5. ASSUME NEW p \in Callers, NEW t \in Targets, NEW revision \in Nat, NEW ack \in Nat,
             NEW authority \in Authorities, NEW obs \in Observations(p),
             Reconcile(p, t, revision, ack, obs, authority)
      PROVE  ObservedIssued' /\ ObservedForward
  <2> DEFINE s == call[p].session
  <2>1. /\ s \in DOMAIN session /\ DOMAIN session' = DOMAIN session
        /\ \A r \in DOMAIN session : r # s => session'[r] = session[r]
        /\ session'[s].command_revision = session[s].command_revision
        /\ session[s].endpoint_revision <= session'[s].endpoint_revision
        /\ session[s].observed <= session'[s].observed
        /\ session'[s].observed
              <= IF ack > session[s].observed THEN ack ELSE session[s].observed
        /\ ack <= session[s].command_revision
    BY <1>5, ReconcileEffect
  <2>2. session'[s].observed <= session'[s].command_revision
    <3>1. session'[s].observed \in Nat
      BY <1>5, <2>1, TypeStep DEF TypeOK, SessionsOK, SessionRows
    <3> HIDE DEF s
    <3> QED BY <1>0, <2>1, <3>1
  <2> HIDE DEF s
  <2> QED BY <1>0, <2>1, <2>2 DEF ObservedIssued, ObservedForward
<1> QED BY <1>1, <1>2, <1>3, <1>4, <1>5, StepKinds

\* What an endpoint has observed and acknowledged of a session never moves
\* back, whatever order its reports arrive in, and no acknowledgement runs
\* ahead of the commands that were issued.
THEOREM ObservationsOnlyAdvance == Spec => ObservationsAdvance
<1>1. Init => TypeOK /\ LogInv /\ ObservedIssued
  BY TypeInit DEF Init, LogInv, RowsOwned, TimerFresh, LogContiguous, ObservedIssued
<1>2. TypeOK /\ LogInv /\ ObservedIssued /\ [Next]_vars
         => (TypeOK /\ LogInv /\ ObservedIssued)' /\ ObservedForward
  BY TypeStep, LogStep, ObservedStep DEF LogInv
<1>3. ObservedForward => [\A s \in DOMAIN session :
          /\ session[s].observed <= session'[s].observed
          /\ session[s].endpoint_revision <= session'[s].endpoint_revision
          /\ session'[s].observed <= session'[s].command_revision]_vars
  BY DEF ObservedForward
<1> QED BY <1>1, <1>2, <1>3, PTL DEF Spec, ObservationsAdvance

LEMMA PrefixStep ==
    ASSUME "handoff" \notin Commands
    PROVE  TypeOK /\ LogInv /\ ObservedIssued /\ PrefixInv /\ [Next]_vars => PrefixInv'
<1> SUFFICES ASSUME TypeOK, LogInv, ObservedIssued, PrefixInv, [Next]_vars
             PROVE  PrefixInv'
  OBVIOUS
<1>0. /\ \A s \in DOMAIN session : /\ session[s].observed \in Nat
                                   /\ session[s].command_revision \in Nat
                                   /\ session[s].observed <= session[s].command_revision
      /\ \A k \in DOMAIN command : /\ command[k] \in CommandRows
                                   /\ command[k].session \in DOMAIN session
                                   /\ command[k].revision \in Nat
                                   /\ command[k].target
                                         = session[command[k].session].target
                                   /\ command[k].status = "pending" =>
                                         command[k].revision
                                            > session[command[k].session].observed
  BY DEF TypeOK, SessionsOK, SessionRows, ObservedIssued, CommandsOK, CommandRows,
         LogInv, RowsOwned, PrefixInv, RowsAtTarget, AckedPrefixSettled
<1>1. CASE Quiet
  BY <1>0, <1>1 DEF Quiet, PrefixInv, RowsAtTarget, AckedPrefixSettled
<1>2. ASSUME NEW p \in Callers, NEW a \in Actors, NEW key \in Keys,
             NEW kind \in Commands, NEW t \in Targets \cup {NoTarget},
             NEW seconds \in Nat, Command(p, a, key, kind, t, seconds)
      PROVE  PrefixInv'
  <2> DEFINE s == call[p].session
             x == ClientKey(key)
  <2>1. CommandEffects(s, a, x, kind)
    BY <1>2, CommandEffect
  <2>2. \A k \in DOMAIN command :
           /\ command'[k].session = command[k].session
           /\ command'[k].target = command[k].target
           /\ command'[k].revision = command[k].revision
           /\ command'[k].status = "pending" => command[k].status = "pending"
    BY <1>0, <2>1 DEF CommandEffects, Coalesced, CommandRows
  <2> HIDE DEF s, x
  <2>3. \A r \in DOMAIN session : /\ session'[r].target = session[r].target
                                  /\ session'[r].observed = session[r].observed
    BY <2>1 DEF CommandEffects
  <2>4. /\ command'[x].session = s /\ command'[x].target = session[s].target
        /\ command'[x].revision = session[s].command_revision + 1
    BY <2>1 DEF CommandEffects, Row
  <2>5. DOMAIN command' = DOMAIN command \cup {x} /\ s \in DOMAIN session
    BY <2>1 DEF CommandEffects
  <2> QED BY <1>0, <2>2, <2>3, <2>4, <2>5 DEF PrefixInv, RowsAtTarget, AckedPrefixSettled
<1>3. ASSUME NEW p \in Callers, NEW k \in DOMAIN command, NEW status \in Outcomes,
             AcknowledgeCommand(p, k, status)
      PROVE  PrefixInv'
  <2>1. /\ DOMAIN command' = DOMAIN command /\ session' = session
        /\ command' = [command EXCEPT ![k].status = status]
    BY <1>3 DEF AcknowledgeCommand
  <2>2. status # "pending"
    BY ConstantAssumption
  <2>3. \A j \in DOMAIN command :
           /\ command'[j].session = command[j].session
           /\ command'[j].target = command[j].target
           /\ command'[j].revision = command[j].revision
           /\ command'[j].status = "pending" => command[j].status = "pending"
    BY <1>0, <2>1, <2>2 DEF CommandRows
  <2> QED BY <1>0, <2>1, <2>3 DEF PrefixInv, RowsAtTarget, AckedPrefixSettled
<1>4. ASSUME NEW p \in Callers, ApplyDueSleepTimers(p)
      PROVE  PrefixInv'
  <2> DEFINE K == [s \in DueSessions |-> SleepKey(s, session[s].timer)]
  <2>1. /\ DueSessions \subseteq DOMAIN session
        /\ DOMAIN session' = DOMAIN session
        /\ \A s \in DOMAIN session \ DueSessions : session'[s] = session[s]
        /\ \A s \in DueSessions : /\ session'[s].observed = session[s].observed
                                   /\ session'[s].target = session[s].target
        /\ DOMAIN command' = DOMAIN command \cup {K[s] : s \in DueSessions}
        /\ \A s \in DueSessions :
              command'[K[s]] = Row(s, session[s].target, SystemActor, "pause",
                                   session[s].command_revision + 1)
        /\ \A k \in DOMAIN command : command'[k] = command[k]
    BY <1>4, TimersEffect DEF LogInv
  <2> HIDE DEF K
  <2>2. ASSUME NEW s \in DueSessions
        PROVE  /\ command'[K[s]].session = s
               /\ command'[K[s]].target = session[s].target
               /\ command'[K[s]].revision = session[s].command_revision + 1
    <3>1. command'[K[s]] = Row(s, session[s].target, SystemActor, "pause",
                               session[s].command_revision + 1)
      BY <2>1
    <3> QED BY <3>1 DEF Row
  <2>3. \A r \in DOMAIN session : /\ session'[r].target = session[r].target
                                  /\ session'[r].observed = session[r].observed
    BY <2>1
  <2> QED BY <1>0, <2>1, <2>2, <2>3 DEF PrefixInv, RowsAtTarget, AckedPrefixSettled
<1>5. ASSUME NEW p \in Callers, NEW t \in Targets, NEW revision \in Nat, NEW ack \in Nat,
             NEW authority \in Authorities, NEW obs \in Observations(p),
             Reconcile(p, t, revision, ack, obs, authority)
      PROVE  PrefixInv'
  <2> DEFINE s == call[p].session
             upTo == session'[s].observed
  <2>1. /\ s \in DOMAIN session /\ DOMAIN session' = DOMAIN session
        /\ session[s].target = t
        /\ \A r \in DOMAIN session : r # s => session'[r] = session[r]
        /\ session'[s].target = session[s].target
        /\ command' = Settled(s, t, upTo)
    BY <1>5, ReconcileEffect
  <2>2. upTo \in Nat
    BY <1>5, <2>1, TypeStep DEF TypeOK, SessionsOK, SessionRows
  <2>3. DOMAIN command' = DOMAIN command
    BY <2>1 DEF Settled
  <2>4. ASSUME NEW k \in DOMAIN command
        PROVE  /\ command'[k].session = command[k].session
               /\ command'[k].target = command[k].target
               /\ command'[k].revision = command[k].revision
               /\ command'[k].status = "pending" =>
                     /\ command[k].status = "pending"
                     /\ command[k].session = s => command[k].revision > upTo
    <3>1. command'[k] = IF k \in Pending(s, t) /\ command[k].revision <= upTo
                        THEN [command[k] EXCEPT !.status = "applied"] ELSE command[k]
      BY <2>1 DEF Settled
    <3>2. command[k].session = s /\ command[k].status = "pending" => k \in Pending(s, t)
      BY <1>0, <2>1 DEF Pending
    <3> HIDE DEF s, upTo
    <3> QED BY <1>0, <2>2, <3>1, <3>2 DEF CommandRows
  <2> HIDE DEF s
  <2> QED BY <1>0, <2>1, <2>3, <2>4 DEF PrefixInv, RowsAtTarget, AckedPrefixSettled
<1> QED BY <1>1, <1>2, <1>3, <1>4, <1>5, StepKinds

\* As long as no session is handed to another target, the commands an endpoint
\* has acknowledged are settled: none of them is replayed to it again.  With a
\* handoff an endpoint that acknowledges more than it received could reach past
\* the commands of another; shells do not (PlaybackEndpointProofs).
THEOREM AckedPrefixIsSettled ==
    ASSUME "handoff" \notin Commands
    PROVE  Spec => []AckedPrefixSettled
<1>1. Init => TypeOK /\ LogInv /\ ObservedIssued /\ PrefixInv
  BY TypeInit DEF Init, LogInv, RowsOwned, TimerFresh, LogContiguous, ObservedIssued,
                  PrefixInv, RowsAtTarget, AckedPrefixSettled
<1>2. TypeOK /\ LogInv /\ ObservedIssued /\ PrefixInv /\ [Next]_vars
         => (TypeOK /\ LogInv /\ ObservedIssued /\ PrefixInv)'
  BY TypeStep, LogStep, ObservedStep, PrefixStep DEF LogInv
<1>3. PrefixInv => AckedPrefixSettled
  BY DEF PrefixInv
<1> QED BY <1>1, <1>2, <1>3, PTL DEF Spec

-----------------------------------------------------------------------------
(* Without handoffs the log implements CommandStream. *)

LEMMA StreamInit == Init => Stream!Init
BY DEF Init, Stream!Init, Issued, Acked, PendingRevisions

\* The revisions of s that are pending, one by one.
LEMMA PendingMember ==
    ASSUME NEW s \in Sessions, NEW n
    PROVE  n \in PendingRevisions[s] <=>
              \E k \in DOMAIN command : /\ command[k].session = s
                                        /\ command[k].status = "pending"
                                        /\ command[k].revision = n
BY DEF PendingRevisions

LEMMA PendingMemberNext ==
    ASSUME NEW s \in Sessions, NEW n
    PROVE  n \in PendingRevisions'[s] <=>
              \E k \in DOMAIN command' : /\ command'[k].session = s
                                         /\ command'[k].status = "pending"
                                         /\ command'[k].revision = n
BY DEF PendingRevisions

LEMMA IssueStep ==
    ASSUME TypeOK, NEW S, NEW K, Appends(S, K),
           \A k \in DOMAIN command :
              /\ command'[k].status = "pending" => command[k].status = "pending"
              /\ command[k].session \notin S => command'[k] = command[k],
           \A s \in S : command'[K[s]].status = "pending",
           DOMAIN session' = DOMAIN session,
           \A s \in DOMAIN session : session'[s].observed = session[s].observed
    PROVE  Stream!Issue(S) /\ S \in SUBSET Sessions
<1> USE DEF Appends
<1>1. S \subseteq Sessions /\ DOMAIN session \subseteq Sessions
  BY DEF TypeOK, SessionsOK
<1>2. Issued' = [s \in Sessions |-> IF s \in S THEN Issued[s] + 1 ELSE Issued[s]]
  BY <1>1 DEF Issued
<1>3. Acked' = Acked
  BY DEF Acked
<1>4. ASSUME NEW s \in S
      PROVE  /\ Issued[s] + 1 \in PendingRevisions'[s]
             /\ PendingRevisions'[s] \subseteq PendingRevisions[s] \cup {Issued[s] + 1}
  <2>1. Issued[s] = session[s].command_revision /\ s \in Sessions
    BY <1>1 DEF Issued
  <2>2. Issued[s] + 1 \in PendingRevisions'[s]
    BY <2>1, PendingMemberNext
  <2>3. ASSUME NEW n \in PendingRevisions'[s], n # Issued[s] + 1
        PROVE  n \in PendingRevisions[s]
    <3>1. PICK k \in DOMAIN command' : /\ command'[k].session = s
                                       /\ command'[k].status = "pending"
                                       /\ command'[k].revision = n
      BY <2>1, PendingMemberNext
    <3>2. k \in DOMAIN command
      BY <2>1, <2>3, <3>1
    <3> QED BY <2>1, <3>1, <3>2, PendingMember
  <2> QED BY <2>2, <2>3
<1>5. ASSUME NEW s \in Sessions \ S
      PROVE  PendingRevisions'[s] = PendingRevisions[s]
  <2>1. ASSUME NEW n \in PendingRevisions'[s] PROVE n \in PendingRevisions[s]
    <3>1. PICK k \in DOMAIN command' : /\ command'[k].session = s
                                       /\ command'[k].status = "pending"
                                       /\ command'[k].revision = n
      BY PendingMemberNext
    <3>2. k \in DOMAIN command
      BY <3>1
    <3> QED BY <3>1, <3>2, PendingMember
  <2>2. ASSUME NEW n \in PendingRevisions[s] PROVE n \in PendingRevisions'[s]
    <3>1. PICK k \in DOMAIN command : /\ command[k].session = s
                                      /\ command[k].status = "pending"
                                      /\ command[k].revision = n
      BY PendingMember
    <3>2. command'[k] = command[k] /\ k \in DOMAIN command'
      BY <3>1
    <3> QED BY <3>1, <3>2, PendingMemberNext
  <2> QED BY <2>1, <2>2
<1>6. DOMAIN PendingRevisions' = Sessions
  BY DEF PendingRevisions
<1> QED BY <1>1, <1>2, <1>3, <1>4, <1>5, <1>6 DEF Stream!Issue

\* Nothing of the stream changes.
LEMMA QuietStutters ==
    ASSUME TypeOK, Quiet
    PROVE  UNCHANGED <<Issued, Acked, PendingRevisions>>
<1>1. Issued' = Issued /\ Acked' = Acked
  BY DEF Quiet, Issued, Acked
<1>2. PendingRevisions' = PendingRevisions
  BY DEF Quiet, PendingRevisions
<1> QED BY <1>1, <1>2

LEMMA StreamStep ==
    ASSUME "handoff" \notin Commands
    PROVE  TypeOK /\ LogInv /\ ObservedIssued /\ PrefixInv /\ [Next]_vars
              => [Stream!Next]_(Stream!vars)
<1> SUFFICES ASSUME TypeOK, LogInv, ObservedIssued, PrefixInv, [Next]_vars
             PROVE  Stream!Next \/ UNCHANGED <<Issued, Acked, PendingRevisions>>
  BY DEF Stream!vars
<1>0. \A k \in DOMAIN command : /\ command[k] \in CommandRows
                                /\ command[k].session \in DOMAIN session
                                /\ command[k].session \in Sessions
                                /\ command[k].revision \in Nat
                                /\ command[k].target
                                         = session[command[k].session].target
                                /\ command[k].status = "pending" =>
                                      command[k].revision
                                         > session[command[k].session].observed
  BY DEF TypeOK, CommandsOK, CommandRows, LogInv, RowsOwned, PrefixInv, RowsAtTarget,
         AckedPrefixSettled
<1>1. CASE Quiet
  BY <1>1, QuietStutters
<1>2. ASSUME NEW p \in Callers, NEW a \in Actors, NEW key \in Keys,
             NEW kind \in Commands, NEW t \in Targets \cup {NoTarget},
             NEW seconds \in Nat, Command(p, a, key, kind, t, seconds)
      PROVE  Stream!Next
  <2> DEFINE s == call[p].session
             x == ClientKey(key)
             S == {s}
             K == [r \in S |-> x]
  <2>1. CommandEffects(s, a, x, kind)
    BY <1>2, CommandEffect
  <2>2. \A k \in DOMAIN command :
           /\ command'[k].session = command[k].session
           /\ command'[k].revision = command[k].revision
           /\ command'[k].status = "pending" => command[k].status = "pending"
           /\ command[k].session # s => command'[k] = command[k]
    BY <1>0, <2>1 DEF CommandEffects, Coalesced, CommandRows, Pending
  <2> HIDE DEF s, x
  <2>3. /\ command'[x].session = s /\ command'[x].status = "pending"
        /\ command'[x].revision = session[s].command_revision + 1
    BY <2>1 DEF CommandEffects, Row
  <2>4. (\A r \in S : r = s /\ K[r] = x) /\ {K[r] : r \in S} = {x} /\ s \in S
    OBVIOUS
  <2> HIDE DEF S, K
  <2>5. Appends(S, K)
    BY <2>1, <2>2, <2>3, <2>4 DEF Appends, CommandEffects
  <2>6. DOMAIN session' = DOMAIN session
        /\ \A r \in DOMAIN session : session'[r].observed = session[r].observed
    BY <2>1 DEF CommandEffects
  <2>7. Stream!Issue(S) /\ S \in SUBSET Sessions
    BY <2>2, <2>3, <2>4, <2>5, <2>6, IssueStep
  <2> QED BY <2>7 DEF Stream!Next
<1>3. ASSUME NEW p \in Callers, NEW k \in DOMAIN command, NEW status \in Outcomes,
             AcknowledgeCommand(p, k, status)
      PROVE  Stream!Next
  <2> DEFINE s == command[k].session
             n == command[k].revision
  <2>1. /\ DOMAIN command' = DOMAIN command /\ session' = session
        /\ command[k].status = "pending"
        /\ command' = [command EXCEPT ![k].status = status]
    BY <1>3 DEF AcknowledgeCommand
  <2>2. status # "pending"
    BY ConstantAssumption
  <2>3. /\ \A j \in DOMAIN command : j # k => command'[j] = command[j]
        /\ command'[k].status # "pending"
        /\ command'[k].session = s
    BY <1>0, <2>1, <2>2 DEF CommandRows
  <2>4. s \in Sessions /\ s \in DOMAIN session
    BY <1>0
  <2>5. \A j \in DOMAIN command :
           command[j].session = s /\ command[j].revision = n => j = k
    BY <2>4 DEF LogInv, LogContiguous
  <2> HIDE DEF s, n
  <2>6. n \in PendingRevisions[s]
    BY <2>1, <2>4, PendingMember DEF s, n
  <2>7. ASSUME NEW r \in Sessions, NEW m
        PROVE  m \in PendingRevisions'[r]
                  <=> m \in PendingRevisions[r] /\ ~(r = s /\ m = n)
    <3>1. ASSUME m \in PendingRevisions'[r]
          PROVE  m \in PendingRevisions[r] /\ ~(r = s /\ m = n)
      <4>1. PICK j \in DOMAIN command' : /\ command'[j].session = r
                                         /\ command'[j].status = "pending"
                                         /\ command'[j].revision = m
        BY <3>1, PendingMemberNext
      <4>2. j \in DOMAIN command /\ j # k /\ command'[j] = command[j]
        BY <2>1, <2>3, <4>1
      <4>3. m \in PendingRevisions[r]
        BY <4>1, <4>2, PendingMember
      <4> QED BY <2>5, <4>1, <4>2, <4>3
    <3>2. ASSUME m \in PendingRevisions[r], ~(r = s /\ m = n)
          PROVE  m \in PendingRevisions'[r]
      <4>1. PICK j \in DOMAIN command : /\ command[j].session = r
                                        /\ command[j].status = "pending"
                                        /\ command[j].revision = m
        BY <3>2, PendingMember
      <4>2. j # k
        BY <3>2, <4>1 DEF s, n
      <4> QED BY <2>1, <2>3, <4>1, <4>2, PendingMemberNext
    <3> QED BY <3>1, <3>2
  <2>8. PendingRevisions' = [PendingRevisions EXCEPT ![s] = @ \ {n}]
    <3>1. \A r \in Sessions : PendingRevisions'[r]
             = IF r = s THEN PendingRevisions[r] \ {n} ELSE PendingRevisions[r]
      BY <2>7
    <3>2. /\ PendingRevisions' = [r \in Sessions |-> PendingRevisions'[r]]
          /\ PendingRevisions = [r \in Sessions |-> PendingRevisions[r]]
      BY DEF PendingRevisions
    <3> QED BY <2>4, <3>1, <3>2
  <2>9. Issued' = Issued /\ Acked' = Acked
    BY <2>1 DEF Issued, Acked
  <2>10. Stream!Settle(s, n)
    BY <2>6, <2>8, <2>9 DEF Stream!Settle
  <2> QED BY <2>4, <2>6, <2>10 DEF Stream!Next
<1>4. ASSUME NEW p \in Callers, ApplyDueSleepTimers(p) PROVE Stream!Next
  <2> DEFINE K == [s \in DueSessions |-> SleepKey(s, session[s].timer)]
  <2>1. /\ DueSessions \subseteq DOMAIN session
        /\ DOMAIN session' = DOMAIN session
        /\ \A s \in DOMAIN session \ DueSessions : session'[s] = session[s]
        /\ \A s \in DueSessions :
              /\ session'[s].command_revision = session[s].command_revision + 1
              /\ session'[s].observed = session[s].observed
        /\ DOMAIN command' = DOMAIN command \cup {K[s] : s \in DueSessions}
        /\ \A s \in DueSessions :
              /\ K[s] \notin DOMAIN command
              /\ command'[K[s]] = Row(s, session[s].target, SystemActor, "pause",
                                      session[s].command_revision + 1)
        /\ \A k \in DOMAIN command : command'[k] = command[k]
    BY <1>4, TimersEffect DEF LogInv
  <2> HIDE DEF K
  <2>2. ASSUME NEW s \in DueSessions
        PROVE  /\ command'[K[s]].session = s /\ command'[K[s]].status = "pending"
               /\ command'[K[s]].revision = session[s].command_revision + 1
    <3>1. command'[K[s]] = Row(s, session[s].target, SystemActor, "pause",
                               session[s].command_revision + 1)
      BY <2>1
    <3> QED BY <3>1 DEF Row
  <2>3. Appends(DueSessions, K)
    BY <2>1, <2>2 DEF Appends
  <2>4. Stream!Issue(DueSessions) /\ DueSessions \in SUBSET Sessions
    BY <2>1, <2>2, <2>3, IssueStep
  <2> QED BY <2>4 DEF Stream!Next
<1>5. ASSUME NEW p \in Callers, NEW t \in Targets, NEW revision \in Nat, NEW ack \in Nat,
             NEW authority \in Authorities, NEW obs \in Observations(p),
             Reconcile(p, t, revision, ack, obs, authority)
      PROVE  Stream!Next \/ UNCHANGED <<Issued, Acked, PendingRevisions>>
  <2> DEFINE s == call[p].session
             upTo == session'[s].observed
  <2>1. /\ s \in DOMAIN session /\ DOMAIN session' = DOMAIN session
        /\ session[s].target = t
        /\ \A r \in DOMAIN session : r # s => session'[r] = session[r]
        /\ session'[s].command_revision = session[s].command_revision
        /\ command' = Settled(s, t, upTo)
    BY <1>5, ReconcileEffect
  <2>2. /\ s \in Sessions /\ session[s].observed \in Nat
        /\ session[s].command_revision \in Nat
    BY <2>1 DEF TypeOK, SessionsOK, SessionRows
  <2>3. /\ upTo \in Nat /\ session[s].observed <= upTo
        /\ upTo <= session[s].command_revision
    <3>1. upTo \in Nat
      BY <1>5, <2>1, TypeStep DEF TypeOK, SessionsOK, SessionRows
    <3>2. ObservedForward
      BY ObservedStep DEF LogInv
    <3> QED BY <2>1, <3>1, <3>2 DEF ObservedForward
  <2>4. DOMAIN command' = DOMAIN command
    BY <2>1 DEF Settled
  <2>5. ASSUME NEW k \in DOMAIN command
        PROVE  /\ command'[k].session = command[k].session
               /\ command'[k].revision = command[k].revision
               /\ command'[k].status = "pending" <=>
                     /\ command[k].status = "pending"
                     /\ command[k].session = s => command[k].revision > upTo
    <3>1. command'[k] = IF k \in Pending(s, t) /\ command[k].revision <= upTo
                        THEN [command[k] EXCEPT !.status = "applied"] ELSE command[k]
      BY <2>1 DEF Settled
    <3>2. command[k].session = s /\ command[k].status = "pending" <=> k \in Pending(s, t)
      BY <1>0, <2>1 DEF Pending
    <3> HIDE DEF s, upTo
    <3> QED BY <1>0, <2>3, <3>1, <3>2 DEF CommandRows
  <2>6. Issued' = Issued
    BY <2>1 DEF Issued
  <2>7. Acked' = [Acked EXCEPT ![s] = upTo] /\ Acked[s] = session[s].observed
        /\ Issued[s] = session[s].command_revision
    BY <2>1, <2>2 DEF Acked, Issued
  <2> HIDE DEF s, upTo
  <2>8. ASSUME NEW r \in Sessions, NEW m
        PROVE  m \in PendingRevisions'[r]
                  <=> m \in PendingRevisions[r] /\ (r = s => m > upTo)
    BY <2>4, <2>5, PendingMember, PendingMemberNext
  <2>9. \A m \in PendingRevisions[s] : m > session[s].observed
    BY <1>0, <2>2, PendingMember
  <2>10. /\ PendingRevisions' = [r \in Sessions |-> PendingRevisions'[r]]
         /\ PendingRevisions = [r \in Sessions |-> PendingRevisions[r]]
    BY DEF PendingRevisions
  <2>11. CASE upTo = session[s].observed
    <3>1. PendingRevisions' = PendingRevisions
      BY <2>8, <2>9, <2>10, <2>11
    <3>2. Acked' = Acked
      BY <2>7, <2>11 DEF Acked
    <3> QED BY <2>6, <3>1, <3>2
  <2>12. CASE upTo # session[s].observed
    <3>1. upTo \in Acked[s] + 1 .. Issued[s]
      BY <2>2, <2>3, <2>7, <2>12
    <3>2. \A r \in Sessions : PendingRevisions'[r]
             = IF r = s THEN {m \in PendingRevisions[r] : m > upTo}
                        ELSE PendingRevisions[r]
      BY <2>8
    <3>3. PendingRevisions' = [PendingRevisions EXCEPT ![s] = {m \in @ : m > upTo}]
      BY <2>2, <2>10, <3>2
    <3>4. Stream!Acknowledge(s, upTo)
      BY <2>6, <2>7, <3>1, <3>3 DEF Stream!Acknowledge
    <3> QED BY <2>2, <3>1, <3>4 DEF Stream!Next
  <2> QED BY <2>11, <2>12
<1> QED BY <1>1, <1>2, <1>3, <1>4, <1>5, StepKinds

\* As long as no session is handed to another target, the command log is a
\* stream that is acknowledged by prefixes: whatever controllers, timers and
\* reports interleave, nothing acknowledged or settled is replayed again.
THEOREM LogImplementsStream ==
    ASSUME "handoff" \notin Commands
    PROVE  Spec => ImplementsStream
<1>1. Init => TypeOK /\ LogInv /\ ObservedIssued /\ PrefixInv
  BY TypeInit DEF Init, LogInv, RowsOwned, TimerFresh, LogContiguous, ObservedIssued,
                  PrefixInv, RowsAtTarget, AckedPrefixSettled
<1>2. TypeOK /\ LogInv /\ ObservedIssued /\ PrefixInv /\ [Next]_vars
         => (TypeOK /\ LogInv /\ ObservedIssued /\ PrefixInv)'
  BY TypeStep, LogStep, ObservedStep, PrefixStep DEF LogInv
<1>3. TypeOK /\ LogInv /\ ObservedIssued /\ PrefixInv /\ [Next]_vars
         => [Stream!Next]_(Stream!vars)
  BY StreamStep
<1>4. Init => Stream!Init
  BY StreamInit
<1> QED BY <1>1, <1>2, <1>3, <1>4, PTL DEF Spec, ImplementsStream, Stream!Spec

=============================================================================
