--------------------------- MODULE PlaybackEndpoint ---------------------------
(***************************************************************************)
(* MediaControl with the endpoints that play: one shell per target, which  *)
(* polls its inbox, pulls the commands of the session it is bound to,      *)
(* plays, and reports what it plays.  The shell lives outside the          *)
(* repository; its protocol is the one the control plane is written for    *)
(* (skills/media_control_skill/README.md, "The app shell owns ...").       *)
(*                                                                         *)
(* A caller that is named like a target is the shell of that target; the   *)
(* other callers are controllers.  A target without a shell is offline.    *)
(***************************************************************************)
EXTENDS MediaControl

Shells == Callers \cap Targets
Controllers == Callers \ Targets

VARIABLE screen   \* shell -> what it holds and plays

allVars == <<now, target, session, newer, command, observation, call, screen>>

\* doing is the request in flight, applied the last command revision played,
\* revision the last report, changed whether there is something to report.
Dark == [session |-> 0, item |-> NoItem, state |-> "ready", confirmed |-> FALSE,
         queue_revision |-> 0, applied |-> 0, revision |-> 0, changed |-> FALSE,
         doing |-> "nothing"]

ShellInit == Init /\ screen = [t \in Shells |-> Dark]

\* A desired state as the media element enters it: playback has to start first.
Entered(state) ==
    IF state \in {"requested", "playing", "loading", "buffering", "recovering"}
    THEN "loading" ELSE state

-----------------------------------------------------------------------------
(* Requests of a shell.  Each loop of the shell is due again and again.     *)

Send(t, doing, s) ==
    /\ screen[t].doing = "nothing"
    /\ Open(t, s)
    /\ screen' = [screen EXCEPT ![t].doing = doing]

SendPoll(t) == Send(t, "poll", screen[t].session)

SendPull(t) == screen[t].session # 0 /\ Send(t, "pull", 0)

SendReport(t) ==
    screen[t].session # 0 /\ screen[t].changed /\ Send(t, "report", screen[t].session)

\* The inbox hands over the latest created session.
Assignment(t) == {s \in Assignable(t) : \A r \in Assignable(t) : r <= s}

Bound(e, s) ==
    IF e.session = s THEN e
    ELSE [e EXCEPT !.session = s, !.item = session[s].item,
                   !.state = Entered(session[s].state), !.confirmed = FALSE,
                   !.queue_revision = session[s].queue_revision,
                   !.applied = 0, !.changed = TRUE]

Poll(t) ==
    /\ screen[t].doing = "poll"
    /\ InboxRegister(t, t)
    /\ UNCHANGED screen

PollReply(t) ==
    /\ screen[t].doing = "poll"
    /\ InboxSelect(t)
    /\ screen' = [screen EXCEPT ![t] =
          [(IF Assignment(t) = {} THEN @ ELSE Bound(@, CHOOSE s \in Assignment(t) : TRUE))
              EXCEPT !.doing = IF call'[t].pc = "idle" THEN "nothing" ELSE "poll"]]

Reattach(t) ==
    /\ screen[t].doing = "poll"
    /\ InboxResumable(t) \/ InboxReattach(t)
    /\ screen' = [screen EXCEPT ![t].doing = IF call'[t].pc = "idle" THEN "nothing" ELSE @]

-----------------------------------------------------------------------------
(* Commands reach the media element *)

Rows(s, t) ==
    {k \in DOMAIN command : command[k].session = s /\ command[k].target = t}

\* The rows of K played in order: the last transport command of K wins.
Played(e, K) ==
    LET moves == {k \in K : command[k].kind \in {"play", "pause", "stop"}}
        last == CHOOSE k \in moves : \A j \in moves :
                   command[j].revision <= command[k].revision
        latest == CHOOSE k \in K : \A j \in K :
                   command[j].revision <= command[k].revision
        state == CASE command[last].kind = "play"  ->
                         IF e.confirmed /\ e.state = "playing" THEN "playing" ELSE "loading"
                   [] command[last].kind = "pause" -> "paused"
                   [] OTHER -> "stopped"
    IN  IF K = {} THEN e
        ELSE [e EXCEPT !.applied = IF command[latest].revision > @
                                   THEN command[latest].revision ELSE @,
                       !.state = IF moves = {} THEN @ ELSE state,
                       !.changed = TRUE]

\* pull_commands() first logs the pauses of due timers ...
PullTimers(t) ==
    /\ screen[t].doing = "pull"
    /\ ApplyDueSleepTimers(t)
    /\ screen' = [screen EXCEPT ![t].doing = "nothing"]

\* ... and returns the commands of the session past the cursor of the shell.
Pull(t) ==
    /\ screen[t].doing = "pull"
    /\ DueSessions = {}
    /\ Return(t)
    /\ screen' = [screen EXCEPT ![t] =
          [Played(@, {k \in Rows(@.session, t) : command[k].revision > @.applied})
              EXCEPT !.doing = "nothing"]]

\* Decoded media is confirmed by the media element, and comes to its end, which
\* it does not before its start is reported.
Confirm(t) ==
    /\ screen[t].state = "loading"
    /\ screen' = [screen EXCEPT ![t].state = "playing", ![t].confirmed = TRUE,
                                ![t].changed = TRUE]
    /\ UNCHANGED vars

MediaEnd(t) ==
    /\ screen[t].state = "playing"
    /\ screen[t].doing = "nothing" /\ ~screen[t].changed
    /\ screen' = [screen EXCEPT ![t].state = "ended", ![t].changed = TRUE]
    /\ UNCHANGED vars

-----------------------------------------------------------------------------
(* Reports *)

Observed(e) == [item |-> e.item, state |-> e.state, confirmed |-> e.confirmed,
                queue_revision |-> e.queue_revision]

\* The decision of reconcile_endpoint(), carried out: load another item, replay
\* the commands that stay pending, or nothing.
Answered(e, s, t) ==
    LET r == session[s]
        upTo == Accepted(s, t, e.applied, Observed(e))
        done == [e EXCEPT !.revision = @ + 1, !.changed = FALSE, !.doing = "nothing"]
        replayed == Played(done, Unsettled(s, t, upTo))
    IN  IF AdvanceAccepted(s, t, upTo, Observed(e), "endpoint_preferred") THEN done
        ELSE IF e.item # r.item
        THEN [done EXCEPT !.item = r.item, !.state = Entered(r.state),
                          !.confirmed = FALSE, !.queue_revision = r.queue_revision,
                          !.changed = TRUE]
        ELSE [replayed EXCEPT !.changed = replayed.state # e.state
                                          \/ replayed.applied # e.applied]

Report(t) ==
    LET e == screen[t]
        s == call[t].session
    IN  /\ e.doing = "report" /\ s = e.session
        /\ e.revision < MaxEndpointRevision
        /\ Reconcile(t, t, e.revision + 1, e.applied, Observed(e), "endpoint_preferred")
        /\ screen' = [screen EXCEPT ![t] = Answered(e, s, t)]

\* The session is gone to another target: the shell lets go of it.
ReportRefused(t) ==
    /\ screen[t].doing = "report"
    /\ call[t].session # 0 => session[call[t].session].target # t
    /\ Return(t)
    /\ screen' = [screen EXCEPT ![t] = [Dark EXCEPT !.revision = screen[t].revision]]

-----------------------------------------------------------------------------
ShellStep(t) ==
    \/ SendPoll(t) \/ SendPull(t) \/ SendReport(t)
    \/ Poll(t) \/ PollReply(t) \/ Reattach(t)
    \/ PullTimers(t) \/ Pull(t)
    \/ Confirm(t) \/ MediaEnd(t)
    \/ Report(t) \/ ReportRefused(t)

\* Controllers register targets, create sessions for them, and command.
ControlStep(p) ==
    /\ \/ \E s \in Sessions \cup {0} : Open(p, s)
       \/ Return(p)
       \/ \E t \in Targets : RegisterTarget(p, t) \/ CheckTarget(p, t)
       \/ \E s \in Sessions, a \in Actors, q \in Queues : CreateSession(p, s, a, q, 1)
       \/ ControllerStep(p)
    /\ UNCHANGED screen

ShellNext ==
    \/ \E p \in Controllers : ControlStep(p)
    \/ \E t \in Shells : ShellStep(t)
    \/ Tick /\ UNCHANGED screen

\* Timers drive the three loops of a shell, so that each comes round however
\* often the others do; a request that was sent is answered, and media that is
\* loaded comes to play.
Fairness ==
    \A t \in Shells :
        /\ SF_allVars(SendPoll(t)) /\ SF_allVars(SendPull(t)) /\ SF_allVars(SendReport(t))
        /\ WF_allVars(Poll(t) \/ PollReply(t) \/ Reattach(t) \/ PullTimers(t)
                      \/ Pull(t) \/ Report(t) \/ ReportRefused(t))
        /\ WF_allVars(Confirm(t))

ShellSpec == ShellInit /\ [][ShellNext]_allVars /\ Fairness

-----------------------------------------------------------------------------
(* Properties *)

Waiting(key) ==
    ClientKey(key) \in DOMAIN command /\ command[ClientKey(key)].status = "pending"

\* Every command reaches its endpoint and is settled.
CommandsSettle == \A key \in Keys : Waiting(key) ~> ~Waiting(key)

\* The inbox still hands a stopped session to its target.
StopOffered(s) ==
    s \in DOMAIN session /\ session[s].state = "stopped"
        /\ s \in Assignable(session[s].target)

\* A stopped session leaves the inbox of its target, or is played again.
StopLeavesInbox == \A s \in Sessions : StopOffered(s) ~> ~StopOffered(s)

\* A report settles only commands its endpoint has received, whatever handoffs
\* take the session from shell to shell.
DeliveredBeforeSettled ==
    [][\A k \in DOMAIN command :
          command[k].status = "pending" /\ command'[k].status = "applied" =>
             /\ command[k].target \in Shells
             /\ screen[command[k].target].session = command[k].session
             /\ screen[command[k].target].applied >= command[k].revision]_allVars

\* The shell of t plays what its session asks for, and has every command of it.
UpToDate(t) ==
    LET e == screen[t]
        r == session[e.session]
    IN  /\ e.applied = r.command_revision
        /\ e.item = r.item /\ e.state = r.state
        /\ r.state = "playing" => e.confirmed

\* A report of a shell that is up to date leaves none of its commands pending.
HonestReportSettles ==
    [][\A t \in Shells :
          /\ screen'[t].revision # screen[t].revision
          /\ observation' # observation
          /\ UpToDate(t)
          => \A k \in DOMAIN command' :
                command'[k].status = "pending"
                    => <<command'[k].session, command'[k].target>>
                          # <<screen[t].session, t>>]_allVars

=============================================================================
