------------------------- MODULE MediaControlStream -------------------------
(* MediaControl as an implementation of CommandStream: the commands table   *)
(* of a session is its stream, observed_command_revision its prefix.        *)
EXTENDS MediaControl

Issued == [s \in Sessions |->
             IF s \in DOMAIN session THEN session[s].command_revision ELSE 0]

Acked == [s \in Sessions |->
            IF s \in DOMAIN session THEN session[s].observed ELSE 0]

PendingRevisions ==
    [s \in Sessions |->
        {command[k].revision : k \in {j \in DOMAIN command :
                                        /\ command[j].session = s
                                        /\ command[j].status = "pending"}}]

Stream == INSTANCE CommandStream WITH
    issued <- Issued, acked <- Acked, pending <- PendingRevisions

\* Without a handoff, every step of the repository issues the next command of
\* some sessions, settles one, acknowledges a prefix, or leaves the stream be.
ImplementsStream == Stream!Spec

=============================================================================
