---------------------------- MODULE CommandStream ----------------------------
(***************************************************************************)
(* What media_control promises the endpoint of a session: its commands are *)
(* a stream numbered without gaps and acknowledged by prefixes.  A command *)
(* is pending until its prefix is acknowledged, until it is settled by     *)
(* itself, or until a newer command replaces it, and never again after.    *)
(***************************************************************************)
EXTENDS Integers

CONSTANT Sessions

VARIABLES
    issued,   \* session -> number of commands issued
    acked,    \* session -> length of the acknowledged prefix
    pending   \* session -> numbers of the commands to be replayed

vars == <<issued, acked, pending>>

Init ==
    /\ issued = [s \in Sessions |-> 0]
    /\ acked = [s \in Sessions |-> 0]
    /\ pending = [s \in Sessions |-> {}]

\* Each session of S gets its next command, which may replace pending ones.
Issue(S) ==
    /\ issued' = [s \in Sessions |-> IF s \in S THEN issued[s] + 1 ELSE issued[s]]
    /\ DOMAIN pending' = Sessions
    /\ \A s \in S : /\ issued[s] + 1 \in pending'[s]
                    /\ pending'[s] \subseteq pending[s] \cup {issued[s] + 1}
    /\ \A s \in Sessions \ S : pending'[s] = pending[s]
    /\ UNCHANGED acked

Settle(s, n) ==
    /\ n \in pending[s]
    /\ pending' = [pending EXCEPT ![s] = @ \ {n}]
    /\ UNCHANGED <<issued, acked>>

Acknowledge(s, n) ==
    /\ n \in acked[s] + 1 .. issued[s]
    /\ acked' = [acked EXCEPT ![s] = n]
    /\ pending' = [pending EXCEPT ![s] = {m \in @ : m > n}]
    /\ UNCHANGED issued

Next ==
    \/ \E S \in SUBSET Sessions : Issue(S)
    \/ \E s \in Sessions :
          \/ \E n \in pending[s] : Settle(s, n)
          \/ \E n \in acked[s] + 1 .. issued[s] : Acknowledge(s, n)

Spec == Init /\ [][Next]_vars

=============================================================================
