-------------------------- MODULE ReplicatedLibrary --------------------------
(***************************************************************************)
(* What a catalog that follows a library promises its readers: whatever it  *)
(* shows of a file is what the library said of it at one time, it never     *)
(* goes back to something older, and when it does not know it shows         *)
(* nothing.                                                                *)
(***************************************************************************)
EXTENDS Naturals, Sequences

CONSTANTS Sources, Contents, NoContent

VARIABLES
    history,    \* what the library has said of each file, in order
    version,    \* how far into that history the catalog is, for each file
    shown       \* what the catalog shows of each file

vars == <<history, version, shown>>

Init ==
    /\ history = [s \in Sources |-> <<>>]
    /\ version = [s \in Sources |-> 0]
    /\ shown = [s \in Sources |-> NoContent]

(* The library says something new of some files. *)
Change ==
    /\ history' \in [Sources -> Seq(Contents \cup {NoContent})]
    /\ \A s \in Sources :
          \/ history'[s] = history[s]
          \/ \E c \in Contents \cup {NoContent} : history'[s] = Append(history[s], c)
    /\ UNCHANGED <<version, shown>>

(* The catalog catches up on some files, in part or in full. *)
Follow ==
    /\ \A s \in Sources :
          \/ version'[s] = version[s] /\ shown'[s] = shown[s]
          \/ /\ version'[s] > version[s]
             /\ version'[s] <= Len(history[s])
             /\ shown'[s] = history[s][version'[s]]
    /\ UNCHANGED history

(* The catalog no longer shows the library. *)
Withdraw ==
    /\ shown' = [s \in Sources |-> NoContent]
    /\ UNCHANGED <<history, version>>

Next == Change \/ Follow \/ Withdraw

Spec == Init /\ [][Next]_vars
=============================================================================
