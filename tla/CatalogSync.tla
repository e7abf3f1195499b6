----------------------------- MODULE CatalogSync -----------------------------
(***************************************************************************)
(* The catalog of the media center, as it follows one library agent: the    *)
(* passes of the sync worker and of the sync tools, the pages they pull and *)
(* the transaction that applies one, while the agent goes on writing and    *)
(* compacting its journal, calls fail, the process of the coordinator is     *)
(* restarted, and the topology changes between listing this agent's          *)
(* service instance, listing only others, and listing none.                  *)
(*                                                                         *)
(* Abstracted: an item's rows in the tables of works, collections,          *)
(* memberships and metadata claims; retired media_server rows; the counts   *)
(* of the library state.  The other agents of a pass are only present in    *)
(* whether the pass was complete.                                           *)
(***************************************************************************)
EXTENDS SourceJournal

CONSTANTS
    Pullers,        \* threads of the coordinator that run sync passes
    Instances,      \* service instances under which the agent may be listed
    Elsewhere,      \* the topology lists other agents only
    Nowhere,        \* the topology lists none: the colocated agent is asked
    Topologies,     \* what the topology may say
    Folders,        \* folder nodes of the catalog
    FoldersOf,      \* the folder of a file and the folders around it
    PageLimit       \* deltas asked for in one call

ASSUME TopologyAssumption ==
    /\ Elsewhere # Nowhere
    /\ {Elsewhere, Nowhere} \cap Instances = {}
    /\ Topologies \subseteq Instances \cup {Elsewhere, Nowhere}
ASSUME FoldersAssumption == IsFiniteSet(Folders) /\ FoldersOf \in [Sources -> SUBSET Folders]
ASSUME PageLimitAssumption == PageLimit \in Nat \ {0}

VARIABLES
    state,      \* the row of the agent in agent_catalog_state
    catalog,    \* the other tables: items, folder nodes and variants
    pulls,      \* what each puller is doing
    topology,   \* what _topology().agent_instances() answers
    retired     \* whether the agent was ever retired; not in the code

syncVars == <<state, catalog, pulls, topology, retired>>
vars == <<journalVars, syncVars>>

(* An item without a row has revision 0, a folder node without one counts
   0; the variants are those of the sources themselves that are available. *)
ItemRows == [revision : Nat, missing : BOOLEAN, content : Contents \cup {NoContent}]
NoItem == [revision |-> 0, missing |-> FALSE, content |-> NoContent]

Catalogs == [items : [Sources -> ItemRows], folders : [Folders -> Nat],
             variants : SUBSET Sources]
NoCatalog == [items |-> [s \in Sources |-> NoItem], folders |-> [f \in Folders |-> 0],
              variants |-> {}]

StateRows == [known : BOOLEAN, instance : Instances \cup {Nowhere}, cursor : Nat,
              available : BOOLEAN]
NoState == [known |-> FALSE, instance |-> Nowhere, cursor |-> 0, available |-> FALSE]

Phases == {"idle", "others", "ask", "rows", "page"}
Pulls == [phase : Phases, instance : Instances \cup {Nowhere}, cursor : Nat,
          limit : 1 .. PageLimit, rows : SUBSET Deltas, next : Nat, more : BOOLEAN]
Idle == [phase |-> "idle", instance |-> Nowhere, cursor |-> 0, limit |-> PageLimit,
         rows |-> {}, next |-> 0, more |-> FALSE]

SyncInit ==
    /\ state = NoState
    /\ catalog = NoCatalog
    /\ pulls = [p \in Pullers |-> Idle]
    /\ topology \in Topologies
    /\ retired = FALSE

Init == JournalInit /\ SyncInit

-----------------------------------------------------------------------------
(* The lock of the background runtime: one pass of the process at a time.   *)

Unlocked == \A p \in Pullers : pulls[p].phase = "idle"

Start(p, instance, cursor) ==
    pulls' = [pulls EXCEPT ![p] = [Idle EXCEPT !.phase = "ask", !.instance = instance,
                                               !.cursor = cursor]]

(* Variant: an agent stays as available as it was. *)
ReconciledNever == state

(* reconcile_agent_instances(): an agent bound to an instance that is not
   listed is not available. *)
Reconciled ==
    IF state.known /\ state.instance # Nowhere /\ state.instance # topology
    THEN [state EXCEPT !.available = FALSE]
    ELSE state

(* agent_binding() finds the cursor of the agent only under the instance it
   is bound to. *)
BoundCursor(instance) ==
    IF state.known /\ state.instance = instance THEN state.cursor ELSE 0

BeginInstance(p) ==
    /\ Unlocked
    /\ pulls[p].phase = "idle"
    /\ topology \in Instances
    /\ state' = Reconciled
    /\ Start(p, topology, BoundCursor(topology))
    /\ UNCHANGED <<catalog, topology, retired>>

(* agent_cursor(): the local agent's own cursor, bound or not. *)
BeginLocal(p) ==
    /\ Unlocked
    /\ pulls[p].phase = "idle"
    /\ topology = Nowhere
    /\ Start(p, Nowhere, state.cursor)
    /\ UNCHANGED <<state, catalog, topology, retired>>

(* The status call to the local agent fails: states that are not bound to
   an instance are marked unavailable. *)
LocalUnreachable(p) ==
    /\ Unlocked
    /\ pulls[p].phase = "idle"
    /\ topology = Nowhere
    /\ state.known /\ state.instance = Nowhere
    /\ state' = [state EXCEPT !.available = FALSE]
    /\ UNCHANGED <<catalog, pulls, topology, retired>>

BeginOthers(p) ==
    /\ Unlocked
    /\ pulls[p].phase = "idle"
    /\ topology = Elsewhere
    /\ state' = Reconciled
    /\ pulls' = [pulls EXCEPT ![p].phase = "others"]
    /\ UNCHANGED <<catalog, topology, retired>>

Withdrawn(item) == [item EXCEPT !.missing = item.revision > 0]

(* Variant: the folder nodes of a retired agent stay. *)
FoldersKept == catalog.folders

FoldersLeft == [f \in Folders |-> 0]

(* retire_unbound_agent_states(), after a complete pass over the others. *)
RetireUnbound(p) ==
    /\ pulls[p].phase = "others"
    /\ pulls' = [pulls EXCEPT ![p] = Idle]
    /\ IF state.known /\ state.instance = Nowhere
       THEN /\ state' = NoState
            /\ catalog' = [catalog EXCEPT !.items = [s \in Sources |-> Withdrawn(@[s])],
                                          !.folders = FoldersLeft]
            /\ retired' = TRUE
       ELSE UNCHANGED <<state, catalog, retired>>
    /\ UNCHANGED topology

OthersIncomplete(p) ==
    /\ pulls[p].phase = "others"
    /\ pulls' = [pulls EXCEPT ![p] = Idle]
    /\ UNCHANGED <<state, catalog, topology, retired>>

-----------------------------------------------------------------------------
(* One page: the two reads of the agent, and the transaction that applies   *)
(* the answer.                                                             *)

PullRows(p) ==
    /\ pulls[p].phase = "ask"
    /\ LET rows == Page(pulls[p].cursor, pulls[p].limit)
       IN pulls' = [pulls EXCEPT
             ![p].phase = "rows",
             ![p].rows = rows,
             ![p].next = NextCursor(pulls[p].cursor, rows),
             ![p].more = HasMore(pulls[p].cursor, pulls[p].limit)]
    /\ UNCHANGED <<state, catalog, topology, retired>>

(* Variant: the next cursor is that of the last delta that was expanded. *)
AnsweredWithLast(pull) ==
    [pull EXCEPT !.phase = "page", !.rows = Expanded(@),
                 !.next = NextCursor(pull.cursor, Expanded(pull.rows))]

Answered(pull) == [pull EXCEPT !.phase = "page", !.rows = Expanded(@)]

PullSources(p) ==
    /\ pulls[p].phase = "rows"
    /\ pulls' = [pulls EXCEPT ![p] = Answered(@)]
    /\ UNCHANGED <<state, catalog, topology, retired>>

(* service_invocation_result_too_large: the same cursor, half the limit. *)
PageTooLarge(p) ==
    /\ pulls[p].phase = "page"
    /\ pulls[p].instance # Nowhere
    /\ pulls[p].limit > 1
    /\ pulls' = [pulls EXCEPT ![p] = [Idle EXCEPT !.phase = "ask",
                                          !.instance = pulls[p].instance,
                                          !.cursor = pulls[p].cursor,
                                          !.limit = pulls[p].limit \div 2]]
    /\ UNCHANGED <<state, catalog, topology, retired>>

(* mark_agent_unavailable() inserts the row of an agent it has none of; a
   pass under an instance that is not bound does not know the agent's id. *)
MarkedUnavailable(instance) ==
    IF state.known /\ (instance = Nowhere \/ state.instance = instance)
    THEN [state EXCEPT !.available = FALSE]
    ELSE IF instance = Nowhere THEN [NoState EXCEPT !.known = TRUE]
    ELSE state

PageLost(p) ==
    /\ pulls[p].phase \in {"ask", "rows", "page"}
    /\ state' = MarkedUnavailable(pulls[p].instance)
    /\ pulls' = [pulls EXCEPT ![p] = Idle]
    /\ UNCHANGED <<catalog, topology, retired>>

(* The folders of a source count one more, or one less. *)
Counted(cat, s) ==
    [f \in Folders |-> IF f \in FoldersOf[s] THEN cat.folders[f] + 1 ELSE cat.folders[f]]
Discounted(cat, s) ==
    [f \in Folders |-> IF f \in FoldersOf[s] /\ cat.folders[f] > 0
                       THEN cat.folders[f] - 1
                       ELSE cat.folders[f]]

Listed(cat, s) == cat.items[s].revision > 0 /\ ~cat.items[s].missing

(* Variant: the variant of a removed source stays available. *)
PlayableWith(cat, s) == cat.variants

PlayableWithout(cat, s) == cat.variants \ {s}

(* A removal of an item the catalog has never seen leaves nothing behind. *)
ApplyRemoved(cat, d) ==
    IF cat.items[d.source].revision = 0 THEN cat
    ELSE [items    |-> [cat.items EXCEPT ![d.source].missing = TRUE,
                                         ![d.source].revision = d.revision],
          folders  |-> IF Listed(cat, d.source) THEN Discounted(cat, d.source)
                                                ELSE cat.folders,
          variants |-> PlayableWithout(cat, d.source)]

(* Variant: an item counts once it has a row. *)
CountedWithRow(cat, s) ==
    IF cat.items[s].revision > 0 THEN cat.folders ELSE Counted(cat, s)

CountedWith(cat, s) == IF Listed(cat, s) THEN cat.folders ELSE Counted(cat, s)

ApplyUpsert(cat, d) ==
    [items    |-> [cat.items EXCEPT ![d.source] = [revision |-> d.revision,
                                                   missing |-> FALSE,
                                                   content |-> d.content]],
     folders  |-> CountedWith(cat, d.source),
     variants |-> cat.variants \cup {d.source}]

(* Variant: deltas are applied as they come. *)
StaleNever(cat, d) == FALSE

Stale(cat, d) == cat.items[d.source].revision >= d.revision

ApplyDelta(cat, d) ==
    IF Stale(cat, d) THEN cat
    ELSE IF d.removed THEN ApplyRemoved(cat, d)
    ELSE ApplyUpsert(cat, d)

(* The deltas of a page, in the order of their sequences. *)
Applied(rows) ==
    LET upTo[q \in 0 .. MaxSequence] ==
            IF q = 0 THEN catalog
            ELSE IF \E d \in rows : d.sequence = q
            THEN ApplyDelta(upTo[q - 1], CHOOSE d \in rows : d.sequence = q)
            ELSE upTo[q - 1]
    IN upTo[MaxSequence]

(* The row of the agent: the cursor of the page, not the larger of the two. *)
Advanced(pull) ==
    [known |-> TRUE,
     instance |-> IF pull.instance # Nowhere THEN pull.instance ELSE state.instance,
     cursor |-> pull.next,
     available |-> TRUE]

(* apply_agent_page(), one transaction.  The pass goes on with the cursor of
   its page, or ends there: has_more is false or its pages are used up. *)
ApplyPage(p) ==
    /\ pulls[p].phase = "page"
    /\ catalog' = Applied(pulls[p].rows)
    /\ state' = Advanced(pulls[p])
    /\ \/ pulls' = [pulls EXCEPT ![p] = Idle]
       \/ /\ pulls[p].more
          /\ pulls' = [pulls EXCEPT ![p] = [Idle EXCEPT !.phase = "ask",
                                                !.instance = pulls[p].instance,
                                                !.cursor = pulls[p].next,
                                                !.limit = pulls[p].limit]]
    /\ UNCHANGED <<topology, retired>>

(* The process of the coordinator stops; a page that is not committed is
   lost. *)
Restart ==
    /\ ~Unlocked
    /\ pulls' = [p \in Pullers |-> Idle]
    /\ UNCHANGED <<state, catalog, topology, retired>>

TopologyChange ==
    /\ topology' \in Topologies \ {topology}
    /\ UNCHANGED <<state, catalog, pulls, retired>>

-----------------------------------------------------------------------------
Begin(p) == BeginInstance(p) \/ BeginLocal(p) \/ BeginOthers(p)

Finish(p) == RetireUnbound(p) \/ OthersIncomplete(p)

Failure(p) == LocalUnreachable(p) \/ PageTooLarge(p) \/ PageLost(p)

SyncStep ==
    /\ \/ \E p \in Pullers : \/ Begin(p) \/ Finish(p) \/ Failure(p)
                             \/ PullRows(p) \/ PullSources(p) \/ ApplyPage(p)
       \/ Restart
       \/ TopologyChange
    /\ UNCHANGED journalVars

AgentStep == JournalNext /\ UNCHANGED syncVars

Next == AgentStep \/ SyncStep

Spec == Init /\ [][Next]_vars

(* The worker begins a pass again and again, and calls and restarts do not
   fail every time: what a pass gets the chance to do infinitely often, it
   does infinitely often.  Nothing is assumed of the agent. *)
Fairness ==
    /\ SF_vars(\E p \in Pullers : Begin(p) /\ UNCHANGED journalVars)
    /\ SF_vars(\E p \in Pullers : Finish(p) /\ UNCHANGED journalVars)
    /\ SF_vars(\E p \in Pullers : PullRows(p) /\ UNCHANGED journalVars)
    /\ SF_vars(\E p \in Pullers : PullSources(p) /\ UNCHANGED journalVars)
    /\ SF_vars(\E p \in Pullers : ApplyPage(p) /\ UNCHANGED journalVars)

FairSpec == Spec /\ Fairness

-----------------------------------------------------------------------------
TypeOK ==
    /\ JournalTypeOK
    /\ state \in StateRows
    /\ catalog \in Catalogs
    /\ pulls \in [Pullers -> Pulls]
    /\ topology \in Topologies
    /\ retired \in BOOLEAN

(* The catalog has a source as the agent has it: listed with the same
   revision, or not listed. *)
Reflects(s) ==
    IF sources[s].present
    THEN Listed(catalog, s) /\ catalog.items[s].revision = sources[s].revision
    ELSE ~Listed(catalog, s)

(* Whatever the saved cursor has passed is in the catalog, whichever pass
   pulled it, whatever was compacted meanwhile and under whichever instance:
   a source without newer deltas is reflected.  An agent that was retired is
   excepted: its items stay withdrawn, because a replay is ignored. *)
NoChangeLost ==
    ~retired /\ state.known =>
        \A s \in Sources :
            (\A d \in deltas : d.source = s => d.sequence <= state.cursor) => Reflects(s)

(* The source counts of the folder nodes are those of the listed items, and
   what can be played is what is listed, after any order of additions,
   removals and replays.  A retirement leaves the variants as they are. *)
ProjectionsFollowItems ==
    /\ \A f \in Folders :
          catalog.folders[f] = Cardinality({s \in Sources : Listed(catalog, s) /\ f \in FoldersOf[s]})
    /\ ~retired => catalog.variants = {s \in Sources : Listed(catalog, s)}

(* The catalog implements the abstract replica: what it shows of a source is
   what the agent said of it at the revision the item claims, and an item
   never goes back to an older revision. *)
Replica == INSTANCE ReplicatedLibrary WITH
    version <- [s \in Sources |-> catalog.items[s].revision],
    shown   <- [s \in Sources |-> IF Listed(catalog, s) THEN catalog.items[s].content
                                                        ELSE NoContent]

ImplementsLibrary == Replica!Spec

(* Once the topology no longer changes and lists the agent, or has it asked
   directly, the catalog reflects every source for good, through lost pages,
   pages that are too large, restarts and compaction. *)
Converges ==
    \A t \in Topologies \ {Elsewhere} :
        <>[](topology = t) => <>[](retired \/ \A s \in Sources : Reflects(s))

(* An agent that is bound to an instance the topology no longer lists ends
   up unavailable, whichever pages were still on their way. *)
AvailabilitySettles ==
    <>[](topology = Elsewhere) => <>[](state.instance # Nowhere => ~state.available)
=============================================================================
