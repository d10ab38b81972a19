---------------------------- MODULE DeviceManager ----------------------------
(***************************************************************************)
(* The Discovery side of device_manager.py: one manager keeps the enriched  *)
(* retained Discovery documents of the devices that the gateway knows,      *)
(* while the firmware republishes its own poor documents on the same topics *)
(* and several synchronizations run at once, each suspended in its query or *)
(* in a publish.                                                            *)
(*                                                                         *)
(* A document is "poor" (the firmware's) or "rich" (with a device block and *)
(* SCSGATE's origin).  A topic names its component and its bus id, and the  *)
(* unique_id of both kinds of document is that bus id.                      *)
(***************************************************************************)
EXTENDS Naturals, FiniteSets, Sequences, SequencesExt

CONSTANTS
  Ids,          \* bus ids
  DeviceTypes,  \* the firmware's device types that occur
  Absent,       \* the gateway does not know the bus id
  Coordinator,  \* setup and the periodic refresh
  Users,        \* button presses and options dialogs
  Reconciler,   \* the task of _schedule_reconciliation
  MaxEvents     \* bound on what users, firmware, gateway and broker do

ASSUME TaskAssumption ==
  Reconciler # Coordinator /\ {Reconciler, Coordinator} \cap Users = {}
ASSUME TypeAssumption == Absent \notin DeviceTypes /\ DeviceTypes \subseteq Nat
ASSUME IdAssumption == IsFiniteSet(Ids)
ASSUME EventAssumption == MaxEvents \in Nat

Modes      == {"switch", "light"}
Components == {"switch", "light", "cover"}
Topics     == Components \X Ids
Tasks      == Users \cup {Coordinator, Reconciler}
NoTopic    == <<>>

VARIABLES
  registry,    \* gateway: the devices in the firmware's table
  retained,    \* broker: the retained document of each topic
  inbox,       \* broker: messages on their way to the manager
  subscribed,  \* _unsubs is not empty
  devices,     \* _devices
  mode,        \* _type_overrides
  observed,    \* _observed_topics, and with it _topic_unique_ids
  conflicts,   \* _conflicts
  pending,     \* _reconcile_pending
  issues,      \* repair issues shown to the user
  at,          \* where each task waits
  fresh,       \* the task runs inside async_start
  answer,      \* inventory on its way to the task
  todo,        \* bus ids its loop has still to publish
  clearing,    \* the topic that async_clear_stale_topic has just emptied
  lost,        \* messages went with a subscription that was dropped
  events

manager == <<subscribed, devices, mode, observed, conflicts, pending, issues>>
tasks   == <<at, fresh, answer, todo, clearing>>
broker  == <<retained, inbox, lost>>
vars    == <<registry, broker, manager, tasks, events>>

-----------------------------------------------------------------------------
(* Pure functions.                                                          *)

discovery_component(t, m) ==
  CASE t = 1                  -> IF m = "light" THEN "light" ELSE "switch"
    [] t \in {3, 4}           -> "light"
    [] t \in {8, 9, 18, 19}   -> "cover"
    [] OTHER                  -> "none"

discovery_topic(t, m, id) ==
  IF t = Absent \/ discovery_component(t, m) = "none"
  THEN NoTopic
  ELSE <<discovery_component(t, m), id>>

\* The enriched document, for the types that have a component.
build_discovery_payload(t, m) ==
  IF discovery_component(t, m) = "none" THEN "none" ELSE "rich"

\* Seeded fault: any document of a known unique_id asks for a reconciliation.
needs_reconciliation_always(doc) == doc # "none"

\* The document lacks a device block or SCSGATE's origin.
needs_reconciliation(doc) == doc = "poor"

TopicsOf(id) == {t \in Topics : t[2] = id}

\* find_existing_mqtt_identity finds two MQTT entities of one unique_id: Home
\* Assistant has one for every component that has a Discovery document.
Ambiguous(id) == Cardinality({t \in TopicsOf(id) : retained[t] # "none"}) > 1

repair_candidates ==
  {t \in observed : devices[t[2]] # Absent /\
                    t # discovery_topic(devices[t[2]], mode[t[2]], t[2])}

-----------------------------------------------------------------------------
Init ==
  /\ registry \in [Ids -> DeviceTypes \cup {Absent}]
  /\ lost = FALSE
  /\ retained = [t \in Topics |->
       IF t = discovery_topic(registry[t[2]], "switch", t[2])
       THEN "poor" ELSE "none"]
  /\ inbox = <<>>
  /\ subscribed = FALSE
  /\ devices = [id \in Ids |-> Absent]
  /\ mode = [id \in Ids |-> "switch"]
  /\ observed = {} /\ conflicts = {} /\ pending = FALSE /\ issues = {}
  /\ at = [p \in Tasks |-> "off"]
  /\ fresh = [p \in Tasks |-> FALSE]
  /\ answer = [p \in Tasks |-> [id \in Ids |-> Absent]]
  /\ todo = [p \in Tasks |-> {}]
  /\ clearing = [p \in Tasks |-> NoTopic]
  /\ events = 0

Event == events < MaxEvents /\ events' = events + 1

\* A retained publish reaches the broker, and the manager if it subscribes.
Publish(topic, doc) ==
  /\ retained' = [retained EXCEPT ![topic] = doc]
  /\ inbox' = IF subscribed THEN Append(inbox, <<topic, doc>>) ELSE inbox
  /\ UNCHANGED lost

-----------------------------------------------------------------------------
(* A synchronization.                                                       *)

\* async_sync up to its await of the query.
BeginSync(p) ==
  /\ at' = [at EXCEPT ![p] = "query"]
  /\ fresh' = [fresh EXCEPT ![p] = FALSE]

\* async_start: both subscriptions, then async_sync; the broker answers a
\* subscription with its retained documents.
Subscribe(p) ==
  /\ subscribed' = TRUE
  /\ inbox' = SetToSeq({<<t, retained[t]>> :
                          t \in {u \in Topics : retained[u] # "none"}})
  /\ at' = [at EXCEPT ![p] = "query"]
  /\ fresh' = [fresh EXCEPT ![p] = TRUE]

\* async_ensure_started.
EnsureStarted(p) ==
  \/ subscribed /\ BeginSync(p) /\ UNCHANGED <<subscribed, inbox>>
  \/ ~subscribed /\ Subscribe(p)

\* Setup and every coordinator refresh.  Its interval is longer than a delivery.
PeriodicSync(p) ==
  /\ at[p] = "off" /\ inbox = <<>>
  /\ EnsureStarted(p)
  /\ UNCHANGED <<registry, retained, lost, devices, mode, observed, conflicts,
                 pending, issues, answer, todo, clearing, events>>

\* The broker refuses the subscriptions: async_start stops and raises before it
\* has changed anything.
SubscribeFails(p) ==
  /\ at[p] = "off" /\ ~subscribed
  /\ Event
  /\ UNCHANGED <<registry, broker, manager, tasks>>

\* A maintenance button, or the sync action of the dialog, ends in async_sync.
PressButton(p) ==
  /\ at[p] = "off"
  /\ Event
  /\ BeginSync(p)
  /\ UNCHANGED <<registry, broker, manager, answer, todo, clearing>>

\* The edit dialog has written the device to the gateway (DeviceChanged); it sets
\* the presentation of a type 1 device and synchronizes.
SaveDevice(p) ==
  /\ at[p] = "off"
  /\ Event
  /\ BeginSync(p)
  /\ \E id \in Ids, m \in Modes : mode' = [mode EXCEPT ![id] = m]
  /\ UNCHANGED <<registry, broker, subscribed, devices, observed, conflicts,
                 pending, issues, answer, todo, clearing>>

\* The gateway answers with its table as it is now; the answer travels.
QueryServed(p) ==
  /\ at[p] = "query"
  /\ at' = [at EXCEPT ![p] = "answered"]
  /\ answer' = [answer EXCEPT ![p] = registry]
  /\ UNCHANGED <<registry, broker, manager, fresh, todo, clearing, events>>

\* The firmware is still importing the PIC's table: its "waiting query" page has no
\* devices, and async_query_devices takes it for an empty table.
QueryWaits(p) ==
  /\ at[p] = "query"
  /\ Event
  /\ at' = [at EXCEPT ![p] = "answered"]
  /\ answer' = [answer EXCEPT ![p] = [id \in Ids |-> Absent]]
  /\ UNCHANGED <<registry, broker, manager, fresh, todo, clearing>>

\* The answer replaces _devices, whatever other synchronizations did meanwhile.
QueryAnswered(p) ==
  /\ at[p] = "answered"
  /\ devices' = answer[p]
  /\ conflicts' = {id \in Ids : Cardinality(observed \cap TopicsOf(id)) > 1}
  /\ at' = [at EXCEPT ![p] = "publish"]
  /\ todo' = [todo EXCEPT ![p] = {id \in Ids : answer[p][id] # Absent}]
  /\ UNCHANGED <<registry, broker, subscribed, mode, observed, pending, issues,
                 fresh, answer, clearing, events>>

\* Seeded fault: the loop publishes whether or not the type has a topic.
PublishNextUnsupported(p) ==
  /\ at[p] = "publish"
  /\ \E id \in todo[p] :
       /\ todo' = [todo EXCEPT ![p] = @ \ {id}]
       /\ Publish(discovery_topic(answer[p][id], mode[id], id), "rich")
  /\ UNCHANGED <<registry, manager, at, fresh, answer, clearing, events>>

\* Seeded fault: a topic that has a document already is not published again.
PublishNextOnce(p) ==
  /\ at[p] = "publish"
  /\ \E id \in todo[p] :
       LET topic == discovery_topic(answer[p][id], mode[id], id) IN
         /\ todo' = [todo EXCEPT ![p] = @ \ {id}]
         /\ IF topic = NoTopic \/ topic \in observed \/ Ambiguous(id)
            THEN UNCHANGED broker ELSE Publish(topic, "rich")
  /\ UNCHANGED <<registry, manager, at, fresh, answer, clearing, events>>

\* One turn of the loop: an ambiguous identity is marked and left alone.
PublishNext(p) ==
  /\ at[p] = "publish"
  /\ \E id \in todo[p] :
       LET topic == discovery_topic(answer[p][id], mode[id], id)
           doc   == build_discovery_payload(answer[p][id], mode[id])
       IN
         /\ todo' = [todo EXCEPT ![p] = @ \ {id}]
         /\ \/ /\ Ambiguous(id)
               /\ conflicts' = conflicts \cup {id}
               /\ UNCHANGED broker
            \/ /\ ~Ambiguous(id) /\ (topic = NoTopic \/ doc = "none")
               /\ UNCHANGED <<conflicts, broker>>
            \/ /\ ~Ambiguous(id) /\ topic # NoTopic /\ doc # "none"
               /\ Publish(topic, doc)
               /\ UNCHANGED conflicts
  /\ UNCHANGED <<registry, subscribed, devices, mode, observed, pending, issues,
                 at, fresh, answer, clearing, events>>

\* Seeded fault: the reconciliation keeps its flag.
TaskEndsPending(p) ==
  /\ at' = [at EXCEPT ![p] = "off"]
  /\ fresh' = [fresh EXCEPT ![p] = FALSE]
  /\ todo' = [todo EXCEPT ![p] = {}]
  /\ UNCHANGED pending

\* The task ends; reconcile() clears its flag in a finally clause.
TaskEnds(p) ==
  /\ at' = [at EXCEPT ![p] = "off"]
  /\ fresh' = [fresh EXCEPT ![p] = FALSE]
  /\ todo' = [todo EXCEPT ![p] = {}]
  /\ pending' = IF p = Reconciler THEN FALSE ELSE pending

_update_repairs(cs) == (IF cs = {} THEN {} ELSE {"discovery_conflict"})

\* Seeded fault: success leaves the repair issues as they are.
SyncEndsSilently(p) ==
  /\ at[p] = "publish" /\ todo[p] = {}
  /\ TaskEnds(p)
  /\ UNCHANGED <<registry, broker, subscribed, devices, mode, observed, conflicts,
                 issues, answer, clearing, events>>

SyncEnds(p) ==
  /\ at[p] = "publish" /\ todo[p] = {}
  /\ issues' = _update_repairs(conflicts)
  /\ TaskEnds(p)
  /\ UNCHANGED <<registry, broker, subscribed, devices, mode, observed, conflicts,
                 answer, clearing, events>>

\* Query or publish raises: the issue is created, async_start unsubscribes.
SyncFails(p) ==
  /\ at[p] \in {"query", "answered", "publish"}
  /\ Event
  /\ issues' = issues \cup {"broker_or_gateway_offline"}
  /\ IF fresh[p]
     THEN /\ subscribed' = FALSE /\ inbox' = <<>>
          /\ lost' = (lost \/ inbox # <<>>)
     ELSE UNCHANGED <<subscribed, inbox, lost>>
  /\ TaskEnds(p)
  /\ UNCHANGED <<registry, retained, devices, mode, observed, conflicts, answer,
                 clearing>>

-----------------------------------------------------------------------------
(* Callbacks of the two subscriptions.                                      *)

\* _schedule_reconciliation: a task unless one is on its way.
Schedule ==
  \/ pending /\ UNCHANGED <<pending, at, fresh>>
  \/ ~pending /\ pending' = TRUE /\ BeginSync(Reconciler)

NoSchedule == UNCHANGED <<pending, at, fresh>>

\* Seeded fault: an emptied topic stays among the observed ones.
ForgetTopicNever(topic) == UNCHANGED observed

ForgetTopic(topic) == observed' = observed \ {topic}

DiscoveryReceived ==
  /\ inbox # <<>>
  /\ inbox' = Tail(inbox)
  /\ LET topic == Head(inbox)[1]
         doc   == Head(inbox)[2]
         id    == topic[2]
         seen  == (observed \cup {topic}) \cap TopicsOf(id)
     IN \/ /\ doc = "none"
           /\ ForgetTopic(topic)
           /\ NoSchedule
           /\ UNCHANGED <<conflicts, issues>>
        \/ /\ doc # "none"
           /\ observed' = observed \cup {topic}
           /\ IF Cardinality(seen) > 1
              THEN /\ conflicts' = conflicts \cup {id}
                   /\ issues' = _update_repairs(conflicts')
              ELSE UNCHANGED <<conflicts, issues>>
           /\ IF devices[id] # Absent /\ needs_reconciliation(doc)
              THEN Schedule
              ELSE NoSchedule
  /\ UNCHANGED <<registry, retained, lost, subscribed, devices, mode, answer,
                 todo, clearing, events>>

BirthReceived ==
  /\ subscribed
  /\ Event
  /\ Schedule
  /\ UNCHANGED <<registry, broker, subscribed, devices, mode, observed, conflicts,
                 issues, answer, todo, clearing>>

-----------------------------------------------------------------------------
(* Guided repair: async_clear_stale_topic.                                  *)

ClearStaleTopic(p) ==
  /\ at[p] = "off"
  /\ Event
  /\ \E t \in repair_candidates :
       /\ Publish(t, "none")
       /\ clearing' = [clearing EXCEPT ![p] = t]
  /\ at' = [at EXCEPT ![p] = "clear"]
  /\ UNCHANGED <<registry, manager, fresh, answer, todo>>

StaleTopicCleared(p) ==
  /\ at[p] = "clear"
  /\ ForgetTopic(clearing[p])
  /\ clearing' = [clearing EXCEPT ![p] = NoTopic]
  /\ BeginSync(p)
  /\ UNCHANGED <<registry, broker, subscribed, devices, mode, conflicts, pending,
                 issues, answer, todo, events>>

-----------------------------------------------------------------------------
(* The gateway.                                                             *)

\* The firmware publishes its own document, a type 1 device as a switch.
FirmwareRepublish ==
  /\ Event
  /\ \E id \in Ids :
       LET topic == discovery_topic(registry[id], "switch", id) IN
         topic # NoTopic /\ Publish(topic, "poor")
  /\ UNCHANGED <<registry, manager, tasks>>

\* A device is learned, edited or removed.
DeviceChanged ==
  /\ Event
  /\ \E id \in Ids, t \in DeviceTypes \cup {Absent} :
       registry' = [registry EXCEPT ![id] = t]
  /\ UNCHANGED <<broker, manager, tasks>>

-----------------------------------------------------------------------------
SyncStep(p) ==
  QueryServed(p) \/ QueryAnswered(p) \/ PublishNext(p) \/ SyncEnds(p)
    \/ StaleTopicCleared(p)

Next ==
  \/ PeriodicSync(Coordinator) \/ SubscribeFails(Coordinator)
  \/ \E p \in Users : PressButton(p) \/ SaveDevice(p) \/ ClearStaleTopic(p)
  \/ \E p \in Tasks : SyncStep(p) \/ SyncFails(p) \/ QueryWaits(p)
  \/ DiscoveryReceived \/ BirthReceived
  \/ FirmwareRepublish \/ DeviceChanged

Spec == Init /\ [][Next]_vars

(***************************************************************************)
(* The coordinator refreshes for ever, HTTP and MQTT awaits end, the broker *)
(* delivers what it accepted.                                               *)
(***************************************************************************)
Fairness ==
  /\ WF_vars(PeriodicSync(Coordinator))
  /\ \A p \in Tasks : WF_vars(SyncStep(p))
  /\ WF_vars(DiscoveryReceived)

FairSpec == Spec /\ Fairness

-----------------------------------------------------------------------------
(* Properties.                                                              *)

Inventory == [Ids -> DeviceTypes \cup {Absent}]

\* Every variable keeps its type.
TypeOK ==
  /\ registry \in Inventory /\ devices \in Inventory
  /\ retained \in [Topics -> {"none", "poor", "rich"}]
  /\ inbox \in Seq(Topics \X {"none", "poor", "rich"})
  /\ subscribed \in BOOLEAN /\ pending \in BOOLEAN /\ lost \in BOOLEAN
  /\ mode \in [Ids -> Modes]
  /\ observed \subseteq Topics /\ conflicts \subseteq Ids
  /\ issues \subseteq {"discovery_conflict", "broker_or_gateway_offline"}
  /\ at \in [Tasks -> {"off", "query", "answered", "publish", "clear"}]
  /\ fresh \in [Tasks -> BOOLEAN]
  /\ answer \in [Tasks -> Inventory]
  /\ todo \in [Tasks -> SUBSET Ids]
  /\ clearing \in [Tasks -> Topics \cup {NoTopic}]
  /\ events \in 0..MaxEvents

Quiet == inbox = <<>> /\ \A p \in Tasks : at[p] = "off"

\* Guided repair offers only documents that exist: a topic the manager remembers
\* is one the broker holds, whatever was published while it was emptied, unless
\* the message that says so was lost with a subscription.
CandidatesExist ==
  Quiet /\ subscribed /\ ~lost => \A t \in repair_candidates : retained[t] # "none"

\* The flag that coalesces bursts is up exactly while its task runs: it cannot
\* stay up and mute every later burst.
PendingMeansTask == pending <=> at[Reconciler] # "off"

\* Poor documents do not stay: once the surroundings are quiet, every supported
\* device whose identity is not ambiguous carries the enriched document.
EventuallyEnriched ==
  <>[](\A id \in Ids :
         LET topic == discovery_topic(registry[id], mode[id], id) IN
           topic = NoTopic \/ Ambiguous(id) \/ retained[topic] = "rich")

\* The manager's own documents do not wake it: reconciliations come to an end.
EventuallyCalm == <>[](at[Reconciler] = "off")

\* The inventory and the repair issues catch up with the gateway and the broker,
\* whatever order the answers of concurrent queries arrived in: an outage is
\* withdrawn, a known device with two documents is reported, and without any such
\* device the report goes unless a lost message keeps it up.
EventuallyKnown ==
  <>[](/\ devices = registry
       /\ "broker_or_gateway_offline" \notin issues
       /\ (\E id \in Ids : registry[id] # Absent /\ Ambiguous(id))
            => "discovery_conflict" \in issues
       /\ lost \/ (\E id \in Ids : Ambiguous(id))
            \/ "discovery_conflict" \notin issues)
=============================================================================
