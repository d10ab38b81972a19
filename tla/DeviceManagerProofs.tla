-------------------------- MODULE DeviceManagerProofs --------------------------
(* Theorems about DeviceManager, for every set of bus ids, of device types  *)
(* and of users, and however often they act.                                *)
EXTENDS DeviceManager, FiniteSetTheorems, TLAPS

Docs     == {"none", "poor", "rich"}
Messages == Topics \X Docs

(***************************************************************************)
(* The inductive invariant.  Each part is about one property.               *)
(***************************************************************************)
\* A task remembers a topic only while it clears it; the reconciliation clears none.
ClearInv == \A p \in Tasks : clearing[p] # NoTopic => at[p] = "clear"

\* The message that a topic was emptied waits as the i-th.
Emptied(t, i) == inbox[i][1] = t /\ inbox[i][2] = "none"

\* Without a subscription there are no messages.  A document that is gone from the
\* broker and still on its way to the manager is followed by the message that it is gone;
\* one that the manager remembers will be forgotten by that message or by the task that
\* cleared it, unless messages were lost.
InboxInv ==
  /\ ~subscribed => inbox = <<>>
  /\ \A t \in Topics : retained[t] = "none" =>
       /\ \A i \in 1..Len(inbox) : inbox[i][1] = t /\ inbox[i][2] # "none" =>
            \E j \in 1..Len(inbox) : j > i /\ Emptied(t, j)
       /\ t \in observed /\ ~lost =>
            \/ \E p \in Tasks : clearing[p] = t
            \/ \E j \in 1..Len(inbox) : Emptied(t, j)

IInv == TypeOK /\ PendingMeansTask /\ ClearInv /\ InboxInv
-----------------------------------------------------------------------------
(* The model's operators.                                                   *)

\* A document has one topic of two parts, or none.
LEMMA TopicTyped ==
  ASSUME NEW t, NEW m, NEW id \in Ids
  PROVE  discovery_topic(t, m, id) \in Topics \cup {NoTopic}
<1>1. discovery_component(t, m) \in Components \cup {"none"}
  BY DEF discovery_component, Components
<1>2. QED
  BY <1>1 DEF discovery_topic, Topics

LEMMA NoTopicIsNone == NoTopic \notin Topics
<1> SUFFICES ASSUME NEW c \in Components, NEW id \in Ids PROVE <<>> # <<c, id>>
  BY DEF NoTopic, Topics
<1>1. Len(<<>>) = 0 /\ Len(<<c, id>>) = 2
  OBVIOUS
<1>2. QED
  BY <1>1

\* What the broker answers a subscription with.
Backlog == {<<t, retained[t]>> : t \in {u \in Topics : retained[u] # "none"}}

\* It can be put in an order, and has only documents that there are.
LEMMA BacklogOrdered ==
  ASSUME TypeOK
  PROVE  /\ SetToSeq(Backlog) \in Seq(Messages)
         /\ \A i \in 1..Len(SetToSeq(Backlog)) :
              SetToSeq(Backlog)[i][2] = retained[SetToSeq(Backlog)[i][1]]
              /\ SetToSeq(Backlog)[i][2] # "none"
<1> DEFINE s == SetToSeq(Backlog)
<1>1. Backlog \subseteq Messages
  BY DEF Backlog, Messages, Docs, TypeOK
<1>2. IsFiniteSet(Backlog)
  <2>1. ASSUME NEW a, NEW b, NEW c PROVE IsFiniteSet({a, b, c})
    <3>1. IsFiniteSet({a} \cup {b})
      BY FS_Singleton, FS_Union
    <3>2. IsFiniteSet(({a} \cup {b}) \cup {c})
      BY <3>1, FS_Singleton, FS_Union
    <3>3. {a, b, c} = ({a} \cup {b}) \cup {c}
      OBVIOUS
    <3>4. QED
      BY <3>2, <3>3
  <2>2. IsFiniteSet(Components) /\ IsFiniteSet({"none", "poor", "rich"})
    BY <2>1 DEF Components
  <2>3. IsFiniteSet(Messages)
    BY <2>2, IdAssumption, FS_Product DEF Messages, Topics, Docs
  <2>4. QED
    BY <1>1, <2>3, FS_Subset
<1>3. PICK f : f \in [1..Cardinality(Backlog) -> Backlog] /\ IsInjective(f)
  BY <1>2, FS_CardinalityType DEF ExistsBijection, Bijection, Injection
<1>4. s \in [1..Cardinality(Backlog) -> Backlog] /\ Cardinality(Backlog) \in Nat
  BY <1>2, <1>3, FS_CardinalityType DEF SetToSeq
<1>5. s \in Seq(Backlog) /\ Len(s) = Cardinality(Backlog)
  BY <1>4
<1>6. \A m \in Backlog : m[2] = retained[m[1]] /\ m[2] # "none"
  BY DEF Backlog
<1>7. QED
  BY <1>1, <1>4, <1>5, <1>6

-----------------------------------------------------------------------------
(* Type correctness.                                                        *)

\* A publish keeps the types of the broker.
LEMMA PublishTyped ==
  ASSUME TypeOK, NEW topic \in Topics, NEW doc \in Docs, Publish(topic, doc)
  PROVE  /\ retained' \in [Topics -> {"none", "poor", "rich"}]
         /\ inbox' \in Seq(Topics \X {"none", "poor", "rich"})
         /\ lost' \in BOOLEAN
<1>1. <<topic, doc>> \in Topics \X {"none", "poor", "rich"}
  BY DEF Docs
<1>2. QED
  BY <1>1 DEF TypeOK, Publish, Docs

LEMMA RepairsTyped ==
  \A cs : _update_repairs(cs) \subseteq {"discovery_conflict", "broker_or_gateway_offline"}
BY DEF _update_repairs

LEMMA TaskEndsTyped ==
  ASSUME TypeOK, NEW p \in Tasks, TaskEnds(p)
  PROVE  /\ at' \in [Tasks -> {"off", "query", "answered", "publish", "clear"}]
         /\ fresh' \in [Tasks -> BOOLEAN] /\ todo' \in [Tasks -> SUBSET Ids]
         /\ pending' \in BOOLEAN
<1>1. pending' \in BOOLEAN
  BY DEF TypeOK, TaskEnds
<1>2. todo' \in [Tasks -> SUBSET Ids]
  BY DEF TypeOK, TaskEnds
<1>3. QED
  BY <1>1, <1>2 DEF TypeOK, TaskEnds

\* A turn of the loop publishes to a topic, or not at all.
LEMMA PublishCases ==
  ASSUME TypeOK, NEW p \in Tasks, PublishNext(p)
  PROVE  \E id \in todo[p] :
           /\ todo' = [todo EXCEPT ![p] = @ \ {id}]
           /\ \/ conflicts' = conflicts \cup {id} /\ UNCHANGED broker
              \/ UNCHANGED <<conflicts, broker>>
              \/ \E topic \in Topics, doc \in {"poor", "rich"} :
                   Publish(topic, doc) /\ UNCHANGED conflicts
<1>1. todo[p] \subseteq Ids
  BY DEF TypeOK
<1>2. PICK id \in todo[p] :
        /\ todo' = [todo EXCEPT ![p] = @ \ {id}]
        /\ \/ conflicts' = conflicts \cup {id} /\ UNCHANGED broker
           \/ UNCHANGED <<conflicts, broker>>
           \/ LET topic == discovery_topic(answer[p][id], mode[id], id)
                  doc   == build_discovery_payload(answer[p][id], mode[id])
              IN topic # NoTopic /\ doc # "none" /\ Publish(topic, doc)
                   /\ UNCHANGED conflicts
  BY DEF PublishNext
<1>3. discovery_topic(answer[p][id], mode[id], id) \in Topics \cup {NoTopic}
  BY <1>1, TopicTyped
<1>4. build_discovery_payload(answer[p][id], mode[id]) \in {"none", "rich"}
  BY DEF build_discovery_payload
<1>5. QED
  BY <1>2, <1>3, <1>4

LEMMA TypeStep ==
  TypeOK /\ [Next]_vars => TypeOK'
<1> SUFFICES ASSUME TypeOK, [Next]_vars PROVE TypeOK'
  OBVIOUS
<1>a. Users \subseteq Tasks /\ Coordinator \in Tasks /\ Reconciler \in Tasks
  BY DEF Tasks
<1> USE <1>a, TypeAssumption, EventAssumption DEF TypeOK, Inventory, Modes
<1>1. CASE PeriodicSync(Coordinator)
  <2>1. inbox' \in Seq(Topics \X {"none", "poor", "rich"}) /\ subscribed' \in BOOLEAN
    BY <1>1, BacklogOrdered DEF PeriodicSync, EnsureStarted, Subscribe, Backlog, Messages, Docs
  <2>2. /\ at' \in [Tasks -> {"off", "query", "answered", "publish", "clear"}]
        /\ fresh' \in [Tasks -> BOOLEAN]
    BY <1>1 DEF PeriodicSync, EnsureStarted, Subscribe, BeginSync
  <2>3. QED
    BY <1>1, <2>1, <2>2 DEF PeriodicSync
<1>2. CASE SubscribeFails(Coordinator)
  BY <1>2 DEF SubscribeFails, Event, manager, tasks, broker
<1>3. ASSUME NEW p \in Users, PressButton(p) PROVE TypeOK'
  BY <1>3 DEF PressButton, Event, BeginSync, manager, tasks, broker
<1>4. ASSUME NEW p \in Users, SaveDevice(p) PROVE TypeOK'
  BY <1>4 DEF SaveDevice, Event, BeginSync, manager, tasks, broker
<1>5. ASSUME NEW p \in Users, ClearStaleTopic(p) PROVE TypeOK'
  <2>1. PICK t \in Topics :
          Publish(t, "none") /\ clearing' = [clearing EXCEPT ![p] = t]
    BY <1>5 DEF ClearStaleTopic, repair_candidates
  <2>2. QED
    BY <1>5, <2>1, PublishTyped DEF ClearStaleTopic, Event, Docs, manager, tasks, broker
<1>6. ASSUME NEW p \in Tasks, QueryServed(p) PROVE TypeOK'
  BY <1>6 DEF QueryServed, manager, tasks, broker
<1>7. ASSUME NEW p \in Tasks, QueryAnswered(p) PROVE TypeOK'
  <2>1. devices' \in Inventory /\ conflicts' \subseteq Ids
    BY <1>7 DEF QueryAnswered
  <2>2. todo' \in [Tasks -> SUBSET Ids]
    BY <1>7 DEF QueryAnswered
  <2>3. QED
    BY <1>7, <2>1, <2>2 DEF QueryAnswered, manager, tasks, broker
<1>8. ASSUME NEW p \in Tasks, PublishNext(p) PROVE TypeOK'
  <2>1. PICK id \in todo[p] :
          /\ todo' = [todo EXCEPT ![p] = todo[p] \ {id}]
          /\ \/ conflicts' = conflicts \cup {id} /\ UNCHANGED broker
             \/ UNCHANGED <<conflicts, broker>>
             \/ \E topic \in Topics, doc \in {"poor", "rich"} :
                  Publish(topic, doc) /\ UNCHANGED conflicts
    <3> HIDE DEF TypeOK
    <3> QED
      BY <1>8, PublishCases
  <2>a. todo[p] \in SUBSET Ids
    OBVIOUS
  <2>2. id \in Ids
    BY <2>1, <2>a
  <2>3. /\ todo' \in [Tasks -> SUBSET Ids] /\ conflicts' \subseteq Ids
    <3>1. todo[p] \ {id} \in SUBSET Ids /\ conflicts \cup {id} \subseteq Ids
      BY <2>a, <2>2
    <3>2. todo' \in [Tasks -> SUBSET Ids]
      BY <2>1, <3>1
    <3>3. conflicts' = conflicts \/ conflicts' = conflicts \cup {id}
      BY <2>1
    <3>4. QED
      BY <3>1, <3>2, <3>3
  <2>4. /\ retained' \in [Topics -> {"none", "poor", "rich"}]
        /\ inbox' \in Seq(Topics \X {"none", "poor", "rich"})
        /\ lost' \in BOOLEAN
    BY <2>1, PublishTyped DEF broker, Docs
  <2>5. QED
    BY <1>8, <2>3, <2>4 DEF PublishNext
<1>9. ASSUME NEW p \in Tasks, SyncEnds(p) PROVE TypeOK'
  <2>1. /\ at' \in [Tasks -> {"off", "query", "answered", "publish", "clear"}]
        /\ fresh' \in [Tasks -> BOOLEAN] /\ todo' \in [Tasks -> SUBSET Ids]
        /\ pending' \in BOOLEAN
    BY <1>9, TaskEndsTyped DEF SyncEnds
  <2>a. issues' \subseteq {"discovery_conflict", "broker_or_gateway_offline"}
    BY <1>9, RepairsTyped, Zenon DEF SyncEnds
  <2>2. QED
    BY <1>9, <2>1, <2>a DEF SyncEnds, broker
<1>10. ASSUME NEW p \in Tasks, StaleTopicCleared(p) PROVE TypeOK'
  BY <1>10 DEF StaleTopicCleared, ForgetTopic, BeginSync, manager, tasks, broker
<1>11. ASSUME NEW p \in Tasks, SyncFails(p) PROVE TypeOK'
  <2>1. /\ at' \in [Tasks -> {"off", "query", "answered", "publish", "clear"}]
        /\ fresh' \in [Tasks -> BOOLEAN] /\ todo' \in [Tasks -> SUBSET Ids]
        /\ pending' \in BOOLEAN
    BY <1>11, TaskEndsTyped DEF SyncFails
  <2>a. issues' \subseteq {"discovery_conflict", "broker_or_gateway_offline"}
    <3>1. issues' = issues \cup {"broker_or_gateway_offline"}
      BY <1>11 DEF SyncFails
    <3>2. issues \subseteq {"discovery_conflict", "broker_or_gateway_offline"}
      OBVIOUS
    <3>3. QED
      BY <3>1, <3>2
  <2>2. subscribed' \in BOOLEAN /\ inbox' \in Seq(Topics \X {"none", "poor", "rich"})
    <3>1. \/ subscribed' = FALSE /\ inbox' = <<>>
          \/ UNCHANGED <<subscribed, inbox>>
      BY <1>11 DEF SyncFails
    <3>2. <<>> \in Seq(Topics \X {"none", "poor", "rich"})
      OBVIOUS
    <3>3. QED
      BY <3>1, <3>2
  <2>3. lost' = lost \/ lost' = (lost \/ inbox # <<>>)
    BY <1>11 DEF SyncFails
  <2>4. lost' \in BOOLEAN
    BY <2>3
  <2>5. events' \in 0..MaxEvents
    BY <1>11 DEF SyncFails, Event
  <2>6. QED
    BY <1>11, <2>1, <2>a, <2>2, <2>4, <2>5 DEF SyncFails
<1>12. ASSUME NEW p \in Tasks, QueryWaits(p) PROVE TypeOK'
  <2>1. [id \in Ids |-> Absent] \in Inventory
    OBVIOUS
  <2>2. QED
    BY <1>12, <2>1 DEF QueryWaits, Event, manager, tasks, broker
<1>13. CASE DiscoveryReceived
  <2>1. inbox' \in Seq(Topics \X {"none", "poor", "rich"})
    BY <1>13 DEF DiscoveryReceived
  <2>2. Head(inbox) \in Topics \X {"none", "poor", "rich"}
    BY <1>13 DEF DiscoveryReceived
  <2>3. Head(inbox)[1] \in Topics /\ Head(inbox)[1][2] \in Ids
    BY <2>2 DEF Topics
  <2>4. observed' \subseteq Topics
    BY <1>13, <2>3 DEF DiscoveryReceived, ForgetTopic
  <2>5. /\ conflicts' \subseteq Ids
        /\ issues' \subseteq {"discovery_conflict", "broker_or_gateway_offline"}
    BY <1>13, <2>3 DEF DiscoveryReceived, _update_repairs
  <2>6. Schedule \/ NoSchedule
    BY <1>13 DEF DiscoveryReceived
  <2>7. /\ pending' \in BOOLEAN /\ fresh' \in [Tasks -> BOOLEAN]
        /\ at' \in [Tasks -> {"off", "query", "answered", "publish", "clear"}]
    BY <2>6 DEF Schedule, NoSchedule, BeginSync
  <2>8. QED
    BY <1>13, <2>1, <2>4, <2>5, <2>7 DEF DiscoveryReceived
<1>14. CASE BirthReceived
  <2>1. /\ pending' \in BOOLEAN /\ fresh' \in [Tasks -> BOOLEAN]
        /\ at' \in [Tasks -> {"off", "query", "answered", "publish", "clear"}]
    BY <1>14 DEF BirthReceived, Schedule, BeginSync
  <2>2. QED
    BY <1>14, <2>1 DEF BirthReceived, Event, broker
<1>15. CASE FirmwareRepublish
  <2>1. PICK topic \in Topics : Publish(topic, "poor")
    BY <1>15, TopicTyped DEF FirmwareRepublish
  <2>2. QED
    BY <1>15, <2>1, PublishTyped DEF FirmwareRepublish, Event, Docs, manager, tasks, broker
<1>16. CASE DeviceChanged
  BY <1>16 DEF DeviceChanged, Event, manager, tasks, broker
<1>17. CASE UNCHANGED vars
  BY <1>17 DEF vars, manager, tasks, broker
<1>18. QED
  BY <1>1, <1>2, <1>3, <1>4, <1>5, <1>6, <1>7, <1>8, <1>9,
     <1>10, <1>11, <1>12, <1>13, <1>14, <1>15, <1>16, <1>17
  DEF Next, SyncStep

-----------------------------------------------------------------------------
(* The tasks.                                                               *)

\* The reconciliation starts and ends with its flag; a topic is remembered while it
\* is cleared.
LEMMA TasksStep ==
  TypeOK /\ PendingMeansTask /\ ClearInv /\ [Next]_vars => (PendingMeansTask /\ ClearInv)'
<1> SUFFICES ASSUME TypeOK, PendingMeansTask, ClearInv, [Next]_vars PROVE (PendingMeansTask /\ ClearInv)'
  OBVIOUS
<1>a. Users \subseteq Tasks /\ Coordinator \in Tasks /\ Reconciler \in Tasks
  BY DEF Tasks
<1>b. Coordinator # Reconciler /\ Reconciler \notin Users
  BY TaskAssumption
<1>c. at \in [Tasks -> {"off", "query", "answered", "publish", "clear"}]
      /\ clearing \in [Tasks -> Topics \cup {NoTopic}] /\ pending \in BOOLEAN
  BY DEF TypeOK
<1> USE <1>a, <1>b, <1>c DEF PendingMeansTask, ClearInv
<1>1. CASE PeriodicSync(Coordinator)
  <2>1. at[Coordinator] = "off" /\ at' = [at EXCEPT ![Coordinator] = "query"] /\ UNCHANGED <<pending, clearing>>
    BY <1>1 DEF PeriodicSync, EnsureStarted, Subscribe, BeginSync
  <2>2. QED
    BY <2>1
<1>2. CASE SubscribeFails(Coordinator)
  <2>1. UNCHANGED <<pending, at, clearing>>
    BY <1>2 DEF SubscribeFails, manager, tasks
  <2>2. QED
    BY <2>1
<1>3. ASSUME NEW p \in Users, PressButton(p) PROVE (PendingMeansTask /\ ClearInv)'
  <2>1. at[p] = "off" /\ at' = [at EXCEPT ![p] = "query"] /\ UNCHANGED <<pending, clearing>>
    BY <1>3 DEF PressButton, BeginSync, manager
  <2>2. QED
    BY <2>1
<1>4. ASSUME NEW p \in Users, SaveDevice(p) PROVE (PendingMeansTask /\ ClearInv)'
  <2>1. at[p] = "off" /\ at' = [at EXCEPT ![p] = "query"] /\ UNCHANGED <<pending, clearing>>
    BY <1>4 DEF SaveDevice, BeginSync
  <2>2. QED
    BY <2>1
<1>5. ASSUME NEW p \in Users, ClearStaleTopic(p) PROVE (PendingMeansTask /\ ClearInv)'
  <2>1. /\ at[p] = "off" /\ at' = [at EXCEPT ![p] = "clear"] /\ UNCHANGED pending
        /\ \A q \in Tasks \ {p} : clearing'[q] = clearing[q]
    BY <1>5 DEF ClearStaleTopic, manager
  <2>2. QED
    BY <2>1
<1>6. ASSUME NEW p \in Tasks, QueryServed(p) PROVE (PendingMeansTask /\ ClearInv)'
  <2>1. at[p] = "query" /\ at' = [at EXCEPT ![p] = "answered"] /\ UNCHANGED <<pending, clearing>>
    BY <1>6 DEF QueryServed, manager
  <2>2. QED
    BY <2>1
<1>7. ASSUME NEW p \in Tasks, QueryAnswered(p) PROVE (PendingMeansTask /\ ClearInv)'
  <2>1. at[p] = "answered" /\ at' = [at EXCEPT ![p] = "publish"] /\ UNCHANGED <<pending, clearing>>
    BY <1>7 DEF QueryAnswered
  <2>2. QED
    BY <2>1
<1>8. ASSUME NEW p \in Tasks, PublishNext(p) PROVE (PendingMeansTask /\ ClearInv)'
  <2>1. UNCHANGED <<pending, at, clearing>>
    BY <1>8 DEF PublishNext
  <2>2. QED
    BY <2>1
<1>9. ASSUME NEW p \in Tasks, SyncEnds(p) PROVE (PendingMeansTask /\ ClearInv)'
  <2>1. /\ at[p] = "publish" /\ at' = [at EXCEPT ![p] = "off"] /\ UNCHANGED clearing
        /\ pending' = IF p = Reconciler THEN FALSE ELSE pending
    BY <1>9 DEF SyncEnds, TaskEnds
  <2>2. CASE p = Reconciler
    BY <2>1, <2>2
  <2>3. CASE p # Reconciler
    BY <2>1, <2>3
  <2>4. QED
    BY <2>2, <2>3
<1>10. ASSUME NEW p \in Tasks, StaleTopicCleared(p) PROVE (PendingMeansTask /\ ClearInv)'
  <2>1. /\ at[p] = "clear" /\ at' = [at EXCEPT ![p] = "query"] /\ UNCHANGED pending
        /\ clearing' = [clearing EXCEPT ![p] = NoTopic]
    BY <1>10 DEF StaleTopicCleared, BeginSync
  <2>2. QED
    BY <2>1
<1>11. ASSUME NEW p \in Tasks, SyncFails(p) PROVE (PendingMeansTask /\ ClearInv)'
  <2>1. /\ at[p] \in {"query", "answered", "publish"} /\ at' = [at EXCEPT ![p] = "off"] /\ UNCHANGED clearing
        /\ pending' = IF p = Reconciler THEN FALSE ELSE pending
    BY <1>11 DEF SyncFails, TaskEnds
  <2>2. CASE p = Reconciler
    BY <2>1, <2>2
  <2>3. CASE p # Reconciler
    BY <2>1, <2>3
  <2>4. QED
    BY <2>2, <2>3
<1>12. ASSUME NEW p \in Tasks, QueryWaits(p) PROVE (PendingMeansTask /\ ClearInv)'
  <2>1. at[p] = "query" /\ at' = [at EXCEPT ![p] = "answered"] /\ UNCHANGED <<pending, clearing>>
    BY <1>12 DEF QueryWaits, manager
  <2>2. QED
    BY <2>1
<1>13. CASE DiscoveryReceived
  <2>1. (Schedule \/ NoSchedule) /\ UNCHANGED clearing
    BY <1>13 DEF DiscoveryReceived
  <2>2. CASE NoSchedule \/ pending
    BY <2>1, <2>2 DEF Schedule, NoSchedule
  <2>3. CASE ~pending /\ pending' = TRUE /\ at' = [at EXCEPT ![Reconciler] = "query"]
    BY <2>1, <2>3
  <2>4. QED
    BY <2>1, <2>2, <2>3 DEF Schedule, BeginSync
<1>14. CASE BirthReceived
  <2>1. (Schedule \/ NoSchedule) /\ UNCHANGED clearing
    BY <1>14 DEF BirthReceived
  <2>2. CASE NoSchedule \/ pending
    BY <2>1, <2>2 DEF Schedule, NoSchedule
  <2>3. CASE ~pending /\ pending' = TRUE /\ at' = [at EXCEPT ![Reconciler] = "query"]
    BY <2>1, <2>3
  <2>4. QED
    BY <2>1, <2>2, <2>3 DEF Schedule, BeginSync
<1>15. CASE FirmwareRepublish
  <2>1. UNCHANGED <<pending, at, clearing>>
    BY <1>15 DEF FirmwareRepublish, manager, tasks
  <2>2. QED
    BY <2>1
<1>16. CASE DeviceChanged
  <2>1. UNCHANGED <<pending, at, clearing>>
    BY <1>16 DEF DeviceChanged, manager, tasks
  <2>2. QED
    BY <2>1
<1>17. CASE UNCHANGED vars
  <2>1. UNCHANGED <<pending, at, clearing>>
    BY <1>17 DEF vars, manager, tasks
  <2>2. QED
    BY <2>1
<1>18. QED
  BY <1>1, <1>2, <1>3, <1>4, <1>5, <1>6, <1>7, <1>8, <1>9,
     <1>10, <1>11, <1>12, <1>13, <1>14, <1>15, <1>16, <1>17
  DEF Next, SyncStep

-----------------------------------------------------------------------------
(* The messages.                                                            *)

\* A message is at its place, and the new one behind the others.
LEMMA Appended ==
  ASSUME NEW s \in Seq(Messages), NEW m \in Messages
  PROVE  /\ Append(s, m) \in Seq(Messages) /\ Len(Append(s, m)) = Len(s) + 1
         /\ Len(s) \in Nat /\ Append(s, m)[Len(s) + 1] = m
         /\ \A i \in 1..Len(s) : Append(s, m)[i] = s[i]
OBVIOUS

LEMMA Tailed ==
  ASSUME NEW s \in Seq(Messages), s # <<>>
  PROVE  /\ Len(s) \in Nat /\ Len(s) > 0 /\ Len(Tail(s)) = Len(s) - 1
         /\ Head(s) = s[1]
         /\ \A i \in 1..(Len(s) - 1) : Tail(s)[i] = s[i + 1]
OBVIOUS

\* A publish is told to the manager, which will hear of it last; what empties a topic
\* remembers the topic.
LEMMA PublishKeeps ==
  ASSUME TypeOK, InboxInv, NEW topic \in Topics, NEW doc \in Docs, Publish(topic, doc),
         UNCHANGED <<subscribed, observed>>,
         \A t \in Topics : (\E p \in Tasks : clearing[p] = t)
                          => \E p \in Tasks : clearing'[p] = t,
         doc = "none" => \E p \in Tasks : clearing'[p] = topic
  PROVE  InboxInv'
<1>1. inbox \in Seq(Messages) /\ <<topic, doc>> \in Messages
  BY DEF TypeOK, Messages, Docs
<1>2. retained' = [retained EXCEPT ![topic] = doc] /\ UNCHANGED lost
      /\ retained \in [Topics -> {"none", "poor", "rich"}]
  BY DEF Publish, TypeOK
<1>3. CASE ~subscribed
  <2>1. inbox = <<>> /\ inbox' = <<>> /\ Len(inbox) = 0
    BY <1>3 DEF Publish, InboxInv
  <2>2. QED
    BY <1>2, <2>1 DEF InboxInv, Emptied
<1>4. CASE subscribed
  <2>1. inbox' = Append(inbox, <<topic, doc>>) /\ subscribed'
    BY <1>4 DEF Publish
  <2>2. /\ Len(inbox) \in Nat /\ Len(inbox') = Len(inbox) + 1
        /\ inbox'[Len(inbox) + 1][1] = topic /\ inbox'[Len(inbox) + 1][2] = doc
        /\ \A i \in 1..Len(inbox) : inbox'[i] = inbox[i]
    BY <1>1, <2>1, Appended
  <2>3. ASSUME NEW t \in Topics, retained'[t] = "none", NEW i \in 1..Len(inbox'),
               inbox'[i][1] = t, inbox'[i][2] # "none"
        PROVE  \E j \in 1..Len(inbox') : j > i /\ inbox'[j][1] = t /\ inbox'[j][2] = "none"
    <3>1. CASE t = topic
      <4>1. doc = "none" /\ i # Len(inbox) + 1
        BY <1>2, <2>2, <2>3, <3>1
      <4>2. QED
        BY <2>2, <3>1, <4>1
    <3>2. CASE t # topic
      <4>1. retained[t] = "none" /\ i \in 1..Len(inbox)
        BY <1>2, <2>2, <2>3, <3>2
      <4>2. PICK j \in 1..Len(inbox) : j > i /\ Emptied(t, j)
        BY <2>2, <2>3, <4>1 DEF InboxInv
      <4>3. QED
        BY <2>2, <4>2 DEF Emptied
    <3>3. QED
      BY <3>1, <3>2
  <2>4. ASSUME NEW t \in Topics, retained'[t] = "none", t \in observed, ~lost
        PROVE  \/ \E p \in Tasks : clearing'[p] = t
               \/ \E j \in 1..Len(inbox') : inbox'[j][1] = t /\ inbox'[j][2] = "none"
    <3>1. CASE t = topic
      BY <1>2, <2>4, <3>1
    <3>2. CASE t # topic
      <4>1. retained[t] = "none"
        BY <1>2, <2>4, <3>2
      <4>2. \/ \E p \in Tasks : clearing[p] = t
            \/ \E j \in 1..Len(inbox) : Emptied(t, j)
        BY <2>4, <4>1 DEF InboxInv
      <4>3. QED
        BY <2>2, <4>2 DEF Emptied
    <3>3. QED
      BY <3>1, <3>2
  <2>5. QED
    BY <1>2, <2>1, <2>3, <2>4 DEF InboxInv, Emptied
<1>5. QED
  BY <1>3, <1>4

\* The manager hears of a document, or that there is none.
LEMMA ReceiveKeeps == ASSUME TypeOK, InboxInv, DiscoveryReceived PROVE InboxInv'
<1>1. inbox \in Seq(Messages) /\ inbox # <<>> /\ inbox' = Tail(inbox)
  BY DEF TypeOK, Messages, Docs, DiscoveryReceived
<1>2. /\ Len(inbox) \in Nat /\ Len(inbox) > 0 /\ Len(inbox') = Len(inbox) - 1
      /\ Head(inbox) = inbox[1]
      /\ \A i \in 1..(Len(inbox) - 1) : inbox'[i] = inbox[i + 1]
  BY <1>1, Tailed
<1>3. UNCHANGED <<retained, clearing, subscribed, lost>> /\ subscribed
  BY <1>1 DEF DiscoveryReceived, InboxInv
<1>4. \/ inbox[1][2] = "none" /\ observed' = observed \ {inbox[1][1]}
      \/ inbox[1][2] # "none" /\ observed' = observed \cup {inbox[1][1]}
  BY <1>2 DEF DiscoveryReceived, ForgetTopic
<1>5. ASSUME NEW t, NEW i \in 0..Len(inbox'),
             NEW j \in 1..Len(inbox), j > i + 1, Emptied(t, j)
      PROVE  \E k \in 1..Len(inbox') : k > i /\ inbox'[k][1] = t /\ inbox'[k][2] = "none"
  <2>1. j - 1 \in 1..(Len(inbox) - 1) /\ j - 1 > i /\ (j - 1) + 1 = j
    BY <1>2, <1>5
  <2>2. inbox'[j - 1] = inbox[j]
    BY <1>2, <2>1
  <2>3. QED
    BY <1>2, <1>5, <2>1, <2>2 DEF Emptied
<1>6. ASSUME NEW t \in Topics, retained[t] = "none", NEW i \in 1..Len(inbox'),
             inbox'[i][1] = t, inbox'[i][2] # "none"
      PROVE  \E j \in 1..Len(inbox') : j > i /\ inbox'[j][1] = t /\ inbox'[j][2] = "none"
  <2>1. i + 1 \in 1..Len(inbox) /\ inbox'[i] = inbox[i + 1]
    BY <1>2
  <2>2. PICK j \in 1..Len(inbox) : j > i + 1 /\ Emptied(t, j)
    BY <1>6, <2>1 DEF InboxInv
  <2>3. QED
    BY <1>2, <1>5, <2>2
<1>7. ASSUME NEW t \in Topics, retained[t] = "none", t \in observed', ~lost
      PROVE  \/ \E p \in Tasks : clearing[p] = t
             \/ \E j \in 1..Len(inbox') : inbox'[j][1] = t /\ inbox'[j][2] = "none"
  <2>1. 0 \in 0..Len(inbox') /\ 1 \in 1..Len(inbox)
    BY <1>2
  <2>2. CASE t = inbox[1][1]
    <3>1. inbox[1][2] # "none"
      BY <1>4, <1>7, <2>2
    <3>2. PICK j \in 1..Len(inbox) : j > 1 /\ Emptied(t, j)
      BY <1>7, <2>1, <2>2, <3>1 DEF InboxInv
    <3>3. QED
      BY <1>5, <2>1, <3>2
  <2>3. CASE t # inbox[1][1]
    <3>1. t \in observed
      BY <1>4, <1>7, <2>3
    <3>2. CASE \E p \in Tasks : clearing[p] = t
      BY <3>2
    <3>3. CASE \E j \in 1..Len(inbox) : Emptied(t, j)
      <4>1. PICK j \in 1..Len(inbox) : Emptied(t, j)
        BY <3>3
      <4>2. j > 0 + 1
        BY <1>2, <2>3, <4>1 DEF Emptied
      <4>3. QED
        BY <1>5, <2>1, <4>1, <4>2
    <3>4. QED
      BY <1>7, <3>1, <3>2, <3>3 DEF InboxInv
  <2>4. QED
    BY <2>2, <2>3
<1>8. QED
  BY <1>3, <1>6, <1>7 DEF InboxInv, Emptied

\* Nothing is published, and what is forgotten need not be announced.
LEMMA InboxRests ==
  ASSUME InboxInv, UNCHANGED <<retained, inbox, subscribed, lost>>,
         observed' \subseteq observed,
         \A t \in observed' : (\E p \in Tasks : clearing[p] = t)
                             => \E p \in Tasks : clearing'[p] = t
  PROVE  InboxInv'
<1>1. \A t, j : Emptied(t, j)' <=> Emptied(t, j)
  BY DEF Emptied
<1>2. QED
  BY <1>1 DEF InboxInv

\* Every step keeps the manager informed.
LEMMA InboxStep ==
  TypeOK /\ ClearInv /\ InboxInv /\ [Next]_vars => InboxInv'
<1> SUFFICES ASSUME TypeOK, ClearInv, InboxInv, [Next]_vars PROVE InboxInv'
  OBVIOUS
<1>1. CASE PeriodicSync(Coordinator)
  <2>1. inbox = <<>> /\ UNCHANGED <<retained, lost, observed, clearing>>
    BY <1>1 DEF PeriodicSync
  <2>2. CASE UNCHANGED <<subscribed, inbox>>
    BY <2>1, <2>2, InboxRests
  <2>3. CASE subscribed' = TRUE /\ inbox' = SetToSeq(Backlog)
    <3>1. \A i \in 1..Len(inbox') : retained[inbox'[i][1]] # "none"
      BY <2>3, BacklogOrdered
    <3>2. \A t \in Topics : retained[t] = "none" /\ t \in observed /\ ~lost
            => \E p \in Tasks : clearing[p] = t
      BY <2>1 DEF InboxInv
    <3>3. QED
      BY <2>1, <2>3, <3>1, <3>2 DEF InboxInv
  <2>4. QED
    BY <1>1, <2>2, <2>3 DEF PeriodicSync, EnsureStarted, Subscribe, Backlog
<1>2. CASE SubscribeFails(Coordinator)
  <2>1. UNCHANGED <<retained, inbox, subscribed, lost, observed, clearing>>
    BY <1>2 DEF SubscribeFails, manager, broker, tasks
  <2>2. QED
    BY <2>1, InboxRests
<1>3. ASSUME NEW p \in Users, PressButton(p) PROVE InboxInv'
  <2>1. UNCHANGED <<retained, inbox, subscribed, lost, observed, clearing>>
    BY <1>3 DEF PressButton, manager, broker, tasks
  <2>2. QED
    BY <2>1, InboxRests
<1>4. ASSUME NEW p \in Users, SaveDevice(p) PROVE InboxInv'
  <2>1. UNCHANGED <<retained, inbox, subscribed, lost, observed, clearing>>
    BY <1>4 DEF SaveDevice, manager, broker, tasks
  <2>2. QED
    BY <2>1, InboxRests
<1>5. ASSUME NEW p \in Users, ClearStaleTopic(p) PROVE InboxInv'
  <2>1. PICK t \in Topics : Publish(t, "none") /\ clearing' = [clearing EXCEPT ![p] = t]
    BY <1>5 DEF ClearStaleTopic, repair_candidates, TypeOK
  <2>2. p \in Tasks /\ clearing[p] = NoTopic /\ UNCHANGED <<subscribed, observed>>
    BY <1>5 DEF ClearStaleTopic, manager, ClearInv, Tasks
  <2>3. clearing'[p] = t /\ \A q \in Tasks \ {p} : clearing'[q] = clearing[q]
    BY <2>1, <2>2 DEF TypeOK
  <2>4. \A u \in Topics : (\E q \in Tasks : clearing[q] = u)
                         => \E q \in Tasks : clearing'[q] = u
    BY <2>2, <2>3, NoTopicIsNone
  <2>5. QED
    BY <2>1, <2>2, <2>3, <2>4, PublishKeeps DEF Docs
<1>6. ASSUME NEW p \in Tasks, QueryServed(p) PROVE InboxInv'
  <2>1. UNCHANGED <<retained, inbox, subscribed, lost, observed, clearing>>
    BY <1>6 DEF QueryServed, manager, broker, tasks
  <2>2. QED
    BY <2>1, InboxRests
<1>7. ASSUME NEW p \in Tasks, QueryAnswered(p) PROVE InboxInv'
  <2>1. UNCHANGED <<retained, inbox, subscribed, lost, observed, clearing>>
    BY <1>7 DEF QueryAnswered, manager, broker, tasks
  <2>2. QED
    BY <2>1, InboxRests
<1>8. ASSUME NEW p \in Tasks, PublishNext(p) PROVE InboxInv'
  <2>1. UNCHANGED <<subscribed, observed, clearing>>
    BY <1>8 DEF PublishNext
  <2>2. CASE UNCHANGED broker
    BY <2>1, <2>2, InboxRests DEF broker
  <2>3. ASSUME NEW topic \in Topics, NEW doc \in {"poor", "rich"}, Publish(topic, doc)
        PROVE  InboxInv'
    BY <2>1, <2>3, PublishKeeps DEF Docs
  <2>4. QED
    BY <1>8, <2>2, <2>3, PublishCases
<1>9. ASSUME NEW p \in Tasks, SyncEnds(p) PROVE InboxInv'
  <2>1. UNCHANGED <<retained, inbox, subscribed, lost, observed, clearing>>
    BY <1>9 DEF SyncEnds, manager, broker, tasks
  <2>2. QED
    BY <2>1, InboxRests
<1>10. ASSUME NEW p \in Tasks, StaleTopicCleared(p) PROVE InboxInv'
  <2>1. /\ UNCHANGED <<retained, inbox, subscribed, lost>>
        /\ observed' = observed \ {clearing[p]}
    BY <1>10 DEF StaleTopicCleared, broker, ForgetTopic
  <2>2. \A q \in Tasks \ {p} : clearing'[q] = clearing[q]
    BY <1>10 DEF StaleTopicCleared, TypeOK
  <2>3. QED
    BY <2>1, <2>2, InboxRests
<1>11. ASSUME NEW p \in Tasks, SyncFails(p) PROVE InboxInv'
  <2>1. UNCHANGED <<retained, observed, clearing>>
    BY <1>11 DEF SyncFails
  <2>2. CASE UNCHANGED <<subscribed, inbox, lost>>
    BY <2>1, <2>2, InboxRests
  <2>3. CASE subscribed' = FALSE /\ inbox' = <<>> /\ lost' = (lost \/ inbox # <<>>)
    <3>1. Len(inbox') = 0
      BY <2>3
    <3>2. ~lost' => ~lost /\ inbox = <<>>
      BY <2>3
    <3>3. \A t \in Topics : retained[t] = "none" /\ t \in observed /\ ~lost'
            => \E q \in Tasks : clearing[q] = t
      BY <3>2 DEF InboxInv
    <3>4. QED
      BY <2>1, <2>3, <3>1, <3>3 DEF InboxInv
  <2>4. QED
    BY <1>11, <2>2, <2>3 DEF SyncFails
<1>12. ASSUME NEW p \in Tasks, QueryWaits(p) PROVE InboxInv'
  <2>1. UNCHANGED <<retained, inbox, subscribed, lost, observed, clearing>>
    BY <1>12 DEF QueryWaits, manager, broker, tasks
  <2>2. QED
    BY <2>1, InboxRests
<1>13. CASE DiscoveryReceived
  BY <1>13, ReceiveKeeps
<1>14. CASE BirthReceived
  <2>1. UNCHANGED <<retained, inbox, subscribed, lost, observed, clearing>>
    BY <1>14 DEF BirthReceived, manager, broker, tasks
  <2>2. QED
    BY <2>1, InboxRests
<1>15. CASE FirmwareRepublish
  <2>1. PICK topic \in Topics : Publish(topic, "poor")
    BY <1>15, TopicTyped DEF FirmwareRepublish
  <2>2. UNCHANGED <<subscribed, observed, clearing>>
    BY <1>15 DEF FirmwareRepublish, manager, tasks
  <2>3. QED
    BY <2>1, <2>2, PublishKeeps DEF Docs
<1>16. CASE DeviceChanged
  <2>1. UNCHANGED <<retained, inbox, subscribed, lost, observed, clearing>>
    BY <1>16 DEF DeviceChanged, manager, broker, tasks
  <2>2. QED
    BY <2>1, InboxRests
<1>17. CASE UNCHANGED vars
  <2>1. UNCHANGED <<retained, inbox, subscribed, lost, observed, clearing>>
    BY <1>17 DEF vars, manager, broker, tasks
  <2>2. QED
    BY <2>1, InboxRests
<1>18. QED
  BY <1>1, <1>2, <1>3, <1>4, <1>5, <1>6, <1>7, <1>8, <1>9,
     <1>10, <1>11, <1>12, <1>13, <1>14, <1>15, <1>16, <1>17
  DEF Next, SyncStep

-----------------------------------------------------------------------------
(* The theorems.                                                            *)

LEMMA InitHolds == Init => IInv
<1> SUFFICES ASSUME Init PROVE IInv
  OBVIOUS
<1>1. /\ registry \in Inventory /\ devices \in Inventory
      /\ retained \in [Topics -> {"none", "poor", "rich"}]
      /\ inbox \in Seq(Topics \X {"none", "poor", "rich"})
      /\ mode \in [Ids -> Modes]
  BY DEF Init, Inventory, Modes
<1>2. /\ at \in [Tasks -> {"off", "query", "answered", "publish", "clear"}]
      /\ fresh \in [Tasks -> BOOLEAN] /\ answer \in [Tasks -> Inventory]
      /\ todo \in [Tasks -> SUBSET Ids] /\ clearing \in [Tasks -> Topics \cup {NoTopic}]
  BY DEF Init, Inventory
<1>3. /\ subscribed \in BOOLEAN /\ pending \in BOOLEAN /\ lost \in BOOLEAN
      /\ observed \subseteq Topics /\ conflicts \subseteq Ids /\ issues = {}
  BY DEF Init
<1>a. events \in 0..MaxEvents
  <2>1. 0 \in 0..MaxEvents
    BY EventAssumption
  <2>2. QED
    BY <2>1 DEF Init
<1>4. TypeOK
  BY <1>1, <1>2, <1>3, <1>a DEF TypeOK
<1>5. at[Reconciler] = "off" /\ pending = FALSE /\ \A p \in Tasks : clearing[p] = NoTopic
  BY DEF Init, Tasks
<1>6. inbox = <<>> /\ observed = {}
  BY DEF Init
<1>7. PendingMeansTask /\ ClearInv /\ InboxInv
  BY <1>5, <1>6 DEF PendingMeansTask, ClearInv, InboxInv
<1>8. QED
  BY <1>4, <1>7 DEF IInv

LEMMA Invariance == Spec => []IInv
<1>1. IInv /\ [Next]_vars => IInv'
  BY TypeStep, TasksStep, InboxStep DEF IInv
<1>2. QED
  BY <1>1, InitHolds, PTL DEF Spec

\* Every variable of the gateway, the broker and the manager keeps its type.
THEOREM TypeCorrect == Spec => []TypeOK
<1>1. IInv => TypeOK
  BY DEF IInv
<1>2. QED
  BY <1>1, Invariance, PTL

\* A reconciliation is flagged exactly while it runs.
THEOREM PendingIsTask == Spec => []PendingMeansTask
<1>1. IInv => PendingMeansTask
  BY DEF IInv
<1>2. QED
  BY <1>1, Invariance, PTL

\* What the guided repair offers to clear is there, at rest and with no message lost.
THEOREM CandidatesAreThere == Spec => []CandidatesExist
<1>1. IInv => CandidatesExist
  <2> SUFFICES ASSUME IInv, inbox = <<>>, \A p \in Tasks : at[p] = "off", ~lost,
                      NEW t \in observed
               PROVE  retained[t] # "none"
    BY DEF CandidatesExist, Quiet, repair_candidates
  <2>1. t \in Topics
    BY DEF IInv, TypeOK
  <2>2. \A p \in Tasks : clearing[p] # t
    BY <2>1, NoTopicIsNone DEF IInv, ClearInv
  <2>3. Len(inbox) = 0
    OBVIOUS
  <2>4. QED
    BY <2>1, <2>2, <2>3 DEF IInv, InboxInv
<1>2. QED
  BY <1>1, Invariance, PTL
=============================================================================
