------------------------------ MODULE BusMonitor ------------------------------
(***************************************************************************)
(* bus_monitor.py and _async_acquire_bus_monitor: one collector of MQTT     *)
(* messages for the whole broker, shared by the config entries that enabled *)
(* it.  Home Assistant's data holds it while it has an owner, and a lock    *)
(* makes acquisitions, which wait for the broker, and releases exclusive.   *)
(*                                                                         *)
(* Payloads, kinds and lifetime counters are left out: what matters is how  *)
(* many messages are held, for whom and for how long.                       *)
(***************************************************************************)
EXTENDS Naturals, FiniteSets, FiniteSetsExt

CONSTANTS
  Entries,  \* config entries
  NoEntry,
  Limits    \* message limits an entry may be configured with

ASSUME LimitAssumption ==
  Limits \subseteq Nat \ {0} /\ Limits # {} /\ IsFiniteSet(Limits)
ASSUME NoEntryAssumption == NoEntry \notin Entries

MONITORED_TOPICS == 3

VARIABLES
  lock,    \* DATA_BUS_MONITOR_LOCK: the entry that holds it
  stored,  \* DATA_BUS_MONITOR is in hass.data
  owners,  \* _owners: limit by entry, 0 for an entry that is no owner
  maxlen,  \* of _messages
  subs,    \* length of _unsubscribers
  held     \* length of _messages

monitor == <<stored, owners, maxlen, subs, held>>

OwnersOf(o) == {e \in Entries : o[e] > 0}
enabled     == OwnersOf(owners) # {}
Largest(o)  == Max({o[e] : e \in OwnersOf(o)})
Least(a, b) == IF a < b THEN a ELSE b

MonitorInit ==
  /\ lock = NoEntry
  /\ stored = FALSE
  /\ owners = [e \in Entries |-> 0]
  /\ maxlen = Max(Limits) /\ subs = 0 /\ held = 0

\* The deque takes the largest limit of its owners and drops what exceeds it.
Resize(o) == maxlen' = Largest(o) /\ held' = Least(held, maxlen')

-----------------------------------------------------------------------------
\* async_acquire up to its first await; with subscriptions there is none.
Acquire(e, limit) ==
  /\ owners' = [owners EXCEPT ![e] = limit]
  /\ Resize(owners')

\* Seeded fault: the entry stays an owner.
Disown_never(e) == UNCHANGED owners

Disown(e) == owners' = [owners EXCEPT ![e] = 0]

\* One more topic, and with the last of them the collector is there for all.
SubscribeNext ==
  /\ subs' = subs + 1
  /\ stored' = (subs' = MONITORED_TOPICS)
  /\ UNCHANGED <<owners, maxlen, held>>

\* The broker refuses a topic: everything acquired so far is given back.  A
\* collector that was not stored yet is dropped with what it held.
SubscribeFails(e) ==
  /\ Disown(e)
  /\ subs' = 0 /\ held' = 0
  /\ UNCHANGED <<stored, maxlen>>

\* Seeded fault: the last owner's departure leaves the subscriptions.
ReleaseKeepsTopics(e) ==
  /\ Disown(e)
  /\ IF OwnersOf(owners') # {}
     THEN Resize(owners') /\ UNCHANGED <<stored, subs>>
     ELSE stored' = FALSE /\ held' = 0 /\ UNCHANGED <<maxlen, subs>>

\* async_release and the removal of a collector that is no longer enabled.
Release(e) ==
  /\ Disown(e)
  /\ IF OwnersOf(owners') # {}
     THEN Resize(owners') /\ UNCHANGED <<stored, subs>>
     ELSE stored' = FALSE /\ subs' = 0 /\ held' = 0 /\ UNCHANGED maxlen

\* Seeded fault: the deque has no maxlen.
MessageReceived_unbounded ==
  /\ subs > 0
  /\ held' = held + 1
  /\ UNCHANGED <<lock, stored, owners, maxlen, subs>>

\* A full deque drops its oldest message.
MessageReceived ==
  /\ subs > 0
  /\ held' = Least(held + 1, maxlen)
  /\ UNCHANGED <<lock, stored, owners, maxlen, subs>>

\* scsgate.clear_bus_log of an entry whose runtime has the collector.
Clear(e) ==
  /\ owners[e] > 0
  /\ held' = 0
  /\ UNCHANGED <<lock, stored, owners, maxlen, subs>>

-----------------------------------------------------------------------------
MonitorTypeOK ==
  /\ lock \in Entries \cup {NoEntry}
  /\ stored \in BOOLEAN
  /\ owners \in [Entries -> Limits \cup {0}]
  /\ maxlen \in Limits
  /\ subs \in 0..MONITORED_TOPICS
  /\ held \in 0..maxlen
=============================================================================
