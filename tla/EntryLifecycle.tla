---------------------------- MODULE EntryLifecycle ----------------------------
(***************************************************************************)
(* __init__.py: setup, unload and failed setup of config entries.  Home     *)
(* Assistant serializes the operations of one entry, those of different     *)
(* entries interleave at every await.  They share the collector of          *)
(* BusMonitor, the global Discovery namespace and the domain's services.    *)
(*                                                                         *)
(* Each entry has a TCP debug monitor, of which only what matters here is   *)
(* kept (AdvancedDebug has the rest): "idle", "busy" or "owed", a stock PIC  *)
(* being owed.  Of a device manager (DeviceManager) only whether one of its   *)
(* synchronizations is in flight is kept.                                   *)
(***************************************************************************)
EXTENDS BusMonitor

CONSTANT ManageOptions  \* values of the option to manage Discovery that occur

ASSUME ManageAssumption == ManageOptions \subseteq BOOLEAN

VARIABLES
  at,         \* where the entry's setup or unload waits
  limitOf,    \* option: message limit of the bus monitor, 0 if it is off
  managed,    \* option: manage MQTT Discovery
  runtime,    \* entries whose runtime data is in hass.data
  owner,      \* DATA_DISCOVERY_OWNER
  manager,    \* entries that have a DeviceManager
  syncing,    \* entries whose DeviceManager has a synchronization in flight
  orphans,    \* entries unloaded while a synchronization was in flight
  debug,      \* state of the entry's AdvancedTcpDebugMonitor
  services    \* the domain's services are registered

namespace == <<owner, manager, syncing, orphans>>
vars == <<lock, monitor, at, limitOf, managed, runtime, namespace, debug,
          services>>

Init ==
  /\ MonitorInit
  /\ at = [e \in Entries |-> "unloaded"]
  /\ limitOf = [e \in Entries |-> 0]
  /\ managed = [e \in Entries |-> FALSE]
  /\ runtime = {} /\ owner = NoEntry
  /\ manager = {} /\ syncing = {} /\ orphans = {}
  /\ debug = [e \in Entries |-> "idle"]
  /\ services = FALSE

Goto(e, place) == at' = [at EXCEPT ![e] = place]

-----------------------------------------------------------------------------
(* Setup.                                                                   *)

\* Setup starts with the options of the moment and waits for a first refresh.
BeginSetup(e) ==
  /\ at[e] = "unloaded"
  /\ \E limit \in Limits \cup {0}, m \in ManageOptions :
       /\ limitOf' = [limitOf EXCEPT ![e] = limit]
       /\ managed' = [managed EXCEPT ![e] = m]
  /\ Goto(e, "refresh")
  /\ UNCHANGED <<lock, monitor, runtime, namespace, debug, services>>

\* Seeded fault: the namespace is taken whoever holds it.
claim_unconditionally(e) == TRUE

claim_global_namespace(e) == owner \in {NoEntry, e}

\* From the collector to the forwarding of the platforms there is no await.
Build(e) ==
  /\ IF managed[e] /\ claim_global_namespace(e)
     THEN owner' = e /\ manager' = manager \cup {e}
     ELSE UNCHANGED <<owner, manager>>
  /\ debug' = [debug EXCEPT ![e] = "idle"]
  /\ runtime' = runtime \cup {e}
  /\ Goto(e, "forward")
  /\ UNCHANGED <<limitOf, managed, syncing, orphans, services>>

Refreshed(e) ==
  /\ at[e] = "refresh"
  /\ IF limitOf[e] > 0
     THEN /\ Goto(e, "acquire")
          /\ UNCHANGED <<limitOf, managed, runtime, namespace, debug,
                         services>>
     ELSE Build(e)
  /\ UNCHANGED <<lock, monitor>>

\* The gateway does not answer: Home Assistant retries the setup later.
RefreshFails(e) ==
  /\ at[e] = "refresh"
  /\ Goto(e, "unloaded")
  /\ UNCHANGED <<lock, monitor, limitOf, managed, runtime, namespace, debug,
                 services>>

\* Under the lock: join a collector that runs, or start one.
AcquireMonitor(e) ==
  /\ at[e] = "acquire" /\ lock = NoEntry
  /\ Acquire(e, limitOf[e])
  /\ UNCHANGED <<stored, subs>>
  /\ IF subs > 0
     THEN Build(e) /\ UNCHANGED lock
     ELSE /\ lock' = e /\ Goto(e, "subscribe")
          /\ UNCHANGED <<limitOf, managed, runtime, namespace, debug,
                         services>>

TopicSubscribed(e) ==
  /\ at[e] = "subscribe"
  /\ SubscribeNext
  /\ IF subs' = MONITORED_TOPICS
     THEN lock' = NoEntry /\ Build(e)
     ELSE UNCHANGED <<lock, at, limitOf, managed, runtime, namespace, debug,
                      services>>

TopicRefused(e) ==
  /\ at[e] = "subscribe"
  /\ SubscribeFails(e)
  /\ lock' = NoEntry
  /\ Goto(e, "unloaded")
  /\ UNCHANGED <<limitOf, managed, runtime, namespace, debug, services>>

\* Each service is registered unless it is there.
_async_register_services == services' = TRUE

\* The platforms are set up.  A device manager subscribes and synchronizes.
PlatformsForwarded(e) ==
  /\ at[e] = "forward"
  /\ IF e \in manager
     THEN /\ syncing' = syncing \cup {e}
          /\ Goto(e, "start")
          /\ UNCHANGED services
     ELSE /\ Goto(e, "loaded")
          /\ _async_register_services
          /\ UNCHANGED syncing
  /\ UNCHANGED <<lock, monitor, limitOf, managed, runtime, owner, manager, orphans,
                 debug>>

\* The first synchronization ends, well or not: either way the refresh listener
\* is added and the entry is loaded.
ManagerStarted(e) ==
  /\ at[e] = "start"
  /\ syncing' = syncing \ {e}
  /\ _async_register_services
  /\ Goto(e, "loaded")
  /\ UNCHANGED <<lock, monitor, limitOf, managed, runtime, owner, manager, orphans,
                 debug>>

\* A platform fails: the manager stops, the namespace is free, and a capture
\* that a service started meanwhile has to be shut down.
ForwardFails(e) ==
  /\ at[e] = "forward"
  /\ manager' = manager \ {e}
  /\ owner' = IF owner = e THEN NoEntry ELSE owner
  /\ Goto(e, "rollback")
  /\ UNCHANGED <<lock, monitor, limitOf, managed, runtime, syncing, orphans,
                 debug, services>>

-----------------------------------------------------------------------------
(* Unload, and what a failed setup has in common with it.                   *)

\* A reload, a disabled or a removed entry.
BeginUnload(e) ==
  /\ at[e] = "loaded"
  /\ Goto(e, "shutdown")
  /\ UNCHANGED <<lock, monitor, limitOf, managed, runtime, namespace, debug,
                 services>>

\* async_shutdown returns with the PIC restored.
ShutdownDone(e) ==
  /\ at[e] = "shutdown"
  /\ debug' = [debug EXCEPT ![e] = "idle"]
  /\ Goto(e, "platforms")
  /\ UNCHANGED <<lock, monitor, limitOf, managed, runtime, namespace,
                 services>>

\* Seeded fault: a failed shutdown is tried again.
ShutdownRetries(e) ==
  /\ at[e] = "shutdown" /\ debug[e] # "idle"
  /\ debug' = [debug EXCEPT ![e] = "owed"]
  /\ UNCHANGED <<lock, monitor, at, limitOf, managed, runtime, namespace,
                 services>>

\* async_shutdown raises: Home Assistant keeps the entry, as failed to unload.
ShutdownFails(e) ==
  /\ at[e] = "shutdown" /\ debug[e] # "idle"
  /\ debug' = [debug EXCEPT ![e] = "owed"]
  /\ Goto(e, "failed")
  /\ UNCHANGED <<lock, monitor, limitOf, managed, runtime, namespace,
                 services>>

PlatformsStay(e) ==
  /\ at[e] = "platforms"
  /\ Goto(e, "failed")
  /\ UNCHANGED <<lock, monitor, limitOf, managed, runtime, namespace, debug,
                 services>>

\* The objects of the entry are dropped, with what is still going on in them.
Drop(e) ==
  /\ runtime' = runtime \ {e}
  /\ orphans' = IF e \in syncing THEN orphans \cup {e} ELSE orphans
  /\ syncing' = syncing \ {e}

\* Seeded fault: the services go with any entry.
ServicesAfter_any == FALSE

\* Only the last entry takes the services along.
ServicesAfter == services /\ runtime' # {}

\* The end of an unload.  The refresh listener goes too.
Removed(e) ==
  /\ Drop(e)
  /\ owner' = IF owner = e THEN NoEntry ELSE owner
  /\ manager' = manager \ {e}
  /\ services' = ServicesAfter
  /\ Goto(e, "unloaded")
  /\ UNCHANGED <<limitOf, managed, debug>>

PlatformsUnloaded(e) ==
  /\ at[e] = "platforms"
  /\ IF limitOf[e] > 0
     THEN /\ Goto(e, "release")
          /\ UNCHANGED <<limitOf, managed, runtime, namespace, debug,
                         services>>
     ELSE Removed(e)
  /\ UNCHANGED <<lock, monitor>>

MonitorReleased(e) ==
  /\ at[e] = "release" /\ lock = NoEntry
  /\ Release(e)
  /\ Removed(e)
  /\ UNCHANGED lock

\* The failed setup shuts the debug monitor down and drops the entry, whether or
\* not that restored the PIC.
RollbackShutdown(e) ==
  /\ at[e] = "rollback"
  /\ runtime' = runtime \ {e}
  /\ \E s \in {"idle", "owed"} :
       /\ s = "owed" => debug[e] # "idle"
       /\ debug' = [debug EXCEPT ![e] = s]
  /\ Goto(e, IF limitOf[e] > 0 THEN "undo" ELSE "unloaded")
  /\ UNCHANGED <<lock, monitor, limitOf, managed, namespace, services>>

RollbackReleases(e) ==
  /\ at[e] = "undo" /\ lock = NoEntry
  /\ Release(e)
  /\ Goto(e, "unloaded")
  /\ UNCHANGED <<lock, limitOf, managed, runtime, namespace, debug,
                 services>>

-----------------------------------------------------------------------------
(* What goes on in an entry meanwhile.                                      *)

\* The coordinator refreshes: async_ensure_started of the entry's manager.
PeriodicSync(e) ==
  /\ e \in manager \ syncing
  /\ at[e] \in {"loaded", "shutdown", "platforms", "release", "failed"}
  /\ syncing' = syncing \cup {e}
  /\ UNCHANGED <<lock, monitor, at, limitOf, managed, runtime, owner, manager,
                 orphans, debug, services>>

\* The query is answered and the devices are published; or the query fails.
SyncEnds(e) ==
  /\ \/ /\ e \in syncing /\ at[e] # "start"
        /\ syncing' = syncing \ {e}
        /\ UNCHANGED orphans
     \/ e \in orphans /\ orphans' = orphans \ {e} /\ UNCHANGED syncing
  /\ UNCHANGED <<lock, monitor, at, limitOf, managed, runtime, owner, manager,
                 debug, services>>

\* The services that start and recover find the entry by its runtime data.
DebugService(e) ==
  /\ e \in runtime /\ services
  /\ \/ debug[e] = "idle" /\ debug' = [debug EXCEPT ![e] = "busy"]
     \/ debug[e] = "owed" /\ debug' = [debug EXCEPT ![e] = "idle"]
  /\ UNCHANGED <<lock, monitor, at, limitOf, managed, runtime, namespace,
                 services>>

\* A capture ends by its deadline, its budget or an error.
DebugEnds(e) ==
  /\ debug[e] = "busy"
  /\ \E s \in {"idle", "owed"} : debug' = [debug EXCEPT ![e] = s]
  /\ UNCHANGED <<lock, monitor, at, limitOf, managed, runtime, namespace,
                 services>>

Bus ==
  /\ MessageReceived \/ \E e \in runtime : Clear(e)
  /\ UNCHANGED <<at, limitOf, managed, runtime, namespace, debug, services>>

-----------------------------------------------------------------------------
SetupStep(e) ==
  \/ Refreshed(e) \/ RefreshFails(e)
  \/ AcquireMonitor(e) \/ TopicSubscribed(e) \/ TopicRefused(e)
  \/ PlatformsForwarded(e) \/ ForwardFails(e) \/ ManagerStarted(e)
  \/ RollbackShutdown(e) \/ RollbackReleases(e)

UnloadStep(e) ==
  \/ ShutdownDone(e) \/ ShutdownFails(e)
  \/ PlatformsUnloaded(e) \/ PlatformsStay(e) \/ MonitorReleased(e)

Next ==
  \/ \E e \in Entries :
       \/ BeginSetup(e) \/ SetupStep(e) \/ BeginUnload(e) \/ UnloadStep(e)
       \/ PeriodicSync(e) \/ SyncEnds(e) \/ DebugService(e) \/ DebugEnds(e)
  \/ Bus

Spec == Init /\ [][Next]_vars

(***************************************************************************)
(* The gateway, the broker and the platforms answer, or their timeouts do;  *)
(* the lock is granted in the order of the requests.                        *)
(***************************************************************************)
Fairness ==
  \A e \in Entries :
    /\ WF_vars(SetupStep(e) \/ UnloadStep(e))
    /\ SF_vars(AcquireMonitor(e) \/ MonitorReleased(e) \/ RollbackReleases(e))

FairSpec == Spec /\ Fairness

-----------------------------------------------------------------------------
(* Properties.                                                              *)

Places == {"unloaded", "refresh", "acquire", "subscribe", "forward", "start",
           "loaded", "shutdown", "platforms", "release", "rollback", "undo",
           "failed"}

\* Every variable keeps its type.
TypeOK ==
  /\ MonitorTypeOK
  /\ at \in [Entries -> Places]
  /\ limitOf \in [Entries -> Limits \cup {0}]
  /\ managed \in [Entries -> BOOLEAN]
  /\ owner \in Entries \cup {NoEntry}
  /\ runtime \subseteq Entries /\ manager \subseteq Entries
  /\ syncing \subseteq Entries /\ orphans \subseteq Entries
  /\ debug \in [Entries -> {"idle", "busy", "owed"}]
  /\ services \in BOOLEAN

\* The entries that have acquired the collector and not released it.
Holders == {e \in Entries :
  /\ limitOf[e] > 0
  /\ at[e] \in {"subscribe", "forward", "start", "loaded", "shutdown", "platforms",
                "release", "rollback", "undo", "failed"}}

\* Through every interleaving of setups, failures and unloads the owners are the
\* entries that hold the collector: none is forgotten, none stays.
OwnersHold == OwnersOf(owners) = Holders

\* Outside the lock the collector is stored and subscribed to every topic exactly
\* while it has owners; without owners it is silent and empty; its capacity is the
\* largest limit of its owners.
CollectorShared ==
  lock = NoEntry =>
    /\ stored <=> Holders # {}
    /\ subs = IF stored THEN MONITORED_TOPICS ELSE 0
    /\ stored => maxlen = Max({limitOf[e] : e \in Holders})
    /\ ~stored => held = 0

\* Two gateways never manage the global namespace at once: the entries that have
\* a device manager are the owner, and the owner's runtime data is in reach.
SoleManager ==
  /\ manager = {owner} \ {NoEntry}
  /\ manager \subseteq runtime

\* An entry that Home Assistant shows as loaded, or as failed to unload, can be
\* recovered: its runtime data and the services are there, whatever other entries
\* unload meanwhile.
ControlsInReach ==
  \A e \in Entries :
    at[e] \in {"loaded", "shutdown", "failed"} => e \in runtime /\ services

\* A setup or an unload ends: no entry waits for ever, for the lock or for anyone.
OperationsEnd ==
  \A e \in Entries : []<>(at[e] \in {"unloaded", "loaded", "failed"})

\* CONTEXT.md: "A second managed gateway is blocked while firmware uses global
\* scs topics."  While an entry owns the namespace no other entry is about to
\* publish there.
SingleGateway == owner # NoEntry => syncing \cup orphans \subseteq {owner}

\* advanced_debug.py, async_shutdown: "Restore before unload; failure keeps recovery
\* controls available."  No entry is gone that owes its gateway the stock PIC.
UnloadedRestored == \A e \in Entries : at[e] = "unloaded" => debug[e] = "idle"
=============================================================================
