-------------------------- MODULE EntryLifecycleProofs --------------------------
(* Theorems about EntryLifecycle and its BusMonitor, for every set of       *)
(* entries and every finite set of limits.                                  *)
EXTENDS EntryLifecycle, FiniteSetTheorems, WellFoundedInduction, TLAPS

(***************************************************************************)
(* The inductive invariant.                                                 *)
(***************************************************************************)
\* The lock is held across an await by the entry that subscribes, and by no other.
LockInv == \A e \in Entries : lock = e <=> at[e] = "subscribe"

\* Who waits for the lock or holds it has the bus monitor enabled.
LimitInv ==
  \A e \in Entries :
    at[e] \in {"acquire", "subscribe", "release", "undo"} => limitOf[e] > 0

\* An owner has the collector with the limit of its options.
OwnersInv ==
  \A e \in Entries : owners[e] = IF e \in Holders THEN limitOf[e] ELSE 0

\* The collector while somebody starts it, and while nobody does.
CollectorInv ==
  /\ Holders # {} => maxlen = Largest(owners)
  /\ lock # NoEntry => Holders = {lock} /\ ~stored /\ subs < MONITORED_TOPICS
  /\ lock = NoEntry =>
       /\ stored <=> Holders # {}
       /\ subs = IF stored THEN MONITORED_TOPICS ELSE 0
       /\ ~stored => held = 0

\* A manager is there from the forwarding of the platforms to the removal.
ManagerInv ==
  /\ manager = {owner} \ {NoEntry}
  /\ \A e \in manager : at[e] \in {"forward", "start", "loaded", "shutdown",
                                   "platforms", "release", "failed"}

\* So are the runtime data, which a failed setup still has when it rolls back, and,
\* from the end of the setup on, the services.
ControlsInv ==
  \A e \in Entries :
    /\ at[e] \in {"forward", "start", "rollback", "loaded", "shutdown", "platforms",
                  "release", "failed"} => e \in runtime
    /\ at[e] \in {"loaded", "shutdown", "platforms", "release", "failed"} => services

IInv ==
  TypeOK /\ LockInv /\ LimitInv /\ OwnersInv /\ CollectorInv /\ ManagerInv /\ ControlsInv

-----------------------------------------------------------------------------
(* The largest limit.                                                       *)

HasMax(S) == \E x \in S : \A y \in S : x >= y

\* A finite set of numbers that is not empty has a largest element: a smallest finite
\* set without one would lose an element and still have none.
LEMMA FiniteHasMax ==
  ASSUME NEW S, IsFiniteSet(S), S \subseteq Nat, S # {}
  PROVE  HasMax(S)
<1> DEFINE Bad == {T \in FiniteSubsetsOf(S) : T # {} /\ ~HasMax(T)}
<1>1. SUFFICES ASSUME Bad # {} PROVE FALSE
  BY FS_FiniteSubsetsOfFinite
<1>2. PICK T \in Bad : \A U \in Bad : ~(<<U, T>> \in StrictSubsetOrdering(S))
  BY <1>1, FS_StrictSubsetOrderingWellFounded, WFMin
<1>3. PICK x \in T : TRUE
  OBVIOUS
<1>4. /\ T \subseteq S /\ IsFiniteSet(T)
      /\ T \ {x} \in FiniteSubsetsOf(S)
      /\ <<T \ {x}, T>> \in StrictSubsetOrdering(S)
  BY FS_RemoveElement DEF FiniteSubsetsOf, StrictSubsetOrdering
<1>5. CASE T \ {x} = {}
  BY <1>4, <1>5 DEF HasMax
<1>6. CASE T \ {x} # {}
  <2>1. PICK m \in T \ {x} : \A y \in T \ {x} : m >= y
    BY <1>2, <1>4, <1>6 DEF HasMax
  <2>2. x \in Nat /\ m \in Nat /\ T \subseteq Nat
    BY <1>4, <2>1
  <2>3. \E z \in T : \A y \in T : z >= y
    <3>1. CASE m >= x
      BY <2>1, <3>1
    <3>2. CASE ~(m >= x)
      BY <2>1, <2>2, <3>2
    <3>3. QED
      BY <3>1, <3>2
  <2>4. QED
    BY <2>3 DEF HasMax
<1>7. QED
  BY <1>5, <1>6

\* The capacity is the limit of some owner.
LEMMA LargestLimit ==
  ASSUME NEW o \in [Entries -> Limits \cup {0}], OwnersOf(o) # {}
  PROVE  Largest(o) \in Limits
<1> DEFINE S == {o[e] : e \in OwnersOf(o)}
<1>1. S \subseteq Limits /\ S # {}
  BY DEF OwnersOf
<1>2. IsFiniteSet(S) /\ S \subseteq Nat
  BY <1>1, LimitAssumption, FS_Subset
<1>3. \E x \in S : \A y \in S : x >= y
  BY <1>1, <1>2, FiniteHasMax DEF HasMax
<1>4. Max(S) \in S
  BY <1>3 DEF Max
<1>5. QED
  BY <1>1, <1>4 DEF Largest
-----------------------------------------------------------------------------
(* Type correctness.                                                        *)

LEMMA LimitsNumbers == \A l \in Limits : l \in Nat /\ l > 0
BY LimitAssumption

\* A resized collector holds no more than fits.
LEMMA ResizeTyped ==
  ASSUME TypeOK, NEW o \in [Entries -> Limits \cup {0}], OwnersOf(o) # {}, Resize(o)
  PROVE  maxlen' \in Limits /\ held' \in 0..maxlen'
<1>1. maxlen' \in Limits
  BY LargestLimit DEF Resize
<1>2. maxlen' \in Nat /\ held \in Nat
  BY <1>1, LimitsNumbers DEF TypeOK, MonitorTypeOK
<1>3. held' \in 0..maxlen'
  BY <1>2 DEF Resize, Least
<1>4. QED
  BY <1>1, <1>3

\* An entry that leaves the collector leaves it typed.
LEMMA ReleaseTyped ==
  ASSUME TypeOK, NEW e \in Entries, Release(e)
  PROVE  /\ stored' \in BOOLEAN /\ owners' \in [Entries -> Limits \cup {0}]
         /\ maxlen' \in Limits /\ subs' \in 0..MONITORED_TOPICS
         /\ held' \in 0..maxlen'
<1>1. owners' \in [Entries -> Limits \cup {0}]
  BY DEF TypeOK, MonitorTypeOK, Release, Disown
<1>2. CASE OwnersOf(owners') # {}
  <2>1. Resize(owners') /\ UNCHANGED <<stored, subs>>
    BY <1>2 DEF Release
  <2>2. QED
    BY <1>1, <1>2, <2>1, ResizeTyped DEF TypeOK, MonitorTypeOK
<1>3. CASE OwnersOf(owners') = {}
  <2>1. stored' = FALSE /\ subs' = 0 /\ held' = 0 /\ maxlen' = maxlen
    BY <1>3 DEF Release
  <2>2. maxlen \in Limits /\ maxlen \in Nat
    BY LimitsNumbers DEF TypeOK, MonitorTypeOK
  <2>3. subs' \in 0..MONITORED_TOPICS
    BY <2>1 DEF MONITORED_TOPICS
  <2>4. held' \in 0..maxlen'
    BY <2>1, <2>2
  <2>5. QED
    BY <1>1, <2>1, <2>2, <2>3, <2>4
<1>4. QED
  BY <1>2, <1>3

\* What the building of the runtime data and its removal assign.
EntryTyped ==
  /\ at \in [Entries -> Places]
  /\ limitOf \in [Entries -> Limits \cup {0}]
  /\ managed \in [Entries -> BOOLEAN]
  /\ owner \in Entries \cup {NoEntry}
  /\ runtime \subseteq Entries /\ manager \subseteq Entries
  /\ syncing \subseteq Entries /\ orphans \subseteq Entries
  /\ debug \in [Entries -> {"idle", "busy", "owed"}]
  /\ services \in BOOLEAN

LEMMA BuildTyped ==
  ASSUME TypeOK, NEW e \in Entries, Build(e)
  PROVE  EntryTyped'
BY DEF TypeOK, EntryTyped, Build, Goto, Places

LEMMA RemovedTyped ==
  ASSUME TypeOK, NEW e \in Entries, Removed(e)
  PROVE  EntryTyped'
BY DEF TypeOK, EntryTyped, Removed, Drop, ServicesAfter, Goto, Places

\* Every step keeps the types: nobody acquires the collector with a limit of zero, and
\* there is no fourth topic.
LEMMA TypeStep ==
  TypeOK /\ LockInv /\ LimitInv /\ CollectorInv /\ [Next]_vars => TypeOK'
<1> SUFFICES ASSUME TypeOK, LockInv, LimitInv, CollectorInv, [Next]_vars
             PROVE  TypeOK'
  OBVIOUS
<1>a. MonitorTypeOK /\ EntryTyped
  BY DEF TypeOK, EntryTyped
<1> SUFFICES MonitorTypeOK' /\ EntryTyped'
  BY DEF TypeOK, EntryTyped
<1> USE DEF EntryTyped, Goto, Places
<1>b. ASSUME UNCHANGED <<lock, monitor>> PROVE MonitorTypeOK'
  BY <1>a, <1>b DEF MonitorTypeOK, monitor
<1>1. ASSUME NEW e \in Entries, BeginSetup(e) PROVE MonitorTypeOK' /\ EntryTyped'
  BY <1>a, <1>1, <1>b, ManageAssumption DEF BeginSetup, namespace
<1>2. ASSUME NEW e \in Entries, Refreshed(e) PROVE MonitorTypeOK' /\ EntryTyped'
  BY <1>a, <1>2, <1>b, BuildTyped DEF Refreshed, namespace
<1>3. ASSUME NEW e \in Entries, RefreshFails(e) PROVE MonitorTypeOK' /\ EntryTyped'
  BY <1>a, <1>3, <1>b DEF RefreshFails, namespace
<1>4. ASSUME NEW e \in Entries, AcquireMonitor(e) PROVE MonitorTypeOK' /\ EntryTyped'
  <2>1. owners' \in [Entries -> Limits \cup {0}]
    BY <1>a, <1>4 DEF AcquireMonitor, Acquire, MonitorTypeOK
  <2>2. owners'[e] = limitOf[e] /\ limitOf[e] > 0
    BY <1>a, <1>4 DEF AcquireMonitor, Acquire, MonitorTypeOK, LimitInv
  <2>. OwnersOf(owners') # {}
    BY <2>2 DEF OwnersOf
  <2>3. maxlen' \in Limits /\ held' \in 0..maxlen'
    BY <1>4, <2>1, <2>2, ResizeTyped DEF AcquireMonitor, Acquire
  <2>4. EntryTyped'
    BY <1>a, <1>4, BuildTyped DEF AcquireMonitor, namespace
  <2>5. MonitorTypeOK'
    BY <1>a, <1>4, <2>1, <2>3 DEF AcquireMonitor, MonitorTypeOK
  <2>6. QED
    BY <2>4, <2>5
<1>5. ASSUME NEW e \in Entries, TopicSubscribed(e) PROVE MonitorTypeOK' /\ EntryTyped'
  <2>1. EntryTyped'
    BY <1>a, <1>5, BuildTyped DEF TopicSubscribed, namespace
  <2>2. subs \in Nat /\ subs < MONITORED_TOPICS
    BY <1>a, <1>5, NoEntryAssumption
    DEF TopicSubscribed, LockInv, CollectorInv, MonitorTypeOK, MONITORED_TOPICS
  <2>3. subs' \in 0..MONITORED_TOPICS
    BY <1>5, <2>2 DEF TopicSubscribed, SubscribeNext, MONITORED_TOPICS
  <2>4. MonitorTypeOK'
    BY <1>a, <1>5, <2>3 DEF TopicSubscribed, SubscribeNext, MonitorTypeOK
  <2>5. QED
    BY <2>1, <2>4
<1>6. ASSUME NEW e \in Entries, TopicRefused(e) PROVE MonitorTypeOK' /\ EntryTyped'
  <2>1. EntryTyped'
    BY <1>a, <1>6 DEF TopicRefused, namespace
  <2>2. maxlen' \in Nat /\ held' = 0
    BY <1>a, <1>6, LimitsNumbers DEF TopicRefused, SubscribeFails, MonitorTypeOK
  <2>3. held' \in 0..maxlen'
    BY <2>2
  <2>4. MonitorTypeOK'
    BY <1>a, <1>6, <2>3
    DEF TopicRefused, SubscribeFails, Disown, MonitorTypeOK, MONITORED_TOPICS
  <2>5. QED
    BY <2>1, <2>4
<1>7. ASSUME NEW e \in Entries, PlatformsForwarded(e) PROVE MonitorTypeOK' /\ EntryTyped'
  BY <1>a, <1>7, <1>b DEF PlatformsForwarded, _async_register_services
<1>8. ASSUME NEW e \in Entries, ManagerStarted(e) PROVE MonitorTypeOK' /\ EntryTyped'
  BY <1>a, <1>8, <1>b DEF ManagerStarted, _async_register_services
<1>9. ASSUME NEW e \in Entries, ForwardFails(e) PROVE MonitorTypeOK' /\ EntryTyped'
  BY <1>a, <1>9, <1>b DEF ForwardFails
<1>10. ASSUME NEW e \in Entries, BeginUnload(e) PROVE MonitorTypeOK' /\ EntryTyped'
  BY <1>a, <1>10, <1>b DEF BeginUnload, namespace
<1>11. ASSUME NEW e \in Entries, ShutdownDone(e) PROVE MonitorTypeOK' /\ EntryTyped'
  BY <1>a, <1>11, <1>b DEF ShutdownDone, namespace
<1>12. ASSUME NEW e \in Entries, ShutdownFails(e) PROVE MonitorTypeOK' /\ EntryTyped'
  BY <1>a, <1>12, <1>b DEF ShutdownFails, namespace
<1>13. ASSUME NEW e \in Entries, PlatformsStay(e) PROVE MonitorTypeOK' /\ EntryTyped'
  BY <1>a, <1>13, <1>b DEF PlatformsStay, namespace
<1>14. ASSUME NEW e \in Entries, PlatformsUnloaded(e) PROVE MonitorTypeOK' /\ EntryTyped'
  BY <1>a, <1>14, <1>b, RemovedTyped DEF PlatformsUnloaded, namespace
<1>15. ASSUME NEW e \in Entries, MonitorReleased(e) PROVE MonitorTypeOK' /\ EntryTyped'
  BY <1>a, <1>15, ReleaseTyped, RemovedTyped DEF MonitorReleased, MonitorTypeOK
<1>16. ASSUME NEW e \in Entries, RollbackShutdown(e) PROVE MonitorTypeOK' /\ EntryTyped'
  BY <1>a, <1>16, <1>b DEF RollbackShutdown, namespace
<1>17. ASSUME NEW e \in Entries, RollbackReleases(e) PROVE MonitorTypeOK' /\ EntryTyped'
  BY <1>a, <1>17, ReleaseTyped DEF RollbackReleases, namespace, MonitorTypeOK
<1>18. ASSUME NEW e \in Entries, PeriodicSync(e) PROVE MonitorTypeOK' /\ EntryTyped'
  BY <1>a, <1>18, <1>b DEF PeriodicSync
<1>19. ASSUME NEW e \in Entries, SyncEnds(e) PROVE MonitorTypeOK' /\ EntryTyped'
  BY <1>a, <1>19, <1>b DEF SyncEnds
<1>20. ASSUME NEW e \in Entries, DebugService(e) PROVE MonitorTypeOK' /\ EntryTyped'
  BY <1>a, <1>20, <1>b DEF DebugService, namespace
<1>21. ASSUME NEW e \in Entries, DebugEnds(e) PROVE MonitorTypeOK' /\ EntryTyped'
  BY <1>a, <1>21, <1>b DEF DebugEnds, namespace
<1>22. ASSUME Bus PROVE MonitorTypeOK' /\ EntryTyped'
  <2>1. EntryTyped'
    BY <1>a, <1>22 DEF Bus, namespace
  <2>2. MonitorTypeOK'
    BY <1>a, <1>22, LimitAssumption
    DEF Bus, MonitorTypeOK, MessageReceived, Clear, Least
  <2>3. QED
    BY <2>1, <2>2
<1>23. CASE UNCHANGED vars
  BY <1>a, <1>23, <1>b DEF vars, namespace
<1>24. QED
  BY <1>1, <1>2, <1>3, <1>4, <1>5, <1>6, <1>7, <1>8, <1>9, <1>10, <1>11, <1>12, <1>13,
     <1>14, <1>15, <1>16, <1>17, <1>18, <1>19, <1>20, <1>21, <1>22, <1>23
  DEF Next, SetupStep, UnloadStep
-----------------------------------------------------------------------------
(* The lock and the limits.                                                 *)

\* Whoever gets the lock found it free and subscribes; whoever is through, or is
\* refused, gives it back.  Limits do not change between setup and unload.
LEMMA LockStep ==
  TypeOK /\ LockInv /\ LimitInv /\ [Next]_vars => (LockInv /\ LimitInv)'
<1> SUFFICES ASSUME TypeOK, LockInv, LimitInv, [Next]_vars
             PROVE  (LockInv /\ LimitInv)'
  OBVIOUS
<1> USE NoEntryAssumption DEF TypeOK, LockInv, LimitInv, Goto
<1>1. ASSUME NEW e \in Entries, BeginSetup(e) PROVE (LockInv /\ LimitInv)'
  BY <1>1 DEF BeginSetup
<1>2. ASSUME NEW e \in Entries, Refreshed(e) PROVE (LockInv /\ LimitInv)'
  BY <1>2 DEF Refreshed, Build
<1>3. ASSUME NEW e \in Entries, RefreshFails(e) PROVE (LockInv /\ LimitInv)'
  BY <1>3 DEF RefreshFails
<1>4. ASSUME NEW e \in Entries, AcquireMonitor(e) PROVE (LockInv /\ LimitInv)'
  BY <1>4 DEF AcquireMonitor, Build
<1>5. ASSUME NEW e \in Entries, TopicSubscribed(e) PROVE (LockInv /\ LimitInv)'
  BY <1>5 DEF TopicSubscribed, Build
<1>6. ASSUME NEW e \in Entries, TopicRefused(e) PROVE (LockInv /\ LimitInv)'
  BY <1>6 DEF TopicRefused
<1>7. ASSUME NEW e \in Entries, PlatformsForwarded(e) PROVE (LockInv /\ LimitInv)'
  BY <1>7 DEF PlatformsForwarded
<1>8. ASSUME NEW e \in Entries, ManagerStarted(e) PROVE (LockInv /\ LimitInv)'
  BY <1>8 DEF ManagerStarted
<1>9. ASSUME NEW e \in Entries, ForwardFails(e) PROVE (LockInv /\ LimitInv)'
  BY <1>9 DEF ForwardFails
<1>10. ASSUME NEW e \in Entries, BeginUnload(e) PROVE (LockInv /\ LimitInv)'
  BY <1>10 DEF BeginUnload
<1>11. ASSUME NEW e \in Entries, ShutdownDone(e) PROVE (LockInv /\ LimitInv)'
  BY <1>11 DEF ShutdownDone
<1>12. ASSUME NEW e \in Entries, ShutdownFails(e) PROVE (LockInv /\ LimitInv)'
  BY <1>12 DEF ShutdownFails
<1>13. ASSUME NEW e \in Entries, PlatformsStay(e) PROVE (LockInv /\ LimitInv)'
  BY <1>13 DEF PlatformsStay
<1>14. ASSUME NEW e \in Entries, PlatformsUnloaded(e) PROVE (LockInv /\ LimitInv)'
  BY <1>14 DEF PlatformsUnloaded, Removed
<1>15. ASSUME NEW e \in Entries, MonitorReleased(e) PROVE (LockInv /\ LimitInv)'
  BY <1>15 DEF MonitorReleased, Removed
<1>16. ASSUME NEW e \in Entries, RollbackShutdown(e) PROVE (LockInv /\ LimitInv)'
  BY <1>16 DEF RollbackShutdown
<1>17. ASSUME NEW e \in Entries, RollbackReleases(e) PROVE (LockInv /\ LimitInv)'
  BY <1>17 DEF RollbackReleases
<1>18. ASSUME NEW e \in Entries, PeriodicSync(e) PROVE (LockInv /\ LimitInv)'
  BY <1>18 DEF PeriodicSync
<1>19. ASSUME NEW e \in Entries, SyncEnds(e) PROVE (LockInv /\ LimitInv)'
  BY <1>19 DEF SyncEnds
<1>20. ASSUME NEW e \in Entries, DebugService(e) PROVE (LockInv /\ LimitInv)'
  BY <1>20 DEF DebugService
<1>21. ASSUME NEW e \in Entries, DebugEnds(e) PROVE (LockInv /\ LimitInv)'
  BY <1>21 DEF DebugEnds
<1>22. ASSUME Bus PROVE (LockInv /\ LimitInv)'
  BY <1>22 DEF Bus, MessageReceived, Clear
<1>23. CASE UNCHANGED vars
  BY <1>23 DEF vars
<1>24. QED
  BY <1>1, <1>2, <1>3, <1>4, <1>5, <1>6, <1>7, <1>8, <1>9, <1>10, <1>11, <1>12,
     <1>13, <1>14, <1>15, <1>16, <1>17, <1>18, <1>19, <1>20, <1>21, <1>22, <1>23
  DEF Next, SetupStep, UnloadStep
-----------------------------------------------------------------------------
(* The namespace, the runtime data and the services.                        *)

\* The entry that finds the namespace free gets it with its manager, and loses both at
\* once.  The services go when the last runtime data goes, so nobody else needs them.
LEMMA NamespaceStep ==
  TypeOK /\ ManagerInv /\ ControlsInv /\ [Next]_vars => (ManagerInv /\ ControlsInv)'
<1> SUFFICES ASSUME TypeOK, ManagerInv, ControlsInv, [Next]_vars
             PROVE  (ManagerInv /\ ControlsInv)'
  OBVIOUS
<1> USE NoEntryAssumption DEF TypeOK, ManagerInv, ControlsInv, Goto
<1>1. ASSUME NEW e \in Entries, BeginSetup(e) PROVE (ManagerInv /\ ControlsInv)'
  BY <1>1 DEF BeginSetup, namespace
<1>2. ASSUME NEW e \in Entries, Refreshed(e) PROVE (ManagerInv /\ ControlsInv)'
  BY <1>2 DEF Refreshed, Build, claim_global_namespace, namespace
<1>3. ASSUME NEW e \in Entries, RefreshFails(e) PROVE (ManagerInv /\ ControlsInv)'
  BY <1>3 DEF RefreshFails, namespace
<1>4. ASSUME NEW e \in Entries, AcquireMonitor(e) PROVE (ManagerInv /\ ControlsInv)'
  BY <1>4 DEF AcquireMonitor, Build, claim_global_namespace, namespace
<1>5. ASSUME NEW e \in Entries, TopicSubscribed(e) PROVE (ManagerInv /\ ControlsInv)'
  BY <1>5 DEF TopicSubscribed, Build, claim_global_namespace, namespace
<1>6. ASSUME NEW e \in Entries, TopicRefused(e) PROVE (ManagerInv /\ ControlsInv)'
  BY <1>6 DEF TopicRefused, namespace
<1>7. ASSUME NEW e \in Entries, PlatformsForwarded(e) PROVE (ManagerInv /\ ControlsInv)'
  BY <1>7 DEF PlatformsForwarded, _async_register_services
<1>8. ASSUME NEW e \in Entries, ManagerStarted(e) PROVE (ManagerInv /\ ControlsInv)'
  BY <1>8 DEF ManagerStarted, _async_register_services
<1>9. ASSUME NEW e \in Entries, ForwardFails(e) PROVE (ManagerInv /\ ControlsInv)'
  BY <1>9 DEF ForwardFails, namespace
<1>10. ASSUME NEW e \in Entries, BeginUnload(e) PROVE (ManagerInv /\ ControlsInv)'
  BY <1>10 DEF BeginUnload, namespace
<1>11. ASSUME NEW e \in Entries, ShutdownDone(e) PROVE (ManagerInv /\ ControlsInv)'
  BY <1>11 DEF ShutdownDone, namespace
<1>12. ASSUME NEW e \in Entries, ShutdownFails(e) PROVE (ManagerInv /\ ControlsInv)'
  BY <1>12 DEF ShutdownFails, namespace
<1>13. ASSUME NEW e \in Entries, PlatformsStay(e) PROVE (ManagerInv /\ ControlsInv)'
  BY <1>13 DEF PlatformsStay, namespace
<1>14. ASSUME NEW e \in Entries, PlatformsUnloaded(e) PROVE (ManagerInv /\ ControlsInv)'
  BY <1>14 DEF PlatformsUnloaded, Removed, Drop, ServicesAfter, namespace
<1>15. ASSUME NEW e \in Entries, MonitorReleased(e) PROVE (ManagerInv /\ ControlsInv)'
  BY <1>15 DEF MonitorReleased, Removed, Drop, ServicesAfter
<1>16. ASSUME NEW e \in Entries, RollbackShutdown(e) PROVE (ManagerInv /\ ControlsInv)'
  BY <1>16 DEF RollbackShutdown, namespace
<1>17. ASSUME NEW e \in Entries, RollbackReleases(e) PROVE (ManagerInv /\ ControlsInv)'
  BY <1>17 DEF RollbackReleases, namespace
<1>18. ASSUME NEW e \in Entries, PeriodicSync(e) PROVE (ManagerInv /\ ControlsInv)'
  BY <1>18 DEF PeriodicSync, namespace
<1>19. ASSUME NEW e \in Entries, SyncEnds(e) PROVE (ManagerInv /\ ControlsInv)'
  BY <1>19 DEF SyncEnds, namespace
<1>20. ASSUME NEW e \in Entries, DebugService(e) PROVE (ManagerInv /\ ControlsInv)'
  BY <1>20 DEF DebugService, namespace
<1>21. ASSUME NEW e \in Entries, DebugEnds(e) PROVE (ManagerInv /\ ControlsInv)'
  BY <1>21 DEF DebugEnds, namespace
<1>22. ASSUME Bus PROVE (ManagerInv /\ ControlsInv)'
  BY <1>22 DEF Bus, namespace
<1>23. CASE UNCHANGED vars
  BY <1>23 DEF vars, namespace
<1>24. QED
  BY <1>1, <1>2, <1>3, <1>4, <1>5, <1>6, <1>7, <1>8, <1>9, <1>10, <1>11, <1>12,
     <1>13, <1>14, <1>15, <1>16, <1>17, <1>18, <1>19, <1>20, <1>21, <1>22, <1>23
  DEF Next, SetupStep, UnloadStep
-----------------------------------------------------------------------------
(* The collector and its owners.                                            *)

Sharing == OwnersInv /\ CollectorInv

\* The owners are the entries that hold the collector.
LEMMA OwnersAreHolders ==
  ASSUME TypeOK, OwnersInv
  PROVE  /\ OwnersOf(owners) = Holders
         /\ Largest(owners) = Max({limitOf[e] : e \in Holders})
<1>1. \A e \in Entries : owners[e] > 0 <=> e \in Holders
  BY LimitsNumbers DEF TypeOK, MonitorTypeOK, OwnersInv, Holders
<1>2. OwnersOf(owners) = Holders
  BY <1>1 DEF OwnersOf, Holders
<1>3. {owners[e] : e \in OwnersOf(owners)} = {limitOf[e] : e \in Holders}
  BY <1>2 DEF OwnersInv, Holders
<1>4. QED
  BY <1>2, <1>3 DEF Largest

\* A step that neither touches the collector nor makes or unmakes a holder.
LEMMA Untouched ==
  ASSUME Sharing, UNCHANGED <<lock, monitor>>, Holders' = Holders,
         \A e \in Holders : limitOf'[e] = limitOf[e]
  PROVE  Sharing'
<1>1. Largest(owners)' = Largest(owners)
  BY DEF monitor, Largest, OwnersOf
<1>2. OwnersInv'
  BY DEF Sharing, OwnersInv, monitor
<1>3. CollectorInv'
  BY <1>1 DEF Sharing, CollectorInv, monitor
<1>4. QED
  BY <1>2, <1>3 DEF Sharing

\* A holder that leaves under the free lock: the others keep the collector, or it goes.
LEMMA Departed ==
  ASSUME TypeOK, LimitInv, Sharing, NEW e \in Entries, lock = NoEntry,
         at[e] \in {"release", "undo"}, Release(e),
         at' = [at EXCEPT ![e] = "unloaded"], UNCHANGED <<lock, limitOf>>
  PROVE  Sharing'
<1>1. e \in Holders /\ Holders' = Holders \ {e}
  BY DEF TypeOK, LimitInv, Holders
<1>2. owners' = [owners EXCEPT ![e] = 0]
  BY DEF Release, Disown
<1>3. OwnersInv'
  BY <1>1, <1>2 DEF Sharing, OwnersInv, TypeOK, MonitorTypeOK
<1>4. OwnersOf(owners') = Holders'
  BY <1>1, <1>2, OwnersAreHolders DEF Sharing, OwnersOf, TypeOK, MonitorTypeOK
<1>5. stored
  BY <1>1 DEF Sharing, CollectorInv
<1>6. CASE Holders' # {}
  <2>1. maxlen' = Largest(owners)'
    BY <1>4, <1>6 DEF Release, Resize, Largest, OwnersOf
  <2>2. QED
    BY <1>3, <1>4, <1>5, <1>6, <2>1 DEF Release, Sharing, CollectorInv
<1>7. CASE Holders' = {}
  BY <1>3, <1>4, <1>7 DEF Release, Sharing, CollectorInv
<1>8. QED
  BY <1>3, <1>6, <1>7 DEF Sharing

\* Every step keeps the collector and its owners in order.
LEMMA SharingStep ==
  TypeOK /\ LockInv /\ LimitInv /\ Sharing /\ [Next]_vars => Sharing'
<1> SUFFICES ASSUME TypeOK, LockInv, LimitInv, Sharing, [Next]_vars
             PROVE  Sharing'
  OBVIOUS
<1> USE DEF Goto
<1>1. ASSUME NEW e \in Entries, BeginSetup(e) PROVE Sharing'
  <2>1. \A x \in Entries \ {e} : at'[x] = at[x] /\ limitOf'[x] = limitOf[x]
    BY <1>1 DEF BeginSetup, TypeOK
  <2>2. at[e] = "unloaded" /\ at'[e] = "refresh"
    BY <1>1 DEF BeginSetup, TypeOK
  <2>3. UNCHANGED <<lock, monitor>>
    BY <1>1 DEF BeginSetup
  <2>4. Holders' = Holders /\ e \notin Holders
    BY <2>1, <2>2 DEF Holders
  <2>5. QED
    BY <2>1, <2>3, <2>4, Untouched DEF Holders
<1>2. ASSUME NEW e \in Entries, Refreshed(e) PROVE Sharing'
  <2>1. \/ at' = [at EXCEPT ![e] = "acquire"]
        \/ limitOf[e] = 0 /\ at' = [at EXCEPT ![e] = "forward"]
    BY <1>2, LimitsNumbers DEF Refreshed, Build, TypeOK
  <2>2. at[e] = "refresh" /\ UNCHANGED <<lock, monitor, limitOf>>
    BY <1>2 DEF Refreshed, Build
  <2>3. QED
    BY <2>1, <2>2, Untouched DEF Holders, TypeOK
<1>3. ASSUME NEW e \in Entries, RefreshFails(e) PROVE Sharing'
  BY <1>3, Untouched DEF RefreshFails, Holders, TypeOK
<1>4. ASSUME NEW e \in Entries, AcquireMonitor(e) PROVE Sharing'
  <2>1. /\ at[e] = "acquire" /\ lock = NoEntry /\ limitOf[e] > 0
        /\ owners' = [owners EXCEPT ![e] = limitOf[e]] /\ maxlen' = Largest(owners')
        /\ UNCHANGED <<limitOf, stored, subs>>
    BY <1>4 DEF AcquireMonitor, Acquire, Resize, Build, LimitInv
  <2>2. maxlen' = Largest(owners)'
    BY <2>1 DEF Largest, OwnersOf
  <2>3. CASE subs > 0
    <3>1. at' = [at EXCEPT ![e] = "forward"] /\ lock' = lock
      BY <1>4, <2>3 DEF AcquireMonitor, Build
    <3>2. Holders' = Holders \cup {e}
      BY <2>1, <3>1 DEF Holders, TypeOK
    <3>3. OwnersInv'
      BY <2>1, <3>2 DEF Sharing, OwnersInv, TypeOK, MonitorTypeOK
    <3>4. stored
      BY <2>1, <2>3 DEF Sharing, CollectorInv
    <3>5. QED
      BY <2>1, <2>2, <3>1, <3>2, <3>3, <3>4 DEF Sharing, CollectorInv
  <2>4. CASE ~(subs > 0)
    <3>1. at' = [at EXCEPT ![e] = "subscribe"] /\ lock' = e
      BY <1>4, <2>4 DEF AcquireMonitor
    <3>2. subs = 0 /\ ~stored /\ Holders = {}
      BY <2>1, <2>4 DEF Sharing, CollectorInv, MONITORED_TOPICS
    <3>3. Holders' = {e}
      BY <2>1, <3>1, <3>2 DEF Holders, TypeOK
    <3>4. OwnersInv'
      BY <2>1, <3>2, <3>3 DEF Sharing, OwnersInv, TypeOK, MonitorTypeOK
    <3>5. QED
      BY <2>1, <2>2, <3>1, <3>2, <3>3, <3>4, NoEntryAssumption
      DEF Sharing, CollectorInv, MONITORED_TOPICS
  <2>5. QED
    BY <2>3, <2>4
<1>5. ASSUME NEW e \in Entries, TopicSubscribed(e) PROVE Sharing'
  <2>1. /\ at[e] = "subscribe" /\ lock = e /\ lock # NoEntry
        /\ UNCHANGED <<limitOf, owners, maxlen>>
    BY <1>5, NoEntryAssumption DEF TopicSubscribed, SubscribeNext, Build, LockInv
  <2>2. at' = at \/ at' = [at EXCEPT ![e] = "forward"]
    BY <1>5 DEF TopicSubscribed, Build
  <2>3. Holders = {e} /\ Holders' = Holders
    BY <2>1, <2>2 DEF Holders, TypeOK, Sharing, CollectorInv
  <2>4. OwnersInv' /\ maxlen' = Largest(owners)'
    BY <2>1, <2>3 DEF Sharing, OwnersInv, CollectorInv, Largest, OwnersOf, Holders
  <2>5. subs \in Nat /\ subs' = subs + 1 /\ subs < MONITORED_TOPICS
    BY <1>5, <2>1
    DEF TopicSubscribed, SubscribeNext, TypeOK, MonitorTypeOK, Sharing, CollectorInv,
        MONITORED_TOPICS
  <2>6. CASE subs' = MONITORED_TOPICS
    <3>1. lock' = NoEntry /\ stored' = TRUE
      BY <1>5, <2>6 DEF TopicSubscribed, SubscribeNext
    <3>2. QED
      BY <2>3, <2>4, <2>6, <3>1 DEF Sharing, CollectorInv
  <2>7. CASE subs' # MONITORED_TOPICS
    <3>1. lock' = lock /\ stored' = FALSE
      BY <1>5, <2>7 DEF TopicSubscribed, SubscribeNext
    <3>2. subs' < MONITORED_TOPICS
      BY <2>5, <2>7 DEF MONITORED_TOPICS
    <3>3. QED
      BY <2>1, <2>3, <2>4, <3>1, <3>2 DEF Sharing, CollectorInv
  <2>8. QED
    BY <2>6, <2>7
<1>6. ASSUME NEW e \in Entries, TopicRefused(e) PROVE Sharing'
  <2>1. /\ lock = e /\ lock # NoEntry /\ lock' = NoEntry
        /\ at' = [at EXCEPT ![e] = "unloaded"]
        /\ owners' = [owners EXCEPT ![e] = 0]
        /\ subs' = 0 /\ held' = 0
        /\ UNCHANGED <<limitOf, stored>>
    BY <1>6, NoEntryAssumption DEF TopicRefused, SubscribeFails, Disown, LockInv
  <2>2. Holders = {e} /\ ~stored
    BY <2>1 DEF Sharing, CollectorInv
  <2>3. Holders' = {}
    BY <2>1, <2>2 DEF Holders, TypeOK
  <2>4. OwnersInv'
    BY <2>1, <2>2, <2>3 DEF Sharing, OwnersInv, TypeOK, MonitorTypeOK
  <2>5. QED
    BY <2>1, <2>2, <2>3, <2>4 DEF Sharing, CollectorInv
<1>7. ASSUME NEW e \in Entries, PlatformsForwarded(e) PROVE Sharing'
  BY <1>7, Untouched DEF PlatformsForwarded, Holders, TypeOK
<1>8. ASSUME NEW e \in Entries, ManagerStarted(e) PROVE Sharing'
  BY <1>8, Untouched DEF ManagerStarted, Holders, TypeOK
<1>9. ASSUME NEW e \in Entries, ForwardFails(e) PROVE Sharing'
  BY <1>9, Untouched DEF ForwardFails, Holders, TypeOK
<1>10. ASSUME NEW e \in Entries, BeginUnload(e) PROVE Sharing'
  BY <1>10, Untouched DEF BeginUnload, Holders, TypeOK
<1>11. ASSUME NEW e \in Entries, ShutdownDone(e) PROVE Sharing'
  BY <1>11, Untouched DEF ShutdownDone, Holders, TypeOK
<1>12. ASSUME NEW e \in Entries, ShutdownFails(e) PROVE Sharing'
  BY <1>12, Untouched DEF ShutdownFails, Holders, TypeOK
<1>13. ASSUME NEW e \in Entries, PlatformsStay(e) PROVE Sharing'
  BY <1>13, Untouched DEF PlatformsStay, Holders, TypeOK
<1>14. ASSUME NEW e \in Entries, PlatformsUnloaded(e) PROVE Sharing'
  BY <1>14, Untouched DEF PlatformsUnloaded, Removed, Holders, TypeOK
<1>15. ASSUME NEW e \in Entries, MonitorReleased(e) PROVE Sharing'
  BY <1>15, Departed DEF MonitorReleased, Removed
<1>16. ASSUME NEW e \in Entries, RollbackShutdown(e) PROVE Sharing'
  BY <1>16, Untouched DEF RollbackShutdown, Holders, TypeOK
<1>17. ASSUME NEW e \in Entries, RollbackReleases(e) PROVE Sharing'
  BY <1>17, Departed DEF RollbackReleases
<1>18. ASSUME NEW e \in Entries, PeriodicSync(e) PROVE Sharing'
  BY <1>18, Untouched DEF PeriodicSync, Holders, TypeOK
<1>19. ASSUME NEW e \in Entries, SyncEnds(e) PROVE Sharing'
  BY <1>19, Untouched DEF SyncEnds, Holders, TypeOK
<1>20. ASSUME NEW e \in Entries, DebugService(e) PROVE Sharing'
  BY <1>20, Untouched DEF DebugService, Holders, TypeOK
<1>21. ASSUME NEW e \in Entries, DebugEnds(e) PROVE Sharing'
  BY <1>21, Untouched DEF DebugEnds, Holders, TypeOK
<1>22. ASSUME Bus PROVE Sharing'
  <2>1. UNCHANGED <<lock, stored, owners, maxlen, subs, at, limitOf>>
    BY <1>22 DEF Bus, MessageReceived, Clear
  <2>2. Holders' = Holders /\ Largest(owners)' = Largest(owners)
    BY <2>1 DEF Holders, Largest, OwnersOf
  <2>3. ~stored /\ lock = NoEntry => held' = held \/ held' = 0
    BY <1>22 DEF Bus, MessageReceived, Clear, Sharing, CollectorInv
  <2>4. QED
    BY <2>1, <2>2, <2>3 DEF Sharing, OwnersInv, CollectorInv
<1>23. CASE UNCHANGED vars
  BY <1>23, Untouched DEF vars, Holders
<1>24. QED
  BY <1>1, <1>2, <1>3, <1>4, <1>5, <1>6, <1>7, <1>8, <1>9, <1>10, <1>11, <1>12,
     <1>13, <1>14, <1>15, <1>16, <1>17, <1>18, <1>19, <1>20, <1>21, <1>22, <1>23
  DEF Next, SetupStep, UnloadStep

-----------------------------------------------------------------------------
(* The theorems.                                                            *)

LEMMA InitIInv == Init => IInv
<1> SUFFICES ASSUME Init PROVE IInv
  OBVIOUS
<1> USE DEF Init, MonitorInit
<1>1. Max(Limits) \in Limits
  <2>1. HasMax(Limits)
    BY FiniteHasMax, LimitAssumption
  <2>2. QED
    BY <2>1 DEF HasMax, Max
<1>2. TypeOK
  <2>1. held \in 0..maxlen
    BY <1>1, LimitsNumbers
  <2>2. subs \in 0..MONITORED_TOPICS
    BY DEF MONITORED_TOPICS
  <2>3. MonitorTypeOK
    BY <1>1, <2>1, <2>2 DEF MonitorTypeOK
  <2>4. QED
    BY <2>3 DEF TypeOK, Places
<1>3. LockInv /\ LimitInv /\ ManagerInv /\ ControlsInv
  BY NoEntryAssumption DEF LockInv, LimitInv, ManagerInv, ControlsInv
<1>4. Holders = {}
  BY DEF Holders
<1>5. OwnersInv /\ CollectorInv
  BY <1>4 DEF OwnersInv, CollectorInv
<1>6. QED
  BY <1>2, <1>3, <1>5 DEF IInv

LEMMA NextIInv == IInv /\ [Next]_vars => IInv'
BY TypeStep, LockStep, NamespaceStep, SharingStep DEF IInv, Sharing

LEMMA Invariance == Spec => []IInv
BY InitIInv, NextIInv, PTL DEF Spec

\* Every variable of __init__.py's setups and unloads keeps its type: in particular
\* the bus log never holds more than its capacity, which is a configured limit.
THEOREM TypeCorrect == Spec => []TypeOK
<1>1. IInv => TypeOK
  BY DEF IInv
<1>2. QED
  BY <1>1, Invariance, PTL

\* The owners of the shared collector are the entries that hold it, through every
\* interleaving of setups, refused topics, failed platforms and unloads.
THEOREM OwnersAreKept == Spec => []OwnersHold
<1>1. IInv => OwnersHold
  BY OwnersAreHolders DEF IInv, OwnersHold
<1>2. QED
  BY <1>1, Invariance, PTL

\* Outside the lock the collector is complete while it has owners, with the capacity
\* of the largest of them, and gone otherwise.
THEOREM CollectorIsShared == Spec => []CollectorShared
<1>1. IInv => CollectorShared
  BY OwnersAreHolders DEF IInv, CollectorInv, CollectorShared
<1>2. QED
  BY <1>1, Invariance, PTL

\* No two entries manage the global Discovery namespace.
THEOREM ManagerIsSole == Spec => []SoleManager
<1>1. IInv => SoleManager
  BY DEF IInv, TypeOK, ManagerInv, ControlsInv, SoleManager
<1>2. QED
  BY <1>1, Invariance, PTL

\* A loaded entry, or one that failed to unload, keeps its recovery controls whatever
\* other entries do.
THEOREM ControlsStayInReach == Spec => []ControlsInReach
<1>1. IInv => ControlsInReach
  BY DEF IInv, ControlsInv, ControlsInReach
<1>2. QED
  BY <1>1, Invariance, PTL
=============================================================================
