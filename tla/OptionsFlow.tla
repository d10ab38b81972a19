------------------------------ MODULE OptionsFlow ------------------------------
(***************************************************************************)
(* The options of an entry: the dialogs of config_flow.py that change them  *)
(* or only call the gateway, and the reload by which __init__.py makes them *)
(* effective.  Several browser dialogs are open at once, each suspended in  *)
(* its requests, while the entry reloads under them.                        *)
(*                                                                         *)
(* Of the options are kept one that set-up reads before its first refresh   *)
(* (protocol_debug), one that it reads after it (the Discovery manager),    *)
(* the type overrides of the device dialog, and the flag that set-up itself *)
(* writes.  Of set-up, unload and the manager only what reads and writes    *)
(* these: EntryLifecycle, DeviceManager and Census have the rest.           *)
(***************************************************************************)
EXTENDS GatewayClient

CONSTANTS
  Flows,           \* dialogs that may be open
  Coordinator,     \* the entry's set-up and periodic refresh
  Tasks,           \* cleanup tasks of the dialogs' censuses
  Buses,           \* bus ids that a device dialog saves
  Modes,           \* type1_mode: how a device of type 1 is shown
  NoMode,          \* no override; in a form, a device of another type
  MaxSubmissions,  \* bound: forms submitted
  MaxPolls,        \* bound: requests of the coordinator's timer and of the tasks
  MaxFaults        \* bound: requests that fail

ASSUME FlowAssumption ==
  /\ Flows \cap Tasks = {} /\ Coordinator \notin Flows \cup Tasks
  /\ Callers = Flows \cup Tasks \cup {Coordinator}
ASSUME ModeAssumption == NoMode \notin Modes /\ Buses # {}
ASSUME BoundAssumption == {MaxSubmissions, MaxPolls, MaxFaults} \subseteq Nat

VARIABLES
  options,      \* entry.options
  running,      \* the options that the runtime was built with; manager's overrides
  phase,        \* of the entry: "up", "unload", "refresh", "forward", "retry"
  reloads,      \* reloads that wait for the entry's setup lock
  at,           \* the request that each caller waits for
  form,         \* what the user submitted to a flow's device dialog
  read,         \* the overrides that the flow has read from the options
  submissions, polls, faults,
  missed,       \* history: options changed after set-up had read them, unheard
  stray,        \* history: flows whose unsaved overrides the manager has
  intended,     \* history: what users saved, one by one
  overlapped    \* history: overrides were saved while another dialog held some

dialogs == <<at, form, read>>
bounds  == <<submissions, polls, faults>>
history == <<missed, stray, intended, overlapped>>
vars    == <<client, options, running, phase, reloads, dialogs, bounds, history>>

None  == [b \in Buses |-> NoMode]
Forms == [bus : Buses, mode : Modes \cup {NoMode}, resend : BOOLEAN]
Blank == CHOOSE x \in Forms : TRUE

Init ==
  /\ ClientInit(FALSE, Coordinator)
  /\ options = [overrides |-> None, debug |-> FALSE, managed |-> TRUE, migrated |-> FALSE]
  /\ running = [overrides |-> None, debug |-> FALSE, managed |-> FALSE]
  /\ phase = "refresh" /\ reloads = 0
  /\ at = [c \in Callers |-> IF c = Coordinator THEN "first" ELSE "idle"]
  /\ form = [f \in Flows |-> Blank] /\ read = [f \in Flows |-> None]
  /\ submissions = 0 /\ polls = 0 /\ faults = 0
  /\ missed = FALSE /\ stray = {} /\ overlapped = FALSE
  /\ intended = [overrides |-> None, debug |-> FALSE, managed |-> TRUE]

-----------------------------------------------------------------------------
(* The entry, its options and its listener.                                 *)

\* hass.data has the entry's runtime, and with it the client of this set-up.
HasRuntime == phase \in {"up", "unload", "forward"}

\* The update listener is registered by the last statement of set-up, and taken away
\* when the unload has succeeded.
Listening == phase \in {"up", "unload"}

\* Set-up has read the options that o changes, and nobody listens.
Unheard(o) == phase = "forward" \/ (phase = "refresh" /\ o.debug # options.debug)


\* Home Assistant stores the options and calls the listener when they changed.
Update(o) ==
  /\ options' = o
  /\ reloads' = reloads + One(o # options /\ Listening)
  /\ missed'  = (missed \/ (o # options /\ Unheard(o)))

\* _async_update_listener: the reload begins under the entry's lock.
BeginReload ==
  /\ phase = "up" /\ reloads > 0
  /\ phase' = "unload" /\ reloads' = reloads - 1
  /\ UNCHANGED <<client, options, running, dialogs, bounds, history>>

\* Set-up: client and coordinator are made of the options of the moment, and the
\* coordinator refreshes.
SetUp ==
  /\ Connect(options.debug, Coordinator)
  /\ running' = [running EXCEPT !.debug = options.debug, !.managed = FALSE]
  /\ phase' = "refresh" /\ missed' = FALSE /\ stray' = {}
  /\ at' = [at EXCEPT ![Coordinator] = "first"]
  /\ UNCHANGED <<options, form, read, bounds, intended, overlapped>>

\* A refresh that the old coordinator had in flight is of no consequence.
Unloaded == phase = "unload" /\ SetUp /\ UNCHANGED reloads

\* A failed set-up is tried again by Home Assistant's timer or by a reload.
Retry ==
  /\ phase = "retry"
  /\ SetUp
  /\ reloads' = IF reloads > 0 THEN reloads - 1 ELSE 0

\* Every failure is one of MaxFaults; a cancellation is none.
Fault(outcome) ==
  /\ faults' = faults + One(outcome \notin {"ok", "cancelled"})
  /\ faults' <= MaxFaults
  /\ UNCHANGED <<submissions, polls>>

\* Seeded fault: the manager is given the overrides that the entry had before.
BuildStale ==
  running' = [running EXCEPT !.managed = options.managed]

\* The manager, if any, is made of the options after the refresh.
Build ==
  running' = [running EXCEPT !.managed = options.managed, !.overrides = options.overrides]

FirstRefreshed ==
  /\ at[Coordinator] = "first"
  /\ \E outcome \in Parsed :
       /\ Fault(outcome)
       /\ Ended(Coordinator, outcome, FALSE)
       /\ IF outcome = "ok"
          THEN Build /\ phase' = "forward"
          ELSE UNCHANGED running /\ phase' = "retry"
  /\ at' = [at EXCEPT ![Coordinator] = "idle"]
  /\ UNCHANGED <<options, reloads, form, read, history>>

\* The platforms are there, and the manager synchronizes.
PlatformsForwarded ==
  /\ phase = "forward" /\ at[Coordinator] = "idle"
  /\ IF running.managed
     THEN /\ Send(Coordinator)
          /\ at' = [at EXCEPT ![Coordinator] = "start"]
          /\ UNCHANGED phase
     ELSE phase' = "up" /\ UNCHANGED <<client, at>>
  /\ UNCHANGED <<options, running, reloads, form, read, bounds, history>>

\* The first start of a manager marks the migration in the options; a failed one is
\* only logged.  Then the listener is registered.
ManagerStarted ==
  /\ at[Coordinator] = "start"
  /\ \E outcome \in Parsed :
       /\ Fault(outcome)
       /\ Ended(Coordinator, outcome, FALSE)
       /\ options' = [options EXCEPT !.migrated = @ \/ outcome = "ok"]
  /\ phase' = "up"
  /\ at' = [at EXCEPT ![Coordinator] = "idle"]
  /\ UNCHANGED <<running, reloads, form, read, history>>

Poll ==
  /\ phase \in {"up", "unload"} /\ at[Coordinator] = "idle" /\ polls < MaxPolls
  /\ polls' = polls + 1
  /\ Send(Coordinator)
  /\ at' = [at EXCEPT ![Coordinator] = "poll"]
  /\ UNCHANGED <<options, running, phase, reloads, form, read, submissions, faults,
                 history>>

Polled ==
  /\ at[Coordinator] = "poll"
  /\ \E outcome \in Parsed :
       Fault(outcome) /\ Ended(Coordinator, outcome, FALSE)
  /\ at' = [at EXCEPT ![Coordinator] = "idle"]
  /\ UNCHANGED <<options, running, phase, reloads, form, read, history>>

-----------------------------------------------------------------------------
(* The dialogs.                                                             *)

Submit(f) ==
  /\ at[f] = "idle" /\ submissions < MaxSubmissions
  /\ submissions' = submissions + 1
  /\ UNCHANGED <<polls, faults>>

\* A flow uses the runtime's client; without one it makes another, for this call.
Request(f) == IF HasRuntime THEN Send(f) ELSE UNCHANGED client

\* Seeded fault: what was submitted is kept for the next form.
LeaveWithForm(f) ==
  at' = [at EXCEPT ![f] = "idle"] /\ UNCHANGED <<form, read>>

\* The form is shown again, or the flow has ended.
Leave(f) ==
  /\ at'   = [at EXCEPT ![f] = "idle"]
  /\ form' = [form EXCEPT ![f] = Blank]
  /\ read' = [read EXCEPT ![f] = None]

\* Seeded fault: the other options are those that the entry runs with.
_finish_as_built(overrides) ==
  Update([options EXCEPT !.overrides = overrides,
                         !.debug = running.debug, !.managed = running.managed])

\* _finish: the options of the moment, and on top of them what the flow has to say.
_finish(overrides) == Update([options EXCEPT !.overrides = overrides])

Edited(overrides, x) ==
  IF x.mode = NoMode THEN overrides ELSE [overrides EXCEPT ![x.bus] = x.mode]

\* The last statement of a device dialog.
Save(f, base) ==
  /\ _finish(Edited(base, form[f]))
  /\ intended' = [intended EXCEPT !.overrides = Edited(@, form[f])]
  /\ overlapped' = (overlapped \/ \E g \in Flows \ {f} : at[g] = "sync")
  /\ Leave(f)

\* async_step_device_add and async_step_device_edit.
BeginSave(f) ==
  /\ Submit(f)
  /\ \E x \in Forms : form' = [form EXCEPT ![f] = x]
  /\ Request(f)
  /\ at' = [at EXCEPT ![f] = "update"]
  /\ UNCHANGED <<options, running, phase, reloads, read, history>>

\* Seeded fault: the overrides are those that the manager was built with.
BaseOfManager == running.overrides

\* The overrides that a device dialog starts from.
Base == options.overrides

\* The gateway has the device.  A manager is told and synchronizes before the
\* options are saved; without one they are saved at once.
Stored(f, outcome) ==
  IF HasRuntime /\ running.managed
  THEN /\ running' = [running EXCEPT !.overrides = Edited(Base, form[f])]
       /\ stray' = stray \cup {f}
       /\ read' = [read EXCEPT ![f] = Base]
       /\ at' = [at EXCEPT ![f] = "sync"]
       /\ Ended(f, outcome, TRUE)
       /\ UNCHANGED <<options, reloads, form, missed, intended, overlapped>>
  ELSE /\ Save(f, Base)
       /\ Ended(f, outcome, FALSE)
       /\ UNCHANGED <<running, stray>>

\* A failure shows the form again, or leaves it on the screen with an error.
Failed(f, outcome) ==
  /\ outcome # "ok"
  /\ Leave(f)
  /\ Ended(f, outcome, FALSE)
  /\ UNCHANGED <<options, running, reloads, history>>

Updated(f) ==
  /\ at[f] = "update"
  /\ \E outcome \in Text :
       /\ Fault(outcome)
       /\ \/ Failed(f, outcome)
          \/ outcome = "ok" /\ ~form[f].resend /\ Stored(f, outcome)
          \/ /\ outcome = "ok" /\ form[f].resend
             /\ Ended(f, outcome, HasRuntime)
             /\ at' = [at EXCEPT ![f] = "resend"]
             /\ UNCHANGED <<options, running, reloads, form, read, history>>
  /\ UNCHANGED phase

Resent(f) ==
  /\ at[f] = "resend"
  /\ \E outcome \in Parsed :
       /\ Fault(outcome)
       /\ Failed(f, outcome) \/ (outcome = "ok" /\ Stored(f, outcome))
  /\ UNCHANGED phase

\* Seeded fault: an answer to a client that was replaced in the meantime is dropped.
SyncedInTime(f) ==
  /\ at[f] = "sync" /\ f \in flying
  /\ \E outcome \in Parsed :
       /\ Fault(outcome)
       /\ \/ Failed(f, outcome)
          \/ /\ outcome = "ok"
             /\ Save(f, read[f])
             /\ stray' = stray \ {f}
             /\ Ended(f, outcome, FALSE)
             /\ UNCHANGED running
  /\ UNCHANGED phase

\* The synchronization ends, be it that of a manager which a reload has replaced.
Synced(f) ==
  /\ at[f] = "sync"
  /\ \E outcome \in Parsed :
       /\ Fault(outcome)
       /\ \/ Failed(f, outcome)
          \/ /\ outcome = "ok"
             /\ Save(f, read[f])
             /\ stray' = stray \ {f}
             /\ Ended(f, outcome, FALSE)
             /\ UNCHANGED running
  /\ UNCHANGED phase

\* async_step_advanced saves without a call.
Advanced(f) ==
  /\ Submit(f)
  /\ \E debug \in BOOLEAN, managed \in BOOLEAN :
       /\ Update([options EXCEPT !.debug = debug, !.managed = managed])
       /\ intended' = [intended EXCEPT !.debug = debug, !.managed = managed]
  /\ UNCHANGED <<client, running, phase, dialogs, stray, overlapped>>

\* The forms that call the gateway and save nothing of their own.  The confirmed
\* ones first ask who it is, and ask again when the phrase is of another.
BeginCall(f) ==
  /\ Submit(f)
  /\ Request(f)
  /\ \E place \in {"identify", "call"} : at' = [at EXCEPT ![f] = place]
  /\ UNCHANGED <<options, running, phase, reloads, form, read, history>>

Identified(f) ==
  /\ at[f] = "identify"
  /\ \E outcome \in Parsed :
       /\ Fault(outcome)
       /\ \/ Failed(f, outcome)
          \/ /\ outcome = "ok"
             /\ \/ Leave(f) /\ Ended(f, outcome, FALSE)
                \/ /\ at' = [at EXCEPT ![f] = "call"]
                   /\ Ended(f, outcome, HasRuntime)
                   /\ UNCHANGED <<form, read>>
             /\ UNCHANGED <<options, running, reloads, history>>
  /\ UNCHANGED phase

Called(f) ==
  /\ at[f] = "call"
  /\ \E outcome \in Parsed :
       /\ Fault(outcome)
       /\ \/ Failed(f, outcome)
          \/ /\ outcome = "ok"
             /\ _finish(options.overrides)
             /\ Leave(f) /\ Ended(f, outcome, FALSE)
             /\ UNCHANGED <<running, stray, intended, overlapped>>
  /\ UNCHANGED phase

\* A cleanup task has slept, and stops its census.
TaskWakes(t) ==
  /\ at[t] = "idle" /\ polls < MaxPolls
  /\ polls' = polls + 1
  /\ Request(t)
  /\ at' = [at EXCEPT ![t] = "stop"]
  /\ UNCHANGED <<options, running, phase, reloads, form, read, submissions, faults,
                 history>>

\* The task is over, of itself or because its dialog cancels it: a census that is
\* stopped or prepared anew does.  When that is, Census says.
TaskEnds(t) ==
  /\ at[t] = "stop"
  /\ \E outcome \in Outcomes \ {"unparsed"} :
       Fault(outcome) /\ Ended(t, outcome, FALSE)
  /\ at' = [at EXCEPT ![t] = "idle"]
  /\ UNCHANGED <<options, running, phase, reloads, form, read, history>>

Answered(f) == Updated(f) \/ Resent(f) \/ Synced(f) \/ Identified(f) \/ Called(f)
Begun(f)    == BeginSave(f) \/ Advanced(f) \/ BeginCall(f)
Entry       == BeginReload \/ Unloaded \/ Retry \/ FirstRefreshed
                 \/ PlatformsForwarded \/ ManagerStarted \/ Polled

Next ==
  \/ Entry \/ Poll
  \/ \E f \in Flows : Begun(f) \/ Answered(f)
  \/ \E t \in Tasks : TaskWakes(t) \/ TaskEnds(t)

\* Every request ends, by its timeout at the latest, and Home Assistant runs the
\* reloads that wait and retries a set-up; nobody has to submit a form.
Fairness == WF_vars(Entry) /\ \A f \in Flows : WF_vars(Answered(f))

Spec == Init /\ [][Next]_vars /\ Fairness

-----------------------------------------------------------------------------
(* Properties.                                                              *)

Settings == [overrides : [Buses -> Modes \cup {NoMode}], debug : BOOLEAN, managed : BOOLEAN]

\* Every variable keeps its type; only a device dialog that waits has a form, and only
\* one whose manager synchronizes holds overrides.
TypeOK ==
  /\ ClientTypeOK
  /\ options \in [overrides : [Buses -> Modes \cup {NoMode}], debug : BOOLEAN,
                  managed : BOOLEAN, migrated : BOOLEAN]
  /\ {running, intended} \subseteq Settings
  /\ phase \in {"up", "unload", "refresh", "forward", "retry"}
  /\ {reloads, submissions, polls, faults} \subseteq Nat
  /\ at[Coordinator] \in {"idle", "first", "start", "poll"}
  /\ \A t \in Tasks : at[t] \in {"idle", "stop"}
  /\ \A f \in Flows :
       /\ at[f] \in {"idle", "update", "resend", "sync", "identify", "call"}
       /\ form[f] \in Forms
       /\ at[f] \in {"idle", "identify", "call"} => form[f] = Blank
       /\ at[f] # "sync" => read[f] = None
  /\ {missed, overlapped} \subseteq BOOLEAN /\ stray \subseteq Flows

\* What the advanced dialog saved stays, whatever the other dialogs and set-up write
\* and however old the entry is on which they were opened.
SettingsStay ==
  options.debug = intended.debug /\ options.managed = intended.managed

\* What users saved of the overrides is exactly what is stored, unless one dialog saved
\* while the manager of another one was synchronizing with what that one had read.
LostByOverlapOnly == overlapped \/ options.overrides = intended.overrides

\* Every override that a user saved stays (what the docstring of _finish promises).
OverridesStay == options.overrides = intended.overrides

\* An entry that is set up, with no reload to come, runs what is saved, except for what
\* was saved between set-up's reading and its listening, and for overrides whose
\* dialog has not got to saving them.
RunsWhatIsSaved ==
  phase = "up" /\ reloads = 0 /\ ~missed /\ stray = {} =>
    /\ running.debug = options.debug /\ running.managed = options.managed
    /\ running.managed => running.overrides = options.overrides

\* A request of the current client is a failure, an observed body or still in flight,
\* and nothing is counted twice.  Lost to the counters are cancelled requests and those
\* whose body is no text: they stay in requests_total and are counted nowhere else.
Accounting ==
  IF analyzing
  THEN requests = failures + observed + dropped + Cardinality(flying)
  ELSE observed = 0 /\ requests >= failures + dropped + Cardinality(flying)

SettingsInEffect ==
  phase = "up" /\ running.debug = options.debug /\ running.managed = options.managed

OverridesInEffect ==
  phase = "up" /\ (running.managed => running.overrides = options.overrides)


\* Every submitted form is answered, a reload in the middle of it or not.
SubmissionsEnd == \A f \in Flows : at[f] # "idle" ~> at[f] = "idle"
=============================================================================
