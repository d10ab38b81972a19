-------------------------------- MODULE Census --------------------------------
(***************************************************************************)
(* The census of config_flow.py: an options flow puts the gateway's PIC     *)
(* into a learning mode, polls its table, and has to take it out again, by  *)
(* the user's choice, by an error path or by the cleanup task of 600 s.     *)
(* Several browser flows may be open; each has flags of its own, and they    *)
(* share the gateway.  A user may leave a form for ever, without a sign.    *)
(***************************************************************************)
EXTENDS Naturals

CONSTANTS
  Flows,
  Polls,   \* queries of one _poll_census (10 in the code)
  Tables,  \* how long a list the gateway's devices may make at first: see Snapshot
  Faults   \* what may go wrong: see Outcomes, SnapshotAnswered and TimerFires

ASSUME PollAssumption == Polls \in Nat \ {0}
ASSUME TableAssumption == Tables \subseteq {"small", "large"}
ASSUME FaultAssumption == Faults \subseteq {"refused", "lost", "waiting", "overlap"}

VARIABLES
  firmware,  \* gateway: "normal", "prepared" or "learning"
  at,        \* the form the flow shows, or the call it waits for
  resume,    \* where the flow goes on after the stop it waits for
  polled,    \* queries so far of the poll it is in
  active,    \* _census_active
  timer,     \* _census_cleanup_task: "off", "armed", "stopping"
  trouble,   \* a call failed or came too early, or the cleanup task met a call
  table,     \* gateway: the user's devices in its table, in Tables, or "empty"
  pending,   \* snapshot in _pending, or "none"
  saved,     \* last_device_snapshot in the options, or "none"
  destroyed  \* history: the table that the last clear destroyed

flow == <<at, resume, polled, active, timer>>
devices == <<table, pending, destroyed>>
vars == <<firmware, flow, trouble, devices, saved>>

Forms == {"menu", "prepare form", "start form", "review", "manual form",
          "recovery", "done"}
Calls == {"prepare", "identify", "snapshot", "clear", "prepare cleared", "start", "poll",
          "stop", "manual", "accept", "resend"}

Init ==
  /\ firmware = "normal" /\ trouble = FALSE
  /\ at = [f \in Flows |-> "menu"]
  /\ resume = [f \in Flows |-> "menu"]
  /\ polled = [f \in Flows |-> 0]
  /\ active = [f \in Flows |-> FALSE]
  /\ timer = [f \in Flows |-> "off"]
  /\ table \in Tables /\ saved = "none" /\ destroyed = "none"
  /\ pending = [f \in Flows |-> "none"]

Set(var, f, value) == [var EXCEPT ![f] = value]

\* A call succeeds; or it fails and the gateway has not, or has, obeyed it.
Outcomes == {"ok"} \cup (Faults \cap {"refused", "lost"})

\* The gateway's side of a call that asks it for the mode m.
Gateway(m, outcome) ==
  /\ firmware' = IF outcome = "refused" THEN firmware ELSE m
  /\ trouble' = (trouble \/ outcome # "ok")

-----------------------------------------------------------------------------
(* _stop_census_best_effort.                                                *)

\* Without an active census there is no call, and the cleanup task is cancelled.
BeginStop(f, next, a) ==
  IF a
  THEN /\ at' = Set(at, f, "stop") /\ resume' = Set(resume, f, next)
       /\ active' = Set(active, f, TRUE)
       /\ UNCHANGED timer
  ELSE /\ at' = Set(at, f, next) /\ active' = Set(active, f, FALSE)
       /\ timer' = Set(timer, f, "off")
       /\ UNCHANGED resume

\* Whatever the answer, the cleanup task is cancelled.
StopAnswered(f) ==
  /\ at[f] = "stop"
  /\ \E o \in Outcomes :
       /\ Gateway("normal", o)
       /\ active' = Set(active, f, active[f] /\ o # "ok")
       /\ at' = Set(at, f, IF o = "ok" THEN resume[f] ELSE "recovery")
  /\ timer' = Set(timer, f, "off") /\ resume' = Set(resume, f, "menu")
  /\ UNCHANGED polled

-----------------------------------------------------------------------------
(* The forms the user submits and the calls they make.                      *)

SubmitPrepare(f) ==
  /\ at[f] \in {"menu", "prepare form"}
  /\ at' = Set(at, f, IF active[f] THEN "recovery" ELSE "prepare")
  /\ UNCHANGED <<firmware, resume, polled, active, timer, trouble>>

\* Seeded fault: nobody watches over the census.
PreparedUnwatched(f, form) ==
  \E o \in Outcomes :
    /\ Gateway("prepared", o)
    /\ IF o = "ok"
       THEN active' = Set(active, f, TRUE) /\ at' = Set(at, f, "start form")
       ELSE at' = Set(at, f, form) /\ UNCHANGED active
    /\ UNCHANGED <<resume, polled, timer>>

\* The census is active, and its cleanup task armed, once the gateway agreed.
Prepared(f, form) ==
  \E o \in Outcomes :
    /\ Gateway("prepared", o)
    /\ IF o = "ok"
       THEN /\ active' = Set(active, f, TRUE) /\ timer' = Set(timer, f, "armed")
            /\ at' = Set(at, f, "start form")
       ELSE at' = Set(at, f, form) /\ UNCHANGED <<active, timer>>
    /\ UNCHANGED <<resume, polled>>

PrepareAnswered(f) == at[f] = "prepare" /\ Prepared(f, "prepare form")

SubmitStart(f) ==
  /\ at[f] = "start form"
  /\ at' = Set(at, f, IF active[f] THEN "start" ELSE "prepare form")
  /\ UNCHANGED <<firmware, resume, polled, active, timer, trouble>>

StartAnswered(f) ==
  /\ at[f] = "start"
  /\ \E o \in Outcomes :
       /\ Gateway("learning", o)
       /\ IF o = "ok"
          THEN at' = Set(at, f, "poll") /\ UNCHANGED <<resume, active, timer>>
          ELSE BeginStop(f, "prepare form", active[f])
  /\ UNCHANGED polled

\* Seeded fault: one query too many.
PollTooOften(f) ==
  /\ at[f] = "poll"
  /\ \/ /\ at' = Set(at, f, "review") /\ polled' = Set(polled, f, 0)
        /\ UNCHANGED <<resume, active, timer>>
     \/ /\ polled[f] < Polls
        /\ polled' = Set(polled, f, polled[f] + 1)
        /\ UNCHANGED <<at, resume, active, timer>>
     \/ /\ polled[f] = Polls
        /\ polled' = Set(polled, f, 0)
        /\ BeginStop(f, "prepare form", active[f])
  /\ UNCHANGED <<firmware, trouble>>

\* The table is complete, not complete yet, or the query fails.  After the last
\* query, or an error, the census is stopped.
PollAnswered(f) ==
  /\ at[f] = "poll"
  /\ \/ /\ at' = Set(at, f, "review") /\ polled' = Set(polled, f, 0)
        /\ UNCHANGED <<resume, active, timer, trouble>>
     \/ /\ polled[f] + 1 < Polls
        /\ polled' = Set(polled, f, polled[f] + 1)
        /\ UNCHANGED <<at, resume, active, timer, trouble>>
     \/ /\ polled[f] + 1 = Polls
        /\ polled' = Set(polled, f, 0)
        /\ BeginStop(f, "prepare form", active[f])
        /\ UNCHANGED trouble
     \/ /\ Outcomes # {"ok"}
        /\ polled' = Set(polled, f, 0)
        /\ BeginStop(f, "prepare form", active[f])
        /\ trouble' = TRUE
  /\ UNCHANGED firmware

ScanAgain(f) ==
  /\ at[f] = "review"
  /\ BeginStop(f, "prepare", active[f])
  /\ UNCHANGED <<firmware, polled, trouble>>

AddManual(f) ==
  /\ at[f] = "review"
  /\ BeginStop(f, "manual form", active[f])
  /\ UNCHANGED <<firmware, polled, trouble>>

SubmitManual(f) ==
  /\ at[f] = "manual form"
  /\ at' = Set(at, f, "manual")
  /\ UNCHANGED <<firmware, resume, polled, active, timer, trouble>>

\* The device is written and the table read again.
ManualAnswered(f) ==
  /\ at[f] = "manual"
  /\ \E o \in Outcomes :
       /\ at' = Set(at, f, IF o = "ok" THEN "review" ELSE "manual form")
       /\ trouble' = (trouble \/ o # "ok")
  /\ UNCHANGED <<firmware, resume, polled, active, timer>>

Accept(f) ==
  /\ at[f] = "review"
  /\ at' = Set(at, f, "accept")
  /\ UNCHANGED <<firmware, resume, polled, active, timer, trouble>>

\* Seeded fault: the census is accepted and the gateway left in it.
AcceptWithoutStop(f) ==
  /\ at[f] = "accept"
  /\ active' = Set(active, f, FALSE)
  /\ at' = Set(at, f, "resend")
  /\ UNCHANGED <<firmware, resume, polled, timer, trouble>>

\* Seeded fault: the census is stopped if the flow believes that it is active.
AcceptIfActive(f) ==
  /\ at[f] = "accept"
  /\ BeginStop(f, "resend", active[f])
  /\ UNCHANGED <<firmware, polled, trouble>>

\* census_stop stops whether or not the flow believes a census is active.
AcceptAnswered(f) ==
  /\ at[f] = "accept"
  /\ \E o \in Outcomes :
       /\ Gateway("normal", o)
       /\ IF o = "ok"
          THEN /\ active' = Set(active, f, FALSE) /\ at' = Set(at, f, "resend")
               /\ UNCHANGED <<resume, timer>>
          ELSE BeginStop(f, "recovery", active[f])
  /\ UNCHANGED polled

\* The resend and the device manager's synchronization.  What the step does not
\* catch leaves the review on the screen.
ResendAnswered(f) ==
  /\ at[f] = "resend"
  /\ \/ \E o \in Outcomes :
          /\ BeginStop(f, IF o = "ok" THEN "done" ELSE "recovery", active[f])
          /\ trouble' = (trouble \/ o # "ok")
     \/ /\ Outcomes # {"ok"}
        /\ at' = Set(at, f, "review") /\ trouble' = TRUE
        /\ UNCHANGED <<resume, active, timer>>
  /\ UNCHANGED <<firmware, polled>>

\* census_recovery_stop takes any census, of whatever flow, for its own.
SubmitRecovery(f) ==
  /\ at[f] \in {"menu", "recovery"}
  /\ BeginStop(f, "done", TRUE)
  /\ UNCHANGED <<firmware, polled, trouble>>

-----------------------------------------------------------------------------
(* The danger zone: it asks nothing of the flag, and a call that fails leaves  *)
(* its form on the screen.                                                   *)

SubmitClear(f) ==
  /\ at[f] = "menu"
  /\ at' = Set(at, f, "identify")
  /\ UNCHANGED <<firmware, resume, polled, active, timer, trouble, devices>>

\* The status has the identifier that the confirmation has to name.
Identified(f) ==
  /\ at[f] = "identify"
  /\ \E o \in Outcomes, named \in BOOLEAN :
       /\ at' = Set(at, f, IF o = "ok" /\ named THEN "snapshot" ELSE "menu")
       /\ trouble' = (trouble \/ o # "ok")
  /\ UNCHANGED <<firmware, resume, polled, active, timer, devices>>

\* str(devices)[:4096]: a large table is one whose text does not fit.
Snapshot(t) == IF t = "large" THEN "cut" ELSE t

\* The table as the query finds it; a "waiting query" page passes for an empty one.
SnapshotAnswered(f) ==
  /\ at[f] = "snapshot"
  /\ \E o \in Outcomes \cup (Faults \cap {"waiting"}) :
       /\ trouble' = (trouble \/ o # "ok")
       /\ at' = Set(at, f, IF o \in {"ok", "waiting"} THEN "clear" ELSE "menu")
       /\ pending' = CASE o = "ok"      -> Set(pending, f, Snapshot(table))
                      [] o = "waiting" -> Set(pending, f, "empty")
                      [] OTHER         -> pending
  /\ UNCHANGED <<firmware, resume, polled, active, timer, table, destroyed>>

ClearAnswered(f) ==
  /\ at[f] = "clear"
  /\ \E o \in Outcomes :
       /\ table' = IF o = "refused" THEN table ELSE "empty"
       /\ destroyed' = IF o = "refused" THEN destroyed ELSE table
       /\ trouble' = (trouble \/ o # "ok")
       /\ at' = Set(at, f, IF o = "ok" THEN "prepare cleared" ELSE "menu")
  /\ UNCHANGED <<firmware, resume, polled, active, timer, pending>>

ClearedPrepared(f) ==
  at[f] = "prepare cleared" /\ Prepared(f, "menu") /\ UNCHANGED devices

\* Another options dialog, with nothing pending.
Reopen(f) ==
  /\ at[f] = "done"
  /\ at' = Set(at, f, "menu")
  /\ pending' = Set(pending, f, "none")
  /\ UNCHANGED <<firmware, resume, polled, active, timer, trouble, table, destroyed>>

-----------------------------------------------------------------------------
(* _async_census_timeout_cleanup.                                           *)

\* 600 s have passed.  That a call is under way just then is rare, not excluded.
TimerFires(f) ==
  /\ timer[f] = "armed"
  /\ at[f] \in Calls => "overlap" \in Faults
  /\ timer' = Set(timer, f, IF active[f] THEN "stopping" ELSE "off")
  /\ trouble' = (trouble \/ at[f] \in Calls)
  /\ UNCHANGED <<firmware, at, resume, polled, active>>

\* The task is over, with or without success.
TimerAnswered(f) ==
  /\ timer[f] = "stopping"
  /\ \E o \in Outcomes :
       /\ firmware' = IF o = "refused" THEN firmware ELSE "normal"
       /\ trouble' = (trouble \/ o # "ok" \/ at[f] \in Calls)
       /\ active' = Set(active, f, active[f] /\ o # "ok")
  /\ timer' = Set(timer, f, "off")
  /\ UNCHANGED <<at, resume, polled>>

-----------------------------------------------------------------------------
\* Seeded fault: what the flow keeps for the end is not saved.
_finish_without_pending(f) == UNCHANGED saved

\* A flow that ends saves its pending options with the others.
_finish(f) ==
  saved' = IF at'[f] = "done" /\ at[f] # "done" /\ pending[f] # "none"
           THEN pending[f] ELSE saved

User(f) ==
  /\ \/ UNCHANGED devices /\ (\/ SubmitPrepare(f) \/ SubmitStart(f) \/ ScanAgain(f)
                              \/ AddManual(f) \/ SubmitManual(f) \/ Accept(f)
                              \/ SubmitRecovery(f))
     \/ SubmitClear(f) \/ Reopen(f)
  /\ _finish(f)

Answer(f) ==
  /\ \/ UNCHANGED devices /\ (\/ PrepareAnswered(f) \/ StartAnswered(f)
                              \/ PollAnswered(f) \/ StopAnswered(f)
                              \/ ManualAnswered(f) \/ AcceptAnswered(f)
                              \/ ResendAnswered(f))
     \/ Identified(f) \/ SnapshotAnswered(f) \/ ClearAnswered(f) \/ ClearedPrepared(f)
  /\ _finish(f)

Cleanup(f) == (TimerFires(f) \/ TimerAnswered(f)) /\ UNCHANGED <<devices, saved>>

Next == \E f \in Flows : User(f) \/ Answer(f) \/ Cleanup(f)

Spec == Init /\ [][Next]_vars

(***************************************************************************)
(* Calls are answered or time out, and a cleanup task that is not cancelled *)
(* gets its turn.  Users owe nothing.                                       *)
(***************************************************************************)
Fairness ==
  \A f \in Flows : WF_vars(Answer(f)) /\ SF_vars(Cleanup(f))

FairSpec == Spec /\ Fairness

-----------------------------------------------------------------------------
(* Properties.                                                              *)

\* Every variable keeps its type.
TypeOK ==
  /\ firmware \in {"normal", "prepared", "learning"}
  /\ at \in [Flows -> Forms \cup Calls]
  /\ resume \in [Flows -> Forms \cup {"prepare"}]
  /\ polled \in [Flows -> 0..(Polls - 1)]
  /\ active \in [Flows -> BOOLEAN]
  /\ timer \in [Flows -> {"off", "armed", "stopping"}]
  /\ trouble \in BOOLEAN
  /\ table \in Tables \cup {"empty"}
  /\ pending \in [Flows -> {"none", "small", "cut", "empty"}]
  /\ saved \in {"none", "small", "cut", "empty"}
  /\ destroyed \in Tables \cup {"none", "empty"}

\* While every call succeeds, a gateway in census mode is the business of a flow
\* that knows it and that a cleanup task watches over, even if flows stop or finish
\* each other's census.
CensusIsWatched ==
  ~trouble /\ firmware # "normal" =>
    \E f \in Flows : active[f] /\ timer[f] # "off"

\* When every flow has ended, the gateway is out of the census, whatever answers were
\* lost, whoever stopped whose census and whenever the cleanup tasks came: no flow
\* ends because it believes that there is no census.
DoneMeansNormal == (\A f \in Flows : at[f] = "done") => firmware = "normal"

\* While no call fails, the snapshot of the devices that a clear destroyed (their
\* whole list, or its first 4096 characters) is saved or in the memory of a flow that
\* will save it, until a later clear: however the census goes on from there, and
\* although other flows clear and finish in between.  The devices past the cut are
\* nowhere: that is Snapshot.
SnapshotKept ==
  ~trouble /\ destroyed \in Tables =>
    \/ saved = Snapshot(destroyed)
    \/ \E f \in Flows : pending[f] = Snapshot(destroyed) /\ at[f] # "done"

\* A gateway does not stay in census mode if no call fails, whatever forms are
\* abandoned.
CensusEnds == <>[]trouble \/ []<>(firmware = "normal")

\* config_flow.py, _schedule_census_cleanup: "Ensure abandoned browser flows
\* eventually restore firmware state."  Once every flow rests on a form for ever,
\* the gateway leaves the census.
AbandonedRestored ==
  <>[](\A f \in Flows : at[f] \in Forms) => []<>(firmware = "normal")
=============================================================================
