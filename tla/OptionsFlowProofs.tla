--------------------------- MODULE OptionsFlowProofs ---------------------------
(* Theorems about OptionsFlow, for every set of dialogs, of bus ids and of  *)
(* modes, and for any number of submissions, refreshes and failures.        *)
EXTENDS OptionsFlow, FiniteSetTheorems, TLAPS

Overrides == [Buses -> Modes \cup {NoMode}]

(***************************************************************************)
(* The inductive invariant.  Each part is about one property.               *)
(***************************************************************************)
\* What TypeOK says of each caller alone.
ShapeInv ==
  /\ at \in [Callers -> {"idle", "first", "start", "poll", "update", "resend", "sync",
                         "identify", "call", "stop"}]
  /\ form \in [Flows -> Forms] /\ read \in [Flows -> Overrides]

\* A dialog whose manager synchronizes still holds the overrides that are stored, or
\* another one saved in the meantime.
ReadInv ==
  \A f \in Flows : at[f] = "sync" => overlapped \/ read[f] = options.overrides

\* Set-up is where its request is: no answer of an earlier one ends this one.
PhaseInv ==
  /\ at[Coordinator] = "first" => phase = "refresh"
  /\ at[Coordinator] = "start" => phase = "forward"

\* Nothing was saved that set-up had read already and no reload will read again.
Current == ~missed /\ (phase = "forward" \/ (phase = "up" /\ reloads = 0))

\* The manager has the stored overrides, or those of a dialog that has not saved them:
\* of one that gave up, or of the one that synchronizes with them.
RunInv ==
  /\ phase = "refresh" /\ ~missed => running.debug = options.debug
  /\ Current =>
       /\ running.debug = options.debug /\ running.managed = options.managed
       /\ running.managed =>
            \/ running.overrides = options.overrides
            \/ \E f \in stray : at[f] = "sync" =>
                                  running.overrides = Edited(read[f], form[f])

\* A caller with a request in flight on this client waits for it, so that its next
\* request is one more.
FlightInv == IsFiniteSet(flying) /\ \A c \in flying : at[c] # "idle"

IInv == /\ TypeOK /\ ShapeInv /\ SettingsStay /\ LostByOverlapOnly /\ ReadInv
        /\ PhaseInv /\ RunInv /\ FlightInv /\ Accounting
-----------------------------------------------------------------------------
(* The answers, as what they do to a dialog.                                *)

\* The dialog ends, or shows its form again, and nothing is changed.
Closes(f, outcome) ==
  /\ Leave(f) /\ Ended(f, outcome, FALSE)
  /\ UNCHANGED <<options, running, reloads, history>>

\* The dialog sends a second request.
AsksAgain(f, outcome) ==
  /\ \/ at[f] = "update" /\ at' = [at EXCEPT ![f] = "resend"]
     \/ at[f] = "identify" /\ at' = [at EXCEPT ![f] = "call"]
  /\ Ended(f, outcome, HasRuntime)
  /\ UNCHANGED <<options, running, reloads, form, read, history>>

\* The manager is told, and synchronizes.
Holds(f, outcome) ==
  /\ at[f] \in {"update", "resend"} /\ HasRuntime /\ running.managed
  /\ running' = [running EXCEPT !.overrides = Edited(options.overrides, form[f])]
  /\ stray' = stray \cup {f}
  /\ read' = [read EXCEPT ![f] = options.overrides]
  /\ at' = [at EXCEPT ![f] = "sync"]
  /\ Ended(f, outcome, TRUE)
  /\ UNCHANGED <<options, reloads, form, missed, intended, overlapped>>

\* The dialog saves, over what the manager held or over the options of the moment.
Saves(f, outcome, base) ==
  /\ \/ at[f] = "sync" /\ base = read[f] /\ stray' = stray \ {f}
     \/ /\ at[f] \in {"update", "resend"} /\ ~(HasRuntime /\ running.managed)
        /\ base = options.overrides /\ UNCHANGED stray
  /\ Save(f, base) /\ Ended(f, outcome, FALSE)
  /\ UNCHANGED running

\* An answered dialog does one of these.
LEMMA AnswerCases ==
  ASSUME TypeOK, ShapeInv, NEW f \in Flows, Answered(f)
  PROVE  /\ UNCHANGED phase /\ at[f] # "idle"
         /\ \E outcome \in Outcomes :
              /\ Fault(outcome)
              /\ \/ Closes(f, outcome) \/ AsksAgain(f, outcome) \/ Holds(f, outcome)
                 \/ \E base \in Overrides : Saves(f, outcome, base)
<1>1. options.overrides \in Overrides /\ read[f] \in Overrides
  BY DEF TypeOK, ShapeInv, Overrides
<1>2. ASSUME NEW outcome \in Outcomes, Failed(f, outcome) PROVE Closes(f, outcome)
  BY <1>2 DEF Failed, Closes
<1>3. ASSUME NEW outcome \in Outcomes, Stored(f, outcome), at[f] \in {"update", "resend"}
      PROVE  Holds(f, outcome) \/ \E base \in Overrides : Saves(f, outcome, base)
  <2>1. CASE HasRuntime /\ running.managed
    BY <1>3, <2>1 DEF Stored, Holds, Base
  <2>2. CASE ~(HasRuntime /\ running.managed)
    BY <1>1, <1>3, <2>2 DEF Stored, Saves, Base
  <2>3. QED
    BY <2>1, <2>2
<1>4. CASE Updated(f)
  <2>1. UNCHANGED phase /\ at[f] = "update"
    BY <1>4 DEF Updated
  <2>2. PICK outcome \in Outcomes :
          /\ Fault(outcome)
          /\ \/ Failed(f, outcome) \/ Stored(f, outcome)
             \/ /\ Ended(f, outcome, HasRuntime)
                /\ at' = [at EXCEPT ![f] = "resend"]
                /\ UNCHANGED <<options, running, reloads, form, read, history>>
    BY <1>4 DEF Updated, Text, Parsed
  <2>3. \/ Closes(f, outcome) \/ AsksAgain(f, outcome) \/ Holds(f, outcome)
        \/ \E base \in Overrides : Saves(f, outcome, base)
    BY <1>2, <1>3, <2>1, <2>2 DEF AsksAgain
  <2>4. QED
    BY <2>1, <2>2, <2>3
<1>5. CASE Resent(f)
  <2>1. UNCHANGED phase /\ at[f] = "resend"
    BY <1>5 DEF Resent
  <2>2. PICK outcome \in Outcomes :
          Fault(outcome) /\ (Failed(f, outcome) \/ Stored(f, outcome))
    BY <1>5 DEF Resent, Parsed
  <2>3. QED
    BY <1>2, <1>3, <2>1, <2>2
<1>6. CASE Synced(f)
  <2>1. UNCHANGED phase /\ at[f] = "sync"
    BY <1>6 DEF Synced
  <2>2. PICK outcome \in Outcomes :
          /\ Fault(outcome)
          /\ \/ Failed(f, outcome)
             \/ /\ Save(f, read[f]) /\ stray' = stray \ {f}
                /\ Ended(f, outcome, FALSE) /\ UNCHANGED running
    BY <1>6 DEF Synced, Parsed
  <2>3. Closes(f, outcome) \/ Saves(f, outcome, read[f])
    BY <1>2, <2>1, <2>2 DEF Saves
  <2>4. QED
    BY <1>1, <2>1, <2>2, <2>3
<1>7. CASE Identified(f)
  <2>1. UNCHANGED phase /\ at[f] = "identify"
    BY <1>7 DEF Identified
  <2>2. PICK outcome \in Outcomes :
          /\ Fault(outcome)
          /\ \/ Failed(f, outcome)
             \/ /\ \/ Leave(f) /\ Ended(f, outcome, FALSE)
                   \/ /\ at' = [at EXCEPT ![f] = "call"]
                      /\ Ended(f, outcome, HasRuntime)
                      /\ UNCHANGED <<form, read>>
                /\ UNCHANGED <<options, running, reloads, history>>
    BY <1>7 DEF Identified, Parsed
  <2>3. Closes(f, outcome) \/ AsksAgain(f, outcome)
    BY <1>2, <2>1, <2>2 DEF Closes, AsksAgain
  <2>4. QED
    BY <2>1, <2>2, <2>3
<1>8. CASE Called(f)
  <2>1. UNCHANGED phase /\ at[f] = "call"
    BY <1>8 DEF Called
  <2>2. PICK outcome \in Outcomes :
          /\ Fault(outcome)
          /\ \/ Failed(f, outcome)
             \/ /\ _finish(options.overrides)
                /\ Leave(f) /\ Ended(f, outcome, FALSE)
                /\ UNCHANGED <<running, stray, intended, overlapped>>
    BY <1>8 DEF Called, Parsed
  <2>3. [options EXCEPT !.overrides = options.overrides] = options
    BY DEF TypeOK
  <2>4. _finish(options.overrides) => UNCHANGED <<options, reloads, missed>>
    BY <2>3 DEF _finish, Update, One, TypeOK
  <2>5. Closes(f, outcome)
    BY <1>2, <2>2, <2>4 DEF Closes, history
  <2>6. QED
    BY <2>1, <2>2, <2>5
<1>9. QED
  BY <1>4, <1>5, <1>6, <1>7, <1>8 DEF Answered

TaskMoves(t) == TaskWakes(t) \/ TaskEnds(t)

\* A cleanup task moves nothing but its own request.
LEMMA TaskAlone ==
  ASSUME ShapeInv, NEW t \in Tasks, TaskMoves(t)
  PROVE  /\ UNCHANGED <<options, running, phase, reloads, form, read, history>>
         /\ \E place \in {"idle", "stop"} : at' = [at EXCEPT ![t] = place]
         /\ \A c \in Callers \ {t} : at'[c] = at[c]
         /\ \A c \in Flows \cup {Coordinator} : at'[c] = at[c]
<1>1. /\ UNCHANGED <<options, running, phase, reloads, form, read, history>>
      /\ \E place \in {"idle", "stop"} : at' = [at EXCEPT ![t] = place]
  BY DEF TaskMoves, TaskWakes, TaskEnds
<1>2. at \in [Callers -> {"idle", "first", "start", "poll", "update", "resend", "sync",
                          "identify", "call", "stop"}]
  BY DEF ShapeInv
<1>3. \A c \in Callers \ {t} : at'[c] = at[c]
  BY <1>1, <1>2
<1>4. Flows \cup {Coordinator} \subseteq Callers \ {t}
  BY FlowAssumption
<1>5. QED
  BY <1>1, <1>3, <1>4

-----------------------------------------------------------------------------
(* The client.                                                              *)

ClientInv == ClientTypeOK /\ IsFiniteSet(flying) /\ Accounting

\* A client counts what it sends.
LEMMA SendCounts ==
  ASSUME ClientInv, NEW c \in Callers, c \notin flying, Send(c)
  PROVE  ClientInv' /\ flying' = flying \cup {c}
<1>1. IsFiniteSet(flying') /\ Cardinality(flying') = Cardinality(flying) + 1
  BY FS_AddElement DEF ClientInv, Send
<1>2. Cardinality(flying) \in Nat
  BY FS_CardinalityType DEF ClientInv
<1>3. ClientTypeOK' /\ flying' = flying \cup {c}
  BY DEF ClientInv, ClientTypeOK, Send
<1>4. Accounting'
  BY <1>1, <1>2 DEF ClientInv, ClientTypeOK, Accounting, Send
<1>5. QED
  BY <1>1, <1>3, <1>4 DEF ClientInv

\* An answer is booked once, and only on the client that asked.
LEMMA EndedCounts ==
  ASSUME ClientInv, NEW c \in Callers, NEW outcome \in Outcomes, NEW again \in BOOLEAN,
         Ended(c, outcome, again)
  PROVE  ClientInv' /\ flying' = IF again THEN flying \cup {c} ELSE flying \ {c}
<1> DEFINE mine == IF c \in flying THEN 1 ELSE 0
           anew == IF again THEN 1 ELSE 0
<1>1. flying' = IF again THEN flying \cup {c} ELSE flying \ {c}
  BY DEF Ended
<1>2. Cardinality(flying) \in Nat /\ IsFiniteSet(flying)
  BY FS_CardinalityType DEF ClientInv
<1>3. IsFiniteSet(flying') /\ Cardinality(flying') = Cardinality(flying) - mine + anew
  <2>1. CASE again
    BY <1>1, <1>2, <2>1, FS_AddElement
  <2>2. CASE ~again
    BY <1>1, <1>2, <2>2, FS_RemoveElement
  <2>3. QED
    BY <2>1, <2>2
<1>4. requests' = requests + anew /\ UNCHANGED analyzing
  BY DEF Ended, One
<1>5. /\ failures' \in Nat /\ observed' \in Nat /\ dropped' \in Nat
      /\ IF analyzing
         THEN failures' + observed' + dropped' = failures + observed + dropped + mine
         ELSE observed' = observed /\ failures' + dropped' <= failures + dropped + mine
  BY DEF Ended, One, analyze, Outcomes, ClientInv, ClientTypeOK
<1>6. ClientTypeOK'
  BY <1>1, <1>4, <1>5 DEF ClientInv, ClientTypeOK
<1>7. Accounting'
  BY <1>2, <1>3, <1>4, <1>5 DEF ClientInv, ClientTypeOK, Accounting
<1>8. QED
  BY <1>1, <1>3, <1>6, <1>7 DEF ClientInv

\* A new client has one request to account for.
LEMMA ConnectCounts ==
  ASSUME NEW c \in Callers, NEW debug \in BOOLEAN, Connect(debug, c)
  PROVE  ClientInv' /\ flying' = {c}
<1>1. IsFiniteSet(flying') /\ Cardinality(flying') = 1
  BY FS_Singleton DEF Connect
<1>2. QED
  BY <1>1 DEF Connect, ClientInv, ClientTypeOK, Accounting

-----------------------------------------------------------------------------
(* Type correctness.                                                        *)

\* The parts of TypeOK.
CountersOK ==
  /\ phase \in {"up", "unload", "refresh", "forward", "retry"}
  /\ {reloads, submissions, polls, faults} \subseteq Nat
  /\ {missed, overlapped} \subseteq BOOLEAN /\ stray \subseteq Flows

OptionsOK ==
  /\ options \in [overrides : Overrides, debug : BOOLEAN, managed : BOOLEAN,
                  migrated : BOOLEAN]
  /\ {running, intended} \subseteq Settings

DialogsOK ==
  /\ at[Coordinator] \in {"idle", "first", "start", "poll"}
  /\ \A t \in Tasks : at[t] \in {"idle", "stop"}
  /\ \A f \in Flows :
       /\ at[f] \in {"idle", "update", "resend", "sync", "identify", "call"}
       /\ at[f] \in {"idle", "identify", "call"} => form[f] = Blank
       /\ at[f] # "sync" => read[f] = None

LEMMA TypeParts ==
  ASSUME ShapeInv
  PROVE  TypeOK <=> ClientTypeOK /\ CountersOK /\ OptionsOK /\ DialogsOK
<1>1. \A f \in Flows : form[f] \in Forms
  BY DEF ShapeInv
<1>2. QED
  BY <1>1, Zenon DEF TypeOK, CountersOK, OptionsOK, DialogsOK, Overrides

LEMMA EditedTyped ==
  ASSUME NEW o \in Overrides, NEW x \in Forms
  PROVE  Edited(o, x) \in Overrides
BY DEF Edited, Overrides, Forms

LEMMA BlankTyped == Blank \in Forms /\ None \in Overrides
<1>1. PICK b \in Buses : TRUE
  BY ModeAssumption
<1>2. [bus |-> b, mode |-> NoMode, resend |-> TRUE] \in Forms
  BY DEF Forms
<1>3. QED
  BY <1>2 DEF Blank, None, Overrides

\* The phase, the counters and the histories.
LEMMA CountersStep ==
  TypeOK /\ ShapeInv /\ [Next]_vars => CountersOK'
<1> SUFFICES ASSUME TypeOK, ShapeInv, [Next]_vars PROVE CountersOK'
  OBVIOUS
<1>a. CountersOK
  BY TypeParts
<1> USE <1>a DEF CountersOK
<1>1. CASE BeginReload
  BY <1>1 DEF BeginReload, bounds, history
<1>2. CASE Unloaded
  BY <1>2 DEF Unloaded, SetUp, bounds
<1>3. CASE Retry
  <2>1. reloads' \in Nat
    BY <1>3 DEF Retry
  <2>2. QED
    BY <1>3, <2>1 DEF Retry, SetUp, bounds
<1>4. CASE FirstRefreshed
  BY <1>4 DEF FirstRefreshed, Fault, One, history
<1>5. CASE PlatformsForwarded
  BY <1>5 DEF PlatformsForwarded, bounds, history
<1>6. CASE ManagerStarted
  BY <1>6 DEF ManagerStarted, Fault, One, history
<1>7. CASE Poll
  BY <1>7 DEF Poll, history
<1>8. CASE Polled
  BY <1>8 DEF Polled, Fault, One, history
<1>9. ASSUME NEW f \in Flows, BeginSave(f) PROVE CountersOK'
  BY <1>9 DEF BeginSave, Submit, history
<1>10. ASSUME NEW f \in Flows, Advanced(f) PROVE CountersOK'
  <2>1. PICK o : Update(o)
    BY <1>10 DEF Advanced
  <2>2. reloads' \in Nat /\ missed' \in BOOLEAN
    BY <2>1 DEF Update, One, Unheard
  <2>3. QED
    BY <1>10, <2>2 DEF Advanced, Submit
<1>11. ASSUME NEW f \in Flows, BeginCall(f) PROVE CountersOK'
  BY <1>11 DEF BeginCall, Submit, history
<1>12. ASSUME NEW f \in Flows, Answered(f) PROVE CountersOK'
  <2>1. PICK outcome \in Outcomes :
          /\ UNCHANGED phase /\ at[f] # "idle" /\ Fault(outcome)
          /\ \/ Closes(f, outcome) \/ AsksAgain(f, outcome) \/ Holds(f, outcome)
             \/ \E base \in Overrides : Saves(f, outcome, base)
    BY <1>12, AnswerCases
  <2>2. CASE Closes(f, outcome)
    BY <2>1, <2>2 DEF Closes, Fault, One, history
  <2>3. CASE AsksAgain(f, outcome)
    BY <2>1, <2>3 DEF AsksAgain, Fault, One, history
  <2>4. CASE Holds(f, outcome)
    BY <2>1, <2>4 DEF Holds, Fault, One
  <2>5. ASSUME NEW base \in Overrides, Saves(f, outcome, base) PROVE CountersOK'
    <3>1. PICK o : Update(o)
      BY <2>5 DEF Saves, Save, _finish
    <3>2. reloads' \in Nat /\ missed' \in BOOLEAN
      BY <3>1 DEF Update, One, Unheard
    <3>3. QED
      BY <2>1, <2>5, <3>2 DEF Saves, Save, Fault, One
  <2>6. QED
    BY <2>1, <2>2, <2>3, <2>4, <2>5
<1>13. CASE UNCHANGED vars
  BY <1>13 DEF vars, bounds, history
<1>14. ASSUME NEW t \in Tasks, TaskMoves(t) PROVE CountersOK'
  <2>1. UNCHANGED <<phase, reloads, missed, overlapped, stray, submissions>>
    BY <1>14, TaskAlone DEF TaskMoves, TaskWakes, TaskEnds, Fault, history
  <2>2. polls' \in Nat /\ faults' \in Nat
    <3>1. CASE TaskWakes(t)
      BY <3>1 DEF TaskWakes
    <3>2. CASE TaskEnds(t)
      <4>1. PICK outcome : Fault(outcome)
        BY <3>2 DEF TaskEnds
      <4>2. faults' \in Nat
        BY <4>1 DEF Fault, One
      <4>3. UNCHANGED polls
        BY <4>1 DEF Fault
      <4>4. QED
        BY <4>2, <4>3
    <3>3. QED
      BY <1>14, <3>1, <3>2 DEF TaskMoves
  <2>3. QED
    BY <2>1, <2>2
<1>15. QED
  BY <1>1, <1>2, <1>3, <1>4, <1>5, <1>6, <1>7, <1>8, <1>9,
     <1>10, <1>11, <1>12, <1>13, <1>14
  DEF Next, Entry, Begun, TaskMoves

\* The three records of options.
LEMMA OptionsStep ==
  TypeOK /\ ShapeInv /\ [Next]_vars => OptionsOK'
<1> SUFFICES ASSUME TypeOK, ShapeInv, [Next]_vars PROVE OptionsOK'
  OBVIOUS
<1>a. OptionsOK
  BY TypeParts
<1> USE <1>a DEF OptionsOK, Settings
<1>1. CASE BeginReload
  BY <1>1 DEF BeginReload, history
<1>2. CASE Unloaded
  BY <1>2 DEF Unloaded, SetUp
<1>3. CASE Retry
  BY <1>3 DEF Retry, SetUp
<1>4. CASE FirstRefreshed
  <2>1. Build \/ UNCHANGED running
    BY <1>4 DEF FirstRefreshed
  <2>2. options.overrides \in Overrides /\ options.managed \in BOOLEAN
    OBVIOUS
  <2>3. Build => running' \in Settings
    BY <2>2 DEF Build, Overrides
  <2>4. QED
    BY <1>4, <2>1, <2>3 DEF FirstRefreshed, history
<1>5. CASE PlatformsForwarded
  BY <1>5 DEF PlatformsForwarded, history
<1>6. CASE ManagerStarted
  <2>1. PICK m \in BOOLEAN : options' = [options EXCEPT !.migrated = m]
    BY <1>6 DEF ManagerStarted
  <2>2. QED
    BY <1>6, <2>1 DEF ManagerStarted, history
<1>7. CASE Poll
  BY <1>7 DEF Poll, history
<1>8. CASE Polled
  BY <1>8 DEF Polled, history
<1>9. ASSUME NEW f \in Flows, BeginSave(f) PROVE OptionsOK'
  BY <1>9 DEF BeginSave, history
<1>10. ASSUME NEW f \in Flows, Advanced(f) PROVE OptionsOK'
  <2>1. PICK debug \in BOOLEAN, managed \in BOOLEAN :
          /\ options' = [options EXCEPT !.debug = debug, !.managed = managed]
          /\ intended' = [intended EXCEPT !.debug = debug, !.managed = managed]
    BY <1>10 DEF Advanced, Update
  <2>2. QED
    BY <1>10, <2>1 DEF Advanced
<1>11. ASSUME NEW f \in Flows, BeginCall(f) PROVE OptionsOK'
  BY <1>11 DEF BeginCall, history
<1>12. ASSUME NEW f \in Flows, Answered(f) PROVE OptionsOK'
  <2>1. PICK outcome \in Outcomes :
          /\ UNCHANGED phase /\ at[f] # "idle" /\ Fault(outcome)
          /\ \/ Closes(f, outcome) \/ AsksAgain(f, outcome) \/ Holds(f, outcome)
             \/ \E base \in Overrides : Saves(f, outcome, base)
    BY <1>12, AnswerCases
  <2>2. CASE Closes(f, outcome)
    BY <2>2 DEF Closes, history
  <2>3. CASE AsksAgain(f, outcome)
    BY <2>3 DEF AsksAgain, history
  <2>4. CASE Holds(f, outcome)
    <3>1. Edited(options.overrides, form[f]) \in Overrides
      BY EditedTyped DEF ShapeInv
    <3>2. running' \in Settings
      BY <2>4, <3>1 DEF Holds, Overrides
    <3>3. QED
      BY <2>4, <3>2 DEF Holds
  <2>5. ASSUME NEW base \in Overrides, Saves(f, outcome, base) PROVE OptionsOK'
    <3>1. intended.overrides \in Overrides
      BY DEF Overrides
    <3>2. /\ Edited(base, form[f]) \in Overrides
          /\ Edited(intended.overrides, form[f]) \in Overrides
      BY <3>1, EditedTyped DEF ShapeInv
    <3>3. /\ options' = [options EXCEPT !.overrides = Edited(base, form[f])]
          /\ intended' =
               [intended EXCEPT !.overrides = Edited(intended.overrides, form[f])]
          /\ UNCHANGED running
      BY <2>5 DEF Saves, Save, _finish, Update
    <3>4. intended' \in Settings
      BY <3>2, <3>3 DEF Overrides
    <3>5. QED
      BY <3>2, <3>3, <3>4
  <2>6. QED
    BY <2>1, <2>2, <2>3, <2>4, <2>5
<1>13. CASE UNCHANGED vars
  BY <1>13 DEF vars, history
<1>14. ASSUME NEW t \in Tasks, TaskMoves(t) PROVE OptionsOK'
  BY <1>14, TaskAlone DEF history
<1>15. QED
  BY <1>1, <1>2, <1>3, <1>4, <1>5, <1>6, <1>7, <1>8, <1>9,
     <1>10, <1>11, <1>12, <1>13, <1>14
  DEF Next, Entry, Begun, TaskMoves

\* The dialogs.
LEMMA DialogsStep ==
  TypeOK /\ ShapeInv /\ [Next]_vars => (ShapeInv /\ DialogsOK)'
<1> SUFFICES ASSUME TypeOK, ShapeInv, [Next]_vars PROVE (ShapeInv /\ DialogsOK)'
  OBVIOUS
<1>a. DialogsOK
  BY TypeParts
<1> USE <1>a, FlowAssumption DEF ShapeInv, DialogsOK
<1>1. CASE BeginReload
  BY <1>1 DEF BeginReload, dialogs
<1>2. CASE Unloaded
  BY <1>2 DEF Unloaded, SetUp
<1>3. CASE Retry
  BY <1>3 DEF Retry, SetUp
<1>4. CASE FirstRefreshed
  BY <1>4 DEF FirstRefreshed
<1>5. CASE PlatformsForwarded
  BY <1>5 DEF PlatformsForwarded
<1>6. CASE ManagerStarted
  BY <1>6 DEF ManagerStarted
<1>7. CASE Poll
  BY <1>7 DEF Poll
<1>8. CASE Polled
  BY <1>8 DEF Polled
<1>9. ASSUME NEW f \in Flows, BeginSave(f) PROVE (ShapeInv /\ DialogsOK)'
  BY <1>9 DEF BeginSave, Submit
<1>10. ASSUME NEW f \in Flows, Advanced(f) PROVE (ShapeInv /\ DialogsOK)'
  BY <1>10 DEF Advanced, dialogs
<1>11. ASSUME NEW f \in Flows, BeginCall(f) PROVE (ShapeInv /\ DialogsOK)'
  BY <1>11 DEF BeginCall, Submit
<1>12. ASSUME NEW f \in Flows, Answered(f) PROVE (ShapeInv /\ DialogsOK)'
  <2>1. PICK outcome \in Outcomes :
          /\ UNCHANGED phase /\ at[f] # "idle" /\ Fault(outcome)
          /\ \/ Closes(f, outcome) \/ AsksAgain(f, outcome) \/ Holds(f, outcome)
             \/ \E base \in Overrides : Saves(f, outcome, base)
    BY <1>12, AnswerCases
  <2>2. CASE Closes(f, outcome)
    BY <2>2, BlankTyped DEF Closes, Leave
  <2>3. CASE AsksAgain(f, outcome)
    BY <2>3 DEF AsksAgain
  <2>4. CASE Holds(f, outcome)
    <3>1. options.overrides \in Overrides
      BY DEF TypeOK, Overrides
    <3>2. QED
      BY <2>4, <3>1 DEF Holds
  <2>5. ASSUME NEW base \in Overrides, Saves(f, outcome, base) PROVE (ShapeInv /\ DialogsOK)'
    BY <2>5, BlankTyped DEF Saves, Save, Leave
  <2>6. QED
    BY <2>1, <2>2, <2>3, <2>4, <2>5
<1>13. CASE UNCHANGED vars
  BY <1>13 DEF vars, dialogs
<1>14. ASSUME NEW t \in Tasks, TaskMoves(t) PROVE (ShapeInv /\ DialogsOK)'
  <2>1. PICK place \in {"idle", "stop"} : at' = [at EXCEPT ![t] = place]
    BY <1>14, TaskAlone
  <2>2. UNCHANGED <<form, read>> /\ \A c \in Flows \cup {Coordinator} : at'[c] = at[c]
    BY <1>14, TaskAlone
  <2>3. QED
    BY <2>1, <2>2
<1>15. QED
  BY <1>1, <1>2, <1>3, <1>4, <1>5, <1>6, <1>7, <1>8, <1>9,
     <1>10, <1>11, <1>12, <1>13, <1>14
  DEF Next, Entry, Begun, TaskMoves

-----------------------------------------------------------------------------
(* The accounts.                                                            *)

LEMMA ClientKept == ClientInv /\ UNCHANGED client => ClientInv'
BY DEF client, ClientInv, ClientTypeOK, Accounting

LEMMA ClientRests ==
  ClientInv /\ FlightInv /\ UNCHANGED <<client, at>> => (ClientInv /\ FlightInv)'
BY ClientKept DEF client, FlightInv

\* Every step keeps the accounts: nobody sends a second request before the answer.
LEMMA FlightStep ==
  TypeOK /\ ShapeInv /\ ClientInv /\ FlightInv /\ [Next]_vars => (ClientInv /\ FlightInv)'
<1> SUFFICES ASSUME TypeOK, ShapeInv, ClientInv, FlightInv, [Next]_vars PROVE (ClientInv /\ FlightInv)'
  OBVIOUS
<1>a. ClientInv' => IsFiniteSet(flying') /\ flying' \subseteq Callers
  BY DEF ClientInv, ClientTypeOK
<1>b. flying \subseteq Callers
  BY DEF ClientInv, ClientTypeOK
<1>c. Coordinator \in Callers /\ Flows \subseteq Callers
  BY FlowAssumption
<1> USE <1>a, <1>b, <1>c DEF FlightInv, ShapeInv
<1>1. CASE BeginReload
  <2>1. UNCHANGED <<client, at>>
    BY <1>1 DEF BeginReload, dialogs
  <2>2. QED
    BY <2>1, ClientRests
<1>2. CASE Unloaded
  <2>1. Connect(options.debug, Coordinator) /\ at'[Coordinator] = "first"
    BY <1>2 DEF Unloaded, SetUp
  <2>2. options.debug \in BOOLEAN
    BY DEF TypeOK
  <2>3. QED
    BY <2>1, <2>2, ConnectCounts
<1>3. CASE Retry
  <2>1. Connect(options.debug, Coordinator) /\ at'[Coordinator] = "first"
    BY <1>3 DEF Retry, SetUp
  <2>2. options.debug \in BOOLEAN
    BY DEF TypeOK
  <2>3. QED
    BY <2>1, <2>2, ConnectCounts
<1>4. CASE FirstRefreshed
  <2>1. PICK outcome \in Outcomes : Ended(Coordinator, outcome, FALSE)
    BY <1>4 DEF FirstRefreshed, Parsed
  <2>2. \A c \in Callers \ {Coordinator} : at'[c] = at[c]
    BY <1>4 DEF FirstRefreshed
  <2>3. QED
    BY <2>1, <2>2, EndedCounts
<1>5. CASE PlatformsForwarded
  <2>1. CASE running.managed
    <3>1. Send(Coordinator) /\ at[Coordinator] = "idle" /\ at'[Coordinator] # "idle"
      BY <1>5, <2>1 DEF PlatformsForwarded
    <3>2. \A c \in Callers \ {Coordinator} : at'[c] = at[c]
      BY <1>5, <2>1 DEF PlatformsForwarded
    <3>3. QED
      BY <3>1, <3>2, SendCounts
  <2>2. CASE ~running.managed
    BY <1>5, <2>2, ClientRests DEF PlatformsForwarded
  <2>3. QED
    BY <2>1, <2>2
<1>6. CASE ManagerStarted
  <2>1. PICK outcome \in Outcomes : Ended(Coordinator, outcome, FALSE)
    BY <1>6 DEF ManagerStarted, Parsed
  <2>2. \A c \in Callers \ {Coordinator} : at'[c] = at[c]
    BY <1>6 DEF ManagerStarted
  <2>3. QED
    BY <2>1, <2>2, EndedCounts
<1>7. CASE Poll
  <2>1. Send(Coordinator) /\ at[Coordinator] = "idle" /\ at'[Coordinator] # "idle"
    BY <1>7 DEF Poll
  <2>2. \A c \in Callers \ {Coordinator} : at'[c] = at[c]
    BY <1>7 DEF Poll
  <2>3. QED
    BY <2>1, <2>2, SendCounts
<1>8. CASE Polled
  <2>1. PICK outcome \in Outcomes : Ended(Coordinator, outcome, FALSE)
    BY <1>8 DEF Polled, Parsed
  <2>2. \A c \in Callers \ {Coordinator} : at'[c] = at[c]
    BY <1>8 DEF Polled
  <2>3. QED
    BY <2>1, <2>2, EndedCounts
<1>9. ASSUME NEW f \in Flows, BeginSave(f) PROVE (ClientInv /\ FlightInv)'
  <2>1. (Send(f) \/ UNCHANGED client) /\ at[f] = "idle" /\ at'[f] # "idle"
    BY <1>9 DEF BeginSave, Request, Submit
  <2>2. \A c \in Callers \ {f} : at'[c] = at[c]
    BY <1>9 DEF BeginSave
  <2>3. CASE Send(f)
    BY <2>1, <2>2, <2>3, SendCounts
  <2>4. CASE UNCHANGED client
    BY <2>1, <2>2, <2>4, ClientKept DEF client
  <2>5. QED
    BY <2>1, <2>3, <2>4
<1>10. ASSUME NEW f \in Flows, Advanced(f) PROVE (ClientInv /\ FlightInv)'
  <2>1. UNCHANGED <<client, at>>
    BY <1>10 DEF Advanced, dialogs
  <2>2. QED
    BY <2>1, ClientRests
<1>11. ASSUME NEW f \in Flows, BeginCall(f) PROVE (ClientInv /\ FlightInv)'
  <2>1. (Send(f) \/ UNCHANGED client) /\ at[f] = "idle" /\ at'[f] # "idle"
    BY <1>11 DEF BeginCall, Request, Submit
  <2>2. \A c \in Callers \ {f} : at'[c] = at[c]
    BY <1>11 DEF BeginCall
  <2>3. CASE Send(f)
    BY <2>1, <2>2, <2>3, SendCounts
  <2>4. CASE UNCHANGED client
    BY <2>1, <2>2, <2>4, ClientKept DEF client
  <2>5. QED
    BY <2>1, <2>3, <2>4
<1>12. ASSUME NEW f \in Flows, Answered(f) PROVE (ClientInv /\ FlightInv)'
  <2>1. PICK outcome \in Outcomes :
          /\ UNCHANGED phase /\ at[f] # "idle" /\ Fault(outcome)
          /\ \/ Closes(f, outcome) \/ AsksAgain(f, outcome) \/ Holds(f, outcome)
             \/ \E base \in Overrides : Saves(f, outcome, base)
    BY <1>12, AnswerCases
  <2>2. CASE Closes(f, outcome)
    <3>1. Ended(f, outcome, FALSE) /\ (FALSE => at'[f] # "idle")
      BY <2>2 DEF Closes, Leave
    <3>2. \A c \in Callers \ {f} : at'[c] = at[c]
      BY <2>2 DEF Closes, Leave
    <3>3. FALSE \in BOOLEAN
      BY DEF HasRuntime
    <3>4. QED
      BY <3>1, <3>2, <3>3, EndedCounts
  <2>3. CASE AsksAgain(f, outcome)
    <3>1. Ended(f, outcome, HasRuntime) /\ (HasRuntime => at'[f] # "idle")
      BY <2>3 DEF AsksAgain
    <3>2. \A c \in Callers \ {f} : at'[c] = at[c]
      BY <2>3 DEF AsksAgain
    <3>3. HasRuntime \in BOOLEAN
      BY DEF HasRuntime
    <3>4. QED
      BY <3>1, <3>2, <3>3, EndedCounts
  <2>4. CASE Holds(f, outcome)
    <3>1. Ended(f, outcome, TRUE) /\ (TRUE => at'[f] # "idle")
      BY <2>4 DEF Holds
    <3>2. \A c \in Callers \ {f} : at'[c] = at[c]
      BY <2>4 DEF Holds
    <3>3. TRUE \in BOOLEAN
      BY DEF HasRuntime
    <3>4. QED
      BY <3>1, <3>2, <3>3, EndedCounts
  <2>5. ASSUME NEW base \in Overrides, Saves(f, outcome, base) PROVE (ClientInv /\ FlightInv)'
    <3>1. Ended(f, outcome, FALSE) /\ (FALSE => at'[f] # "idle")
      BY <2>5 DEF Saves, Save, Leave
    <3>2. \A c \in Callers \ {f} : at'[c] = at[c]
      BY <2>5 DEF Saves, Save, Leave
    <3>3. FALSE \in BOOLEAN
      BY DEF HasRuntime
    <3>4. QED
      BY <3>1, <3>2, <3>3, EndedCounts
  <2>6. QED
    BY <2>1, <2>2, <2>3, <2>4, <2>5
<1>13. CASE UNCHANGED vars
  BY <1>13, ClientRests DEF vars, dialogs
<1>14. ASSUME NEW t \in Tasks, TaskMoves(t) PROVE (ClientInv /\ FlightInv)'
  <2>1. t \in Callers /\ \A c \in Callers \ {t} : at'[c] = at[c]
    BY <1>14, TaskAlone, FlowAssumption
  <2>2. CASE TaskWakes(t)
    <3>1. (Send(t) \/ UNCHANGED client) /\ at[t] = "idle" /\ at'[t] # "idle"
      BY <2>1, <2>2 DEF TaskWakes, Request
    <3>2. CASE Send(t)
      BY <2>1, <3>1, <3>2, SendCounts
    <3>3. CASE UNCHANGED client
      BY <2>1, <3>1, <3>3, ClientKept DEF client
    <3>4. QED
      BY <3>1, <3>2, <3>3
  <2>3. CASE TaskEnds(t)
    <3>1. PICK outcome \in Outcomes : Ended(t, outcome, FALSE)
      BY <2>3 DEF TaskEnds
    <3>2. QED
      BY <2>1, <3>1, EndedCounts
  <2>4. QED
    BY <1>14, <2>2, <2>3 DEF TaskMoves
<1>15. QED
  BY <1>1, <1>2, <1>3, <1>4, <1>5, <1>6, <1>7, <1>8, <1>9,
     <1>10, <1>11, <1>12, <1>13, <1>14
  DEF Next, Entry, Begun, TaskMoves

-----------------------------------------------------------------------------
(* What is saved and what runs.                                             *)

\* A save writes the overrides, of the stored and of the intended options, and nothing
\* else of them.
LEMMA SaveWrites ==
  ASSUME TypeOK, ShapeInv, NEW f \in Flows, NEW outcome, NEW base \in Overrides,
         Saves(f, outcome, base)
  PROVE  /\ options' = [options EXCEPT !.overrides = Edited(base, form[f])]
         /\ intended' = [intended EXCEPT !.overrides =
                           Edited(intended.overrides, form[f])]
         /\ overlapped' = (overlapped \/ \E g \in Flows \ {f} : at[g] = "sync")
         /\ at' = [at EXCEPT ![f] = "idle"] /\ at'[f] = "idle"
         /\ \A g \in Flows \ {f} :
              at'[g] = at[g] /\ form'[g] = form[g] /\ read'[g] = read[g]
<1>1. at \in [Callers -> {"idle", "first", "start", "poll", "update", "resend", "sync",
                          "identify", "call", "stop"}] /\ f \in Callers
  BY FlowAssumption DEF ShapeInv
<1>2. form \in [Flows -> Forms] /\ read \in [Flows -> Overrides]
  BY DEF ShapeInv
<1>3. at' = [at EXCEPT ![f] = "idle"] /\ form' = [form EXCEPT ![f] = Blank]
      /\ read' = [read EXCEPT ![f] = None]
  BY DEF Saves, Save, Leave
<1>4. /\ options' = [options EXCEPT !.overrides = Edited(base, form[f])]
      /\ intended' = [intended EXCEPT !.overrides = Edited(intended.overrides, form[f])]
      /\ overlapped' = (overlapped \/ \E g \in Flows \ {f} : at[g] = "sync")
  BY DEF Saves, Save, _finish, Update
<1>5. QED
  BY <1>1, <1>2, <1>3, <1>4

\* Every step keeps what users saved, of the overrides unless dialogs overlap.
LEMMA SavedStep ==
  TypeOK /\ ShapeInv /\ SettingsStay /\ LostByOverlapOnly /\ ReadInv /\ [Next]_vars => (SettingsStay /\ LostByOverlapOnly /\ ReadInv)'
<1> SUFFICES ASSUME TypeOK, ShapeInv, SettingsStay, LostByOverlapOnly, ReadInv, [Next]_vars PROVE (SettingsStay /\ LostByOverlapOnly /\ ReadInv)'
  OBVIOUS
<1>a. /\ at \in [Callers -> {"idle", "first", "start", "poll", "update", "resend", "sync",
                             "identify", "call", "stop"}]
      /\ form \in [Flows -> Forms] /\ read \in [Flows -> Overrides]
  BY DEF ShapeInv
<1>b. Flows \subseteq Callers /\ Coordinator \in Callers \ Flows
  BY FlowAssumption
<1>c. overlapped \in BOOLEAN
  BY DEF TypeOK
<1>d. /\ options \in [overrides : Overrides, debug : BOOLEAN, managed : BOOLEAN,
                      migrated : BOOLEAN]
      /\ intended \in [overrides : Overrides, debug : BOOLEAN, managed : BOOLEAN]
  BY DEF TypeOK, Settings, Overrides
<1> USE <1>a, <1>b, <1>c, <1>d DEF SettingsStay, LostByOverlapOnly, ReadInv
<1>1. CASE BeginReload
  <2>1. UNCHANGED <<options, intended, overlapped>>
    BY <1>1 DEF BeginReload, history
  <2>2. \A g \in Flows : read'[g] = read[g] /\ (at'[g] = "sync" => at[g] = "sync")
    BY <1>1 DEF BeginReload, dialogs
  <2>3. QED
    BY <2>1, <2>2
<1>2. CASE Unloaded
  <2>1. UNCHANGED <<options, intended, overlapped>>
    BY <1>2 DEF Unloaded, SetUp
  <2>2. \A g \in Flows : read'[g] = read[g] /\ (at'[g] = "sync" => at[g] = "sync")
    BY <1>2 DEF Unloaded, SetUp
  <2>3. QED
    BY <2>1, <2>2
<1>3. CASE Retry
  <2>1. UNCHANGED <<options, intended, overlapped>>
    BY <1>3 DEF Retry, SetUp
  <2>2. \A g \in Flows : read'[g] = read[g] /\ (at'[g] = "sync" => at[g] = "sync")
    BY <1>3 DEF Retry, SetUp
  <2>3. QED
    BY <2>1, <2>2
<1>4. CASE FirstRefreshed
  <2>1. UNCHANGED <<options, intended, overlapped>>
    BY <1>4 DEF FirstRefreshed, history
  <2>2. \A g \in Flows : read'[g] = read[g] /\ (at'[g] = "sync" => at[g] = "sync")
    BY <1>4 DEF FirstRefreshed
  <2>3. QED
    BY <2>1, <2>2
<1>5. CASE PlatformsForwarded
  <2>1. UNCHANGED <<options, intended, overlapped>>
    BY <1>5 DEF PlatformsForwarded, history
  <2>2. \A g \in Flows : read'[g] = read[g] /\ (at'[g] = "sync" => at[g] = "sync")
    BY <1>5 DEF PlatformsForwarded
  <2>3. QED
    BY <2>1, <2>2
<1>6. CASE ManagerStarted
  <2>1. PICK m : options' = [options EXCEPT !.migrated = m]
    BY <1>6 DEF ManagerStarted
  <2>2. options'.overrides = options.overrides /\ options'.debug = options.debug
        /\ options'.managed = options.managed
    BY <2>1
  <2>3. UNCHANGED <<intended, overlapped>>
    BY <1>6 DEF ManagerStarted, history
  <2>4. \A g \in Flows : read'[g] = read[g] /\ (at'[g] = "sync" => at[g] = "sync")
    BY <1>6 DEF ManagerStarted
  <2>5. QED
    BY <2>2, <2>3, <2>4
<1>7. CASE Poll
  <2>1. UNCHANGED <<options, intended, overlapped>>
    BY <1>7 DEF Poll, history
  <2>2. \A g \in Flows : read'[g] = read[g] /\ (at'[g] = "sync" => at[g] = "sync")
    BY <1>7 DEF Poll
  <2>3. QED
    BY <2>1, <2>2
<1>8. CASE Polled
  <2>1. UNCHANGED <<options, intended, overlapped>>
    BY <1>8 DEF Polled, history
  <2>2. \A g \in Flows : read'[g] = read[g] /\ (at'[g] = "sync" => at[g] = "sync")
    BY <1>8 DEF Polled
  <2>3. QED
    BY <2>1, <2>2
<1>9. ASSUME NEW f \in Flows, BeginSave(f) PROVE (SettingsStay /\ LostByOverlapOnly /\ ReadInv)'
  <2>1. UNCHANGED <<options, intended, overlapped>>
    BY <1>9 DEF BeginSave, history
  <2>2. \A g \in Flows : read'[g] = read[g] /\ (at'[g] = "sync" => at[g] = "sync")
    BY <1>9 DEF BeginSave
  <2>3. QED
    BY <2>1, <2>2
<1>10. ASSUME NEW f \in Flows, Advanced(f) PROVE (SettingsStay /\ LostByOverlapOnly /\ ReadInv)'
  <2>1. PICK debug \in BOOLEAN, managed \in BOOLEAN :
          /\ options' = [options EXCEPT !.debug = debug, !.managed = managed]
          /\ intended' = [intended EXCEPT !.debug = debug, !.managed = managed]
    BY <1>10 DEF Advanced, Update
  <2>2. /\ options'.overrides = options.overrides /\ options'.debug = intended'.debug
        /\ intended'.overrides = intended.overrides
        /\ options'.managed = intended'.managed
    BY <2>1
  <2>3. UNCHANGED <<at, read, overlapped>>
    BY <1>10 DEF Advanced, dialogs
  <2>4. QED
    BY <2>2, <2>3
<1>11. ASSUME NEW f \in Flows, BeginCall(f) PROVE (SettingsStay /\ LostByOverlapOnly /\ ReadInv)'
  <2>1. UNCHANGED <<options, intended, overlapped>>
    BY <1>11 DEF BeginCall, history
  <2>2. \A g \in Flows : read'[g] = read[g] /\ (at'[g] = "sync" => at[g] = "sync")
    BY <1>11 DEF BeginCall
  <2>3. QED
    BY <2>1, <2>2
<1>12. ASSUME NEW f \in Flows, Answered(f) PROVE (SettingsStay /\ LostByOverlapOnly /\ ReadInv)'
  <2>1. PICK outcome \in Outcomes :
          /\ UNCHANGED phase /\ at[f] # "idle" /\ Fault(outcome)
          /\ \/ Closes(f, outcome) \/ AsksAgain(f, outcome) \/ Holds(f, outcome)
             \/ \E base \in Overrides : Saves(f, outcome, base)
    BY <1>12, AnswerCases
  <2>2. CASE Closes(f, outcome)
    <3>1. UNCHANGED <<options, intended, overlapped>>
      BY <2>2 DEF Closes, history
    <3>2. \A g \in Flows : at'[g] = "sync" => at[g] = "sync" /\ read'[g] = read[g]
      BY <2>2 DEF Closes, Leave
    <3>3. QED
      BY <3>1, <3>2
  <2>3. CASE AsksAgain(f, outcome)
    <3>1. UNCHANGED <<options, intended, overlapped, read>>
      BY <2>3 DEF AsksAgain, history
    <3>2. \A g \in Flows : at'[g] = "sync" => at[g] = "sync"
      BY <2>3 DEF AsksAgain
    <3>3. QED
      BY <3>1, <3>2
  <2>4. CASE Holds(f, outcome)
    <3>1. UNCHANGED <<options, intended, overlapped>> /\ read'[f] = options.overrides
      BY <2>4 DEF Holds
    <3>2. \A g \in Flows \ {f} : at'[g] = at[g] /\ read'[g] = read[g]
      BY <2>4 DEF Holds
    <3>3. QED
      BY <3>1, <3>2
  <2>5. ASSUME NEW base \in Overrides, Saves(f, outcome, base) PROVE (SettingsStay /\ LostByOverlapOnly /\ ReadInv)'
    <3>1. base = options.overrides \/ overlapped
      BY <2>5 DEF Saves
    <3>2. ReadInv'
      BY <2>5, SaveWrites
    <3>3. /\ options'.overrides = Edited(base, form[f])
          /\ intended'.overrides = Edited(intended.overrides, form[f])
          /\ options'.debug = options.debug /\ options'.managed = options.managed
          /\ intended'.debug = intended.debug /\ intended'.managed = intended.managed
      BY <2>5, SaveWrites, <1>d
    <3>4. overlapped => overlapped'
      BY <2>5, SaveWrites
    <3>5. QED
      BY <3>1, <3>2, <3>3, <3>4
  <2>6. QED
    BY <2>1, <2>2, <2>3, <2>4, <2>5
<1>13. CASE UNCHANGED vars
  <2>1. UNCHANGED <<options, intended, overlapped, at, read>>
    BY <1>13 DEF vars, history, dialogs
  <2>2. QED
    BY <2>1
<1>14. ASSUME NEW t \in Tasks, TaskMoves(t) PROVE (SettingsStay /\ LostByOverlapOnly /\ ReadInv)'
  <2>1. UNCHANGED <<options, intended, overlapped>>
    BY <1>14, TaskAlone DEF history
  <2>2. \A g \in Flows : read'[g] = read[g] /\ (at'[g] = "sync" => at[g] = "sync")
    BY <1>14, TaskAlone
  <2>3. QED
    BY <2>1, <2>2
<1>15. QED
  BY <1>1, <1>2, <1>3, <1>4, <1>5, <1>6, <1>7, <1>8, <1>9,
     <1>10, <1>11, <1>12, <1>13, <1>14
  DEF Next, Entry, Begun, TaskMoves

\* What is stored after set-up has read it is heard of: by the listener, or else it is
\* among what was missed.
LEMMA UpdateIsHeard ==
  ASSUME TypeOK, NEW o, Update(o), UNCHANGED phase
  PROVE  /\ Current' => Current /\ options' = options
         /\ phase = "refresh" /\ ~missed' => ~missed /\ options'.debug = options.debug
<1> USE DEF TypeOK
<1>1. missed' \in BOOLEAN /\ (missed => missed')
  BY DEF Update, Unheard
<1>2. CASE o = options
  <2>1. options' = options /\ reloads' = reloads
    BY <1>2 DEF Update, One
  <2>2. QED
    BY <1>1, <2>1 DEF Current
<1>3. CASE o # options
  <2>a. options' = o /\ (Unheard(o) => missed')
    BY <1>3, Zenon DEF Update
  <2>b. Listening => reloads' = reloads + 1
    BY <1>3 DEF Update, One
  <2>1. options' = o /\ (~missed' => ~Unheard(o)) /\ (Listening => reloads' # 0)
    BY <2>a, <2>b
  <2>2. ~missed' => phase # "forward" /\ (phase = "refresh" => o.debug = options.debug)
    BY <2>1 DEF Unheard
  <2>3. phase = "up" => reloads' # 0
    BY <2>1 DEF Listening
  <2>4. QED
    BY <1>1, <2>1, <2>2, <2>3 DEF Current
<1>4. QED
  BY <1>2, <1>3

\* Set-up stays where its request is.
LEMMA PhaseStep ==
  TypeOK /\ ShapeInv /\ PhaseInv /\ [Next]_vars => PhaseInv'
<1> SUFFICES ASSUME TypeOK, ShapeInv, PhaseInv, [Next]_vars PROVE PhaseInv'
  OBVIOUS
<1>a. /\ at \in [Callers -> {"idle", "first", "start", "poll", "update", "resend", "sync",
                             "identify", "call", "stop"}]
      /\ Coordinator \in Callers \ Flows
  BY FlowAssumption DEF ShapeInv
<1> USE <1>a DEF PhaseInv
<1>1. CASE BeginReload
  BY <1>1 DEF BeginReload, dialogs
<1>2. CASE Unloaded
  BY <1>2 DEF Unloaded, SetUp
<1>3. CASE Retry
  BY <1>3 DEF Retry, SetUp
<1>4. CASE FirstRefreshed
  BY <1>4 DEF FirstRefreshed
<1>5. CASE PlatformsForwarded
  BY <1>5 DEF PlatformsForwarded
<1>6. CASE ManagerStarted
  BY <1>6 DEF ManagerStarted
<1>7. CASE Poll
  BY <1>7 DEF Poll
<1>8. CASE Polled
  BY <1>8 DEF Polled
<1>9. ASSUME NEW f \in Flows, BeginSave(f) PROVE PhaseInv'
  BY <1>9 DEF BeginSave
<1>10. ASSUME NEW f \in Flows, Advanced(f) PROVE PhaseInv'
  BY <1>10 DEF Advanced, dialogs
<1>11. ASSUME NEW f \in Flows, BeginCall(f) PROVE PhaseInv'
  BY <1>11 DEF BeginCall
<1>12. ASSUME NEW f \in Flows, Answered(f) PROVE PhaseInv'
  <2>1. PICK outcome \in Outcomes :
          /\ UNCHANGED phase /\ at[f] # "idle" /\ Fault(outcome)
          /\ \/ Closes(f, outcome) \/ AsksAgain(f, outcome) \/ Holds(f, outcome)
             \/ \E base \in Overrides : Saves(f, outcome, base)
    BY <1>12, AnswerCases
  <2>2. CASE Closes(f, outcome)
    BY <2>1, <2>2 DEF Closes, Leave
  <2>3. CASE AsksAgain(f, outcome)
    BY <2>1, <2>3 DEF AsksAgain
  <2>4. CASE Holds(f, outcome)
    BY <2>1, <2>4 DEF Holds
  <2>5. ASSUME NEW base \in Overrides, Saves(f, outcome, base) PROVE PhaseInv'
    BY <2>1, <2>5 DEF Saves, Save, Leave
  <2>6. QED
    BY <2>1, <2>2, <2>3, <2>4, <2>5
<1>13. CASE UNCHANGED vars
  BY <1>13 DEF vars, dialogs
<1>14. ASSUME NEW t \in Tasks, TaskMoves(t) PROVE PhaseInv'
  BY <1>14, TaskAlone
<1>15. QED
  BY <1>1, <1>2, <1>3, <1>4, <1>5, <1>6, <1>7, <1>8, <1>9,
     <1>10, <1>11, <1>12, <1>13, <1>14
  DEF Next, Entry, Begun, TaskMoves

\* As long as the options, the entry and the manager rest, so does what they run.
LEMMA RunRests ==
  ASSUME TypeOK, RunInv, UNCHANGED <<options, running, phase, reloads, missed, stray>>,
         \A g \in Flows : at'[g] = "sync" =>
                          at[g] = "sync" /\ read'[g] = read[g] /\ form'[g] = form[g]
  PROVE  RunInv'
<1>1. stray \subseteq Flows
  BY DEF TypeOK
<1>2. \A g \in Flows : at'[g] = "sync" => Edited(read'[g], form'[g]) = Edited(read[g], form[g])
  BY DEF Edited
<1>3. Current' <=> Current
  BY DEF Current
<1>4. QED
  BY <1>1, <1>2, <1>3 DEF RunInv

\* Every step keeps what the entry runs.
LEMMA RunStep ==
  TypeOK /\ ShapeInv /\ PhaseInv /\ RunInv /\ [Next]_vars => RunInv'
<1> SUFFICES ASSUME TypeOK, ShapeInv, PhaseInv, RunInv, [Next]_vars PROVE RunInv'
  OBVIOUS
<1>a. /\ at \in [Callers -> {"idle", "first", "start", "poll", "update", "resend", "sync",
                             "identify", "call", "stop"}]
      /\ form \in [Flows -> Forms] /\ read \in [Flows -> Overrides]
  BY DEF ShapeInv
<1>b. Flows \subseteq Callers /\ Coordinator \in Callers \ Flows
  BY FlowAssumption
<1>d. /\ options \in [overrides : Overrides, debug : BOOLEAN, managed : BOOLEAN,
                      migrated : BOOLEAN]
      /\ running \in [overrides : Overrides, debug : BOOLEAN, managed : BOOLEAN]
  BY DEF TypeOK, Settings, Overrides
<1>e. stray \subseteq Flows
  BY DEF TypeOK
<1> USE <1>a, <1>b DEF RunInv, Current
<1>1. CASE BeginReload
  BY <1>1 DEF BeginReload
<1>2. CASE Unloaded
  BY <1>2, <1>d DEF Unloaded, SetUp
<1>3. CASE Retry
  BY <1>3, <1>d DEF Retry, SetUp
<1>4. CASE FirstRefreshed
  <2>1. phase = "refresh" /\ UNCHANGED <<options, missed>>
    BY <1>4 DEF FirstRefreshed, PhaseInv, history
  <2>2. CASE phase' = "retry"
    BY <2>2
  <2>3. CASE phase' = "forward" /\ Build
    <3>1. /\ running'.overrides = options.overrides /\ running'.managed = options.managed
          /\ running'.debug = running.debug
      BY <1>d, <2>3 DEF Build
    <3>2. QED
      BY <2>1, <2>3, <3>1
  <2>4. QED
    BY <1>4, <2>2, <2>3 DEF FirstRefreshed
<1>5. CASE PlatformsForwarded
  <2>1. /\ UNCHANGED <<options, running, reloads, missed, stray>>
        /\ phase = "forward" /\ phase' \in {"forward", "up"}
    BY <1>5 DEF PlatformsForwarded, history
  <2>2. \A g \in Flows : at'[g] = at[g] /\ read'[g] = read[g] /\ form'[g] = form[g]
    BY <1>5 DEF PlatformsForwarded
  <2>3. QED
    BY <2>1, <2>2, <1>e
<1>6. CASE ManagerStarted
  <2>1. /\ UNCHANGED <<running, reloads, missed, stray>>
        /\ phase = "forward" /\ phase' = "up"
    BY <1>6 DEF ManagerStarted, history, PhaseInv
  <2>2. PICK m : options' = [options EXCEPT !.migrated = m]
    BY <1>6 DEF ManagerStarted
  <2>3. /\ options'.overrides = options.overrides /\ options'.debug = options.debug
        /\ options'.managed = options.managed
    BY <1>d, <2>2
  <2>4. \A g \in Flows : at'[g] = at[g] /\ read'[g] = read[g] /\ form'[g] = form[g]
    BY <1>6 DEF ManagerStarted
  <2>5. QED
    BY <2>1, <2>3, <2>4, <1>e
<1>7. CASE Poll
  <2>1. UNCHANGED <<options, running, phase, reloads, missed, stray>>
    BY <1>7 DEF Poll, history
  <2>2. \A g \in Flows : at'[g] = "sync" =>
                          at[g] = "sync" /\ read'[g] = read[g] /\ form'[g] = form[g]
    BY <1>7 DEF Poll
  <2>3. QED
    BY <2>1, <2>2, RunRests
<1>8. CASE Polled
  <2>1. UNCHANGED <<options, running, phase, reloads, missed, stray>>
    BY <1>8 DEF Polled, history
  <2>2. \A g \in Flows : at'[g] = "sync" =>
                          at[g] = "sync" /\ read'[g] = read[g] /\ form'[g] = form[g]
    BY <1>8 DEF Polled
  <2>3. QED
    BY <2>1, <2>2, RunRests
<1>9. ASSUME NEW f \in Flows, BeginSave(f) PROVE RunInv'
  <2>1. UNCHANGED <<options, running, phase, reloads, missed, stray>>
    BY <1>9 DEF BeginSave, history
  <2>2. \A g \in Flows : at'[g] = "sync" =>
                          at[g] = "sync" /\ read'[g] = read[g] /\ form'[g] = form[g]
    BY <1>9 DEF BeginSave, Submit
  <2>3. QED
    BY <2>1, <2>2, RunRests
<1>10. ASSUME NEW f \in Flows, Advanced(f) PROVE RunInv'
  <2>1. PICK o : Update(o)
    BY <1>10 DEF Advanced
  <2>2. UNCHANGED <<running, phase, at, form, read, stray>>
    BY <1>10 DEF Advanced, dialogs
  <2>3. QED
    BY <2>1, <2>2, UpdateIsHeard
<1>11. ASSUME NEW f \in Flows, BeginCall(f) PROVE RunInv'
  <2>1. UNCHANGED <<options, running, phase, reloads, missed, stray>>
    BY <1>11 DEF BeginCall, history
  <2>2. \A g \in Flows : at'[g] = "sync" =>
                          at[g] = "sync" /\ read'[g] = read[g] /\ form'[g] = form[g]
    BY <1>11 DEF BeginCall, Submit
  <2>3. QED
    BY <2>1, <2>2, RunRests
<1>12. ASSUME NEW f \in Flows, Answered(f) PROVE RunInv'
  <2>1. PICK outcome \in Outcomes :
          /\ UNCHANGED phase /\ at[f] # "idle" /\ Fault(outcome)
          /\ \/ Closes(f, outcome) \/ AsksAgain(f, outcome) \/ Holds(f, outcome)
             \/ \E base \in Overrides : Saves(f, outcome, base)
    BY <1>12, AnswerCases
  <2>2. CASE Closes(f, outcome)
    <3>1. UNCHANGED <<options, running, phase, reloads, missed, stray>>
      BY <2>1, <2>2 DEF Closes, history
    <3>2. \A g \in Flows : at'[g] = "sync" =>
                          at[g] = "sync" /\ read'[g] = read[g] /\ form'[g] = form[g]
      BY <2>2 DEF Closes, Leave
    <3>3. QED
      BY <3>1, <3>2, RunRests
  <2>3. CASE AsksAgain(f, outcome)
    <3>1. UNCHANGED <<options, running, phase, reloads, missed, stray>>
      BY <2>1, <2>3 DEF AsksAgain, history
    <3>2. \A g \in Flows : at'[g] = "sync" =>
                          at[g] = "sync" /\ read'[g] = read[g] /\ form'[g] = form[g]
      BY <2>3 DEF AsksAgain
    <3>3. QED
      BY <3>1, <3>2, RunRests
  <2>4. CASE Holds(f, outcome)
    <3>1. UNCHANGED <<options, phase, reloads, missed, form>> /\ f \in stray'
      BY <2>1, <2>4 DEF Holds
    <3>2. /\ running'.overrides = Edited(options.overrides, form[f])
          /\ running'.debug = running.debug /\ running'.managed = running.managed
      BY <2>4, <1>d DEF Holds
    <3>3. read'[f] = options.overrides /\ form'[f] = form[f]
      BY <2>4 DEF Holds
    <3>4. running'.overrides = Edited(read'[f], form'[f])
      BY <3>2, <3>3 DEF Edited
    <3>5. QED
      BY <3>1, <3>2, <3>4
  <2>5. ASSUME NEW base \in Overrides, Saves(f, outcome, base) PROVE RunInv'
    <3>1. Update([options EXCEPT !.overrides = Edited(base, form[f])]) /\ UNCHANGED running
      BY <2>5 DEF Saves, Save, _finish
    <3>2. /\ Current' => Current /\ options' = options
          /\ phase = "refresh" /\ ~missed' => ~missed /\ options'.debug = options.debug
      BY <2>1, <3>1, UpdateIsHeard
    <3>3. at'[f] = "idle" /\ options'.overrides = Edited(base, form[f])
      BY <2>5, <1>d, SaveWrites
    <3>4. \A g \in Flows \ {f} :
            at'[g] = at[g] /\ form'[g] = form[g] /\ read'[g] = read[g]
      BY <2>5, SaveWrites
    <3>5. CASE at[f] = "sync" /\ base = read[f] /\ stray' = stray \ {f}
      <4> SUFFICES ASSUME Current', running.managed,
                          running.overrides # options.overrides
                   PROVE  \E g \in stray' : at'[g] = "sync" =>
                            running.overrides = Edited(read'[g], form'[g])
        BY <2>1, <3>1, <3>2
      <4>1. PICK g \in stray : at[g] = "sync" =>
                                running.overrides = Edited(read[g], form[g])
        BY <3>2
      <4>2. g # f
        BY <3>2, <3>3, <3>5, <4>1
      <4>3. QED
        BY <3>4, <3>5, <4>1, <4>2, <1>e
    <3>6. CASE ~(HasRuntime /\ running.managed)
      <4>1. Current => HasRuntime
        BY DEF HasRuntime
      <4>2. QED
        BY <2>1, <3>1, <3>2, <3>6, <4>1
    <3>7. QED
      BY <2>5, <3>5, <3>6 DEF Saves
  <2>6. QED
    BY <2>1, <2>2, <2>3, <2>4, <2>5
<1>13. CASE UNCHANGED vars
  <2>1. UNCHANGED <<options, running, phase, reloads, missed, stray>>
    BY <1>13 DEF vars, dialogs, history
  <2>2. \A g \in Flows : at'[g] = "sync" =>
                          at[g] = "sync" /\ read'[g] = read[g] /\ form'[g] = form[g]
    BY <1>13 DEF vars, dialogs, history
  <2>3. QED
    BY <2>1, <2>2, RunRests
<1>14. ASSUME NEW t \in Tasks, TaskMoves(t) PROVE RunInv'
  <2>1. UNCHANGED <<options, running, phase, reloads, missed, stray>>
    BY <1>14, TaskAlone DEF history
  <2>2. \A g \in Flows : at'[g] = "sync" =>
                          at[g] = "sync" /\ read'[g] = read[g] /\ form'[g] = form[g]
    BY <1>14, TaskAlone
  <2>3. QED
    BY <2>1, <2>2, RunRests
<1>15. QED
  BY <1>1, <1>2, <1>3, <1>4, <1>5, <1>6, <1>7, <1>8, <1>9,
     <1>10, <1>11, <1>12, <1>13, <1>14
  DEF Next, Entry, Begun, TaskMoves

-----------------------------------------------------------------------------
(* The theorems.                                                            *)

LEMMA InitHolds == Init => IInv
<1> SUFFICES ASSUME Init PROVE IInv
  OBVIOUS
<1> USE FlowAssumption, BlankTyped
<1>1. ShapeInv
  BY DEF Init, ShapeInv
<1>2. IsFiniteSet(flying) /\ Cardinality(flying) = 1 /\ flying = {Coordinator}
  BY FS_Singleton DEF Init, ClientInit
<1>3. ClientTypeOK /\ Accounting /\ FlightInv
  <2>1. /\ analyzing = FALSE /\ requests = 1
        /\ failures = 0 /\ observed = 0 /\ dropped = 0 /\ at[Coordinator] = "first"
    BY DEF Init, ClientInit
  <2>a. analyzing \in BOOLEAN
    BY DEF Init, ClientInit
  <2>b. {requests, failures, observed, dropped} \subseteq Nat
    BY <2>1
  <2>c. FlightInv
    BY <1>2, <2>1 DEF FlightInv
  <2>2. ClientTypeOK /\ FlightInv
    BY <1>2, <2>a, <2>b, <2>c DEF ClientTypeOK
  <2>3. observed = 0 /\ requests >= failures + dropped + Cardinality(flying)
    BY <1>2, <2>1
  <2>4. QED
    BY <2>1, <2>2, <2>3 DEF Accounting
<1>4. CountersOK
  <2>1. phase = "refresh" /\ reloads = 0 /\ submissions = 0 /\ polls = 0 /\ faults = 0
    BY DEF Init
  <2>2. missed \in BOOLEAN /\ overlapped \in BOOLEAN /\ stray = {}
    BY DEF Init
  <2>3. QED
    BY <2>1, <2>2 DEF CountersOK
<1>a. DialogsOK
  <2>1. at[Coordinator] = "first"
    BY DEF Init
  <2>2. \A f \in Flows : at[f] = "idle" /\ form[f] = Blank /\ read[f] = None
    BY DEF Init
  <2>3. \A t \in Tasks : at[t] = "idle"
    BY DEF Init
  <2>4. QED
    BY <2>1, <2>2, <2>3 DEF DialogsOK
<1>5. OptionsOK
  BY DEF Init, OptionsOK, Settings, Overrides, None
<1>6. TypeOK
  BY <1>1, <1>3, <1>4, <1>a, <1>5, TypeParts
<1>7. SettingsStay /\ LostByOverlapOnly /\ ReadInv /\ PhaseInv /\ RunInv
  BY DEF Init, SettingsStay, LostByOverlapOnly, ReadInv, PhaseInv, RunInv, Current
<1>8. QED
  BY <1>1, <1>3, <1>6, <1>7 DEF IInv

LEMMA Invariance == Spec => []IInv
<1>1. IInv /\ [Next]_vars => IInv'
  <2> SUFFICES ASSUME IInv, [Next]_vars PROVE IInv'
    OBVIOUS
  <2> USE DEF IInv
  <2>1. ClientInv
    BY DEF FlightInv, TypeOK, ClientInv
  <2>2. CountersOK' /\ OptionsOK' /\ (ShapeInv /\ DialogsOK)'
    BY CountersStep, OptionsStep, DialogsStep
  <2>3. (ClientInv /\ FlightInv)'
    BY <2>1, FlightStep
  <2>4. TypeOK'
    <3>1. (TypeOK <=> ClientTypeOK /\ CountersOK /\ OptionsOK /\ DialogsOK)'
      BY <2>2, TypeParts, PTL
    <3>2. QED
      BY <2>2, <2>3, <3>1 DEF ClientInv
  <2>5. (SettingsStay /\ LostByOverlapOnly /\ ReadInv)' /\ PhaseInv' /\ RunInv'
    BY SavedStep, PhaseStep, RunStep
  <2>6. QED
    BY <2>2, <2>3, <2>4, <2>5 DEF ClientInv
<1>2. QED
  BY <1>1, InitHolds, PTL DEF Spec

\* Every variable of the options, the dialogs and the client keeps its type.
THEOREM TypeCorrect == Spec => []TypeOK
<1>1. IInv => TypeOK
  BY DEF IInv
<1>2. QED
  BY <1>1, Invariance, PTL

\* What the advanced dialog saved is stored, whoever saves in between.
THEOREM SettingsAreKept == Spec => []SettingsStay
<1>1. IInv => SettingsStay
  BY DEF IInv
<1>2. QED
  BY <1>1, Invariance, PTL

\* Only a save over a synchronization of another dialog loses overrides.
THEOREM OverlapAloneLoses == Spec => []LostByOverlapOnly
<1>1. IInv => LostByOverlapOnly
  BY DEF IInv
<1>2. QED
  BY <1>1, Invariance, PTL

\* An entry at rest runs the stored options.
THEOREM SavedIsRun == Spec => []RunsWhatIsSaved
<1>1. IInv => RunsWhatIsSaved
  BY DEF IInv, RunInv, Current, RunsWhatIsSaved
<1>2. QED
  BY <1>1, Invariance, PTL

\* Every request of the current client is in flight or in one account of the counters,
\* but for those that were cancelled or whose body was no text.
THEOREM RequestsAddUp == Spec => []Accounting
<1>1. IInv => Accounting
  BY DEF IInv
<1>2. QED
  BY <1>1, Invariance, PTL
=============================================================================
