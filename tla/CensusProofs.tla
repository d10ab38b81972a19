------------------------------ MODULE CensusProofs ------------------------------
(* Theorems about Census, for every set of browser flows, every number of   *)
(* queries of a poll and every set of faults.                               *)
EXTENDS Census, TLAPS

(***************************************************************************)
(* The inductive invariant.  Each part is about one property.               *)
(***************************************************************************)
\* As long as no call failed: a flow that believes in its census has a cleanup task,
\* unless it is about to stop it, and starts it only while it believes in it.
WatchInv ==
  ~trouble =>
    /\ firmware # "normal" => \E f \in Flows : active[f] /\ timer[f] # "off"
    /\ \A f \in Flows :
         /\ active[f] /\ at[f] # "stop" => timer[f] # "off"
         /\ at[f] = "start" => active[f]

\* The flow that put the gateway into the census, whatever it knows, is on its way to a
\* stop that the gateway has confirmed.
DoneInv == firmware # "normal" => \E f \in Flows : at[f] \notin {"done", "resend"}

\* A stop never leads back to the menu, where another clear may begin.
ResumeInv == \A f \in Flows : at[f] = "stop" => resume[f] # "menu"

\* As long as no call failed: who may clear has the snapshot of what the table holds by
\* then, an empty one was taken behind the clear that emptied the table, and all the
\* others are of the one table there was.
KeepInv ==
  ~trouble =>
    /\ destroyed \in Tables =>
         \/ saved = Snapshot(destroyed)
         \/ \E f \in Flows : pending[f] = Snapshot(destroyed) /\ at[f] # "done"
    /\ table \in Tables => destroyed \notin Tables
    /\ \A f \in Flows :
         /\ at[f] \in {"menu", "identify", "snapshot"} => pending[f] = "none"
         /\ at[f] = "clear" => pending[f] # "none"
         /\ pending[f] = "empty" => table = "empty"
         /\ pending[f] = "empty" /\ at[f] # "clear" => destroyed \notin Tables
         /\ pending[f] \in {"small", "cut"} /\ table \in Tables =>
              pending[f] = Snapshot(table)
         /\ pending[f] \in {"small", "cut"} /\ destroyed \in Tables =>
              pending[f] = Snapshot(destroyed)

IInv == TypeOK /\ WatchInv /\ DoneInv /\ ResumeInv /\ KeepInv
-----------------------------------------------------------------------------
(* Type correctness.                                                        *)

\* A poll counts its queries and ends before there are too many.
LEMMA PolledTyped ==
  ASSUME TypeOK, NEW f \in Flows, PollAnswered(f)
  PROVE  polled' \in [Flows -> 0..(Polls - 1)]
<1>1. polled \in [Flows -> 0..(Polls - 1)] /\ Polls \in Nat \ {0}
  BY PollAssumption DEF TypeOK
<1>2. polled[f] \in 0..(Polls - 1)
  BY <1>1
<1>3. \/ polled' = [polled EXCEPT ![f] = 0]
      \/ polled[f] + 1 < Polls /\ polled' = [polled EXCEPT ![f] = polled[f] + 1]
  BY DEF PollAnswered, Set
<1>4. PICK n \in 0..(Polls - 1) : polled' = [polled EXCEPT ![f] = n]
  BY <1>1, <1>2, <1>3
<1>5. QED
  BY <1>1, <1>4

LEMMA TypeStep == TypeOK /\ [Next]_vars => TypeOK'
<1> SUFFICES ASSUME TypeOK, [Next]_vars PROVE TypeOK'
  OBVIOUS
<1> USE PollAssumption DEF TypeOK, Forms, Calls, Set, devices, _finish
<1>1. ASSUME NEW f \in Flows, SubmitPrepare(f), UNCHANGED devices, _finish(f) PROVE TypeOK'
  BY <1>1 DEF SubmitPrepare
<1>2. ASSUME NEW f \in Flows, SubmitStart(f), UNCHANGED devices, _finish(f) PROVE TypeOK'
  BY <1>2 DEF SubmitStart
<1>3. ASSUME NEW f \in Flows, ScanAgain(f), UNCHANGED devices, _finish(f) PROVE TypeOK'
  BY <1>3 DEF ScanAgain, BeginStop
<1>4. ASSUME NEW f \in Flows, AddManual(f), UNCHANGED devices, _finish(f) PROVE TypeOK'
  BY <1>4 DEF AddManual, BeginStop
<1>5. ASSUME NEW f \in Flows, SubmitManual(f), UNCHANGED devices, _finish(f) PROVE TypeOK'
  BY <1>5 DEF SubmitManual
<1>6. ASSUME NEW f \in Flows, Accept(f), UNCHANGED devices, _finish(f) PROVE TypeOK'
  BY <1>6 DEF Accept
<1>7. ASSUME NEW f \in Flows, SubmitRecovery(f), UNCHANGED devices, _finish(f) PROVE TypeOK'
  BY <1>7 DEF SubmitRecovery, BeginStop
<1>8. ASSUME NEW f \in Flows, SubmitClear(f), _finish(f) PROVE TypeOK'
  BY <1>8 DEF SubmitClear
<1>9. ASSUME NEW f \in Flows, Reopen(f), _finish(f) PROVE TypeOK'
  BY <1>9 DEF Reopen
<1>10. ASSUME NEW f \in Flows, PrepareAnswered(f), UNCHANGED devices, _finish(f) PROVE TypeOK'
  BY <1>10 DEF PrepareAnswered, Prepared, Gateway
<1>11. ASSUME NEW f \in Flows, StartAnswered(f), UNCHANGED devices, _finish(f) PROVE TypeOK'
  BY <1>11 DEF StartAnswered, BeginStop, Gateway
<1>12. ASSUME NEW f \in Flows, PollAnswered(f), UNCHANGED devices, _finish(f) PROVE TypeOK'
  <2>1. polled' \in [Flows -> 0..(Polls - 1)]
    BY <1>12, PolledTyped
  <2>2. /\ at' \in [Flows -> Forms \cup Calls] /\ resume' \in [Flows -> Forms \cup {"prepare"}]
        /\ active' \in [Flows -> BOOLEAN] /\ timer' \in [Flows -> {"off", "armed", "stopping"}]
    BY <1>12 DEF PollAnswered, BeginStop
  <2>3. trouble' \in BOOLEAN /\ firmware' = firmware
    BY <1>12 DEF PollAnswered
  <2>4. QED
    BY <1>12, <2>1, <2>2, <2>3
<1>13. ASSUME NEW f \in Flows, StopAnswered(f), UNCHANGED devices, _finish(f) PROVE TypeOK'
  <2>1. PICK o \in Outcomes : /\ Gateway("normal", o)
                              /\ active' = Set(active, f, active[f] /\ o # "ok")
                              /\ at' = Set(at, f, IF o = "ok" THEN resume[f] ELSE "recovery")
    BY <1>13 DEF StopAnswered
  <2>2. at' \in [Flows -> Forms \cup Calls] /\ resume' \in [Flows -> Forms \cup {"prepare"}]
    BY <1>13, <2>1 DEF StopAnswered
  <2>3. active' \in [Flows -> BOOLEAN] /\ trouble' \in BOOLEAN
    BY <2>1 DEF Gateway
  <2>4. QED
    BY <1>13, <2>1, <2>2, <2>3 DEF StopAnswered, Gateway
<1>14. ASSUME NEW f \in Flows, ManualAnswered(f), UNCHANGED devices, _finish(f) PROVE TypeOK'
  BY <1>14 DEF ManualAnswered
<1>15. ASSUME NEW f \in Flows, AcceptAnswered(f), UNCHANGED devices, _finish(f) PROVE TypeOK'
  BY <1>15 DEF AcceptAnswered, BeginStop, Gateway
<1>16. ASSUME NEW f \in Flows, ResendAnswered(f), UNCHANGED devices, _finish(f) PROVE TypeOK'
  BY <1>16 DEF ResendAnswered, BeginStop
<1>17. ASSUME NEW f \in Flows, Identified(f), _finish(f) PROVE TypeOK'
  BY <1>17 DEF Identified
<1>18. ASSUME NEW f \in Flows, SnapshotAnswered(f), _finish(f) PROVE TypeOK'
  <2>1. at' \in [Flows -> Forms \cup Calls] /\ trouble' \in BOOLEAN
    BY <1>18 DEF SnapshotAnswered
  <2>2. pending' \in [Flows -> {"none", "small", "cut", "empty"}]
    BY <1>18, TableAssumption DEF SnapshotAnswered, Snapshot
  <2>3. QED
    BY <1>18, <2>1, <2>2 DEF SnapshotAnswered
<1>19. ASSUME NEW f \in Flows, ClearAnswered(f), _finish(f) PROVE TypeOK'
  BY <1>19 DEF ClearAnswered
<1>20. ASSUME NEW f \in Flows, ClearedPrepared(f), _finish(f) PROVE TypeOK'
  BY <1>20 DEF ClearedPrepared, Prepared, Gateway
<1>21. ASSUME NEW f \in Flows, TimerFires(f), UNCHANGED devices, UNCHANGED saved PROVE TypeOK'
  BY <1>21 DEF TimerFires
<1>22. ASSUME NEW f \in Flows, TimerAnswered(f), UNCHANGED devices, UNCHANGED saved PROVE TypeOK'
  BY <1>22 DEF TimerAnswered
<1>23. CASE UNCHANGED vars
  BY <1>23 DEF vars, flow, devices
<1>24. QED
  BY <1>1, <1>2, <1>3, <1>4, <1>5, <1>6, <1>7, <1>8, <1>9, <1>10, <1>11, <1>12,
     <1>13, <1>14, <1>15, <1>16, <1>17, <1>18, <1>19, <1>20, <1>21, <1>22, <1>23
  DEF Next, User, Answer, Cleanup

-----------------------------------------------------------------------------
(* A call that several parts look at.                                       *)

\* What a poll does next: it asks again, shows the table, or stops the census.
LEMMA PollGoesOn ==
  ASSUME TypeOK, NEW f \in Flows, PollAnswered(f)
  PROVE  /\ at[f] = "poll" /\ UNCHANGED firmware /\ (trouble => trouble')
         /\ \/ UNCHANGED <<at, resume, active, timer>>
            \/ /\ at' = [at EXCEPT ![f] = "review"]
               /\ UNCHANGED <<resume, active, timer>>
            \/ BeginStop(f, "prepare form", active[f])
<1>1. at[f] = "poll" /\ UNCHANGED firmware
  BY DEF PollAnswered
<1>2. trouble' = trouble \/ trouble' = TRUE
  BY DEF PollAnswered
<1>3. \/ UNCHANGED <<at, resume, active, timer>>
      \/ at' = [at EXCEPT ![f] = "review"] /\ UNCHANGED <<resume, active, timer>>
      \/ BeginStop(f, "prepare form", active[f])
  BY Zenon DEF PollAnswered, Set
<1>4. trouble => trouble'
  BY <1>2
<1>5. QED
  BY <1>1, <1>3, <1>4, Zenon

-----------------------------------------------------------------------------
(* The watch over the census.                                               *)

\* _stop_census_best_effort forgets the cleanup task of nobody but a flow without a
\* census.
LEMMA StopWatched ==
  ASSUME TypeOK, WatchInv, NEW f \in Flows, NEW next, next # "start",
         BeginStop(f, next, active[f]), UNCHANGED firmware, trouble => trouble'
  PROVE  WatchInv'
<1>1. \A g \in Flows : active'[g] <=> active[g]
  <2>1. active \in [Flows -> BOOLEAN] /\ active[f] \in BOOLEAN
    BY DEF TypeOK
  <2>2. CASE active[f]
    BY <2>1, <2>2 DEF BeginStop, Set
  <2>3. CASE ~active[f]
    BY <2>1, <2>3 DEF BeginStop, Set
  <2>4. QED
    BY <2>2, <2>3
<1>2. \A g \in Flows \ {f} : at'[g] = at[g] /\ timer'[g] = timer[g]
  BY DEF BeginStop, Set, TypeOK
<1>3. /\ at'[f] # "start"
      /\ active[f] => at'[f] = "stop" /\ timer'[f] = timer[f]
  BY DEF BeginStop, Set, TypeOK
<1>4. QED
  BY <1>1, <1>2, <1>3 DEF WatchInv

\* Every step keeps the watch: a gateway that obeys is the business of the flow whose
\* call it obeyed.
LEMMA WatchStep == TypeOK /\ WatchInv /\ [Next]_vars => WatchInv'
<1> SUFFICES ASSUME TypeOK, WatchInv, [Next]_vars PROVE WatchInv'
  OBVIOUS
<1> USE DEF TypeOK, WatchInv, Set
<1>1. ASSUME NEW f \in Flows, SubmitPrepare(f) PROVE WatchInv'
  BY <1>1 DEF SubmitPrepare
<1>2. ASSUME NEW f \in Flows, SubmitStart(f) PROVE WatchInv'
  BY <1>2 DEF SubmitStart
<1>3. ASSUME NEW f \in Flows, ScanAgain(f) PROVE WatchInv'
  BY <1>3, StopWatched DEF ScanAgain
<1>4. ASSUME NEW f \in Flows, AddManual(f) PROVE WatchInv'
  BY <1>4, StopWatched DEF AddManual
<1>5. ASSUME NEW f \in Flows, SubmitManual(f) PROVE WatchInv'
  BY <1>5 DEF SubmitManual
<1>6. ASSUME NEW f \in Flows, Accept(f) PROVE WatchInv'
  BY <1>6 DEF Accept
<1>7. ASSUME NEW f \in Flows, SubmitRecovery(f) PROVE WatchInv'
  BY <1>7 DEF SubmitRecovery, BeginStop
<1>8. ASSUME NEW f \in Flows, SubmitClear(f) PROVE WatchInv'
  BY <1>8 DEF SubmitClear
<1>9. ASSUME NEW f \in Flows, Reopen(f) PROVE WatchInv'
  BY <1>9 DEF Reopen
<1>10. ASSUME NEW f \in Flows, PrepareAnswered(f) PROVE WatchInv'
  <2>1. CASE ~trouble'
    <3>1. /\ active' = [active EXCEPT ![f] = TRUE] /\ timer' = [timer EXCEPT ![f] = "armed"]
          /\ at' = [at EXCEPT ![f] = "start form"] /\ ~trouble
      BY <1>10, <2>1 DEF PrepareAnswered, Prepared, Gateway
    <3>2. QED
      BY <3>1
  <2>2. QED
    BY <2>1
<1>11. ASSUME NEW f \in Flows, StartAnswered(f) PROVE WatchInv'
  BY <1>11 DEF StartAnswered, BeginStop, Gateway
<1>12. ASSUME NEW f \in Flows, PollAnswered(f) PROVE WatchInv'
  <2>1. CASE BeginStop(f, "prepare form", active[f])
    BY <1>12, <2>1, PollGoesOn, StopWatched
  <2>2. CASE /\ at' = [at EXCEPT ![f] = "review"] \/ at' = at
             /\ UNCHANGED <<active, timer>>
    BY <1>12, <2>2, PollGoesOn
  <2>3. QED
    BY <1>12, <2>1, <2>2, PollGoesOn
<1>13. ASSUME NEW f \in Flows, StopAnswered(f) PROVE WatchInv'
  <2>1. CASE ~trouble'
    <3>1. /\ firmware' = "normal" /\ ~trouble /\ active' = [active EXCEPT ![f] = FALSE]
          /\ at' = [at EXCEPT ![f] = resume[f]] /\ timer' = [timer EXCEPT ![f] = "off"]
      BY <1>13, <2>1 DEF StopAnswered, Gateway
    <3>2. resume[f] # "start"
      BY DEF Forms
    <3>3. QED
      BY <3>1, <3>2
  <2>2. QED
    BY <2>1
<1>14. ASSUME NEW f \in Flows, ManualAnswered(f) PROVE WatchInv'
  BY <1>14 DEF ManualAnswered
<1>15. ASSUME NEW f \in Flows, AcceptAnswered(f) PROVE WatchInv'
  BY <1>15 DEF AcceptAnswered, BeginStop, Gateway
<1>16. ASSUME NEW f \in Flows, ResendAnswered(f) PROVE WatchInv'
  BY <1>16 DEF ResendAnswered, BeginStop
<1>17. ASSUME NEW f \in Flows, Identified(f) PROVE WatchInv'
  BY <1>17 DEF Identified
<1>18. ASSUME NEW f \in Flows, SnapshotAnswered(f) PROVE WatchInv'
  BY <1>18 DEF SnapshotAnswered
<1>19. ASSUME NEW f \in Flows, ClearAnswered(f) PROVE WatchInv'
  BY <1>19 DEF ClearAnswered
<1>20. ASSUME NEW f \in Flows, ClearedPrepared(f) PROVE WatchInv'
  <2>1. CASE ~trouble'
    <3>1. /\ active' = [active EXCEPT ![f] = TRUE] /\ timer' = [timer EXCEPT ![f] = "armed"]
          /\ at' = [at EXCEPT ![f] = "start form"] /\ ~trouble
      BY <1>20, <2>1 DEF ClearedPrepared, Prepared, Gateway
    <3>2. QED
      BY <3>1
  <2>2. QED
    BY <2>1
<1>21. ASSUME NEW f \in Flows, TimerFires(f) PROVE WatchInv'
  BY <1>21 DEF TimerFires
<1>22. ASSUME NEW f \in Flows, TimerAnswered(f) PROVE WatchInv'
  <2>1. CASE ~trouble'
    <3>1. /\ firmware' = "normal" /\ ~trouble /\ at' = at /\ at[f] \notin Calls
          /\ active' = [active EXCEPT ![f] = FALSE] /\ timer' = [timer EXCEPT ![f] = "off"]
      BY <1>22, <2>1 DEF TimerAnswered
    <3>2. at[f] # "start"
      BY <3>1 DEF Calls
    <3>3. QED
      BY <3>1, <3>2
  <2>2. QED
    BY <2>1
<1>23. CASE UNCHANGED vars
  BY <1>23 DEF vars, flow, devices
<1>24. QED
  BY <1>1, <1>2, <1>3, <1>4, <1>5, <1>6, <1>7, <1>8, <1>9, <1>10, <1>11, <1>12,
     <1>13, <1>14, <1>15, <1>16, <1>17, <1>18, <1>19, <1>20, <1>21, <1>22, <1>23
  DEF Next, User, Answer, Cleanup

-----------------------------------------------------------------------------
(* The end of the flows.                                                    *)

\* A flow that begins to stop is on its way.
LEMMA StopOnTheWay ==
  ASSUME TypeOK, DoneInv, ResumeInv, NEW f \in Flows, NEW next, NEW a \in BOOLEAN,
         BeginStop(f, next, a), next \notin {"menu", "stop"}, UNCHANGED firmware,
         next \in {"done", "resend"} => a \/ at[f] = "resend"
  PROVE  (DoneInv /\ ResumeInv)'
<1>1. CASE a
  <2>1. at' = [at EXCEPT ![f] = "stop"] /\ resume' = [resume EXCEPT ![f] = next]
    BY <1>1 DEF BeginStop, Set
  <2>2. QED
    BY <2>1 DEF DoneInv, ResumeInv, TypeOK
<1>2. CASE ~a
  <2>1. at' = [at EXCEPT ![f] = next] /\ UNCHANGED resume
    BY <1>2 DEF BeginStop, Set
  <2>2. QED
    BY <1>2, <2>1 DEF DoneInv, ResumeInv, TypeOK
<1>3. QED
  BY <1>1, <1>2

\* Every step keeps some flow on its way to a confirmed stop.
LEMMA DoneStep ==
  TypeOK /\ DoneInv /\ ResumeInv /\ [Next]_vars => (DoneInv /\ ResumeInv)'
<1> SUFFICES ASSUME TypeOK, DoneInv, ResumeInv, [Next]_vars
             PROVE  (DoneInv /\ ResumeInv)'
  OBVIOUS
<1> USE DEF DoneInv, ResumeInv, Set, TypeOK
<1>a. \A f \in Flows : active[f] \in BOOLEAN
  OBVIOUS
<1>1. ASSUME NEW f \in Flows, SubmitPrepare(f) PROVE (DoneInv /\ ResumeInv)'
  BY <1>1 DEF SubmitPrepare
<1>2. ASSUME NEW f \in Flows, SubmitStart(f) PROVE (DoneInv /\ ResumeInv)'
  BY <1>2 DEF SubmitStart
<1>3. ASSUME NEW f \in Flows, ScanAgain(f) PROVE (DoneInv /\ ResumeInv)'
  <2>1. BeginStop(f, "prepare", active[f]) /\ UNCHANGED firmware
    BY <1>3 DEF ScanAgain
  <2>2. QED
    <3> HIDE DEF TypeOK, DoneInv, ResumeInv
    <3> QED
      BY <1>a, <2>1, StopOnTheWay
<1>4. ASSUME NEW f \in Flows, AddManual(f) PROVE (DoneInv /\ ResumeInv)'
  <2>1. BeginStop(f, "manual form", active[f]) /\ UNCHANGED firmware
    BY <1>4 DEF AddManual
  <2>2. QED
    <3> HIDE DEF TypeOK, DoneInv, ResumeInv
    <3> QED
      BY <1>a, <2>1, StopOnTheWay
<1>5. ASSUME NEW f \in Flows, SubmitManual(f) PROVE (DoneInv /\ ResumeInv)'
  BY <1>5 DEF SubmitManual
<1>6. ASSUME NEW f \in Flows, Accept(f) PROVE (DoneInv /\ ResumeInv)'
  BY <1>6 DEF Accept
<1>7. ASSUME NEW f \in Flows, SubmitRecovery(f) PROVE (DoneInv /\ ResumeInv)'
  <2>1. BeginStop(f, "done", TRUE) /\ UNCHANGED firmware
    BY <1>7 DEF SubmitRecovery
  <2>2. QED
    <3> HIDE DEF TypeOK, DoneInv, ResumeInv
    <3> QED
      BY <1>a, <2>1, StopOnTheWay
<1>8. ASSUME NEW f \in Flows, SubmitClear(f) PROVE (DoneInv /\ ResumeInv)'
  BY <1>8 DEF SubmitClear
<1>9. ASSUME NEW f \in Flows, Reopen(f) PROVE (DoneInv /\ ResumeInv)'
  BY <1>9 DEF Reopen
<1>10. ASSUME NEW f \in Flows, PrepareAnswered(f) PROVE (DoneInv /\ ResumeInv)'
  BY <1>10 DEF PrepareAnswered, Prepared, Gateway
<1>11. ASSUME NEW f \in Flows, StartAnswered(f) PROVE (DoneInv /\ ResumeInv)'
  <2>1. CASE at' = [at EXCEPT ![f] = "poll"] /\ UNCHANGED resume
    BY <2>1
  <2>2. CASE active[f] /\ BeginStop(f, "prepare form", active[f])
    BY <2>2 DEF BeginStop
  <2>3. CASE ~active[f] /\ BeginStop(f, "prepare form", active[f])
    BY <2>3 DEF BeginStop
  <2>4. QED
    BY <1>11, <2>1, <2>2, <2>3 DEF StartAnswered
<1>12. ASSUME NEW f \in Flows, PollAnswered(f) PROVE (DoneInv /\ ResumeInv)'
  <2>1. CASE at' = at /\ UNCHANGED resume
    BY <1>12, <2>1, PollGoesOn
  <2>2. CASE at' = [at EXCEPT ![f] = "review"] /\ UNCHANGED resume
    BY <2>2
  <2>3. CASE BeginStop(f, "prepare form", active[f])
    <3> HIDE DEF TypeOK, DoneInv, ResumeInv
    <3> QED
      BY <1>12, <1>a, <2>3, PollGoesOn, StopOnTheWay
  <2>4. QED
    BY <1>12, <2>1, <2>2, <2>3, PollGoesOn
<1>13. ASSUME NEW f \in Flows, StopAnswered(f) PROVE (DoneInv /\ ResumeInv)'
  <2>1. CASE at' = [at EXCEPT ![f] = "recovery"]
    BY <1>13, <2>1 DEF StopAnswered
  <2>2. CASE firmware' = "normal" /\ at' = [at EXCEPT ![f] = resume[f]]
    <3>1. resume[f] # "stop"
      BY DEF Forms
    <3>2. QED
      BY <1>13, <2>2, <3>1 DEF StopAnswered
  <2>3. QED
    BY <1>13, <2>1, <2>2 DEF StopAnswered, Gateway
<1>14. ASSUME NEW f \in Flows, ManualAnswered(f) PROVE (DoneInv /\ ResumeInv)'
  BY <1>14 DEF ManualAnswered
<1>15. ASSUME NEW f \in Flows, AcceptAnswered(f) PROVE (DoneInv /\ ResumeInv)'
  BY <1>15 DEF AcceptAnswered, BeginStop, Gateway
<1>16. ASSUME NEW f \in Flows, ResendAnswered(f) PROVE (DoneInv /\ ResumeInv)'
  BY <1>16 DEF ResendAnswered, BeginStop
<1>17. ASSUME NEW f \in Flows, Identified(f) PROVE (DoneInv /\ ResumeInv)'
  BY <1>17 DEF Identified
<1>18. ASSUME NEW f \in Flows, SnapshotAnswered(f) PROVE (DoneInv /\ ResumeInv)'
  BY <1>18 DEF SnapshotAnswered
<1>19. ASSUME NEW f \in Flows, ClearAnswered(f) PROVE (DoneInv /\ ResumeInv)'
  BY <1>19 DEF ClearAnswered
<1>20. ASSUME NEW f \in Flows, ClearedPrepared(f) PROVE (DoneInv /\ ResumeInv)'
  BY <1>20 DEF ClearedPrepared, Prepared, Gateway
<1>21. ASSUME NEW f \in Flows, TimerFires(f) PROVE (DoneInv /\ ResumeInv)'
  BY <1>21 DEF TimerFires
<1>22. ASSUME NEW f \in Flows, TimerAnswered(f) PROVE (DoneInv /\ ResumeInv)'
  BY <1>22 DEF TimerAnswered
<1>23. CASE UNCHANGED vars
  BY <1>23 DEF vars, flow, devices
<1>24. QED
  BY <1>1, <1>2, <1>3, <1>4, <1>5, <1>6, <1>7, <1>8, <1>9, <1>10, <1>11, <1>12,
     <1>13, <1>14, <1>15, <1>16, <1>17, <1>18, <1>19, <1>20, <1>21, <1>22, <1>23
  DEF Next, User, Answer, Cleanup

-----------------------------------------------------------------------------
(* The danger zone.                                                         *)

\* A flow that moves on, to the end or not, keeps what was destroyed: it saves its own
\* snapshot, and an empty one only if that is all there was.
LEMMA KeptOnTheWay ==
  ASSUME TypeOK, KeepInv, NEW f \in Flows, UNCHANGED <<table, pending, destroyed>>,
         _finish(f), trouble => trouble', at[f] # "clear",
         NEW x, at' = [at EXCEPT ![f] = x], x # "clear",
         x \in {"menu", "identify", "snapshot"} =>
           at[f] \in {"menu", "identify", "snapshot"} \/ trouble'
  PROVE  KeepInv'
<1>1. CASE ~trouble'
  <2> USE <1>1 DEF TypeOK, KeepInv, _finish
  <2>1. at'[f] = x /\ \A g \in Flows \ {f} : at'[g] = at[g]
    OBVIOUS
  <2>2. saved' = saved \/ (pending[f] \in {"small", "cut", "empty"} /\ saved' = pending[f])
    OBVIOUS
  <2>3. destroyed \in Tables =>
          \/ saved' = Snapshot(destroyed)
          \/ \E g \in Flows : pending[g] = Snapshot(destroyed) /\ at'[g] # "done"
    <3> SUFFICES ASSUME destroyed \in Tables
                 PROVE  \/ saved' = Snapshot(destroyed)
                        \/ \E g \in Flows : pending[g] = Snapshot(destroyed) /\ at'[g] # "done"
      OBVIOUS
    <3>1. pending[f] # "empty"
      OBVIOUS
    <3>2. CASE saved' = pending[f] /\ pending[f] \in {"small", "cut"}
      BY <3>2
    <3>3. CASE saved' = saved /\ saved = Snapshot(destroyed)
      BY <3>3
    <3>4. CASE saved' = saved /\ saved # Snapshot(destroyed)
      <4>1. PICK g \in Flows : pending[g] = Snapshot(destroyed) /\ at[g] # "done"
        BY <3>4
      <4>2. CASE g # f
        BY <2>1, <4>1, <4>2
      <4>3. CASE g = f
        <5>1. pending[f] # "none"
          BY <4>1, <4>3, TableAssumption DEF Snapshot
        <5>2. x = "done" => saved' = pending[f]
          BY <2>1, <4>1, <4>3, <5>1
        <5>3. QED
          BY <2>1, <4>1, <4>3, <5>2
      <4>4. QED
        BY <4>2, <4>3
    <3>5. QED
      BY <2>2, <3>1, <3>2, <3>3, <3>4
  <2>4. QED
    BY <2>1, <2>3
<1>2. QED
  BY <1>1 DEF KeepInv

\* Every step keeps the devices that a clear destroyed.
LEMMA KeepStep == TypeOK /\ ResumeInv /\ KeepInv /\ [Next]_vars => KeepInv'
<1> SUFFICES ASSUME TypeOK, ResumeInv, KeepInv, [Next]_vars PROVE KeepInv'
  OBVIOUS
<1>1. ASSUME NEW f \in Flows, SubmitPrepare(f), UNCHANGED devices, _finish(f) PROVE KeepInv'
  BY <1>1, KeptOnTheWay DEF SubmitPrepare, Set, devices, Forms
<1>2. ASSUME NEW f \in Flows, SubmitStart(f), UNCHANGED devices, _finish(f) PROVE KeepInv'
  BY <1>2, KeptOnTheWay DEF SubmitStart, Set, devices, Forms
<1>3. ASSUME NEW f \in Flows, ScanAgain(f), UNCHANGED devices, _finish(f) PROVE KeepInv'
  <2>1. PICK x \in {"stop", "prepare"} : at' = [at EXCEPT ![f] = x]
    BY <1>3 DEF ScanAgain, BeginStop, Set
  <2>2. at[f] = "review" /\ (trouble => trouble')
    BY <1>3 DEF ScanAgain
  <2>3. QED
    BY <1>3, <2>1, <2>2, KeptOnTheWay DEF devices
<1>4. ASSUME NEW f \in Flows, AddManual(f), UNCHANGED devices, _finish(f) PROVE KeepInv'
  <2>1. PICK x \in {"stop", "manual form"} : at' = [at EXCEPT ![f] = x]
    BY <1>4 DEF AddManual, BeginStop, Set
  <2>2. at[f] = "review" /\ (trouble => trouble')
    BY <1>4 DEF AddManual
  <2>3. QED
    BY <1>4, <2>1, <2>2, KeptOnTheWay DEF devices
<1>5. ASSUME NEW f \in Flows, SubmitManual(f), UNCHANGED devices, _finish(f) PROVE KeepInv'
  BY <1>5, KeptOnTheWay DEF SubmitManual, Set, devices, Forms
<1>6. ASSUME NEW f \in Flows, Accept(f), UNCHANGED devices, _finish(f) PROVE KeepInv'
  BY <1>6, KeptOnTheWay DEF Accept, Set, devices, Forms
<1>7. ASSUME NEW f \in Flows, SubmitRecovery(f), UNCHANGED devices, _finish(f) PROVE KeepInv'
  <2>1. PICK x \in {"stop", "done"} : at' = [at EXCEPT ![f] = x]
    BY <1>7 DEF SubmitRecovery, BeginStop, Set
  <2>2. at[f] \in {"menu", "recovery"} /\ (trouble => trouble')
    BY <1>7 DEF SubmitRecovery
  <2>3. QED
    BY <1>7, <2>1, <2>2, KeptOnTheWay DEF devices
<1>8. ASSUME NEW f \in Flows, SubmitClear(f), _finish(f) PROVE KeepInv'
  BY <1>8, KeptOnTheWay DEF SubmitClear, Set, devices, Forms
<1>9. ASSUME NEW f \in Flows, Reopen(f), _finish(f) PROVE KeepInv'
  <2>1. /\ at[f] = "done" /\ at' = [at EXCEPT ![f] = "menu"] /\ saved' = saved
        /\ pending' = [pending EXCEPT ![f] = "none"]
        /\ UNCHANGED <<trouble, table, destroyed>>
    BY <1>9 DEF Reopen, Set, _finish
  <2>2. QED
    BY <2>1 DEF KeepInv, TypeOK
<1>10. ASSUME NEW f \in Flows, PrepareAnswered(f), UNCHANGED devices, _finish(f) PROVE KeepInv'
  <2>1. PICK x \in {"start form", "prepare form"} : at' = [at EXCEPT ![f] = x]
    BY <1>10 DEF PrepareAnswered, Prepared, Gateway, Set
  <2>2. at[f] = "prepare" /\ (trouble => trouble')
    BY <1>10 DEF PrepareAnswered, Prepared, Gateway
  <2>3. QED
    BY <1>10, <2>1, <2>2, KeptOnTheWay DEF devices
<1>11. ASSUME NEW f \in Flows, StartAnswered(f), UNCHANGED devices, _finish(f) PROVE KeepInv'
  <2>1. PICK x \in {"poll", "stop", "prepare form"} : at' = [at EXCEPT ![f] = x]
    BY <1>11 DEF StartAnswered, BeginStop, Gateway, Set
  <2>2. at[f] = "start" /\ (trouble => trouble')
    BY <1>11 DEF StartAnswered, BeginStop, Gateway
  <2>3. QED
    BY <1>11, <2>1, <2>2, KeptOnTheWay DEF devices
<1>12. ASSUME NEW f \in Flows, PollAnswered(f), UNCHANGED devices, _finish(f) PROVE KeepInv'
  <2>1. at[f] = "poll" /\ (trouble => trouble')
    BY <1>12, PollGoesOn
  <2>2. PICK x \in {"poll", "review", "stop", "prepare form"} : at' = [at EXCEPT ![f] = x]
    <3>1. CASE at' = at
      BY <2>1, <3>1 DEF TypeOK
    <3>2. CASE BeginStop(f, "prepare form", active[f])
      BY <3>2 DEF BeginStop, Set
    <3>3. QED
      BY <1>12, <3>1, <3>2, PollGoesOn
  <2>3. QED
    BY <1>12, <2>1, <2>2, KeptOnTheWay DEF devices
<1>13. ASSUME NEW f \in Flows, StopAnswered(f), UNCHANGED devices, _finish(f) PROVE KeepInv'
  <2>1. PICK x \in {resume[f], "recovery"} : at' = [at EXCEPT ![f] = x]
    BY <1>13 DEF StopAnswered, Set
  <2>2. at[f] = "stop" /\ (trouble => trouble')
    BY <1>13 DEF StopAnswered, Gateway
  <2>3. at'[f] \in Forms \cup {"prepare"} /\ at'[f] # "menu"
    BY <2>1, <2>2 DEF ResumeInv, Forms, TypeOK
  <2>4. QED
    BY <1>13, <2>1, <2>2, <2>3, KeptOnTheWay DEF Forms, devices
<1>14. ASSUME NEW f \in Flows, ManualAnswered(f), UNCHANGED devices, _finish(f) PROVE KeepInv'
  BY <1>14, KeptOnTheWay DEF ManualAnswered, Set, devices, Forms
<1>15. ASSUME NEW f \in Flows, AcceptAnswered(f), UNCHANGED devices, _finish(f) PROVE KeepInv'
  <2>1. PICK x \in {"resend", "stop", "recovery"} : at' = [at EXCEPT ![f] = x]
    BY <1>15 DEF AcceptAnswered, BeginStop, Gateway, Set
  <2>2. at[f] = "accept" /\ (trouble => trouble')
    BY <1>15 DEF AcceptAnswered, BeginStop, Gateway
  <2>3. QED
    BY <1>15, <2>1, <2>2, KeptOnTheWay DEF devices
<1>16. ASSUME NEW f \in Flows, ResendAnswered(f), UNCHANGED devices, _finish(f) PROVE KeepInv'
  <2>1. PICK x \in {"stop", "done", "recovery", "review"} : at' = [at EXCEPT ![f] = x]
    BY <1>16 DEF ResendAnswered, BeginStop, Set
  <2>2. at[f] = "resend" /\ (trouble => trouble')
    BY <1>16 DEF ResendAnswered, BeginStop
  <2>3. QED
    BY <1>16, <2>1, <2>2, KeptOnTheWay DEF devices
<1>17. ASSUME NEW f \in Flows, Identified(f), _finish(f) PROVE KeepInv'
  BY <1>17, KeptOnTheWay DEF Identified, Set, devices, Forms
<1>18. ASSUME NEW f \in Flows, SnapshotAnswered(f), _finish(f) PROVE KeepInv'
  <2>1. CASE ~trouble'
    <3>1. /\ at[f] = "snapshot" /\ at' = [at EXCEPT ![f] = "clear"] /\ ~trouble
          /\ pending' = [pending EXCEPT ![f] = Snapshot(table)]
          /\ UNCHANGED <<table, destroyed>>
      BY <1>18, <2>1 DEF SnapshotAnswered, Set
    <3>2. saved' = saved
      BY <1>18, <3>1 DEF _finish
    <3>3. pending[f] = "none" /\ table \in Tables \cup {"empty"}
      BY <3>1 DEF KeepInv, TypeOK
    <3>4. /\ Snapshot(table) # "none" /\ (Snapshot(table) = "empty" <=> table = "empty")
          /\ destroyed \in Tables => Snapshot(destroyed) # "none"
      BY <3>3, TableAssumption DEF Snapshot
    <3>5. at'[f] = "clear" /\ pending'[f] = Snapshot(table)
      BY <3>1 DEF TypeOK
    <3>6. \A g \in Flows \ {f} : at'[g] = at[g] /\ pending'[g] = pending[g]
      BY <3>1 DEF TypeOK
    <3>7. QED
      BY <2>1, <3>1, <3>2, <3>3, <3>4, <3>5, <3>6 DEF KeepInv
  <2>2. QED
    BY <2>1 DEF KeepInv
<1>19. ASSUME NEW f \in Flows, ClearAnswered(f), _finish(f) PROVE KeepInv'
  <2>1. CASE ~trouble'
    <3>1. /\ at[f] = "clear" /\ at' = [at EXCEPT ![f] = "prepare cleared"] /\ ~trouble
          /\ table' = "empty" /\ destroyed' = table /\ UNCHANGED pending
      BY <1>19, <2>1 DEF ClearAnswered, Set
    <3>2. saved' = saved
      BY <1>19, <3>1 DEF _finish, TypeOK
    <3>3. "empty" \notin Tables
      BY TableAssumption
    <3>4. \A g \in Flows : pending[g] = "empty" => destroyed' \notin Tables
      BY <3>1, <3>3 DEF KeepInv
    <3>5. table \in Tables => pending[f] = Snapshot(table)
      <4>1. pending[f] \in {"small", "cut", "empty"}
        BY <3>1 DEF KeepInv, TypeOK
      <4>2. QED
        BY <3>1, <3>3, <4>1 DEF KeepInv
    <3>6. at'[f] = "prepare cleared" /\ \A g \in Flows \ {f} : at'[g] = at[g]
      BY <3>1 DEF TypeOK
    <3>7. QED
      BY <2>1, <3>1, <3>2, <3>3, <3>4, <3>5, <3>6 DEF KeepInv
  <2>2. QED
    BY <2>1 DEF KeepInv
<1>20. ASSUME NEW f \in Flows, ClearedPrepared(f), _finish(f) PROVE KeepInv'
  <2>1. PICK x \in {"start form", "menu"} :
              at' = [at EXCEPT ![f] = x] /\ (x = "menu" => trouble')
    BY <1>20 DEF ClearedPrepared, Prepared, Gateway, Set
  <2>2. at[f] = "prepare cleared" /\ (trouble => trouble') /\ UNCHANGED devices
    BY <1>20 DEF ClearedPrepared, Prepared, Gateway
  <2>3. QED
    BY <1>20, <2>1, <2>2, KeptOnTheWay DEF devices
<1>21. ASSUME NEW f \in Flows, TimerFires(f), UNCHANGED devices, UNCHANGED saved PROVE KeepInv'
  BY <1>21 DEF TimerFires, KeepInv, devices
<1>22. ASSUME NEW f \in Flows, TimerAnswered(f), UNCHANGED devices, UNCHANGED saved PROVE KeepInv'
  BY <1>22 DEF TimerAnswered, KeepInv, devices
<1>23. CASE UNCHANGED vars
  BY <1>23 DEF vars, flow, devices, KeepInv
<1>24. QED
  BY <1>1, <1>2, <1>3, <1>4, <1>5, <1>6, <1>7, <1>8, <1>9, <1>10, <1>11, <1>12,
     <1>13, <1>14, <1>15, <1>16, <1>17, <1>18, <1>19, <1>20, <1>21, <1>22, <1>23
  DEF Next, User, Answer, Cleanup

-----------------------------------------------------------------------------
(* The theorems.                                                            *)

LEMMA Invariance == Spec => []IInv
<1>1. Init => IInv
  <2>1. 0 \in 0..(Polls - 1)
    BY PollAssumption
  <2>2. ASSUME Init PROVE TypeOK
    <3>1. /\ at \in [Flows -> Forms \cup Calls] /\ resume \in [Flows -> Forms \cup {"prepare"}]
          /\ polled \in [Flows -> 0..(Polls - 1)]
      BY <2>1, <2>2 DEF Init, Forms
    <3>2. /\ active \in [Flows -> BOOLEAN] /\ timer \in [Flows -> {"off", "armed", "stopping"}]
          /\ pending \in [Flows -> {"none", "small", "cut", "empty"}]
      BY <2>2 DEF Init
    <3>3. QED
      BY <2>2, <3>1, <3>2 DEF Init, TypeOK
  <2>3. Init => WatchInv /\ DoneInv /\ ResumeInv /\ KeepInv
    BY TableAssumption DEF Init, WatchInv, DoneInv, ResumeInv, KeepInv
  <2>4. QED
    BY <2>2, <2>3 DEF IInv
<1>2. IInv /\ [Next]_vars => IInv'
  BY TypeStep, WatchStep, DoneStep, KeepStep DEF IInv
<1>3. QED
  BY <1>1, <1>2, PTL DEF Spec

\* Every variable of the census flows keeps its type; no poll asks too often.
THEOREM TypeCorrect == Spec => []TypeOK
<1>1. IInv => TypeOK
  BY DEF IInv
<1>2. QED
  BY <1>1, Invariance, PTL

\* While every call succeeds, a flow and its cleanup task watch over a census, whatever
\* flows do to each other.
THEOREM CensusWatched == Spec => []CensusIsWatched
<1>1. IInv => CensusIsWatched
  BY DEF IInv, WatchInv, CensusIsWatched
<1>2. QED
  BY <1>1, Invariance, PTL

\* Flows that have all ended left the gateway out of the census, whatever failed.
THEOREM DoneIsNormal == Spec => []DoneMeansNormal
<1>1. IInv => DoneMeansNormal
  BY DEF IInv, DoneInv, DoneMeansNormal
<1>2. QED
  BY <1>1, Invariance, PTL

\* What a clear destroyed is in a snapshot that is saved or will be.
THEOREM SnapshotIsKept == Spec => []SnapshotKept
<1>1. IInv => SnapshotKept
  BY DEF IInv, KeepInv, SnapshotKept
<1>2. QED
  BY <1>1, Invariance, PTL
=============================================================================
