----------------------- MODULE AdvancedDebugReportProofs -----------------------
(* Theorems about what the sensor of AdvancedDebug reports: when it turns to *)
(* idle, and when everything is at rest.                                     *)
EXTENDS AdvancedDebugProofs

(***************************************************************************)
(* The report of the monitor at rest.                                       *)
(***************************************************************************)
Unharmed == happened \cap {"cancel", "crash"} = {}

\* The sensor shows an outcome, the one that the flag says.
Settled ==
  /\ required <=> mstate = "restore_required"
  /\ mstate \in {"idle", "error", "restore_required"}

\* A caller past the lock that will write an outcome.  One that awaits the task
\* writes one only if the flag is set then.
Working == \E p \in Callers : Inside(p) /\ pc[p] # "await"
Awaiting == \E p \in Callers : pc[p] = "await"

\* Without a working caller the sensor shows the outcome, or the flag is set and the
\* task or the caller that awaits it acts on that; the slot is filled only with the
\* flag set, or while the task still needs it.
RestInv ==
  ~Working =>
    /\ Settled \/ (required /\ (CaptureLive \/ Awaiting))
    /\ ~required => cur = NoConn
    /\ pc[CaptureTask] \in Closing => cur = NoConn

\* A caller that closed its connection finds the slot empty, one that waits for the
\* gateway's banner finds it filled, or its connection gone.
SlotInv ==
  \A p \in Callers :
    /\ pc[p] \in Closing => cur = NoConn
    /\ pc[p] = "setup" /\ conn[p] \in Up => cur = conn[p]

\* The task is cancelled only by a stop that awaits it.
CancelInv == cancelled => CaptureLive /\ Awaiting

QuietInv == Unharmed => RestInv /\ SlotInv /\ CancelInv
-----------------------------------------------------------------------------
(* What turns the sensor to idle.                                           *)

\* Failures and aborts never show idle.
LEMMA NotIdle ==
  ASSUME TypeOK, LabelInv, mstate # "idle"
  PROVE  /\ \A p \in Callers : Abort(p) => mstate' # "idle"
         /\ \A p \in Callers : Restore(p, mstate) => mstate' # "idle"
         /\ \A lost \in BOOLEAN : Finally(lost) => mstate' # "idle"
<1> USE DEF WaitAt, End, CloseCurrent, BeginRecover, Settle, Outcome
<1>1. \A p \in Actors : Settle(p, FALSE) => mstate' # "idle"
  OBVIOUS
<1>2. \A p \in Actors : Restore(p, mstate) => mstate' # "idle"
  BY <1>1 DEF Restore
<1>3. ASSUME NEW p \in Callers, Abort(p) PROVE mstate' # "idle"
  BY <1>2, <1>3 DEF Abort, Actors
<1>4. ASSUME NEW lost \in BOOLEAN, Finally(lost) PROVE mstate' # "idle"
  BY <1>1, <1>4 DEF Finally, Restore, Actors
<1>5. QED
  BY <1>2, <1>3, <1>4 DEF Actors

\* The step that IdleAnnouncesRestored speaks of.
TurnsIdle ==
  ~Crash /\ mstate # "idle" /\ mstate' = "idle" => asked' = "stock"

\* The monitor turns idle behind a RESTORE that was drained, and in no other step.
LEMMA IdleStep == TypeOK /\ Control /\ AskInv /\ [Next]_vars => TurnsIdle
<1> SUFFICES ASSUME TypeOK, Control, AskInv, [Next]_vars, mstate # "idle"
             PROVE  TurnsIdle
  BY DEF TurnsIdle
<1> USE DEF Actors, Control, LabelInv, AskInv, TurnsIdle, history
<1>1. ASSUME NEW p \in Callers, Call(p) PROVE TurnsIdle
  BY <1>1 DEF Call, monitor
<1>2. ASSUME NEW p \in Callers, StartLocked(p) PROVE TurnsIdle
  BY <1>2 DEF StartLocked, WaitAt, End, CloseCurrent, BeginRecover, Settle,
         Outcome
<1>3. ASSUME NEW p \in Callers, RecoverLocked(p) PROVE TurnsIdle
  BY <1>3 DEF RecoverLocked, WaitAt, End, CloseCurrent, BeginRecover, Settle,
         Outcome
<1>4. ASSUME NEW p \in Callers, StopLockedCancels(p) PROVE TurnsIdle
  BY <1>4 DEF StopLockedCancels, WaitAt, End, CloseCurrent, BeginRecover, Settle,
         Outcome
<1>5. ASSUME NEW p \in Callers, StopLocked(p) PROVE TurnsIdle
  BY <1>5 DEF StopLocked, StopBody, BeginRecover
<1>6. ASSUME NEW p \in Callers, StopResumes(p) PROVE TurnsIdle
  BY <1>6 DEF StopResumes, StopBody, BeginRecover
<1>7. ASSUME NEW p \in Callers, Connected(p) PROVE TurnsIdle
  BY <1>7 DEF Connected, WaitAt, End, CloseCurrent, BeginRecover, Settle, Outcome
<1>8. ASSUME NEW p \in Callers, ConnectFails(p) PROVE TurnsIdle
  BY <1>8, NotIdle DEF ConnectFails
<1>9. ASSUME NEW p \in Callers, SetupDrained(p) PROVE TurnsIdle
  BY <1>9, NotIdle DEF SetupDrained
<1>10. ASSUME NEW p \in Callers, SetupFails(p) PROVE TurnsIdle
  BY <1>10, NotIdle DEF SetupFails
<1>11. ASSUME NEW p \in Callers, HandshakeOk(p) PROVE TurnsIdle
  BY <1>11, NotIdle DEF HandshakeOk
<1>12. ASSUME NEW p \in Callers, HandshakeFails(p) PROVE TurnsIdle
  BY <1>12, NotIdle DEF HandshakeFails
<1>13. ASSUME NEW p \in Callers, CaptureDrained(p) PROVE TurnsIdle
  BY <1>13 DEF CaptureDrained, WaitAt, End, CloseCurrent, BeginRecover, Settle,
         Outcome
<1>14. ASSUME NEW p \in Callers, CaptureFails(p) PROVE TurnsIdle
  BY <1>14, NotIdle DEF CaptureFails
<1>15. ASSUME NEW p \in Callers, CallerCancelled(p) PROVE TurnsIdle
  BY <1>15 DEF CallerCancelled, WaitAt, End, CloseCurrent, BeginRecover, Settle,
         Outcome
<1>16. ASSUME NEW p \in Actors, RestoreDrained(p) PROVE TurnsIdle
  BY <1>16 DEF RestoreDrained, monitor
<1>17. ASSUME NEW p \in Actors, RestoreFails(p) PROVE TurnsIdle
  BY <1>17 DEF RestoreFails, CloseThenReturn, WaitAt, End, CloseCurrent,
         BeginRecover, Settle, Outcome
<1>18. ASSUME NEW p \in Actors, DisableDrained(p) PROVE TurnsIdle
  BY <1>18 DEF DisableDrained
<1>19. ASSUME NEW p \in Actors, RestoreClosed(p) PROVE TurnsIdle
  BY <1>19 DEF RestoreClosed, RestoreReturns, WaitAt, End, CloseCurrent,
         BeginRecover, Settle, Outcome
<1>20. ASSUME NEW p \in Actors, Dropped(p) PROVE TurnsIdle
  BY <1>20 DEF Dropped, WaitAt, End, CloseCurrent, BeginRecover, Settle, Outcome
<1>21. ASSUME ReadData PROVE TurnsIdle
  BY <1>21, NotIdle DEF ReadData
<1>22. ASSUME DeadlineReached PROVE TurnsIdle
  BY <1>22, NotIdle DEF DeadlineReached
<1>23. ASSUME ConnectionLost PROVE TurnsIdle
  BY <1>23, NotIdle DEF ConnectionLost
<1>24. ASSUME CancelDelivered PROVE TurnsIdle
  BY <1>24, NotIdle DEF CancelDelivered
<1>25. ASSUME ConnectionDrops PROVE TurnsIdle
  BY <1>25 DEF ConnectionDrops, monitor
<1>26. ASSUME FallsMute PROVE TurnsIdle
  BY <1>26 DEF FallsMute, monitor
<1>27. ASSUME UdpPacket PROVE TurnsIdle
  BY <1>27 DEF UdpPacket, monitor
<1>28. ASSUME Crash PROVE TurnsIdle
  BY <1>28 DEF Crash, WaitAt, End, CloseCurrent, BeginRecover, Settle, Outcome
<1>29. CASE UNCHANGED vars
  BY <1>29 DEF vars, monitor
<1>30. QED
  BY <1>1, <1>2, <1>3, <1>4, <1>5, <1>6, <1>7, <1>8, <1>9, <1>10, <1>11, <1>12,
     <1>13, <1>14, <1>15, <1>16, <1>17, <1>18, <1>19, <1>20, <1>21, <1>22, <1>23,
     <1>24, <1>25, <1>26, <1>27, <1>28, <1>29
  DEF Next, Acquire, CallerStep, RestoreStep, CaptureStep

\* Before and after a crash, a monitor that turns idle has had the stock settings
\* accepted, and an attentive gateway's PIC has them: the services and the shutdown
\* restore whatever the flag says.
THEOREM IdleIsAnnounced == Spec => IdleAnnouncesRestored
<1>1. IInv /\ IInv' /\ [Next]_vars =>
        [~Crash /\ mstate # "idle" /\ mstate' = "idle" => Restored']_vars
  <2>1. IInv /\ [Next]_vars => TurnsIdle
    BY IdleStep DEF IInv, Control
  <2>2. IInv' => (asked' = "stock" => Restored')
    BY DEF IInv, TypeOK, Settings, TapInv, Restored
  <2>3. QED
    BY <2>1, <2>2 DEF TurnsIdle
<1>2. QED
  BY <1>1, Invariance, PTL DEF Spec, IdleAnnouncesRestored

-----------------------------------------------------------------------------
(* At rest.                                                                 *)

Quietly == RestInv /\ SlotInv /\ CancelInv

\* p is the only caller inside the lock, or about to enter it.
Alone(p) == \A q \in Callers \ {p} : pc[q] \in {"off", "lock"}

LEMMA AloneInside ==
  ASSUME TypeOK, Control, CancelInv, NEW p \in Callers, Inside(p) \/ lock = Nobody
  PROVE  /\ Alone(p)
         /\ pc[p] # "await" => ~Awaiting /\ ~cancelled
BY ActorAssumption DEF Control, LockInv, Alone, Inside, CancelInv, Awaiting

\* A caller that waits for the gateway, or for its connection to close.
LEMMA GoesOn ==
  ASSUME TypeOK, NEW p \in Callers, Alone(p), NEW l \in Labels,
         l \notin {"off", "lock", "await", "setup"},
         pc' = [pc EXCEPT ![p] = l], ~cancelled', l \in Closing => cur' = NoConn
  PROVE  Quietly'
<1>1. pc'[p] = l /\ \A q \in Callers \ {p} : pc'[q] \in {"off", "lock"}
  BY DEF TypeOK, Actors, Alone
<1>2. Working'
  BY <1>1 DEF Working, Inside
<1>3. SlotInv'
  BY <1>1 DEF SlotInv, Closing
<1>4. QED
  BY <1>2, <1>3 DEF Quietly, RestInv, CancelInv

\* A caller that writes its outcome with the slot empty.
LEMMA SettleQuiet ==
  ASSUME TypeOK, Control, NEW p \in Callers, Alone(p), NEW ok \in BOOLEAN,
         Settle(p, ok), cur = NoConn, ~cancelled'
  PROVE  Quietly'
<1>1. CASE job[p] = "stop" /\ ~ok
  BY <1>1, GoesOn DEF Settle, BeginRecover, WaitAt, Labels, Closing
<1>2. CASE ~(job[p] = "stop" /\ ~ok)
  <2>1. /\ pc' = [pc EXCEPT ![p] = "off"] /\ required' = ~ok /\ cur' = NoConn
        /\ mstate' = Outcome(job[p], ok)
    BY <1>2 DEF Settle, WaitAt, End
  <2>2. \A q \in Callers : pc'[q] \in {"off", "lock"}
    BY <2>1 DEF TypeOK, Actors, Alone
  <2>3. SlotInv' /\ CancelInv'
    BY <2>2 DEF SlotInv, CancelInv, Closing
  <2>4. Settled'
    BY <2>1 DEF Settled, Outcome
  <2>5. QED
    BY <2>1, <2>3, <2>4 DEF Quietly, RestInv
<1>3. QED
  BY <1>1, <1>2

\* A caller that empties the slot and closes its connection.
LEMMA CloseQuiet ==
  ASSUME TypeOK, NEW p \in Callers, Alone(p), NEW l \in Closing, NEW s,
         CloseCurrent(p, l, s), ~cancelled'
  PROVE  Quietly'
BY GoesOn DEF CloseCurrent, WaitAt, Closing, Labels

LEMMA RestoreQuiet ==
  ASSUME TypeOK, Control, NEW p \in Callers, Alone(p), NEW s, Restore(p, s), ~cancelled'
  PROVE  Quietly'
<1>1. CASE cur = NoConn
  BY <1>1, SettleQuiet DEF Restore
<1>2. CASE cur # NoConn
  BY <1>2, GoesOn DEF Restore, WaitAt, Labels, Commands, Closing
<1>3. QED
  BY <1>1, <1>2

LEMMA AbortQuiet ==
  ASSUME TypeOK, Control, NEW p \in Callers, Alone(p), Abort(p), ~cancelled'
  PROVE  Quietly'
<1>1. CASE job[p] = "start" /\ required
  BY <1>1, RestoreQuiet DEF Abort
<1>2. CASE ~(job[p] = "start" /\ required) /\ cur # NoConn
  BY <1>2, CloseQuiet DEF Abort, Closing
<1>3. CASE ~(job[p] = "start" /\ required) /\ cur = NoConn
  BY <1>3, SettleQuiet DEF Abort
<1>4. QED
  BY <1>1, <1>2, <1>3

\* What the task does leaves the callers where they are, and their connections too,
\* or closes them.
TaskOnly ==
  /\ \A q \in Callers : pc'[q] = pc[q] /\ conn'[q] = conn[q]
  /\ Up' \subseteq Up
  /\ cur' = cur \/ (cur' = NoConn /\ cur \notin Up')

LEMMA TaskQuiet ==
  ASSUME TypeOK, Quietly, TaskOnly, cancelled' => CancelInv',
         ~Working =>
           /\ Settled' \/ (required' /\ (CaptureLive' \/ Awaiting))
           /\ ~required' => cur' = NoConn
           /\ pc'[CaptureTask] \in Closing => cur' = NoConn
  PROVE  Quietly'
<1>1. Working' = Working /\ Awaiting' = Awaiting
  BY DEF TaskOnly, Working, Awaiting, Inside
<1>2. SlotInv'
  BY DEF TaskOnly, Quietly, SlotInv
<1>3. RestInv'
  BY <1>1 DEF RestInv
<1>4. CancelInv'
  BY DEF CancelInv
<1>5. QED
  BY <1>2, <1>3, <1>4 DEF Quietly

\* The task writes its outcome with the slot empty, or a caller at work.
LEMMA TaskSettles ==
  ASSUME TypeOK, Control, Quietly, NEW ok \in BOOLEAN, Settle(CaptureTask, ok),
         ok /\ ~Working => cur = NoConn, ~cancelled'
  PROVE  Quietly'
<1>1. /\ pc' = [pc EXCEPT ![CaptureTask] = "off"]
      /\ conn' = [conn EXCEPT ![CaptureTask] = NoConn]
      /\ cur' = cur /\ net' = net /\ required' = ~ok
      /\ mstate' = IF ok THEN "idle" ELSE "restore_required"
  BY DEF Control, LabelInv, Settle, End, WaitAt, Outcome
<1>2. TaskOnly
  BY <1>1, ActorAssumption DEF TaskOnly, Up, TypeOK, Actors
<1>3. Settled' /\ pc'[CaptureTask] = "off"
  BY <1>1 DEF Settled, TypeOK, Actors
<1>4. QED
  BY <1>1, <1>2, <1>3, TaskQuiet DEF Closing

LEMMA TaskCloses ==
  ASSUME TypeOK, Quietly, NEW l \in Closing, NEW s, CloseCurrent(CaptureTask, l, s),
         cur # NoConn, ~cancelled'
  PROVE  Quietly'
<1>1. /\ pc' = [pc EXCEPT ![CaptureTask] = l]
      /\ conn' = [conn EXCEPT ![CaptureTask] = cur]
      /\ cur' = NoConn /\ Up' = Up \ {cur} /\ required' = required
  BY DEF CloseCurrent, WaitAt, TypeOK, Up
<1>2. TaskOnly /\ pc'[CaptureTask] = l
  BY <1>1, ActorAssumption DEF TaskOnly, Up, TypeOK, Actors
<1>3. ~Working => required
  BY DEF Quietly, RestInv
<1>4. QED
  BY <1>1, <1>2, <1>3, TaskQuiet DEF CaptureLive, Closing

LEMMA FinallyQuiet ==
  ASSUME TypeOK, Control, Quietly, NEW lost \in BOOLEAN, Finally(lost), ~cancelled'
  PROVE  Quietly'
<1>1. CASE cur = NoConn
  BY <1>1, TaskSettles DEF Finally, Restore
<1>2. CASE cur # NoConn /\ lost
  BY <1>2, TaskCloses DEF Finally, Closing
<1>3. CASE cur # NoConn /\ ~lost
  <2>1. /\ pc' = [pc EXCEPT ![CaptureTask] = "restore"]
        /\ conn' = [conn EXCEPT ![CaptureTask] = cur]
        /\ UNCHANGED <<cur, required, net>>
    BY <1>3 DEF Finally, Restore, WaitAt
  <2>2. TaskOnly /\ pc'[CaptureTask] = "restore"
    BY <2>1, ActorAssumption DEF TaskOnly, Up, TypeOK, Actors
  <2>3. ~Working => required
    BY <1>3 DEF Quietly, RestInv
  <2>4. QED
    BY <2>1, <2>2, <2>3, TaskQuiet DEF CaptureLive, Closing
<1>4. QED
  BY <1>1, <1>2, <1>3

\* The _close() inside a restoration, run by a caller
LEMMA CloseThenQuiet ==
  ASSUME TypeOK, Control, NEW p \in Callers, Alone(p), NEW ok \in BOOLEAN,
         CloseThenReturn(p, ok), ~cancelled'
  PROVE  Quietly'
<1>1. CASE cur = NoConn
  BY <1>1, SettleQuiet DEF CloseThenReturn
<1>2. CASE cur # NoConn
  BY <1>2, CloseQuiet DEF CloseThenReturn, Closing
<1>3. QED
  BY <1>1, <1>2

\* and by the task, and what the task does when it has returned.
LEMMA TaskClosesThen ==
  ASSUME TypeOK, Control, Quietly, NEW ok \in BOOLEAN,
         CloseThenReturn(CaptureTask, ok), ~cancelled'
  PROVE  Quietly'
<1>1. CASE cur = NoConn
  BY <1>1, TaskSettles DEF CloseThenReturn
<1>2. CASE cur # NoConn
  BY <1>2, TaskCloses DEF CloseThenReturn, Closing
<1>3. QED
  BY <1>1, <1>2

LEMMA TaskReturns ==
  ASSUME TypeOK, Control, Quietly, NEW ok \in BOOLEAN, pc[CaptureTask] \in Closing,
         RestoreReturns(CaptureTask, ok), ~cancelled'
  PROVE  Quietly'
<1>1. CASE ~ok /\ cur # NoConn
  BY <1>1, TaskCloses DEF RestoreReturns, Closing, Control, LabelInv
<1>2. CASE ok \/ cur = NoConn
  BY <1>2, TaskSettles DEF RestoreReturns, Quietly, RestInv
<1>3. QED
  BY <1>1, <1>2

\* Every step that harms nobody keeps the invariant of the report.
LEMMA QuietStep == TypeOK /\ Control /\ QuietInv /\ [Next]_vars => QuietInv'
<1> SUFFICES ASSUME TypeOK, Control, Quietly, [Next]_vars, Unharmed'
             PROVE  Quietly'
  BY HappenedGrows DEF QuietInv, Quietly, Unharmed
<1> USE DEF gateway, link, history
<1>1. ASSUME NEW p \in Callers, Call(p) PROVE Quietly'
  <2>1. /\ pc' = [pc EXCEPT ![p] = "lock"] /\ pc[p] = "off"
        /\ UNCHANGED <<cur, mstate, required, cancelled, net>>
    BY <1>1 DEF Call, WaitAt, monitor
  <2>2. pc'[p] = "lock" /\ \A q \in Actors \ {p} : pc'[q] = pc[q]
    BY <2>1 DEF TypeOK, Actors
  <2>3. \A q \in Actors \ {p} : conn'[q] = conn[q]
    BY <1>1 DEF Call, WaitAt, TypeOK, Actors
  <2>4. /\ Working' = Working /\ Awaiting' = Awaiting
        /\ pc'[CaptureTask] = pc[CaptureTask]
    BY <2>1, <2>2, ActorAssumption DEF Working, Awaiting, Inside, Actors
  <2>5. SlotInv'
    BY <2>1, <2>2, <2>3 DEF SlotInv, Quietly, Up, Closing, Actors
  <2>6. QED
    BY <2>1, <2>4, <2>5 DEF Quietly, RestInv, Settled, CancelInv, CaptureLive
<1>2. ASSUME NEW p \in Callers, StartLocked(p) PROVE Quietly'
  <2>1. Alone(p) /\ ~cancelled'
    BY <1>2, AloneInside DEF StartLocked, Inside, Quietly
  <2>2. CASE lock' = p
    <3>1. pc' = [pc EXCEPT ![p] = "connect"]
      BY <1>2, <2>2, ActorAssumption DEF StartLocked, WaitAt
    <3>2. QED
      BY <2>1, <3>1, GoesOn DEF Labels, Closing
  <2>3. CASE lock' # p
    <3>1. /\ pc' = [pc EXCEPT ![p] = "off"] /\ pc[p] = "lock"
          /\ conn' = [conn EXCEPT ![p] = NoConn]
          /\ UNCHANGED <<cur, mstate, required, cancelled, net>>
      BY <1>2, <2>3 DEF StartLocked, WaitAt, gateway
    <3>2. Working' = Working /\ Awaiting' = Awaiting /\ CaptureLive' = CaptureLive
      BY <2>1, <3>1, ActorAssumption
      DEF Working, Awaiting, Inside, CaptureLive, Alone, TypeOK, Actors
    <3>3. SlotInv'
      BY <2>1, <3>1 DEF SlotInv, Alone, Closing, TypeOK, Actors
    <3>4. pc'[CaptureTask] = pc[CaptureTask]
      BY <3>1, ActorAssumption DEF TypeOK, Actors
    <3>5. QED
      BY <2>1, <3>1, <3>2, <3>3, <3>4 DEF Quietly, RestInv, Settled, CancelInv
  <2>4. QED
    BY <2>2, <2>3
<1>3. ASSUME NEW p \in Callers, RecoverLocked(p) PROVE Quietly'
  <2>1. Alone(p) /\ ~cancelled'
    BY <1>3, AloneInside DEF RecoverLocked, Inside, Quietly
  <2>2. QED
    BY <1>3, <2>1, GoesOn DEF RecoverLocked, WaitAt, Labels, Closing
<1>4. ASSUME NEW p \in Callers, StopLockedCancels(p) PROVE Quietly'
  <2>1. Alone(p) /\ ~Awaiting
    BY <1>4, AloneInside DEF StopLockedCancels, Inside, Quietly
  <2>2. /\ pc' = [pc EXCEPT ![p] = "await"] /\ CaptureLive /\ pc[p] = "lock"
        /\ UNCHANGED <<mstate, required, cur>>
    BY <1>4 DEF StopLockedCancels, WaitAt
  <2>3. /\ pc'[CaptureTask] = pc[CaptureTask] /\ pc'[p] = "await"
        /\ \A q \in Callers \ {p} : pc'[q] \in {"off", "lock"}
    BY <2>1, <2>2, ActorAssumption DEF Alone, TypeOK, Actors
  <2>4. SlotInv' /\ CancelInv'
    BY <2>2, <2>3 DEF SlotInv, CancelInv, CaptureLive, Awaiting, Closing
  <2>5. ~Working
    BY <2>1, <2>2 DEF Working, Inside, Alone
  <2>6. RestInv'
    BY <2>2, <2>3, <2>5 DEF Quietly, RestInv, Settled, CaptureLive
  <2>7. QED
    BY <2>4, <2>6 DEF Quietly
<1>5. ASSUME NEW p \in Callers, StopLocked(p) PROVE Quietly'
  <2>1. Alone(p) /\ ~cancelled'
    BY <1>5, AloneInside DEF StopLocked, Inside, Quietly, CancelInv
  <2>2. UNCHANGED <<cur, required>> /\ ~CaptureLive /\ pc[p] = "lock"
    BY <1>5 DEF StopLocked
  <2>3. CASE required
    <3>1. PICK l \in {"restore", "connect"} : pc' = [pc EXCEPT ![p] = l]
      BY <1>5, <2>3 DEF StopLocked, StopBody, BeginRecover, WaitAt
    <3>2. QED
      BY <2>1, <3>1, GoesOn DEF Labels, Commands, Closing
  <2>4. CASE ~required
    <3>1. pc' = [pc EXCEPT ![p] = "off"] /\ UNCHANGED mstate
      BY <1>5, <2>4 DEF StopLocked, StopBody, WaitAt
    <3>2. ~Working /\ ~Working' /\ CaptureLive' = CaptureLive
      BY <2>1, <2>2, <3>1, ActorAssumption
      DEF Working, Inside, Alone, TypeOK, Actors, CaptureLive
    <3>3. Settled' /\ cur' = NoConn
      BY <2>2, <2>4, <3>1, <3>2 DEF Quietly, RestInv, Settled
    <3>4. SlotInv'
      BY <2>1, <3>1 DEF SlotInv, Alone, TypeOK, Actors, Closing
    <3>5. QED
      BY <2>1, <3>3, <3>4 DEF Quietly, RestInv, CancelInv
  <2>5. QED
    BY <2>3, <2>4
<1>6. ASSUME NEW p \in Callers, StopResumes(p) PROVE Quietly'
  <2>1. Alone(p) /\ ~cancelled'
    BY <1>6, AloneInside DEF StopResumes, Inside, Quietly, CancelInv
  <2>2. UNCHANGED <<cur, required>> /\ ~CaptureLive /\ pc[p] = "await"
    BY <1>6 DEF StopResumes
  <2>3. CASE required
    <3>1. PICK l \in {"restore", "connect"} : pc' = [pc EXCEPT ![p] = l]
      BY <1>6, <2>3 DEF StopResumes, StopBody, BeginRecover, WaitAt
    <3>2. QED
      BY <2>1, <3>1, GoesOn DEF Labels, Commands, Closing
  <2>4. CASE ~required
    <3>1. pc' = [pc EXCEPT ![p] = "off"] /\ UNCHANGED mstate
      BY <1>6, <2>4 DEF StopResumes, StopBody, WaitAt
    <3>2. ~Working /\ ~Working' /\ CaptureLive' = CaptureLive
      BY <2>1, <2>2, <3>1, ActorAssumption
      DEF Working, Inside, Alone, TypeOK, Actors, CaptureLive
    <3>3. Settled' /\ cur' = NoConn
      BY <2>2, <2>4, <3>1, <3>2 DEF Quietly, RestInv, Settled
    <3>4. SlotInv'
      BY <2>1, <3>1 DEF SlotInv, Alone, TypeOK, Actors, Closing
    <3>5. QED
      BY <2>1, <3>3, <3>4 DEF Quietly, RestInv, CancelInv
  <2>5. QED
    BY <2>3, <2>4
<1>7. ASSUME NEW p \in Callers, Connected(p) PROVE Quietly'
  <2>1. Alone(p) /\ ~cancelled'
    BY <1>7, AloneInside DEF Connected, Inside, Quietly
  <2>2. PICK c \in Conns : cur' = c /\ WaitAt(p, "setup", c)
    BY <1>7 DEF Connected
  <2>3. /\ pc'[p] = "setup" /\ conn'[p] = cur'
        /\ \A q \in Callers \ {p} : pc'[q] \in {"off", "lock"}
    BY <2>1, <2>2 DEF WaitAt, TypeOK, Actors, Alone
  <2>4. Working' /\ SlotInv'
    BY <2>3 DEF Working, Inside, SlotInv, Closing
  <2>5. QED
    BY <2>1, <2>4 DEF Quietly, RestInv, CancelInv
<1>8. ASSUME NEW p \in Callers, ConnectFails(p) PROVE Quietly'
  <2>1. Alone(p) /\ ~cancelled'
    BY <1>8, AloneInside DEF ConnectFails, Inside, Quietly
  <2>2. QED
    BY <1>8, <2>1, AbortQuiet DEF ConnectFails
<1>9. ASSUME NEW p \in Callers, SetupDrained(p) PROVE Quietly'
  <2>1. Alone(p) /\ ~cancelled'
    BY <1>9, AloneInside DEF SetupDrained, Inside, Quietly
  <2>2. cur # NoConn
    BY <1>9, ConnAssumption DEF SetupDrained, Quietly, SlotInv, TypeOK, Up
  <2>3. CASE Abort(p)
    BY <2>1, <2>3, AbortQuiet
  <2>4. CASE WaitAt(p, "handshake", cur)
    BY <2>1, <2>4, GoesOn DEF WaitAt, Labels, Closing
  <2>5. QED
    BY <1>9, <2>2, <2>3, <2>4 DEF SetupDrained
<1>10. ASSUME NEW p \in Callers, SetupFails(p) PROVE Quietly'
  <2>1. Alone(p) /\ ~cancelled'
    BY <1>10, AloneInside DEF SetupFails, Inside, Quietly
  <2>2. QED
    BY <1>10, <2>1, AbortQuiet DEF SetupFails
<1>11. ASSUME NEW p \in Callers, HandshakeOk(p) PROVE Quietly'
  <2>1. Alone(p) /\ ~cancelled'
    BY <1>11, AloneInside DEF HandshakeOk, Inside, Quietly
  <2>2. CASE Restore(p, mstate)
    BY <2>1, <2>2, RestoreQuiet
  <2>3. CASE WaitAt(p, "capture", cur)
    BY <2>1, <2>3, GoesOn DEF WaitAt, Labels, Commands, Closing
  <2>4. QED
    BY <1>11, <2>2, <2>3 DEF HandshakeOk
<1>12. ASSUME NEW p \in Callers, HandshakeFails(p) PROVE Quietly'
  <2>1. Alone(p) /\ ~cancelled'
    BY <1>12, AloneInside DEF HandshakeFails, Inside, Quietly
  <2>2. QED
    BY <1>12, <2>1, AbortQuiet DEF HandshakeFails
<1>13. ASSUME NEW p \in Callers, CaptureDrained(p) PROVE Quietly'
  <2>1. Alone(p) /\ ~cancelled'
    BY <1>13, AloneInside DEF CaptureDrained, Inside, Quietly
  <2>2. required' /\ pc' = [pc EXCEPT ![p] = "off", ![CaptureTask] = "read"]
    BY <1>13 DEF CaptureDrained, Control, StartFlag
  <2>3. pc'[CaptureTask] = "read" /\ \A q \in Callers : pc'[q] \in {"off", "lock"}
    BY <2>1, <2>2, ActorAssumption DEF Alone, TypeOK, Actors
  <2>4. SlotInv'
    BY <2>3 DEF SlotInv, Closing
  <2>5. QED
    BY <2>1, <2>2, <2>3, <2>4 DEF Quietly, RestInv, CancelInv, CaptureLive, Closing
<1>14. ASSUME NEW p \in Callers, CaptureFails(p) PROVE Quietly'
  <2>1. Alone(p) /\ ~cancelled'
    BY <1>14, AloneInside DEF CaptureFails, Inside, Quietly
  <2>2. QED
    BY <1>14, <2>1, AbortQuiet DEF CaptureFails
<1>15. ASSUME NEW p \in Callers, CallerCancelled(p) PROVE Quietly'
  BY <1>15 DEF CallerCancelled, Unharmed
<1>16. ASSUME NEW p \in Actors, RestoreDrained(p) PROVE Quietly'
  <2>1. CASE p \in Callers
    <3>1. Alone(p) /\ ~cancelled'
      BY <1>16, <2>1, AloneInside DEF RestoreDrained, Inside, Quietly, monitor
    <3>2. QED
      BY <1>16, <2>1, <3>1, GoesOn DEF RestoreDrained, WaitAt, Labels, Commands, Closing
  <2>2. CASE p = CaptureTask
    <3>1. CaptureLive /\ ~cancelled /\ ~cancelled'
      BY <1>16, <2>2 DEF RestoreDrained, CaptureLive, Undisturbed, monitor
    <3>2. QED
      <4>1. TaskOnly /\ pc'[CaptureTask] = "disable"
        BY <1>16, <2>2, ActorAssumption
        DEF RestoreDrained, WaitAt, monitor, TaskOnly, Up, TypeOK, Actors
      <4>2. UNCHANGED monitor
        BY <1>16 DEF RestoreDrained
      <4>3. QED
        BY <1>16, <3>1, <4>1, <4>2, TaskQuiet
        DEF monitor, Quietly, RestInv, Settled, CaptureLive, Closing
  <2>3. QED
    BY <2>1, <2>2 DEF Actors
<1>17. ASSUME NEW p \in Actors, RestoreFails(p) PROVE Quietly'
  <2>1. CASE p \in Callers
    <3>1. Alone(p) /\ ~cancelled'
      BY <1>17, <2>1, AloneInside DEF RestoreFails, Inside, Quietly, Closing
    <3>2. QED
      BY <1>17, <2>1, <3>1, CloseThenQuiet DEF RestoreFails
  <2>2. CASE p = CaptureTask
    <3>1. CaptureLive /\ ~cancelled /\ ~cancelled'
      BY <1>17, <2>2 DEF RestoreFails, CaptureLive, Undisturbed, monitor
    <3>2. QED
      BY <1>17, <2>2, <3>1, TaskClosesThen DEF RestoreFails
  <2>3. QED
    BY <2>1, <2>2 DEF Actors
<1>18. ASSUME NEW p \in Actors, DisableDrained(p) PROVE Quietly'
  <2>1. CASE p \in Callers
    <3>1. Alone(p) /\ ~cancelled'
      BY <1>18, <2>1, AloneInside DEF DisableDrained, Inside, Quietly, Closing
    <3>2. QED
      BY <1>18, <2>1, <3>1, CloseThenQuiet DEF DisableDrained
  <2>2. CASE p = CaptureTask
    <3>1. CaptureLive /\ ~cancelled /\ ~cancelled'
      BY <1>18, <2>2 DEF DisableDrained, CaptureLive, Undisturbed, monitor
    <3>2. QED
      BY <1>18, <2>2, <3>1, TaskClosesThen DEF DisableDrained
  <2>3. QED
    BY <2>1, <2>2 DEF Actors
<1>19. ASSUME NEW p \in Actors, RestoreClosed(p) PROVE Quietly'
  <2>1. CASE p \in Callers
    <3>1. Alone(p) /\ ~cancelled'
      BY <1>19, <2>1, AloneInside DEF RestoreClosed, Inside, Quietly, Closing
    <3>2. QED
      BY <1>19, <2>1, <3>1, SettleQuiet
      DEF RestoreClosed, RestoreReturns, Control, LabelInv, Quietly, SlotInv, Closing
  <2>2. CASE p = CaptureTask
    <3>1. CaptureLive /\ ~cancelled /\ ~cancelled'
      BY <1>19, <2>2 DEF RestoreClosed, CaptureLive, Undisturbed, monitor
    <3>2. QED
      BY <1>19, <2>2, <3>1, TaskReturns DEF RestoreClosed, Closing
  <2>3. QED
    BY <2>1, <2>2 DEF Actors
<1>20. ASSUME NEW p \in Actors, Dropped(p) PROVE Quietly'
  <2>1. CASE p \in Callers
    <3>1. Alone(p) /\ ~cancelled'
      BY <1>20, <2>1, AloneInside DEF Dropped, Inside, Quietly, Closing
    <3>2. QED
      BY <1>20, <2>1, <3>1, SettleQuiet DEF Dropped, Quietly, SlotInv, Closing
  <2>2. CASE p = CaptureTask
    <3>1. CaptureLive /\ ~cancelled /\ ~cancelled'
      BY <1>20, <2>2 DEF Dropped, CaptureLive, Undisturbed, monitor
    <3>2. QED
      BY <1>20, <2>2, <3>1, TaskSettles DEF Dropped, Control, LabelInv
  <2>3. QED
    BY <2>1, <2>2 DEF Actors
<1>21. ASSUME ReadData PROVE Quietly'
  <2>1. CaptureLive /\ ~cancelled /\ ~cancelled'
    BY <1>21 DEF ReadData, Reading, CaptureLive
  <2>2. CASE Finally(FALSE)
    BY <2>1, <2>2, FinallyQuiet
  <2>3. CASE WaitAt(CaptureTask, "read", cur) /\ UNCHANGED <<cur, mstate, required, net>>
    <3>1. TaskOnly /\ pc'[CaptureTask] = "read"
      BY <2>3, ActorAssumption DEF WaitAt, TaskOnly, Up, TypeOK, Actors
    <3>2. QED
      BY <2>1, <2>3, <3>1, TaskQuiet DEF Quietly, RestInv, Settled, CaptureLive, Closing
  <2>4. QED
    BY <1>21, <2>2, <2>3 DEF ReadData
<1>22. ASSUME DeadlineReached PROVE Quietly'
  BY <1>22, FinallyQuiet DEF DeadlineReached, Reading, CaptureLive
<1>23. ASSUME ConnectionLost PROVE Quietly'
  BY <1>23, FinallyQuiet DEF ConnectionLost, Reading, CaptureLive
<1>24. ASSUME CancelDelivered PROVE Quietly'
  <2>1. CaptureLive /\ ~cancelled' /\ Awaiting
    BY <1>24 DEF CancelDelivered, Quietly, CancelInv
  <2>2. CASE Finally(FALSE)
    BY <2>1, <2>2, FinallyQuiet
  <2>3. CASE End(CaptureTask) /\ UNCHANGED <<cur, mstate, required, net>>
    <3>1. TaskOnly /\ pc'[CaptureTask] = "off"
      BY <2>3, ActorAssumption DEF End, WaitAt, TaskOnly, Up, TypeOK, Actors
    <3>2. QED
      BY <2>1, <2>3, <3>1, TaskQuiet DEF Quietly, RestInv, Settled, Closing
  <2>4. QED
    BY <1>24, <2>2, <2>3 DEF CancelDelivered
<1>25. ASSUME ConnectionDrops PROVE Quietly'
  <2>1. TaskOnly /\ UNCHANGED <<monitor, locals>>
    BY <1>25 DEF ConnectionDrops, monitor, locals, TaskOnly, Up, TypeOK
  <2>2. QED
    BY <2>1, TaskQuiet
    DEF monitor, locals, Quietly, RestInv, Settled, CancelInv, Awaiting, CaptureLive
<1>26. ASSUME FallsMute PROVE Quietly'
  <2>1. TaskOnly /\ UNCHANGED <<monitor, locals>>
    BY <1>26 DEF FallsMute, monitor, locals, TaskOnly, Up, Audible, TypeOK
  <2>2. QED
    BY <2>1, TaskQuiet
    DEF monitor, locals, Quietly, RestInv, Settled, CancelInv, Awaiting, CaptureLive
<1>27. ASSUME UdpPacket PROVE Quietly'
  <2>1. TaskOnly /\ UNCHANGED <<monitor, locals>>
    BY <1>27 DEF UdpPacket, monitor, locals, TaskOnly, Up
  <2>2. QED
    BY <2>1, TaskQuiet
    DEF monitor, locals, Quietly, RestInv, Settled, CancelInv, Awaiting, CaptureLive
<1>28. ASSUME Crash PROVE Quietly'
  BY <1>28 DEF Crash, Unharmed
<1>29. CASE UNCHANGED vars
  BY <1>29 DEF vars, monitor, locals, gateway, Quietly, RestInv, Settled, SlotInv,
         CancelInv, Working, Awaiting, Inside, CaptureLive, Up
<1>30. QED
  BY <1>1, <1>2, <1>3, <1>4, <1>5, <1>6, <1>7, <1>8, <1>9, <1>10, <1>11, <1>12,
     <1>13, <1>14, <1>15, <1>16, <1>17, <1>18, <1>19, <1>20, <1>21, <1>22, <1>23,
     <1>24, <1>25, <1>26, <1>27, <1>28, <1>29
  DEF Next, Acquire, CallerStep, RestoreStep, CaptureStep

\* When every coroutine has ended, and none was cut short, restore_required is shown
\* exactly while the stock settings are owed, and no transient state stays.
THEOREM ReportIsQuiet == Spec => []QuietReport
<1>1. Init => QuietInv
  BY ActorAssumption
  DEF Init, QuietInv, RestInv, Settled, SlotInv, CancelInv, Closing, Actors
<1>2. IInv /\ QuietInv /\ [Next]_vars => QuietInv'
  BY QuietStep DEF IInv, Control
<1>3. QuietInv => QuietReport
  BY DEF QuietInv, Unharmed, RestInv, Settled, Working, Awaiting, Inside, CaptureLive,
         Quiet, QuietReport, Actors
<1>4. QED
  BY <1>1, <1>2, <1>3, Invariance, PTL DEF Spec
=============================================================================
