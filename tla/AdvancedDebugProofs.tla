-------------------------- MODULE AdvancedDebugProofs --------------------------
(* Theorems about AdvancedDebug, for every set of callers and connections.  *)
EXTENDS AdvancedDebug, TLAPS

(***************************************************************************)
(* The inductive invariant.                                                 *)
(***************************************************************************)
Inside(p) == pc[p] \notin {"off", "lock"}

\* Only the lock's holder is past "async with self._lock".
LockInv == \A p \in Callers : Inside(p) => lock = p

\* Which coroutine can be at which await.
LabelInv ==
  /\ job[CaptureTask] = "capture"
  /\ pc[CaptureTask] \in {"off", "read", "restore", "disable"} \cup Closing
  /\ \A p \in Callers :
       /\ job[p] # "capture"
       /\ pc[p] # "read"
       /\ pc[p] = "capture" => job[p] = "start"

\* A start that passed its busy check has no capture task beside it.
StartAlone == \A p \in Callers : Inside(p) /\ job[p] = "start" => ~CaptureLive

\* The flag as a start leaves it: taken before the capture commands are
\* written, still down when there is nothing to restore.
StartFlag ==
  \A p \in Callers :
    /\ pc[p] = "capture" => required
    /\ pc[p] = "dropping" /\ job[p] = "start" => ~required

\* What is asked of the PIC: capture settings while a start writes its commands, the
\* stock settings behind a RESTORE.  The flag remembers the former, until a crash.
AskInv ==
  /\ \A p \in Callers : pc[p] = "capture" => asked = "capture"
  /\ \A p \in Actors : pc[p] \in {"disable", "closeOk"} => asked = "stock"
  /\ "crash" \notin happened => (asked = "capture" => required)

\* An attentive gateway's PIC is in capture mode only with the bridge open and the
\* capture settings the last ones asked for.
TapInv == Attentive => (pic = "capture" => bridge /\ asked = "capture")

\* No connection is mute before one has fallen mute.
MuteInv == "stall" \notin happened => \A c \in Conns : net[c] # "mute"

\* The sensor shows idle or error only with the flag down.
ReportInv ==
  /\ mstate \in {"idle", "error"} => ~required
  /\ \A p \in Callers :
       job[p] = "start" /\ pc[p] \in {"connect", "setup", "handshake", "capture"} =>
         mstate = "starting"

IInv ==
  /\ TypeOK /\ LockInv /\ LabelInv /\ StartAlone /\ StartFlag
  /\ AskInv /\ TapInv /\ MuteInv /\ ReportInv

-----------------------------------------------------------------------------
(* Type correctness.                                                        *)

\* The variables that the restoration and the except clauses assign.
SessionTyped ==
  /\ lock \in Callers \cup {Nobody}
  /\ cur \in Conns \cup {NoConn}
  /\ mstate \in States
  /\ required \in BOOLEAN
  /\ pc \in [Actors -> Labels]
  /\ job \in [Actors -> {"start", "stop", "recover", "capture"}]
  /\ conn \in [Actors -> Conns \cup {NoConn}]
  /\ net \in [Conns -> {"open", "mute", "closed"}]

\* Suspending a coroutine at an await keeps pc and conn typed.
LEMMA WaitTyped ==
  ASSUME TypeOK, NEW p \in Actors, NEW l \in Labels, NEW c \in Conns \cup
         {NoConn}, WaitAt(p, l, c)
  PROVE  pc' \in [Actors -> Labels] /\ conn' \in [Actors -> Conns \cup {NoConn}]
BY ActorAssumption, ConnAssumption DEF TypeOK, Actors, WaitAt

\* Writing the outcome of a restoration keeps the types.
LEMMA SettleTyped ==
  ASSUME TypeOK, NEW p \in Actors, NEW ok \in BOOLEAN, Settle(p, ok)
  PROVE  SessionTyped'
BY ActorAssumption, ConnAssumption DEF SessionTyped, TypeOK, Actors, Settle,
     States, Labels, Commands, Closing, WaitAt, End, BeginRecover, Outcome

\* Emptying the slot and closing its connection keeps the types.
LEMMA CloseTyped ==
  ASSUME TypeOK, NEW p \in Actors, NEW l \in Labels, NEW s \in States, cur #
         NoConn, CloseCurrent(p, l, s)
  PROVE  SessionTyped'
BY ActorAssumption, ConnAssumption DEF SessionTyped, TypeOK, Actors,
     CloseCurrent, WaitAt

\* So does the return from _restore_current_connection,
LEMMA ReturnTyped ==
  ASSUME TypeOK, NEW p \in Actors, NEW ok \in BOOLEAN, RestoreReturns(p, ok)
  PROVE  SessionTyped'
BY ActorAssumption, ConnAssumption, SettleTyped, CloseTyped DEF SessionTyped,
     TypeOK, Actors, RestoreReturns, Labels, Closing

\* the _close() inside it,
LEMMA CloseThenTyped ==
  ASSUME TypeOK, NEW p \in Actors, NEW ok \in BOOLEAN, CloseThenReturn(p, ok)
  PROVE  SessionTyped'
BY ActorAssumption, ConnAssumption, SettleTyped, CloseTyped DEF SessionTyped,
     TypeOK, Actors, CloseThenReturn, Labels, Closing

\* its entry,
LEMMA RestoreTyped ==
  ASSUME TypeOK, NEW p \in Actors, NEW s \in States, Restore(p, s)
  PROVE  SessionTyped'
BY ActorAssumption, ConnAssumption, SettleTyped DEF SessionTyped, TypeOK,
     Actors, Restore, Labels, Commands, WaitAt

\* the except clauses of start and recover,
LEMMA AbortTyped ==
  ASSUME TypeOK, NEW p \in Actors, Abort(p)
  PROVE  SessionTyped'
BY ActorAssumption, ConnAssumption, SettleTyped, CloseTyped, RestoreTyped DEF
     SessionTyped, TypeOK, Actors, Abort, Labels, Closing

\* and the finally clause of the capture task.
LEMMA FinallyTyped ==
  ASSUME TypeOK, NEW lost \in BOOLEAN, Finally(lost)
  PROVE  SessionTyped'
BY ActorAssumption, ConnAssumption, SettleTyped, CloseTyped, RestoreTyped
DEF Actors, States, Labels, Closing, Finally

\* Every step keeps the types.
LEMMA TypeStep == TypeOK /\ [Next]_vars => TypeOK'
<1> SUFFICES ASSUME TypeOK, [Next]_vars PROVE TypeOK'
  OBVIOUS
<1> USE ActorAssumption, ConnAssumption, FaultAssumption
<1> USE DEF TypeOK, SessionTyped, Actors, States, Labels, Commands, Closing,
     FaultKinds, Settings, gateway, link, history
<1>1. ASSUME NEW p \in Callers, Call(p) PROVE TypeOK'
  BY <1>1 DEF Call, WaitAt, monitor, gateway
<1>2. ASSUME NEW p \in Callers, StartLocked(p) PROVE TypeOK'
  BY <1>2 DEF StartLocked, WaitAt, gateway
<1>3. ASSUME NEW p \in Callers, RecoverLocked(p) PROVE TypeOK'
  BY <1>3 DEF RecoverLocked, WaitAt, gateway
<1>4. ASSUME NEW p \in Callers, StopLockedCancels(p) PROVE TypeOK'
  BY <1>4 DEF StopLockedCancels, WaitAt, gateway
<1>5. ASSUME NEW p \in Callers, StopLocked(p) PROVE TypeOK'
  BY <1>5 DEF StopLocked, WaitAt, BeginRecover, StopBody, gateway
<1>6. ASSUME NEW p \in Callers, StopResumes(p) PROVE TypeOK'
  BY <1>6 DEF StopResumes, WaitAt, BeginRecover, StopBody, gateway
<1>7. ASSUME NEW p \in Callers, Connected(p) PROVE TypeOK'
  BY <1>7 DEF Connected, WaitAt
<1>8. ASSUME NEW p \in Callers, ConnectFails(p) PROVE TypeOK'
  BY <1>8, AbortTyped DEF ConnectFails
<1>9. ASSUME NEW p \in Callers, SetupDrained(p) PROVE TypeOK'
  <2>1. bridge' \in BOOLEAN /\ pic' \in {"stock", "capture"}
    BY <1>9 DEF SetupDrained, Delivered, Takes
  <2>2. CASE Abort(p)
    BY <1>9, <2>1, <2>2, AbortTyped DEF SetupDrained
  <2>3. CASE /\ WaitAt(p, "handshake", cur)
             /\ UNCHANGED <<lock, cur, mstate, required, job, net>>
    BY <1>9, <2>1, <2>3, WaitTyped DEF SetupDrained
  <2>4. CASE End(p) /\ UNCHANGED <<cur, mstate, required, job, net>>
    BY <1>9, <2>1, <2>4, WaitTyped DEF SetupDrained, End
  <2>5. QED
    BY <1>9, <2>2, <2>3, <2>4 DEF SetupDrained
<1>10. ASSUME NEW p \in Callers, SetupFails(p) PROVE TypeOK'
  BY <1>10, AbortTyped DEF SetupFails, MayTake, Takes, Commands
<1>11. ASSUME NEW p \in Callers, HandshakeOk(p) PROVE TypeOK'
  <2>1. mstate \in States
    OBVIOUS
  <2>2. CASE Restore(p, mstate)
    BY <1>11, <2>1, <2>2, RestoreTyped DEF HandshakeOk
  <2>3. CASE /\ WaitAt(p, "capture", cur)
             /\ required' = TRUE
             /\ UNCHANGED <<lock, cur, mstate, job, net>>
    BY <1>11, <2>3, WaitTyped DEF HandshakeOk, Labels, Commands
  <2>4. QED
    BY <1>11, <2>2, <2>3 DEF HandshakeOk
<1>12. ASSUME NEW p \in Callers, HandshakeFails(p) PROVE TypeOK'
  BY <1>12, AbortTyped DEF HandshakeFails
<1>13. ASSUME NEW p \in Callers, CaptureDrained(p) PROVE TypeOK'
  BY <1>13 DEF CaptureDrained, Delivered, Takes
<1>14. ASSUME NEW p \in Callers, CaptureFails(p) PROVE TypeOK'
  BY <1>14, AbortTyped DEF CaptureFails, MayTake, Takes, Commands
<1>15. ASSUME NEW p \in Callers, CallerCancelled(p) PROVE TypeOK'
  <2>1. pc' \in [Actors -> Labels] /\ conn' \in [Actors -> Conns \cup {NoConn}]
    BY <1>15, WaitTyped DEF CallerCancelled, End, Labels
  <2>2. bridge' \in BOOLEAN /\ pic' \in {"stock", "capture"}
    BY <1>15 DEF CallerCancelled, MayTake, Takes
  <2>3. lock' \in Callers \cup {Nobody} /\ cancelled' \in BOOLEAN
    BY <1>15 DEF CallerCancelled, End, CaptureLive
  <2>4. QED
    BY <1>15, <2>1, <2>2, <2>3 DEF CallerCancelled, FaultKinds
<1>16. ASSUME NEW p \in Actors, RestoreDrained(p) PROVE TypeOK'
  BY <1>16 DEF RestoreDrained, Delivered, WaitAt, Takes, monitor
<1>17. ASSUME NEW p \in Actors, RestoreFails(p) PROVE TypeOK'
  BY <1>17, CloseThenTyped DEF RestoreFails, MayTake, Takes, Commands
<1>18. ASSUME NEW p \in Actors, DisableDrained(p) PROVE TypeOK'
  BY <1>18, CloseThenTyped DEF DisableDrained, Delivered, Takes
<1>19. ASSUME NEW p \in Actors, RestoreClosed(p) PROVE TypeOK'
  BY <1>19, ReturnTyped DEF RestoreClosed
<1>20. ASSUME NEW p \in Actors, Dropped(p) PROVE TypeOK'
  BY <1>20, SettleTyped DEF Dropped
<1>21. ASSUME ReadData PROVE TypeOK'
  <2>1. CASE Finally(FALSE)
    BY <1>21, <2>1, FinallyTyped DEF ReadData
  <2>2. CASE /\ WaitAt(CaptureTask, "read", cur)
             /\ UNCHANGED <<lock, cur, mstate, required, job, net, taskError>>
    BY <1>21, <2>2, WaitTyped DEF ReadData, Labels
  <2>3. QED
    BY <1>21, <2>1, <2>2 DEF ReadData
<1>22. ASSUME DeadlineReached PROVE TypeOK'
  BY <1>22, FinallyTyped DEF DeadlineReached
<1>23. ASSUME ConnectionLost PROVE TypeOK'
  BY <1>23, FinallyTyped DEF ConnectionLost
<1>24. ASSUME CancelDelivered PROVE TypeOK'
  <2>1. bridge' \in BOOLEAN /\ pic' \in {"stock", "capture"} /\ cancelled' \in BOOLEAN
    BY <1>24 DEF CancelDelivered, Takes, MayTake
  <2>2. CASE Finally(FALSE)
    BY <1>24, <2>1, <2>2, FinallyTyped DEF CancelDelivered
  <2>3. CASE End(CaptureTask) /\ UNCHANGED <<cur, mstate, required, job, net>>
    BY <1>24, <2>1, <2>3, WaitTyped DEF CancelDelivered, End
  <2>4. QED
    BY <1>24, <2>2, <2>3 DEF CancelDelivered
<1>25. ASSUME ConnectionDrops PROVE TypeOK'
  BY <1>25 DEF ConnectionDrops, monitor, locals
<1>26. ASSUME FallsMute PROVE TypeOK'
  BY <1>26 DEF FallsMute, monitor, locals
<1>27. ASSUME UdpPacket PROVE TypeOK'
  BY <1>27 DEF UdpPacket, monitor, locals
<1>28. ASSUME Crash PROVE TypeOK'
  <2>1. bridge' \in BOOLEAN /\ pic' \in {"stock", "capture"}
    BY <1>28 DEF Crash, Takes, MayTake
  <2>2. QED
    BY <1>28, <2>1 DEF Crash
<1>29. CASE UNCHANGED vars
  BY <1>29 DEF vars, monitor, locals, gateway
<1>30. QED
  BY <1>1, <1>2, <1>3, <1>4, <1>5, <1>6, <1>7, <1>8, <1>9, <1>10, <1>11,
     <1>12, <1>13, <1>14, <1>15, <1>16, <1>17, <1>18, <1>19, <1>20, <1>21,
     <1>22, <1>23, <1>24, <1>25, <1>26, <1>27, <1>28, <1>29
  DEF Next, Acquire, CallerStep, RestoreStep, CaptureStep

-----------------------------------------------------------------------------
(* Control: the lock, the labels and the flag of a start.                   *)

Control == LockInv /\ LabelInv /\ StartAlone /\ StartFlag

\* A caller that writes the outcome leaves the lock, or keeps it to reconnect.
LEMMA SettleControl ==
  ASSUME TypeOK, Control, NEW p \in Callers, Inside(p), NEW ok \in BOOLEAN,
         Settle(p, ok)
  PROVE  Control'
<1> USE ActorAssumption
<1> USE DEF TypeOK, Actors, Control, LockInv, LabelInv, StartAlone, StartFlag,
     Inside, CaptureLive, Closing
<1>1. CASE job[p] = "stop" /\ ~ok
  <2>1. /\ pc' = [pc EXCEPT ![p] = "connect"] /\ job' = [job EXCEPT ![p] = "recover"]
        /\ lock' = lock
    BY <1>1 DEF Settle, WaitAt, BeginRecover
  <2>2. \A q \in Callers : q # p => ~Inside(q)
    OBVIOUS
  <2>3. QED
    BY <2>1, <2>2
<1>2. CASE ~(job[p] = "stop" /\ ~ok)
  <2>1. pc' = [pc EXCEPT ![p] = "off"] /\ job' = job
    BY <1>2 DEF Settle, WaitAt, End
  <2>2. \A q \in Callers : q # p => ~Inside(q)
    OBVIOUS
  <2>3. \A q \in Callers : pc'[q] \in {"off", "lock"}
    BY <2>1, <2>2
  <2>4. QED
    BY <2>1, <2>3
<1>3. QED
  BY <1>1, <1>2

\* The except clauses keep the control invariant.
LEMMA AbortControl ==
  ASSUME TypeOK, Control, NEW p \in Callers, Inside(p), Abort(p)
  PROVE  Control'
<1> USE ActorAssumption, ConnAssumption
<1>0. /\ pc \in [Actors -> Labels] /\ cur \in Conns \cup {NoConn}
      /\ job \in [Actors -> {"start", "stop", "recover", "capture"}]
  BY DEF TypeOK
<1> USE <1>0 DEF Actors, Control, LockInv, LabelInv, StartAlone, StartFlag,
     Inside, CaptureLive, Closing
<1>1. CASE job[p] = "start" /\ required
  BY <1>1 DEF Abort, Restore, Settle, WaitAt, End, BeginRecover
<1>2. CASE ~(job[p] = "start" /\ required) /\ cur # NoConn
  BY <1>2 DEF Abort, CloseCurrent, WaitAt
<1>3. CASE ~(job[p] = "start" /\ required) /\ cur = NoConn
  BY <1>3, SettleControl DEF Abort
<1>4. QED
  BY <1>1, <1>2, <1>3

\* The _close() inside a restoration keeps the control invariant.
LEMMA CloseThenControl ==
  ASSUME TypeOK, Control, NEW p \in Actors, Inside(p), NEW ok \in BOOLEAN,
         CloseThenReturn(p, ok)
  PROVE  Control'
<1> USE ActorAssumption, ConnAssumption
<1> USE DEF TypeOK, Actors, Control, LockInv, LabelInv, StartAlone, StartFlag,
     Inside, CaptureLive, Closing
<1>1. CASE cur # NoConn
  <2>1. PICK l \in {"closeOk", "closeFail"} : CloseCurrent(p, l, mstate)
    BY <1>1 DEF CloseThenReturn
  <2>2. /\ pc' = [pc EXCEPT ![p] = l]
        /\ lock' = lock /\ job' = job /\ required' = required
    BY <2>1 DEF CloseCurrent, WaitAt
  <2>3. CASE p \in Callers
    BY <2>2, <2>3
  <2>4. CASE p = CaptureTask
    BY <2>2, <2>4
  <2>5. QED
    BY <2>3, <2>4
<1>2. CASE cur = NoConn /\ p \in Callers
  BY <1>2, SettleControl DEF CloseThenReturn
<1>3. CASE cur = NoConn /\ p = CaptureTask
  BY <1>3 DEF CloseThenReturn, Settle, WaitAt, End, BeginRecover
<1>4. QED
  BY <1>1, <1>2, <1>3

\* Every step keeps the control invariant.
LEMMA ControlStep == TypeOK /\ Control /\ [Next]_vars => Control'
<1> SUFFICES ASSUME TypeOK, Control, [Next]_vars PROVE Control'
  OBVIOUS
<1> USE ActorAssumption, ConnAssumption
<1>0. /\ pc \in [Actors -> Labels] /\ cur \in Conns \cup {NoConn}
      /\ job \in [Actors -> {"start", "stop", "recover", "capture"}]
  BY DEF TypeOK
<1> USE <1>0 DEF Actors, Control, LockInv, LabelInv, StartAlone, StartFlag,
     Inside, CaptureLive, Closing, Undisturbed, Reading, gateway, link, history
<1>1. ASSUME NEW p \in Callers, Call(p) PROVE Control'
  BY <1>1 DEF Call, WaitAt, monitor, gateway
<1>2. ASSUME NEW p \in Callers, StartLocked(p) PROVE Control'
  BY <1>2 DEF StartLocked, WaitAt, gateway
<1>3. ASSUME NEW p \in Callers, RecoverLocked(p) PROVE Control'
  BY <1>3 DEF RecoverLocked, WaitAt, gateway
<1>4. ASSUME NEW p \in Callers, StopLockedCancels(p) PROVE Control'
  BY <1>4 DEF StopLockedCancels, WaitAt, gateway
<1>5. ASSUME NEW p \in Callers, StopLocked(p) PROVE Control'
  BY <1>5 DEF StopLocked, WaitAt, BeginRecover, StopBody, gateway
<1>6. ASSUME NEW p \in Callers, StopResumes(p) PROVE Control'
  BY <1>6 DEF StopResumes, WaitAt, BeginRecover, StopBody, gateway
<1>7. ASSUME NEW p \in Callers, Connected(p) PROVE Control'
  BY <1>7 DEF Connected, WaitAt
<1>8. ASSUME NEW p \in Callers, ConnectFails(p) PROVE Control'
  BY <1>8, AbortControl DEF ConnectFails
<1>9. ASSUME NEW p \in Callers, SetupDrained(p) PROVE Control'
  <2>1. CASE Abort(p)
    BY <1>9, <2>1, AbortControl DEF SetupDrained
  <2>2. CASE WaitAt(p, "handshake", cur) /\ UNCHANGED <<lock, required, job>>
    BY <1>9, <2>2 DEF SetupDrained, WaitAt
  <2>3. CASE End(p) /\ UNCHANGED <<required, job>>
    BY <1>9, <2>3 DEF SetupDrained, WaitAt, End
  <2>4. QED
    BY <1>9, <2>1, <2>2, <2>3 DEF SetupDrained
<1>10. ASSUME NEW p \in Callers, SetupFails(p) PROVE Control'
  BY <1>10, AbortControl DEF SetupFails
<1>11. ASSUME NEW p \in Callers, HandshakeOk(p) PROVE Control'
  <2>1. CASE Restore(p, mstate) /\ cur = NoConn
    BY <1>11, <2>1, SettleControl DEF HandshakeOk, Restore
  <2>2. CASE Restore(p, mstate) /\ cur # NoConn
    BY <1>11, <2>2 DEF HandshakeOk, WaitAt, Restore
  <2>3. CASE WaitAt(p, "capture", cur) /\ job[p] = "start" /\ required'
             /\ UNCHANGED <<lock, job>>
    BY <1>11, <2>3 DEF HandshakeOk, WaitAt
  <2>4. QED
    BY <1>11, <2>1, <2>2, <2>3 DEF HandshakeOk
<1>12. ASSUME NEW p \in Callers, HandshakeFails(p) PROVE Control'
  BY <1>12, AbortControl DEF HandshakeFails
<1>13. ASSUME NEW p \in Callers, CaptureDrained(p) PROVE Control'
  BY <1>13 DEF CaptureDrained
<1>14. ASSUME NEW p \in Callers, CaptureFails(p) PROVE Control'
  BY <1>14, AbortControl DEF CaptureFails
<1>15. ASSUME NEW p \in Callers, CallerCancelled(p) PROVE Control'
  BY <1>15 DEF CallerCancelled, WaitAt, End
<1>16. ASSUME NEW p \in Actors, RestoreDrained(p) PROVE Control'
  BY <1>16 DEF RestoreDrained, WaitAt, monitor
<1>17. ASSUME NEW p \in Actors, RestoreFails(p) PROVE Control'
  BY <1>17, CloseThenControl DEF RestoreFails
<1>18. ASSUME NEW p \in Actors, DisableDrained(p) PROVE Control'
  BY <1>18, CloseThenControl DEF DisableDrained
<1>19. ASSUME NEW p \in Actors, RestoreClosed(p) PROVE Control'
  BY <1>19 DEF RestoreClosed, WaitAt, End, CloseCurrent, BeginRecover, Settle,
         RestoreReturns
<1>20. ASSUME NEW p \in Actors, Dropped(p) PROVE Control'
  BY <1>20 DEF Dropped, WaitAt, End, BeginRecover, Settle
<1>21. ASSUME ReadData PROVE Control'
  BY <1>21 DEF ReadData, WaitAt, End, CloseCurrent, BeginRecover, Settle,
         Restore, Finally
<1>22. ASSUME DeadlineReached PROVE Control'
  BY <1>22 DEF DeadlineReached, WaitAt, End, CloseCurrent, BeginRecover,
         Settle, Restore, Finally
<1>23. ASSUME ConnectionLost PROVE Control'
  BY <1>23 DEF ConnectionLost, WaitAt, End, CloseCurrent, BeginRecover,
         Settle, Restore, Finally
<1>24. ASSUME CancelDelivered PROVE Control'
  BY <1>24 DEF CancelDelivered, WaitAt, End, CloseCurrent, BeginRecover,
         Settle, Restore, Finally
<1>25. ASSUME ConnectionDrops PROVE Control'
  BY <1>25 DEF ConnectionDrops, monitor, locals
<1>26. ASSUME FallsMute PROVE Control'
  BY <1>26 DEF FallsMute, monitor, locals
<1>27. ASSUME UdpPacket PROVE Control'
  BY <1>27 DEF UdpPacket, monitor, locals
<1>28. ASSUME Crash PROVE Control'
  BY <1>28 DEF Crash
<1>29. CASE UNCHANGED vars
  BY <1>29 DEF vars, monitor, locals, gateway
<1>30. QED
  BY <1>1, <1>2, <1>3, <1>4, <1>5, <1>6, <1>7, <1>8, <1>9, <1>10, <1>11,
     <1>12, <1>13, <1>14, <1>15, <1>16, <1>17, <1>18, <1>19, <1>20, <1>21,
     <1>22, <1>23, <1>24, <1>25, <1>26, <1>27, <1>28, <1>29
  DEF Next, Acquire, CallerStep, RestoreStep, CaptureStep

\* A failure on the way never drops the flag, and leaves nobody but the others
\* past a RESTORE or at the capture commands.
KeepsDebt(p) ==
  /\ required => required'
  /\ \A q \in Actors :
       pc'[q] \in {"disable", "closeOk", "capture"} => q # p /\ pc'[q] = pc[q]

\* Writing a failure keeps the debt,
LEMMA SettleKeeps ==
  ASSUME TypeOK, NEW p \in Actors, NEW ok \in BOOLEAN, ok => ~required,
         Settle(p, ok)
  PROVE  KeepsDebt(p)
BY DEF KeepsDebt, TypeOK, Settle, WaitAt, End, BeginRecover

\* as do closing after a failure,
LEMMA CloseKeeps ==
  ASSUME TypeOK, NEW p \in Actors, NEW s \in States, NEW l \in {"closeFail",
         "dropping"},
         CloseCurrent(p, l, s)
  PROVE  KeepsDebt(p)
BY DEF KeepsDebt, TypeOK, CloseCurrent, WaitAt

\* entering a restoration,
LEMMA RestoreKeeps ==
  ASSUME TypeOK, NEW p \in Actors, NEW s \in States, Restore(p, s)
  PROVE  KeepsDebt(p)
<1>1. CASE cur = NoConn
  BY <1>1, SettleKeeps DEF Restore
<1>2. CASE cur # NoConn
  BY <1>2 DEF KeepsDebt, TypeOK, Restore, WaitAt
<1>3. QED
  BY <1>1, <1>2

\* the except clauses,
LEMMA AbortKeeps ==
  ASSUME TypeOK, NEW p \in Actors, Abort(p)
  PROVE  KeepsDebt(p)
<1>1. mstate \in States
  BY DEF TypeOK
<1>2. CASE job[p] = "start" /\ required
  BY <1>1, <1>2, RestoreKeeps DEF Abort
<1>3. CASE ~(job[p] = "start" /\ required) /\ cur # NoConn
  BY <1>1, <1>3, CloseKeeps DEF Abort
<1>4. CASE ~(job[p] = "start" /\ required) /\ cur = NoConn
  <2>1. Settle(p, job[p] = "start")
    BY <1>4 DEF Abort
  <2>2. (job[p] = "start") \in BOOLEAN /\ (job[p] = "start" => ~required)
    BY <1>4
  <2>3. QED
    BY <2>1, <2>2, SettleKeeps
<1>5. QED
  BY <1>2, <1>3, <1>4

\* the finally clause
LEMMA FinallyKeeps ==
  ASSUME TypeOK, NEW lost \in BOOLEAN, Finally(lost)
  PROVE  KeepsDebt(CaptureTask)
BY SettleKeeps, CloseKeeps, RestoreKeeps DEF Finally, Actors, States

\* and the _close() of a restoration that failed.
LEMMA CloseThenKeeps ==
  ASSUME TypeOK, NEW p \in Actors, CloseThenReturn(p, FALSE)
  PROVE  KeepsDebt(p)
<1>1. mstate \in States
  BY DEF TypeOK
<1>2. QED
  BY <1>1, SettleKeeps, CloseKeeps DEF CloseThenReturn

\* Every step keeps what the monitor knows of the settings that it asked for.
LEMMA AskStep == TypeOK /\ Control /\ AskInv /\ [Next]_vars => AskInv'
<1> SUFFICES ASSUME TypeOK, Control, AskInv, [Next]_vars PROVE AskInv'
  OBVIOUS
<1> USE ActorAssumption, ConnAssumption
<1> USE DEF TypeOK, Actors, Control, LockInv, LabelInv, StartAlone, StartFlag,
     AskInv, Inside, CaptureLive, Closing, Undisturbed, Reading, gateway, link,
     history
<1>1. ASSUME NEW p \in Callers, Call(p) PROVE AskInv'
  BY <1>1 DEF Call, WaitAt, monitor
<1>2. ASSUME NEW p \in Callers, StartLocked(p) PROVE AskInv'
  BY <1>2 DEF StartLocked, WaitAt
<1>3. ASSUME NEW p \in Callers, RecoverLocked(p) PROVE AskInv'
  BY <1>3 DEF RecoverLocked, WaitAt
<1>4. ASSUME NEW p \in Callers, StopLockedCancels(p) PROVE AskInv'
  BY <1>4 DEF StopLockedCancels, WaitAt
<1>5. ASSUME NEW p \in Callers, StopLocked(p) PROVE AskInv'
  BY <1>5 DEF StopLocked, WaitAt, BeginRecover, StopBody
<1>6. ASSUME NEW p \in Callers, StopResumes(p) PROVE AskInv'
  BY <1>6 DEF StopResumes, WaitAt, BeginRecover, StopBody
<1>7. ASSUME NEW p \in Callers, Connected(p) PROVE AskInv'
  BY <1>7 DEF Connected, WaitAt
<1>8. ASSUME NEW p \in Callers, ConnectFails(p) PROVE AskInv'
  BY <1>8, AbortKeeps DEF ConnectFails, KeepsDebt
<1>9. ASSUME NEW p \in Callers, SetupDrained(p) PROVE AskInv'
  <2>1. CASE Abort(p)
    BY <1>9, <2>1, AbortKeeps DEF SetupDrained, KeepsDebt
  <2>2. CASE WaitAt(p, "handshake", cur) /\ required' = required
    BY <1>9, <2>2 DEF SetupDrained, WaitAt
  <2>3. CASE End(p) /\ required' = required
    BY <1>9, <2>3 DEF SetupDrained, WaitAt, End
  <2>4. QED
    BY <1>9, <2>1, <2>2, <2>3 DEF SetupDrained
<1>10. ASSUME NEW p \in Callers, SetupFails(p) PROVE AskInv'
  BY <1>10, AbortKeeps DEF SetupFails, KeepsDebt
<1>11. ASSUME NEW p \in Callers, HandshakeOk(p) PROVE AskInv'
  <2>1. CASE Restore(p, mstate) /\ asked' = asked
    <3>1. KeepsDebt(p)
      BY <2>1, RestoreKeeps
    <3>2. QED
      BY <1>11, <2>1, <3>1 DEF HandshakeOk, KeepsDebt
  <2>2. CASE /\ WaitAt(p, "capture", cur) /\ job[p] = "start"
             /\ required' /\ asked' = "capture"
    <3>1. \A q \in Actors : q # p => pc[q] \in {"off", "lock"}
      BY <1>11, <2>2 DEF HandshakeOk
    <3>2. QED
      BY <1>11, <2>2, <3>1 DEF HandshakeOk, WaitAt
  <2>3. QED
    BY <1>11, <2>1, <2>2 DEF HandshakeOk
<1>12. ASSUME NEW p \in Callers, HandshakeFails(p) PROVE AskInv'
  BY <1>12, AbortKeeps DEF HandshakeFails, KeepsDebt
<1>13. ASSUME NEW p \in Callers, CaptureDrained(p) PROVE AskInv'
  BY <1>13 DEF CaptureDrained
<1>14. ASSUME NEW p \in Callers, CaptureFails(p) PROVE AskInv'
  BY <1>14, AbortKeeps DEF CaptureFails, KeepsDebt
<1>15. ASSUME NEW p \in Callers, CallerCancelled(p) PROVE AskInv'
  BY <1>15 DEF CallerCancelled, WaitAt, End
<1>16. ASSUME NEW p \in Actors, RestoreDrained(p) PROVE AskInv'
  <2>1. \A q \in Callers : pc[q] # "capture"
    BY <1>16 DEF RestoreDrained
  <2>2. QED
    BY <1>16, <2>1 DEF RestoreDrained, WaitAt, monitor
<1>17. ASSUME NEW p \in Actors, RestoreFails(p) PROVE AskInv'
  BY <1>17, CloseThenKeeps DEF RestoreFails, KeepsDebt
<1>18. ASSUME NEW p \in Actors, DisableDrained(p) PROVE AskInv'
  BY <1>18 DEF DisableDrained, WaitAt, End, CloseCurrent, BeginRecover, Settle,
         CloseThenReturn
<1>19. ASSUME NEW p \in Actors, RestoreClosed(p) PROVE AskInv'
  BY <1>19 DEF RestoreClosed, WaitAt, End, CloseCurrent, BeginRecover, Settle,
         RestoreReturns
<1>20. ASSUME NEW p \in Actors, Dropped(p) PROVE AskInv'
  <2>1. KeepsDebt(p)
    <3>1. (job[p] = "start") => ~required
      BY <1>20 DEF Dropped
    <3>2. QED
      BY <1>20, <3>1, SettleKeeps DEF Dropped
  <2>2. QED
    BY <1>20, <2>1 DEF Dropped, KeepsDebt
<1>21. ASSUME ReadData PROVE AskInv'
  <2>1. CASE Finally(FALSE)
    BY <1>21, <2>1, FinallyKeeps DEF ReadData, KeepsDebt
  <2>2. CASE WaitAt(CaptureTask, "read", cur) /\ required' = required
    BY <1>21, <2>2 DEF ReadData, WaitAt
  <2>3. QED
    BY <1>21, <2>1, <2>2 DEF ReadData
<1>22. ASSUME DeadlineReached PROVE AskInv'
  BY <1>22, FinallyKeeps DEF DeadlineReached, KeepsDebt
<1>23. ASSUME ConnectionLost PROVE AskInv'
  BY <1>23, FinallyKeeps DEF ConnectionLost, KeepsDebt
<1>24. ASSUME CancelDelivered PROVE AskInv'
  <2>1. CASE Finally(FALSE)
    BY <1>24, <2>1, FinallyKeeps DEF CancelDelivered, KeepsDebt
  <2>2. CASE End(CaptureTask) /\ required' = required
    BY <1>24, <2>2 DEF CancelDelivered, WaitAt, End
  <2>3. QED
    BY <1>24, <2>1, <2>2 DEF CancelDelivered
<1>25. ASSUME ConnectionDrops PROVE AskInv'
  BY <1>25 DEF ConnectionDrops, monitor, locals
<1>26. ASSUME FallsMute PROVE AskInv'
  BY <1>26 DEF FallsMute, monitor, locals
<1>27. ASSUME UdpPacket PROVE AskInv'
  BY <1>27 DEF UdpPacket, monitor, locals
<1>28. ASSUME Crash PROVE AskInv'
  BY <1>28 DEF Crash
<1>29. CASE UNCHANGED vars
  BY <1>29 DEF vars, monitor, locals
<1>30. QED
  BY <1>1, <1>2, <1>3, <1>4, <1>5, <1>6, <1>7, <1>8, <1>9, <1>10, <1>11,
     <1>12, <1>13, <1>14, <1>15, <1>16, <1>17, <1>18, <1>19, <1>20, <1>21,
     <1>22, <1>23, <1>24, <1>25, <1>26, <1>27, <1>28, <1>29
  DEF Next, Acquire, CallerStep, RestoreStep, CaptureStep

\* The history only grows.
LEMMA HappenedGrows == [Next]_vars => happened \subseteq happened'
BY DEF Next, vars, Call, Acquire, StartLocked, RecoverLocked, StopLockedCancels,
       StopLocked, CallerStep, StopResumes, Connected, ConnectFails, SetupDrained,
       SetupFails, HandshakeOk, HandshakeFails, CaptureDrained, CaptureFails,
       CallerCancelled, RestoreStep, RestoreDrained, RestoreFails, DisableDrained,
       RestoreClosed, Dropped, ReadData, CaptureStep, DeadlineReached, ConnectionLost,
       CancelDelivered, ConnectionDrops, FallsMute, UdpPacket, Crash, history

\* What a command may change: capture settings need the bridge, and are put through
\* only as asked; the bridge is taken back only behind stock settings.
LEMMA TakesTap ==
  ASSUME TypeOK, TapInv, NEW cmd, MayTake(cmd),
         cmd = "capture" => asked = "capture", cmd = "disable" => asked = "stock",
         asked' = asked, happened \subseteq happened'
  PROVE  TapInv'
<1>1. CASE Takes(cmd)
  BY <1>1 DEF TypeOK, Settings, TapInv, Attentive, Takes
<1>2. CASE UNCHANGED link
  BY <1>2 DEF TapInv, Attentive, link
<1>3. QED
  BY <1>1, <1>2 DEF MayTake

\* A coroutine that is cut short, or whose write fails, wrote what it may write.
LEMMA ActorTap ==
  ASSUME TypeOK, LabelInv, AskInv, TapInv, NEW p \in Actors, MayTake(pc[p]),
         asked' = asked, happened \subseteq happened'
  PROVE  TapInv'
<1>1. pc[p] = "capture" => asked = "capture"
  BY DEF LabelInv, AskInv, Actors, Closing
<1>2. pc[p] = "disable" => asked = "stock"
  BY DEF AskInv
<1>3. QED
  BY <1>1, <1>2, TakesTap

\* Every step keeps the invariant of an attentive gateway.
LEMMA TapStep ==
  TypeOK /\ Control /\ AskInv /\ TapInv /\ MuteInv /\ [Next]_vars => TapInv'
<1> SUFFICES ASSUME TypeOK, Control, AskInv, TapInv, MuteInv, [Next]_vars PROVE TapInv'
  OBVIOUS
<1>0. /\ UNCHANGED <<link, history>> => TapInv'
      /\ happened \subseteq happened' /\ LabelInv
  BY HappenedGrows DEF TapInv, Attentive, link, history, Control
<1> USE <1>0 DEF gateway, link, history
<1>1. ASSUME NEW p \in Callers, Call(p) PROVE TapInv'
  BY <1>1 DEF Call
<1>2. ASSUME NEW p \in Callers, StartLocked(p) PROVE TapInv'
  BY <1>2 DEF StartLocked
<1>3. ASSUME NEW p \in Callers, RecoverLocked(p) PROVE TapInv'
  BY <1>3 DEF RecoverLocked
<1>4. ASSUME NEW p \in Callers, StopLockedCancels(p) PROVE TapInv'
  BY <1>4 DEF StopLockedCancels
<1>5. ASSUME NEW p \in Callers, StopLocked(p) PROVE TapInv'
  BY <1>5 DEF StopLocked
<1>6. ASSUME NEW p \in Callers, StopResumes(p) PROVE TapInv'
  BY <1>6 DEF StopResumes
<1>7. ASSUME NEW p \in Callers, Connected(p) PROVE TapInv'
  BY <1>7 DEF Connected
<1>8. ASSUME NEW p \in Callers, ConnectFails(p) PROVE TapInv'
  BY <1>8 DEF ConnectFails
<1>9. ASSUME NEW p \in Callers, SetupDrained(p) PROVE TapInv'
  <2>1. MayTake("setup")
    BY <1>9 DEF SetupDrained, Delivered, MayTake, Commands
  <2>2. QED
    BY <1>9, <2>1, TakesTap DEF SetupDrained
<1>10. ASSUME NEW p \in Callers, SetupFails(p) PROVE TapInv'
  BY <1>10, TakesTap DEF SetupFails
<1>11. ASSUME NEW p \in Callers, HandshakeOk(p) PROVE TapInv'
  <2>1. UNCHANGED <<bridge, pic, happened>> /\ asked' \in {asked, "capture"}
    BY <1>11 DEF HandshakeOk
  <2>2. QED
    BY <2>1 DEF TapInv, Attentive
<1>12. ASSUME NEW p \in Callers, HandshakeFails(p) PROVE TapInv'
  BY <1>12 DEF HandshakeFails
<1>13. ASSUME NEW p \in Callers, CaptureDrained(p) PROVE TapInv'
  <2>1. MayTake("capture") /\ asked = "capture"
    BY <1>13 DEF CaptureDrained, Delivered, MayTake, Commands, AskInv
  <2>2. QED
    BY <1>13, <2>1, TakesTap DEF CaptureDrained
<1>14. ASSUME NEW p \in Callers, CaptureFails(p) PROVE TapInv'
  <2>1. MayTake("capture") /\ asked = "capture"
    BY <1>14 DEF CaptureFails, AskInv
  <2>2. QED
    BY <1>14, <2>1, TakesTap DEF CaptureFails
<1>15. ASSUME NEW p \in Callers, CallerCancelled(p) PROVE TapInv'
  <2>1. CASE MayTake(pc[p])
    BY <1>15, <2>1, ActorTap DEF CallerCancelled, Actors
  <2>2. CASE UNCHANGED link
    BY <1>15, <2>2 DEF CallerCancelled, TapInv, Attentive
  <2>3. QED
    BY <1>15, <2>1, <2>2 DEF CallerCancelled
<1>16. ASSUME NEW p \in Actors, RestoreDrained(p) PROVE TapInv'
  <2>1. asked' = "stock" /\ conn[p] \in Conns /\ UNCHANGED happened
    BY <1>16 DEF RestoreDrained, Up
  <2>2. CASE net[conn[p]] = "mute"
    BY <2>1, <2>2 DEF MuteInv, TapInv, Attentive
  <2>3. CASE Takes("restore")
    BY <2>1, <2>3 DEF TapInv, Attentive, Takes, TypeOK, Settings
  <2>4. QED
    BY <1>16, <2>2, <2>3 DEF RestoreDrained, Delivered
<1>17. ASSUME NEW p \in Actors, RestoreFails(p) PROVE TapInv'
  BY <1>17, ActorTap DEF RestoreFails
<1>18. ASSUME NEW p \in Actors, DisableDrained(p) PROVE TapInv'
  <2>1. MayTake("disable") /\ asked = "stock"
    BY <1>18 DEF DisableDrained, Delivered, MayTake, Commands, AskInv
  <2>2. QED
    BY <1>18, <2>1, TakesTap DEF DisableDrained
<1>19. ASSUME NEW p \in Actors, RestoreClosed(p) PROVE TapInv'
  BY <1>19 DEF RestoreClosed
<1>20. ASSUME NEW p \in Actors, Dropped(p) PROVE TapInv'
  BY <1>20 DEF Dropped
<1>21. ASSUME ReadData PROVE TapInv'
  BY <1>21 DEF ReadData
<1>22. ASSUME DeadlineReached PROVE TapInv'
  BY <1>22 DEF DeadlineReached
<1>23. ASSUME ConnectionLost PROVE TapInv'
  BY <1>23 DEF ConnectionLost
<1>24. ASSUME CancelDelivered PROVE TapInv'
  <2>1. MayTake(pc[CaptureTask])
    BY <1>24 DEF CancelDelivered, MayTake
  <2>2. QED
    BY <1>24, <2>1, ActorTap DEF CancelDelivered, Actors
<1>25. ASSUME ConnectionDrops PROVE TapInv'
  BY <1>25 DEF ConnectionDrops, monitor, locals
<1>26. ASSUME FallsMute PROVE TapInv'
  BY <1>26 DEF FallsMute, Attentive, TapInv
<1>27. ASSUME UdpPacket PROVE TapInv'
  BY <1>27 DEF UdpPacket, Attentive, TapInv
<1>28. ASSUME Crash PROVE TapInv'
  <2>1. PICK p \in Actors : MayTake(pc[p])
    BY <1>28 DEF Crash
  <2>2. QED
    BY <1>28, <2>1, ActorTap DEF Crash
<1>29. CASE UNCHANGED vars
  BY <1>29 DEF vars, monitor, locals
<1>30. QED
  BY <1>1, <1>2, <1>3, <1>4, <1>5, <1>6, <1>7, <1>8, <1>9, <1>10, <1>11,
     <1>12, <1>13, <1>14, <1>15, <1>16, <1>17, <1>18, <1>19, <1>20, <1>21,
     <1>22, <1>23, <1>24, <1>25, <1>26, <1>27, <1>28, <1>29
  DEF Next, Acquire, CallerStep, RestoreStep, CaptureStep

\* No coroutine makes a connection mute.
Unmuted == \A c \in Conns : net'[c] = "mute" => net[c] = "mute"

\* Closing the slot's connection does not, and so neither do writing an outcome, the
\* entry of a restoration, the except clauses, the finally clause and the returns.
LEMMA HelpersUnmuted ==
  ASSUME TypeOK
  PROVE  /\ \A p \in Actors, ok \in BOOLEAN :
              Settle(p, ok) \/ CloseThenReturn(p, ok) \/ RestoreReturns(p, ok) => Unmuted
         /\ \A p \in Actors : Abort(p) \/ Restore(p, mstate) => Unmuted
         /\ \A lost \in BOOLEAN : Finally(lost) => Unmuted
<1>1. \A p, l, s : CloseCurrent(p, l, s) => Unmuted
  BY DEF CloseCurrent, Unmuted, TypeOK
<1>2. \A p, ok : Settle(p, ok) => Unmuted
  BY DEF Settle, Unmuted
<1>3. \A p, s : Restore(p, s) => Unmuted
  BY <1>2 DEF Restore, Unmuted
<1>4. QED
  BY <1>1, <1>2, <1>3 DEF CloseThenReturn, RestoreReturns, Abort, Finally

\* Every step keeps the invariant of the mute connections.
LEMMA MuteStep == TypeOK /\ MuteInv /\ [Next]_vars => MuteInv'
<1> SUFFICES ASSUME TypeOK, MuteInv, [Next]_vars PROVE MuteInv'
  OBVIOUS
<1>0. (Unmuted => MuteInv') /\ (net' = net => Unmuted)
  BY HappenedGrows DEF MuteInv, Unmuted
<1> USE <1>0 DEF gateway, link, history, Actors
<1>1. ASSUME NEW p \in Callers, Call(p) PROVE MuteInv'
  BY <1>1 DEF Call
<1>2. ASSUME NEW p \in Callers, StartLocked(p) PROVE MuteInv'
  BY <1>2 DEF StartLocked
<1>3. ASSUME NEW p \in Callers, RecoverLocked(p) PROVE MuteInv'
  BY <1>3 DEF RecoverLocked
<1>4. ASSUME NEW p \in Callers, StopLockedCancels(p) PROVE MuteInv'
  BY <1>4 DEF StopLockedCancels
<1>5. ASSUME NEW p \in Callers, StopLocked(p) PROVE MuteInv'
  BY <1>5 DEF StopLocked
<1>6. ASSUME NEW p \in Callers, StopResumes(p) PROVE MuteInv'
  BY <1>6 DEF StopResumes
<1>7. ASSUME NEW p \in Callers, Connected(p) PROVE MuteInv'
  BY <1>7 DEF Connected, Unmuted, TypeOK
<1>8. ASSUME NEW p \in Callers, ConnectFails(p) PROVE MuteInv'
  BY <1>8, HelpersUnmuted DEF ConnectFails
<1>9. ASSUME NEW p \in Callers, SetupDrained(p) PROVE MuteInv'
  BY <1>9, HelpersUnmuted DEF SetupDrained
<1>10. ASSUME NEW p \in Callers, SetupFails(p) PROVE MuteInv'
  BY <1>10, HelpersUnmuted DEF SetupFails
<1>11. ASSUME NEW p \in Callers, HandshakeOk(p) PROVE MuteInv'
  BY <1>11, HelpersUnmuted DEF HandshakeOk
<1>12. ASSUME NEW p \in Callers, HandshakeFails(p) PROVE MuteInv'
  BY <1>12, HelpersUnmuted DEF HandshakeFails
<1>13. ASSUME NEW p \in Callers, CaptureDrained(p) PROVE MuteInv'
  BY <1>13 DEF CaptureDrained
<1>14. ASSUME NEW p \in Callers, CaptureFails(p) PROVE MuteInv'
  BY <1>14, HelpersUnmuted DEF CaptureFails
<1>15. ASSUME NEW p \in Callers, CallerCancelled(p) PROVE MuteInv'
  BY <1>15 DEF CallerCancelled
<1>16. ASSUME NEW p \in Actors, RestoreDrained(p) PROVE MuteInv'
  BY <1>16 DEF RestoreDrained
<1>17. ASSUME NEW p \in Actors, RestoreFails(p) PROVE MuteInv'
  BY <1>17, HelpersUnmuted DEF RestoreFails
<1>18. ASSUME NEW p \in Actors, DisableDrained(p) PROVE MuteInv'
  BY <1>18, HelpersUnmuted DEF DisableDrained
<1>19. ASSUME NEW p \in Actors, RestoreClosed(p) PROVE MuteInv'
  BY <1>19, HelpersUnmuted DEF RestoreClosed
<1>20. ASSUME NEW p \in Actors, Dropped(p) PROVE MuteInv'
  BY <1>20, HelpersUnmuted DEF Dropped
<1>21. ASSUME ReadData PROVE MuteInv'
  BY <1>21, HelpersUnmuted DEF ReadData
<1>22. ASSUME DeadlineReached PROVE MuteInv'
  BY <1>22, HelpersUnmuted DEF DeadlineReached
<1>23. ASSUME ConnectionLost PROVE MuteInv'
  BY <1>23, HelpersUnmuted DEF ConnectionLost
<1>24. ASSUME CancelDelivered PROVE MuteInv'
  BY <1>24, HelpersUnmuted DEF CancelDelivered
<1>25. ASSUME ConnectionDrops PROVE MuteInv'
  BY <1>25 DEF ConnectionDrops, Unmuted, TypeOK
<1>26. ASSUME FallsMute PROVE MuteInv'
  BY <1>26 DEF FallsMute, MuteInv
<1>27. ASSUME UdpPacket PROVE MuteInv'
  BY <1>27 DEF UdpPacket
<1>28. ASSUME Crash PROVE MuteInv'
  BY <1>28 DEF Crash, Unmuted
<1>29. CASE UNCHANGED vars
  BY <1>29 DEF vars, monitor, locals
<1>30. QED
  BY <1>1, <1>2, <1>3, <1>4, <1>5, <1>6, <1>7, <1>8, <1>9, <1>10, <1>11,
     <1>12, <1>13, <1>14, <1>15, <1>16, <1>17, <1>18, <1>19, <1>20, <1>21,
     <1>22, <1>23, <1>24, <1>25, <1>26, <1>27, <1>28, <1>29
  DEF Next, Acquire, CallerStep, RestoreStep, CaptureStep

\* Every step keeps the invariant of the reported state.
LEMMA ReportStep == TypeOK /\ Control /\ ReportInv /\ [Next]_vars => ReportInv'
<1> SUFFICES ASSUME TypeOK, Control, ReportInv, [Next]_vars PROVE ReportInv'
  OBVIOUS
<1> USE ActorAssumption, ConnAssumption
<1>0. /\ pc \in [Actors -> Labels] /\ cur \in Conns \cup {NoConn}
      /\ job \in [Actors -> {"start", "stop", "recover", "capture"}]
      /\ required \in BOOLEAN /\ mstate \in States
  BY DEF TypeOK
<1> USE <1>0 DEF Actors, Control, LockInv, LabelInv, StartAlone, StartFlag,
     ReportInv, Inside, CaptureLive, Closing, Undisturbed, Reading, gateway, link,
     history
<1>1. ASSUME NEW p \in Callers, Call(p) PROVE ReportInv'
  BY <1>1 DEF Call, WaitAt, monitor, gateway
<1>2. ASSUME NEW p \in Callers, StartLocked(p) PROVE ReportInv'
  BY <1>2 DEF StartLocked, WaitAt, gateway
<1>3. ASSUME NEW p \in Callers, RecoverLocked(p) PROVE ReportInv'
  BY <1>3 DEF RecoverLocked, WaitAt, gateway
<1>4. ASSUME NEW p \in Callers, StopLockedCancels(p) PROVE ReportInv'
  BY <1>4 DEF StopLockedCancels, WaitAt, gateway
<1>5. ASSUME NEW p \in Callers, StopLocked(p) PROVE ReportInv'
  BY <1>5 DEF StopLocked, WaitAt, BeginRecover, StopBody, gateway
<1>6. ASSUME NEW p \in Callers, StopResumes(p) PROVE ReportInv'
  BY <1>6 DEF StopResumes, WaitAt, BeginRecover, StopBody, gateway
<1>7. ASSUME NEW p \in Callers, Connected(p) PROVE ReportInv'
  BY <1>7 DEF Connected, WaitAt
<1>8. ASSUME NEW p \in Callers, ConnectFails(p) PROVE ReportInv'
  BY <1>8 DEF ConnectFails, WaitAt, End, CloseCurrent, BeginRecover, Settle,
         Restore, Abort, Outcome
<1>9. ASSUME NEW p \in Callers, SetupDrained(p) PROVE ReportInv'
  BY <1>9 DEF SetupDrained, WaitAt, End, CloseCurrent, BeginRecover, Settle,
         Restore, Abort, Takes, Outcome
<1>10. ASSUME NEW p \in Callers, SetupFails(p) PROVE ReportInv'
  BY <1>10 DEF SetupFails, WaitAt, End, CloseCurrent, BeginRecover, Settle,
         Restore, Abort, Takes, MayTake, Commands, Outcome
<1>11. ASSUME NEW p \in Callers, HandshakeOk(p) PROVE ReportInv'
  BY <1>11 DEF HandshakeOk, WaitAt, End, BeginRecover, Settle, Restore, Outcome
<1>12. ASSUME NEW p \in Callers, HandshakeFails(p) PROVE ReportInv'
  BY <1>12 DEF HandshakeFails, WaitAt, End, CloseCurrent, BeginRecover,
         Settle, Restore, Abort, Outcome
<1>13. ASSUME NEW p \in Callers, CaptureDrained(p) PROVE ReportInv'
  BY <1>13 DEF CaptureDrained, Takes
<1>14. ASSUME NEW p \in Callers, CaptureFails(p) PROVE ReportInv'
  BY <1>14 DEF CaptureFails, WaitAt, End, CloseCurrent, BeginRecover, Settle,
         Restore, Abort, Takes, MayTake, Commands, Outcome
<1>15. ASSUME NEW p \in Callers, CallerCancelled(p) PROVE ReportInv'
  BY <1>15 DEF CallerCancelled, WaitAt, End, Takes, MayTake, Commands
<1>16. ASSUME NEW p \in Actors, RestoreDrained(p) PROVE ReportInv'
  BY <1>16 DEF RestoreDrained, WaitAt, Takes, monitor
<1>17. ASSUME NEW p \in Actors, RestoreFails(p) PROVE ReportInv'
  BY <1>17 DEF RestoreFails, WaitAt, End, CloseCurrent, BeginRecover, Settle,
         CloseThenReturn, Takes, MayTake, Commands, Outcome
<1>18. ASSUME NEW p \in Actors, DisableDrained(p) PROVE ReportInv'
  BY <1>18 DEF DisableDrained, WaitAt, End, CloseCurrent, BeginRecover,
         Settle, CloseThenReturn, Takes, Outcome
<1>19. ASSUME NEW p \in Actors, RestoreClosed(p) PROVE ReportInv'
  BY <1>19 DEF RestoreClosed, WaitAt, End, CloseCurrent, BeginRecover, Settle,
         RestoreReturns, Outcome
<1>20. ASSUME NEW p \in Actors, Dropped(p) PROVE ReportInv'
  BY <1>20 DEF Dropped, WaitAt, End, BeginRecover, Settle, Outcome
<1>21. ASSUME ReadData PROVE ReportInv'
  BY <1>21 DEF ReadData, WaitAt, End, CloseCurrent, BeginRecover, Settle,
         Restore, Finally, Outcome
<1>22. ASSUME DeadlineReached PROVE ReportInv'
  BY <1>22 DEF DeadlineReached, WaitAt, End, CloseCurrent, BeginRecover,
         Settle, Restore, Finally, Outcome
<1>23. ASSUME ConnectionLost PROVE ReportInv'
  BY <1>23 DEF ConnectionLost, WaitAt, End, CloseCurrent, BeginRecover,
         Settle, Restore, Finally, Outcome
<1>24. ASSUME CancelDelivered PROVE ReportInv'
  <2>1. CASE Finally(FALSE)
    <3>1. \A q \in Callers : ~(Inside(q) /\ job[q] = "start")
      BY <1>24 DEF CancelDelivered
    <3>2. /\ job' = job /\ \A q \in Callers : pc'[q] = pc[q]
          /\ mstate' \in {"idle", "error"} => ~required'
      <4>1. CASE cur = NoConn
        BY <2>1, <4>1 DEF Finally, Restore, Settle, WaitAt, End, Outcome
      <4>2. CASE cur # NoConn
        BY <2>1, <4>2 DEF Finally, Restore, WaitAt
      <4>3. QED
        BY <4>1, <4>2
    <3>3. QED
      BY <3>1, <3>2
  <2>2. CASE End(CaptureTask) /\ UNCHANGED <<cur, mstate, required, job, net>>
    BY <2>2 DEF End, WaitAt
  <2>3. QED
    BY <1>24, <2>1, <2>2 DEF CancelDelivered
<1>25. ASSUME ConnectionDrops PROVE ReportInv'
  BY <1>25 DEF ConnectionDrops, monitor, locals
<1>26. ASSUME FallsMute PROVE ReportInv'
  BY <1>26 DEF FallsMute, monitor, locals
<1>27. ASSUME UdpPacket PROVE ReportInv'
  BY <1>27 DEF UdpPacket, monitor, locals
<1>28. ASSUME Crash PROVE ReportInv'
  BY <1>28 DEF Crash
<1>29. CASE UNCHANGED vars
  BY <1>29 DEF vars, monitor, locals, gateway
<1>30. QED
  BY <1>1, <1>2, <1>3, <1>4, <1>5, <1>6, <1>7, <1>8, <1>9, <1>10, <1>11,
     <1>12, <1>13, <1>14, <1>15, <1>16, <1>17, <1>18, <1>19, <1>20, <1>21,
     <1>22, <1>23, <1>24, <1>25, <1>26, <1>27, <1>28, <1>29
  DEF Next, Acquire, CallerStep, RestoreStep, CaptureStep

-----------------------------------------------------------------------------
(* The invariant and the theorems.                                          *)

\* The inductive invariant holds in every reachable state.
LEMMA Invariance == Spec => []IInv
<1>1. Init => IInv
  <2> SUFFICES ASSUME Init PROVE IInv
    OBVIOUS
  <2>1. TypeOK
    BY DEF Init, TypeOK, Actors, Labels, States, Settings
  <2>2. LockInv /\ LabelInv /\ StartAlone /\ StartFlag
    BY ActorAssumption
    DEF Init, LockInv, LabelInv, StartAlone, StartFlag, Inside, CaptureLive, Actors
  <2>3. AskInv /\ TapInv /\ MuteInv /\ ReportInv
    BY DEF Init, AskInv, TapInv, MuteInv, ReportInv, Actors
  <2>4. QED
    BY <2>1, <2>2, <2>3 DEF IInv
<1>2. IInv /\ [Next]_vars => IInv'
  BY TypeStep, ControlStep, AskStep, TapStep, MuteStep, ReportStep DEF IInv, Control
<1>3. QED
  BY <1>1, <1>2, PTL DEF Spec

\* Every variable keeps its type, whatever the sets of callers and connections.
THEOREM TypeCorrect == Spec => []TypeOK
<1>1. IInv => TypeOK
  BY DEF IInv
<1>2. QED
  BY <1>1, Invariance, PTL

\* The flag _restoration_required falls only behind stock settings that a connection
\* accepted and that an attentive gateway's PIC has.
THEOREM CaptureIsOwed == Spec => []CaptureOwed
<1>1. IInv => CaptureOwed
  BY DEF IInv, TypeOK, Settings, AskInv, TapInv, CaptureOwed, Restored
<1>2. QED
  BY <1>1, Invariance, PTL

\* The sensor says idle or error only behind such settings.
THEOREM IdleShowsRestored == Spec => []IdleMeansRestored
<1>1. IInv => IdleMeansRestored
  BY DEF IInv, TypeOK, Settings, AskInv, TapInv, ReportInv, IdleMeansRestored, Restored
<1>2. QED
  BY <1>1, Invariance, PTL

\* Nobody is inside a restoration while a start writes the capture commands.
THEOREM ArmingIsAlone == Spec => []ArmingAlone
<1>1. IInv => ArmingAlone
  BY DEF IInv, LockInv, LabelInv, StartAlone, Inside, CaptureLive, Closing,
         Actors, ArmingAlone
<1>2. QED
  BY <1>1, Invariance, PTL

\* What a step that asks for other settings does to the flag.
AskChange ==
  asked' # asked =>
    /\ UNCHANGED happened
    /\ \/ asked' = "capture" /\ required' = TRUE /\ pic' = pic
       \/ asked' = "stock" /\ required' = required

\* Capture settings are asked for only with the flag taken, stock settings without
\* dropping it.
LEMMA AskChangeStep == [Next]_vars => AskChange
BY DEF AskChange, Next, vars, Call, Acquire, StartLocked, RecoverLocked,
       StopLockedCancels, StopLocked, CallerStep, StopResumes, Connected, ConnectFails,
       SetupDrained, SetupFails, HandshakeOk, HandshakeFails, CaptureDrained,
       CaptureFails, CallerCancelled, RestoreStep, RestoreDrained, RestoreFails,
       DisableDrained, RestoreClosed, Dropped, ReadData, CaptureStep, DeadlineReached,
       ConnectionLost, CancelDelivered, ConnectionDrops, FallsMute, UdpPacket, Crash,
       history, link, monitor

\* The capture session implements the custody of the shared PIC.
THEOREM CustodyRefined == Spec => CustodySpec
<1>1. Init => Custody!Init
  BY DEF Init, Custody!Init, Attentive
<1> DEFINE slipped == "crash" \in happened
<1>2. IInv /\ IInv' /\ [Next]_vars
        => [Custody!Next]_<<required, asked, pic, slipped, ~Attentive>>
  <2> SUFFICES ASSUME IInv, IInv', [Next]_vars PROVE Custody!Next
    OBVIOUS
  <2>1. /\ AskChange /\ happened \subseteq happened'
        /\ required' \in BOOLEAN
        /\ asked \in {"stock", "capture"} /\ asked' \in {"stock", "capture"}
        /\ pic' \in {"stock", "capture"}
        /\ ~slipped' => (asked' = "capture" => required')
        /\ Attentive' => (pic' = "capture" => asked' = "capture")
    BY AskChangeStep, HappenedGrows DEF IInv, TypeOK, Settings, AskInv, TapInv
  <2>2. Custody!Obeys /\ (~Attentive => ~Attentive')
    BY <2>1 DEF Custody!Obeys, AskChange, Attentive
  <2>3. CASE slipped' # slipped
    BY <2>1, <2>2, <2>3 DEF Custody!Next, Custody!Slip, AskChange
  <2>4. CASE slipped' = slipped /\ asked' # asked /\ asked' = "capture"
    BY <2>1, <2>2, <2>4 DEF Custody!Next, Custody!Configure, AskChange
  <2>5. CASE slipped' = slipped /\ asked' # asked /\ asked' = "stock"
    BY <2>1, <2>2, <2>5 DEF Custody!Next, Custody!PutBack, AskChange
  <2>6. CASE slipped' = slipped /\ asked' = asked /\ required'
    BY <2>1, <2>2, <2>6 DEF Custody!Next, Custody!Borrow
  <2>7. CASE slipped' = slipped /\ asked' = asked /\ ~required'
    BY <2>1, <2>2, <2>7 DEF Custody!Next, Custody!Discharge
  <2>8. QED
    BY <2>1, <2>3, <2>4, <2>5, <2>6, <2>7
<1>3. QED
  BY <1>1, <1>2, Invariance, PTL DEF Spec, CustodySpec, Custody!Spec
=============================================================================
