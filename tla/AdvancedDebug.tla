---------------------------- MODULE AdvancedDebug ----------------------------
(***************************************************************************)
(* The temporary TCP/PIC capture of advanced_debug.py: service calls start, *)
(* stop and recover under one asyncio lock, the capture task that runs     *)
(* without it, the monitor's single (_reader, _writer) slot, and the       *)
(* gateway: its PIC settings and the UART bridge that a TCP client selects. *)
(*                                                                         *)
(* A label in pc names the await at which a coroutine is suspended; what   *)
(* the code runs between two awaits is one action.  The labels in Commands *)
(* stand for "await writer.drain()" after writing that command.  drain()   *)
(* returns when the transport has room, not when the gateway has the       *)
(* command: on a connection whose far end has gone silent it returns, and  *)
(* the command stays in a buffer until it is lost with the connection.     *)
(***************************************************************************)
EXTENDS Naturals, FiniteSets

CONSTANTS
  Callers,      \* coroutines that call async_start, async_stop, async_recover
  CaptureTask,  \* the task created by async_start
  Conns,        \* TCP connections (StreamReader, StreamWriter pairs)
  NoConn,       \* _reader and _writer are None
  Nobody,       \* the lock is free
  Faults        \* the faults this instance admits, a subset of FaultKinds

FaultKinds == {"cancel", "crash", "udp", "stall"}

ASSUME ActorAssumption == CaptureTask \notin Callers /\ Nobody \notin Callers
ASSUME ConnAssumption == NoConn \notin Conns
ASSUME FaultAssumption == Faults \subseteq FaultKinds

VARIABLES
  lock,       \* _lock: the caller that holds it
  cur,        \* _reader and _writer, always assigned together
  mstate,     \* _state
  required,   \* _restoration_required
  cancelled,  \* task.cancel() called, not yet delivered to the capture task
  taskError,  \* the exception no handler of _run_capture catches
  pc,         \* where each coroutine waits
  job,        \* which method each coroutine runs
  conn,       \* the connection each coroutine waits on
  net,        \* each connection: open, mute (it looks open to Home Assistant,
              \* and nothing gets through any more) or closed
  bridge,     \* the gateway relays TCP to the PIC
  pic,        \* settings of the PIC
  asked,      \* history: the settings last asked of the PIC
  happened    \* history: the faults so far

monitor == <<lock, cur, mstate, required, cancelled, taskError>>
locals  == <<pc, job, conn>>
link    == <<bridge, pic>>
gateway == <<net, bridge, pic>>
history == <<asked, happened>>
vars    == <<monitor, locals, gateway, history>>

Actors   == Callers \cup {CaptureTask}
Commands == {"setup", "capture", "restore", "disable"}
Settings == {"stock", "capture"}
Closing  == {"closeOk", "closeFail", "dropping"}
Labels   == {"off", "lock", "connect", "handshake", "await", "read"}
              \cup Commands \cup Closing
States   == {"idle", "starting", "capturing", "stopping", "error",
             "restore_required"}

Init ==
  /\ lock = Nobody /\ cur = NoConn /\ mstate = "idle" /\ required = FALSE
  /\ cancelled = FALSE /\ taskError = "none"
  /\ pc = [p \in Actors |-> "off"]
  /\ job = [p \in Actors |-> IF p = CaptureTask THEN "capture" ELSE "start"]
  /\ conn = [p \in Actors |-> NoConn]
  /\ net = [c \in Conns |-> "closed"]
  /\ bridge = FALSE /\ pic = "stock"
  /\ asked = "stock" /\ happened = {}

Up      == {c \in Conns : net[c] # "closed"}
Audible == {c \in Conns : net[c] = "open"}

CaptureLive == pc[CaptureTask] # "off"

-----------------------------------------------------------------------------
(* The gateway: what a command does when it arrives.                        *)

Takes(cmd) ==
  /\ bridge' = IF cmd = "setup" THEN TRUE
               ELSE IF cmd = "disable" THEN FALSE ELSE bridge
  /\ pic' = IF bridge /\ cmd = "capture" THEN "capture"
            ELSE IF bridge /\ cmd = "restore" THEN "stock" ELSE pic

\* drain() returned: the gateway has the command, or the buffers do.
Delivered(c, cmd) ==
  \/ net[c] = "open" /\ Takes(cmd)
  \/ net[c] = "mute" /\ UNCHANGED link

\* A write whose drain failed or was abandoned may still have arrived.
MayTake(cmd) ==
  \/ cmd \in Commands /\ Takes(cmd)
  \/ UNCHANGED link

-----------------------------------------------------------------------------
(* Control: suspending at an await, ending a coroutine.                     *)

WaitAt(p, label, c) ==
  /\ pc' = [pc EXCEPT ![p] = label]
  /\ conn' = [conn EXCEPT ![p] = c]

\* Seeded fault: the lock is taken but never released.
EndHoldingLock(p) == WaitAt(p, "off", NoConn) /\ UNCHANGED lock

\* The coroutine returns or raises; a caller leaves "async with self._lock".
End(p) ==
  /\ WaitAt(p, "off", NoConn)
  /\ lock' = IF p = lock THEN Nobody ELSE lock

\* writer.close() and the await of wait_closed(); the slot is emptied first.
CloseCurrent(p, label, s) ==
  /\ cur' = NoConn
  /\ net' = [net EXCEPT ![cur] = "closed"]
  /\ WaitAt(p, label, cur)
  /\ mstate' = s
  /\ UNCHANGED <<lock, required, job>>

\* Seeded fault: a state the sensor does not know.
BeginRecoverUnknown(p) ==
  /\ mstate' = "recovering"
  /\ WaitAt(p, "connect", NoConn)
  /\ job' = [job EXCEPT ![p] = "recover"]

BeginRecover(p) ==
  /\ mstate' = "stopping"
  /\ WaitAt(p, "connect", NoConn)
  /\ job' = [job EXCEPT ![p] = "recover"]

\* Seeded fault: a failed restoration is reported like a successful one.
OutcomeOptimistic(j, ok) == IF j = "start" THEN "error" ELSE "idle"

\* The outcome of a restoration reaches the flag and the state; a stop whose
\* restoration failed goes on to reconnect with the lock held.
Outcome(j, ok) ==
  IF ~ok THEN "restore_required" ELSE IF j = "start" THEN "error" ELSE "idle"

\* Seeded fault: the flag is cleared by every attempt.
SettleAlwaysClears(p, ok) ==
  /\ required' = FALSE
  /\ UNCHANGED <<cur, net>>
  /\ mstate' = Outcome(job[p], ok)
  /\ End(p)
  /\ UNCHANGED job

Settle(p, ok) ==
  /\ required' = ~ok
  /\ UNCHANGED <<cur, net>>
  /\ \/ /\ job[p] = "stop" /\ ~ok
        /\ BeginRecover(p)
        /\ UNCHANGED lock
     \/ /\ ~(job[p] = "stop" /\ ~ok)
        /\ mstate' = Outcome(job[p], ok)
        /\ End(p)
        /\ UNCHANGED job

\* _restore_current_connection has returned; the capture task closes once more
\* after a failure, whatever connection the slot holds by then.
RestoreReturns(p, ok) ==
  IF job[p] = "capture" /\ ~ok /\ cur # NoConn
  THEN CloseCurrent(p, "dropping", mstate)
  ELSE Settle(p, ok)

\* The _close() inside _restore_current_connection.
CloseThenReturn(p, ok) ==
  IF cur # NoConn
  THEN CloseCurrent(p, IF ok THEN "closeOk" ELSE "closeFail", mstate)
  ELSE Settle(p, ok)

\* _restore_current_connection up to its first await.
Restore(p, s) ==
  IF cur = NoConn
  THEN Settle(p, FALSE)
  ELSE /\ WaitAt(p, "restore", cur)
       /\ mstate' = s
       /\ UNCHANGED <<lock, cur, required, job, net>>

\* The except clauses of async_start and async_recover: a start that never
\* armed the PIC only closes, one that did restores; a recovery closes.
Abort(p) ==
  IF job[p] = "start" /\ required
  THEN Restore(p, mstate)
  ELSE IF cur # NoConn
       THEN CloseCurrent(p, "dropping", mstate)
       ELSE Settle(p, job[p] = "start")

-----------------------------------------------------------------------------
(* Service calls.                                                           *)

Call(p) ==
  /\ pc[p] = "off"
  /\ \E j \in {"start", "stop", "recover"} : job' = [job EXCEPT ![p] = j]
  /\ WaitAt(p, "lock", NoConn)
  /\ UNCHANGED <<monitor, gateway, history>>

\* Seeded fault: the busy check looks at the flag only.
StartLockedUnchecked(p) ==
  /\ pc[p] = "lock" /\ job[p] = "start" /\ lock = Nobody /\ ~required
  /\ lock' = p
  /\ mstate' = "starting"
  /\ WaitAt(p, "connect", NoConn)
  /\ UNCHANGED <<cur, required, cancelled, taskError, job, gateway, history>>

StartLocked(p) ==
  /\ pc[p] = "lock" /\ job[p] = "start" /\ lock = Nobody
  /\ \/ /\ CaptureLive \/ required                    \* AdvancedDebugBusyError
        /\ WaitAt(p, "off", NoConn)
        /\ UNCHANGED <<lock, mstate>>
     \/ /\ ~CaptureLive /\ ~required
        /\ lock' = p
        /\ mstate' = "starting"
        /\ WaitAt(p, "connect", NoConn)
  /\ UNCHANGED <<cur, required, cancelled, taskError, job, gateway, history>>

\* Seeded fault: with nothing owed there is nothing to recover.
RecoverLockedOwed(p) ==
  /\ pc[p] = "lock" /\ job[p] = "recover" /\ lock = Nobody
  /\ \/ /\ required
        /\ lock' = p /\ mstate' = "stopping"
        /\ WaitAt(p, "connect", NoConn)
     \/ /\ ~required
        /\ mstate' = "idle"
        /\ WaitAt(p, "off", NoConn)
        /\ UNCHANGED lock
  /\ UNCHANGED <<cur, required, cancelled, taskError, job, gateway, history>>

\* A recovery connects and restores, whatever the flag says.
RecoverLocked(p) ==
  /\ pc[p] = "lock" /\ job[p] = "recover" /\ lock = Nobody
  /\ lock' = p
  /\ mstate' = "stopping"
  /\ WaitAt(p, "connect", NoConn)
  /\ UNCHANGED <<cur, required, cancelled, taskError, job, gateway, history>>

\* task.cancel() and "await task".
StopLockedCancels(p) ==
  /\ pc[p] = "lock" /\ job[p] = "stop" /\ lock = Nobody /\ CaptureLive
  /\ lock' = p
  /\ cancelled' = TRUE
  /\ WaitAt(p, "await", NoConn)
  /\ UNCHANGED <<cur, mstate, required, taskError, job, gateway, history>>

\* Seeded fault: a stop without a connection leaves the debt to somebody else.
StopBodyGivesUp(p) ==
  \/ /\ required /\ cur # NoConn
     /\ lock' = p
     /\ WaitAt(p, "restore", cur)
     /\ UNCHANGED <<mstate, job>>
  \/ /\ ~required \/ cur = NoConn
     /\ lock' = Nobody
     /\ WaitAt(p, "off", NoConn)
     /\ UNCHANGED <<mstate, job>>

\* The rest of async_stop: restore on the connection still held, or reconnect.
StopBody(p) ==
  \/ /\ required /\ cur # NoConn
     /\ lock' = p
     /\ WaitAt(p, "restore", cur)
     /\ UNCHANGED <<mstate, job>>
  \/ /\ required /\ cur = NoConn
     /\ lock' = p
     /\ BeginRecover(p)
  \/ /\ ~required
     /\ lock' = Nobody
     /\ WaitAt(p, "off", NoConn)
     /\ UNCHANGED <<mstate, job>>

StopLocked(p) ==
  /\ pc[p] = "lock" /\ job[p] = "stop" /\ lock = Nobody /\ ~CaptureLive
  /\ StopBody(p)
  /\ UNCHANGED <<cur, required, cancelled, taskError, gateway, history>>

StopResumes(p) ==
  /\ pc[p] = "await" /\ ~CaptureLive
  /\ StopBody(p)
  /\ UNCHANGED <<cur, required, cancelled, taskError, gateway, history>>

\* The slot is about to be overwritten: its connection may give its name to the new.
Referenced == {conn[q] : q \in Actors}

\* open_connection succeeds: the slot is overwritten, SETUP is written.
Connected(p) ==
  /\ pc[p] = "connect"
  /\ \E c \in Conns \ Referenced :
       /\ cur' = c
       /\ net' = [net EXCEPT ![c] = "open"]
       /\ WaitAt(p, "setup", c)
  /\ UNCHANGED <<lock, mstate, required, cancelled, taskError, job, link, history>>

ConnectFails(p) ==
  /\ pc[p] = "connect"
  /\ Abort(p)
  /\ UNCHANGED <<cancelled, taskError, link, history>>

\* self._reader.read(256): None has no attribute read (an AttributeError that
\* async_recover does not catch), and a reader admits one waiting coroutine.
SetupDrained(p) ==
  /\ pc[p] = "setup" /\ conn[p] \in Up
  /\ Delivered(conn[p], "setup")
  /\ \/ /\ cur # NoConn
        /\ pc[CaptureTask] = "read" => conn[CaptureTask] # cur
        /\ WaitAt(p, "handshake", cur)
        /\ UNCHANGED <<lock, cur, mstate, required, job, net>>
     \/ /\ cur # NoConn /\ pc[CaptureTask] = "read" /\ conn[CaptureTask] = cur
        /\ Abort(p)
     \/ /\ cur = NoConn
        /\ End(p)
        /\ UNCHANGED <<cur, mstate, required, job, net>>
  /\ UNCHANGED <<cancelled, taskError, history>>

SetupFails(p) ==
  /\ pc[p] = "setup"
  /\ MayTake("setup")
  /\ Abort(p)
  /\ UNCHANGED <<cancelled, taskError, history>>

\* Seeded fault: the flag is left for later.
HandshakeOkUnflagged(p) ==
  /\ pc[p] = "handshake" /\ conn[p] \in Audible
  /\ \/ /\ job[p] = "start"
        /\ asked' = "capture"
        /\ WaitAt(p, "capture", cur)
        /\ UNCHANGED <<lock, cur, mstate, required, job, net>>
     \/ /\ job[p] = "recover"
        /\ Restore(p, mstate)
        /\ UNCHANGED asked
  /\ UNCHANGED <<cancelled, taskError, link, happened>>

\* "#ok" arrived: a start takes the flag before it writes the capture commands.
HandshakeOk(p) ==
  /\ pc[p] = "handshake" /\ conn[p] \in Audible
  /\ \/ /\ job[p] = "start"
        /\ required' = TRUE /\ asked' = "capture"
        /\ WaitAt(p, "capture", cur)
        /\ UNCHANGED <<lock, cur, mstate, job, net>>
     \/ /\ job[p] = "recover"
        /\ Restore(p, mstate)
        /\ UNCHANGED asked
  /\ UNCHANGED <<cancelled, taskError, link, happened>>

HandshakeFails(p) ==
  /\ pc[p] = "handshake"
  /\ Abort(p)
  /\ UNCHANGED <<cancelled, taskError, link, history>>

\* The capture commands are out: the task starts reading.
CaptureDrained(p) ==
  /\ pc[p] = "capture" /\ conn[p] \in Up
  /\ Delivered(conn[p], "capture")
  /\ mstate' = "capturing"
  /\ taskError' = "none"
  /\ pc' = [pc EXCEPT ![p] = "off", ![CaptureTask] = "read"]
  /\ conn' = [conn EXCEPT ![p] = NoConn, ![CaptureTask] = cur]
  /\ lock' = Nobody
  /\ UNCHANGED <<cur, required, cancelled, job, net, history>>

CaptureFails(p) ==
  /\ pc[p] = "capture"
  /\ MayTake("capture")
  /\ Abort(p)
  /\ UNCHANGED <<cancelled, taskError, history>>

-----------------------------------------------------------------------------
(* _restore_current_connection and _close, run by callers and by the task.  *)

Undisturbed(p) == p = CaptureTask => ~cancelled

\* A drain() that returns is all that the code waits for; it reads no answer.
RestoreDrained(p) ==
  /\ pc[p] = "restore" /\ conn[p] \in Up /\ Undisturbed(p)
  /\ Delivered(conn[p], "restore")
  /\ asked' = "stock"
  /\ WaitAt(p, "disable", conn[p])
  /\ UNCHANGED <<monitor, job, net, happened>>

DisableDrained(p) ==
  /\ pc[p] = "disable" /\ conn[p] \in Up /\ Undisturbed(p)
  /\ Delivered(conn[p], "disable")
  /\ CloseThenReturn(p, TRUE)
  /\ UNCHANGED <<cancelled, taskError, history>>

RestoreFails(p) ==
  /\ pc[p] \in {"restore", "disable"} /\ Undisturbed(p)
  /\ MayTake(pc[p])
  /\ CloseThenReturn(p, FALSE)
  /\ UNCHANGED <<cancelled, taskError, history>>

\* wait_closed() returned, failed or timed out.
RestoreClosed(p) ==
  /\ pc[p] \in {"closeOk", "closeFail"} /\ Undisturbed(p)
  /\ RestoreReturns(p, pc[p] = "closeOk")
  /\ UNCHANGED <<cancelled, taskError, link, history>>

Dropped(p) ==
  /\ pc[p] = "dropping" /\ Undisturbed(p)
  /\ Settle(p, job[p] = "start")
  /\ UNCHANGED <<cancelled, taskError, link, history>>

-----------------------------------------------------------------------------
(* The capture task.                                                        *)

\* Seeded fault: the end of a capture is taken for its restoration.
FinallyAssumesRestored(lost) ==
  IF cur = NoConn
  THEN Settle(CaptureTask, ~lost)
  ELSE CloseCurrent(CaptureTask, IF lost THEN "dropping" ELSE "closeOk", "stopping")

\* The finally clause: a lost connection is closed, any other end restores.
Finally(lost) ==
  IF ~lost
  THEN Restore(CaptureTask, "stopping")
  ELSE IF cur = NoConn
       THEN Settle(CaptureTask, FALSE)
       ELSE CloseCurrent(CaptureTask, "dropping", "stopping")

Reading == pc[CaptureTask] = "read" /\ ~cancelled

SomeoneReads(c) == \E q \in Callers : pc[q] = "handshake" /\ conn[q] = c

\* A chunk arrived; the loop asserts that the slot is filled and reads from
\* whatever connection it holds now.
ReadData ==
  /\ Reading /\ conn[CaptureTask] \in Up
  /\ \/ /\ cur # NoConn /\ ~SomeoneReads(cur)
        /\ WaitAt(CaptureTask, "read", cur)
        /\ UNCHANGED <<lock, cur, mstate, required, job, net, taskError>>
     \/ /\ cur # NoConn /\ SomeoneReads(cur)
        /\ taskError' = "RuntimeError"
        /\ Finally(FALSE)
     \/ /\ cur = NoConn
        /\ taskError' = "AssertionError"
        /\ Finally(FALSE)
  /\ UNCHANGED <<cancelled, link, history>>

DeadlineReached ==
  /\ Reading
  /\ Finally(FALSE)
  /\ UNCHANGED <<cancelled, taskError, link, history>>

ConnectionLost ==
  /\ Reading /\ conn[CaptureTask] \notin Up
  /\ Finally(TRUE)
  /\ UNCHANGED <<cancelled, taskError, link, history>>

\* CancelledError reaches the task: out of the loop it runs the finally clause,
\* inside the finally clause it skips the rest of it.
CancelDelivered ==
  /\ CaptureLive /\ cancelled
  /\ cancelled' = FALSE
  /\ \/ /\ pc[CaptureTask] = "read"
        /\ Finally(FALSE)
        /\ UNCHANGED link
     \/ /\ pc[CaptureTask] # "read"
        /\ MayTake(pc[CaptureTask])
        /\ End(CaptureTask)
        /\ UNCHANGED <<cur, mstate, required, job, net>>
  /\ UNCHANGED <<taskError, history>>

-----------------------------------------------------------------------------
(* Faults and the environment.                                              *)

ConnectionDrops ==
  /\ \E c \in Up : net' = [net EXCEPT ![c] = "closed"]
  /\ UNCHANGED <<monitor, locals, link, history>>

\* The far end is gone (the Wi-Fi, the gateway's power), and nothing says so.
FallsMute ==
  /\ "stall" \in Faults
  /\ \E c \in Audible : net' = [net EXCEPT ![c] = "mute"]
  /\ happened' = happened \cup {"stall"}
  /\ UNCHANGED <<monitor, locals, link, asked>>

\* A caller is cancelled: no handler of start and recover catches it; a stop
\* that awaits the task passes it on and suppresses it.
CallerCancelled(p) ==
  /\ "cancel" \in Faults /\ pc[p] # "off"
  /\ \/ /\ pc[p] = "await"
        /\ cancelled' = CaptureLive
        /\ UNCHANGED <<lock, pc, conn, link>>
     \/ /\ pc[p] # "await"
        /\ MayTake(pc[p])
        /\ End(p)
        /\ UNCHANGED cancelled
  /\ happened' = happened \cup {"cancel"}
  /\ UNCHANGED <<cur, mstate, required, taskError, job, net, asked>>

\* Another client's UDP datagram takes the UART channel away from TCP.
UdpPacket ==
  /\ "udp" \in Faults
  /\ bridge' = FALSE
  /\ happened' = happened \cup {"udp"}
  /\ UNCHANGED <<monitor, locals, net, pic, asked>>

\* Home Assistant is killed and restarted: a new monitor, the same gateway, which
\* may still get what a coroutine had written.
Crash ==
  /\ "crash" \in Faults
  /\ lock' = Nobody /\ cur' = NoConn /\ mstate' = "idle" /\ required' = FALSE
  /\ cancelled' = FALSE /\ taskError' = "none"
  /\ pc' = [p \in Actors |-> "off"]
  /\ conn' = [p \in Actors |-> NoConn]
  /\ net' = [c \in Conns |-> "closed"]
  /\ happened' = happened \cup {"crash"}
  /\ \E p \in Actors : MayTake(pc[p])
  /\ UNCHANGED <<job, asked>>

-----------------------------------------------------------------------------
\* The steps by which an await of coroutine p ends.
CallerStep(p) ==
  \/ StopResumes(p)
  \/ Connected(p) \/ ConnectFails(p)
  \/ SetupDrained(p) \/ SetupFails(p)
  \/ HandshakeOk(p) \/ HandshakeFails(p)
  \/ CaptureDrained(p) \/ CaptureFails(p)

RestoreStep(p) ==
  \/ RestoreDrained(p) \/ RestoreFails(p) \/ DisableDrained(p)
  \/ RestoreClosed(p) \/ Dropped(p)

Acquire(p) ==
  StartLocked(p) \/ RecoverLocked(p) \/ StopLockedCancels(p) \/ StopLocked(p)

CaptureStep == DeadlineReached \/ ConnectionLost \/ CancelDelivered

Next ==
  \/ \E p \in Callers : Call(p) \/ Acquire(p) \/ CallerStep(p) \/ CallerCancelled(p)
  \/ \E p \in Actors : RestoreStep(p)
  \/ ReadData \/ CaptureStep
  \/ ConnectionDrops \/ FallsMute \/ UdpPacket \/ Crash

Spec == Init /\ [][Next]_vars

(***************************************************************************)
(* Every await is bounded: connect 5 s, drain and read 3 s, wait_closed     *)
(* 2 s, the capture by its deadline (the constants of wait_for), so each    *)
(* coroutine's step eventually happens.  asyncio.Lock wakes its waiters in  *)
(* order, so a caller that waits for a lock that keeps being freed gets it. *)
(***************************************************************************)
Fairness ==
  /\ \A p \in Callers : WF_vars(CallerStep(p)) /\ SF_vars(Acquire(p))
  /\ \A p \in Actors : WF_vars(RestoreStep(p))
  /\ WF_vars(CaptureStep)

FairSpec == Spec /\ Fairness

-----------------------------------------------------------------------------
(* Properties.                                                              *)

\* Every variable keeps its type: the flags, the labels of the awaits and the
\* states the sensor knows.
TypeOK ==
  /\ lock \in Callers \cup {Nobody}
  /\ cur \in Conns \cup {NoConn}
  /\ mstate \in States
  /\ required \in BOOLEAN /\ cancelled \in BOOLEAN
  /\ taskError \in {"none", "AssertionError", "RuntimeError"}
  /\ pc \in [Actors -> Labels]
  /\ job \in [Actors -> {"start", "stop", "recover", "capture"}]
  /\ conn \in [Actors -> Conns \cup {NoConn}]
  /\ net \in [Conns -> {"open", "mute", "closed"}]
  /\ bridge \in BOOLEAN /\ pic \in Settings
  /\ asked \in Settings /\ happened \subseteq FaultKinds

Quiet == \A p \in Actors : pc[p] = "off"

\* The gateway took at once, and relayed to the PIC, what a connection accepted.
Attentive == happened \cap {"stall", "udp"} = {}

\* Since the last capture commands a connection accepted the stock settings; an
\* attentive gateway's PIC has them.
Restored == asked = "stock" /\ (Attentive => pic = "stock")

\* The flag _restoration_required falls only behind a restoration: whatever start,
\* stop, recover and the capture task do between each other's awaits, whichever of
\* them fails or is cancelled, whatever stays in a buffer.
CaptureOwed == "crash" \notin happened /\ ~required => Restored

\* What the sensor shows: idle and error only behind a restoration.
IdleMeansRestored ==
  "crash" \notin happened /\ mstate \in {"idle", "error"} => Restored

\* The flag does not survive a killed Home Assistant, but a restoration does not ask
\* it: what turns the sensor to idle later has restored also the settings that the
\* crash left.  (The new monitor itself starts as idle: that is Crash.)
IdleAnnouncesRestored ==
  [][~Crash /\ mstate # "idle" /\ mstate' = "idle" => Restored']_vars

\* While a start writes the capture commands nobody else is between two steps
\* of a restoration, so no restoration can be overtaken by them.
ArmingAlone ==
  \A p, q \in Actors :
    pc[p] = "capture" /\ q # p => pc[q] \in {"off", "lock"}

\* When every coroutine has ended and none was cut short, the sensor says
\* restore_required exactly when the flag is set, and no transient state.
QuietReport ==
  Quiet /\ happened \cap {"cancel", "crash"} = {} =>
    /\ required <=> mstate = "restore_required"
    /\ mstate \in {"idle", "error", "restore_required"}

\* A service call ends: no wait for the lock, for the task or for the gateway
\* lasts for ever, not even a stop that meets the task in its finally clause.
CallsEnd == \A p \in Callers : pc[p] # "off" ~> pc[p] = "off"

\* A capture ends by itself, with a restoration that a connection accepted (and an
\* attentive gateway carried out), or the sensor says that there was none.
RestoredOrReported ==
  asked = "capture" ~> (Restored \/ mstate = "restore_required")

\* src/README.md:126: "If the connection is interrupted, the diagnostic sensor reports
\* restore_required".  A sensor that says idle or error has the stock settings in the
\* PIC, also when a connection was interrupted.
InterruptionReported == mstate \in {"idle", "error"} => pic = "stock"

\* The session implements the custody of the shared PIC: owed is the flag.
Custody == INSTANCE PicCustody
  WITH owed <- required, slipped <- "crash" \in happened, deaf <- ~Attentive

\* Every behaviour of start, stop, recover and the capture task is one that
\* PicCustody allows.
CustodySpec == Custody!Spec
=============================================================================
