--------------------------- MODULE PhysicalDevice ---------------------------
(***************************************************************************)
(* One serial device of the host SDK (physical/PhysicalDevice.c, with the  *)
(* queue, the events and the lock of sys/): the threads that call          *)
(* WritePhysicalDevice, the device thread, the WaitACK thread it creates   *)
(* when FSCI TX acknowledgements are on, and the application thread that   *)
(* opens, closes and destroys the device.  Each open creates one device    *)
(* thread and that one a WaitACK, which close joins unless the device      *)
(* thread left its loop for a failed poll: then there may be several.      *)
(*                                                                         *)
(* The value of lock names the caller that keeps inMessages->lock across   *)
(* steps; Put, Get and IsEmpty hold it within one action.  A frame is its  *)
(* packetIndex, the order in which it was created.                         *)
(***************************************************************************)
EXTENDS Integers, Sequences

CONSTANTS
  Writers,          \* threads that call WritePhysicalDevice
  TxAck,            \* configParams->fsciTxAck
  NumberOfRetries,  \* configParams->numberOfRetries, a uint8_t
  MaxFrames,        \* bound: frames written during a behaviour
  MaxOpens,         \* bound: calls of OpenPhysicalDevice
  MaxFaults         \* bound: failing system calls (open, write, poll)

ASSUME DeviceAssumption ==
  /\ "framer" \notin Writers
  /\ TxAck \in BOOLEAN
  /\ NumberOfRetries \in 0 .. 255
  /\ MaxFrames \in Nat
  /\ MaxOpens \in Nat
  /\ MaxFaults \in Nat

VARIABLES
  status,            \* device->status, "freed" after DestroyPhysicalDevice
  lock, inMessages,  \* the transmit queue and its mutex
  event,             \* the counters of the device's events
  lastTx,            \* the global lastTx
  heapFreed,         \* frames DestroyRawFrame has given back
  dpc, tx, txErr,    \* DeviceThreadRoutine: control, local tx, write failed
  apc, retriesLeft,  \* WaitACK: control and retries_left of each thread
  doubled,           \* history: an ACK wait began with two WaitACK there
  wpc, out,          \* WritePhysicalDevice: control of a caller, its frame
  cpc,               \* control of the application thread
  written, opens, faults,  \* what is used up of the bounds
  toBoard, toHost,   \* the serial line, frame by frame
  rxQueue            \* the framer's queue, filled by FramerCallback

queueVars  == <<lock, inMessages>>
heapVars   == <<lastTx, heapFreed>>
devVars    == <<dpc, tx, txErr>>
ackVars    == <<apc, retriesLeft, doubled>>
userVars   == <<wpc, out, cpc>>
budgetVars == <<written, opens, faults>>
portVars   == <<toBoard, toHost, rxQueue>>
deviceVars == <<status, queueVars, event, heapVars, devVars, ackVars,
                userVars, budgetVars, portVars>>

\* The threads that write: the application's, and the framer's when an
\* observer answers a frame.
Callers  == Writers \cup {"framer"}
Frame    == 1 .. MaxFrames
NoFrame  == 0
\* The WaitACK threads: that of the i-th open has number i.
Acker    == 1 .. MaxOpens
Uint8(n) == n % 256
Event    == {"announceData", "stopThread", "stopAck", "startAck", "txAck"}

TxMsg(f)  == [type |-> "tx", id |-> f]
AckMsg(i) == [type |-> "ack", id |-> i]

\* An hsdk event is an eventfd in semaphore mode: Signal adds one, Reset takes
\* one away and blocks at zero, the multi-event wait only looks.
Signal(e) == event' = [event EXCEPT ![e] = @ + 1]
ResetUnguarded(e) == event' = [event EXCEPT ![e] = @ - 1]  \* variant
Reset(e)  == event[e] > 0 /\ event' = [event EXCEPT ![e] = @ - 1]
IsSet(e)  == event[e] > 0

UseFault == faults < MaxFaults /\ faults' = faults + 1

\* A write on a port that is not open fails.
PortOpen == status \in {"opened", "error"}
WriteFails == UseFault \/ (~PortOpen /\ UNCHANGED faults)
\* A failed write; memory that was freed holds no status.
Errored == IF status = "freed" THEN status ELSE "error"

DeviceInit ==
  /\ status = "closed" /\ lock = "free" /\ inMessages = <<>>
  /\ event = [e \in Event |-> 0]
  /\ lastTx = NoFrame /\ heapFreed = {}
  /\ dpc = "off" /\ tx = NoFrame /\ txErr = FALSE
  /\ apc = [a \in Acker |-> "off"] /\ retriesLeft = [a \in Acker |-> 0]
  /\ doubled = FALSE
  /\ wpc = [c \in Callers |-> "idle"] /\ out = [c \in Callers |-> NoFrame]
  /\ cpc = "idle"
  /\ written = 0 /\ opens = 0 /\ faults = 0
  /\ toBoard = <<>> /\ toHost = <<>> /\ rxQueue = <<>>

-----------------------------------------------------------------------------
(* WritePhysicalDevice: create the frame, put it, which waits for the lock, *)
(* and announce it.  Nothing looks at the status of the device.            *)

CreateFrame(c) ==
  /\ wpc[c] = "idle" /\ wpc' = [wpc EXCEPT ![c] = "put"]
  /\ status # "freed" /\ written < MaxFrames
  /\ written' = written + 1
  /\ out' = [out EXCEPT ![c] = written']
  /\ UNCHANGED <<status, queueVars, event, heapVars, devVars, ackVars, cpc,
                 opens, faults, portVars>>

\* Variant: the frame is announced before it is put.
PutFrameAnnounced(c) ==
  /\ wpc[c] = "put" /\ wpc' = [wpc EXCEPT ![c] = "announce"]
  /\ Signal("announceData")
  /\ UNCHANGED <<status, queueVars, heapVars, devVars, ackVars, out, cpc,
                 budgetVars, portVars>>

PutFrame(c) ==
  /\ wpc[c] = "put" /\ wpc' = [wpc EXCEPT ![c] = "announce"]
  /\ lock = "free"
  /\ inMessages' = Append(inMessages, out[c])
  /\ out' = [out EXCEPT ![c] = NoFrame]
  /\ UNCHANGED <<status, lock, event, heapVars, devVars, ackVars, cpc,
                 budgetVars, portVars>>

AnnounceFrame(c) ==
  /\ wpc[c] = "announce" /\ wpc' = [wpc EXCEPT ![c] = "idle"]
  /\ Signal("announceData")
  /\ UNCHANGED <<status, queueVars, heapVars, devVars, ackVars, out, cpc,
                 budgetVars, portVars>>

FinishWrite(c) == PutFrame(c) \/ AnnounceFrame(c)

-----------------------------------------------------------------------------
(* DeviceThreadRoutine.                                                    *)

DevGoto(from, to) == dpc = from /\ dpc' = to

\* The WaitACK thread is created before the device thread waits for its start.
DevCreateAckThread ==
  /\ DevGoto("create", "start")
  /\ apc' = IF TxAck THEN [apc EXCEPT ![opens] = "wait"] ELSE apc
  /\ UNCHANGED <<status, queueVars, event, heapVars, tx, txErr, retriesLeft,
                 doubled, userVars, budgetVars, portVars>>

\* The first wait is on stop and start.  A stop already there wins, and the
\* thread leaves by the label that neither stops WaitACK nor resets the event.
DevStart ==
  /\ DevGoto("start", IF IsSet("stopThread") THEN "exited" ELSE "poll")
  /\ UNCHANGED <<status, queueVars, event, heapVars, tx, txErr, ackVars,
                 userVars, budgetVars, portVars>>

\* When that wait fails, triggeredEvent is read without a value.
DevStartFails ==
  /\ DevGoto("start", "exited") \/ DevGoto("start", "poll")
  /\ UseFault
  /\ UNCHANGED <<status, queueVars, event, heapVars, tx, txErr, ackVars,
                 userVars, written, opens, portVars>>

\* The main wait fails: the thread is left waiting for its stop, which then
\* neither stops nor joins WaitACK.
DevPollFails ==
  /\ DevGoto("poll", "resetStop")
  /\ UseFault
  /\ UNCHANGED <<status, queueVars, event, heapVars, tx, txErr, ackVars,
                 userVars, written, opens, portVars>>

\* The main wait reports the first event ready: stop, then receive, then send.
DevPollStop ==
  /\ DevGoto("poll", IF TxAck THEN "join" ELSE "resetStop")
  /\ IsSet("stopThread")
  /\ IF TxAck THEN Signal("stopAck") ELSE UNCHANGED event
  /\ UNCHANGED <<status, queueVars, heapVars, tx, txErr, ackVars, userVars,
                 budgetVars, portVars>>

DevRead ==
  /\ DevGoto("poll", "poll")
  /\ ~IsSet("stopThread") /\ toHost # <<>>
  /\ rxQueue' = rxQueue \o toHost
  /\ toHost' = <<>>
  /\ UNCHANGED <<status, queueVars, event, heapVars, tx, txErr, ackVars,
                 userVars, budgetVars, toBoard>>

DevPollSend ==
  /\ DevGoto("poll", "get")
  /\ ~IsSet("stopThread") /\ toHost = <<>> /\ IsSet("announceData")
  /\ UNCHANGED <<status, queueVars, event, heapVars, tx, txErr, ackVars,
                 userVars, budgetVars, portVars>>

\* Variant: Get without the lock.
DevGetUnlocked ==
  /\ dpc = "get" /\ inMessages # <<>> /\ dpc' = "write"
  /\ tx' = Head(inMessages) /\ inMessages' = Tail(inMessages)
  /\ UNCHANGED <<status, lock, event, heapVars, txErr, ackVars, userVars,
                 budgetVars, portVars>>

\* MessageQueueGet waits for the lock: until then the thread reads nothing.
DevGet ==
  /\ lock = "free"
  /\ \/ /\ inMessages # <<>>
        /\ DevGoto("get", "write")
        /\ tx' = Head(inMessages) /\ inMessages' = Tail(inMessages)
     \/ /\ inMessages = <<>>
        /\ DevGoto("get", "reset")
        /\ UNCHANGED <<tx, inMessages>>
  /\ UNCHANGED <<status, lock, event, heapVars, txErr, ackVars, userVars,
                 budgetVars, portVars>>

\* The frame goes out before the lock is taken again.  Without TX ACK it is
\* destroyed here, and a failed write makes the device errored at once.
DevWrite ==
  /\ DevGoto("write", IF TxAck THEN "lock" ELSE "reset")
  /\ heapFreed' = IF TxAck THEN heapFreed ELSE heapFreed \cup {tx}
  /\ \/ /\ PortOpen /\ toBoard' = Append(toBoard, TxMsg(tx))
        /\ txErr' = FALSE
        /\ UNCHANGED <<status, faults>>
     \/ /\ WriteFails
        /\ txErr' = TRUE
        /\ status' = IF TxAck THEN status ELSE Errored
        /\ UNCHANGED toBoard
  /\ UNCHANGED <<queueVars, event, lastTx, tx, ackVars, userVars, written,
                 opens, toHost, rxQueue>>

DevLock ==
  /\ DevGoto("lock", "arm")
  /\ lock = "free" /\ lock' = "tx"
  /\ UNCHANGED <<status, inMessages, event, heapVars, tx, txErr, ackVars,
                 userVars, budgetVars, portVars>>

DevArm ==
  /\ DevGoto("arm", "reset")
  /\ lastTx' = tx
  /\ Signal("startAck")
  /\ status' = IF txErr THEN Errored ELSE status
  /\ UNCHANGED <<queueVars, heapFreed, tx, txErr, ackVars, userVars,
                 budgetVars, portVars>>

\* Variant: an auto-reset event, which forgets how often it was signalled.
DevResetAll ==
  /\ DevGoto("reset", "poll")
  /\ event' = [event EXCEPT !["announceData"] = 0]
  /\ UNCHANGED <<status, queueVars, heapVars, tx, txErr, ackVars, userVars,
                 budgetVars, portVars>>

DevReset ==
  /\ DevGoto("reset", "poll")
  /\ Reset("announceData")
  /\ UNCHANGED <<status, queueVars, heapVars, tx, txErr, ackVars, userVars,
                 budgetVars, portVars>>

DevJoinAckThread ==
  /\ DevGoto("join", "resetStop")
  /\ apc[opens] = "off"
  /\ UNCHANGED <<status, queueVars, event, heapVars, tx, txErr, ackVars,
                 userVars, budgetVars, portVars>>

DevResetStop ==
  /\ DevGoto("resetStop", "exited")
  /\ Reset("stopThread")
  /\ UNCHANGED <<status, queueVars, heapVars, tx, txErr, ackVars, userVars,
                 budgetVars, portVars>>

DeviceThread ==
  \/ DevCreateAckThread \/ DevStart \/ DevStartFails \/ DevPollFails
  \/ DevPollStop \/ DevRead \/ DevPollSend \/ DevGet \/ DevWrite \/ DevLock
  \/ DevArm \/ DevReset \/ DevJoinAckThread \/ DevResetStop

-----------------------------------------------------------------------------
(* WaitACK, thread a of them.  The threads share the events and lastTx.    *)

AckGoto(a, from, to) == apc[a] = from /\ apc' = [apc EXCEPT ![a] = to]

\* What most steps of WaitACK leave alone.
AckKeeps ==
  UNCHANGED <<status, inMessages, lastTx, devVars, doubled, userVars, written,
              opens, toHost, rxQueue>>

\* Stop comes first, is not reset, and ends the thread whatever it holds.
AckStop(a) ==
  /\ AckGoto(a, "wait", "off")
  /\ IsSet("stopAck")
  /\ AckKeeps
  /\ UNCHANGED <<lock, event, heapFreed, retriesLeft, faults, toBoard>>

\* A wait for stop and start that fails ends the thread as well.
AckWaitFails(a) ==
  /\ AckGoto(a, "wait", "off")
  /\ UseFault
  /\ AckKeeps
  /\ UNCHANGED <<lock, event, heapFreed, retriesLeft, toBoard>>

\* The wait only looks at the start event, which is reset behind the ACK wait.
AckStart(a) ==
  /\ AckGoto(a, "wait", "poll")
  /\ ~IsSet("stopAck") /\ IsSet("startAck")
  /\ retriesLeft' = [retriesLeft EXCEPT ![a] = NumberOfRetries]
  /\ doubled' = (doubled \/ \E b \in Acker \ {a} : apc[b] # "off")
  /\ UNCHANGED <<status, queueVars, event, heapVars, devVars, userVars,
                 budgetVars, portVars>>

\* A thread whose ACK another one has read after its poll waits for the next in
\* the read: here it stays at its poll.
AckReceived(a) ==
  /\ AckGoto(a, "poll", "release")
  /\ Reset("txAck")
  /\ AckKeeps
  /\ UNCHANGED <<lock, heapFreed, retriesLeft, faults, toBoard>>

AckTimeout(a) ==
  /\ AckGoto(a, "poll", "resend")
  /\ ~IsSet("txAck")
  /\ AckKeeps
  /\ UNCHANGED <<lock, event, heapFreed, retriesLeft, faults, toBoard>>

\* Variant: the retry budget is tested before it is decremented.
AckResendOnceMore(a) ==
  /\ PortOpen /\ toBoard' = Append(toBoard, TxMsg(lastTx))
  /\ retriesLeft' = [retriesLeft EXCEPT ![a] = Uint8(@ - 1)]
  /\ AckGoto(a, "resend", IF retriesLeft[a] = 0 THEN "giveUp" ELSE "poll")
  /\ AckKeeps
  /\ UNCHANGED <<lock, event, heapFreed, faults>>

AckResend(a) ==
  /\ PortOpen /\ toBoard' = Append(toBoard, TxMsg(lastTx))
  /\ retriesLeft' = [retriesLeft EXCEPT ![a] = Uint8(@ - 1)]
  /\ AckGoto(a, "resend", IF retriesLeft'[a] = 0 THEN "giveUp" ELSE "poll")
  /\ AckKeeps
  /\ UNCHANGED <<lock, event, heapFreed, faults>>

AckResendFails(a) ==
  /\ AckGoto(a, "resend", "giveUp")
  /\ WriteFails
  /\ heapFreed' = heapFreed \cup {lastTx}
  /\ AckKeeps
  /\ UNCHANGED <<lock, event, retriesLeft, toBoard>>

\* A poll error frees the frame, then resets the event it has not consumed.
AckPollFails(a) ==
  /\ AckGoto(a, "poll", "resetAck")
  /\ UseFault
  /\ heapFreed' = heapFreed \cup {lastTx}
  /\ AckKeeps
  /\ UNCHANGED <<lock, event, retriesLeft, toBoard>>

AckResetAck(a) ==
  /\ AckGoto(a, "resetAck", "giveUp")
  /\ Reset("txAck")
  /\ AckKeeps
  /\ UNCHANGED <<lock, heapFreed, retriesLeft, faults, toBoard>>

\* Variant: giving up does not release the lock.
AckReleaseIfAcked(a) ==
  /\ \/ AckGoto(a, "release", "destroy") /\ lock' = "free"
     \/ AckGoto(a, "giveUp", "reset") /\ UNCHANGED lock
  /\ AckKeeps
  /\ UNCHANGED <<event, heapFreed, retriesLeft, faults, toBoard>>

\* On an ACK the lock goes first and the frame after it; giving up releases
\* the lock and keeps the frame.
AckRelease(a) ==
  /\ AckGoto(a, "release", "destroy") \/ AckGoto(a, "giveUp", "reset")
  /\ lock' = "free"
  /\ AckKeeps
  /\ UNCHANGED <<event, heapFreed, retriesLeft, faults, toBoard>>

AckDestroy(a) ==
  /\ AckGoto(a, "destroy", "reset")
  /\ heapFreed' = heapFreed \cup {lastTx}
  /\ AckKeeps
  /\ UNCHANGED <<lock, event, retriesLeft, faults, toBoard>>

\* Variant: the start event is not reset.
AckResetForgotten(a) ==
  /\ AckGoto(a, "reset", "wait")
  /\ AckKeeps
  /\ UNCHANGED <<lock, event, heapFreed, retriesLeft, faults, toBoard>>

AckReset(a) ==
  /\ AckGoto(a, "reset", "wait")
  /\ Reset("startAck")
  /\ AckKeeps
  /\ UNCHANGED <<lock, heapFreed, retriesLeft, faults, toBoard>>

AckThread(a) ==
  \/ AckStop(a) \/ AckWaitFails(a) \/ AckStart(a) \/ AckReceived(a)
  \/ AckTimeout(a) \/ AckResend(a) \/ AckResendFails(a) \/ AckPollFails(a)
  \/ AckResetAck(a) \/ AckRelease(a) \/ AckDestroy(a) \/ AckReset(a)

-----------------------------------------------------------------------------
(* OpenPhysicalDevice, ClosePhysicalDevice and DestroyPhysicalDevice,      *)
(* called by one application thread.                                       *)

OpenPhysicalDevice ==
  /\ cpc = "idle" /\ status = "closed" /\ opens < MaxOpens
  /\ opens' = opens + 1
  /\ \/ status' = "opened" /\ dpc' = "create" /\ UNCHANGED faults
     \/ UseFault /\ status' = "error" /\ UNCHANGED dpc
  /\ UNCHANGED <<queueVars, event, heapVars, tx, txErr, ackVars, userVars,
                 written, portVars>>

ClosePhysicalDevice ==
  /\ cpc = "idle" /\ status = "opened"
  /\ cpc' = "join"
  /\ Signal("stopThread")
  /\ UNCHANGED <<status, queueVars, heapVars, devVars, ackVars, wpc, out,
                 budgetVars, portVars>>

\* Variant: the port is closed without joining the thread.
CloseWithoutJoin ==
  /\ cpc = "join" /\ cpc' = "clear"
  /\ status' = "closed" /\ toHost' = <<>>
  /\ UNCHANGED <<queueVars, event, heapVars, devVars, ackVars, wpc, out,
                 budgetVars, toBoard, rxQueue>>

\* Join the device thread and close the port: what the port held is lost.
CloseJoin ==
  /\ cpc = "join" /\ cpc' = "clear"
  /\ DevGoto("exited", "off")
  /\ status' = "closed" /\ toHost' = <<>>
  /\ UNCHANGED <<queueVars, event, heapVars, tx, txErr, ackVars, wpc, out,
                 budgetVars, toBoard, rxQueue>>

ClearLock ==
  /\ cpc = "clear" /\ cpc' = "drain"
  /\ lock = "free" /\ lock' = "clear"
  /\ UNCHANGED <<status, inMessages, event, heapVars, devVars, ackVars, wpc, out,
                 budgetVars, portVars>>

\* ClearMessageQueue, at the end of close and for a device that is freed, holds
\* the lock when it calls MessageQueueGet, which locks the same mutex: only an
\* empty queue gets past the loop.
ClearUnlock ==
  /\ cpc = "drain" /\ cpc' = "idle"
  /\ inMessages = <<>> /\ lock' = "free"
  /\ UNCHANGED <<status, inMessages, event, heapVars, devVars, ackVars, wpc, out,
                 budgetVars, portVars>>

\* An opened device is closed first, by the application's own call here; a
\* device in any other state is freed as it is, its queue with ClearMessageQueue.
\* What its threads then do to the freed memory is undefined; here they go on,
\* without a port.
DestroyPhysicalDevice ==
  /\ cpc = "idle" /\ status \in {"closed", "error"}
  /\ status' = "freed" /\ cpc' = "clear"
  /\ UNCHANGED <<queueVars, event, heapVars, devVars, ackVars, wpc, out,
                 budgetVars, portVars>>

Lifecycle ==
  \/ OpenPhysicalDevice \/ ClosePhysicalDevice \/ CloseJoin
  \/ ClearLock \/ ClearUnlock \/ DestroyPhysicalDevice

=============================================================================
