------------------------------ MODULE FsciLink ------------------------------
(***************************************************************************)
(* The FSCI link: PhysicalDevice with the framer thread on top of it       *)
(* (protocol/Framer.c) and the board at the other end of the line.  The    *)
(* framer answers every board frame with an ACK (RX ACK) and tells WaitACK *)
(* that the board has acknowledged (TX ACK).  Cutting the byte stream into *)
(* frames is module FsciFramer's subject: here a message is a whole frame  *)
(* and the framer thread is woken while its queue is not empty.            *)
(*                                                                         *)
(* The ids in messages are history: nothing the host does depends on them, *)
(* as an ACK on the wire does not say what it acknowledges.                *)
(***************************************************************************)
EXTENDS PhysicalDevice

CONSTANTS
  RxAck,       \* configParams->fsciRxAck
  BoardTypes,  \* types of the frames the board sends of its own accord:
               \* "data", and "a4" for a frame of ACK's group, another opcode
  MaxRx        \* bound: frames the board sends of its own accord

ASSUME LinkAssumption ==
  /\ RxAck \in BOOLEAN
  /\ BoardTypes \subseteq {"data", "a4"}
  /\ MaxRx \in Nat

VARIABLES
  fpc, fmsg,   \* FramerThreadRoutine: control, response
  hostAcked,   \* history: ids of board frames, in the order of host ACKs
  delivered,   \* history: ids of board frames, in the order of delivery
  boardSent,   \* frames the board has sent of its own accord
  boardAcked   \* history: frames of the host the board has acknowledged

framerVars == <<fpc, fmsg, hostAcked, delivered>>
boardVars  == <<boardSent, boardAcked>>
vars       == <<deviceVars, framerVars, boardVars>>

NoMsg == [type |-> "none", id |-> 0]

\* The two tests of FramerThreadRoutine: the first wants group and opcode of
\* an ACK, the second either of them.
IsAck(m)   == m.type = "ack"
AckLike(m) == m.type \in {"ack", "a4"}

Init ==
  /\ DeviceInit
  /\ fpc = "poll" /\ fmsg = NoMsg /\ hostAcked = <<>> /\ delivered = <<>>
  /\ boardSent = 0 /\ boardAcked = {}

-----------------------------------------------------------------------------
(* FramerThreadRoutine.                                                    *)

FramerGoto(from, to) == fpc = from /\ fpc' = to

\* Variants: an ACK is answered like any frame; the lock is not waited for.
FramerTakeFor(next, answered(_)) ==
  /\ rxQueue # <<>>
  /\ fmsg' = Head(rxQueue) /\ rxQueue' = Tail(rxQueue)
  /\ FramerGoto("poll",
                IF RxAck /\ answered(Head(rxQueue)) THEN next ELSE "txAck")
  /\ UNCHANGED <<status, queueVars, event, heapVars, devVars, ackVars,
                 userVars, budgetVars, toBoard, toHost, hostAcked, delivered>>
AnyMsg(m)   == TRUE
NotAnAck(m) == ~IsAck(m)
FramerTakeAckAcks  == FramerTakeFor("lock", AnyMsg)
FramerTakeUnlocked == FramerTakeFor("ack", NotAnAck)

FramerTake ==
  /\ rxQueue # <<>>
  /\ fmsg' = Head(rxQueue) /\ rxQueue' = Tail(rxQueue)
  /\ FramerGoto("poll", IF RxAck /\ ~IsAck(fmsg') THEN "lock" ELSE "txAck")
  /\ UNCHANGED <<status, queueVars, event, heapVars, devVars, ackVars,
                 userVars, budgetVars, toBoard, toHost, hostAcked, delivered>>

\* The lock keeps other transmissions away until the ACK is out.
FramerLock ==
  /\ FramerGoto("lock", "ack")
  /\ lock = "free" /\ lock' = "rx"
  /\ UNCHANGED <<status, inMessages, event, heapVars, devVars, ackVars,
                 userVars, budgetVars, portVars, fmsg, hostAcked, delivered>>

SendFsciAck ==
  /\ FramerGoto("ack", "unlock")
  /\ toBoard' = IF PortOpen THEN Append(toBoard, AckMsg(fmsg.id)) ELSE toBoard
  /\ hostAcked' = Append(hostAcked, fmsg.id)
  /\ UNCHANGED <<status, queueVars, event, heapVars, devVars, ackVars,
                 userVars, budgetVars, toHost, rxQueue, fmsg, delivered>>

FramerUnlock ==
  /\ FramerGoto("unlock", "txAck")
  /\ lock' = "free"
  /\ UNCHANGED <<status, inMessages, event, heapVars, devVars, ackVars,
                 userVars, budgetVars, portVars, fmsg, hostAcked, delivered>>

FramerSignalTxAck ==
  /\ FramerGoto("txAck", "notify")
  /\ IF TxAck /\ AckLike(fmsg) THEN Signal("txAck") ELSE UNCHANGED event
  /\ UNCHANGED <<status, queueVars, heapVars, devVars, ackVars, userVars,
                 budgetVars, portVars, fmsg, hostAcked, delivered>>

\* NotifyOnEvent runs the observers on this thread; an observer may answer
\* with a frame of its own, and the thread is back when that is announced.
FramerNotify ==
  /\ FramerGoto("notify", "observer")
  /\ delivered' = IF IsAck(fmsg) THEN delivered ELSE Append(delivered, fmsg.id)
  /\ fmsg' = NoMsg
  /\ UNCHANGED hostAcked
  /\ UNCHANGED deviceVars \/ CreateFrame("framer")

FramerObserver ==
  /\ fpc = "observer"
  /\ \/ FinishWrite("framer") /\ UNCHANGED fpc
     \/ wpc["framer"] = "idle" /\ fpc' = "poll" /\ UNCHANGED deviceVars
  /\ UNCHANGED <<fmsg, hostAcked, delivered>>

Framer ==
  \/ FramerTake \/ FramerLock \/ SendFsciAck \/ FramerUnlock
  \/ FramerSignalTxAck \/ FramerNotify \/ FramerObserver

-----------------------------------------------------------------------------
(* The board.  It may miss any frame; it acknowledges those it hears.      *)

ToHost(m) == toHost' = IF PortOpen THEN Append(toHost, m) ELSE toHost

BoardMiss ==
  /\ toBoard # <<>> /\ toBoard' = Tail(toBoard)
  /\ UNCHANGED <<toHost, boardVars>>

BoardAck ==
  /\ toBoard # <<>> /\ toBoard' = Tail(toBoard)
  /\ LET m == Head(toBoard) IN
       /\ TxAck /\ m.type = "tx"
       /\ boardAcked' = boardAcked \cup {m.id}
       /\ ToHost(AckMsg(m.id))
  /\ UNCHANGED boardSent

BoardSend ==
  /\ PortOpen /\ boardSent < MaxRx
  /\ boardSent' = boardSent + 1
  /\ \E t \in BoardTypes : ToHost([type |-> t, id |-> boardSent'])
  /\ UNCHANGED <<toBoard, boardAcked>>

Board ==
  /\ BoardMiss \/ BoardAck \/ BoardSend
  /\ UNCHANGED <<status, queueVars, event, heapVars, devVars, ackVars,
                 userVars, budgetVars, rxQueue, framerVars>>

-----------------------------------------------------------------------------
Host ==
  \/ \E w \in Writers : CreateFrame(w) \/ FinishWrite(w)
  \/ DeviceThread \/ \E a \in Acker : AckThread(a)

\* A session opens the device once and never closes it.
SessionNext ==
  \/ (Host \/ OpenPhysicalDevice) /\ UNCHANGED <<framerVars, boardVars>>
  \/ Framer /\ UNCHANGED boardVars
  \/ Board

Next ==
  \/ (Host \/ Lifecycle) /\ UNCHANGED <<framerVars, boardVars>>
  \/ Framer /\ UNCHANGED boardVars
  \/ Board

Spec == Init /\ [][Next]_vars

\* Threads are scheduled and the ACK timeout expires.  Writers, the board and
\* the application owe nothing, but a Write begun is finished.
Fairness ==
  /\ WF_vars(DeviceThread /\ UNCHANGED <<framerVars, boardVars>>)
  /\ \A a \in Acker :
       WF_vars(AckThread(a) /\ UNCHANGED <<framerVars, boardVars>>)
  /\ WF_vars(Framer /\ UNCHANGED boardVars)
  /\ \A w \in Writers :
       WF_vars(FinishWrite(w) /\ UNCHANGED <<framerVars, boardVars>>)
  /\ WF_vars((CloseJoin \/ ClearLock \/ ClearUnlock)
               /\ UNCHANGED <<framerVars, boardVars>>)

SessionSpec     == Init /\ [][SessionNext]_vars
FairSessionSpec == SessionSpec /\ Fairness
FairSpec        == Spec /\ Fairness

-----------------------------------------------------------------------------
(* Correctness.                                                            *)

Message == [type : {"none", "tx", "ack", "data", "a4"}, id : Nat]

\* The values each part of the state may have.
TypeOK ==
  /\ status \in {"closed", "opened", "error", "freed"}
  /\ lock \in {"free", "tx", "rx", "clear"}
  /\ inMessages \in Seq(Frame)
  /\ event \in [Event -> Nat]
  /\ lastTx \in Frame \cup {NoFrame} /\ heapFreed \subseteq Frame \cup {NoFrame}
  /\ dpc \in {"off", "create", "start", "poll", "get", "write", "lock", "arm",
              "reset", "join", "resetStop", "exited"}
  /\ tx \in Frame \cup {NoFrame} /\ txErr \in BOOLEAN
  /\ apc \in [Acker -> {"off", "wait", "poll", "resend", "resetAck", "release",
                        "giveUp", "destroy", "reset"}]
  /\ retriesLeft \in [Acker -> 0 .. 255] /\ doubled \in BOOLEAN
  /\ wpc \in [Callers -> {"idle", "put", "announce"}]
  /\ out \in [Callers -> Frame \cup {NoFrame}]
  /\ \A c \in Callers : wpc[c] = "put" => out[c] \in Frame
  /\ cpc \in {"idle", "join", "clear", "drain"}
  /\ written \in 0 .. MaxFrames /\ opens \in Nat /\ faults \in Nat
  /\ toBoard \in Seq(Message) /\ toHost \in Seq(Message)
  /\ rxQueue \in Seq(Message)
  /\ fpc \in {"poll", "lock", "ack", "unlock", "txAck", "notify",
              "observer"}
  /\ fmsg \in Message
  /\ hostAcked \in Seq(Nat) /\ delivered \in Seq(Nat)
  /\ boardSent \in Nat /\ boardAcked \subseteq Nat

\* A WaitACK is in the middle of an ACK wait and owes the release of the lock;
\* it is busy until it has also reset the start event it acts on.
Waits(a) == apc[a] \in {"poll", "resend", "resetAck", "release", "giveUp"}
Busy(a)  == Waits(a) \/ apc[a] \in {"destroy", "reset"}
Waiting  == \E a \in Acker : Waits(a)
\* Start events WaitACK has yet to act on.
Armed == event["startAck"] - (IF \E a \in Acker : Busy(a) THEN 1 ELSE 0)

\* The transmit lock travels from the device thread through the start event to
\* WaitACK.  Exactly one of the three holds it, and nobody else does, unless
\* two WaitACK have acted on one start event.
LockHandover ==
  ~doubled =>
    /\ Armed \in {0, 1}
    /\ (lock = "tx") <=> (dpc = "arm" \/ Armed = 1 \/ Waiting)
    /\ ~(dpc = "arm" /\ (Armed = 1 \/ Waiting)) /\ ~(Armed = 1 /\ Waiting)

\* The framer holds the lock exactly while it writes an ACK, ClearMessageQueue
\* exactly while it drains.
LockOthers ==
  ~doubled =>
    /\ (lock = "rx") <=> fpc \in {"ack", "unlock"}
    /\ (lock = "clear") <=> cpc = "drain"

\* No lock is released that is not held by the thread releasing it: a release
\* by WaitACK ends a TX hold, one by the framer an RX hold.
ReleasedByHolder ==
  [][~doubled /\ lock # "free" /\ lock' = "free" =>
       \/ lock = "tx" /\ Waiting /\ ~Waiting'
       \/ lock = "rx" /\ fpc = "unlock"
       \/ lock = "clear" /\ cpc = "drain"]_vars

\* A close that has returned leaves nothing of the session that sends or holds
\* the lock for a frame: no device thread, no ACK wait begun or to come.
ClosedAtRest ==
  status = "closed" /\ cpc = "idle" /\ ~doubled =>
    dpc = "off" /\ lock # "tx" /\ ~Waiting /\ Armed = 0

\* While a frame waits for its ACK nothing enters the line towards the board
\* but that frame again.
QuietWhileWaiting ==
  [][~doubled /\ lock = "tx" /\ Len(toBoard') > Len(toBoard) =>
       toBoard' = Append(toBoard, TxMsg(lastTx)) /\ Waiting]_vars

\* Every frame announced is in the queue, so MessageQueueGet finds one whenever
\* the device thread goes to get it; a frame may be there unannounced.
AnnouncedIsQueued ==
  event["announceData"]
    <= Len(inMessages) + (IF dpc \in {"write", "lock", "arm", "reset"}
                          THEN 1 ELSE 0)

\* With RX ACK on, the frames the board sends are acknowledged once each, in
\* order, and before the observers see them.
AckedThenDelivered ==
  RxAck =>
    \/ hostAcked = delivered
    \/ /\ fpc \in {"unlock", "txAck", "notify"}
       /\ hostAcked = Append(delivered, fmsg.id)

\* StopAndWait's view of the link: a frame is current from the Get until its
\* ACK wait ends.
InDevice == dpc \in {"write", "lock", "arm"}
Current ==
  IF InDevice THEN tx
  ELSE IF Armed = 1 \/ Waiting THEN lastTx ELSE NoFrame
Sends ==
  IF dpc = "write" THEN 0
  ELSE IF InDevice \/ Armed = 1 THEN 1
  ELSE IF ~Waiting THEN 0
  ELSE 1 + NumberOfRetries - retriesLeft[CHOOSE a \in Acker : Waits(a)]

SAW == INSTANCE StopAndWait
         WITH Frames <- Frame, MaxSends <- 1 + NumberOfRetries,
              queue <- inMessages, current <- Current, sends <- Sends

\* With TX ACK on, the link implements StopAndWait: order, one frame at a time,
\* and at most NumberOfRetries retransmissions, whatever is lost.
ImplementsStopAndWait == SAW!Spec

\* A TX hold of the lock ends: by an ACK, by running out of retries, by a
\* failed write.
TxLockReleased == lock = "tx" ~> lock # "tx"
\* Every frame put on an open device is taken off the queue.
QueueDrains == (inMessages # <<>> /\ status = "opened") ~> inMessages = <<>>
\* Every message the device thread has read gets through the framer, ACK and
\* observers included.
FramerDrains == rxQueue # <<>> ~> (rxQueue = <<>> /\ fpc = "poll")

-----------------------------------------------------------------------------
(* What the documentation says and the code does not do.                   *)

\* HOWTO-FSCIACK: if the board does not send an ACK for a given frame, the host
\* resends it NumberOfRetries times.  So a TX hold that ends without a fault
\* ends for a frame the board acknowledged, or with no retry left.
AckedOrRetried ==
  [][lock = "tx" /\ lock' = "free" =>
       \/ lastTx \in boardAcked
       \/ \E a \in Acker : apc[a] = "giveUp" /\ retriesLeft[a] = 0]_vars

\* HOWTO-FSCIACK: the host resends that frame.  So the frame in lastTx still
\* exists when WaitACK writes it again.
ResendsThatFrame ==
  (\E a \in Acker : apc[a] = "resend") => lastTx \notin heapFreed

\* ClosePhysicalDevice returns 0 for success: a call that has begun returns.
CloseReturns == cpc = "join" ~> cpc = "idle"

=============================================================================
