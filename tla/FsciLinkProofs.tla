--------------------------- MODULE FsciLinkProofs ---------------------------
(***************************************************************************)
(* Theorems about FsciLink, for any number of writers, frames, retries,    *)
(* opens and faults: the type invariant; that the transmit lock has one    *)
(* owner who alone sends and releases, and that the link implements        *)
(* StopAndWait, as long as no ACK wait is begun while two WaitACK threads  *)
(* are there; and that sessions, and behaviours without failing calls,     *)
(* never get there.                                                        *)
(***************************************************************************)
EXTENDS FsciLink, FiniteSetTheorems, TLAPS

\* A step of Host or Lifecycle leaves the framer and the board alone.
Quiet == UNCHANGED <<framerVars, boardVars>>

\* Where WaitACK may be.
AckPlace == {"off", "wait", "poll", "resend", "resetAck", "release", "giveUp",
             "destroy", "reset"}

LEMMA InitTypeOK == Init => TypeOK
  <1> SUFFICES ASSUME Init PROVE TypeOK
    OBVIOUS
  <1> USE DeviceAssumption, LinkAssumption DEF Init, DeviceInit
  <1>1. /\ event \in [Event -> Nat]
        /\ wpc \in [Callers -> {"idle", "put", "announce"}]
        /\ out \in [Callers -> Frame \cup {NoFrame}]
        /\ \A c \in Callers : wpc[c] = "put" => out[c] \in Frame
    OBVIOUS
  <1>2. /\ inMessages \in Seq(Frame)
        /\ toBoard \in Seq(Message) /\ toHost \in Seq(Message)
        /\ rxQueue \in Seq(Message)
        /\ hostAcked \in Seq(Nat) /\ delivered \in Seq(Nat)
    OBVIOUS
  <1>3. fmsg \in Message
    BY DEF NoMsg, Message
  <1>4. lastTx \in Frame \cup {NoFrame} /\ tx \in Frame \cup {NoFrame}
    OBVIOUS
  <1>5. apc \in [Acker -> AckPlace] /\ retriesLeft \in [Acker -> 0 .. 255]
    BY DEF AckPlace
  <1>6. written \in 0 .. MaxFrames
    OBVIOUS
  <1> QED BY <1>1, <1>2, <1>3, <1>4, <1>5, <1>6 DEF TypeOK, AckPlace

LEMMA SignalType ==
  ASSUME event \in [Event -> Nat], NEW e \in Event, Signal(e)
  PROVE  event' \in [Event -> Nat]
  BY DEF Signal

LEMMA ResetType ==
  ASSUME event \in [Event -> Nat], NEW e \in Event, Reset(e)
  PROVE  event' \in [Event -> Nat]
  <1>1. event[e] \in Nat /\ event[e] - 1 \in Nat
    BY DEF Reset
  <1> QED BY <1>1 DEF Reset

LEMMA TxMsgType == \A f \in Frame \cup {NoFrame} : TxMsg(f) \in Message
  BY DeviceAssumption DEF TxMsg, Message, Frame, NoFrame

LEMMA EventNames ==
  /\ "announceData" \in Event /\ "stopThread" \in Event
  /\ "stopAck" \in Event /\ "startAck" \in Event /\ "txAck" \in Event
  BY DEF Event

LEMMA AckPlaces ==
  ASSUME TypeOK, NEW a, NEW x \in AckPlace, apc' = [apc EXCEPT ![a] = x]
  PROVE  apc' \in [Acker -> AckPlace]
  BY DEF TypeOK, AckPlace

LEMMA Uint8Type == \A n \in Int : Uint8(n) \in 0 .. 255
  BY DEF Uint8

LEMMA RetriesType ==
  ASSUME TypeOK, NEW a \in Acker
  PROVE  Uint8(retriesLeft[a] - 1) \in 0 .. 255
  <1>1. retriesLeft[a] \in 0 .. 255
    BY DEF TypeOK
  <1>2. retriesLeft[a] - 1 \in Int
    BY <1>1
  <1> QED BY <1>2, Uint8Type

LEMMA WriteTypeOK ==
  ASSUME TypeOK, NEW c \in Callers, CreateFrame(c) \/ FinishWrite(c), Quiet
  PROVE  TypeOK'
  <1> USE DeviceAssumption, LinkAssumption
      DEF TypeOK, Quiet, queueVars, heapVars,
          devVars, ackVars, userVars, budgetVars, portVars, framerVars, boardVars
  <1>1. CASE CreateFrame(c)
    <2>1. written' \in 0 .. MaxFrames /\ written' \in Frame
      BY <1>1 DEF CreateFrame, Frame
    <2> QED BY <1>1, <2>1 DEF CreateFrame
  <1>2. CASE PutFrame(c)
    BY <1>2 DEF PutFrame
  <1>3. CASE AnnounceFrame(c)
    <2>1. event' \in [Event -> Nat]
      BY <1>3, SignalType, EventNames DEF AnnounceFrame
    <2> QED BY <1>3, <2>1 DEF AnnounceFrame
  <1> QED BY <1>1, <1>2, <1>3 DEF FinishWrite

LEMMA DeviceThreadTypeOK ==
  ASSUME TypeOK, DeviceThread, Quiet
  PROVE  TypeOK'
  <1> USE DeviceAssumption, LinkAssumption
      DEF TypeOK, Quiet, queueVars, heapVars,
          devVars, ackVars, userVars, budgetVars, portVars, framerVars, boardVars,
          DevGoto, IsSet, UseFault
  <1>1. CASE DevCreateAckThread
    <2>1. /\ dpc' = "start" /\ apc' \in {[apc EXCEPT ![opens] = "wait"], apc}
          /\ UNCHANGED <<status, queueVars, event, heapVars, tx, txErr,
                         retriesLeft, doubled, userVars, budgetVars, portVars,
                         framerVars, boardVars>>
      BY <1>1 DEF DevCreateAckThread
    <2>2. apc' \in [Acker -> AckPlace]
      BY <2>1, AckPlaces DEF AckPlace
    <2> QED BY <2>1, <2>2 DEF AckPlace
  <1>2. CASE DevStart
    <2>1. /\ dpc' \in {"exited", "poll"}
          /\ UNCHANGED <<status, queueVars, event, heapVars, tx, txErr, ackVars,
                         userVars, budgetVars, portVars, framerVars, boardVars>>
      BY <1>2 DEF DevStart
    <2> QED BY <2>1
  <1>13. CASE DevStartFails \/ DevPollFails
    <2>1. dpc' \in {"exited", "poll", "resetStop"} /\ faults' \in Nat
      BY <1>13 DEF DevStartFails, DevPollFails
    <2>2. UNCHANGED <<status, queueVars, event, heapVars, tx, txErr, ackVars,
                      userVars, written, opens, portVars, framerVars, boardVars>>
      BY <1>13 DEF DevStartFails, DevPollFails
    <2>3. /\ apc' = apc /\ retriesLeft' = retriesLeft /\ doubled' = doubled
          /\ wpc' = wpc /\ out' = out
      BY <2>2
    <2> QED BY <2>1, <2>2, <2>3
  <1>3. CASE DevPollStop
    <2>1. event' \in [Event -> Nat]
      BY <1>3, SignalType, EventNames DEF DevPollStop
    <2> QED BY <1>3, <2>1 DEF DevPollStop
  <1>4. CASE DevRead
    <2>1. rxQueue' \in Seq(Message) /\ toHost' \in Seq(Message)
      BY <1>4 DEF DevRead
    <2>2. /\ dpc' = "poll"
          /\ UNCHANGED <<status, queueVars, event, heapVars, tx, txErr, ackVars,
                         userVars, budgetVars, toBoard, framerVars>>
          /\ UNCHANGED boardVars
      BY <1>4 DEF DevRead
    <2> QED BY <2>1, <2>2, SMTT(60)
  <1>5. CASE DevPollSend
    <2>1. /\ dpc' = "get"
          /\ UNCHANGED <<status, queueVars, event, heapVars, tx, txErr, ackVars,
                         userVars, budgetVars, portVars, framerVars, boardVars>>
      BY <1>5 DEF DevPollSend
    <2> QED BY <2>1
  <1>6. CASE DevGet
    <2>1. inMessages' \in Seq(Frame)
      <3>1. CASE inMessages # <<>> /\ inMessages' = Tail(inMessages)
        BY <3>1
      <3>2. CASE UNCHANGED inMessages
        BY <3>2
      <3> QED BY <1>6, <3>1, <3>2 DEF DevGet
    <2>2. tx' \in Frame \cup {NoFrame}
      BY <1>6 DEF DevGet
    <2> QED BY <1>6, <2>1, <2>2 DEF DevGet
  <1>7. CASE DevWrite
    <2>1. TxMsg(tx) \in Message
      BY TxMsgType
    <2>2. toBoard' \in Seq(Message)
      <3>1. CASE toBoard' = Append(toBoard, TxMsg(tx))
        BY <2>1, <3>1
      <3>2. CASE UNCHANGED toBoard
        BY <3>2
      <3> QED BY <1>7, <3>1, <3>2 DEF DevWrite
    <2>3. heapFreed' \subseteq Frame \cup {NoFrame}
      BY <1>7 DEF DevWrite
    <2>4. status' \in {"closed", "opened", "error", "freed"} /\ faults' \in Nat
      BY <1>7 DEF DevWrite, WriteFails, Errored
    <2>5. dpc' \in {"lock", "reset"} /\ txErr' \in BOOLEAN
      BY <1>7 DEF DevWrite
    <2>6. UNCHANGED <<queueVars, event, lastTx, tx, ackVars, userVars, written,
                      opens, toHost, rxQueue, framerVars, boardVars>>
      BY <1>7 DEF DevWrite
    <2> QED BY <2>2, <2>3, <2>4, <2>5, <2>6
  <1>8. CASE DevLock
    <2>1. /\ dpc' = "arm" /\ lock' = "tx"
          /\ UNCHANGED <<status, inMessages, event, heapVars, tx, txErr, ackVars,
                         userVars, budgetVars, portVars, framerVars, boardVars>>
      BY <1>8 DEF DevLock
    <2> QED BY <2>1
  <1>9. CASE DevArm
    <2>1. event' \in [Event -> Nat]
      BY <1>9, SignalType, EventNames DEF DevArm
    <2> QED BY <1>9, <2>1 DEF DevArm, Errored
  <1>10. CASE DevReset
    <2>1. event' \in [Event -> Nat]
      BY <1>10, ResetType, EventNames DEF DevReset
    <2> QED BY <1>10, <2>1 DEF DevReset
  <1>11. CASE DevJoinAckThread
    <2>1. /\ dpc' = "resetStop"
          /\ UNCHANGED <<status, queueVars, event, heapVars, tx, txErr, ackVars,
                         userVars, budgetVars, portVars, framerVars, boardVars>>
      BY <1>11 DEF DevJoinAckThread
    <2> QED BY <2>1
  <1>12. CASE DevResetStop
    <2>1. event' \in [Event -> Nat]
      BY <1>12, ResetType, EventNames DEF DevResetStop
    <2> QED BY <1>12, <2>1 DEF DevResetStop
  <1> QED
    BY <1>1, <1>2, <1>3, <1>4, <1>5, <1>6, <1>7, <1>8, <1>9, <1>10, <1>11, <1>12,
       <1>13
    DEF DeviceThread

LEMMA AckThreadTypeOK ==
  ASSUME TypeOK, NEW a \in Acker, AckThread(a), Quiet
  PROVE  TypeOK'
  <1> USE DeviceAssumption, LinkAssumption
      DEF TypeOK, Quiet, queueVars, heapVars,
          devVars, ackVars, userVars, budgetVars, portVars, framerVars, boardVars,
          AckGoto, AckKeeps, IsSet, UseFault, WriteFails
  <1>1. CASE AckStop(a)
    BY <1>1 DEF AckStop
  <1>2. CASE AckStart(a)
    BY <1>2 DEF AckStart
  <1>3. CASE AckReceived(a)
    <2>1. event' \in [Event -> Nat]
      BY <1>3, ResetType, EventNames DEF AckReceived
    <2> QED BY <1>3, <2>1 DEF AckReceived
  <1>4. CASE AckTimeout(a)
    BY <1>4 DEF AckTimeout
  <1>5. CASE AckResend(a)
    <2>1. retriesLeft' \in [Acker -> 0 .. 255]
      <3>2. Uint8(retriesLeft[a] - 1) \in 0 .. 255
        BY RetriesType
      <3> QED BY <1>5, <3>2 DEF AckResend
    <2>2. TxMsg(lastTx) \in Message
      BY TxMsgType
    <2>3. toBoard' \in Seq(Message)
      BY <1>5, <2>2 DEF AckResend
    <2>4. apc' \in [Acker -> AckPlace]
      BY <1>5 DEF AckResend, AckPlace
    <2>5. UNCHANGED <<status, queueVars, event, heapVars, devVars, doubled, userVars,
                      budgetVars, toHost, rxQueue, framerVars, boardVars>>
      BY <1>5 DEF AckResend
    <2> QED BY <2>1, <2>3, <2>4, <2>5 DEF AckPlace
  <1>6. CASE AckResendFails(a)
    BY <1>6 DEF AckResendFails
  <1>7. CASE AckPollFails(a)
    BY <1>7 DEF AckPollFails
  <1>8. CASE AckResetAck(a)
    <2>1. event' \in [Event -> Nat]
      BY <1>8, ResetType, EventNames DEF AckResetAck
    <2>2. apc' \in [Acker -> AckPlace]
      BY <1>8 DEF AckResetAck, AckPlace
    <2>3. /\ UNCHANGED <<lock, heapFreed, retriesLeft, faults, toBoard, status,
                         inMessages, lastTx, devVars, doubled, userVars, written,
                         opens, toHost, rxQueue, framerVars, boardVars>>
      BY <1>8 DEF AckResetAck
    <2> QED BY <2>1, <2>2, <2>3 DEF AckPlace
  <1>9. CASE AckRelease(a)
    <2>1. apc' \in [Acker -> AckPlace] /\ lock' = "free"
      BY <1>9 DEF AckRelease, AckPlace
    <2>2. UNCHANGED <<event, heapFreed, retriesLeft, faults, toBoard, status,
                      inMessages, lastTx, devVars, doubled, userVars, written,
                      opens, toHost, rxQueue, framerVars, boardVars>>
      BY <1>9 DEF AckRelease
    <2> QED BY <2>1, <2>2 DEF AckPlace
  <1>10. CASE AckDestroy(a)
    BY <1>10 DEF AckDestroy
  <1>11. CASE AckReset(a)
    <2>1. event' \in [Event -> Nat]
      BY <1>11, ResetType, EventNames DEF AckReset
    <2> QED BY <1>11, <2>1 DEF AckReset
  <1>12. CASE AckWaitFails(a)
    BY <1>12 DEF AckWaitFails
  <1> QED
    BY <1>1, <1>2, <1>3, <1>4, <1>5, <1>6, <1>7, <1>8, <1>9, <1>10, <1>11, <1>12
    DEF AckThread

LEMMA LifecycleTypeOK ==
  ASSUME TypeOK, Lifecycle, Quiet
  PROVE  TypeOK'
  <1> USE DeviceAssumption, LinkAssumption
      DEF TypeOK, Quiet, queueVars, heapVars,
          devVars, ackVars, userVars, budgetVars, portVars, framerVars, boardVars,
          DevGoto, UseFault
  <1>1. CASE OpenPhysicalDevice
    <2>1. status' \in {"opened", "error"} /\ opens' \in Nat /\ faults' \in Nat
      BY <1>1 DEF OpenPhysicalDevice
    <2>3. dpc' = "create" \/ dpc' = dpc
      BY <1>1 DEF OpenPhysicalDevice
    <2>2. UNCHANGED <<queueVars, event, heapVars, tx, txErr, ackVars, userVars,
                      written, portVars, framerVars, boardVars>>
      BY <1>1 DEF OpenPhysicalDevice
    <2>4. CASE dpc' = "create"
      BY <2>1, <2>2, <2>4
    <2>5. CASE dpc' = dpc
      BY <2>1, <2>2, <2>5
    <2> QED BY <2>3, <2>4, <2>5
  <1>2. CASE ClosePhysicalDevice
    <2>1. event' \in [Event -> Nat]
      BY <1>2, SignalType, EventNames DEF ClosePhysicalDevice
    <2> QED BY <1>2, <2>1 DEF ClosePhysicalDevice
  <1>3. CASE CloseJoin
    <2>1. /\ cpc' = "clear" /\ dpc' = "off" /\ status' = "closed" /\ toHost' = <<>>
          /\ UNCHANGED <<queueVars, event, heapVars, tx, txErr, ackVars, wpc, out,
                         budgetVars, toBoard, rxQueue, framerVars, boardVars>>
      BY <1>3 DEF CloseJoin
    <2> QED BY <2>1
  <1>4. CASE ClearLock
    <2>1. /\ cpc' = "drain" /\ lock' = "clear"
          /\ UNCHANGED <<status, inMessages, event, heapVars, devVars, ackVars, wpc,
                         out, budgetVars, portVars, framerVars, boardVars>>
      BY <1>4 DEF ClearLock
    <2> QED BY <2>1
  <1>5. CASE ClearUnlock
    <2>1. /\ cpc' = "idle" /\ lock' = "free"
          /\ UNCHANGED <<status, inMessages, event, heapVars, devVars, ackVars, wpc,
                         out, budgetVars, portVars, framerVars, boardVars>>
      BY <1>5 DEF ClearUnlock
    <2> QED BY <2>1
  <1>6. CASE DestroyPhysicalDevice
    <2>1. /\ cpc' = "clear" /\ status' = "freed"
          /\ UNCHANGED <<queueVars, event, heapVars, devVars, ackVars, wpc, out,
                         budgetVars, portVars, framerVars, boardVars>>
      BY <1>6 DEF DestroyPhysicalDevice
    <2> QED BY <2>1
  <1> QED BY <1>1, <1>2, <1>3, <1>4, <1>5, <1>6 DEF Lifecycle

LEMMA FramerTypeOK ==
  ASSUME TypeOK, Framer, UNCHANGED boardVars
  PROVE  TypeOK'
  <1> USE DeviceAssumption, LinkAssumption
      DEF TypeOK, Quiet, deviceVars, queueVars, heapVars,
          devVars, ackVars, userVars, budgetVars, portVars, boardVars, FramerGoto
  <1>0. \A m \in Message : m.id \in Nat
    BY DEF Message
  <1>1. CASE FramerTake
    <2>1. fmsg' \in Message /\ rxQueue' \in Seq(Message)
      BY <1>1 DEF FramerTake
    <2> QED BY <1>1, <2>1 DEF FramerTake
  <1>2. CASE FramerLock
    BY <1>2 DEF FramerLock
  <1>3. CASE SendFsciAck
    <2>1. AckMsg(fmsg.id) \in Message
      BY <1>0 DEF AckMsg, Message
    <2>2. toBoard' \in Seq(Message) /\ hostAcked' \in Seq(Nat)
      BY <1>0, <1>3, <2>1 DEF SendFsciAck
    <2> QED BY <1>3, <2>2 DEF SendFsciAck
  <1>4. CASE FramerUnlock
    <2>1. /\ lock' = "free" /\ fpc' = "txAck"
          /\ UNCHANGED <<status, inMessages, event, heapVars, devVars, ackVars,
                         userVars, budgetVars, portVars, fmsg, hostAcked,
                         delivered>>
      BY <1>4 DEF FramerUnlock
    <2> QED BY <2>1
  <1>5. CASE FramerSignalTxAck
    <2>1. event' \in [Event -> Nat]
      BY <1>5, SignalType, EventNames DEF FramerSignalTxAck
    <2> QED BY <1>5, <2>1 DEF FramerSignalTxAck
  <1>6. CASE FramerNotify
    <2>1. fmsg' \in Message
      BY <1>6 DEF FramerNotify, NoMsg, Message
    <2>2. delivered' \in Seq(Nat)
      <3>1. CASE delivered' = Append(delivered, fmsg.id)
        BY <1>0, <3>1
      <3>2. CASE UNCHANGED delivered
        BY <3>2
      <3> QED BY <1>6, <3>1, <3>2 DEF FramerNotify
    <2>3. CASE UNCHANGED deviceVars
      BY <1>6, <2>1, <2>2, <2>3 DEF FramerNotify
    <2>4. CASE CreateFrame("framer")
      <3>1. "framer" \in Callers
        BY DEF Callers
      <3>2. written' \in 0 .. MaxFrames /\ written' \in Frame
        BY <2>4 DEF CreateFrame, Frame
      <3> QED BY <1>6, <2>1, <2>2, <2>4, <3>1, <3>2 DEF CreateFrame, FramerNotify
    <2> QED BY <1>6, <2>3, <2>4 DEF FramerNotify
  <1>7. CASE FramerObserver
    <2>0. "framer" \in Callers
      BY DEF Callers
    <2>1. CASE PutFrame("framer")
      BY <1>7, <2>0, <2>1 DEF FramerObserver, PutFrame
    <2>2. CASE AnnounceFrame("framer")
      <3>1. event' \in [Event -> Nat]
        BY <2>2, SignalType, EventNames DEF AnnounceFrame
      <3> QED BY <1>7, <2>0, <2>2, <3>1 DEF FramerObserver, AnnounceFrame
    <2>3. CASE UNCHANGED deviceVars
      BY <1>7, <2>3 DEF FramerObserver
    <2> QED BY <1>7, <2>1, <2>2, <2>3 DEF FramerObserver, FinishWrite
  <1> QED
    BY <1>1, <1>2, <1>3, <1>4, <1>5, <1>6, <1>7 DEF Framer

LEMMA BoardTypeOK ==
  ASSUME TypeOK, Board
  PROVE  TypeOK'
  <1> USE DeviceAssumption, LinkAssumption
      DEF TypeOK, queueVars, heapVars,
          devVars, ackVars, userVars, budgetVars, framerVars, boardVars
  <1>0. ASSUME NEW m \in Message, ToHost(m)
        PROVE  toHost' \in Seq(Message)
    BY <1>0 DEF ToHost
  <1>1. CASE BoardMiss
    <2>1. toBoard' \in Seq(Message)
      BY <1>1 DEF BoardMiss
    <2> QED BY <1>1, <2>1 DEF BoardMiss, Board
  <1>2. CASE BoardAck
    <2>1. Head(toBoard) \in Message /\ toBoard' \in Seq(Message)
      BY <1>2 DEF BoardAck
    <2>2. Head(toBoard).id \in Nat
      BY <2>1 DEF Message
    <2>3. AckMsg(Head(toBoard).id) \in Message
      BY <2>2 DEF AckMsg, Message
    <2>4. toHost' \in Seq(Message)
      BY <1>0, <1>2, <2>3 DEF BoardAck
    <2>5. boardAcked' \subseteq Nat
      BY <1>2, <2>2 DEF BoardAck
    <2> QED BY <1>2, <2>1, <2>4, <2>5 DEF BoardAck, Board
  <1>3. CASE BoardSend
    <2>1. boardSent' \in Nat
      BY <1>3 DEF BoardSend
    <2>2. PICK t \in BoardTypes : ToHost([type |-> t, id |-> boardSent'])
      BY <1>3 DEF BoardSend
    <2>3. [type |-> t, id |-> boardSent'] \in Message
      BY <2>1 DEF Message
    <2>4. toHost' \in Seq(Message)
      BY <1>0, <2>2, <2>3
    <2> QED BY <1>3, <2>1, <2>4 DEF BoardSend, Board
  <1> QED BY <1>1, <1>2, <1>3 DEF Board

LEMMA NextTypeOK == TypeOK /\ [Next]_vars => TypeOK'
  <1> SUFFICES ASSUME TypeOK, [Next]_vars PROVE TypeOK'
    OBVIOUS
  <1>1. ASSUME NEW w \in Writers, CreateFrame(w) \/ FinishWrite(w), Quiet
        PROVE  TypeOK'
    BY <1>1, WriteTypeOK DEF Callers
  <1>2. CASE Host /\ Quiet
    BY <1>1, <1>2, DeviceThreadTypeOK, AckThreadTypeOK DEF Host
  <1>3. CASE Lifecycle /\ Quiet
    BY <1>3, LifecycleTypeOK
  <1>4. CASE Framer /\ UNCHANGED boardVars
    BY <1>4, FramerTypeOK
  <1>5. CASE Board
    BY <1>5, BoardTypeOK
  <1>6. CASE UNCHANGED vars
    BY <1>6 DEF TypeOK, vars, deviceVars, queueVars, heapVars, devVars, ackVars,
                userVars, budgetVars, portVars, framerVars, boardVars
  <1> QED BY <1>2, <1>3, <1>4, <1>5, <1>6 DEF Next, Quiet

\* Every behaviour of the link keeps its state in type: in particular no event
\* counter goes below zero and no caller puts a frame it has not created.
THEOREM TypeCorrect == Spec => []TypeOK
  <1>1. Init => TypeOK
    BY InitTypeOK
  <1>2. TypeOK /\ [Next]_vars => TypeOK'
    BY NextTypeOK
  <1> QED BY <1>1, <1>2, PTL DEF Spec

-----------------------------------------------------------------------------
(* Which WaitACK threads there are.  None exists before its device thread   *)
(* creates it, no device thread outlives the close, and as long as no ACK   *)
(* wait began with two of them there, one at most is at work.              *)

SomeBusy == \E a \in Acker : Busy(a)

Unborn ==
  \A a \in Acker : (a > opens \/ (a = opens /\ dpc = "create")) => apc[a] = "off"
ThreadEnded == status = "closed" => dpc = "off"
OneBusy     == ~doubled => \A a, b \in Acker : Busy(a) /\ Busy(b) => a = b

Threads == Unborn /\ ThreadEnded /\ OneBusy

LEMMA AckMoves ==
  ASSUME TypeOK, NEW a \in Acker, NEW x, apc' = [apc EXCEPT ![a] = x]
  PROVE  apc'[a] = x /\ \A b \in Acker : b # a => apc'[b] = apc[b]
  BY DEF TypeOK

\* A WaitACK that neither begins nor ends its work changes nothing for the rest.
LEMMA SameWork ==
  ASSUME TypeOK, NEW a \in Acker, NEW x \in {"off", "wait"},
         apc[a] \in {"off", "wait"}, apc' = [apc EXCEPT ![a] = x]
  PROVE  /\ \A b \in Acker : (Waits(b)' <=> Waits(b)) /\ (Busy(b)' <=> Busy(b))
         /\ (Waiting' <=> Waiting) /\ (SomeBusy' <=> SomeBusy)
  <1>1. \A b \in Acker : (Waits(b)' <=> Waits(b)) /\ (Busy(b)' <=> Busy(b))
    BY AckMoves DEF Waits, Busy
  <1> QED BY <1>1 DEF Waiting, SomeBusy

LEMMA OthersWork ==
  ASSUME TypeOK, Unborn, UNCHANGED apc \/ DevCreateAckThread
  PROVE  /\ \A b \in Acker : (Waits(b)' <=> Waits(b)) /\ (Busy(b)' <=> Busy(b))
         /\ (Waiting' <=> Waiting) /\ (SomeBusy' <=> SomeBusy)
  <1>1. CASE UNCHANGED apc
    BY <1>1 DEF Waits, Busy, Waiting, SomeBusy
  <1>2. CASE opens \in Acker /\ apc[opens] = "off"
                 /\ apc' = [apc EXCEPT ![opens] = "wait"]
    BY <1>2, SameWork
  <1>3. CASE DevCreateAckThread
    <2>1. CASE opens \in Acker
      BY <1>1, <1>2, <1>3, <2>1 DEF DevCreateAckThread, DevGoto, Unborn
    <2>2. CASE opens \notin Acker
      <3>1. [apc EXCEPT ![opens] = "wait"] = apc
        BY <2>2 DEF TypeOK
      <3> QED BY <1>1, <1>3, <3>1 DEF DevCreateAckThread
    <2> QED BY <2>1, <2>2
  <1> QED BY <1>1, <1>3

\* The one WaitACK at work decides for all.
LEMMA OneWorks ==
  ASSUME TypeOK, OneBusy, ~doubled, NEW a \in Acker, Busy(a), NEW x,
         apc' = [apc EXCEPT ![a] = x]
  PROVE  /\ SomeBusy /\ (Waiting <=> Waits(a))
         /\ (SomeBusy' <=> Busy(a)') /\ (Waiting' <=> Waits(a)')
  <1>1. \A b \in Acker : b # a => ~Busy(b) /\ ~Waits(b)
    BY DEF OneBusy, Busy
  <1>2. \A b \in Acker : b # a => ~Busy(b)' /\ ~Waits(b)'
    BY <1>1, AckMoves DEF Busy, Waits
  <1> QED BY <1>1, <1>2 DEF SomeBusy, Waiting

\* An ACK wait begun alone.
LEMMA BeginsAlone ==
  ASSUME TypeOK, NEW a \in Acker, AckStart(a), ~doubled'
  PROVE  ~doubled /\ ~Waiting /\ ~SomeBusy /\ Waiting' /\ SomeBusy'
  <1>1. /\ ~doubled /\ apc[a] = "wait" /\ apc' = [apc EXCEPT ![a] = "poll"]
        /\ \A b \in Acker : b # a => apc[b] = "off"
    BY DEF AckStart, AckGoto
  <1>2. \A b \in Acker : ~Busy(b) /\ ~Waits(b)
    BY <1>1 DEF Busy, Waits
  <1>3. Busy(a)' /\ Waits(a)'
    BY <1>1, AckMoves DEF Busy, Waits
  <1> QED BY <1>1, <1>2, <1>3 DEF SomeBusy, Waiting

\* Where a step of WaitACK takes it.
LEMMA AckSteps ==
  ASSUME NEW a \in Acker, AckThread(a)
  PROVE  /\ \E x \in AckPlace : apc[a] # "off" /\ apc' = [apc EXCEPT ![a] = x]
         /\ \/ AckStart(a)
            \/ AckStop(a) \/ AckWaitFails(a)
            \/ Busy(a) /\ UNCHANGED doubled
         /\ UNCHANGED <<status, dpc, opens, cpc>>
  <1> USE DEF AckGoto, AckKeeps, AckPlace, Busy, Waits, devVars, userVars, budgetVars
  <1>1. CASE AckStart(a)
    BY <1>1 DEF AckStart
  <1>2. CASE AckStop(a) \/ AckWaitFails(a)
    BY <1>2 DEF AckStop, AckWaitFails
  <1>3. CASE AckReceived(a) \/ AckTimeout(a)
    BY <1>3 DEF AckReceived, AckTimeout
  <1>4. CASE AckResend(a)
    BY <1>4 DEF AckResend
  <1>5. CASE AckResendFails(a) \/ AckPollFails(a) \/ AckResetAck(a)
    BY <1>5 DEF AckResendFails, AckPollFails, AckResetAck
  <1>6. CASE AckRelease(a)
    BY <1>6 DEF AckRelease
  <1>7. CASE AckDestroy(a) \/ AckReset(a)
    BY <1>7 DEF AckDestroy, AckReset
  <1> QED BY <1>1, <1>2, <1>3, <1>4, <1>5, <1>6, <1>7 DEF AckThread

LEMMA AckThreadThreads ==
  ASSUME TypeOK, Threads, NEW a \in Acker, AckThread(a)
  PROVE  Threads'
  <1>0. UNCHANGED <<status, dpc, opens, cpc>>
    BY AckSteps
  <1>1. PICK x \in AckPlace : apc[a] # "off" /\ apc' = [apc EXCEPT ![a] = x]
    BY AckSteps
  <1>2. Unborn' /\ ThreadEnded'
    BY <1>0, <1>1, AckMoves DEF Threads, Unborn, ThreadEnded
  <1>3. OneBusy'
    <2>1. CASE AckStart(a)
      <3>1. SUFFICES ASSUME ~doubled', NEW b \in Acker, NEW c \in Acker,
                            Busy(b)', Busy(c)'
                     PROVE  b = c
        BY DEF OneBusy
      <3>2. \A d \in Acker : d # a => apc[d] = "off"
        BY <2>1, <3>1 DEF AckStart
      <3>3. \A d \in Acker : d # a => ~Busy(d)'
        BY <1>1, <3>2, AckMoves DEF Busy, Waits
      <3> QED BY <3>1, <3>3
    <2>2. CASE AckStop(a) \/ AckWaitFails(a)
      <3>1. /\ apc[a] = "wait" /\ apc' = [apc EXCEPT ![a] = "off"]
            /\ doubled' = doubled
        BY <2>2 DEF AckStop, AckWaitFails, AckGoto, AckKeeps
      <3>2. \A b \in Acker : Busy(b)' <=> Busy(b)
        BY <3>1, SameWork
      <3> QED BY <3>1, <3>2 DEF Threads, OneBusy
    <2>3. CASE Busy(a) /\ UNCHANGED doubled
      <3>1. \A b \in Acker : Busy(b)' => Busy(b)
        BY <1>1, <2>3, AckMoves DEF Busy, Waits
      <3> QED BY <2>3, <3>1 DEF Threads, OneBusy
    <2> QED BY <2>1, <2>2, <2>3, AckSteps
  <1> QED BY <1>2, <1>3 DEF Threads

\* A step that leaves the WaitACK threads alone and creates no device thread.
LEMMA KeepsThreads ==
  ASSUME TypeOK, Threads, UNCHANGED <<apc, doubled, opens>>,
         dpc' = "create" => dpc = "create",
         status' = "closed" => dpc' = "off"
  PROVE  Threads'
  BY DEF Threads, Unborn, ThreadEnded, OneBusy, Busy, Waits

LEMMA DeviceThreadThreads ==
  ASSUME TypeOK, Threads, DeviceThread
  PROVE  Threads'
  <1>0. dpc # "off" /\ status # "closed"
    <2>1. dpc # "off"
      BY DEF DeviceThread, DevCreateAckThread, DevStart, DevStartFails, DevPollFails,
             DevPollStop, DevRead, DevPollSend, DevGet, DevWrite, DevLock, DevArm,
             DevReset, DevJoinAckThread, DevResetStop, DevGoto
    <2> QED BY <2>1 DEF Threads, ThreadEnded
  <1> USE DEF DevGoto
  <1>1. CASE DevCreateAckThread
    <2>1. /\ dpc' = "start" /\ UNCHANGED <<status, opens, doubled>>
          /\ apc' \in {apc, [apc EXCEPT ![opens] = "wait"]}
      BY <1>1 DEF DevCreateAckThread, budgetVars
    <2>2. \A b \in Acker : Busy(b)' <=> Busy(b)
      BY <1>1, OthersWork DEF Threads
    <2>3. Unborn'
      BY <2>1 DEF Threads, Unborn, TypeOK
    <2> QED BY <1>0, <2>1, <2>2, <2>3 DEF Threads, ThreadEnded, OneBusy
  <1>2. CASE ~DevCreateAckThread
    <2>1. UNCHANGED <<apc, doubled, opens>>
      BY <1>2 DEF DeviceThread, DevStart, DevStartFails, DevPollFails,
             DevPollStop, DevRead, DevPollSend, DevGet, DevWrite, DevLock, DevArm,
             DevReset, DevJoinAckThread, DevResetStop, ackVars, budgetVars
    <2>2. status' \in {status, "error"}
      BY <1>2 DEF DeviceThread, DevStart, DevStartFails, DevPollFails,
             DevPollStop, DevRead, DevPollSend, DevGet, DevWrite, DevLock, DevArm,
             DevReset, DevJoinAckThread, DevResetStop, Errored
    <2>3. dpc' # "create"
      BY <1>2 DEF DeviceThread, DevStart, DevStartFails, DevPollFails,
             DevPollStop, DevRead, DevPollSend, DevGet, DevWrite, DevLock, DevArm,
             DevReset, DevJoinAckThread, DevResetStop
    <2> QED BY <1>0, <2>1, <2>2, <2>3, KeepsThreads
  <1> QED BY <1>1, <1>2

LEMMA LifecycleThreads ==
  ASSUME TypeOK, Threads, Lifecycle
  PROVE  Threads'
  <1>1. CASE OpenPhysicalDevice
    <2>1. /\ dpc = "off" /\ dpc' \in {"create", "off"} /\ opens' = opens + 1
          /\ opens \in Nat
          /\ status' # "closed" /\ UNCHANGED <<apc, doubled>>
      BY <1>1 DEF OpenPhysicalDevice, Threads, ThreadEnded, ackVars, TypeOK
    <2>2. \A a \in Acker : a \in Int
      BY DeviceAssumption DEF Acker
    <2>3. Unborn'
      BY <2>1, <2>2 DEF Threads, Unborn
    <2> QED BY <2>1, <2>3 DEF Threads, ThreadEnded, OneBusy, Busy, Waits
  <1>2. CASE CloseJoin
    BY <1>2, KeepsThreads DEF CloseJoin, DevGoto, ackVars, budgetVars
  <1>3. CASE ClosePhysicalDevice \/ ClearLock \/ ClearUnlock \/ DestroyPhysicalDevice
    <2>1. /\ UNCHANGED <<apc, doubled, opens, dpc>> /\ status' \in {status, "freed"}
      BY <1>3 DEF ClosePhysicalDevice, ClearLock, ClearUnlock, DestroyPhysicalDevice,
                  ackVars, budgetVars, devVars
    <2> QED BY <2>1, KeepsThreads DEF Threads, ThreadEnded
  <1> QED BY <1>1, <1>2, <1>3 DEF Lifecycle

LEMMA WriteKeeps ==
  ASSUME NEW c \in Callers, CreateFrame(c) \/ FinishWrite(c)
  PROVE  UNCHANGED <<lock, dpc, tx, apc, retriesLeft, doubled, cpc, status, opens,
                     lastTx, toBoard>>
  BY DEF CreateFrame, FinishWrite, PutFrame, AnnounceFrame, queueVars, devVars,
         ackVars, heapVars, budgetVars, portVars

LEMMA FramerKeeps ==
  ASSUME Framer
  PROVE  UNCHANGED <<dpc, tx, apc, retriesLeft, doubled, cpc, status, opens, lastTx>>
  <1> USE DEF queueVars, devVars, ackVars, heapVars, budgetVars, userVars
  <1>1. CASE FramerTake \/ FramerLock \/ SendFsciAck \/ FramerUnlock
               \/ FramerSignalTxAck
    BY <1>1 DEF FramerTake, FramerLock, SendFsciAck, FramerUnlock, FramerSignalTxAck
  <1>2. CASE FramerNotify \/ FramerObserver
    BY <1>2, WriteKeeps DEF FramerNotify, FramerObserver, deviceVars, Callers
  <1> QED BY <1>1, <1>2 DEF Framer

LEMMA NextThreads ==
  ASSUME TypeOK, Threads, [Next]_vars
  PROVE  Threads'
  <1>0. ASSUME UNCHANGED <<apc, doubled, opens, dpc, status>> PROVE Threads'
    BY <1>0, KeepsThreads DEF Threads, ThreadEnded
  <1>1. ASSUME NEW c \in Callers, CreateFrame(c) \/ FinishWrite(c) PROVE Threads'
    BY <1>0, <1>1, WriteKeeps
  <1>2. CASE Host
    BY <1>1, <1>2, DeviceThreadThreads, AckThreadThreads DEF Host, Callers
  <1>3. CASE Lifecycle
    BY <1>3, LifecycleThreads
  <1>4. CASE Framer
    BY <1>0, <1>4, FramerKeeps
  <1>5. CASE Board \/ UNCHANGED vars
    BY <1>0, <1>5 DEF Board, vars, deviceVars, devVars, ackVars, budgetVars
  <1> QED BY <1>2, <1>3, <1>4, <1>5 DEF Next

-----------------------------------------------------------------------------
(* The transmit lock.  LockHandover, LockOthers and ClosedAtRest are        *)
(* inductive together with the threads there are and with one more fact: a  *)
(* device thread between its Get and its own Acquire does not hold the lock *)
(* for a TX, which makes the frame it writes harmless.                     *)

NotYetLocked == ~doubled /\ dpc \in {"write", "lock"} => lock # "tx"

Locks   == LockHandover /\ LockOthers /\ ClosedAtRest /\ NotYetLocked
LockInv == TypeOK /\ Threads /\ Locks

LEMMA StartAckType == TypeOK => event["startAck"] \in Nat
  BY DEF TypeOK, Event

LEMMA ArmedIs ==
  Armed = event["startAck"] - (IF SomeBusy THEN 1 ELSE 0)
  BY DEF Armed, SomeBusy

LEMMA ArmedThen ==
  Armed' = event'["startAck"] - (IF SomeBusy' THEN 1 ELSE 0)
  BY DEF Armed, SomeBusy

LEMMA InitLockInv == Init => LockInv
  <1> SUFFICES ASSUME Init PROVE LockInv
    OBVIOUS
  <1>1. TypeOK
    BY InitTypeOK
  <1>2. event["startAck"] = 0 /\ \A a \in Acker : apc[a] = "off"
    BY DEF Init, DeviceInit, Event
  <1>3. ~Waiting /\ Armed = 0 /\ \A a \in Acker : ~Busy(a)
    <2>1. \A a \in Acker : ~Busy(a) /\ ~Waits(a)
      BY <1>2 DEF Busy, Waits
    <2>2. ~SomeBusy
      BY <2>1 DEF SomeBusy
    <2>3. Armed = 0 - 0
      BY <1>2, <2>2, ArmedIs
    <2> QED BY <2>1, <2>3 DEF Waiting
  <1>4. Threads
    BY <1>2, <1>3 DEF Threads, Unborn, ThreadEnded, OneBusy, Init, DeviceInit
  <1>5. Locks
    BY <1>3 DEF Locks, Init, DeviceInit, LockHandover, LockOthers, ClosedAtRest,
                NotYetLocked
  <1> QED BY <1>1, <1>4, <1>5 DEF LockInv

\* Steps of the threads other than WaitACK.
LEMMA OthersArmed ==
  ASSUME LockInv, UNCHANGED apc \/ DevCreateAckThread, TypeOK'
  PROVE  /\ (Waiting' <=> Waiting) /\ Armed \in Int /\ Armed' \in Int
         /\ Armed' - Armed = event'["startAck"] - event["startAck"]
  <1>1. event["startAck"] \in Nat
    BY StartAckType DEF LockInv
  <1>2. event'["startAck"] \in Nat
    BY DEF TypeOK, Event
  <1>3. (Waiting' <=> Waiting) /\ (SomeBusy' <=> SomeBusy)
    BY OthersWork DEF LockInv, Threads
  <1>4. CASE SomeBusy
    <2>1. Armed = event["startAck"] - 1 /\ Armed' = event'["startAck"] - 1
      BY <1>3, <1>4, ArmedIs, ArmedThen
    <2> QED BY <1>1, <1>2, <1>3, <2>1
  <1>5. CASE ~SomeBusy
    <2>1. Armed = event["startAck"] - 0 /\ Armed' = event'["startAck"] - 0
      BY <1>3, <1>5, ArmedIs, ArmedThen
    <2> QED BY <1>1, <1>2, <1>3, <2>1
  <1> QED BY <1>4, <1>5

LEMMA SameArmed ==
  ASSUME LockInv, UNCHANGED apc \/ DevCreateAckThread,
         event'["startAck"] = event["startAck"]
  PROVE  (Waiting' <=> Waiting) /\ Armed' = Armed
  <1>1. (Waiting' <=> Waiting) /\ (SomeBusy' <=> SomeBusy)
    BY OthersWork DEF LockInv, Threads
  <1>2. CASE SomeBusy
    <2>1. Armed = event["startAck"] - 1 /\ Armed' = event'["startAck"] - 1
      BY <1>1, <1>2, ArmedIs, ArmedThen
    <2> QED BY <1>1, <2>1
  <1>3. CASE ~SomeBusy
    <2>1. Armed = event["startAck"] - 0 /\ Armed' = event'["startAck"] - 0
      BY <1>1, <1>3, ArmedIs, ArmedThen
    <2> QED BY <1>1, <2>1
  <1> QED BY <1>2, <1>3

\* A step that touches none of it.
LEMMA KeepsLocks ==
  ASSUME LockInv, TypeOK',
         UNCHANGED <<lock, apc, doubled, cpc, event["startAck"]>>,
         fpc' \in {"ack", "unlock"} <=> fpc \in {"ack", "unlock"},
         UNCHANGED <<dpc, status>>
  PROVE  Locks'
  <1>1. (Waiting' <=> Waiting) /\ Armed' = Armed
    BY SameArmed
  <1> QED
    BY <1>1 DEF LockInv, Locks, LockHandover, LockOthers, ClosedAtRest, NotYetLocked

LEMMA WriteLocks ==
  ASSUME LockInv, TypeOK', NEW c \in Callers, CreateFrame(c) \/ FinishWrite(c),
         fpc' \in {"ack", "unlock"} <=> fpc \in {"ack", "unlock"}
  PROVE  Locks'
  <1>1. UNCHANGED event["startAck"]
    BY DEF CreateFrame, FinishWrite, PutFrame, AnnounceFrame, Signal, LockInv,
           TypeOK, Event
  <1> QED BY <1>1, WriteKeeps, KeepsLocks

LEMMA DeviceThreadLocks ==
  ASSUME LockInv, TypeOK', DeviceThread, Quiet
  PROVE  Locks'
  <1>0. /\ event \in [Event -> Nat] /\ UNCHANGED fpc
        /\ status # "closed" /\ dpc # "off"
    <2>1. dpc # "off"
      BY DEF DeviceThread, DevCreateAckThread, DevStart, DevStartFails, DevPollFails,
             DevPollStop, DevRead, DevPollSend, DevGet, DevWrite, DevLock, DevArm,
             DevReset, DevJoinAckThread, DevResetStop, DevGoto
    <2> QED BY <2>1 DEF LockInv, Threads, ThreadEnded, TypeOK, Quiet, framerVars
  <1>1. UNCHANGED <<doubled, cpc>> /\ status' # "closed"
    BY <1>0 DEF DeviceThread, DevCreateAckThread, DevStart, DevStartFails, DevPollFails,
             DevPollStop, DevRead, DevPollSend, DevGet, DevWrite, DevLock, DevArm,
             DevReset, DevJoinAckThread, DevResetStop, Errored, ackVars, userVars
  <1>2. UNCHANGED apc \/ DevCreateAckThread
    BY DEF DeviceThread, DevStart, DevStartFails, DevPollFails,
           DevPollStop, DevRead, DevPollSend, DevGet, DevWrite, DevLock, DevArm,
           DevReset, DevJoinAckThread, DevResetStop, ackVars
  <1> USE <1>0, <1>1
      DEF LockInv, Locks, LockHandover, LockOthers, ClosedAtRest, NotYetLocked
  <1>3. CASE DevArm
    <2>1. /\ dpc = "arm" /\ dpc' = "reset" /\ UNCHANGED lock
          /\ event'["startAck"] = event["startAck"] + 1
      BY <1>3, EventNames DEF DevArm, DevGoto, Signal, queueVars
    <2>2. /\ (Waiting' <=> Waiting) /\ Armed \in Int /\ Armed' \in Int
          /\ Armed' - Armed = event'["startAck"] - event["startAck"]
      BY <1>2, OthersArmed
    <2>3. event["startAck"] \in Nat
      BY EventNames
    <2>4. Armed' = Armed + 1
      BY <2>1, <2>2, <2>3
    <2> QED BY <2>1, <2>2, <2>4
  <1>4. CASE ~DevArm
    <2>1. event'["startAck"] = event["startAck"]
      BY <1>4 DEF DeviceThread, DevCreateAckThread, DevStart, DevStartFails,
           DevPollFails, DevPollStop, DevRead, DevPollSend, DevGet, DevWrite, DevLock,
           DevReset, DevJoinAckThread, DevResetStop, Signal, Reset, Event
    <2>2. (Waiting' <=> Waiting) /\ Armed' = Armed
      BY <1>2, <2>1, SameArmed
    <2>3. CASE DevLock
      BY <2>2, <2>3 DEF DevLock, DevGoto
    <2>4. CASE DevWrite
      BY <2>2, <2>4 DEF DevWrite, DevGoto, queueVars
    <2>5. CASE DevGet
      BY <2>2, <2>5 DEF DevGet, DevGoto
    <2>6. CASE ~(DevLock \/ DevWrite \/ DevGet)
      <3>1. UNCHANGED lock /\ dpc # "arm" /\ dpc' \notin {"arm", "write", "lock"}
        BY <1>4, <2>6 DEF DeviceThread, DevCreateAckThread, DevStart, DevStartFails,
           DevPollFails, DevPollStop, DevRead, DevPollSend, DevReset,
           DevJoinAckThread, DevResetStop, DevGoto, queueVars
      <3> QED BY <2>2, <3>1
    <2> QED BY <2>3, <2>4, <2>5, <2>6
  <1> QED BY <1>3, <1>4

LEMMA AckThreadLocks ==
  ASSUME LockInv, TypeOK', NEW a \in Acker, AckThread(a), Quiet
  PROVE  Locks'
  <1>0. /\ event["startAck"] \in Nat /\ event \in [Event -> Nat] /\ UNCHANGED fpc
        /\ UNCHANGED <<status, dpc, opens, cpc>>
    BY StartAckType, AckSteps DEF LockInv, TypeOK, Quiet, framerVars
  <1>d. doubled => doubled'
    BY AckSteps DEF AckStart, AckStop, AckWaitFails, AckKeeps
  <1> SUFFICES ASSUME ~doubled' PROVE Locks'
    BY DEF Locks, LockHandover, LockOthers, ClosedAtRest, NotYetLocked
  <1> USE <1>0, <1>d
      DEF LockInv, Locks, LockHandover, LockOthers, ClosedAtRest, NotYetLocked
  <1>1. CASE AckStop(a) \/ AckWaitFails(a)
    <2>1. /\ apc[a] = "wait" /\ apc' = [apc EXCEPT ![a] = "off"]
          /\ UNCHANGED <<lock, event>>
      BY <1>1 DEF AckStop, AckWaitFails, AckGoto
    <2>2. (Waiting' <=> Waiting) /\ (SomeBusy' <=> SomeBusy)
      BY <2>1, SameWork
    <2>3. Armed' = Armed
      BY <2>1, <2>2, ArmedIs, ArmedThen
    <2> QED BY <2>1, <2>2, <2>3
  <1>2. CASE AckStart(a)
    <2>1. UNCHANGED <<lock, event>> /\ event["startAck"] > 0
      BY <1>2 DEF AckStart, IsSet, queueVars
    <2>2. ~Waiting /\ ~SomeBusy /\ Waiting' /\ SomeBusy'
      BY <1>2, BeginsAlone
    <2>3. Armed = event["startAck"] - 0 /\ Armed' = event["startAck"] - 1
      BY <2>1, <2>2, ArmedIs, ArmedThen
    <2>4. Armed = 1 /\ Armed' = 0
      BY <2>1, <2>3
    <2> QED BY <2>1, <2>2, <2>4
  <1>3. CASE Busy(a) /\ UNCHANGED doubled
    <2>0. PICK x \in AckPlace : apc[a] # "off" /\ apc' = [apc EXCEPT ![a] = x]
      BY AckSteps
    <2>1. /\ SomeBusy /\ (Waiting <=> Waits(a))
          /\ (SomeBusy' <=> Busy(a)') /\ (Waiting' <=> Waits(a)')
      BY <1>3, <2>0, OneWorks DEF Threads
    <2>2. apc'[a] = x
      BY <2>0, AckMoves
    <2>3. Armed = event["startAck"] - 1
      BY <2>1, ArmedIs
    <2>4. CASE AckReset(a)
      <3>1. /\ apc[a] = "reset" /\ x = "wait" /\ UNCHANGED lock
            /\ event'["startAck"] = event["startAck"] - 1
        BY <2>0, <2>2, <2>4, EventNames, AckMoves
        DEF AckReset, AckGoto, Reset, AckPlace, TypeOK
      <3>2. ~Waiting /\ ~Waiting' /\ ~SomeBusy'
        BY <2>1, <2>2, <3>1 DEF Waits, Busy
      <3>3. Armed' = Armed
        BY <2>3, <3>1, <3>2, ArmedThen
      <3> QED BY <3>1, <3>2, <3>3
    <2>5. CASE AckRelease(a)
      <3>1. /\ Waits(a) /\ x \in {"destroy", "reset"} /\ lock' = "free"
            /\ UNCHANGED event
        BY <2>0, <2>2, <2>5, AckMoves DEF AckRelease, AckGoto, Waits, AckPlace, TypeOK
      <3>2. Waiting /\ ~Waiting' /\ SomeBusy'
        BY <2>1, <2>2, <3>1 DEF Waits, Busy
      <3>3. Armed' = Armed
        BY <2>3, <3>1, <3>2, ArmedThen
      <3> QED BY <3>1, <3>2, <3>3
    <2>6. CASE ~AckReset(a) /\ ~AckRelease(a)
      <3>1. /\ UNCHANGED lock /\ event'["startAck"] = event["startAck"]
            /\ (Waits(a)' <=> Waits(a)) /\ Busy(a)'
        <4>1. CASE AckReceived(a) \/ AckTimeout(a) \/ AckPollFails(a) \/ AckResetAck(a)
          BY <2>0, <2>2, <4>1, AckMoves
          DEF AckReceived, AckTimeout, AckPollFails, AckResetAck, AckGoto, Reset, Event,
              Waits, Busy, AckKeeps, TypeOK
        <4>2. CASE AckResend(a) \/ AckResendFails(a) \/ AckDestroy(a)
          BY <2>0, <2>2, <4>2, AckMoves
          DEF AckResend, AckResendFails, AckDestroy, AckGoto, Waits, Busy, AckKeeps,
              TypeOK
        <4>3. CASE AckStart(a) \/ AckStop(a) \/ AckWaitFails(a)
          BY <1>3, <4>3 DEF AckStart, AckStop, AckWaitFails, AckGoto, Waits, Busy
        <4> QED BY <2>6, <4>1, <4>2, <4>3 DEF AckThread
      <3>2. (Waiting' <=> Waiting) /\ SomeBusy'
        BY <2>1, <3>1
      <3>3. Armed' = Armed
        BY <2>3, <3>1, <3>2, ArmedThen
      <3> QED BY <3>1, <3>2, <3>3
    <2> QED BY <2>4, <2>5, <2>6
  <1> QED BY <1>1, <1>2, <1>3, AckSteps

LEMMA LifecycleLocks ==
  ASSUME LockInv, TypeOK', Lifecycle, Quiet
  PROVE  Locks'
  <1>0. event'["startAck"] = event["startAck"] /\ UNCHANGED <<fpc, apc, doubled>>
    BY DEF LockInv, TypeOK, Lifecycle, OpenPhysicalDevice, ClosePhysicalDevice,
           CloseJoin, ClearLock, ClearUnlock, DestroyPhysicalDevice, Signal, Event,
           Quiet, framerVars, ackVars
  <1>1. (Waiting' <=> Waiting) /\ Armed' = Armed
    BY <1>0, SameArmed
  <1> USE <1>0, <1>1
      DEF LockInv, Locks, LockHandover, LockOthers, ClosedAtRest, NotYetLocked,
          Threads, ThreadEnded, queueVars, devVars, userVars, DevGoto
  <1>2. CASE OpenPhysicalDevice
    BY <1>2 DEF OpenPhysicalDevice
  <1>3. CASE ClosePhysicalDevice
    BY <1>3 DEF ClosePhysicalDevice
  <1>4. CASE CloseJoin
    BY <1>4 DEF CloseJoin
  <1>5. CASE ClearLock
    BY <1>5 DEF ClearLock
  <1>6. CASE ClearUnlock
    BY <1>6 DEF ClearUnlock
  <1>7. CASE DestroyPhysicalDevice
    BY <1>7 DEF DestroyPhysicalDevice
  <1> QED BY <1>2, <1>3, <1>4, <1>5, <1>6, <1>7 DEF Lifecycle

LEMMA FramerLocks ==
  ASSUME LockInv, TypeOK', Framer
  PROVE  Locks'
  <1>0. UNCHANGED <<dpc, apc, doubled, cpc, status>>
    BY FramerKeeps
  <1>1. CASE FramerNotify \/ FramerObserver
    <2>0. /\ fpc \notin {"ack", "unlock"} /\ fpc' \notin {"ack", "unlock"}
          /\ "framer" \in Callers
      BY <1>1 DEF FramerNotify, FramerObserver, FramerGoto, Callers
    <2>1. CASE UNCHANGED deviceVars
      BY <2>0, <2>1, KeepsLocks DEF deviceVars, queueVars, devVars, ackVars, userVars
    <2>2. CASE CreateFrame("framer") \/ FinishWrite("framer")
      BY <2>0, <2>2, WriteLocks
    <2> QED BY <1>1, <2>1, <2>2 DEF FramerNotify, FramerObserver
  <1>2. CASE FramerTake \/ FramerLock \/ SendFsciAck \/ FramerUnlock
               \/ FramerSignalTxAck
    <2>1. event'["startAck"] = event["startAck"]
      BY <1>2 DEF LockInv, TypeOK, FramerTake, FramerLock, SendFsciAck, FramerUnlock,
                  FramerSignalTxAck, Signal, Event
    <2>2. (Waiting' <=> Waiting) /\ Armed' = Armed
      BY <1>0, <2>1, SameArmed
    <2> USE <1>0, <2>2
        DEF LockInv, Locks, LockHandover, LockOthers, ClosedAtRest, NotYetLocked,
            queueVars, FramerGoto
    <2>3. CASE FramerTake \/ FramerSignalTxAck \/ SendFsciAck
      BY <2>3 DEF FramerTake, FramerSignalTxAck, SendFsciAck
    <2>4. CASE FramerLock
      BY <2>4 DEF FramerLock
    <2>5. CASE FramerUnlock
      BY <2>5 DEF FramerUnlock
    <2> QED BY <1>2, <2>3, <2>4, <2>5
  <1> QED BY <1>1, <1>2 DEF Framer

LEMMA NextLockInv == LockInv /\ [Next]_vars => LockInv'
  <1> SUFFICES ASSUME LockInv, [Next]_vars PROVE LockInv'
    OBVIOUS
  <1>0. TypeOK' /\ Threads'
    BY NextTypeOK, NextThreads DEF LockInv
  <1> SUFFICES Locks'
    BY <1>0 DEF LockInv
  <1> USE <1>0
  <1>1. ASSUME NEW w \in Writers, CreateFrame(w) \/ FinishWrite(w), Quiet
        PROVE  Locks'
    BY <1>1, WriteLocks DEF Callers, Quiet, framerVars
  <1>2. CASE Host /\ Quiet
    BY <1>1, <1>2, DeviceThreadLocks, AckThreadLocks DEF Host
  <1>3. CASE Lifecycle /\ Quiet
    BY <1>3, LifecycleLocks
  <1>4. CASE Framer
    BY <1>4, FramerLocks
  <1>5. CASE Board \/ UNCHANGED vars
    BY <1>5, KeepsLocks DEF Board, vars, deviceVars, queueVars, devVars, ackVars,
                            userVars, framerVars
  <1> QED BY <1>2, <1>3, <1>4, <1>5 DEF Next, Quiet

LEMMA LockInvariance == Spec => []LockInv
  <1>1. Init => LockInv
    BY InitLockInv
  <1>2. LockInv /\ [Next]_vars => LockInv'
    BY NextLockInv
  <1> QED BY <1>1, <1>2, PTL DEF Spec

\* However opens, closes, failures, timeouts and ACKs fall together, the transmit
\* lock is held for a TX exactly by the device thread that has just taken it, a
\* start event on its way, or WaitACK, and by one of them only, as long as no ACK
\* wait was begun while two WaitACK threads were there.
THEOREM HandoverCorrect == Spec => []LockHandover
  <1>1. LockInv => LockHandover
    BY DEF LockInv, Locks
  <1> QED BY <1>1, LockInvariance, PTL

\* With the same reservation, the framer holds the lock exactly while it writes an
\* ACK, and ClearMessageQueue exactly while it drains, be it for a close or for a
\* device that is freed.
THEOREM OthersCorrect == Spec => []LockOthers
  <1>1. LockInv => LockOthers
    BY DEF LockInv, Locks
  <1> QED BY <1>1, LockInvariance, PTL

\* With the same reservation, a close that has returned leaves no device thread, no
\* ACK wait begun or announced and no TX hold of the lock behind.
THEOREM CloseCorrect == Spec => []ClosedAtRest
  <1>1. LockInv => ClosedAtRest
    BY DEF LockInv, Locks
  <1> QED BY <1>1, LockInvariance, PTL

-----------------------------------------------------------------------------
(* What a step may never do, from the same invariant.                      *)

\* A step that releases the lock.
Releases == ~doubled /\ lock # "free" /\ lock' = "free"
\* It is the release of a TX hold by WaitACK, of an RX hold by the framer, or of
\* the hold of ClearMessageQueue.
ByHolder ==
  \/ lock = "tx" /\ Waiting /\ ~Waiting'
  \/ lock = "rx" /\ fpc = "unlock"
  \/ lock = "clear" /\ cpc = "drain"

LEMMA ReleaseSteps ==
  ASSUME LockInv, [Next]_vars, Releases
  PROVE  ByHolder
  <1> USE DEF LockInv, Locks, LockHandover, LockOthers, Releases, ByHolder, queueVars
  <1>1. ASSUME NEW c \in Callers, CreateFrame(c) \/ FinishWrite(c) PROVE FALSE
    BY <1>1, WriteKeeps
  <1>2. CASE DeviceThread
    BY <1>2 DEF DeviceThread, DevCreateAckThread, DevStart, DevStartFails,
                DevPollFails, DevPollStop, DevRead, DevPollSend, DevGet, DevWrite,
                DevLock, DevArm, DevReset, DevJoinAckThread, DevResetStop
  <1>3. ASSUME NEW a \in Acker, AckThread(a) PROVE ByHolder
    <2>1. CASE AckRelease(a)
      <3>1. /\ Waits(a) /\ Busy(a)
            /\ \/ apc' = [apc EXCEPT ![a] = "destroy"]
               \/ apc' = [apc EXCEPT ![a] = "reset"]
        BY <2>1 DEF AckRelease, AckGoto, Waits, Busy
      <3>2. ~Waits(a)'
        BY <3>1, AckMoves DEF Waits
      <3>3. Waiting /\ ~Waiting'
        BY <3>1, <3>2, OneWorks DEF Threads
      <3> QED BY <3>3
    <2>2. CASE ~AckRelease(a)
      BY <1>3, <2>2 DEF AckThread, AckStop, AckWaitFails, AckStart, AckReceived,
                  AckTimeout, AckResend, AckResendFails, AckPollFails, AckResetAck,
                  AckDestroy, AckReset
    <2> QED BY <2>1, <2>2
  <1>4. CASE Lifecycle
    BY <1>4 DEF Lifecycle, OpenPhysicalDevice, ClosePhysicalDevice, CloseJoin,
                ClearLock, ClearUnlock, DestroyPhysicalDevice
  <1>5. CASE Framer
    <2>1. CASE FramerUnlock
      BY <2>1 DEF FramerUnlock, FramerGoto
    <2>2. CASE FramerNotify \/ FramerObserver
      BY <1>1, <2>2 DEF FramerNotify, FramerObserver, deviceVars, Callers
    <2>3. CASE FramerTake \/ FramerLock \/ SendFsciAck \/ FramerSignalTxAck
      BY <2>3 DEF FramerTake, FramerLock, SendFsciAck, FramerSignalTxAck
    <2> QED BY <1>5, <2>1, <2>2, <2>3 DEF Framer
  <1>6. CASE Board
    BY <1>6 DEF Board
  <1>7. CASE UNCHANGED vars
    BY <1>7 DEF vars, deviceVars
  <1> QED
    BY <1>1, <1>2, <1>3, <1>4, <1>5, <1>6, <1>7 DEF Next, Host, Callers

\* No thread releases the transmit lock while another one holds it, as long as no
\* ACK wait was begun while two WaitACK threads were there.
THEOREM ReleaseCorrect == Spec => ReleasedByHolder
  <1>1. LockInv /\ [Next]_vars
          => [Releases => ByHolder]_vars
    BY ReleaseSteps
  <1> QED
    BY <1>1, LockInvariance, PTL DEF Spec, ReleasedByHolder, Releases, ByHolder

\* A step that writes to the line during a TX hold.
Writes == ~doubled /\ lock = "tx" /\ Len(toBoard') > Len(toBoard)
\* It is WaitACK sending the frame in transmission again.
Retransmits == toBoard' = Append(toBoard, TxMsg(lastTx)) /\ Waiting

LEMMA WriteSteps ==
  ASSUME LockInv, [Next]_vars, Writes
  PROVE  Retransmits
  <1>0. toBoard \in Seq(Message) /\ toBoard' # toBoard
    BY DEF LockInv, TypeOK, Writes
  <1> USE <1>0 DEF portVars, Writes
  <1>1. ASSUME NEW c \in Callers, CreateFrame(c) \/ FinishWrite(c) PROVE FALSE
    BY <1>1, WriteKeeps
  <1>2. CASE DeviceThread
    <2>1. CASE DevWrite
      BY <2>1 DEF DevWrite, DevGoto, LockInv, Locks, NotYetLocked
    <2>2. CASE ~DevWrite
      BY <1>2, <2>2 DEF DeviceThread, DevCreateAckThread, DevStart, DevStartFails,
                  DevPollFails, DevPollStop, DevRead, DevPollSend, DevGet, DevLock,
                  DevArm, DevReset, DevJoinAckThread, DevResetStop
    <2> QED BY <2>1, <2>2
  <1>3. ASSUME NEW a \in Acker, AckThread(a) PROVE Retransmits
    <2>1. CASE AckResend(a)
      BY <2>1 DEF AckResend, AckGoto, Retransmits, Waiting, Waits
    <2>2. CASE ~AckResend(a)
      BY <1>3, <2>2 DEF AckThread, AckStop, AckWaitFails, AckStart, AckReceived,
                  AckTimeout, AckResendFails, AckPollFails, AckResetAck, AckRelease,
                  AckDestroy, AckReset
    <2> QED BY <2>1, <2>2
  <1>4. CASE Lifecycle
    BY <1>4 DEF Lifecycle, OpenPhysicalDevice, ClosePhysicalDevice, CloseJoin,
                ClearLock, ClearUnlock, DestroyPhysicalDevice
  <1>5. CASE Framer
    <2>1. CASE SendFsciAck
      BY <2>1 DEF SendFsciAck, FramerGoto, LockInv, Locks, LockOthers
    <2>2. CASE FramerNotify \/ FramerObserver
      BY <1>1, <2>2 DEF FramerNotify, FramerObserver, deviceVars, Callers
    <2>3. CASE FramerTake \/ FramerLock \/ FramerUnlock \/ FramerSignalTxAck
      BY <2>3 DEF FramerTake, FramerLock, FramerUnlock, FramerSignalTxAck
    <2> QED BY <1>5, <2>1, <2>2, <2>3 DEF Framer
  <1>6. CASE Board
    <2>1. CASE toBoard # <<>> /\ toBoard' = Tail(toBoard)
      BY <2>1
    <2>2. CASE BoardSend
      BY <2>2 DEF BoardSend
    <2> QED BY <1>6, <2>1, <2>2 DEF Board, BoardMiss, BoardAck
  <1>7. CASE UNCHANGED vars
    BY <1>7 DEF vars, deviceVars
  <1> QED
    BY <1>1, <1>2, <1>3, <1>4, <1>5, <1>6, <1>7 DEF Next, Host, Callers

\* From the moment the device thread locks the queue for a frame until WaitACK
\* releases it, nothing but that frame enters the line, as long as no ACK wait was
\* begun while two WaitACK threads were there.
THEOREM QuietCorrect == Spec => QuietWhileWaiting
  <1>1. LockInv /\ [Next]_vars => [Writes => Retransmits]_vars
    BY WriteSteps
  <1> QED
    BY <1>1, LockInvariance, PTL DEF Spec, QuietWhileWaiting, Writes, Retransmits

\* Sessions that are never closed are behaviours of Spec, so the runs on
\* SessionSpec check instances of the theorems above.
THEOREM SessionsAreBehaviours == SessionSpec => Spec
  <1>1. [SessionNext]_vars => [Next]_vars
    BY DEF SessionNext, Next, Lifecycle
  <1> QED BY <1>1, PTL DEF SessionSpec, Spec

-----------------------------------------------------------------------------
(* The frames of the board: where the framer is tells how far the answer    *)
(* to the frame in hand has come.                                          *)

AnswerInv ==
  RxAck =>
    /\ fpc \in {"lock", "ack", "unlock"} => ~IsAck(fmsg)
    /\ fpc \in {"poll", "lock", "ack", "observer"} => hostAcked = delivered
    /\ fpc = "unlock" => hostAcked = Append(delivered, fmsg.id)
    /\ fpc \in {"txAck", "notify"} =>
         hostAcked = IF IsAck(fmsg) THEN delivered ELSE Append(delivered, fmsg.id)

LEMMA FramerAnswerInv ==
  ASSUME TypeOK, AnswerInv, Framer
  PROVE  AnswerInv'
  <1> USE DEF AnswerInv, FramerGoto
  <1>1. CASE FramerTake
    BY <1>1 DEF FramerTake
  <1>2. CASE FramerLock
    BY <1>2 DEF FramerLock
  <1>3. CASE SendFsciAck
    BY <1>3 DEF SendFsciAck
  <1>4. CASE FramerUnlock
    BY <1>4 DEF FramerUnlock
  <1>5. CASE FramerSignalTxAck
    BY <1>5 DEF FramerSignalTxAck
  <1>6. CASE FramerNotify
    BY <1>6 DEF FramerNotify
  <1>7. CASE FramerObserver
    BY <1>7 DEF FramerObserver
  <1> QED BY <1>1, <1>2, <1>3, <1>4, <1>5, <1>6, <1>7 DEF Framer

\* With RX ACK on, every frame the board sends is acknowledged once, in the order of
\* arrival and before the observers see it, whatever writes, closes, failures and
\* timeouts come between (FramerThreadRoutine, SendFsciAck).
THEOREM AckedThenDeliveredCorrect == Spec => []AckedThenDelivered
  <1>1. Init => AnswerInv
    BY DEF Init, AnswerInv
  <1>2. TypeOK /\ AnswerInv /\ [Next]_vars => AnswerInv'
    <2>1. ASSUME UNCHANGED framerVars, AnswerInv PROVE AnswerInv'
      BY <2>1 DEF framerVars, AnswerInv
    <2> QED BY <2>1, FramerAnswerInv DEF Next, Board, vars
  <1>3. TypeOK /\ AnswerInv => AckedThenDelivered
    BY DEF TypeOK, AnswerInv, AckedThenDelivered
  <1> QED BY <1>1, <1>2, <1>3, TypeCorrect, PTL DEF Spec

-----------------------------------------------------------------------------
(* Announcements of frames.  Those that were made and those that are still *)
(* to come from callers that have put their frame are no more than the     *)
(* frames in the queue and the one the device thread has in hand.          *)

Announcing == {c \in Callers : wpc[c] = "announce"}
InFlight   == IF dpc \in {"write", "lock", "arm", "reset"} THEN 1 ELSE 0

CountInv ==
  /\ IsFiniteSet(Announcing)
  /\ event["announceData"] + Cardinality(Announcing) <= Len(inMessages) + InFlight
  /\ dpc = "get" => event["announceData"] > 0

LEMMA CountTypes ==
  ASSUME TypeOK
  PROVE  /\ event["announceData"] \in Nat /\ Len(inMessages) \in Nat /\ InFlight \in {0, 1}
         /\ inMessages \in Seq(Frame)
  BY DEF TypeOK, Event, InFlight

\* A caller puts its frame and announces it.
LEMMA WriteCountInv ==
  ASSUME TypeOK, CountInv, NEW c \in Callers, CreateFrame(c) \/ FinishWrite(c)
  PROVE  CountInv'
  <1> DEFINE card == Cardinality(Announcing)
  <1>0. /\ event["announceData"] \in Nat /\ Len(inMessages) \in Nat /\ InFlight \in {0, 1}
        /\ card \in Nat /\ wpc \in [Callers -> {"idle", "put", "announce"}]
    BY CountTypes, FS_CardinalityType DEF CountInv, TypeOK
  <1>1. CASE CreateFrame(c)
    <2>1. wpc[c] = "idle" /\ wpc' = [wpc EXCEPT ![c] = "put"]
          /\ UNCHANGED <<event, inMessages, dpc>>
      BY <1>1 DEF CreateFrame, queueVars, devVars
    <2>2. Announcing' = Announcing
      BY <1>0, <2>1 DEF Announcing
    <2> QED BY <2>1, <2>2 DEF CountInv, InFlight
  <1>2. CASE PutFrame(c)
    <2>1. /\ wpc[c] = "put" /\ wpc' = [wpc EXCEPT ![c] = "announce"]
          /\ inMessages' = Append(inMessages, out[c])
          /\ UNCHANGED <<event, dpc>>
      BY <1>2 DEF PutFrame, devVars
    <2>2. Announcing' = Announcing \cup {c} /\ c \notin Announcing
      BY <1>0, <2>1 DEF Announcing
    <2>3. Len(inMessages') = Len(inMessages) + 1
      BY <2>1, CountTypes
    <2>4. IsFiniteSet(Announcing') /\ Cardinality(Announcing') = card + 1
      BY <2>2, FS_AddElement DEF CountInv
    <2>5. InFlight' = InFlight
      BY <2>1 DEF InFlight
    <2> HIDE DEF card
    <2>6. event'["announceData"] + Cardinality(Announcing') <= Len(inMessages') + InFlight'
      <3>1. event["announceData"] + card <= Len(inMessages) + InFlight
        BY DEF CountInv, card
      <3> QED BY <1>0, <2>1, <2>3, <2>4, <2>5, <3>1
    <2> QED BY <2>1, <2>4, <2>6 DEF CountInv
  <1>3. CASE AnnounceFrame(c)
    <2>1. /\ wpc[c] = "announce" /\ wpc' = [wpc EXCEPT ![c] = "idle"]
          /\ event' = [event EXCEPT !["announceData"] = @ + 1]
          /\ UNCHANGED <<inMessages, dpc>>
      BY <1>3 DEF AnnounceFrame, Signal, queueVars, devVars
    <2>2. Announcing' = Announcing \ {c} /\ c \in Announcing
      BY <1>0, <2>1 DEF Announcing
    <2>3. event'["announceData"] = event["announceData"] + 1
      BY <2>1, EventNames DEF TypeOK
    <2>4. IsFiniteSet(Announcing') /\ Cardinality(Announcing') = card - 1
      BY <2>2, FS_RemoveElement DEF CountInv
    <2>5. InFlight' = InFlight
      BY <2>1 DEF InFlight
    <2> HIDE DEF card
    <2>6. event'["announceData"] + Cardinality(Announcing') <= Len(inMessages') + InFlight'
      <3>1. event["announceData"] + card <= Len(inMessages) + InFlight
        BY DEF CountInv, card
      <3> QED BY <1>0, <2>1, <2>3, <2>4, <2>5, <3>1
    <2>7. event'["announceData"] > 0
      BY <1>0, <2>3
    <2> QED BY <2>4, <2>6, <2>7 DEF CountInv
  <1> QED BY <1>1, <1>2, <1>3 DEF FinishWrite

\* A step that leaves queue, announcements and callers alone.
LEMMA StaysCounted ==
  ASSUME CountInv, UNCHANGED <<wpc, inMessages>>,
         event'["announceData"] = event["announceData"], InFlight' = InFlight,
         dpc' = "get" => dpc = "get" \/ event["announceData"] > 0
  PROVE  CountInv'
  <1>1. Announcing' = Announcing
    BY DEF Announcing
  <1> QED BY <1>1 DEF CountInv

LEMMA DeviceThreadCountInv ==
  ASSUME TypeOK, CountInv, DeviceThread
  PROVE  CountInv'
  <1> DEFINE card == Cardinality(Announcing)
  <1>0. /\ event["announceData"] \in Nat /\ Len(inMessages) \in Nat /\ card \in Nat
        /\ event \in [Event -> Nat] /\ inMessages \in Seq(Frame)
    BY CountTypes, FS_CardinalityType DEF CountInv, TypeOK
  <1>1. CASE DevGet
    <2>1. /\ dpc = "get" /\ dpc' \in {"write", "reset"} /\ UNCHANGED <<event, wpc>>
          /\ inMessages' \in {inMessages, Tail(inMessages)}
          /\ inMessages' = Tail(inMessages) => inMessages # <<>> \/ inMessages' = inMessages
      BY <1>1 DEF DevGet, DevGoto, userVars
    <2>2. InFlight = 0 /\ InFlight' = 1 /\ Announcing' = Announcing
      BY <2>1 DEF InFlight, Announcing
    <2>3. Len(inMessages') = Len(inMessages) \/ Len(inMessages') = Len(inMessages) - 1
      BY <1>0, <2>1
    <2> HIDE DEF card
    <2>4. event'["announceData"] + card <= Len(inMessages') + InFlight'
      <3>1. event["announceData"] + card <= Len(inMessages) + InFlight
        BY DEF CountInv, card
      <3> QED BY <1>0, <2>1, <2>2, <2>3, <3>1
    <2> QED BY <2>1, <2>2, <2>4 DEF CountInv, card
  <1>2. CASE DevReset
    <2>1. /\ dpc = "reset" /\ dpc' = "poll" /\ UNCHANGED <<inMessages, wpc>>
          /\ event["announceData"] > 0
          /\ event' = [event EXCEPT !["announceData"] = @ - 1]
      BY <1>2 DEF DevReset, DevGoto, Reset, queueVars, userVars
    <2>2. InFlight = 1 /\ InFlight' = 0 /\ Announcing' = Announcing
      BY <2>1 DEF InFlight, Announcing
    <2>3. event'["announceData"] = event["announceData"] - 1
      BY <1>0, <2>1, EventNames
    <2> HIDE DEF card
    <2>4. event'["announceData"] + card <= Len(inMessages') + InFlight'
      <3>1. event["announceData"] + card <= Len(inMessages) + InFlight
        BY DEF CountInv, card
      <3> QED BY <1>0, <2>1, <2>2, <2>3, <3>1
    <2> QED BY <2>1, <2>2, <2>4 DEF CountInv, card
  <1>3. CASE ~DevGet /\ ~DevReset
    <2> SUFFICES /\ UNCHANGED <<wpc, inMessages>>
                 /\ event'["announceData"] = event["announceData"] /\ InFlight' = InFlight
                 /\ dpc' = "get" => dpc = "get" \/ event["announceData"] > 0
      BY StaysCounted
    <2> USE <1>0 DEF queueVars, userVars, InFlight, DevGoto, Signal, Reset, Event
    <2>1. CASE DevCreateAckThread \/ DevStart \/ DevPollStop
      BY <2>1 DEF DevCreateAckThread, DevStart, DevPollStop
    <2>6. CASE DevStartFails \/ DevPollFails
      BY <2>6 DEF DevStartFails, DevPollFails
    <2>2. CASE DevRead \/ DevPollSend
      BY <2>2 DEF DevRead, DevPollSend, IsSet
    <2>3. CASE DevWrite
      BY <2>3 DEF DevWrite
    <2>4. CASE DevLock \/ DevArm
      BY <2>4 DEF DevLock, DevArm
    <2>5. CASE DevJoinAckThread \/ DevResetStop
      BY <2>5 DEF DevJoinAckThread, DevResetStop
    <2> QED BY <1>3, <2>1, <2>2, <2>3, <2>4, <2>5, <2>6 DEF DeviceThread
  <1> QED BY <1>1, <1>2, <1>3

LEMMA AckThreadCountInv ==
  ASSUME TypeOK, CountInv, NEW a \in Acker, AckThread(a)
  PROVE  CountInv'
  <1>0. event \in [Event -> Nat]
    BY DEF TypeOK
  <1> SUFFICES UNCHANGED <<wpc, inMessages, dpc, event["announceData"]>>
    BY StaysCounted DEF InFlight
  <1> USE <1>0 DEF queueVars, devVars, userVars, Reset, Event, AckKeeps
  <1>1. CASE AckStop(a) \/ AckWaitFails(a) \/ AckStart(a) \/ AckReceived(a)
               \/ AckTimeout(a)
    BY <1>1 DEF AckStop, AckWaitFails, AckStart, AckReceived, AckTimeout
  <1>2. CASE AckResend(a) \/ AckResendFails(a) \/ AckPollFails(a) \/ AckResetAck(a)
    BY <1>2 DEF AckResend, AckResendFails, AckPollFails, AckResetAck
  <1>3. CASE AckRelease(a) \/ AckDestroy(a) \/ AckReset(a)
    BY <1>3 DEF AckRelease, AckDestroy, AckReset
  <1> QED BY <1>1, <1>2, <1>3 DEF AckThread

\* Only a device whose thread has ended is opened, so no frame in hand is forgotten.
LEMMA LifecycleCountInv ==
  ASSUME LockInv, CountInv, Lifecycle
  PROVE  CountInv'
  <1>0. event \in [Event -> Nat]
    BY DEF LockInv, TypeOK
  <1> SUFFICES /\ UNCHANGED <<wpc, inMessages, event["announceData"]>>
               /\ InFlight' = InFlight /\ (dpc' = "get" => dpc = "get")
    BY StaysCounted
  <1> USE <1>0 DEF queueVars, devVars, userVars, Signal, Event, InFlight, DevGoto
  <1>1. CASE OpenPhysicalDevice
    BY <1>1 DEF OpenPhysicalDevice, LockInv, Threads, ThreadEnded
  <1>2. CASE ClosePhysicalDevice
    BY <1>2 DEF ClosePhysicalDevice
  <1>3. CASE CloseJoin
    BY <1>3 DEF CloseJoin
  <1>4. CASE ClearLock \/ ClearUnlock \/ DestroyPhysicalDevice
    BY <1>4 DEF ClearLock, ClearUnlock, DestroyPhysicalDevice
  <1> QED BY <1>1, <1>2, <1>3, <1>4 DEF Lifecycle

LEMMA FramerCountInv ==
  ASSUME TypeOK, CountInv, Framer
  PROVE  CountInv'
  <1>0. event \in [Event -> Nat] /\ "framer" \in Callers
    BY DEF TypeOK, Callers
  <1>1. CASE UNCHANGED <<wpc, inMessages, dpc, event["announceData"]>>
    BY <1>1, StaysCounted DEF InFlight
  <1>2. CASE CreateFrame("framer") \/ FinishWrite("framer")
    BY <1>0, <1>2, WriteCountInv
  <1>3. CASE FramerTake \/ FramerLock \/ SendFsciAck \/ FramerUnlock
    BY <1>1, <1>3 DEF FramerTake, FramerLock, SendFsciAck, FramerUnlock, queueVars, devVars, userVars
  <1>4. CASE FramerSignalTxAck
    BY <1>0, <1>1, <1>4 DEF FramerSignalTxAck, Signal, Event, queueVars, devVars, userVars
  <1>5. CASE FramerNotify
    BY <1>1, <1>2, <1>5 DEF FramerNotify, deviceVars, queueVars, devVars, userVars
  <1>6. CASE FramerObserver
    BY <1>1, <1>2, <1>6 DEF FramerObserver, deviceVars, queueVars, devVars, userVars
  <1> QED BY <1>3, <1>4, <1>5, <1>6 DEF Framer

LEMMA NextCountInv ==
  ASSUME LockInv, CountInv, [Next]_vars
  PROVE  CountInv'
  <1>0. TypeOK
    BY DEF LockInv
  <1>1. ASSUME UNCHANGED <<wpc, inMessages, dpc, event>> PROVE CountInv'
    BY <1>1, StaysCounted DEF InFlight
  <1>2. CASE Host
    BY <1>0, <1>2, WriteCountInv, DeviceThreadCountInv, AckThreadCountInv DEF Host, Callers
  <1>3. CASE Lifecycle
    BY <1>3, LifecycleCountInv
  <1>4. CASE Framer
    BY <1>0, <1>4, FramerCountInv
  <1>5. CASE Board
    BY <1>1, <1>5 DEF Board, queueVars, devVars, userVars
  <1>6. CASE UNCHANGED vars
    BY <1>1, <1>6 DEF vars, deviceVars, queueVars, devVars, userVars
  <1> QED BY <1>2, <1>3, <1>4, <1>5, <1>6 DEF Next

LEMMA CountInvariance == Spec => []CountInv
  <1>1. Init => CountInv
    <2> SUFFICES ASSUME Init PROVE CountInv
      OBVIOUS
    <2>1. Announcing = {} /\ event["announceData"] = 0 /\ inMessages = <<>> /\ dpc = "off"
      BY DEF Init, DeviceInit, Announcing, Event
    <2>2. IsFiniteSet(Announcing) /\ Cardinality(Announcing) = 0
      BY <2>1, FS_EmptySet
    <2> QED BY <2>1, <2>2 DEF CountInv, InFlight
  <1>2. LockInv /\ CountInv /\ [Next]_vars => CountInv'
    BY NextCountInv
  <1> QED BY <1>1, <1>2, LockInvariance, PTL DEF Spec

\* However many callers put and announce their frames, and however often the device is
\* closed and opened between, no frame is announced that is neither in the queue nor in
\* the hands of the device thread.
THEOREM AnnouncedCorrect == Spec => []AnnouncedIsQueued
  <1>1. TypeOK /\ CountInv => AnnouncedIsQueued
    <2> SUFFICES ASSUME TypeOK, CountInv PROVE AnnouncedIsQueued
      OBVIOUS
    <2>1. Cardinality(Announcing) \in Nat
      BY FS_CardinalityType DEF CountInv
    <2>2. event["announceData"] <= Len(inMessages) + InFlight
      BY <2>1, CountTypes DEF CountInv
    <2> QED BY <2>2 DEF AnnouncedIsQueued, InFlight
  <1> QED BY <1>1, CountInvariance, TypeCorrect, PTL

\* MessageQueueGet never comes back empty-handed: the branch of DeviceThreadRoutine for
\* a queue without a frame is not reached.
THEOREM GetFindsFrame == Spec => [](dpc = "get" => inMessages # <<>>)
  <1>1. TypeOK /\ CountInv => (dpc = "get" => inMessages # <<>>)
    <2> SUFFICES ASSUME TypeOK, CountInv, dpc = "get" PROVE inMessages # <<>>
      OBVIOUS
    <2>1. Cardinality(Announcing) \in Nat
      BY FS_CardinalityType DEF CountInv
    <2>2. Len(inMessages) > 0
      BY <2>1, CountTypes DEF CountInv, InFlight
    <2> QED BY <2>2
  <1> QED BY <1>1, CountInvariance, TypeCorrect, PTL

-----------------------------------------------------------------------------
(* With TX acknowledgements on, the link implements StopAndWait.  A frame  *)
(* put is submitted; it is current from the Get of the device thread until *)
(* WaitACK releases the lock; writing it and resending it are the sends;   *)
(* every other step is a stutter of StopAndWait.                           *)
(*                                                                         *)
(* What is in transmission.                                                *)

\* Whoever has the frame in transmission has a frame, and WaitACK has retries left
\* while it waits and when it resends.
TransmissionOK ==
  /\ InDevice => tx \in Frame
  /\ Armed = 1 \/ Waiting => lastTx \in Frame
  /\ \A a \in Acker : Waits(a) => retriesLeft[a] \in 0 .. NumberOfRetries
  /\ \A a \in Acker : apc[a] \in {"poll", "resend"} => retriesLeft[a] > 0

SendInv == LockInv /\ TransmissionOK

AckedLink == TxAck /\ NumberOfRetries > 0

\* The retries left to the WaitACK that waits.
Left == retriesLeft[CHOOSE a \in Acker : Waits(a)]

LEMMA SendsIs ==
  Sends = IF dpc = "write" THEN 0
          ELSE IF InDevice \/ Armed = 1 THEN 1
          ELSE IF ~Waiting THEN 0 ELSE 1 + NumberOfRetries - Left
  BY DEF Sends, Left

LEMMA SendsThen ==
  Sends' = IF dpc' = "write" THEN 0
           ELSE IF InDevice' \/ Armed' = 1 THEN 1
           ELSE IF ~Waiting' THEN 0 ELSE 1 + NumberOfRetries - Left'
  BY DEF Sends, Left

LEMMA LeftIs ==
  ASSUME Threads, ~doubled, NEW a \in Acker, Waits(a)
  PROVE  Left = retriesLeft[a]
  <1>1. \A b \in Acker : Waits(b) => b = a
    BY DEF Threads, OneBusy, Busy
  <1>2. (CHOOSE b \in Acker : Waits(b)) = a
    <2> HIDE DEF Waits
    <2> QED BY <1>1
  <1> QED BY <1>2 DEF Left

LEMMA LeftThen ==
  ASSUME Threads', ~doubled', NEW a \in Acker, Waits(a)'
  PROVE  Left' = retriesLeft'[a]
  <1>1. \A b \in Acker : Waits(b)' => b = a
    BY DEF Threads, OneBusy, Busy
  <1>2. \A b \in Acker : apc'[b] \in {"poll", "resend", "resetAck", "release", "giveUp"}
                           => b = a
    BY <1>1 DEF Waits
  <1> DEFINE P(b) == apc'[b] \in {"poll", "resend", "resetAck", "release", "giveUp"}
  <1>3. P(a) /\ \A b \in Acker : P(b) => b = a
    BY <1>2 DEF Waits
  <1> HIDE DEF P
  <1>4. (CHOOSE b \in Acker : P(b)) = a
    BY <1>3
  <1>5. Left' = retriesLeft'[CHOOSE b \in Acker : P(b)]
    BY DEF Left, Waits, P
  <1> QED BY <1>4, <1>5

\* A step that changes nothing of what is in transmission.
LEMMA SameTransmission ==
  ASSUME SendInv, Threads', ~doubled, ~doubled',
         UNCHANGED <<tx, lastTx, retriesLeft>>, Armed' = Armed,
         InDevice' <=> InDevice, dpc' = "write" <=> dpc = "write",
         Waiting' <=> Waiting, \A b \in Acker : Waits(b)' <=> Waits(b),
         \A b \in Acker : apc'[b] \in {"poll", "resend"}
                            => apc[b] \in {"poll", "resend"}
  PROVE  TransmissionOK' /\ Current' = Current /\ Sends' = Sends
  <1>1. TransmissionOK'
    BY DEF SendInv, TransmissionOK
  <1>2. Current' = Current
    BY DEF Current
  <1>3. CASE ~Waiting
    BY <1>1, <1>2, <1>3, SendsIs, SendsThen
  <1>4. CASE Waiting
    <2>1. PICK a \in Acker : Waits(a)
      BY <1>4 DEF Waiting
    <2>2. Left = retriesLeft[a] /\ Left' = retriesLeft'[a]
      BY <2>1, LeftIs, LeftThen DEF SendInv, LockInv
    <2> QED BY <1>1, <1>2, <1>4, <2>2, SendsIs, SendsThen
  <1> QED BY <1>1, <1>2, <1>3, <1>4

\* A step of another thread than WaitACK.
LEMMA SameView ==
  ASSUME SendInv, Threads', ~doubled, ~doubled',
         UNCHANGED apc \/ DevCreateAckThread,
         event'["startAck"] = event["startAck"],
         UNCHANGED <<tx, lastTx, retriesLeft>>,
         InDevice' <=> InDevice, dpc' = "write" <=> dpc = "write"
  PROVE  TransmissionOK' /\ Current' = Current /\ Sends' = Sends
  <1>1. (Waiting' <=> Waiting) /\ Armed' = Armed
    BY SameArmed DEF SendInv
  <1>2. \A b \in Acker : Waits(b)' <=> Waits(b)
    BY OthersWork DEF SendInv, LockInv, Threads
  <1>3. \A b \in Acker : apc'[b] \in {"poll", "resend"}
                            => apc[b] \in {"poll", "resend"}
    BY DEF DevCreateAckThread, SendInv, LockInv, TypeOK
  <1> QED BY <1>1, <1>2, <1>3, SameTransmission

LEMMA Stutters ==
  ASSUME SendInv, Threads', ~doubled, ~doubled',
         UNCHANGED apc \/ DevCreateAckThread,
         event'["startAck"] = event["startAck"],
         UNCHANGED <<inMessages, tx, lastTx, retriesLeft>>,
         InDevice' <=> InDevice, dpc' = "write" <=> dpc = "write"
  PROVE  TransmissionOK' /\ [SAW!Next]_SAW!vars
  BY SameView DEF SAW!vars

LEMMA WriteImplements ==
  ASSUME SendInv, Threads', ~doubled, ~doubled',
         NEW c \in Callers, CreateFrame(c) \/ FinishWrite(c)
  PROVE  TransmissionOK' /\ [SAW!Next]_SAW!vars
  <1>0. /\ UNCHANGED <<dpc, tx, apc, retriesLeft, lastTx>>
        /\ event'["startAck"] = event["startAck"]
        /\ (InDevice' <=> InDevice) /\ (dpc' = "write" <=> dpc = "write")
    <2>1. event'["startAck"] = event["startAck"]
      BY DEF CreateFrame, FinishWrite, PutFrame, AnnounceFrame, Signal, SendInv,
             LockInv, TypeOK, Event
    <2> QED BY <2>1, WriteKeeps DEF InDevice
  <1>1. CASE PutFrame(c)
    <2>1. TransmissionOK' /\ Current' = Current /\ Sends' = Sends
      BY <1>0, SameView
    <2>2. out[c] \in Frame /\ inMessages' = Append(inMessages, out[c])
      BY <1>1 DEF PutFrame, SendInv, LockInv, TypeOK
    <2>3. SAW!Submit(out[c])
      BY <2>1, <2>2 DEF SAW!Submit
    <2> QED BY <2>1, <2>2, <2>3 DEF SAW!Next
  <1>2. CASE CreateFrame(c) \/ AnnounceFrame(c)
    <2>1. UNCHANGED inMessages
      BY <1>2 DEF CreateFrame, AnnounceFrame, queueVars
    <2> QED BY <1>0, <2>1, Stutters
  <1> QED BY <1>1, <1>2 DEF FinishWrite

LEMMA DeviceThreadImplements ==
  ASSUME SendInv, LockInv', AckedLink, ~doubled, ~doubled', DeviceThread
  PROVE  TransmissionOK' /\ [SAW!Next]_SAW!vars
  <1>0. /\ event["startAck"] \in Nat /\ event \in [Event -> Nat]
        /\ inMessages \in Seq(Frame) /\ 0 \notin Frame
        /\ Threads' /\ TypeOK' /\ LockInv
    <2>1. TypeOK /\ Threads' /\ TypeOK' /\ LockInv
      BY DEF SendInv, LockInv
    <2>2. event \in [Event -> Nat] /\ inMessages \in Seq(Frame)
      BY <2>1 DEF TypeOK
    <2> QED BY <2>1, <2>2, StartAckType DEF Frame
  <1>c. UNCHANGED <<apc, retriesLeft>> \/ DevCreateAckThread
    BY DEF DeviceThread, DevStart, DevStartFails, DevPollFails,
           DevPollStop, DevRead, DevPollSend, DevGet, DevWrite, DevLock, DevArm,
           DevReset, DevJoinAckThread, DevResetStop, ackVars
  <1>h. LockHandover /\ LockHandover' /\ TransmissionOK
    BY DEF SendInv, LockInv, Locks
  <1>1. CASE DevGet
    <2>1. /\ dpc = "get" /\ lock = "free" /\ UNCHANGED <<lock, lastTx, apc, retriesLeft, event>>
      BY <1>1 DEF DevGet, DevGoto, heapVars, ackVars
    <2>2. ~Waiting /\ Armed # 1 /\ ~InDevice
      BY <1>h, <2>1 DEF LockHandover, InDevice
    <2>3. ~Waiting' /\ Armed' # 1
      BY <1>h, <2>1 DEF LockHandover
    <2>4. CASE inMessages # <<>> /\ dpc' = "write" /\ tx' = Head(inMessages)
                /\ inMessages' = Tail(inMessages)
      <3>1. tx' \in Frame
        BY <1>0, <2>4
      <3>2. TransmissionOK'
        BY <1>h, <2>1, <2>3, <2>4, <3>1 DEF TransmissionOK, Waits
      <3>3. Current = NoFrame /\ Current' = tx' /\ Sends' = 0
        BY <2>2, <2>4, SendsThen DEF Current, InDevice
      <3>4. SAW!Begin
        BY <2>4, <3>3 DEF SAW!Begin
      <3> QED BY <3>2, <3>4 DEF SAW!Next
    <2>5. CASE dpc' = "reset" /\ UNCHANGED <<tx, inMessages>>
      <3>1. (InDevice' <=> InDevice) /\ (dpc' = "write" <=> dpc = "write")
        BY <2>1, <2>5 DEF InDevice
      <3> QED BY <1>0, <2>1, <2>5, <3>1, Stutters
    <2> QED BY <1>1, <2>4, <2>5 DEF DevGet, DevGoto
  <1>2. CASE DevWrite
    <2>1. /\ dpc = "write" /\ dpc' = "lock" /\ UNCHANGED lock
          /\ UNCHANGED <<inMessages, tx, lastTx, apc, retriesLeft, event>>
      BY <1>2 DEF DevWrite, DevGoto, queueVars, ackVars, AckedLink
    <2>2. InDevice /\ InDevice' /\ tx \in Frame
      BY <1>h, <2>1 DEF TransmissionOK, InDevice
    <2>3. (Waiting' <=> Waiting) /\ Armed' = Armed
      BY <1>0, <2>1, SameArmed
    <2>4. TransmissionOK'
      BY <1>h, <2>1, <2>2, <2>3 DEF TransmissionOK, Waits
    <2>5. Current' = tx /\ Current = tx /\ Sends = 0 /\ Sends' = 1
      BY <2>1, <2>2, SendsIs, SendsThen DEF Current
    <2>6. SAW!Send
      BY <1>0, <2>1, <2>2, <2>5, DeviceAssumption DEF SAW!Send, NoFrame
    <2> QED BY <2>4, <2>6 DEF SAW!Next
  <1>3. CASE DevArm
    <2>1. /\ dpc = "arm" /\ dpc' = "reset" /\ lastTx' = tx
          /\ UNCHANGED <<lock, inMessages, tx, apc, retriesLeft>>
      BY <1>3 DEF DevArm, DevGoto, queueVars, ackVars
    <2>2. ~Waiting /\ ~(Armed = 1) /\ lock = "tx" /\ InDevice /\ ~InDevice' /\ tx \in Frame
      BY <1>h, <2>1 DEF LockHandover, TransmissionOK, InDevice
    <2>3. ~Waiting'
      BY <1>0, <2>1, <2>2, OthersArmed
    <2>4. Armed' = 1
      BY <1>h, <2>1, <2>2, <2>3 DEF LockHandover
    <2>5. TransmissionOK'
      BY <1>h, <2>1, <2>2, <2>3 DEF TransmissionOK, Waits
    <2>6. Current' = Current /\ Sends' = Sends
      BY <2>1, <2>2, <2>4, SendsIs, SendsThen DEF Current
    <2> QED BY <2>1, <2>5, <2>6 DEF SAW!vars
  <1>4. CASE ~DevGet /\ ~DevWrite /\ ~DevArm
    <2>1. /\ event'["startAck"] = event["startAck"]
          /\ UNCHANGED <<inMessages, tx, lastTx, retriesLeft>>
      BY <1>0, <1>4 DEF DeviceThread, DevCreateAckThread, DevStart, DevStartFails,
           DevPollFails, DevPollStop, DevRead, DevPollSend, DevLock, DevReset,
           DevJoinAckThread, DevResetStop, Signal, Reset, Event, queueVars, heapVars,
           ackVars
    <2>2. (InDevice' <=> InDevice) /\ (dpc' = "write" <=> dpc = "write")
      BY <1>4 DEF DeviceThread, DevCreateAckThread, DevStart, DevStartFails,
           DevPollFails, DevPollStop, DevRead, DevPollSend, DevLock, DevReset,
           DevJoinAckThread, DevResetStop, DevGoto, InDevice
    <2> QED BY <1>0, <1>c, <2>1, <2>2, Stutters
  <1> QED BY <1>1, <1>2, <1>3, <1>4

LEMMA GotoIs ==
  ASSUME TypeOK, NEW a \in Acker, NEW from, NEW to, AckGoto(a, from, to)
  PROVE  apc[a] = from /\ apc'[a] = to
  BY AckMoves DEF AckGoto

LEMMA AckThreadImplements ==
  ASSUME SendInv, LockInv', AckedLink, ~doubled, ~doubled', NEW a \in Acker, AckThread(a)
  PROVE  TransmissionOK' /\ [SAW!Next]_SAW!vars
  <1>0. /\ event["startAck"] \in Nat /\ event \in [Event -> Nat] /\ 0 \notin Frame
        /\ NumberOfRetries \in 1 .. 255 /\ retriesLeft \in [Acker -> 0 .. 255]
        /\ Threads' /\ Threads /\ TypeOK' /\ TypeOK /\ LockInv
    <2>1. Threads' /\ Threads /\ TypeOK' /\ TypeOK /\ LockInv
      BY DEF SendInv, LockInv
    <2>2. event \in [Event -> Nat] /\ retriesLeft \in [Acker -> 0 .. 255]
      BY <2>1 DEF TypeOK
    <2>3. NumberOfRetries \in 1 .. 255
      BY DeviceAssumption DEF AckedLink
    <2> QED BY <2>1, <2>2, <2>3, StartAckType DEF Frame
  <1>h. LockHandover /\ LockHandover' /\ TransmissionOK
    BY DEF SendInv, LockInv, Locks
  <1>i. /\ UNCHANGED <<dpc, tx, lastTx, inMessages>>
        /\ (InDevice' <=> InDevice) /\ (dpc' = "write" <=> dpc = "write")
    <2>1. UNCHANGED <<dpc, tx, lastTx, inMessages>>
      <3> USE DEF AckKeeps, queueVars, devVars, heapVars
      <3>1. CASE AckStart(a)
        BY <3>1 DEF AckStart
      <3>2. CASE ~AckStart(a)
        BY <3>2 DEF AckThread, AckStop, AckWaitFails, AckReceived, AckTimeout,
                    AckResend, AckResendFails, AckPollFails, AckResetAck, AckRelease,
                    AckDestroy, AckReset
      <3> QED BY <3>1, <3>2
    <2> QED BY <2>1 DEF InDevice
  <1>1. CASE AckStop(a) \/ AckWaitFails(a)
    <2>1. /\ apc[a] = "wait" /\ apc' = [apc EXCEPT ![a] = "off"]
          /\ UNCHANGED <<event, retriesLeft>>
      BY <1>1 DEF AckStop, AckWaitFails, AckGoto
    <2>2. /\ \A b \in Acker : (Waits(b)' <=> Waits(b))
          /\ (Waiting' <=> Waiting) /\ (SomeBusy' <=> SomeBusy)
      BY <1>0, <2>1, SameWork
    <2>3. Armed' = Armed
      BY <2>1, <2>2, ArmedIs, ArmedThen
    <2>4. \A b \in Acker : apc'[b] \in {"poll", "resend"}
                             => apc[b] \in {"poll", "resend"}
      BY <1>0, <2>1, AckMoves
    <2>5. TransmissionOK' /\ Current' = Current /\ Sends' = Sends
      BY <1>0, <1>i, <2>1, <2>2, <2>3, <2>4, SameTransmission
    <2> QED BY <1>i, <2>5 DEF SAW!vars
  <1>2. CASE AckStart(a)
    <2>1. /\ apc[a] = "wait" /\ apc' = [apc EXCEPT ![a] = "poll"]
          /\ retriesLeft' = [retriesLeft EXCEPT ![a] = NumberOfRetries]
          /\ UNCHANGED <<lock, event>> /\ event["startAck"] > 0
      BY <1>2 DEF AckStart, AckGoto, IsSet, queueVars
    <2>2. ~Waiting /\ ~SomeBusy /\ Waiting' /\ SomeBusy'
      BY <1>0, <1>2, BeginsAlone
    <2>3. Armed = event["startAck"] - 0
      BY <2>2, ArmedIs
    <2>4. Armed = 1 /\ lock = "tx"
      BY <1>0, <1>h, <2>1, <2>3 DEF LockHandover
    <2>5. ~(Armed' = 1)
      BY <1>h, <2>2 DEF LockHandover
    <2>6. ~InDevice /\ ~InDevice' /\ dpc # "write" /\ dpc' # "write"
      BY <1>0, <1>h, <1>i, <2>4 DEF LockHandover, LockInv, Locks, NotYetLocked, InDevice
    <2>7. retriesLeft'[a] = NumberOfRetries /\ Waits(a)'
      BY <1>0, <2>1, AckMoves DEF Waits
    <2>8. TransmissionOK'
      <3>1. \A b \in Acker : Waits(b)' => b = a
        <4>1. \A b \in Acker : b # a => apc'[b] = apc[b]
          BY <1>0, <2>1, AckMoves
        <4> QED BY <2>2, <4>1 DEF Waiting, Waits
      <3>2. \A b \in Acker : apc'[b] \in {"poll", "resend"} => b = a
        BY <3>1 DEF Waits
      <3>3. lastTx \in Frame
        BY <1>h, <2>4 DEF TransmissionOK
      <3> QED BY <1>0, <1>i, <2>6, <2>7, <3>1, <3>2, <3>3 DEF TransmissionOK
    <2>9. Left' = NumberOfRetries
      BY <1>0, <2>7, LeftThen
    <2>10. Sends = 1 /\ Sends' = 1
      <3>1. Sends' = 1 + NumberOfRetries - NumberOfRetries
        BY <2>2, <2>5, <2>6, <2>9, SendsThen
      <3>2. Sends = 1
        BY <2>4, <2>6, SendsIs
      <3> QED BY <1>0, <3>1, <3>2
    <2>11. Current' = Current
      BY <1>i, <2>2, <2>4, <2>6 DEF Current
    <2> QED BY <1>i, <2>8, <2>10, <2>11 DEF SAW!vars
  <1>3. CASE Busy(a) /\ UNCHANGED doubled
    <2>0. PICK x \in AckPlace : apc[a] # "off" /\ apc' = [apc EXCEPT ![a] = x]
      BY AckSteps
    <2>1. /\ SomeBusy /\ (Waiting <=> Waits(a))
          /\ (SomeBusy' <=> Busy(a)') /\ (Waiting' <=> Waits(a)')
      BY <1>0, <1>3, <2>0, OneWorks DEF Threads
    <2>2. apc'[a] = x /\ \A b \in Acker : b # a => apc'[b] = apc[b]
      BY <1>0, <2>0, AckMoves
    <2>3. CASE AckReset(a)
      <3>1. /\ apc[a] = "reset" /\ x = "wait" /\ UNCHANGED retriesLeft
            /\ event'["startAck"] = event["startAck"] - 1
        <4>1. apc[a] = "reset" /\ apc'[a] = "wait" /\ UNCHANGED retriesLeft
          BY <1>0, <2>3, GotoIs DEF AckReset
        <4>2. event' = [event EXCEPT !["startAck"] = event["startAck"] - 1]
          BY <2>3 DEF AckReset, Reset
        <4> QED BY <1>0, <2>2, <4>1, <4>2, EventNames
      <3>2. ~SomeBusy'
        BY <2>1, <2>2, <3>1 DEF Waits, Busy
      <3>3. Armed' = Armed
        <4>1. Armed = event["startAck"] - 1 /\ Armed' = event'["startAck"] - 0
          BY <2>1, <3>2, ArmedIs, ArmedThen
        <4> QED BY <1>0, <3>1, <4>1
      <3>4. ~Waits(a) /\ ~Waits(a)'
        BY <2>2, <3>1 DEF Waits
      <3>5. /\ \A b \in Acker : (Waits(b)' <=> Waits(b))
            /\ \A b \in Acker : apc'[b] \in {"poll", "resend"}
                                  => apc[b] \in {"poll", "resend"}
        BY <2>2, <3>1, <3>4 DEF Waits
      <3>6. TransmissionOK' /\ Current' = Current /\ Sends' = Sends
        BY <1>0, <1>i, <2>1, <3>1, <3>3, <3>4, <3>5, SameTransmission
      <3> QED BY <1>i, <3>6 DEF SAW!vars
    <2>4. CASE Waits(a)
      <3>1. Waiting /\ lock = "tx" /\ ~(Armed = 1)
        BY <1>h, <2>1, <2>4 DEF LockHandover
      <3>2. ~InDevice /\ ~InDevice' /\ dpc # "write" /\ dpc' # "write"
        BY <1>0, <1>h, <1>i, <3>1 DEF LockHandover, LockInv, Locks, NotYetLocked, InDevice
      <3>3. Left = retriesLeft[a]
        BY <1>0, <2>4, LeftIs
      <3>4. lastTx \in Frame /\ retriesLeft[a] \in 0 .. NumberOfRetries
        BY <1>h, <2>4, <3>1 DEF TransmissionOK
      <3>5. Current = lastTx /\ Sends = 1 + NumberOfRetries - retriesLeft[a]
        BY <3>1, <3>2, <3>3, SendsIs DEF Current
      <3>6. CASE AckRelease(a)
        <4>1. /\ x \in {"destroy", "reset"} /\ UNCHANGED <<event, retriesLeft>>
          <5>1. apc'[a] \in {"destroy", "reset"}
            BY <1>0, <3>6, GotoIs DEF AckRelease
          <5> QED BY <2>2, <3>6, <5>1 DEF AckRelease
        <4>2. ~Waits(a)' /\ ~Waiting' /\ SomeBusy'
          BY <2>1, <2>2, <4>1 DEF Waits, Busy
        <4>3. ~(Armed' = 1)
          <5>1. Armed = event["startAck"] - 1 /\ Armed' = event'["startAck"] - 1
            BY <2>1, <4>2, ArmedIs, ArmedThen
          <5> QED BY <3>1, <4>1, <5>1
        <4>4. TransmissionOK'
          BY <1>h, <1>i, <2>2, <3>2, <4>1, <4>2, <4>3 DEF TransmissionOK, Waits
        <4>5. Current' = NoFrame /\ Sends' = 0
          BY <3>2, <4>2, <4>3, SendsThen DEF Current
        <4>6. SAW!Finish
          BY <1>0, <1>i, <3>4, <3>5, <4>5 DEF SAW!Finish, NoFrame
        <4> QED BY <4>4, <4>6 DEF SAW!Next
      <3>7. CASE AckResend(a)
        <4>1. /\ apc[a] = "resend" /\ event' = event
              /\ retriesLeft' = [retriesLeft EXCEPT ![a] = Uint8(retriesLeft[a] - 1)]
              /\ x = IF retriesLeft'[a] = 0 THEN "giveUp" ELSE "poll"
          <5>1. apc[a] = "resend" /\ apc'[a] = IF retriesLeft'[a] = 0 THEN "giveUp" ELSE "poll"
            BY <1>0, <3>7, GotoIs DEF AckResend
          <5> QED BY <2>2, <3>7, <5>1 DEF AckResend
        <4>2. retriesLeft[a] \in 1 .. NumberOfRetries
          BY <1>h, <3>4, <4>1 DEF TransmissionOK
        <4>3. \A n \in 1 .. 255 : (n - 1) % 256 = n - 1
          OBVIOUS
        <4>4. retriesLeft'[a] = retriesLeft[a] - 1
          <5>1. Uint8(retriesLeft[a] - 1) = retriesLeft[a] - 1
            BY <1>0, <4>2, <4>3 DEF Uint8
          <5> QED BY <1>0, <4>1, <5>1
        <4>5. Waits(a)' /\ Waiting' /\ SomeBusy'
          BY <2>1, <2>2, <4>1 DEF Waits, Busy
        <4>6. ~(Armed' = 1)
          BY <1>h, <4>5 DEF LockHandover
        <4>7. TransmissionOK'
          <5>1. \A b \in Acker : Waits(b)' => b = a
            BY <1>0, <4>5 DEF Threads, OneBusy, Busy
          <5>2. \A b \in Acker : apc'[b] \in {"poll", "resend"} => b = a
            BY <5>1 DEF Waits
          <5>3. apc'[a] \in {"poll", "resend"} => retriesLeft'[a] # 0
            BY <2>2, <4>1
          <5>4. retriesLeft'[a] \in 0 .. NumberOfRetries
            BY <1>0, <4>2, <4>4
          <5> QED BY <1>i, <3>2, <3>4, <4>6, <5>1, <5>2, <5>3, <5>4 DEF TransmissionOK
        <4>8. Left' = retriesLeft'[a]
          BY <1>0, <4>5, LeftThen
        <4>9. Current' = lastTx /\ Sends' = 1 + NumberOfRetries - retriesLeft'[a]
          BY <1>i, <3>2, <4>5, <4>6, <4>8, SendsThen DEF Current
        <4>10. SAW!Send
          BY <1>0, <1>i, <3>4, <3>5, <4>2, <4>4, <4>9 DEF SAW!Send, NoFrame
        <4> QED BY <4>7, <4>10 DEF SAW!Next
      <3>8. CASE ~AckRelease(a) /\ ~AckResend(a)
        <4>1. /\ UNCHANGED <<event["startAck"], retriesLeft>>
              /\ Waits(a)' /\ (x \in {"poll", "resend"} => apc[a] = "poll")
          <5>1. CASE AckReceived(a) \/ AckTimeout(a) \/ AckResetAck(a)
            BY <1>0, <2>2, <5>1
            DEF AckReceived, AckTimeout, AckResetAck, AckGoto, Reset, Event, Waits,
                TypeOK
          <5>2. CASE AckResendFails(a) \/ AckPollFails(a)
            BY <1>0, <2>2, <5>2
            DEF AckResendFails, AckPollFails, AckGoto, AckKeeps, Waits, TypeOK
          <5>3. CASE AckDestroy(a) \/ AckReset(a) \/ AckStart(a) \/ AckStop(a)
                       \/ AckWaitFails(a)
            BY <2>4, <5>3
            DEF AckDestroy, AckReset, AckStart, AckStop, AckWaitFails, AckGoto, Waits
          <5> QED BY <3>8, <5>1, <5>2, <5>3 DEF AckThread
        <4>2. Waiting' /\ SomeBusy'
          BY <2>1, <4>1 DEF Busy
        <4>3. Armed' = Armed
          <5>1. Armed = event["startAck"] - 1 /\ Armed' = event'["startAck"] - 1
            BY <2>1, <4>2, ArmedIs, ArmedThen
          <5> QED BY <4>1, <5>1
        <4>4. /\ \A b \in Acker : (Waits(b)' <=> Waits(b))
              /\ \A b \in Acker : apc'[b] \in {"poll", "resend"}
                                    => apc[b] \in {"poll", "resend"}
          BY <2>2, <2>4, <4>1 DEF Waits
        <4>5. TransmissionOK' /\ Current' = Current /\ Sends' = Sends
          BY <1>0, <1>i, <3>1, <4>1, <4>2, <4>3, <4>4, SameTransmission
        <4> QED BY <1>i, <4>5 DEF SAW!vars
      <3> QED BY <3>6, <3>7, <3>8
    <2>5. CASE AckDestroy(a)
      <3>1. /\ apc[a] = "destroy" /\ x = "reset" /\ UNCHANGED <<event, retriesLeft>>
        <4>1. apc[a] = "destroy" /\ apc'[a] = "reset"
          BY <1>0, <2>5, GotoIs DEF AckDestroy
        <4> QED BY <2>2, <2>5, <4>1 DEF AckDestroy
      <3>2. ~Waits(a) /\ ~Waits(a)' /\ SomeBusy'
        BY <2>1, <2>2, <3>1 DEF Waits, Busy
      <3>3. Armed' = Armed
        BY <2>1, <3>1, <3>2, ArmedIs, ArmedThen
      <3>4. /\ \A b \in Acker : (Waits(b)' <=> Waits(b))
            /\ \A b \in Acker : apc'[b] \in {"poll", "resend"}
                                  => apc[b] \in {"poll", "resend"}
        BY <2>2, <3>1, <3>2 DEF Waits
      <3>5. TransmissionOK' /\ Current' = Current /\ Sends' = Sends
        BY <1>0, <1>i, <2>1, <3>1, <3>2, <3>3, <3>4, SameTransmission
      <3> QED BY <1>i, <3>5 DEF SAW!vars
    <2>6. Waits(a) \/ AckDestroy(a) \/ AckReset(a)
      BY <1>3 DEF Busy, Waits, AckThread, AckStop, AckWaitFails, AckStart, AckReceived,
                  AckTimeout, AckResend, AckResendFails, AckPollFails, AckResetAck,
                  AckRelease, AckGoto
    <2> QED BY <2>3, <2>4, <2>5, <2>6
  <1> QED BY <1>1, <1>2, <1>3, AckSteps

LEMMA LifecycleImplements ==
  ASSUME SendInv, LockInv', ~doubled, ~doubled', Lifecycle
  PROVE  TransmissionOK' /\ [SAW!Next]_SAW!vars
  <1>0. /\ event'["startAck"] = event["startAck"] /\ Threads'
        /\ UNCHANGED <<inMessages, apc, retriesLeft, tx, lastTx>>
    BY DEF SendInv, LockInv, TypeOK, Lifecycle, OpenPhysicalDevice,
           ClosePhysicalDevice, CloseJoin, ClearLock, ClearUnlock,
           DestroyPhysicalDevice, Signal, Event, ackVars, heapVars, queueVars, devVars
  <1>1. (InDevice' <=> InDevice) /\ (dpc' = "write" <=> dpc = "write")
    BY DEF SendInv, LockInv, Threads, ThreadEnded, Lifecycle, OpenPhysicalDevice,
           ClosePhysicalDevice, CloseJoin, ClearLock, ClearUnlock,
           DestroyPhysicalDevice, DevGoto, devVars, InDevice
  <1> QED BY <1>0, <1>1, Stutters

LEMMA FramerImplements ==
  ASSUME SendInv, LockInv', ~doubled, ~doubled', Framer
  PROVE  TransmissionOK' /\ [SAW!Next]_SAW!vars
  <1>0. /\ UNCHANGED <<dpc, tx, apc, retriesLeft, lastTx>> /\ Threads'
        /\ (InDevice' <=> InDevice) /\ (dpc' = "write" <=> dpc = "write")
        /\ "framer" \in Callers
    BY FramerKeeps DEF InDevice, LockInv, Callers
  <1>1. CASE CreateFrame("framer") \/ FinishWrite("framer")
    BY <1>0, <1>1, WriteImplements
  <1>2. CASE ~(CreateFrame("framer") \/ FinishWrite("framer"))
    <2>1. UNCHANGED inMessages /\ event'["startAck"] = event["startAck"]
      BY <1>2 DEF Framer, FramerTake, FramerLock, SendFsciAck, FramerUnlock,
                  FramerSignalTxAck, FramerNotify, FramerObserver, deviceVars,
                  queueVars, Signal, Event, SendInv, LockInv, TypeOK
    <2> QED BY <1>0, <2>1, Stutters
  <1> QED BY <1>1, <1>2

LEMMA NextImplements ==
  ASSUME SendInv, LockInv', AckedLink, ~doubled, ~doubled', [Next]_vars
  PROVE  TransmissionOK' /\ [SAW!Next]_SAW!vars
  <1>1. CASE Host
    BY <1>1, WriteImplements, DeviceThreadImplements, AckThreadImplements
    DEF Host, Callers, LockInv
  <1>2. CASE Lifecycle
    BY <1>2, LifecycleImplements
  <1>3. CASE Framer
    BY <1>3, FramerImplements
  <1>4. CASE Board \/ UNCHANGED vars
    <2>1. UNCHANGED <<inMessages, dpc, tx, lastTx, apc, retriesLeft, event>>
      BY <1>4 DEF Board, vars, deviceVars, queueVars, heapVars, devVars, ackVars
    <2>2. (InDevice' <=> InDevice) /\ (dpc' = "write" <=> dpc = "write")
      BY <2>1 DEF InDevice
    <2> QED BY <2>1, <2>2, Stutters DEF LockInv
  <1> QED BY <1>1, <1>2, <1>3, <1>4 DEF Next

LEMMA InitImplements ==
  ASSUME Init
  PROVE  TransmissionOK /\ SAW!Init
  <1>1. /\ event["startAck"] = 0 /\ dpc = "off" /\ inMessages = <<>>
        /\ \A a \in Acker : apc[a] = "off"
    BY DEF Init, DeviceInit, Event
  <1>2. ~InDevice /\ ~Waiting /\ Armed = 0 /\ \A a \in Acker : ~Waits(a)
    <2>1. \A a \in Acker : ~Busy(a) /\ ~Waits(a)
      BY <1>1 DEF Busy, Waits
    <2>2. ~SomeBusy /\ ~Waiting
      BY <2>1 DEF SomeBusy, Waiting
    <2>3. Armed = 0 - 0
      BY <1>1, <2>2, ArmedIs
    <2> QED BY <1>1, <2>1, <2>2, <2>3 DEF InDevice
  <1>3. Current = NoFrame /\ Sends = 0
    BY <1>1, <1>2, SendsIs DEF Current
  <1>4. TransmissionOK
    BY <1>1, <1>2 DEF TransmissionOK
  <1> QED BY <1>1, <1>3, <1>4 DEF SAW!Init

-----------------------------------------------------------------------------
(* The refinement.                                                         *)

LEMMA SendInvariance == AckedLink => (Spec /\ []~doubled => []SendInv)
  <1> SUFFICES ASSUME AckedLink PROVE Spec /\ []~doubled => []SendInv
    OBVIOUS
  <1>1. Init => TransmissionOK
    BY InitImplements
  <1>2. LockInv /\ LockInv' /\ ~doubled /\ ~doubled' /\ TransmissionOK /\ [Next]_vars
          => TransmissionOK'
    BY NextImplements DEF SendInv
  <1>3. LockInv /\ TransmissionOK => SendInv
    BY DEF SendInv
  <1> QED BY <1>1, <1>2, <1>3, LockInvariance, PTL DEF Spec

\* Whatever is lost, times out, fails, is closed or opened again, a link with TX ACK on
\* and at least one retry sends the frames in the order they were put, one at a time,
\* each once and at most NumberOfRetries times more before the next one is begun
\* (DeviceThreadRoutine, WaitACK), as long as no ACK wait is begun while two WaitACK
\* threads are there.
THEOREM Implementation ==
  TxAck /\ NumberOfRetries > 0
    => (Spec /\ []~doubled => ImplementsStopAndWait)
  <1> SUFFICES ASSUME AckedLink PROVE Spec /\ []~doubled => SAW!Spec
    BY DEF AckedLink, ImplementsStopAndWait
  <1>1. Init => SAW!Init
    BY InitImplements
  <1>2. SendInv /\ LockInv' /\ ~doubled /\ ~doubled' /\ [Next]_vars
          => [SAW!Next]_SAW!vars
    BY NextImplements
  <1> QED BY <1>1, <1>2, SendInvariance, LockInvariance, PTL DEF Spec, SAW!Spec

-----------------------------------------------------------------------------
(* When the reservation holds.  Two WaitACK threads act on one start event  *)
(* only after a failed call: not in a session, where the device is opened   *)
(* once, and not in any number of sessions in which no call fails.         *)

OpenedOnce == opens <= 1 /\ (status = "closed" => opens = 0) /\ ~doubled

LEMMA SessionSteps ==
  ASSUME TypeOK, Threads, OpenedOnce, [SessionNext]_vars
  PROVE  OpenedOnce'
  <1>0. opens \in Nat
    BY DEF TypeOK
  <1>1. ASSUME UNCHANGED <<opens, doubled, status>> PROVE OpenedOnce'
    BY <1>1 DEF OpenedOnce
  <1>2. ASSUME NEW c \in Callers, CreateFrame(c) \/ FinishWrite(c) PROVE OpenedOnce'
    BY <1>1, <1>2, WriteKeeps
  <1>3. CASE DeviceThread
    <2>1. UNCHANGED <<opens, doubled>> /\ status' \in {status, "error"}
      BY <1>3 DEF DeviceThread, DevCreateAckThread, DevStart, DevStartFails,
                  DevPollFails, DevPollStop, DevRead, DevPollSend, DevGet, DevWrite,
                  DevLock, DevArm, DevReset, DevJoinAckThread, DevResetStop, Errored,
                  ackVars, budgetVars
    <2> QED BY <2>1 DEF OpenedOnce
  <1>4. ASSUME NEW a \in Acker, AckThread(a) PROVE OpenedOnce'
    <2>1. CASE AckStart(a)
      <3>1. /\ apc[a] = "wait" /\ doubled' = (doubled \/ \E b \in Acker \ {a} : apc[b] # "off")
            /\ UNCHANGED <<opens, status>>
        BY <2>1 DEF AckStart, AckGoto, budgetVars
      <3>2. \A b \in Acker : b \in Nat \ {0} /\ (apc[b] # "off" => ~(b > opens))
        BY DeviceAssumption DEF Threads, Unborn, Acker
      <3>3. \A b \in Acker : apc[b] # "off" => b = 1
        BY <1>0, <3>2 DEF OpenedOnce
      <3>4. a = 1
        BY <3>1, <3>3
      <3> QED BY <3>1, <3>3, <3>4 DEF OpenedOnce
    <2>2. CASE ~AckStart(a)
      <3>1. UNCHANGED <<opens, doubled, status>>
        BY <1>4, <2>2 DEF AckThread, AckStop, AckWaitFails, AckReceived, AckTimeout,
             AckResend, AckResendFails, AckPollFails, AckResetAck, AckRelease,
             AckDestroy, AckReset, AckKeeps
      <3> QED BY <1>1, <3>1
    <2> QED BY <2>1, <2>2
  <1>5. CASE OpenPhysicalDevice
    BY <1>0, <1>5 DEF OpenPhysicalDevice, OpenedOnce, ackVars
  <1>6. CASE Framer
    BY <1>1, <1>6, FramerKeeps
  <1>7. CASE Board \/ UNCHANGED vars
    BY <1>1, <1>7 DEF Board, vars, deviceVars, ackVars, budgetVars
  <1> QED BY <1>2, <1>3, <1>4, <1>5, <1>6, <1>7 DEF SessionNext, Host, Callers

\* A session has one WaitACK at most, whatever fails in it.
THEOREM SessionAlone == SessionSpec => []~doubled
  <1>1. Init => OpenedOnce
    BY DEF Init, DeviceInit, OpenedOnce
  <1>2. TypeOK /\ Threads /\ OpenedOnce /\ [SessionNext]_vars => OpenedOnce'
    BY SessionSteps
  <1>3. LockInv => TypeOK /\ Threads
    BY DEF LockInv
  <1>4. OpenedOnce => ~doubled
    BY DEF OpenedOnce
  <1> QED
    BY <1>1, <1>2, <1>3, <1>4, LockInvariance, SessionsAreBehaviours, PTL
    DEF SessionSpec

\* In a session, whatever is lost, times out or fails, the link implements StopAndWait.
THEOREM SessionImplementation ==
  TxAck /\ NumberOfRetries > 0 => (SessionSpec => ImplementsStopAndWait)
  <1> SUFFICES ASSUME AckedLink PROVE SessionSpec => ImplementsStopAndWait
    BY DEF AckedLink
  <1>1. Spec /\ []~doubled => ImplementsStopAndWait
    BY Implementation DEF AckedLink
  <1> QED BY <1>1, SessionAlone, SessionsAreBehaviours, PTL

\* A WaitACK that the device thread which created it has left behind.
LeftBehind ==
  \E a \in Acker : apc[a] # "off" /\ (a # opens \/ dpc \in {"off", "exited"})

\* Without a failing call one is left behind only by a thread that was stopped before
\* it started.  Then the stop event stays set, so no thread gets to its loop again,
\* and no start event is ever signalled for the one left behind.
FaultFreeInv ==
  /\ ~doubled
  /\ ~TxAck => \A a \in Acker : apc[a] = "off"
  /\ dpc = "resetStop" => \A a \in Acker : a = opens => apc[a] = "off"
  /\ LeftBehind => /\ event["stopThread"] > 0
                   /\ dpc \in {"off", "create", "start", "exited"}
  /\ LeftBehind \/ dpc \in {"create", "start"} => event["startAck"] = 0 /\ ~SomeBusy

LEMMA FaultFreeKeeps ==
  ASSUME FaultFreeInv, TypeOK, UNCHANGED <<doubled, apc, opens, dpc>>,
         event'["startAck"] = event["startAck"],
         event'["stopThread"] >= event["stopThread"],
         event["stopThread"] \in Nat, event'["stopThread"] \in Nat
  PROVE  FaultFreeInv'
  <1>1. (SomeBusy' <=> SomeBusy) /\ (LeftBehind' <=> LeftBehind)
    BY DEF SomeBusy, Busy, Waits, LeftBehind
  <1> QED BY <1>1 DEF FaultFreeInv

LEMMA FaultFreeDevice ==
  ASSUME LockInv, TypeOK', MaxFaults = 0, FaultFreeInv, DeviceThread
  PROVE  FaultFreeInv'
  <1>0. /\ event \in [Event -> Nat] /\ event["stopThread"] \in Nat
        /\ event'["stopThread"] \in Nat /\ TypeOK /\ Unborn
        /\ faults \in Nat
    <2>1. event \in [Event -> Nat] /\ event' \in [Event -> Nat] /\ faults \in Nat
      BY DEF LockInv, TypeOK
    <2> QED BY <2>1, EventNames DEF LockInv, Threads
  <1>f. ~UseFault
    BY <1>0 DEF UseFault
  <1>1. CASE DevCreateAckThread
    <2>1. /\ dpc = "create" /\ dpc' = "start" /\ UNCHANGED <<event, doubled, opens>>
          /\ apc' = IF TxAck THEN [apc EXCEPT ![opens] = "wait"] ELSE apc
      BY <1>1 DEF DevCreateAckThread, DevGoto, budgetVars
    <2>2. SomeBusy' <=> SomeBusy
      BY <1>0, <1>1, OthersWork
    <2>3. \A a \in Acker : a # opens => apc'[a] = apc[a]
      BY <1>0, <2>1 DEF TypeOK
    <2>4. LeftBehind' => LeftBehind
      BY <2>1, <2>3 DEF LeftBehind
    <2> QED BY <2>1, <2>2, <2>4 DEF FaultFreeInv
  <1>2. CASE DevStart
    <2>1. /\ dpc = "start" /\ UNCHANGED <<event, doubled, opens, apc>>
          /\ dpc' = IF event["stopThread"] > 0 THEN "exited" ELSE "poll"
      BY <1>2 DEF DevStart, DevGoto, IsSet, ackVars, budgetVars
    <2>2. SomeBusy' <=> SomeBusy
      BY <2>1 DEF SomeBusy, Busy, Waits
    <2>3. CASE event["stopThread"] > 0
      BY <2>1, <2>2, <2>3 DEF FaultFreeInv
    <2>4. CASE ~(event["stopThread"] > 0)
      <3>1. ~LeftBehind
        BY <2>4 DEF FaultFreeInv
      <3>2. ~LeftBehind'
        BY <2>1, <2>4, <3>1 DEF LeftBehind
      <3> QED BY <2>1, <2>4, <3>2 DEF FaultFreeInv
    <2> QED BY <2>3, <2>4
  <1>3. CASE DevResetStop
    <2>1. dpc = "resetStop" /\ dpc' = "exited" /\ UNCHANGED <<doubled, opens, apc>>
      BY <1>3 DEF DevResetStop, DevGoto, ackVars, budgetVars
    <2>2. ~LeftBehind /\ \A a \in Acker : a = opens => apc[a] = "off"
      BY <2>1 DEF FaultFreeInv
    <2>3. ~LeftBehind'
      BY <2>1, <2>2 DEF LeftBehind
    <2> QED BY <2>1, <2>3 DEF FaultFreeInv
  <1>4. CASE ~DevCreateAckThread /\ ~DevStart /\ ~DevResetStop
    <2>1. /\ UNCHANGED <<doubled, opens, apc>>
          /\ dpc \notin {"off", "create", "start", "resetStop", "exited"}
          /\ dpc' \notin {"off", "create", "start", "exited"}
      BY <1>f, <1>4 DEF DeviceThread, DevStartFails, DevPollFails, DevPollStop, DevRead,
           DevPollSend, DevGet, DevWrite, DevLock, DevArm, DevReset, DevJoinAckThread,
           DevGoto, ackVars, budgetVars
    <2>2. ~LeftBehind
      BY <2>1 DEF FaultFreeInv
    <2>3. ~LeftBehind'
      BY <2>1, <2>2 DEF LeftBehind
    <2>4. dpc' = "resetStop" => \A a \in Acker : a = opens => apc[a] = "off"
      BY <1>f, <1>4 DEF DeviceThread, DevStartFails, DevPollFails, DevPollStop, DevRead,
           DevPollSend, DevGet, DevWrite, DevLock, DevArm, DevReset, DevJoinAckThread,
           DevGoto, FaultFreeInv
    <2> QED BY <2>1, <2>3, <2>4 DEF FaultFreeInv
  <1> QED BY <1>1, <1>2, <1>3, <1>4

LEMMA FaultFreeAck ==
  ASSUME LockInv, TypeOK', MaxFaults = 0, FaultFreeInv, NEW a \in Acker, AckThread(a)
  PROVE  FaultFreeInv'
  <1>0. event \in [Event -> Nat] /\ TypeOK /\ event["startAck"] \in Nat /\ Unborn
    BY EventNames DEF LockInv, TypeOK, Threads
  <1>1. PICK x \in AckPlace : apc[a] # "off" /\ apc' = [apc EXCEPT ![a] = x]
    BY AckSteps
  <1>2. UNCHANGED <<dpc, opens>>
    BY AckSteps
  <1>3. apc'[a] = x /\ \A b \in Acker : b # a => apc'[b] = apc[b]
    BY <1>0, <1>1, AckMoves
  <1>4. \A b \in Acker : apc[b] = "off" => apc'[b] = "off"
    BY <1>1, <1>3
  <1>5. LeftBehind' => LeftBehind
    BY <1>2, <1>4 DEF LeftBehind
  <1>6. event'["stopThread"] = event["stopThread"]
    BY <1>0 DEF AckThread, AckStop, AckWaitFails, AckStart, AckReceived, AckTimeout,
           AckResend, AckResendFails, AckPollFails, AckResetAck, AckRelease, AckDestroy,
           AckReset, Reset, Event
  <1>7. CASE LeftBehind \/ dpc \in {"create", "start"}
    <2>1. event["startAck"] = 0 /\ ~SomeBusy
      BY <1>7 DEF FaultFreeInv
    <2>2. ~AckStart(a) /\ ~Busy(a)
      BY <2>1 DEF AckStart, IsSet, SomeBusy
    <2>3. AckStop(a) \/ AckWaitFails(a)
      BY <2>2, AckSteps
    <2>4. /\ UNCHANGED <<event, doubled>> /\ apc[a] = "wait"
          /\ apc' = [apc EXCEPT ![a] = "off"]
      BY <2>3 DEF AckStop, AckWaitFails, AckGoto, AckKeeps
    <2>5. SomeBusy' <=> SomeBusy
      BY <1>0, <2>4, SameWork
    <2> QED BY <1>2, <1>4, <1>5, <2>1, <2>4, <2>5 DEF FaultFreeInv
  <1>8. CASE ~(LeftBehind \/ dpc \in {"create", "start"})
    <2>1. \A b \in Acker : apc[b] # "off" => b = opens
      BY <1>8 DEF LeftBehind
    <2>2. ~doubled'
      <3>1. CASE AckStart(a)
        BY <1>1, <2>1, <3>1 DEF AckStart, FaultFreeInv
      <3>2. CASE ~AckStart(a)
        BY <3>2 DEF FaultFreeInv, AckThread, AckStop, AckWaitFails, AckReceived,
             AckTimeout, AckResend, AckResendFails, AckPollFails, AckResetAck,
             AckRelease, AckDestroy, AckReset, AckKeeps
      <3> QED BY <3>1, <3>2
    <2> QED BY <1>2, <1>4, <1>5, <1>8, <2>2 DEF FaultFreeInv
  <1> QED BY <1>7, <1>8

LEMMA FaultFreeLifecycle ==
  ASSUME LockInv, TypeOK', MaxFaults = 0, FaultFreeInv, Lifecycle
  PROVE  FaultFreeInv'
  <1>0. /\ TypeOK /\ event \in [Event -> Nat] /\ event["stopThread"] \in Nat
        /\ event'["stopThread"] \in Nat /\ faults \in Nat /\ opens \in Nat
    <2>1. event \in [Event -> Nat] /\ event' \in [Event -> Nat] /\ faults \in Nat
          /\ opens \in Nat
      BY DEF LockInv, TypeOK
    <2> QED BY <2>1, EventNames DEF LockInv
  <1>f. ~UseFault
    BY <1>0 DEF UseFault
  <1>1. CASE OpenPhysicalDevice
    <2>1. /\ dpc = "off" /\ dpc' = "create" /\ opens' = opens + 1
          /\ status = "closed" /\ cpc = "idle" /\ UNCHANGED <<apc, doubled, event>>
      BY <1>1, <1>f DEF OpenPhysicalDevice, LockInv, Threads, ThreadEnded, ackVars
    <2>2. LeftBehind <=> \E a \in Acker : apc[a] # "off"
      BY <2>1 DEF LeftBehind
    <2>3. \A a \in Acker : a \in Int
      BY DeviceAssumption DEF Acker
    <2>4. LeftBehind' => LeftBehind
      BY <2>1, <2>2 DEF LeftBehind
    <2>5. SomeBusy' <=> SomeBusy
      BY <2>1 DEF SomeBusy, Busy, Waits
    <2>6. event["startAck"] = 0 /\ ~SomeBusy
      <3>1. CASE LeftBehind
        BY <3>1 DEF FaultFreeInv
      <3>2. CASE ~LeftBehind
        <4>1. ~SomeBusy
          BY <2>2, <3>2 DEF SomeBusy, Busy, Waits
        <4>2. Armed = 0
          BY <2>1 DEF LockInv, Locks, ClosedAtRest, FaultFreeInv
        <4>3. Armed = event["startAck"] - 0
          BY <4>1, ArmedIs
        <4> QED BY <1>0, <4>1, <4>2, <4>3, StartAckType
      <3> QED BY <3>1, <3>2
    <2> QED BY <2>1, <2>4, <2>5, <2>6 DEF FaultFreeInv
  <1>2. CASE CloseJoin
    <2>1. dpc = "exited" /\ dpc' = "off" /\ UNCHANGED <<apc, doubled, event, opens>>
      BY <1>2 DEF CloseJoin, DevGoto, ackVars, budgetVars
    <2>2. (LeftBehind' <=> LeftBehind) /\ (SomeBusy' <=> SomeBusy)
      BY <2>1 DEF LeftBehind, SomeBusy, Busy, Waits
    <2> QED BY <2>1, <2>2 DEF FaultFreeInv
  <1>3. CASE ClosePhysicalDevice \/ ClearLock \/ ClearUnlock \/ DestroyPhysicalDevice
    <2>1. UNCHANGED <<doubled, apc, opens, dpc>>
      BY <1>3 DEF ClosePhysicalDevice, ClearLock, ClearUnlock, DestroyPhysicalDevice,
                  ackVars, budgetVars, devVars
    <2>2. event'["startAck"] = event["startAck"]
      BY <1>0, <1>3, EventNames DEF ClosePhysicalDevice, ClearLock, ClearUnlock,
                                    DestroyPhysicalDevice, Signal
    <2>3. event'["stopThread"] = event["stopThread"]
            \/ event'["stopThread"] = event["stopThread"] + 1
      BY <1>0, <1>3, EventNames DEF ClosePhysicalDevice, ClearLock, ClearUnlock,
                                    DestroyPhysicalDevice, Signal
    <2>4. event'["stopThread"] >= event["stopThread"]
      BY <1>0, <2>3
    <2> QED BY <1>0, <2>1, <2>2, <2>4, FaultFreeKeeps
  <1> QED BY <1>1, <1>2, <1>3 DEF Lifecycle

LEMMA FaultFreeSteps ==
  ASSUME LockInv, TypeOK', MaxFaults = 0, FaultFreeInv, [Next]_vars
  PROVE  FaultFreeInv'
  <1>0. /\ TypeOK /\ event \in [Event -> Nat] /\ event["stopThread"] \in Nat
        /\ event'["stopThread"] \in Nat /\ "framer" \in Callers
    <2>1. event \in [Event -> Nat] /\ event' \in [Event -> Nat]
      BY DEF LockInv, TypeOK
    <2> QED BY <2>1, EventNames DEF LockInv, Callers
  <1>1. ASSUME UNCHANGED <<doubled, apc, opens, dpc>>,
               event'["startAck"] = event["startAck"],
               event'["stopThread"] = event["stopThread"]
        PROVE  FaultFreeInv'
    <2>1. event'["stopThread"] >= event["stopThread"]
      BY <1>0, <1>1
    <2> QED BY <1>0, <1>1, <2>1, FaultFreeKeeps
  <1>2. ASSUME NEW c \in Callers, CreateFrame(c) \/ FinishWrite(c) PROVE FaultFreeInv'
    <2>1. /\ event'["startAck"] = event["startAck"]
          /\ event'["stopThread"] = event["stopThread"]
      BY <1>0, <1>2 DEF CreateFrame, FinishWrite, PutFrame, AnnounceFrame, Signal, Event
    <2> QED BY <1>1, <1>2, <2>1, WriteKeeps
  <1>3. CASE Host
    BY <1>2, <1>3, FaultFreeDevice, FaultFreeAck DEF Host, Callers
  <1>4. CASE Lifecycle
    BY <1>4, FaultFreeLifecycle
  <1>5. CASE Framer /\ ~(CreateFrame("framer") \/ FinishWrite("framer"))
    <2>1. /\ event'["startAck"] = event["startAck"]
          /\ event'["stopThread"] = event["stopThread"]
      BY <1>0, <1>5 DEF Framer, FramerTake, FramerLock, SendFsciAck, FramerUnlock,
                  FramerSignalTxAck, FramerNotify, FramerObserver, deviceVars, Signal,
                  Event
    <2> QED BY <1>1, <1>5, <2>1, FramerKeeps
  <1>6. CASE Board \/ UNCHANGED vars
    BY <1>1, <1>6 DEF Board, vars, deviceVars, ackVars, budgetVars, devVars
  <1> QED BY <1>0, <1>2, <1>3, <1>4, <1>5, <1>6 DEF Next

\* As long as no call fails, no ACK wait is begun while two WaitACK threads are there,
\* however often the device is closed and opened, also before its thread has started.
THEOREM FaultFreeAlone == MaxFaults = 0 => (Spec => []~doubled)
  <1> SUFFICES ASSUME MaxFaults = 0 PROVE Spec => []~doubled
    OBVIOUS
  <1>1. Init => FaultFreeInv
    <2> SUFFICES ASSUME Init PROVE FaultFreeInv
      OBVIOUS
    <2>1. dpc = "off" /\ ~doubled /\ \A a \in Acker : apc[a] = "off"
      BY DEF Init, DeviceInit
    <2>2. ~LeftBehind
      BY <2>1 DEF LeftBehind
    <2> QED BY <2>1, <2>2 DEF FaultFreeInv
  <1>2. LockInv /\ LockInv' /\ FaultFreeInv /\ [Next]_vars => FaultFreeInv'
    BY FaultFreeSteps DEF LockInv
  <1>3. FaultFreeInv => ~doubled
    BY DEF FaultFreeInv
  <1> QED BY <1>1, <1>2, <1>3, LockInvariance, PTL DEF Spec

=============================================================================
