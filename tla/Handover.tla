------------------------------ MODULE Handover ------------------------------
(***************************************************************************)
(* Connection handover between two anchors of a car (application/common/    *)
(* auto/app_handover.c).  The anchor that has the connection of a peer      *)
(* device synchronizes its clock with the other one, suspends transmission, *)
(* sends its context and what the link layer still had to transmit, and has *)
(* the other anchor look for the connection; the other one takes the        *)
(* connection over and has the first one drop it.  Each anchor runs the same *)
(* code, with the state in mAppHandoverState; either may begin.             *)
(*                                                                         *)
(* The handlers run one at a time on the application's task of an anchor:   *)
(* AppHandover_ProcessA2ACommand for a command of the other anchor,         *)
(* AppHandover_GenericCallback and AppHandover_ConnectionCallback for an     *)
(* event of the stack.  The stack takes an anchor's calls in their order and *)
(* completes each with one event; a call's effect and the handler of its    *)
(* event are one step here.  Channel sounding, the exchange of session keys *)
(* (gA2BEnabled_d) and the monitoring of a connection are left out.         *)
(***************************************************************************)
EXTENDS Integers, Sequences, SequencesExt

CONSTANTS
  Anchors,      \* the two anchors
  MaxStarts,    \* bound: handovers begun
  MaxPending,   \* bound: packets the link layer has left when it is suspended
  Faults,       \* what may go wrong, among FaultKinds
  MaxFaults     \* bound: how often

\* The stack refuses a call, or there is no memory; a call ends with an error, the search
\* fails when the device was found already, a command is lost between the anchors, the
\* application aborts.  That the device is not found is no fault.
FaultKinds == {"refuse", "error", "late", "loss", "abort"}

ASSUME HandoverAssumption ==
  /\ \E a, b \in Anchors : a # b /\ Anchors = {a, b}
  /\ MaxStarts \in Nat /\ MaxPending \in Nat /\ MaxFaults \in Nat /\ Faults \subseteq FaultKinds

VARIABLES
  anchor,    \* of each anchor, the module's state and the calls the stack has to complete
  chan,      \* commands on their way to an anchor
  link,      \* the stack's connection to the device: none, sending or suspended
  rx, tx,    \* the stack receives, transmits time synchronization
  search,    \* the stack looks for the device
  ref,       \* the stack has a reference to handover data (Gap_HandoverSetData)
  faults,    \* faults so far
  starts,    \* handovers begun
  indicated, \* history: packets left by the last suspension
  taken,     \* history: what the last Gap_HandoverConnect was made with
  apart      \* history: each handover was begun when nothing was left of those before

stack   == <<link, rx, tx, search, ref>>
history == <<indicated, taken, apart>>
vars    == <<anchor, chan, stack, faults, starts, history>>

States == {"Idle", "TimeSyncRx", "TimeSyncTx", "ContextTx", "ContextRx", "AnchorSearch"}

Peer(n) == CHOOSE m \in Anchors : m # n

\* A command or a call, with the number of the handover it belongs to where that matters.
Item(op, no) == [op |-> op, no |-> no]
Plain(op)    == Item(op, 0)

\* Handover data, packets and searches carry the number of the handover they are of; no
\* data buffer is number 0.  device: mHandoverCentralDeviceId is valid; handle:
\* mHandoverConnHandle is; busy: the application waits for the end of a handover.
Rested == [state |-> "Idle", found |-> FALSE, device |-> FALSE, handle |-> FALSE,
           data |-> 0, queue |-> <<>>, busy |-> FALSE, calls |-> <<>>]

Init ==
  /\ anchor = [n \in Anchors |-> Rested] /\ chan = [n \in Anchors |-> <<>>]
  /\ \E n \in Anchors : link = [m \in Anchors |-> IF m = n THEN "sending" ELSE "none"]
  /\ rx = [n \in Anchors |-> FALSE] /\ tx = rx /\ search = rx /\ ref = rx
  /\ faults = 0 /\ starts = 0
  /\ indicated = 0 /\ taken = [no |-> 0, data |-> 0, queue |-> <<>>]
  /\ apart = TRUE

\* How a step goes with respect to a kind of fault: TRUE, it goes well.
Outcome(kind) ==
  {TRUE} \union (IF kind \in Faults /\ faults < MaxFaults THEN {FALSE} ELSE {})
Count(ok) == faults' = IF ok THEN faults ELSE faults + 1

Call(a, op) == [a EXCEPT !.calls = Append(@, Plain(op))]

-----------------------------------------------------------------------------
(* AppHandover_Abort.                                                      *)

\* Transmission stays suspended.
UndoWithoutResume(a) ==
  CASE a.state = "TimeSyncRx" -> Call([a EXCEPT !.found = FALSE], "RxOff")
    [] a.state = "TimeSyncTx" -> Call([a EXCEPT !.found = FALSE], "TxOff")
    [] a.state = "AnchorSearch" /\ a.handle -> Call([a EXCEPT !.handle = FALSE], "SearchOff")
    [] OTHER -> a

\* What Abort stops in each state.
Undo(a) ==
  CASE a.state = "TimeSyncRx" -> Call([a EXCEPT !.found = FALSE], "RxOff")
    [] a.state = "TimeSyncTx" -> Call([a EXCEPT !.found = FALSE], "TxOff")
    [] a.state = "ContextTx" /\ a.device -> Call(a, "Resume")
    [] a.state = "AnchorSearch" /\ a.handle -> Call([a EXCEPT !.handle = FALSE], "SearchOff")
    [] OTHER -> a

\* The packets received stay in their queue.
AbortKeepsQueue(a, n) ==
  LET u == Undo(a) IN
  [u EXCEPT !.calls  = IF ref[n] THEN Append(@, Plain("FreeData")) ELSE @,
            !.data   = IF ref[n] THEN @ ELSE 0,
            !.device = FALSE, !.busy = FALSE,
            !.state  = IF @ = "TimeSyncRx" THEN @ ELSE "Idle"]

\* Handover data the stack refers to is given back through it, other data at once; the
\* state stays with time sync reception until its end is reported.
Abort(a, n) ==
  LET u == Undo(a) IN
  [u EXCEPT !.calls  = IF ref[n] THEN Append(@, Plain("FreeData")) ELSE @,
            !.data   = IF ref[n] THEN @ ELSE 0,
            !.device = FALSE, !.queue = <<>>, !.busy = FALSE,
            !.state  = IF @ = "TimeSyncRx" THEN @ ELSE "Idle"]

\* The anchor's state is a after the step, out goes to the other anchor and rest of
\* what was on its way here remains.
Commit(n, a, out, rest) ==
  /\ anchor' = [anchor EXCEPT ![n] = a]
  /\ chan' = [chan EXCEPT ![n] = rest, ![Peer(n)] = @ \o out]

Become(n, a, out) == Commit(n, a, out, chan[n])

\* A handler whose result is an error aborts and tells the other anchor.
Fail(n, a, out) == Become(n, Abort(a, n), Append(out, Plain("InformFailure")))
Try(n, ok, a, out) == IF ok THEN Become(n, a, out) ELSE Fail(n, a, out)

-----------------------------------------------------------------------------
(* The application.                                                        *)

\* Nothing is on its way between the anchors, and their stacks have nothing to complete,
\* do not synchronize and do not search.
Calm == \A n \in Anchors :
  chan[n] = <<>> /\ anchor[n].calls = <<>> /\ ~rx[n] /\ ~tx[n] /\ ~search[n]

\* AppHandover_SetPeerDevice and AppHandover_StartTimeSync(TRUE), by an application that
\* transmits to the device and waits for no other handover.
StartTimeSync(n) ==
  /\ starts < MaxStarts /\ starts' = starts + 1
  /\ link[n] = "sending" /\ ~anchor[n].busy
  /\ \E ok \in Outcome("refuse") :
       /\ Count(ok)
       /\ LET a == [anchor[n] EXCEPT !.device = TRUE, !.found = FALSE] IN
          IF ok THEN Become(n, Call([a EXCEPT !.busy = TRUE], "RxOn"), <<Plain("StartTimeSync")>>)
          ELSE Become(n, a, <<>>)
  /\ apart' = (apart /\ Calm)
  /\ UNCHANGED <<stack, indicated, taken>>

\* AppHandover_Abort(TRUE, ...), by an application that waits for a handover.
AppAbort(n) ==
  /\ anchor[n].busy /\ FALSE \in Outcome("abort") /\ Count(FALSE)
  /\ Fail(n, anchor[n], <<>>)
  /\ UNCHANGED <<stack, starts, history>>

-----------------------------------------------------------------------------
(* AppHandover_GenericCallback: the end of a call, or an event of the       *)
(* controller.                                                             *)

Completes(n, op) == anchor[n].calls # <<>> /\ Head(anchor[n].calls).op = op
Rest(n) == [anchor[n] EXCEPT !.calls = Tail(@)]

\* The states in which the end of a time sync call is expected, and the ones they lead to.
RxToggle == [Idle |-> "TimeSyncRx", TimeSyncRx |-> "Idle"]
TxToggle == [Idle |-> "TimeSyncTx", TimeSyncTx |-> "ContextRx"]

Toggle(n, table) ==
  LET a == Rest(n) IN
  IF a.state \in DOMAIN table THEN Become(n, [a EXCEPT !.state = table[@]], <<>>)
  ELSE Fail(n, a, <<>>)

TimeSyncReceiveComplete(n) ==
  /\ \E on \in BOOLEAN :
       Completes(n, IF on THEN "RxOn" ELSE "RxOff") /\ rx' = [rx EXCEPT ![n] = on]
  /\ Toggle(n, RxToggle)
  /\ UNCHANGED <<link, tx, search, ref, faults, starts, history>>

TimeSyncTransmitStateChanged(n) ==
  /\ \E on \in BOOLEAN :
       Completes(n, IF on THEN "TxOn" ELSE "TxOff") /\ tx' = [tx EXCEPT ![n] = on]
  /\ Toggle(n, TxToggle)
  /\ UNCHANGED <<link, rx, search, ref, faults, starts, history>>

\* The context is asked for without suspending transmission.
TimeSyncEventUnsuspended(n) ==
  /\ rx[n] /\ tx[Peer(n)] /\ rx' = [rx EXCEPT ![n] = FALSE]
  /\ Become(n, Call([anchor[n] EXCEPT !.data = starts], "GetData"), <<Plain("StopTimeSync")>>)
  /\ UNCHANGED <<link, tx, search, ref, faults, starts, history>>

\* Reception stops when it has found something (gTimeSyncStopWhenFound_c).  A call for a
\* device that is not valid is refused.
TimeSyncEvent(n) ==
  /\ rx[n] /\ tx[Peer(n)] /\ rx' = [rx EXCEPT ![n] = FALSE]
  /\ \E ok \in Outcome("refuse") :
       /\ Count(ok)
       /\ LET a == anchor[n] IN
          Try(n, ok /\ a.device, IF ok /\ a.device THEN Call(a, "Suspend") ELSE a,
              <<Plain("StopTimeSync")>>)
  /\ UNCHANGED <<link, tx, search, ref, starts, history>>

\* What the link layer had left to transmit is indicated right behind.
SuspendTransmitComplete(n) ==
  /\ Completes(n, "Suspend")
  /\ link' = [link EXCEPT ![n] = IF @ = "sending" THEN "suspended" ELSE @]
  /\ \E ok \in Outcome("refuse"), k \in 0 .. MaxPending :
       /\ Count(ok) /\ indicated' = k
       /\ LET left == [i \in 1 .. k |-> Item("Pending", starts)]
              a == [Rest(n) EXCEPT !.state = "ContextTx", !.calls = left \o @]
              b == [a EXCEPT !.data = starts]
          IN Try(n, ok /\ a.device, IF ok /\ a.device THEN Call(b, "GetData") ELSE a, <<>>)
  /\ UNCHANGED <<rx, tx, search, ref, starts, taken, apart>>

LlPendingData(n) ==
  /\ Completes(n, "Pending")
  /\ Become(n, Rest(n), IF anchor[n].state = "ContextTx"
                        THEN <<Item("LlPendingData", Head(anchor[n].calls).no)>> ELSE <<>>)
  /\ UNCHANGED <<stack, faults, starts, history>>

GetComplete(n) ==
  /\ Completes(n, "GetData")
  /\ \E ok \in Outcome("refuse") :
       /\ Count(ok)
       /\ LET a == [Rest(n) EXCEPT !.data = 0] IN
          Try(n, ok /\ a.device, IF ok /\ a.device THEN Call(a, "GetConnParams") ELSE a,
              <<Item("Data", anchor[n].data)>>)
  /\ UNCHANGED <<stack, starts, history>>

\* Gap_CheckIfBonded refuses a device that is not valid.
GetConnParamsComplete(n) ==
  /\ Completes(n, "GetConnParams")
  /\ IF anchor[n].device THEN Become(n, Rest(n), <<Plain("AnchorStartSearch")>>)
     ELSE Fail(n, Rest(n), <<>>)
  /\ UNCHANGED <<stack, faults, starts, history>>

AnchorSearchStarted(n) ==
  /\ Completes(n, "SearchOn")
  /\ \E ok \in BOOLEAN :
       /\ search' = [search EXCEPT ![n] = @ \/ ok]
       /\ LET a == [Rest(n) EXCEPT !.state = IF @ = "ContextRx" THEN "AnchorSearch" ELSE @] IN
          Try(n, ok, [a EXCEPT !.handle = @ \/ ok], <<>>)
  /\ UNCHANGED <<link, rx, tx, ref, faults, starts, history>>

\* The other anchor is told to disconnect before the connection is taken.
DeviceFoundInforms(n) ==
  /\ search[n] /\ anchor[n].state = "AnchorSearch" /\ ~anchor[n].found
  /\ Become(n, Call([anchor[n] EXCEPT !.found = TRUE, !.queue = <<>>], "Connect"),
            <<Plain("InformConnect")>>)
  /\ taken' = [no |-> starts, data |-> anchor[n].data, queue |-> anchor[n].queue]
  /\ UNCHANGED <<stack, faults, starts, indicated, apart>>

\* An anchor monitor event with the RSSI of the device, the first one: what the other
\* anchor had left goes to the link layer and the connection is taken, which needs the
\* handover data.
DeviceFound(n) ==
  /\ search[n] /\ anchor[n].state = "AnchorSearch" /\ ~anchor[n].found
  /\ \E ok \in Outcome("refuse") :
       /\ Count(ok)
       /\ LET a == [anchor[n] EXCEPT !.found = TRUE, !.queue = <<>>] IN
          Try(n, ok /\ ref[n], IF ok /\ ref[n] THEN Call(a, "Connect") ELSE a, <<>>)
  /\ taken' = [no |-> starts, data |-> anchor[n].data, queue |-> anchor[n].queue]
  /\ UNCHANGED <<stack, starts, indicated, apart>>

\* An anchor monitor event without.
SearchFailed(n) ==
  /\ search[n] /\ anchor[n].state = "AnchorSearch"
  /\ anchor[n].found => FALSE \in Outcome("late")
  /\ Count(~anchor[n].found)
  /\ Fail(n, anchor[n], <<>>)
  /\ UNCHANGED <<stack, starts, history>>

FreeComplete(n) ==
  /\ Completes(n, "FreeData")
  /\ ref' = [ref EXCEPT ![n] = FALSE]
  /\ Become(n, [Rest(n) EXCEPT !.data = 0], <<>>)
  /\ UNCHANGED <<link, rx, tx, search, faults, starts, history>>

\* The ends of Gap_HandoverResumeTransmit and Gap_HandoverAnchorSearchStop, on which the
\* module does nothing.
ResumeTransmitComplete(n) ==
  /\ Completes(n, "Resume") /\ Become(n, Rest(n), <<>>)
  /\ link' = [link EXCEPT ![n] = IF @ = "suspended" THEN "sending" ELSE @]
  /\ UNCHANGED <<rx, tx, search, ref, faults, starts, history>>

AnchorSearchStopped(n) ==
  /\ Completes(n, "SearchOff") /\ Become(n, Rest(n), <<>>)
  /\ search' = [search EXCEPT ![n] = FALSE]
  /\ UNCHANGED <<link, rx, tx, ref, faults, starts, history>>

\* gInternalError_c: the stack could not do what it was called for.
InternalError(n) ==
  /\ anchor[n].calls # <<>> /\ Head(anchor[n].calls).op \notin {"Pending", "FreeData"}
  /\ FALSE \in Outcome("error") /\ Count(FALSE)
  /\ Fail(n, Rest(n), <<>>)
  /\ UNCHANGED <<stack, starts, history>>

(* AppHandover_ConnectionCallback.                                         *)

\* The data set stays with the stack.
ConnectedKeepsData(n) ==
  /\ Completes(n, "Connect")
  /\ link' = [link EXCEPT ![n] = "sending"] /\ search' = [search EXCEPT ![n] = FALSE]
  /\ Become(n, [Rest(n) EXCEPT !.state = "Idle", !.device = TRUE, !.busy = FALSE],
            <<Plain("InformConnect")>>)
  /\ UNCHANGED <<rx, tx, ref, faults, starts, history>>

\* The other anchor is not told.
ConnectedSilently(n) ==
  /\ Completes(n, "Connect")
  /\ link' = [link EXCEPT ![n] = "sending"] /\ search' = [search EXCEPT ![n] = FALSE]
  /\ LET a == [Rest(n) EXCEPT !.state = "Idle", !.device = TRUE, !.busy = FALSE] IN
     Become(n, IF ref[n] THEN Call(a, "FreeData") ELSE [a EXCEPT !.data = 0], <<>>)
  /\ UNCHANGED <<rx, tx, ref, faults, starts, history>>

HandoverConnected(n) ==
  /\ Completes(n, "Connect")
  /\ link' = [link EXCEPT ![n] = "sending"] /\ search' = [search EXCEPT ![n] = FALSE]
  /\ LET a == [Rest(n) EXCEPT !.state = "Idle", !.device = TRUE, !.busy = FALSE] IN
     Become(n, IF ref[n] THEN Call(a, "FreeData") ELSE [a EXCEPT !.data = 0],
            <<Plain("InformConnect")>>)
  /\ UNCHANGED <<rx, tx, ref, faults, starts, history>>

HandoverDisconnected(n) ==
  /\ Completes(n, "Disconnect")
  /\ link' = [link EXCEPT ![n] = "none"]
  /\ Become(n, [Rest(n) EXCEPT !.busy = FALSE], <<>>)
  /\ UNCHANGED <<rx, tx, search, ref, faults, starts, history>>

Event(n) ==
  \/ TimeSyncReceiveComplete(n) \/ TimeSyncTransmitStateChanged(n) \/ TimeSyncEvent(n)
  \/ SuspendTransmitComplete(n) \/ LlPendingData(n) \/ GetComplete(n)
  \/ GetConnParamsComplete(n) \/ AnchorSearchStarted(n) \/ DeviceFound(n)
  \/ FreeComplete(n) \/ ResumeTransmitComplete(n) \/ AnchorSearchStopped(n)
  \/ HandoverConnected(n) \/ HandoverDisconnected(n)

-----------------------------------------------------------------------------
(* AppHandover_ProcessA2ACommand.                                          *)

Received(n, op) == chan[n] # <<>> /\ Head(chan[n]).op = op
No(n) == Head(chan[n]).no

\* The command is done with.
Done(n, a, out) == Commit(n, a, out, Tail(chan[n])) /\ UNCHANGED <<starts, history>>
Answer(n, ok, a) ==
  /\ Count(ok)
  /\ IF ok THEN Done(n, a, <<>>) ELSE Done(n, Abort(a, n), <<Plain("InformFailure")>>)

OnStartTimeSync(n) ==
  /\ Received(n, "StartTimeSync")
  /\ \E ok \in Outcome("refuse") :
       LET a == [anchor[n] EXCEPT !.found = FALSE] IN
       Answer(n, ok, IF ok THEN Call([a EXCEPT !.busy = TRUE], "TxOn") ELSE a)
  /\ UNCHANGED stack

OnStopTimeSync(n) ==
  /\ Received(n, "StopTimeSync")
  /\ \E ok \in Outcome("refuse") :
       LET a == [anchor[n] EXCEPT !.found = FALSE] IN
       Answer(n, ok, IF ok THEN Call(a, "TxOff") ELSE a)
  /\ UNCHANGED stack

\* A packet there is no memory for is dropped, and nobody is told.
OnLlPendingData(n) ==
  /\ Received(n, "LlPendingData")
  /\ \E ok \in Outcome("refuse") :
       /\ Count(ok)
       /\ Done(n, IF ok THEN [anchor[n] EXCEPT !.queue = Append(@, No(n))] ELSE anchor[n], <<>>)
  /\ UNCHANGED stack

\* Data that is there already is an error (gBleInvalidState_c), and so is a command
\* without data (gBleOutOfMemory_c).
OnData(n) ==
  /\ Received(n, "Data")
  /\ LET a == anchor[n]
         b == [a EXCEPT !.data = No(n)]
     IN IF a.data # 0 \/ b.data = 0
        THEN Done(n, Abort(a, n), <<Plain("InformFailure")>>) /\ UNCHANGED <<ref, faults>>
        ELSE \E ok \in Outcome("refuse") :
               Answer(n, ok, b) /\ ref' = [ref EXCEPT ![n] = @ \/ ok]
  /\ UNCHANGED <<link, rx, tx, search>>

\* In any state: only monitoring asks for gContextRx_c.
OnAnchorStartSearch(n) ==
  /\ Received(n, "AnchorStartSearch")
  /\ \E ok \in Outcome("refuse") :
       Answer(n, ok, IF ok THEN Call(anchor[n], "SearchOn") ELSE anchor[n])
  /\ UNCHANGED stack

OnInformConnect(n) ==
  /\ Received(n, "InformConnect")
  /\ LET a == [anchor[n] EXCEPT !.state = "Idle", !.device = FALSE] IN
     IF ~anchor[n].device
     THEN Done(n, Abort(a, n), <<Plain("InformFailure")>>) /\ UNCHANGED faults
     ELSE \E ok \in Outcome("refuse") : Answer(n, ok, IF ok THEN Call(a, "Disconnect") ELSE a)
  /\ UNCHANGED stack

\* A failure that is told back.
OnInformFailureTells(n) ==
  /\ Received(n, "InformFailure")
  /\ Done(n, Abort(anchor[n], n), <<Plain("InformFailure")>>)
  /\ UNCHANGED <<stack, faults>>

OnInformFailure(n) ==
  /\ Received(n, "InformFailure")
  /\ Done(n, Abort(anchor[n], n), <<>>)
  /\ UNCHANGED <<stack, faults>>

\* The serial line drops a command whose checksum is wrong or for which there is no buffer.
Lose(n) ==
  /\ chan[n] # <<>> /\ FALSE \in Outcome("loss") /\ Count(FALSE)
  /\ Done(n, anchor[n], <<>>) /\ UNCHANGED stack

ProcessA2ACommand(n) ==
  \/ OnStartTimeSync(n) \/ OnStopTimeSync(n) \/ OnLlPendingData(n) \/ OnData(n)
  \/ OnAnchorStartSearch(n) \/ OnInformConnect(n) \/ OnInformFailure(n)

Next == \E n \in Anchors :
  \/ StartTimeSync(n) \/ AppAbort(n)
  \/ Event(n) \/ SearchFailed(n) \/ InternalError(n)
  \/ ProcessA2ACommand(n) \/ Lose(n)

Spec == Init /\ [][Next]_vars

\* The stack completes its calls and finds what is there, the tasks handle what they get.
FairSpec == Spec /\ \A n \in Anchors : WF_vars(Event(n)) /\ WF_vars(ProcessA2ACommand(n))

-----------------------------------------------------------------------------
(* Correctness.                                                            *)

Calls == {"RxOn", "RxOff", "TxOn", "TxOff", "Suspend", "Resume", "Pending", "GetData",
          "GetConnParams", "SearchOn", "SearchOff", "Connect", "Disconnect", "FreeData"}
Commands == {"StartTimeSync", "StopTimeSync", "LlPendingData", "Data", "AnchorStartSearch",
             "InformConnect", "InformFailure"}
Items(ops) == [op : ops, no : 0 .. MaxStarts]

\* The values each part of the state may have.
TypeOK ==
  /\ anchor \in [Anchors -> [state : States, found : BOOLEAN, device : BOOLEAN,
                              handle : BOOLEAN, data : 0 .. MaxStarts,
                              queue : Seq(0 .. MaxStarts), busy : BOOLEAN,
                              calls : Seq(Items(Calls))]]
  /\ chan \in [Anchors -> Seq(Items(Commands))]
  /\ link \in [Anchors -> {"none", "sending", "suspended"}]
  /\ \A flag \in {rx, tx, search, ref} : flag \in [Anchors -> BOOLEAN]
  /\ faults \in 0 .. MaxFaults /\ starts \in 0 .. MaxStarts /\ indicated \in 0 .. MaxPending
  /\ taken \in [no : 0 .. MaxStarts, data : 0 .. MaxStarts, queue : Seq(0 .. MaxStarts)]
  /\ apart \in BOOLEAN

\* No fault so far.  The module does not recover from each of them: README.md says what
\* fails when.
Undisturbed == faults = 0

\* The two anchors never transmit on the connection at the same time.
OneSends ==
  Undisturbed => \A n, m \in Anchors : link[n] = "sending" /\ link[m] = "sending" => n = m

\* Nothing is under way between the anchors or in their stacks.
AtRest == \A n \in Anchors : anchor[n].calls = <<>> /\ chan[n] = <<>> /\ ~anchor[n].busy

\* A handover that is over, whether the connection was taken or not found, leaves nothing
\* behind: both anchors are idle, with time sync and search stopped and no data or packets
\* kept, ready for the next one.
RestIsClean ==
  Undisturbed /\ AtRest => \A n \in Anchors :
    /\ anchor[n].state = "Idle" /\ anchor[n].data = 0 /\ anchor[n].queue = <<>>
    /\ ~rx[n] /\ ~tx[n] /\ ~search[n] /\ ~ref[n]

\* Once a handover is aborted and all is done, the anchors are in gIdle_c.
IdleAtRest == AtRest => \A n \in Anchors : anchor[n].state = "Idle"

\* The connection is taken with the context of this handover and all the packets the other
\* anchor's link layer had left, no other.
TakenWhole ==
  Undisturbed =>
    /\ taken.data = taken.no
    /\ taken.no = starts /\ taken.no # 0 =>
         taken.queue = [i \in 1 .. indicated |-> taken.no]

\* The connection is never dropped by both anchors: without faults however soon one handover
\* follows another, with any fault when nothing is left of a handover where the next begins.
Kept == Undisturbed \/ apart => \E n \in Anchors : link[n] # "none"

\* The connection of ConnectionPass: the anchor that transmits owns it, or the one that is
\* suspended when none does.
sending == \E n \in Anchors : link[n] = "sending"
owner   == CHOOSE n \in Anchors : link[n] = IF sending THEN "sending" ELSE "suspended"
Pass    == INSTANCE ConnectionPass

\* As long as nothing but a search fails, the anchors hand the connection over as
\* ConnectionPass has it.
PassesConnection == Pass!Init /\ [][faults' # 0 \/ Pass!Next]_<<owner, sending>>

\* A suspended connection is transmitted on again, by one anchor or the other.
ServedAgain == \A n \in Anchors :
  link[n] = "suspended" ~> (\E m \in Anchors : link[m] = "sending") \/ faults # 0

\* The application that waits for a handover learns how it ended.
HandoverEnds == \A n \in Anchors : anchor[n].busy ~> (~anchor[n].busy \/ faults # 0)

\* Aborts that answer one another come to an end: both anchors have dealt with everything
\* time and again.
Settles == []<>(\A n \in Anchors : anchor[n].calls = <<>> /\ chan[n] = <<>>)

=============================================================================
