# Formal models of the MCUX SDK Bluetooth host middleware

TLA+ models of the parts of this repository that have control of their own: threads that
share queues, events and locks, protocols between two devices, and state machines driven by
callbacks. TLC checks each model on small instances; TLAPS proves theorems about it for every
value of the constants. `PROJECT.json` lists the components, the runs, the theorems, the lines
of code behind every definition, and the hazards of the code with the properties that cover them.

Line numbers below are those of the sources under `src/`.

## 1. The system and its parts

The repository holds the code around NXP's Bluetooth LE host stack: application helpers that
drive the stack (`application/common`), the transport between host and controller
(`hci_transport`), the FSCI serial protocol by which a computer controls the stack
(`fsci` on the board, `tools/host_sdk` on the computer), GATT profiles, and a port layer. The
stack itself is a closed library of which only the headers are here (`host/interface`).

| Component | State it keeps | Operations | What makes it correct | Status |
|---|---|---|---|---|
| FSCI link, `hsdk/physical/PhysicalDevice.c`, `hsdk/sys/*`, `hsdk/protocol/Framer.c` | device status, transmit queue and its lock, five counting events, `lastTx`, the retries left | open, close, destroy, write; device thread, WaitACK thread, framer thread | one owner of the transmit lock; stop-and-wait order; retries bounded; board frames acknowledged before delivery; nothing waits for ever; close joins all threads | modelled in part |
| FSCI framer, `hsdk/protocol/Framer.c`, `FSCI/FSCIFramer.c` | byte queue, byte count, state of the state machine, frame under construction | callback with a chunk; state machine dispatch | the frames delivered are those of the byte stream, whatever the chunks; none is left behind | modelled in part |
| Service discovery, `application/common/ble_service_discovery.c` | three buffers, three indices, in-progress flag per peer | Start, FindService, Stop, client event | buffers live while used; everything found is reported once; every discovery ends | modelled in part |
| Connection handover, `application/common/auto/app_handover.c`, `app_a2a_interface.c` | state, peer device, handover data, packets left, search handle on each anchor | start time sync, abort; commands of the other anchor, events of the stack | one anchor transmits; the connection is not lost; context and packets arrive whole; failures end and leave both ready | modelled in part |
| Connection manager, `application/common/ble_conn_manager.c` | list of failed pairings with waiting times and their one timer; address of the last peer; privacy state | GAP events, pairing complete, timer callback | a peer that failed waits its time and no longer, whatever the outcomes of others; privacy on exactly when bonded peers need it | modelled in part |
| GATT database, `application/common/gatt_db` | table of attributes (kept by the library), place of the database hash, handles the application was told | add a service, remove it, release all, look-ups, compute the hash | look-ups find each attribute and agree on its service; a service reported is whole; the hash goes where it belongs | modelled in part |
| FSCI GATT client of the board, `fsci/source/fsci_ble_gatt.c`, `fsci_ble_gatt_types.c` | a temporary and a saved set of buffers for each link, count of a multiple read | one command per procedure, reset, status, procedure event | the stack's buffers live while it writes; an event reports its own results; every buffer is freed once | modelled in part |
| HCI transport, `hci_transport/source` | write and read buffer, fragment lengths, mutex | init, deinit, reconfigure, send, receive callback | packets of several tasks stay whole; teardown waits for senders | not modelled, section 8 |
| Timer pool, lists, messaging, OS wrappers (`port`), host tasks, profiles, A2B, other FSCI handlers (`fsci/source`), generated libraries, drivers | - | - | - | not modelled, section 8 |

How they interact. On the computer, application threads call `WritePhysicalDevice`, which puts
a frame on a queue and signals an event. The *device thread* waits for bytes or for that event:
bytes go to the framer through a callback, frames go to the serial line. With FSCI
acknowledgements the device thread takes the queue's lock after each frame and leaves it to the
*WaitACK thread* to release, which retransmits until the *framer thread* has seen the board's
ACK. The framer thread itself takes the lock to acknowledge what the board sends, then calls
observers, which may write frames in turn. On the board, the application's task receives the
stack's events one at a time and calls the stack, which answers later with another event, and the
FSCI task calls the stack for the computer, whose buffers it keeps until that event;
between two anchors of a car commands travel over a serial line.

What is hard here: a lock that is released by another thread than the one that took it; counting
events that nobody clears; retries that race late answers; a state machine that stops in the
middle of a frame; events that belong to a procedure given up; two anchors that abort at once;
errors of the stack that are cast to `(void)`; results written to buffers that another task frees;
one timer for several waits; an operation of many allocations that fails in the middle.

## 2. Modules

| Module | Subject | Extends or instantiates |
|---|---|---|
| `StopAndWait` | what transmission with acknowledgements promises: order, one frame at a time, at most 1 + retries transmissions | |
| `PhysicalDevice` | the device: writers, device thread, WaitACK, lifecycle | |
| `FsciLink` | the device with the framer thread and a board that may miss frames | extends `PhysicalDevice`, instantiates `StopAndWait` |
| `FsciLinkProofs` | theorems about `FsciLink`; the link implements stop-and-wait | extends `FsciLink` |
| `FsciFramer` | bytes to frames, with the reference definition `Read` | |
| `FsciFramerProofs` | theorems about `FsciFramer` | extends `FsciFramer`, `LeastAndGreatest` |
| `ServiceDiscovery` | discovery for one peer with the stack's GATT client | |
| `ServiceDiscoveryProofs` | theorems about `ServiceDiscovery` | extends `ServiceDiscovery`, `LeastAndGreatest` |
| `ConnectionPass` | what a handover promises the peer: one owner transmits, ownership passes only in silence | |
| `Handover` | two anchors, their stacks, the line between them | instantiates `ConnectionPass` |
| `HandoverProofs` | theorems about `Handover`; the anchors implement `ConnectionPass` | extends `Handover` |
| `RepeatedAttempts` | the list of failed pairings and its timer | |
| `RepeatedAttemptsProofs` | theorems about `RepeatedAttempts` | extends `RepeatedAttempts` |
| `FsciGattClient` | GATT client commands over FSCI and the buffers of their procedures | |
| `FsciGattClientProofs` | theorems about `FsciGattClient` | extends `FsciGattClient` |
| `GattDatabase` | services added and removed, look-ups, the place of the hash | |
| `GattDatabaseProofs` | theorems about `GattDatabase` | extends `GattDatabase`, `LeastAndGreatest` |
| `LeastAndGreatest` | lemmas on `Min` and `Max` of a finite set, induction over numbers, recursive functions | |
| `MC...` | instances for TLC | the module named |

Definitions marked as variants in their comment (`KeepInfoCopies`, `FindServiceRangeShort`, ...) are plausible mistakes;
`PROJECT.json` says which property each must break. They are no part of a specification.

### PhysicalDevice and FsciLink

`lock` names who keeps `inMessages->lock` from one step to the next: `"tx"` for a frame in
transmission (device thread, then WaitACK), `"rx"` for the framer, `"clear"` for
`ClearMessageQueue`. `MessageQueuePut`, `Get` and `IsEmpty` take and release it within one step.
`event` counts the device's five eventfds; signalling adds one, resetting takes one away and
blocks at zero. `dpc`, `apc`, `fpc`, `wpc` and `cpc` are the control of the device thread,
WaitACK, the framer thread, each writer and the application's lifecycle thread; each action is
the code between two points where another thread can interfere. A frame is its `packetIndex`.
`heapFreed` is what `DestroyRawFrame` gave back. The device thread's wait prefers stop, then
receive, then send, as `HSDKWaitMultipleEvents` does. Within a bound (`MaxFaults`) these calls fail:
opening the port, every write, the device thread's first wait (`DevStartFails`, where
`triggeredEvent` is read without a value) and its wait in the loop (`DevPollFails`), WaitACK's wait for
its start (`AckWaitFails`) and its wait for an ACK (`AckPollFails`). Creating a thread, signalling
and resetting events and allocating memory do not fail in the model. Each open creates its own WaitACK, so `apc` and
`retriesLeft` are functions; all of them share the events and `lastTx`. A device thread that leaves
its loop for a failed wait does not stop its WaitACK, and neither does one that finds its stop before
its start: a device opened again may have two. `doubled` is history: an ACK wait was begun while two
were there. Destroying a device clears its queue as a close does. The board acknowledges what it
hears; it may miss any frame. `status = "error"` after a failed write and the wrap of `retries_left` (a `uint8_t`) are as in
the code.

### FsciFramer

`queue` holds what is left of each chunk behind its `iCrtIndex`, `avail` is `cAvailableData`,
`left` and `saved` are the counts of `FramerThreadRoutine`. One action per state of the FSCI
state machine, so that the device thread can append a chunk between any two. Bytes are real
bytes here, as the property is about them: CRC, lengths of one or two bytes, SYNC bytes inside
data. `PeekMultiByte` is as written, with its index in bytes where chunks are meant; the read one
byte behind a chunk in `ReadDataUntilByte` only sets a flag that nobody looks at and is left out.
`ReadDataUntilByte` doubles the size of its buffer, a `uint16_t`, which ends at zero: no more than
`MaxJunk` bytes of a stream lie before the next SYNC. `Read` is the reference definition: what the
bytes from a place on read as, without a queue, chunks or threads.

### ServiceDiscovery

`proc` is the GATT client procedure the stack runs for the peer, `events` its completions on the
way to the application's task. `buffers` is what is allocated. `Begin` is Start and FindService,
`Advance` the loop over characteristics, `Report` the call of the application and the step to the
next service. Behind the last characteristic the code reads the next entry of the buffer:
`BehindLast` is zero if the buffer has been cleared, any of `Garbage` if not (memory that was
never written, or lies behind the buffer).

### Handover

`anchor[n]` is the module's state on anchor n with `calls`, the stack's calls in order and not
completed yet; the stack completes them one by one, each with one event, and effect and handler
are one action. `chan[n]` are the commands on their way to n. `link`, `rx`, `tx`, `search` and
`ref` are what the stack does. Handover data and packets carry the number of the handover they
are of, so that stale ones show. Every handler ends as in the code: an error aborts and tells the
other anchor (`Fail`), a failure told aborts silently. A call for a device that is not valid is
refused. What the model takes from the headers and from how the code calls the stack:
calls are completed in order; packets left are indicated right behind the end of suspension;
`Gap_HandoverConnect` needs the data set before; the reference to handover data is dropped
when freeing them completes; the application begins a handover only when it transmits and waits
for no other. `apart` is history: each handover was begun when nothing was left of those before
(`Calm`).

### RepeatedAttempts

`maPairingPeers` is the list, in seconds as in the code; `timer` is the remaining time of the one
timer in milliseconds, which is what `TM_GetRemainingTime` in microseconds, as the port gives it, comes
to after the code's division. `mMinTimeToWait` is what the timer was last started with.
`LogAttempt` tests whether the timer runs, then reads the remaining time; the
timer's callback runs in another task and may come between, so the call is two actions, with
`outcome` the call begun. `TimePassed` is the unsigned subtraction of the code, milliseconds
from seconds. `Tick` lets any of `Steps` milliseconds pass. `original` is
`maPeerDeviceOriginalAddress`, one for all connections. `conn` and `pairing` are what the GAP
events say. `left` and `sure` are history: how long a peer is still to be refused by what the last
outcome left in the list, and by what the peer's own last failure asks, kept by who paired and not by
the address the code logged.

### FsciGattClient

A link is a peer on one of its bearers, the index of both tables. `tmp` and `kept` say of each
kind of buffer which request it is of; `heap` is what is allocated. `Handle` is a command from its
allocations to the return of the stack's call: any allocation may fail (`short`), the stack may
refuse. `StatusMonitor` is what follows in the FSCI task; between the two the stack's task may
send the procedure's event, and a command may come between an event's sending and the erasing of
its information. `Troubles` says which of a refusal, a reset and such overlaps happen. `read` is
what the event's encoder finds behind the pointers of the saved entry. Eleven commands are there,
grouped by which buffers they take, whether the second is tried without the first, and what their
event reads.

### GattDatabase

The library keeps the table; how it appends and removes is external: handles follow the last one.
An addition is one action per call of the library, any of which may find no memory, and leaves
what it has added. `reported` is what the application was told. The service infos are those of the
predefined services and one of the application's own that holds the Database Hash. Indices count
from 0, with the two bytes' worth of invalid index, as the look-ups depend on both. `hashed` is
history: the last hash computed is of the table as it is.

## 3. The runs

Passing runs:

| Run | Bounds | States | Question |
|---|---|---|---|
| `session` | 1 writer and the observer, 2 frames, 2 retries, 1 board frame, both ACK directions | 354,934 | Is transmission stop-and-wait, are board frames acknowledged first, does everything drain? |
| `lifecycle` | 2 opens, 2 frames, 1 retry, 1 failing system call | 10,914,442 | Do close, reopen and destroy at any moment keep the lock and the threads in order, while one WaitACK acts at a time? |
| `framer` | 6 streams of three pieces, at most 4 chunks | 1,586,074 | Are the frames independent of the chunks? |
| `discovery` | 4 peers, 3 services, 3 characteristics, 2 descriptors, 2 discoveries | 4,521 | Are buffers, reports and the end right, whatever fails? |
| `handover` | 2 anchors, 2 handovers, 1 packet left, 1 fault of any kind | 456,237 | Does the connection pass as promised, and survive a fault? |
| `attempts` | 3 peers, 2 entries, waits of 1, 2 and 3 s, 2 connections, steps of 997 and 1000 ms | 872,260 | Is everybody refused exactly as long as the list says after each outcome? |
| `gattclient` | 2 links, 6 commands, 4 requests, every trouble | 2,382,570 | Do buffers live as long as their procedure, and is none lost? |
| `gattdb` | 3 services, handles to 10 | 450,172 | Do the look-ups agree on any table that additions and removals leave, and does the hash follow its value? |

What they show:

* `session`. `QuietWhileWaiting`: nothing but a retransmission enters the line during a TX hold.
  `AnnouncedIsQueued`: the device thread finds a frame for every announcement.
  `AckedThenDelivered`: board frames are acknowledged once, in order, before observers run.
  `ImplementsStopAndWait` is the refinement: queue, current frame and number of transmissions
  computed from the link's state behave as `StopAndWait`. `TxLockReleased`, `QueueDrains` and
  `FramerDrains` are the liveness of the three threads, which wait for one another.
* `lifecycle`, where threads end, restart and calls fail. `LockHandover`: at any time the TX
  hold belongs to the device thread, to a start event or to WaitACK, to one of them; `LockOthers` is
  the same of the framer and of `ClearMessageQueue`. `ReleasedByHolder`: no thread releases another's
  hold. `ClosedAtRest`: a close that has returned leaves no device thread, no ACK wait begun or
  announced, and no TX hold. What it may leave is a WaitACK that waits for its start. All four say
  `~doubled`: from the moment two such threads are there when an ACK wait begins, the code keeps none
  of them (section 6), which one failed poll and a reopen suffice for.
* `framer`. `ParsesStream`: the frames delivered are a prefix of those the bytes received read as
  (`Read`), and all of them when both threads wait, unless the header of an overlong frame came right
  behind one of them (`halts`; section 6). `SizeMatches`: the byte count agrees with the queue.
  `FramerSettles`: the thread that wakes itself comes to rest.
* `discovery`. `BuffersMatch`, `StackWritesLive` and `DescsFit` are about memory;
  `AllReported` and `DescriptorsSearched` about completeness; `DiscoveryEnds` is liveness.
* `handover`. `PassesConnection` (the refinement of `ConnectionPass`: one anchor transmits),
  `TakenWhole`, `RestIsClean`, `ServedAgain` and `HandoverEnds` hold as long as nothing fails but a
  search. `Kept`: the connection is never dropped by both, without faults however soon one handover
  follows another, and with any fault as long as each is begun when nothing is left of those before
  (section 6 says what happens otherwise). `Settles` (aborts that answer one another end) holds with
  any one fault too.
* `attempts`. `RefusedExactly`: a wait the list holds after an outcome lasts to the millisecond, through
  the callbacks of the one timer, which is started for the shortest wait and again for the next, until
  another outcome comes. `OneEntryEach` is about the list; `EveryWaitEnds` is liveness, if outcomes do
  not come for ever. What outcomes do to the waits of others is not among them, as the code gets that
  wrong: see `v_remaining_time` and section 6.
* `gattclient`. `Accounted` holds whatever happens: tables and heap agree, so nothing is lost or
  freed twice. `StackWritesLive` and `ReportsOwn` hold on each link that met no trouble
  itself, whatever the other meets; section 6 says what happens to one that did.
* `gattdb`. `IndexFound` compares the search of `GattDb_GetIndexOfHandle`, which starts at the
  handle's own number, with the table. `RangesAgree`: the two ways from an attribute to its service
  agree on tables with half-added services and gaps. `ReportedWhole` and `HashWhereTold` tie the table to
  what the application was told: its services are whole, and a hash computed after any additions,
  failures and removals is in the value whose handle it was told, although a part of an older service for
  the hash may be left and no handle is used to find the place.

Runs that TLC finds violated, each a disagreement of the code with what the repository says:

| Run | What happens |
|---|---|
| `v_stale_ack` | The ACK event is a counter that nobody clears. An ACK that comes after its frame was given up ends the wait for the next frame, which the board has missed. |
| `v_close_pending` | `ClearMessageQueue` takes the queue's lock and calls `MessageQueueGet`, which takes it again: closing with a frame queued never returns. |
| `v_remaining_time` | The remaining time of the timer is in microseconds; a thousandth of it is subtracted from seconds, so the wait of every peer ends with the next outcome of another, but in the timer's last milliseconds. |
| `v_rejected` | The erasing after a rejected request clears the other table: the buffers stay in the temporary one and keep the link's next request from being made. |

Why the bounds are enough. *Link*: two frames make a successor for every frame, which is what
the lock, the late ACK and the free race about; two retries tell a first from a last one; one
board frame meets each point of a host frame. Two opens make a reopen with whatever the first
session left. *Framer*: three pieces put a frame between others; four chunks cut any frame in
three. *Discovery*: the peers have services without characteristics, characteristics with and
without room, full buffers; a second discovery meets what the first left. *Handover*: the second
one meets everything left by the first and may go either way. `Kept` is proved for any number of
handovers and faults; what its premise leaves out needs three handovers, more than the run has. *Attempts*: a third
peer needs an entry of a full list; the wait doubles and is capped, so that waits end apart; two
connections let one peer's outcome be logged for another; time goes on without end, in steps of a second
and a little less, so that the timer is stopped at full seconds, between them, and in the last three
milliseconds, where the reckoning does not wrap. *GATT client*: on one link a request, one that is refused and one that
reuses what both left, while the other link has one of its own; the six commands take each pair
of buffers that is obtained differently. It is the one run with symmetry, in the links, and checks
safety only. *GATT database*: ten handles hold the three services whole (nine attributes), or parts of
some with a gap before the next, in any order and added again after removal. `CHECK_DEADLOCK FALSE` everywhere: threads rest when the frames,
bytes, handovers, requests or handles of the bound are used up.

## 4. Fairness

* `FsciLink`: weak fairness of each thread's steps (threads are scheduled, a `poll` with a
  timeout returns) and of finishing a write or a close begun. Nothing is assumed of writers, of
  the board or of the application. Weak fairness suffices though threads share a lock: whoever
  waits for the lock in `session` is alone or is followed by finitely many others.
* `FsciFramer`: the device thread announces a chunk it has put; the framer thread runs. No chunk
  has to come.
* `ServiceDiscovery`: the stack ends a procedure (a peer that does not answer makes it
  end with an error) and the application's task takes its events.
* `Handover`: on each anchor the stack completes calls and finds what is there to find, the
  application's task takes the commands. No fault is fair, and neither is the failure of a
  search: it may fail or find.
* `RepeatedAttempts`: a call of the list's functions ends and a timer that is due calls back (weak);
  time passes however many outcomes are logged in an instant (strong, as each outcome disables the
  clock while it is logged). No peer has to connect or pair. `EveryWaitEnds` assumes that outcomes end, as
  each may start the timer anew. The two other modules state no fairness:
  what they promise is safety, and a procedure of the stack need not end.

## 5. Proofs

What follows holds for every value of the constants that the modules' assumptions allow; these say
no more than the constants' types, and of `Services`, `Commands` and `Databases` what the code's tables are
made of. A premise beyond them is part of the theorem and named here with its reason.

### The link: `FsciLinkProofs`

| Theorem | Property |
|---|---|
| `TypeCorrect` | `TypeOK` |
| `HandoverCorrect` | `LockHandover` |
| `OthersCorrect` | `LockOthers` |
| `CloseCorrect` | `ClosedAtRest` |
| `ReleaseCorrect` | `ReleasedByHolder` |
| `QuietCorrect` | `QuietWhileWaiting` |
| `AckedThenDeliveredCorrect` | `AckedThenDelivered` |
| `AnnouncedCorrect` | `AnnouncedIsQueued` |
| `GetFindsFrame` | the device thread's `MessageQueueGet` finds a frame |
| `Implementation` | `ImplementsStopAndWait`, for behaviours with `[]~doubled` |
| `SessionImplementation` | `ImplementsStopAndWait`, for `SessionSpec` |
| `SessionAlone` | `SessionSpec` implies `[]~doubled` |
| `FaultFreeAlone` | `Spec` implies `[]~doubled` if no call fails (`MaxFaults = 0`) |

For any set of writers, any number of frames, retries, opens and faults, of `Spec`, which opens,
closes and fails; `SessionsAreBehaviours` carries them over to `SessionSpec`.

The properties of the lock, `ClosedAtRest` and `QuietWhileWaiting` begin with `~doubled`; it is part of
the statements, not an assumption, and section 6 says what comes when it ends. Two theorems say
where it never does: in a session, whatever fails (`SessionAlone`), and without failing
calls, however often the device is closed and opened (`FaultFreeAlone`). The latter is not plain: a thread
stopped before its start leaves its WaitACK behind as well. `FaultFreeInv` shows that the stop event then
stays set, so that no later thread gets to its loop and nobody signals a start.

`LockHandover` speaks of the lock, of the device thread, of the WaitACK threads and of the start
events between them; on its own it is not inductive. Missing is which threads there are (`Threads`): a
WaitACK is there only if its open has come (`Unborn`), a closed device has no device thread
(`ThreadEnded`), and as long as nothing is doubled one WaitACK at most is at work (`OneBusy`); and that a device thread
that has taken a frame and not yet the lock (`"write"`, `"lock"`) does not own a TX hold (`NotYetLocked`).
`LockInv` is the conjunction of `TypeOK`, `Threads`, `LockHandover`, `LockOthers`, `ClosedAtRest` and
`NotYetLocked`; a lemma per group of actions shows that it is preserved, with one step per action.
`ReleasedByHolder` and `QuietWhileWaiting` then follow from `LockInv` step by step: only `AckRelease`,
`FramerUnlock` and `ClearUnlock` free the lock, only `DevWrite`, `AckResend` and `SendFsciAck` write to the
line.

`AnnouncedIsQueued` counts: each send event and each device thread on its way to `Get` stands for a
frame put by a caller that has announced it, so announcements made and to come are no more than
the frames queued and the one in the device thread's hand (`CountInv`). `AckedThenDelivered` needs where the
framer stands between an acknowledgement and a delivery (`AnswerInv`).

`Implementation` is the refinement, for `TxAck` and `NumberOfRetries > 0`: with 0 retries the
`uint8_t` wraps and it is false (section 6), and for behaviours without `doubled`. Its invariant `TransmissionOK` says where the frame in
transmission is (the device thread's hand, then `lastTx`) and that `retries_left` stays between 0 and
the retries configured, above 0 while WaitACK polls; with `LockInv` each step of each thread
is a step of `StopAndWait` or stutters. `SessionImplementation` is what that and `SessionAlone` give.

### The framer: `FsciFramerProofs`

| Theorem | Property |
|---|---|
| `TypeCorrect` | `TypeOK` |
| `SizeMatchesCorrect` | `SizeMatches` |
| `ParsesStreamCorrect` | `ParsesStream` |

For any set of boards, any stream of bytes with at most `MaxJunk` bytes before a SYNC, any MTU and any
chunks. `Inv` is the conjunction of four facts:

* `Basics`: types; the queue is the piece of the stream between two places, `pos` (bytes taken) and
  `got` (bytes received); `SizeMatches`; and the chunks whose announcement is used up hold no more
  bytes than the framer thread has counted (`Counted`).
* `Matches`: the frame under way holds what the stream holds from its SYNC on, as far as the state
  machine has come.
* `Accounts`: the frames delivered, the one on its way to the observers and those that `Read` finds
  from the frame under way on are the frames of the stream, however much of it is received. Each
  action of the state machine takes a piece as `Read` does: it skips it or delivers a frame (`Skips`,
  `Delivers`). The CRC of the code is over the fields it has stored, and the two bytes of a virtual
  interface are compared by exclusive or; `ValidIs` shows that both are `ValidAt` of the stream.
* `Covered`: in the bytes whose announcement is used up there is no frame left to read. The hard step is
  `HandleCovers`, where the framer does not wake itself after a valid frame because
  `QueueDataVerification` sees too few bytes (`VerificationReads`). At most one chunk is then without
  an announcement; if a header fits in it, `PeekMultiByte`, which reads zeros behind small chunks,
  has read the header that is in the stream, and a size that wraps is never larger than the true
  one. So no frame within the MTU is left behind.

The queue's bytes, `PeekMultiByte`, the CRC and `Read` are recursive functions. The library's
induction takes an operator, which the provers cannot instantiate; `LeastAndGreatest` states induction
for sets of numbers (`Induction`, `StrongInduction`), from the least element of a set, and that a
function with a recursive definition is what that definition asks (`Recursion`). With these
what the functions compute is proved for every input (`BytesOfConcat`, `DropFacts`, `PeekFacts`, `XorTwice`,
`ReadCases`).

### Service discovery: `ServiceDiscoveryProofs`

| Theorem | Property | For |
|---|---|---|
| `BuffersCorrect` | `BuffersMatch` | every application |
| `StackWritesLiveCorrect` | `StackWritesLive` | `Orderly` |
| `DescsFitCorrect` | `DescsFit` | `Orderly` |
| `AllReportedCorrect` | `AllReported` | `Orderly` |
| `DescriptorsSearchedCorrect` | `DescriptorsSearched` | `Orderly` |

For every set of peers and every size of the buffers. `Orderly` is a premise because without it
they are false: with `Orderly = FALSE` in `discovery.cfg` TLC finds the first of them violated
(section 6).

`BuffersMatch` is inductive. The others rest on `DInv`: either the stack runs a
procedure or one completion is on its way, never both (`OneAtATime`), so the handler only ever
meets an idle stack; a descriptor procedure is given exactly what the descriptors used leave of
the buffer, and so is its completion (`WithinBuffer`). `AllReported` speaks of the end of a
discovery; `RInv` says where it stands before: whatever is searched for the current service, the
reports are those of the services before it (`ReportedSoFar`), and there are none while the
primary services are searched for. `SearchInv` does the same for the characteristics of the
current service: up to the one searched now, each with room for descriptors was searched (`Covered`).
Its step is `AdvanceSearches`, on the loop from one characteristic to the next: it takes the least
one with room, so that those it skips have none.

### GATT database: `GattDatabaseProofs`

| Theorem | Property |
|---|---|
| `TableCorrect` | the type of the table, and that handles ascend |
| `IndexFoundCorrect` | `IndexFound` |
| `RangesAgreeCorrect` | `RangesAgree` |
| `ReportedWholeCorrect` | `ReportedWhole` |
| `HashWhereToldCorrect` | `HashWhereTold` |

For any set of services and any number of handles, with additions that fail anywhere. The
strengthening for the look-ups is `Ascends`: handles ascend and each is at least its place, which is
why the search may start at the handle's own number and go down. `ReportedWhole` needs that what is being
added stands at the end of the table, apart from what was reported. Removal is the hard step, as it moves
every attribute behind it: what remains is the table with an interval of handles left out, and a
service that was whole is outside that interval or in it, never across. `HashWhereTold` needs an order:
the code takes the last Database Hash value of the table, so no older one may lie behind the one
told. `HashInv` says that none does (`LowHashes`), but while a newer hash service is all there and about to be
told (`HashUnderWay`), when no hash can be computed; and that only a service for the hash brings
such a value, with the characteristic that makes it whole (`PlainServices`, `HashInfo`).

### FSCI GATT client: `FsciGattClientProofs`

| Theorem | Property |
|---|---|
| `AccountedCorrect` | `Accounted` |
| `StackWritesLiveCorrect` | `StackWritesLive` |
| `ReportsOwnCorrect` | `ReportsOwn` |
| `PlainCourse` | with `Troubles = {}` no link is ever `troubled` |

For any number of links, requests and troubles. `ClientInv` adds to `Accounted` that the number of
a request is in the entries of its own link only and below the next one, so that a new buffer is in no
entry yet, and says on a link without trouble where the buffers of the running procedure are: in
the temporary entry until the status (`Starting`), in the saved one from then on (`Started`), and
in none when nothing runs. `PlainCourse` shows that
"without trouble" is no empty exception.

### Failed pairings: `RepeatedAttemptsProofs`

| Theorem | Property | For |
|---|---|---|
| `OneEntryEachCorrect` | `OneEntryEach` | everything |
| `TimedCorrect` | `TypeOK`, `Timed`: the timer runs when somebody waits | everything |
| `RefusedExactlyCorrect` | `RefusedExactly` | everything |

For any number of peers, entries and connections, any waits and steps of time. `OneEntryEach` and
`Timed` need only that an entry without a wait is unused (`EmptyIsUnused`). `RefusedExactly` is about time:
`LeftInv` says that what is left of a peer's wait is what its entry says less what has passed since the
timer was started, `SinceStart`. A callback takes that time off every entry and starts the
timer for the least of the rest; an outcome leaves new waits.

### Connection handover: `HandoverProofs`

| Theorem | Property |
|---|---|
| `TypeCorrect` | `TypeOK`, with any faults |
| `CourseKept` | `HandoverInv`: without faults a handover is in one of its phases |
| `RestIsCleanCorrect` | `RestIsClean` |
| `TakenWholeCorrect` | `TakenWhole` |
| `PassesConnectionCorrect` | `PassesConnection`: the anchors implement `ConnectionPass` |
| `KeptCorrect` | `Kept`, with any faults |

For any number of handovers, of packets the link layer has left and of faults. `RestIsClean`,
`TakenWhole` and `PassesConnection` speak of behaviours up to the first fault, in which searches may
fail, as the properties themselves do. All three rest on one invariant, `HandoverInv`. With `s` the anchor that has the connection, the two are
in one of six phases: `Resting`, `Syncing`, `Sharing`, `Searching`, `Failed`, `Resuming`. In `Sharing`
the commands of a handover form one script (stop the time sync, a packet for each event the link layer
reports, the data, the search); with `sent` of them sent and `read` of them handled, what
lies on the line is the stretch between, `s` waits for the calls that produce the rest, and `r` holds
what the first `read` brought. The hard part is that a handover may begin before the last one is
cleaned up: the anchor that gave the connection away may have yet to disconnect while the next
`StartTimeSync` is behind `InformConnect` on the line (`Leaves`), and the other to stop its search and free
its data (`After`). One lemma per phase says which steps it allows and to which phases they lead
(`RestingSteps`, `SyncingSteps`, `SharingSteps`, `SearchingSteps`, `FailedSteps`,
`ResumingSteps`). The connection changes hands only on the step from `Searching` to `Resting`, where it is
suspended; hence the refinement.

`Kept` without faults follows from the phases. With faults there are none: commands are lost, calls fail,
either application aborts at any moment. What remains is a direction, `OneWayAtATime`: as long as
handovers are begun apart, one anchor gives and the other takes (`OneWay`). The giver hears nothing but
`gHandoverInformConnect` and `gHandoverInformFailure` of the handover's end, and its stack is never asked
to transmit a time sync, to search or to connect (`Giver`); the taker never hears that the
connection was taken, and is never asked to suspend it or to disconnect (`Taker`). The giver drops the
connection only when the taker has it (`Dropping`). One lemma per handler says what it may add to calls
and commands (`Growth`), so that a step that stays within a role needs no more than that.

### Only model-checked

Liveness is out of the prover's reach: `TxLockReleased`, `QueueDrains`, `FramerDrains`,
`FramerSettles`, `DiscoveryEnds`, `ServedAgain`, `HandoverEnds`, `Settles`, `EveryWaitEnds`.
Every safety property of a passing run is a theorem.

## 6. Deviations seen in the code that no run shows

These are paths the models have or that were met in reading; the properties above are stated so
that they hold beside them. Where a definition and constants are named, TLC shows the path when
that definition is checked with them.

* `Framer.c:547` tests group *or* opcode for an ACK where line 538 tests both: any frame of the
  ACK's group counts as an acknowledgement (`AckLike`, the board type `"a4"`).
* `PhysicalDevice.c:607`: `retries_left` is decremented, then tested: 0 configured retries become
  256 retransmissions. `ImplementsStopAndWait` needs `NumberOfRetries > 0`.
* `PhysicalDevice.c:562`: after a poll error WaitACK resets an event that is not set, which
  blocks, with the lock held. Liveness of the link is therefore stated without failing calls.
* `PhysicalDevice.c:683`: a wait that fails ends the device thread's loop. The thread waits for its stop
  and ends without stopping or joining WaitACK (so does a thread stopped before its start, line 663). When
  the device is closed and opened again, two WaitACK threads see one start event: both retransmit, each
  with its own budget, and both release the lock, the second while another thread may hold it
  (`LockOthers` without `~doubled` and the constants of `lifecycle.cfg`; one failed poll).
* `PhysicalDevice.c:541`: the stop event of WaitACK is never reset. After an ordinary close the WaitACK of the
  next open ends at once, and the first frame then keeps the lock for ever; the liveness of `session`
  is for devices opened once.
* `PhysicalDevice.c:662`: when the device thread's first wait fails, `triggeredEvent` is read without a value.
* `PhysicalDevice.c:663`: a stop that is there before the device thread's first wait is never reset; a
  device opened again stops at once. Line 545 ends WaitACK without releasing what it may hold.
* `PhysicalDevice.c:242`: a device in error state is freed with its threads running, and its queue is
  cleared under a lock that may be held for a TX or by the framer.
* `PhysicalDevice.c:612`: a frame given up is not freed.
* `PhysicalDevice.c:593`: WaitACK releases the lock, then frees the global `lastTx`, which may be the
  next frame by then; that one is retransmitted from freed memory (`ResendsThatFrame`, the
  constants of `v_stale_ack` with two retries).
* `FSCIFramer.c:239`: when the header of a frame over the MTU comes right behind a valid frame, the length in
  it is taken for that of a frame to come. With fewer bytes than that the framer waits, though
  `FSCILengthField` would drop the header; whole frames behind it stay undelivered until more
  bytes come. `ParsesStream` excepts such streams (`halts`).
* `ble_service_discovery.c:372`, 399 and 426: a refused procedure is ignored and the discovery
  never ends; a refused first procedure leaves it in progress (the constant `MayRefuse`).
* `ble_service_discovery.c:231`: `BleServDisc_Stop` frees the buffers while the stack's procedure runs
  on and writes to them (`StackWritesLive` with `Orderly = FALSE`).
* `ble_service_discovery.c:375`: the descriptor search of a characteristic ends at the next one's value
  handle, not before its declaration as the interface asks (`EndsAtLastHandle`).
* `app_handover.c`, with one fault: a monitor event without RSSI after `Gap_HandoverConnect`, or a
  lost `gHandoverInformConnect` followed by a handover back, lets both anchors transmit; a refused
  or failed time sync call leaves the toggled state one off; an abort before the end of
  suspension leaves transmission suspended; a search starts on an anchor that has aborted.
  The packet of `gHandoverLlPendingData_c` is never freed, which `ble_general.h:1379` asks for.
* `app_handover.c:376`: when there is no memory for a packet left, it is dropped and nobody is told: the handover
  goes on and the connection is taken without it.
* `app_handover.c`, with an abort and a third handover: an application aborts after the search command
  was sent and begins anew at once. The peer takes the connection by the commands of the handover aborted
  and hands it back while those of the second are still queued; the late `gHandoverInformFailure`
  makes it resume, both transmit, each tells the other that it has the connection and both
  disconnect (`Kept` without `apart`, `MaxStarts = 3`, one `"abort"`).
* `app_handover.c:1486`: an abort while the call that starts time synchronization is on its way stops
  nothing; its end then moves the idle anchor to a time sync state (`IdleAtRest`).
* `ble_conn_manager.c:682` and 690: with two connections the address checked and logged is
  that of the last peer connected, so that one peer's failure is another's (`RefusedUntilOver` with
  `MaxConnections = 2`).
* `ble_conn_manager.c:1507`: "replace oldest entry if full". The code replaces the entry with the longest
  remaining wait (1496-1504), which is usually the one that failed last, even when the wait of another
  is over; the peer replaced may pair at once. `NewSlot` is the rule of the code, and no property
  claims the comment's.
* `ble_conn_manager.c:1459`: an outcome that comes in the timer's last milliseconds, no more of them than
  the seconds it ran for, takes fewer seconds off than have passed: at 3 ms of 3 s none at all, so that the
  waits begin again (`NeverProlonged`).
* `ble_conn_manager.c`, privacy: a random address is not renewed when privacy is enabled again; a bond
  made while controller privacy runs reaches no resolving list; host and controller privacy
  can both be on.
* `fsci_ble_gatt.c:6629`: the count of a multiple read is one global; with one read on each of two
  links the first event reports the count of the second (`ReportsCount` with `MaxCount = 2`).
* `fsci_ble_gatt.c`, on a link that met trouble: a reset leaves the saved buffers, and the next
  request's event reports those; a request can be answered by two statuses; an event that comes
  before the status, or a request that comes before the event's buffers are erased, has its
  buffers freed under the stack. `StackWritesLive` and `ReportsOwn` therefore except `troubled`.
* `gatt_database_dynamic.c:124`: the part of a service added before memory ran out stays, and
  nobody has the handle to remove it.
* `gatt_database.c:413`: when the database no longer holds a place for the hash, the hash is still written to
  where the last one went, another attribute or behind the table (`HashInItsPlace` in place of the
  invariants of `gattdb.cfg`).
* `ble_init.c:194`: the transport is taken down before the host's tasks, so a task that sends meanwhile
  finds the buffers freed. `hcit_generic_adapter_interface.c:276` reads a data packet's length
  again from each fragment, so that a second fragment never completes one.

## 7. Plan

Models still worth having: controller privacy of the connection manager (`ble_conn_manager.c:176-1391`),
switched by asynchronous calls; the monitoring half of the handover; the Database Hash read
of the discovery, and an application that stops it inside its callback.

## 8. Not modelled

* The Bluetooth host library is closed. Its headers give the external steps of `ServiceDiscovery`,
  `Handover`, `FsciGattClient` and `GattDatabase`.
* HCI transport: what interleaves is the end of the host with its tasks, which are in the closed
  library, over a platform layer that is not here; section 6 names the two paths seen.
* The timer pool marks entries of the SDK's timer manager, which is not in the repository.
* The rest of `fsci/source`, `fsci/host`, `tools/host_sdk/hsdk-c` and `hsdk-python`: encoders and
  decoders of API calls, written or generated one per call, without control to model. They are most of the
  repository's lines. `fsci/xml` is data.
* GATT profiles, host tasks, start-up, A2B: sequential code that calls the stack, without a
  protocol of its own.
* `hsdk` drivers, discovery of devices, configuration files, logging: operating system calls. Their
  failures appear as faults of `PhysicalDevice`.
* Windows, SPI and PCAP variants of the host SDK; memory allocation in it; attaching and detaching
  observers while frames arrive.
* Of `GattDatabase`: attribute values, permissions and the contents of the hash. Of `FsciGattClient`:
  the encoding of results, and the server half of `fsci_ble_gatt.c`.
