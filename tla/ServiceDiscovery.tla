-------------------------- MODULE ServiceDiscovery --------------------------
(***************************************************************************)
(* The service discovery module of an application (application/common/     *)
(* ble_service_discovery.c) for one peer: it has the stack discover the     *)
(* primary services, then the characteristics of each service, then the    *)
(* descriptors of each characteristic that has room for some, and reports  *)
(* each service to the application.                                        *)
(*                                                                         *)
(* The stack (host/interface/gatt_client_interface.h) runs one procedure at *)
(* a time on the host task, writes what it finds into the buffers it was    *)
(* given and sends a completion event, which the application hands to       *)
(* SignalGattClientEvent on its own task, later.  The entries of            *)
(* maServDiscInfo share nothing, so one peer stands for all.               *)
(***************************************************************************)
EXTENDS Integers, Sequences, FiniteSetsExt

CONSTANTS
  Databases,    \* what a peer may have: sequences of services
  MaxServices,  \* gMaxServicesCount_d
  MaxChars,     \* gMaxServiceCharCount_d
  MaxDescs,     \* gMaxCharDescriptorsCount_d
  Garbage,      \* handles that memory nobody wrote may hold
  MayRefuse,    \* the stack may have no memory for a request
  Orderly,      \* the application stops a discovery on a disconnection only, and begins
                \* none before it has seen every event of the last
  MaxStarts     \* bound: discoveries begun

ASSUME DiscoveryAssumption ==
  /\ MaxServices \in Nat \ {0} /\ MaxChars \in Nat \ {0} /\ MaxDescs \in Nat \ {0}
  /\ MaxStarts \in Nat /\ Orderly \in BOOLEAN /\ MayRefuse \in BOOLEAN
  /\ Garbage \subseteq 0 .. 65535 /\ Garbage # {}

\* A service is its last handle and the value handles of its characteristics, the
\* declaration of each in the handle before, its descriptors behind.
Services == [end : 1 .. 65535, values : Seq(1 .. 65535)]
ASSUME DatabasesAssumption ==
  /\ Databases \subseteq Seq(Services)
  /\ \A db \in Databases : \A s \in 1 .. Len(db) : db[s].values \in Seq(1 .. db[s].end)

Buffers == {"service", "char", "descriptor"}

VARIABLES
  database,    \* the peer's services
  inProgress,  \* mServDiscInProgress
  buffers,     \* the buffers allocated
  cleared,     \* the characteristics buffer was zeroed since its allocation
  found,       \* mcPrimaryServices services in the service buffer
  svc, char, desc,   \* mCurrentServiceInDiscoveryIndex, ...Char..., ...Desc...
  nChars,      \* cNumCharacteristics of the current service
  nDescs,      \* cNumDescriptors of the characteristic searched last
  proc,        \* the stack's procedure, or NoProc
  events,      \* completion events on their way to the application's task
  starts, asked, reported, outcome   \* history of the discovery

buffering == <<buffers, cleared>>
indices   == <<svc, char, desc>>
history   == <<asked, reported, outcome>>
vars == <<database, inProgress, buffering, found, indices, nChars, nDescs,
          proc, events, starts, history>>

NoProc == [type |-> "none", svc |-> 0, char |-> 0, end |-> 0, max |-> 0]
Primary(max) == [NoProc EXCEPT !.type = "primary", !.max = max]
Chars(s)     == [NoProc EXCEPT !.type = "chars", !.svc = s, !.max = MaxChars]
Descs(s, c, end, max) ==
  [type |-> "descs", svc |-> s, char |-> c, end |-> end, max |-> max]

Service == found[svc + 1]
AtMost(m, n) == IF m < n THEN m ELSE n

Init ==
  /\ database \in Databases
  /\ inProgress = FALSE /\ buffers = {} /\ cleared = FALSE
  /\ found = <<>> /\ svc = 0 /\ char = 0 /\ desc = 0 /\ nChars = 0 /\ nDescs = 0
  /\ proc = NoProc /\ events = <<>>
  /\ starts = 0 /\ asked = {} /\ reported = <<>> /\ outcome = "none"

-----------------------------------------------------------------------------
(* The stack.                                                              *)

\* A procedure called for while another one runs is refused, as it may be for lack
\* of memory.  The module looks at the result of the first call only, to return it.
Call(p) ==
  proc' \in IF proc # NoProc THEN {proc}
            ELSE {p} \union (IF MayRefuse THEN {NoProc} ELSE {})

Complete(p, result) ==
  /\ proc = p /\ proc' = NoProc
  /\ events' = Append(events, [type |-> p.type, ok |-> result])
  /\ UNCHANGED <<database, inProgress, buffering, indices, starts, history>>

\* One service may be asked for by its UUID, which any of the peer's may have.
PrimaryDone ==
  /\ proc.type = "primary" /\ Complete(proc, TRUE)
  /\ found' \in IF proc.max = MaxServices
                THEN {SubSeq(database, 1, AtMost(MaxServices, Len(database)))}
                ELSE {<<>>} \union {<<database[s]>> : s \in 1 .. Len(database)}
  /\ UNCHANGED <<nChars, nDescs>>

CharsDone ==
  /\ proc.type = "chars" /\ Complete(proc, TRUE)
  /\ nChars' = AtMost(proc.max, Len(found[proc.svc + 1].values))
  /\ UNCHANGED <<found, nDescs>>

\* The stack finds descriptors among the handles behind the value's.
DescsDone ==
  /\ proc.type = "descs" /\ Complete(proc, TRUE)
  /\ nDescs' \in 0 .. proc.max
  /\ nDescs' <= proc.end - found[proc.svc + 1].values[proc.char + 1]
  /\ UNCHANGED <<found, nChars>>

ProcFails ==
  /\ proc # NoProc /\ Complete(proc, FALSE)
  /\ UNCHANGED <<found, nChars, nDescs>>

Stack == PrimaryDone \/ CharsDone \/ DescsDone \/ ProcFails

-----------------------------------------------------------------------------
(* The module.                                                             *)

\* Start, keeping what it got when an allocation fails.
BeginLeaks(max) ==
  /\ ~inProgress /\ starts < MaxStarts /\ starts' = starts + 1
  /\ Orderly => events = <<>>
  /\ \E got \in SUBSET Buffers :
       /\ inProgress' = (got = Buffers) /\ buffers' = got
       /\ IF got = Buffers THEN Call(Primary(max)) ELSE UNCHANGED proc
  /\ cleared' = FALSE /\ asked' = {} /\ reported' = <<>> /\ outcome' = "none"
  /\ UNCHANGED <<database, found, indices, nChars, nDescs, events>>

\* BleServDisc_Start and BleServDisc_FindService up to their calls of the stack: any
\* allocation may fail, and Reset frees the others.
Begin(max) ==
  /\ ~inProgress /\ starts < MaxStarts /\ starts' = starts + 1
  /\ Orderly => events = <<>>
  /\ \E got \in SUBSET Buffers :
       /\ inProgress' = (got = Buffers)
       /\ buffers' = IF got = Buffers THEN got ELSE {}
       /\ IF got = Buffers THEN Call(Primary(max)) ELSE UNCHANGED proc
  /\ cleared' = FALSE /\ asked' = {} /\ reported' = <<>> /\ outcome' = "none"
  /\ UNCHANGED <<database, found, indices, nChars, nDescs, events>>

Start       == Begin(MaxServices)
FindService == MaxServices > 1 /\ Begin(1)

\* BleServDisc_Stop by the application: on a disconnection, with which the stack drops
\* its procedure, or, not Orderly, whenever it likes.
Stop ==
  /\ inProgress /\ inProgress' = FALSE
  /\ proc' = IF Orderly THEN NoProc ELSE proc
  /\ buffers' = {} /\ outcome' = "stopped"
  /\ UNCHANGED <<database, cleared, found, indices, nChars, nDescs, events, starts,
                 asked, reported>>

\* BleServDisc_Finished.
Finished(success) ==
  /\ inProgress' = FALSE /\ buffers' = {}
  /\ outcome' = IF success THEN "success" ELSE "failure"

\* Characteristic discovery for the service with index s.
DiscoverChars(s) == Call(Chars(s)) /\ asked' = {}

\* Report, which leaves the next service to an event that does not come.
ReportOnly(d) ==
  /\ reported' = Append(reported, [service |-> Service, asked |-> asked,
                                   full |-> d >= MaxDescs])
  /\ svc' = svc + 1 /\ char' = 0 /\ desc' = 0 /\ cleared' = TRUE
  /\ IF svc + 1 < Len(found)
     THEN UNCHANGED <<inProgress, buffers, outcome, proc, asked>>
     ELSE Finished(TRUE) /\ UNCHANGED <<proc, asked>>

\* Report, done after the service before the last.
ReportEarly(d) ==
  /\ reported' = Append(reported, [service |-> Service, asked |-> asked,
                                   full |-> d >= MaxDescs])
  /\ svc' = svc + 1 /\ char' = 0 /\ desc' = 0 /\ cleared' = TRUE
  /\ IF svc + 2 < Len(found)
     THEN DiscoverChars(svc + 1) /\ UNCHANGED <<inProgress, buffers, outcome>>
     ELSE Finished(TRUE) /\ UNCHANGED <<proc, asked>>

\* The service is reported; the next one's characteristics are discovered, or the
\* discovery is done.  d is the number of descriptors used.
Report(d) ==
  /\ reported' = Append(reported, [service |-> Service, asked |-> asked,
                                   full |-> d >= MaxDescs])
  /\ svc' = svc + 1 /\ char' = 0 /\ desc' = 0 /\ cleared' = TRUE
  /\ IF svc + 1 < Len(found)
     THEN DiscoverChars(svc + 1) /\ UNCHANGED <<inProgress, buffers, outcome>>
     ELSE Finished(TRUE) /\ UNCHANGED <<proc, asked>>

\* Discover the descriptors of characteristic c, for as many as the whole buffer takes.
DiscoverDescsUnbounded(c, index, end, d) ==
  /\ Call(Descs(svc, c, end, MaxDescs))
  /\ char' = index /\ desc' = d /\ asked' = asked \union {c}
  /\ UNCHANGED <<inProgress, buffering, svc, reported, outcome>>

\* DiscoverDescs without the return behind it.
DiscoverDescsFallsThrough(c, index, end, d) ==
  /\ Call(Descs(svc, c, end, MaxDescs - d))
  /\ reported' = Append(reported, [service |-> Service, asked |-> asked,
                                   full |-> d >= MaxDescs])
  /\ svc' = svc + 1 /\ char' = 0 /\ desc' = 0 /\ cleared' = TRUE /\ asked' = {}
  /\ IF svc + 1 < Len(found) THEN UNCHANGED <<inProgress, buffers, outcome>>
     ELSE Finished(TRUE)

\* Discover the descriptors of characteristic c up to a handle; index becomes the
\* current characteristic.
DiscoverDescs(c, index, end, d) ==
  /\ Call(Descs(svc, c, end, MaxDescs - d))
  /\ char' = index /\ desc' = d /\ asked' = asked \union {c}
  /\ UNCHANGED <<inProgress, buffering, svc, reported, outcome>>

\* The handle the code reads behind the last characteristic of a service.
BehindLast == IF cleared /\ nChars < MaxChars THEN {0} ELSE Garbage

\* HasGap, off by one.
HasGapOfTwo(value, next) == value + 3 < next
\* Handles between two characteristics, besides the value and the declaration.
HasGap(value, next) == value + 2 < next

\* The descriptors of the next characteristic from c on that has a gap behind it, or
\* of the last one, which is compared with what lies behind it in memory first and
\* with the end of the service then; or else the next service.
Advance(c, d) ==
  \E behind \in BehindLast :
    LET value    == Service.values
        Next(i)  == IF i + 1 < nChars THEN value[i + 2] ELSE behind
        WithGap  == {i \in c .. nChars - 1 : HasGap(value[i + 1], Next(i))}
    IN IF WithGap # {} /\ d < MaxDescs
       THEN LET i == Min(WithGap) IN DiscoverDescs(i, i, Next(i), d)
       ELSE IF c < nChars /\ d < MaxDescs /\ value[nChars] < Service.end
       THEN DiscoverDescs(nChars - 1, nChars, Service.end, d)
       ELSE Report(d)

\* BleServDisc_SignalGattClientEvent, on an event from the queue.
Signal(type, ok) ==
  /\ events # <<>> /\ Head(events) = [type |-> type, ok |-> ok]
  /\ events' = Tail(events)
  /\ UNCHANGED <<database, found, nChars, nDescs, starts>>

SignalIgnored ==
  /\ ~inProgress /\ \E e \in {"primary", "chars", "descs"}, ok \in BOOLEAN : Signal(e, ok)
  /\ UNCHANGED <<inProgress, buffering, indices, proc, history>>

SignalError ==
  /\ inProgress /\ \E e \in {"primary", "chars", "descs"} : Signal(e, FALSE)
  /\ Finished(FALSE)
  /\ UNCHANGED <<cleared, indices, proc, asked, reported>>

SignalPrimary ==
  /\ inProgress /\ Signal("primary", TRUE)
  /\ IF found # <<>>
     THEN /\ svc' = 0 /\ char' = 0 /\ desc' = 0
          /\ DiscoverChars(0) /\ UNCHANGED <<inProgress, buffers, outcome>>
     ELSE Finished(TRUE) /\ UNCHANGED <<indices, proc, asked>>
  /\ UNCHANGED <<cleared, reported>>

SignalChars == inProgress /\ Signal("chars", TRUE) /\ Advance(char, desc)

SignalDescs == inProgress /\ Signal("descs", TRUE) /\ Advance(char + 1, desc + nDescs)

SignalGattClientEvent ==
  SignalIgnored \/ SignalError \/ SignalPrimary \/ SignalChars \/ SignalDescs

App  == Start \/ FindService \/ Stop
Next == Stack \/ App \/ SignalGattClientEvent

Spec == Init /\ [][Next]_vars

\* The stack completes its procedures, the application's task handles its events.
FairSpec == Spec /\ WF_vars(Stack) /\ WF_vars(SignalGattClientEvent)

-----------------------------------------------------------------------------
(* Correctness.                                                            *)

\* The values each part of the state may have; no more descriptors are counted than
\* their buffer holds.
TypeOK ==
  /\ database \in Databases /\ inProgress \in BOOLEAN /\ buffers \subseteq Buffers
  /\ cleared \in BOOLEAN /\ starts \in 0 .. MaxStarts
  /\ Len(found) \in 0 .. MaxServices /\ svc \in 0 .. MaxServices
  /\ char \in 0 .. MaxChars /\ desc \in 0 .. MaxDescs
  /\ nChars \in 0 .. MaxChars /\ nDescs \in 0 .. MaxDescs
  /\ proc.type \in {"none", "primary", "chars", "descs"}
  /\ outcome \in {"none", "stopped", "success", "failure"}

\* The three buffers exist exactly while a discovery is in progress, whichever
\* allocations failed and however the last one ended (BleServDisc_Reset).
BuffersMatch == buffers = IF inProgress THEN Buffers ELSE {}

\* The stack is never running a procedure whose results go to buffers given back.
StackWritesLive == proc # NoProc => inProgress

\* A descriptor procedure cannot find more than the buffer has left, so that no
\* descriptor is written behind it.
DescsFit == proc.type = "descs" => desc + proc.max <= MaxDescs

\* A discovery that ends with success has reported every service found, once and in
\* the order of the peer's database.
AllReported ==
  outcome = "success" =>
    /\ Len(reported) = Len(found)
    /\ \A i \in 1 .. Len(found) : reported[i].service = found[i]

\* Whether handles are left for descriptors of characteristic i of a service.
HasRoom(s, i) ==
  IF i < Len(s.values) THEN s.values[i] + 2 < s.values[i + 1]
  ELSE s.values[i] < s.end

\* Every characteristic of a reported service that can have descriptors was searched
\* for them, unless the descriptor buffer was full when the service was reported.
DescriptorsSearched ==
  \A r \in {reported[k] : k \in 1 .. Len(reported)} :
    r.full \/ \A i \in 1 .. AtMost(MaxChars, Len(r.service.values)) :
                HasRoom(r.service, i) => i - 1 \in r.asked

\* gatt_client_interface.h says of endingHandle that it is the last handle of the
\* characteristic, the next one's declaration less one.
EndsAtLastHandle ==
  proc.type = "descs" =>
    LET s == found[proc.svc + 1] IN
      proc.end = IF proc.char + 1 < Len(s.values) THEN s.values[proc.char + 2] - 2
                 ELSE s.end

\* A discovery comes to its end: every event starts another procedure or ends it.
DiscoveryEnds == inProgress ~> ~inProgress

=============================================================================
