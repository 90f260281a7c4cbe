---------------------------- MODULE FsciGattClient ----------------------------
(***************************************************************************)
(* GATT client commands that come to a board over FSCI (fsci_ble_gatt.c    *)
(* and fsci_ble_gatt_types.c).  A procedure of the stack outlives the      *)
(* command that starts it and writes its results to buffers the command    *)
(* allocates.  They are kept in two tables with an entry for each link, a  *)
(* peer on one of its bearers: a temporary entry until the stack accepts   *)
(* the request, a permanent one until the procedure's event has been sent  *)
(* to the host.  Commands run in the FSCI task, events in the stack's.     *)
(***************************************************************************)
EXTENDS Naturals, FiniteSets

CONSTANTS Link,
          Commands,      \* the requests the host makes
          MaxRequests,
          MaxCount,      \* characteristics a multiple read asks for
          Troubles       \* what may happen besides the plain course of requests

ASSUME FsciGattClientAssumption ==
  /\ Commands \subseteq
       {"DiscoverAllPrimaryServices", "DiscoverPrimaryServicesByUuid",
        "FindIncludedServices", "DiscoverAllCharacteristicsOfService",
        "DiscoverCharacteristicOfServiceByUuid", "DiscoverAllCharacteristicDescriptors",
        "ReadCharacteristicValue", "ReadUsingCharacteristicUuid",
        "ReadMultipleCharacteristicValues", "ReadCharacteristicDescriptors",
        "WriteCharacteristicValue"}
  /\ MaxRequests \in Nat /\ MaxCount \in 1 .. 255
  /\ Troubles \subseteq {"refusal", "reset", "overlap"}

VARIABLES
  tmp,      \* fsciBleGattClientTmpAllocatedManagementInfo
  kept,     \* fsciBleGattClientAllocatedManagementInfo
  heap,     \* buffers allocated and not freed: who asked, of which kind
  nbOfChars,  \* fsciBleGattClientNbOfCharacteristics
  command,  \* what the FSCI task has called, whose status is not sent yet
  proc,     \* procedures the stack runs
  event,    \* event sent by the stack's task, whose information is not erased yet
  requests, \* number of requests so far, which names them
  troubled  \* history: links a refusal, a reset or an overlap has met

vars == <<tmp, kept, heap, nbOfChars, command, proc, event, requests, troubled>>

Kind == {"services", "included", "characteristics", "descriptors", "value", "arraySize"}
NoReq   == 0
Empty   == [k \in Kind |-> NoReq]
Idle    == [req |-> NoReq]
Owned(entry) == {<<entry[k], k>> : k \in {i \in Kind : entry[i] # NoReq}}

-----------------------------------------------------------------------------
(* What an event reads of the information kept, if its procedure succeeded, *)
(* following the pointers from one buffer to the next.                      *)
AllPrimaryServicesEvent    == {"services", "arraySize"}
PrimaryServicesByUuidEvent == {"services", "arraySize"}
\* Variant: as the events of the services above.
IncludedServicesEventSized == {"services", "arraySize"}
IncludedServicesEvent      == {"services", "included"}
AllCharacteristicsEvent    == {"services", "characteristics"}
CharacteristicByUuidEvent  == {"characteristics", "arraySize"}
DescriptorsEvent           == {"characteristics", "descriptors"}
ReadValueEvent             == {"characteristics", "value"}
ReadUsingUuidEvent         == {"value", "arraySize"}
ReadMultipleEvent          == {"characteristics", "value"}
ReadDescriptorEvent        == {"descriptors", "value"}

(* A command: its buffers in the order of their allocation; whether the     *)
(* second one is tried when there is no first, and the API called with one  *)
(* of them only; what its event reads.                                      *)
Nested(first, second, reads) ==
  [kinds |-> <<first, second>>, both |-> FALSE, one |-> FALSE, reads |-> reads]
Both(first, second, reads) ==
  [kinds |-> <<first, second>>, both |-> TRUE, one |-> FALSE, reads |-> reads]

DiscoverAllPrimaryServices ==
  Both("services", "arraySize", AllPrimaryServicesEvent)
DiscoverPrimaryServicesByUuid ==
  [Both("services", "arraySize", PrimaryServicesByUuidEvent) EXCEPT !.one = TRUE]
FindIncludedServices ==
  Nested("services", "included", IncludedServicesEvent)
DiscoverAllCharacteristicsOfService ==
  Nested("services", "characteristics", AllCharacteristicsEvent)
DiscoverCharacteristicOfServiceByUuid ==
  Both("characteristics", "arraySize", CharacteristicByUuidEvent)
DiscoverAllCharacteristicDescriptors ==
  Nested("characteristics", "descriptors", DescriptorsEvent)
ReadCharacteristicValue ==
  Nested("characteristics", "value", ReadValueEvent)
ReadUsingCharacteristicUuid ==
  Both("value", "arraySize", ReadUsingUuidEvent)
ReadMultipleCharacteristicValues ==
  Nested("characteristics", "value", ReadMultipleEvent)
ReadCharacteristicDescriptors ==
  Nested("descriptors", "value", ReadDescriptorEvent)
WriteCharacteristicValue ==
  [kinds |-> <<>>, both |-> FALSE, one |-> FALSE, reads |-> {}]

Request(name) ==
  CASE name = "DiscoverAllPrimaryServices" -> DiscoverAllPrimaryServices
    [] name = "DiscoverPrimaryServicesByUuid" -> DiscoverPrimaryServicesByUuid
    [] name = "FindIncludedServices" -> FindIncludedServices
    [] name = "DiscoverAllCharacteristicsOfService" -> DiscoverAllCharacteristicsOfService
    [] name = "DiscoverCharacteristicOfServiceByUuid" -> DiscoverCharacteristicOfServiceByUuid
    [] name = "DiscoverAllCharacteristicDescriptors" -> DiscoverAllCharacteristicDescriptors
    [] name = "ReadCharacteristicValue" -> ReadCharacteristicValue
    [] name = "ReadUsingCharacteristicUuid" -> ReadUsingCharacteristicUuid
    [] name = "ReadMultipleCharacteristicValues" -> ReadMultipleCharacteristicValues
    [] name = "ReadCharacteristicDescriptors" -> ReadCharacteristicDescriptors
    [] name = "WriteCharacteristicValue" -> WriteCharacteristicValue

-----------------------------------------------------------------------------
Init ==
  /\ tmp = [l \in Link |-> Empty] /\ kept = [l \in Link |-> Empty]
  /\ heap = {} /\ nbOfChars = 0 /\ requests = 0
  /\ command = Idle /\ event = Idle
  /\ proc = [l \in Link |-> Idle]
  /\ troubled = {}

\* A buffer comes from an empty place and from the heap, if that has one.
Obtained(l, kinds, short) == {k \in kinds : tmp[l][k] = NoReq /\ k \notin short}

KindsOf(r) == {r.kinds[i] : i \in DOMAIN r.kinds}
Tried(l, r, short) ==
  IF r.both THEN KindsOf(r)
  ELSE IF r.kinds = <<>> \/ Obtained(l, {r.kinds[1]}, short) # {} THEN KindsOf(r)
  ELSE {r.kinds[1]}

\* ErasePermanentOrTmpInfo, of one link's entry in one of the tables.
EraseTmpInfo(l) ==
  /\ heap' = heap \ Owned(tmp[l])
  /\ tmp' = [tmp EXCEPT ![l] = Empty]

\* Variant: the entries of all links are cleared.
EraseAllInfo(l) ==
  /\ heap' = heap \ UNION {Owned(kept[j]) : j \in Link}
  /\ kept' = [j \in Link |-> Empty]

EraseInfo(l) ==
  /\ heap' = heap \ Owned(kept[l])
  /\ kept' = [kept EXCEPT ![l] = Empty]

\* The stack runs one procedure on a link; it refuses a second one, NULL for a buffer,
\* and for reasons of its own whatever it likes.
Refuses(l, complete) == proc[l] # Idle \/ ~complete \/ "refusal" \in Troubles

\* A request of the host, up to the return of the call to the stack or to an error.
Handle(l, name, count, short) ==
  LET r     == Request(name)
      req   == requests + 1
      tried == Tried(l, r, short)
      got   == Obtained(l, tried, short)
      full  == got = KindsOf(r)
      calls == full \/ (r.one /\ got # {})
  IN  /\ requests' = req
      /\ nbOfChars' = IF name = "ReadMultipleCharacteristicValues" THEN count
                      ELSE nbOfChars
      /\ tmp' = [tmp EXCEPT ![l] = [k \in Kind |-> IF k \in got THEN req ELSE @[k]]]
      /\ heap' = heap \cup {<<req, k>> : k \in got}
      /\ \/ /\ calls /\ full /\ proc[l] = Idle
            /\ command' = [req |-> req, link |-> l, accepted |-> TRUE,
                           out |-> r.kinds # <<>>]
            /\ proc' = [proc EXCEPT ![l] =
                          [req |-> req, name |-> name, count |-> nbOfChars']]
            /\ troubled' = IF event # Idle /\ event.link = l
                           THEN troubled \cup {l} ELSE troubled
         \/ /\ calls /\ Refuses(l, full)
            /\ command' = [req |-> req, link |-> l, accepted |-> FALSE,
                           out |-> r.kinds # <<>>]
            /\ troubled' = troubled \cup {l}
            /\ UNCHANGED proc
         \/ /\ ~calls
            /\ troubled' = troubled \cup {l}
            /\ UNCHANGED <<command, proc>>
      /\ UNCHANGED <<kept, event>>

Command(l, name, count, short) ==
  /\ command = Idle /\ requests < MaxRequests
  /\ short # {} \/ proc[l] # Idle => "refusal" \in Troubles
  /\ event # Idle /\ event.link = l => "overlap" \in Troubles
  /\ Handle(l, name, count, short)

\* A multiple read with a value too long: the characteristics are there already.
CommandTooLong(l, count) ==
  /\ command = Idle /\ requests < MaxRequests
  /\ requests' = requests + 1
  /\ nbOfChars' = count
  /\ tmp[l]["characteristics"] = NoReq
  /\ EraseTmpInfo(l)
  /\ UNCHANGED <<kept, command, proc, event, troubled>>

\* GattClient_ResetProcedure: the stack drops its procedures, no event comes of them.
ResetProcedures ==
  /\ command = Idle /\ requests < MaxRequests
  /\ "reset" \in Troubles
  /\ requests' = requests + 1
  /\ proc' = [l \in Link |-> Idle]
  /\ troubled' = troubled \cup {l \in Link : proc[l] # Idle}
  /\ command' = [req |-> requests', accepted |-> TRUE, out |-> FALSE]
  /\ UNCHANGED <<tmp, kept, heap, nbOfChars, event>>

\* Variant: the temporary entry is copied, not moved.
KeepInfoCopies ==
  /\ kept' = [l \in Link |-> IF kept[l] = Empty THEN tmp[l] ELSE kept[l]]
  /\ UNCHANGED tmp

\* Every temporary entry moves to its permanent one if that is free.
KeepInfo ==
  /\ kept' = [l \in Link |-> IF kept[l] = Empty THEN tmp[l] ELSE kept[l]]
  /\ tmp'  = [l \in Link |-> IF kept[l] = Empty THEN Empty ELSE tmp[l]]

\* fsciBleGattStatusMonitor.  EraseTmpInfo(.., gInvalidDeviceId_c, ..), called for a
\* rejected request, clears the table of information saved and not that allocated.
StatusMonitor ==
  /\ command # Idle
  /\ IF command.out /\ command.accepted THEN KeepInfo ELSE UNCHANGED <<tmp, kept>>
  /\ command' = Idle
  /\ UNCHANGED <<heap, nbOfChars, proc, event, requests, troubled>>

\* The stack ends a procedure and calls back; the event goes to the host.
ProcedureEvent(l, ok) ==
  /\ event = Idle /\ proc[l] # Idle
  /\ LET overlaps == command # Idle /\ command.req = proc[l].req
     IN  /\ overlaps => "overlap" \in Troubles
         /\ troubled' = IF overlaps THEN troubled \cup {l} ELSE troubled
  /\ event' = [req |-> proc[l].req, link |-> l, read |-> kept[l],
               kinds |-> IF ok THEN Request(proc[l].name).reads ELSE {},
               asked |-> proc[l].count,
               count |-> IF ok /\ proc[l].name = "ReadMultipleCharacteristicValues"
                         THEN nbOfChars ELSE proc[l].count]
  /\ proc' = [proc EXCEPT ![l] = Idle]
  /\ UNCHANGED <<tmp, kept, heap, nbOfChars, command, requests>>

\* fsciBleGattClientProcedureEvtMonitor, after the event has been sent.
EventSent ==
  /\ event # Idle
  /\ EraseInfo(event.link)
  /\ event' = Idle
  /\ UNCHANGED <<tmp, nbOfChars, command, proc, requests, troubled>>

Host ==
  \E l \in Link :
    \/ \E name \in Commands, count \in 1 .. MaxCount :
         /\ name = "ReadMultipleCharacteristicValues" \/ count = 1
         /\ \E short \in SUBSET KindsOf(Request(name)) : Command(l, name, count, short)
    \/ \E count \in 1 .. MaxCount : CommandTooLong(l, count)

Next ==
  \/ Host \/ ResetProcedures \/ StatusMonitor \/ EventSent
  \/ \E l \in Link, ok \in BOOLEAN : ProcedureEvent(l, ok)

Spec == Init /\ [][Next]_vars

-----------------------------------------------------------------------------
(* Properties.                                                             *)

\* Whatever is refused, reset or overtaken, a buffer that is allocated is in one place
\* of one table, and no table holds one that was freed: nothing is lost or freed twice
\* (KeepInfo, EraseInfo, EraseTmpInfo).
Accounted ==
  /\ heap = UNION {Owned(tmp[l]) \cup Owned(kept[l]) : l \in Link}
  /\ \A l, m \in Link : /\ Owned(tmp[l]) \cap Owned(kept[m]) = {}
                        /\ l # m => /\ Owned(tmp[l]) \cap Owned(tmp[m]) = {}
                                    /\ Owned(kept[l]) \cap Owned(kept[m]) = {}

\* On a link that met no trouble, whatever other links meet, the buffers of a procedure
\* the stack runs are there until it ends.
StackWritesLive ==
  \A l \in Link \ troubled :
    proc[l] # Idle => \A k \in KindsOf(Request(proc[l].name)) : <<proc[l].req, k>> \in heap

\* On such a link an event reports the results of its own procedure, "the information
\* kept when the procedure was started".
ReportsOwn ==
  event # Idle /\ event.link \notin troubled =>
    \A k \in event.kinds : event.read[k] = event.req

\* A multiple read is reported with as many characteristics as were asked for.
ReportsCount == event # Idle => event.count = event.asked

\* Nothing temporary is left when a request has been answered: "Erase the information
\* because the procedure was rejected".
RejectedErased == command = Idle => \A l \in Link : tmp[l] = Empty
=============================================================================
