----------------------- MODULE ServiceDiscoveryProofs -----------------------
(***************************************************************************)
(* Theorems about ServiceDiscovery for every peer and every size of the     *)
(* buffers: the buffers exist exactly while they are used, the stack is     *)
(* never told that a buffer holds more than it does, and a discovery that   *)
(* ends well has reported every service, searched for descriptors wherever  *)
(* there are handles for some.                                             *)
(***************************************************************************)
EXTENDS ServiceDiscovery, LeastAndGreatest, TLAPS

\* What a step of the handler does to the memory the discovery holds.
Ends  == inProgress' = FALSE /\ buffers' = {}
Keeps == UNCHANGED <<inProgress, buffers>>

LEMMA ReportBuffers == \A d : Report(d) => Ends \/ Keeps
  BY DEF Report, Finished, Ends, Keeps

LEMMA AdvanceBuffers == \A c, d : Advance(c, d) => Ends \/ Keeps
  <1> SUFFICES ASSUME NEW c, NEW d, Advance(c, d) PROVE Ends \/ Keeps
    OBVIOUS
  <1>1. \/ \E i, j, end : DiscoverDescs(i, j, end, d)
        \/ Report(d)
    BY DEF Advance
  <1> QED BY <1>1, ReportBuffers DEF DiscoverDescs, buffering, Keeps

LEMMA SignalBuffers == SignalGattClientEvent => Ends \/ Keeps
  <1> SUFFICES ASSUME SignalGattClientEvent PROVE Ends \/ Keeps
    OBVIOUS
  <1>1. CASE SignalIgnored
    BY <1>1 DEF SignalIgnored, buffering, Keeps
  <1>2. CASE SignalError
    BY <1>2 DEF SignalError, Finished, Ends
  <1>3. CASE SignalPrimary
    BY <1>3 DEF SignalPrimary, Finished, Ends, Keeps
  <1>4. CASE SignalChars \/ SignalDescs
    BY <1>4, AdvanceBuffers DEF SignalChars, SignalDescs
  <1> QED BY <1>1, <1>2, <1>3, <1>4 DEF SignalGattClientEvent

LEMMA StackBuffers == Stack => Keeps
  BY DEF Stack, PrimaryDone, CharsDone, DescsDone, ProcFails, Complete, buffering, Keeps

\* The three buffers are allocated exactly while a discovery is in progress, whichever
\* allocations and procedures fail and whenever the application stops it: none is leaked
\* and none is freed twice.
THEOREM BuffersCorrect == Spec => []BuffersMatch
  <1>1. Init => BuffersMatch
    BY DEF Init, BuffersMatch
  <1>2. BuffersMatch /\ [Next]_vars => BuffersMatch'
    <2> SUFFICES ASSUME BuffersMatch, [Next]_vars PROVE BuffersMatch'
      OBVIOUS
    <2> USE DEF BuffersMatch
    <2>1. CASE Stack
      BY <2>1, StackBuffers DEF Keeps
    <2>2. CASE Start \/ FindService
      BY <2>2 DEF Start, FindService, Begin
    <2>3. CASE Stop
      BY <2>3 DEF Stop
    <2>4. CASE SignalGattClientEvent
      BY <2>4, SignalBuffers DEF Ends, Keeps
    <2>5. CASE UNCHANGED vars
      BY <2>5 DEF vars, buffering
    <2> QED BY <2>1, <2>2, <2>3, <2>4, <2>5 DEF Next, App
  <1> QED BY <1>1, <1>2, PTL DEF Spec

-----------------------------------------------------------------------------
(* What follows needs an application that stops a discovery on a            *)
(* disconnection only and begins none before it saw every event of the last *)
(* (Orderly).  Then either the stack runs a procedure or its completion is  *)
(* on its way to the application, never both, and only one.                 *)

Events == [type : {"primary", "chars", "descs", "none"}, ok : BOOLEAN]

OneAtATime ==
  /\ events = <<>> \/ \E e \in Events : events = <<e>>
  /\ proc.type \in {"primary", "chars", "descs", "none"}
  /\ proc # NoProc => events = <<>>

\* What the descriptors found, or those that may still be found, add to the ones used
\* stays within the buffer.
WithinBuffer ==
  /\ desc \in 0 .. MaxDescs /\ nDescs \in Nat
  /\ proc.type = "descs" => proc.max = MaxDescs - desc
  /\ events = <<[type |-> "descs", ok |-> TRUE]>> => desc + nDescs <= MaxDescs

LEMMA Sizes == MaxDescs \in Nat /\ MaxServices \in Nat
  BY DiscoveryAssumption

DInv == OneAtATime /\ StackWritesLive /\ WithinBuffer

\* A call of an idle stack either runs the procedure or leaves it idle.
LEMMA IdleCall ==
  ASSUME NEW p, proc = NoProc, Call(p)
  PROVE  proc' = p \/ proc' = NoProc
  BY DEF Call

\* What fits in the rest of a buffer fits in it with what it holds already.
LEMMA RoomLeft ==
  \A m \in Nat : \A d \in 0 .. m : \A n \in 0 .. m - d : n \in Nat /\ d + n <= m
  OBVIOUS

LEMMA DiscoveryStack == DInv /\ Stack => DInv'
  <1> SUFFICES ASSUME DInv, Stack PROVE DInv'
    OBVIOUS
  <1> USE DEF DInv, OneAtATime, StackWritesLive, WithinBuffer
  <1>1. PICK ok \in BOOLEAN : proc # NoProc /\ Complete(proc, ok)
    <2>1. proc.type # "none" => proc # NoProc
      BY DEF NoProc
    <2>2. CASE PrimaryDone \/ CharsDone \/ DescsDone
      BY <2>1, <2>2 DEF PrimaryDone, CharsDone, DescsDone
    <2>3. CASE ProcFails
      BY <2>3 DEF ProcFails
    <2> QED BY <2>2, <2>3 DEF Stack
  <1>2. /\ proc' = NoProc /\ desc' = desc /\ events = <<>>
        /\ events' = <<[type |-> proc.type, ok |-> ok]>>
    BY <1>1 DEF Complete, indices
  <1>3. OneAtATime' /\ StackWritesLive'
    BY <1>2 DEF Events, NoProc
  <1>4. nDescs' \in Nat /\ (proc.type = "descs" /\ ok => desc + nDescs' <= MaxDescs)
    <2>1. CASE PrimaryDone \/ CharsDone
      BY <2>1, <1>1, Sizes DEF PrimaryDone, CharsDone
    <2>2. CASE DescsDone
      <3>1. proc.max = MaxDescs - desc
        BY <2>2, Sizes DEF DescsDone
      <3>2. nDescs' \in 0 .. MaxDescs - desc
        BY <2>2, <3>1 DEF DescsDone
      <3>3. desc \in 0 .. MaxDescs
        OBVIOUS
      <3>4. nDescs' \in Nat /\ desc + nDescs' <= MaxDescs
        BY <3>2, <3>3, Sizes, RoomLeft
      <3> QED BY <3>4
    <2>3. CASE ProcFails
      <3>1. events' = Append(events, [type |-> proc.type, ok |-> FALSE])
        BY <2>3 DEF ProcFails, Complete
      <3>2. ok = FALSE
        BY <3>1, <1>2
      <3> QED BY <2>3, <3>2 DEF ProcFails
    <2> QED BY <2>1, <2>2, <2>3 DEF Stack
  <1>5. WithinBuffer'
    BY <1>2, <1>4, Sizes DEF NoProc
  <1> QED BY <1>3, <1>5

LEMMA DiscoveryApp == Orderly /\ DInv /\ App => DInv'
  <1> SUFFICES ASSUME Orderly, DInv, App PROVE DInv'
    OBVIOUS
  <1> USE DEF DInv, OneAtATime, StackWritesLive, WithinBuffer
  <1>1. CASE Stop
    BY <1>1, Sizes DEF Stop, indices, NoProc
  <1>2. ASSUME NEW max, Begin(max) PROVE DInv'
    <2>1. /\ proc = NoProc /\ events = <<>>
          /\ UNCHANGED <<events, desc, nDescs>>
      BY <1>2 DEF Begin, indices
    <2>2. proc' = NoProc \/ (inProgress' /\ proc' = Primary(max))
      BY <1>2, <2>1, IdleCall DEF Begin
    <2> QED BY <2>1, <2>2 DEF NoProc, Primary
  <1> QED BY <1>1, <1>2 DEF App, Start, FindService

\* Reporting a service uses up no descriptor.
LEMMA DiscoveryReport ==
  ASSUME proc = NoProc, inProgress, NEW d, Report(d)
  PROVE  /\ desc' = 0
         /\ proc' = NoProc \/ (inProgress' /\ proc'.type = "chars")
  BY IdleCall DEF Report, Finished, DiscoverChars, Chars, NoProc

\* The search for descriptors goes on with what the ones used leave of the buffer.
LEMMA DiscoveryAdvance ==
  ASSUME proc = NoProc, inProgress, NEW c, NEW d \in 0 .. MaxDescs, Advance(c, d)
  PROVE  /\ desc' \in {0, d}
         /\ \/ proc' = NoProc
            \/ inProgress' /\ proc'.type = "chars"
            \/ inProgress' /\ proc'.type = "descs" /\ proc'.max = MaxDescs - desc'
  <1>1. CASE \E i, j, end : DiscoverDescs(i, j, end, d)
    <2>1. PICK i, j, end : DiscoverDescs(i, j, end, d)
      BY <1>1
    <2>2. desc' = d /\ inProgress'
      BY <2>1 DEF DiscoverDescs
    <2>3. proc' = NoProc \/ proc' = Descs(svc, i, end, MaxDescs - d)
      BY <2>1, IdleCall DEF DiscoverDescs
    <2> QED BY <2>2, <2>3, Sizes DEF Descs
  <1>2. CASE Report(d)
    BY <1>2, DiscoveryReport
  <1> QED BY <1>1, <1>2 DEF Advance

\* The event handled is the only one, and the stack is idle.
LEMMA SignalTakes ==
  ASSUME OneAtATime, NEW type, NEW ok, Signal(type, ok)
  PROVE  /\ events = <<[type |-> type, ok |-> ok]>> /\ events' = <<>>
         /\ proc = NoProc
  <1>1. events # <<>> /\ Head(events) = [type |-> type, ok |-> ok] /\ events' = Tail(events)
    BY DEF Signal
  <1>2. PICK e \in Events : events = <<e>>
    BY <1>1 DEF OneAtATime
  <1>3. e = [type |-> type, ok |-> ok]
    BY <1>1, <1>2
  <1> QED BY <1>1, <1>2, <1>3 DEF OneAtATime

LEMMA DiscoverySignal == DInv /\ SignalGattClientEvent => DInv'
  <1> SUFFICES ASSUME DInv, SignalGattClientEvent PROVE DInv'
    OBVIOUS
  <1> USE DEF DInv, OneAtATime, StackWritesLive, WithinBuffer
  <1>1. ASSUME NEW type, NEW ok, Signal(type, ok)
        PROVE  /\ events = <<[type |-> type, ok |-> ok]>> /\ events' = <<>>
               /\ proc = NoProc /\ nDescs' = nDescs
    BY <1>1, SignalTakes DEF Signal
  <1>2. CASE SignalIgnored \/ SignalError
    <2>1. events' = <<>> /\ proc' = NoProc /\ UNCHANGED <<desc, nDescs>>
      BY <1>1, <1>2 DEF SignalIgnored, SignalError, indices
    <2> QED BY <2>1 DEF NoProc
  <1>3. CASE SignalPrimary
    <2>1. events' = <<>> /\ proc = NoProc /\ nDescs' = nDescs
      BY <1>1, <1>3 DEF SignalPrimary
    <2>2. desc' = 0 \/ desc' = desc
      BY <1>3 DEF SignalPrimary, indices
    <2>3. proc' = NoProc \/ (inProgress' /\ proc' = Chars(0))
      BY <2>1, <1>3, IdleCall DEF SignalPrimary, DiscoverChars
    <2>4. Chars(0).type = "chars" /\ NoProc.type = "none"
      BY DEF NoProc, Chars
    <2>5. proc'.type \in {"chars", "none"} /\ (proc' # NoProc => inProgress')
      BY <2>3, <2>4, Zenon
    <2> QED BY <2>1, <2>2, <2>5, Sizes
  <1>4. ASSUME NEW c, NEW d \in 0 .. MaxDescs, inProgress, proc = NoProc, Advance(c, d),
               events' = <<>>, nDescs' = nDescs
        PROVE  DInv'
    BY <1>4, DiscoveryAdvance, Sizes DEF NoProc
  <1>5. CASE SignalChars
    BY <1>1, <1>4, <1>5 DEF SignalChars
  <1>6. CASE SignalDescs
    <2>1. /\ events = <<[type |-> "descs", ok |-> TRUE]>> /\ events' = <<>>
          /\ proc = NoProc /\ nDescs' = nDescs /\ inProgress
          /\ Advance(char + 1, desc + nDescs)
      BY <1>1, <1>6 DEF SignalDescs
    <2>2. desc + nDescs \in 0 .. MaxDescs
      BY <2>1, Sizes
    <2> QED BY <1>4, <2>1, <2>2
  <1> QED BY <1>2, <1>3, <1>5, <1>6 DEF SignalGattClientEvent

\* The invariant holds of every run of an orderly application.
LEMMA DiscoveryInvariant == Orderly => (Spec => []DInv)
  <1> SUFFICES ASSUME Orderly PROVE Spec => []DInv
    OBVIOUS
  <1>1. Init => DInv
    BY Sizes
    DEF Init, DInv, OneAtATime, StackWritesLive, WithinBuffer, NoProc
  <1>2. DInv /\ [Next]_vars => DInv'
    <2> SUFFICES ASSUME DInv, [Next]_vars PROVE DInv'
      OBVIOUS
    <2>1. CASE Next
      BY <2>1, DiscoveryStack, DiscoveryApp, DiscoverySignal DEF Next
    <2>2. CASE UNCHANGED vars
      BY <2>2 DEF vars, indices, DInv, OneAtATime, StackWritesLive, WithinBuffer
    <2> QED BY <2>1, <2>2
  <1> QED BY <1>1, <1>2, PTL DEF Spec

\* The stack never runs a procedure whose results go to a buffer given back, when the
\* application is orderly: BleServDisc_Finished only ever meets an idle stack.
THEOREM StackWritesLiveCorrect == Orderly => (Spec => []StackWritesLive)
  <1> SUFFICES ASSUME Orderly PROVE Spec => []StackWritesLive
    OBVIOUS
  <1>1. DInv => StackWritesLive
    BY DEF DInv
  <1> QED BY <1>1, DiscoveryInvariant, PTL

\* No descriptor procedure may find more than the buffer has left, however the peer's
\* descriptors are spread over its characteristics and services.
THEOREM DescsFitCorrect == Orderly => (Spec => []DescsFit)
  <1> SUFFICES ASSUME Orderly PROVE Spec => []DescsFit
    OBVIOUS
  <1>1. DInv => DescsFit
    BY Sizes DEF DInv, WithinBuffer, DescsFit
  <1> QED BY <1>1, DiscoveryInvariant, PTL

-----------------------------------------------------------------------------
(* Every service found is reported.                                         *)

\* A peer's services, whose characteristics lie within them.
Sane == {s \in Services : s.values \in Seq(1 .. s.end)}

\* The reports made are those of the services before the current one.
ReportedSoFar ==
  /\ svc < Len(found) /\ Len(reported) = svc
  /\ \A i \in 1 .. svc : reported[i].service = found[i]

\* Where the discovery stands, by the procedure that runs or that has just completed.
Searching(types) ==
  proc.type \in types \/ \E t \in types : events = <<[type |-> t, ok |-> TRUE]>>

RInv ==
  /\ database \in Seq(Sane) /\ found \in Seq(Sane)
  /\ (\E R : reported \in Seq(R)) /\ svc \in Nat
  /\ Searching({"primary"}) => reported = <<>>
  /\ Searching({"chars", "descs"}) => ReportedSoFar
  /\ inProgress => outcome = "none"
  /\ AllReported

LEMMA ReportingStack == DInv /\ RInv /\ Stack => RInv'
  <1> SUFFICES ASSUME DInv, RInv, Stack PROVE RInv'
    OBVIOUS
  <1> USE DEF DInv, OneAtATime, StackWritesLive, RInv
  <1>1. PICK ok \in BOOLEAN : proc # NoProc /\ Complete(proc, ok)
    <2>1. proc.type # "none" => proc # NoProc
      BY DEF NoProc
    <2>2. CASE PrimaryDone \/ CharsDone \/ DescsDone
      BY <2>1, <2>2 DEF PrimaryDone, CharsDone, DescsDone
    <2>3. CASE ProcFails
      BY <2>3 DEF ProcFails
    <2> QED BY <2>2, <2>3 DEF Stack
  <1>2. /\ proc' = NoProc /\ events' = <<[type |-> proc.type, ok |-> ok]>>
        /\ UNCHANGED <<database, inProgress, svc, reported, outcome>>
    BY <1>1 DEF Complete, indices, history
  <1>3. inProgress /\ outcome = "none"
    BY <1>1
  <1>4. \A types : "none" \notin types /\ Searching(types)' => proc.type \in types
    BY <1>2 DEF Searching, NoProc
  <1>5. CASE proc.type = "primary"
    <2>1. reported = <<>>
      BY <1>5 DEF Searching
    <2>2. found' \in Seq(Sane)
      <3>1. CASE found' = SubSeq(database, 1, AtMost(MaxServices, Len(database)))
        <4>1. AtMost(MaxServices, Len(database)) \in 0 .. Len(database)
          BY Sizes DEF AtMost
        <4> QED BY <3>1, <4>1
      <3>2. ASSUME NEW s \in 1 .. Len(database), found' = <<database[s]>>
            PROVE  found' \in Seq(Sane)
        <4>1. database[s] \in Sane
          OBVIOUS
        <4> QED BY <3>2, <4>1
      <3>3. CASE found' = found
        BY <3>3
      <3>4. CASE found' = <<>>
        BY <3>4
      <3> QED BY <3>1, <3>2, <3>3, <3>4, <1>5
             DEF Stack, PrimaryDone, CharsDone, DescsDone, ProcFails
    <2> QED BY <2>1, <2>2, <1>2, <1>3, <1>4, <1>5 DEF AllReported
  <1>6. CASE proc.type # "primary"
    <2>1. found' = found
      BY <1>6 DEF Stack, PrimaryDone, CharsDone, DescsDone, ProcFails
    <2>2. Searching({"chars", "descs"})' => ReportedSoFar'
      BY <2>1, <1>2, <1>4 DEF Searching, ReportedSoFar
    <2> QED BY <2>1, <2>2, <1>2, <1>3, <1>4, <1>6 DEF AllReported
  <1> QED BY <1>5, <1>6

LEMMA ReportingApp == Orderly /\ DInv /\ RInv /\ App => RInv'
  <1> SUFFICES ASSUME Orderly, DInv, RInv, App PROVE RInv'
    OBVIOUS
  <1> USE DEF DInv, StackWritesLive, RInv
  <1>1. CASE Stop
    <2>1. /\ proc' = NoProc /\ outcome' = "stopped" /\ ~inProgress'
          /\ UNCHANGED <<events, database, found, svc, reported>>
      BY <1>1 DEF Stop, indices
    <2>2. \A types : "none" \notin types /\ Searching(types)' => Searching(types)
      BY <2>1 DEF Searching, NoProc
    <2> QED BY <2>1, <2>2 DEF ReportedSoFar, AllReported
  <1>2. ASSUME NEW max, Begin(max) PROVE RInv'
    <2>1. /\ proc = NoProc /\ events' = <<>> /\ outcome' = "none" /\ reported' = <<>>
          /\ UNCHANGED <<database, found, svc>>
      BY <1>2 DEF Begin, indices
    <2>2. Primary(max).type = "primary" /\ NoProc.type = "none"
      BY DEF Primary, NoProc
    <2>3. proc' = NoProc \/ proc' = Primary(max)
      BY <1>2, <2>1, IdleCall DEF Begin
    <2>4. ~Searching({"chars", "descs"})'
      BY <2>1, <2>2, <2>3 DEF Searching
    <2> QED BY <2>1, <2>4 DEF AllReported
  <1> QED BY <1>1, <1>2 DEF App, Start, FindService

\* A service reported leaves those before the next one reported, or all of them.
LEMMA ReportingReport ==
  ASSUME RInv, proc = NoProc, inProgress, ReportedSoFar, NEW d, Report(d),
         events' = <<>>, found' = found, database' = database
  PROVE  RInv'
  <1> USE DEF RInv
  <1>1. PICK R : reported \in Seq(R)
    OBVIOUS
  <1>2. PICK r : r.service = found[svc + 1] /\ reported' = Append(reported, r)
    BY DEF Report, Service
  <1>3. svc' = svc + 1
    BY DEF Report
  <1>4. /\ reported' \in Seq(R \union {r}) /\ Len(reported') = svc'
        /\ \A i \in 1 .. svc' : reported'[i].service = found'[i]
    <2>1. reported \in Seq(R \union {r}) /\ r \in R \union {r}
      BY <1>1
    <2>2. /\ reported' \in Seq(R \union {r}) /\ Len(reported') = Len(reported) + 1
          /\ \A i \in 1 .. Len(reported) : reported'[i] = reported[i]
          /\ reported'[Len(reported) + 1] = r
      BY <2>1, <1>2
    <2> QED BY <2>2, <1>2, <1>3 DEF ReportedSoFar
  <1>5. CASE svc + 1 < Len(found)
    <2>1. DiscoverChars(svc + 1) /\ outcome' = outcome /\ inProgress' = inProgress
      BY <1>5 DEF Report
    <2>2. Chars(svc + 1).type = "chars" /\ NoProc.type = "none"
      BY DEF Chars, NoProc
    <2>3. proc' = NoProc \/ proc' = Chars(svc + 1)
      BY <2>1, IdleCall DEF DiscoverChars
    <2>4. ~Searching({"primary"})'
      BY <2>2, <2>3 DEF Searching
    <2>5. ReportedSoFar'
      BY <1>3, <1>4, <1>5 DEF ReportedSoFar
    <2> QED BY <1>3, <1>4, <2>1, <2>4, <2>5 DEF AllReported
  <1>6. CASE ~(svc + 1 < Len(found))
    <2>1. proc' = NoProc /\ ~inProgress'
      BY <1>6 DEF Report, Finished
    <2>2. ~Searching({"primary"})' /\ ~Searching({"chars", "descs"})'
      BY <2>1 DEF Searching, NoProc
    <2>3. svc + 1 = Len(found)
      BY <1>6 DEF ReportedSoFar
    <2> QED BY <1>3, <1>4, <2>1, <2>2, <2>3 DEF AllReported
  <1> QED BY <1>5, <1>6

LEMMA ReportingAdvance ==
  ASSUME RInv, proc = NoProc, inProgress, ReportedSoFar, NEW c, NEW d, Advance(c, d),
         events' = <<>>, found' = found, database' = database
  PROVE  RInv'
  <1>1. CASE \E i, j, end : DiscoverDescs(i, j, end, d)
    <2>1. PICK i, j, end : DiscoverDescs(i, j, end, d)
      BY <1>1
    <2>2. UNCHANGED <<inProgress, svc, reported, outcome>>
      BY <2>1 DEF DiscoverDescs
    <2>3. proc' = NoProc \/ proc' = Descs(svc, i, end, MaxDescs - d)
      BY <2>1, IdleCall DEF DiscoverDescs
    <2>4. ~Searching({"primary"})'
      BY <2>3 DEF Searching, NoProc, Descs
    <2> QED BY <2>2, <2>4 DEF RInv, ReportedSoFar, AllReported
  <1>2. CASE Report(d)
    BY <1>2, ReportingReport
  <1> QED BY <1>1, <1>2 DEF Advance

LEMMA ReportingSignal == DInv /\ RInv /\ SignalGattClientEvent => RInv'
  <1> SUFFICES ASSUME DInv, RInv, SignalGattClientEvent PROVE RInv'
    OBVIOUS
  <1>1. ASSUME NEW type, NEW ok, Signal(type, ok)
        PROVE  /\ events = <<[type |-> type, ok |-> ok]>> /\ events' = <<>>
               /\ proc = NoProc /\ UNCHANGED <<database, found>>
    BY <1>1, SignalTakes DEF Signal, DInv
  <1>2. CASE SignalIgnored \/ SignalError
    <2>1. /\ events' = <<>> /\ proc' = NoProc /\ UNCHANGED <<database, found, svc, reported>>
          /\ \/ UNCHANGED <<inProgress, outcome>>
             \/ ~inProgress' /\ outcome' = "failure"
      BY <1>1, <1>2 DEF SignalIgnored, SignalError, Finished, indices, history
    <2>2. \A types : "none" \notin types => ~Searching(types)'
      BY <2>1 DEF Searching, NoProc
    <2> QED BY <2>1, <2>2 DEF RInv, AllReported
  <1>3. CASE SignalPrimary
    <2>1. /\ events = <<[type |-> "primary", ok |-> TRUE]>> /\ events' = <<>>
          /\ proc = NoProc /\ UNCHANGED <<database, found, reported>> /\ inProgress
      BY <1>1, <1>3 DEF SignalPrimary
    <2>2. reported = <<>>
      BY <2>1 DEF RInv, Searching
    <2>3. CASE found # <<>>
      <3>1. svc' = 0 /\ DiscoverChars(0) /\ UNCHANGED <<inProgress, outcome>>
        BY <1>3, <2>3 DEF SignalPrimary
      <3>2. ReportedSoFar'
        BY <2>1, <2>2, <2>3, <3>1 DEF RInv, ReportedSoFar
      <3> QED BY <2>1, <2>2, <3>1, <3>2 DEF RInv, AllReported
    <2>4. CASE found = <<>>
      <3>1. /\ proc' = NoProc /\ ~inProgress' /\ svc' = svc
        BY <1>3, <2>1, <2>4 DEF SignalPrimary, Finished, indices
      <3>2. ~Searching({"primary"})' /\ ~Searching({"chars", "descs"})'
        BY <2>1, <3>1 DEF Searching, NoProc
      <3> QED BY <2>1, <2>2, <2>4, <3>1, <3>2 DEF RInv, AllReported
    <2> QED BY <2>3, <2>4
  <1>4. CASE SignalChars
    <2>1. /\ events = <<[type |-> "chars", ok |-> TRUE]>> /\ events' = <<>> /\ proc = NoProc
          /\ UNCHANGED <<database, found>> /\ inProgress /\ Advance(char, desc)
      BY <1>1, <1>4 DEF SignalChars
    <2>2. ReportedSoFar
      BY <2>1 DEF RInv, Searching
    <2> QED BY <2>1, <2>2, ReportingAdvance
  <1>5. CASE SignalDescs
    <2>1. /\ events = <<[type |-> "descs", ok |-> TRUE]>> /\ events' = <<>> /\ proc = NoProc
          /\ UNCHANGED <<database, found>> /\ inProgress
          /\ Advance(char + 1, desc + nDescs)
      BY <1>1, <1>5 DEF SignalDescs
    <2>2. ReportedSoFar
      BY <2>1 DEF RInv, Searching
    <2> QED BY <2>1, <2>2, ReportingAdvance
  <1> QED BY <1>2, <1>3, <1>4, <1>5 DEF SignalGattClientEvent

\* The invariant holds of every run of an orderly application.
LEMMA ReportingInvariant == Orderly => (Spec => []RInv)
  <1> SUFFICES ASSUME Orderly PROVE Spec => []RInv
    OBVIOUS
  <1>1. Init => RInv
    <2>1. \A db \in Databases : db \in Seq(Sane)
      BY DatabasesAssumption DEF Sane
    <2> QED BY <2>1 DEF Init, RInv, Searching, NoProc, AllReported
  <1>2. DInv /\ RInv /\ [Next]_vars => RInv'
    <2> SUFFICES ASSUME DInv, RInv, [Next]_vars PROVE RInv'
      OBVIOUS
    <2>1. CASE Next
      BY <2>1, ReportingStack, ReportingApp, ReportingSignal DEF Next
    <2>2. CASE UNCHANGED vars
      BY <2>2 DEF vars, indices, history, RInv, Searching, ReportedSoFar, AllReported
    <2> QED BY <2>1, <2>2
  <1> QED BY <1>1, <1>2, DiscoveryInvariant, PTL DEF Spec

\* A discovery that ends with success has reported every service found, in order and
\* once, for every peer and every size of the buffers.
THEOREM AllReportedCorrect == Orderly => (Spec => []AllReported)
  <1> SUFFICES ASSUME Orderly PROVE Spec => []AllReported
    OBVIOUS
  <1>1. RInv => AllReported
    BY DEF RInv
  <1> QED BY <1>1, ReportingInvariant, PTL

-----------------------------------------------------------------------------
(* Every characteristic with room for descriptors is searched for them.     *)

\* How many characteristics of the current service the stack stores.
Count == AtMost(MaxChars, Len(Service.values))

\* Those among the first n that have room for descriptors were searched.
Covered(n) == \A i \in 1 .. nChars : i <= n /\ HasRoom(Service, i) => i - 1 \in asked

\* The last completion, if it has not been handled yet.
Completed(type) == events = <<[type |-> type, ok |-> TRUE]>>

\* The characteristics procedure is about the current service, whose search has not
\* begun; a descriptors procedure leaves none behind that had to be searched.
SearchInv ==
  /\ char \in Nat
  /\ proc.type = "chars" => proc = Chars(svc)
  /\ proc.type = "chars" \/ Completed("chars") => char = 0
  /\ Completed("chars") => nChars = Count
  /\ proc.type = "descs" \/ Completed("descs") => nChars = Count /\ Covered(char + 1)
  /\ \E R : reported \in Seq(R)
  /\ DescriptorsSearched

\* What the search of a service knows while it goes on.
SearchesAt(c) ==
  /\ c \in Nat /\ nChars = Count /\ Covered(c)
  /\ found \in Seq(Sane) /\ svc \in Nat /\ svc < Len(found)

\* The current service has handles in its range, and no more characteristics are
\* looked at than it has.
LEMMA CurrentService ==
  ASSUME NEW c, SearchesAt(c)
  PROVE  /\ Service \in Sane /\ Service.values \in Seq(1 .. Service.end)
         /\ Service.end \in Nat /\ nChars \in 0 .. Len(Service.values)
         /\ nChars < Len(Service.values) => nChars = MaxChars
  <1>1. Service \in Sane
    BY DEF Service, SearchesAt
  <1>2. MaxChars \in Nat
    BY DiscoveryAssumption
  <1>3. Len(Service.values) \in Nat
    BY <1>1 DEF Sane
  <1>4. nChars = AtMost(MaxChars, Len(Service.values))
    BY DEF SearchesAt, Count
  <1>5. Service.values \in Seq(1 .. Service.end) /\ Service.end \in Nat
    <2>1. Service.values \in Seq(1 .. Service.end) /\ Service \in Services
      BY <1>1, Zenon DEF Sane
    <2>2. \A E, V : E \subseteq Nat => \A s \in [end : E, values : V] : s.end \in Nat
      OBVIOUS
    <2>3. \A s \in Services : s.end \in Nat
      <3> DEFINE E == 1 .. 65535
                 V == Seq(1 .. 65535)
      <3>1. E \subseteq Nat /\ Services = [end : E, values : V]
        BY DEF Services
      <3> HIDE DEF E, V
      <3> QED BY <2>2, <3>1
    <2> QED BY <2>1, <2>3
  <1>6. /\ nChars \in 0 .. Len(Service.values)
        /\ nChars < Len(Service.values) => nChars = MaxChars
    BY <1>2, <1>3, <1>4 DEF AtMost
  <1> QED BY <1>1, <1>5, <1>6

\* A characteristic behind the ones dealt with and before the next one searched has no
\* room: its neighbour is read from the buffer, and there is no gap.
LEMMA NoRoomBetween ==
  ASSUME NEW c, SearchesAt(c), NEW j \in 1 .. nChars, j < nChars,
         ~HasGap(Service.values[j], Service.values[j + 1])
  PROVE  ~HasRoom(Service, j)
  <1>1. j < Len(Service.values)
    BY CurrentService
  <1> QED BY <1>1 DEF HasGap, HasRoom

\* The search goes on at the first characteristic left with room, or there is none and
\* the service is reported.
LEMMA AdvanceSearches ==
  ASSUME NEW c, SearchesAt(c), NEW d \in Nat, Advance(c, d)
  PROVE  \/ \E i \in 0 .. nChars - 1 : \E index, end :
              /\ DiscoverDescs(i, index, end, d) /\ index \in Nat
              /\ \A j \in 1 .. nChars :
                   j <= index + 1 /\ HasRoom(Service, j) => j - 1 \in asked \union {i}
         \/ Report(d) /\ (d >= MaxDescs \/ Covered(nChars))
  <1> DEFINE value == Service.values
             Next_(i, b) == IF i + 1 < nChars THEN value[i + 2] ELSE b
             WithGap(b) == {i \in c .. nChars - 1 : HasGap(value[i + 1], Next_(i, b))}
  <1>1. PICK b \in BehindLast :
          IF WithGap(b) # {} /\ d < MaxDescs
          THEN DiscoverDescs(Min(WithGap(b)), Min(WithGap(b)), Next_(Min(WithGap(b)), b), d)
          ELSE IF c < nChars /\ d < MaxDescs /\ value[nChars] < Service.end
          THEN DiscoverDescs(nChars - 1, nChars, Service.end, d)
          ELSE Report(d)
    BY Zenon DEF Advance
  <1>2. /\ c \in Nat /\ nChars \in Nat /\ nChars <= Len(value) /\ MaxDescs \in Nat
        /\ \A j \in 1 .. nChars : j <= c /\ HasRoom(Service, j) => j - 1 \in asked
    <2>1. nChars \in 0 .. Len(value)
      BY CurrentService
    <2>2. c \in Nat /\ Covered(c)
      BY DEF SearchesAt
    <2>3. Len(value) \in Nat
      BY CurrentService
    <2> HIDE DEF value
    <2> QED BY <2>1, <2>2, <2>3, Sizes DEF Covered
  <1>3. \A j \in 1 .. nChars :
          c < j /\ j < nChars /\ j - 1 \notin WithGap(b) => ~HasRoom(Service, j)
    <2> SUFFICES ASSUME NEW j \in 1 .. nChars, c < j, j < nChars, j - 1 \notin WithGap(b)
                 PROVE  ~HasRoom(Service, j)
      OBVIOUS
    <2>1. j - 1 \in c .. nChars - 1 /\ (j - 1) + 1 = j /\ (j - 1) + 2 = j + 1
      BY <1>2
    <2>2. Next_(j - 1, b) = value[j + 1]
      BY <2>1
    <2>3. ~HasGap(value[j], value[j + 1])
      BY <2>1, <2>2
    <2> QED BY <2>3, NoRoomBetween
  <1>4. CASE WithGap(b) # {} /\ d < MaxDescs
    <2> DEFINE i == Min(WithGap(b))
    <2>1. WithGap(b) \subseteq Int /\ \A x \in WithGap(b) : c <= x
      BY <1>2
    <2>2. i \in WithGap(b) /\ \A y \in WithGap(b) : i <= y
      <3> HIDE DEF WithGap
      <3> QED BY <1>2, <1>4, <2>1, MinFacts
    <2>3. i \in c .. nChars - 1
      BY <2>2
    <2>4. ASSUME NEW j \in 1 .. nChars, j <= i + 1, HasRoom(Service, j)
          PROVE  j - 1 \in asked \union {i}
      <3> HIDE DEF i, WithGap
      <3>1. CASE j <= c
        BY <1>2, <2>4, <3>1
      <3>2. CASE j = i + 1
        BY <1>2, <2>3, <3>2
      <3>3. CASE c < j /\ j <= i
        <4>1. ~(i <= j - 1) /\ j < nChars
          BY <1>2, <2>3, <3>3
        <4>2. j - 1 \notin WithGap(b)
          BY <2>2, <4>1
        <4> QED BY <1>3, <2>4, <3>3, <4>1, <4>2
      <3> QED BY <1>2, <2>3, <2>4, <3>1, <3>2, <3>3
    <2>5. DiscoverDescs(i, i, Next_(i, b), d)
      BY <1>1, <1>4
    <2>6. i \in 0 .. nChars - 1 /\ i \in Nat
      <3> HIDE DEF i
      <3> QED BY <1>2, <2>3
    <2> HIDE DEF i, WithGap, Next_
    <2> QED BY <2>4, <2>5, <2>6
  <1>5. CASE d >= MaxDescs
    <2>1. Report(d)
      BY <1>1, <1>2, <1>5
    <2> QED BY <1>5, <2>1
  <1>6. CASE WithGap(b) = {} /\ d < MaxDescs
    <2>1. \A j \in 1 .. nChars : c < j /\ j < nChars => ~HasRoom(Service, j)
      BY <1>3, <1>6
    <2>2. CASE c < nChars /\ value[nChars] < Service.end
      <3>1. DiscoverDescs(nChars - 1, nChars, Service.end, d)
        BY <1>1, <1>6, <2>2
      <3>2. nChars - 1 \in 0 .. nChars - 1
        BY <1>2, <2>2
      <3>3. ASSUME NEW j \in 1 .. nChars, HasRoom(Service, j)
            PROVE  j - 1 \in asked \union {nChars - 1}
        BY <1>2, <2>1, <3>3
      <3> HIDE DEF value, WithGap, Next_
      <3> QED BY <1>2, <3>1, <3>2, <3>3
    <2>3. CASE ~(c < nChars /\ value[nChars] < Service.end)
      <3>1. Report(d)
        BY <1>1, <1>6, <2>3
      <3>2. c < nChars => ~HasRoom(Service, nChars)
        <4> SUFFICES ASSUME c < nChars PROVE ~HasRoom(Service, nChars)
          OBVIOUS
        <4>1. ~(value[nChars] < Service.end)
          BY <2>3
        <4>2. value[nChars] \in 1 .. Service.end /\ Service.end \in Nat
          BY <1>2, CurrentService
        <4>3. nChars < Len(value) => value[nChars + 1] \in 1 .. Service.end
          BY <1>2, CurrentService
        <4> QED BY <4>1, <4>2, <4>3 DEF HasRoom
      <3>3. Covered(nChars)
        BY <1>2, <2>1, <3>2 DEF Covered
      <3> QED BY <3>1, <3>3
    <2> QED BY <2>2, <2>3
  <1> QED BY <1>2, <1>4, <1>5, <1>6

\* What a step leaves of the reports stays searched.
LEMMA ReportsKept ==
  ASSUME DescriptorsSearched, reported' = reported
  PROVE  DescriptorsSearched'
  BY DEF DescriptorsSearched, HasRoom

LEMMA SearchingStack == DInv /\ RInv /\ SearchInv /\ Stack => SearchInv'
  <1> SUFFICES ASSUME DInv, RInv, SearchInv, Stack PROVE SearchInv'
    OBVIOUS
  <1>1. PICK ok \in BOOLEAN : proc # NoProc /\ Complete(proc, ok)
    <2>1. proc.type # "none" => proc # NoProc
      BY DEF NoProc
    <2>2. CASE PrimaryDone \/ CharsDone \/ DescsDone
      BY <2>1, <2>2 DEF PrimaryDone, CharsDone, DescsDone
    <2>3. CASE ProcFails
      BY <2>3 DEF ProcFails
    <2> QED BY <2>2, <2>3 DEF Stack
  <1>2. /\ proc' = NoProc /\ events' = <<[type |-> proc.type, ok |-> ok]>>
        /\ UNCHANGED <<svc, char, asked, reported>>
    BY <1>1 DEF Complete, indices, history, DInv, OneAtATime
  <1>3. DescriptorsSearched' /\ char' \in Nat /\ \E R : reported' \in Seq(R)
    BY <1>2, ReportsKept DEF SearchInv
  <1>4. NoProc.type = "none"
    BY DEF NoProc
  <1>5. \A type : Completed(type)' => proc.type = type /\ ok = TRUE
    BY <1>2 DEF Completed
  <1>6. CASE proc.type = "chars" /\ ok = TRUE
    <2>1. CharsDone
      <3>1. ~ProcFails
        <4>1. ASSUME ProcFails PROVE ok = FALSE
          <5>1. events' = Append(events, [type |-> proc.type, ok |-> FALSE]) /\ events = <<>>
            BY <4>1, <1>1 DEF ProcFails, Complete, DInv, OneAtATime
          <5> QED BY <5>1, <1>2
        <4> QED BY <4>1, <1>6
      <3> QED BY <3>1, <1>6 DEF Stack, PrimaryDone, DescsDone
    <2>2. found' = found /\ nChars' = AtMost(MaxChars, Len(found[svc + 1].values))
      <3>1. proc.max = MaxChars /\ proc.svc = svc
        BY <1>6 DEF SearchInv, Chars, NoProc
      <3> QED BY <2>1, <3>1 DEF CharsDone
    <2>3. nChars' = Count'
      BY <2>2, <1>2 DEF Count, Service
    <2>4. char' = 0
      BY <1>2, <1>6 DEF SearchInv
    <2> QED BY <1>2, <1>3, <1>4, <1>5, <1>6, <2>3, <2>4 DEF SearchInv
  <1>7. CASE proc.type = "descs" /\ ok = TRUE
    <2>1. found' = found /\ nChars' = nChars
      BY <1>7 DEF Stack, PrimaryDone, CharsDone, DescsDone, ProcFails
    <2>2. nChars = Count /\ Covered(char + 1)
      BY <1>7 DEF SearchInv
    <2>3. nChars' = Count' /\ Covered(char + 1)'
      BY <1>2, <2>1, <2>2 DEF Count, Covered, Service, HasRoom
    <2> QED BY <1>2, <1>3, <1>4, <1>5, <1>7, <2>3 DEF SearchInv
  <1>8. CASE proc.type \notin {"chars", "descs"} \/ ok = FALSE
    <2>1. ~Completed("chars")' /\ ~Completed("descs")'
      BY <1>5, <1>8
    <2> QED BY <1>2, <1>3, <1>4, <2>1 DEF SearchInv
  <1> QED BY <1>6, <1>7, <1>8

LEMMA SearchingApp == Orderly /\ DInv /\ SearchInv /\ App => SearchInv'
  <1> SUFFICES ASSUME Orderly, DInv, SearchInv, App PROVE SearchInv'
    OBVIOUS
  <1>1. NoProc.type = "none" /\ \A max : Primary(max).type = "primary"
    BY DEF NoProc, Primary
  <1>2. CASE Stop
    <2>1. /\ proc' = NoProc
          /\ UNCHANGED <<events, found, svc, char, nChars, asked, reported>>
      BY <1>2 DEF Stop, indices
    <2>2. DescriptorsSearched'
      BY <2>1, ReportsKept DEF SearchInv
    <2>3. \A type : Completed(type)' => Completed(type)
      BY <2>1 DEF Completed
    <2>4. Count' = Count /\ (Covered(char + 1) => Covered(char + 1)')
      BY <2>1 DEF Count, Covered, Service, HasRoom
    <2> QED BY <1>1, <2>1, <2>2, <2>3, <2>4 DEF SearchInv
  <1>3. ASSUME NEW max, Begin(max) PROVE SearchInv'
    <2>1. proc = NoProc /\ events' = <<>> /\ reported' = <<>> /\ char' = char
      BY <1>3 DEF Begin, indices, DInv, StackWritesLive
    <2>2. proc' = NoProc \/ proc' = Primary(max)
      BY <1>3, <2>1, IdleCall DEF Begin
    <2>3. DescriptorsSearched' /\ \A type : ~Completed(type)'
      BY <2>1 DEF DescriptorsSearched, Completed
    <2>4. \E R : reported' \in Seq(R)
      BY <2>1
    <2> QED BY <1>1, <2>1, <2>2, <2>3, <2>4 DEF SearchInv
  <1> QED BY <1>2, <1>3 DEF App, Start, FindService

\* A service reported with its search done, or a full buffer, joins the others.
LEMMA SearchedReport ==
  ASSUME NEW c, SearchesAt(c), NEW d \in Nat, Report(d), DescriptorsSearched,
         d >= MaxDescs \/ Covered(nChars), NEW R, reported \in Seq(R)
  PROVE  DescriptorsSearched' /\ \E Q : reported' \in Seq(Q)
  <1> DEFINE r == [service |-> Service, asked |-> asked, full |-> d >= MaxDescs]
  <1>1. reported' = Append(reported, r)
    BY DEF Report
  <1>2. r.full \/ \A i \in 1 .. AtMost(MaxChars, Len(r.service.values)) :
                    HasRoom(r.service, i) => i - 1 \in r.asked
    <2>1. nChars = AtMost(MaxChars, Len(Service.values)) /\ nChars \in Nat
      <3>1. nChars = AtMost(MaxChars, Len(Service.values))
        BY DEF SearchesAt, Count
      <3> QED BY <3>1, CurrentService
    <2>2. Covered(nChars) => \A i \in 1 .. nChars : HasRoom(Service, i) => i - 1 \in asked
      BY <2>1 DEF Covered
    <2> QED BY <2>1, <2>2
  <1> HIDE DEF r
  <1>3. /\ reported' \in Seq(R \union {r}) /\ Len(reported') = Len(reported) + 1
        /\ Len(reported) \in Nat
        /\ \A k \in 1 .. Len(reported) : reported'[k] = reported[k]
        /\ reported'[Len(reported) + 1] = r
    <2>1. reported \in Seq(R \union {r}) /\ r \in R \union {r}
      OBVIOUS
    <2> QED BY <1>1, <2>1
  <1>4. ASSUME NEW k \in 1 .. Len(reported')
        PROVE  \/ reported'[k].full
               \/ \A i \in 1 .. AtMost(MaxChars, Len(reported'[k].service.values)) :
                    HasRoom(reported'[k].service, i) => i - 1 \in reported'[k].asked
    <2>1. CASE k \in 1 .. Len(reported)
      BY <1>3, <2>1 DEF DescriptorsSearched
    <2>2. CASE k = Len(reported) + 1
      BY <1>2, <1>3, <2>2
    <2> QED BY <1>3, <2>1, <2>2
  <1> QED BY <1>3, <1>4 DEF DescriptorsSearched, HasRoom

LEMMA SearchingAdvance ==
  ASSUME SearchInv, proc = NoProc, NEW c, SearchesAt(c), NEW d \in Nat, Advance(c, d),
         events' = <<>>, found' = found, nChars' = nChars
  PROVE  SearchInv'
  <1>1. \A type : ~Completed(type)'
    BY DEF Completed
  <1>2. ASSUME NEW i \in 0 .. nChars - 1, NEW index \in Nat, NEW end,
               DiscoverDescs(i, index, end, d),
               \A j \in 1 .. nChars :
                 j <= index + 1 /\ HasRoom(Service, j) => j - 1 \in asked \union {i}
        PROVE  SearchInv'
    <2>1. char' = index /\ asked' = asked \union {i} /\ UNCHANGED <<svc, reported>>
      BY <1>2 DEF DiscoverDescs
    <2>2. proc' = NoProc \/ proc' = Descs(svc, i, end, MaxDescs - d)
      BY <1>2, IdleCall DEF DiscoverDescs
    <2>3. proc'.type # "chars"
      BY <2>2 DEF NoProc, Descs
    <2>4. nChars' = Count' /\ Covered(char + 1)'
      <3>1. nChars = Count
        BY DEF SearchesAt
      <3>2. Service' = Service
        BY <2>1 DEF Service
      <3> QED BY <1>2, <2>1, <3>1, <3>2 DEF Count, Covered, HasRoom
    <2>5. DescriptorsSearched' /\ \E R : reported' \in Seq(R)
      BY <2>1, ReportsKept DEF SearchInv
    <2> QED BY <1>1, <2>1, <2>3, <2>4, <2>5 DEF SearchInv
  <1>3. CASE Report(d) /\ (d >= MaxDescs \/ Covered(nChars))
    <2>1. svc' = svc + 1 /\ char' = 0
      BY <1>3 DEF Report
    <2>2. proc' = NoProc \/ proc' = Chars(svc')
      BY <1>3, <2>1, IdleCall DEF Report, Finished, DiscoverChars
    <2>3. proc'.type = "chars" => proc' = Chars(svc')
      BY <2>2 DEF NoProc
    <2>4. proc'.type # "descs"
      <3>1. NoProc.type = "none" /\ Chars(svc').type = "chars"
        BY DEF NoProc, Chars
      <3> QED BY <2>2, <3>1, Zenon
    <2>5. DescriptorsSearched' /\ \E R : reported' \in Seq(R)
      <3>1. PICK R : reported \in Seq(R)
        BY DEF SearchInv
      <3>2. DescriptorsSearched
        BY DEF SearchInv
      <3> QED BY <1>3, <3>1, <3>2, SearchedReport
    <2>6. Chars(svc)' = Chars(svc')
      BY DEF Chars
    <2> QED BY <1>1, <2>1, <2>3, <2>4, <2>5, <2>6 DEF SearchInv
  <1> QED BY <1>2, <1>3, AdvanceSearches

LEMMA SearchingSignal == DInv /\ RInv /\ SearchInv /\ SignalGattClientEvent => SearchInv'
  <1> SUFFICES ASSUME DInv, RInv, SearchInv, SignalGattClientEvent PROVE SearchInv'
    OBVIOUS
  <1>1. ASSUME NEW type, NEW ok, Signal(type, ok)
        PROVE  /\ events = <<[type |-> type, ok |-> ok]>> /\ events' = <<>>
               /\ proc = NoProc /\ UNCHANGED <<found, nChars, nDescs>>
    BY <1>1, SignalTakes DEF Signal, DInv
  <1>2. NoProc.type = "none"
    BY DEF NoProc
  <1>3. CASE SignalIgnored \/ SignalError
    <2>1. events' = <<>> /\ proc' = NoProc /\ char' = char /\ reported' = reported
      BY <1>1, <1>3 DEF SignalIgnored, SignalError, Finished, indices, history
    <2>2. DescriptorsSearched' /\ \A type : ~Completed(type)'
      BY <2>1, ReportsKept DEF SearchInv, Completed
    <2> QED BY <1>2, <2>1, <2>2 DEF SearchInv
  <1>4. CASE SignalPrimary
    <2>1. /\ events' = <<>> /\ proc = NoProc /\ reported' = reported
          /\ \/ svc' = 0 /\ char' = 0 /\ DiscoverChars(0)
             \/ proc' = proc /\ char' = char
      BY <1>1, <1>4 DEF SignalPrimary, Finished, indices
    <2>2. DescriptorsSearched' /\ \A type : ~Completed(type)'
      BY <2>1, ReportsKept DEF SearchInv, Completed
    <2>3. proc' = NoProc \/ (proc' = Chars(svc') /\ char' = 0)
      BY <2>1, IdleCall DEF DiscoverChars
    <2>4. Chars(svc').type = "chars" /\ Chars(svc)' = Chars(svc')
      BY DEF Chars, NoProc
    <2> QED BY <1>2, <2>1, <2>2, <2>3, <2>4 DEF SearchInv
  <1>5. ASSUME NEW c \in Nat, nChars = Count, Covered(c), NEW type, Completed(type),
               type \in {"chars", "descs"}
        PROVE  SearchesAt(c)
    <2>1. ReportedSoFar
      BY <1>5 DEF RInv, Searching, Completed
    <2> QED BY <1>5, <2>1 DEF RInv, ReportedSoFar, SearchesAt
  <1>6. CASE SignalChars
    <2>1. /\ Completed("chars") /\ events' = <<>> /\ proc = NoProc
          /\ UNCHANGED <<found, nChars>> /\ Advance(char, desc)
      BY <1>1, <1>6 DEF SignalChars, Completed
    <2>2. char = 0 /\ nChars = Count /\ Covered(0)
      BY <2>1 DEF SearchInv, Covered
    <2>3. SearchesAt(char)
      BY <1>5, <2>1, <2>2
    <2>4. desc \in Nat
      BY Sizes DEF DInv, WithinBuffer
    <2> QED BY <2>1, <2>3, <2>4, SearchingAdvance
  <1>7. CASE SignalDescs
    <2>1. /\ Completed("descs") /\ events' = <<>> /\ proc = NoProc
          /\ UNCHANGED <<found, nChars>> /\ Advance(char + 1, desc + nDescs)
      BY <1>1, <1>7 DEF SignalDescs, Completed
    <2>2. char + 1 \in Nat /\ nChars = Count /\ Covered(char + 1)
      BY <2>1 DEF SearchInv
    <2>3. SearchesAt(char + 1)
      BY <1>5, <2>1, <2>2
    <2>4. desc + nDescs \in Nat
      BY Sizes DEF DInv, WithinBuffer
    <2> QED BY <2>1, <2>3, <2>4, SearchingAdvance
  <1> QED BY <1>3, <1>4, <1>6, <1>7 DEF SignalGattClientEvent

\* Every characteristic of a reported service that has handles left for descriptors was
\* searched for them, unless the descriptor buffer was full, for every peer, whatever
\* lies in memory behind the last characteristic of a service.
THEOREM DescriptorsSearchedCorrect == Orderly => (Spec => []DescriptorsSearched)
  <1> SUFFICES ASSUME Orderly PROVE Spec => []DescriptorsSearched
    OBVIOUS
  <1>1. Init => SearchInv
    BY DEF Init, SearchInv, NoProc, Completed, DescriptorsSearched
  <1>2. DInv /\ RInv /\ SearchInv /\ [Next]_vars => SearchInv'
    <2> SUFFICES ASSUME DInv, RInv, SearchInv, [Next]_vars PROVE SearchInv'
      OBVIOUS
    <2>1. CASE Next
      BY <2>1, SearchingStack, SearchingApp, SearchingSignal DEF Next
    <2>2. CASE UNCHANGED vars
      <3>1. UNCHANGED <<proc, events, found, svc, char, nChars, asked, reported>>
        BY <2>2 DEF vars, indices, history
      <3>2. DescriptorsSearched'
        BY <3>1, ReportsKept DEF SearchInv
      <3>3. /\ Count' = Count /\ (Covered(char + 1) => Covered(char + 1)')
            /\ Chars(svc)' = Chars(svc)
        BY <3>1 DEF Count, Covered, Service, HasRoom, Chars
      <3> QED BY <3>1, <3>2, <3>3 DEF SearchInv, Completed
    <2> QED BY <2>1, <2>2
  <1>3. SearchInv => DescriptorsSearched
    BY DEF SearchInv
  <1> QED BY <1>1, <1>2, <1>3, DiscoveryInvariant, ReportingInvariant, PTL DEF Spec

=============================================================================
