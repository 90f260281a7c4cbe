--------------------------- MODULE HandoverProofs ---------------------------
(***************************************************************************)
(* Theorems about Handover for any number of handovers, of packets left to  *)
(* transmit and of faults.                                                  *)
(***************************************************************************)
EXTENDS Handover, SequenceTheorems, TLAPS

LEMMA PeerFacts ==
  ASSUME NEW n \in Anchors
  PROVE  /\ Peer(n) \in Anchors /\ Peer(n) # n /\ Peer(Peer(n)) = n
         /\ \A m \in Anchors : m = n \/ m = Peer(n)
  BY HandoverAssumption DEF Peer

-----------------------------------------------------------------------------
(* Types.                                                                  *)

CallSeq    == Seq(Items(Calls))
CommandSeq == Seq(Items(Commands))
Number     == 0 .. MaxStarts
AnchorType == [state : States, found : BOOLEAN, device : BOOLEAN, handle : BOOLEAN,
               data : Number, queue : Seq(Number), busy : BOOLEAN, calls : CallSeq]

LEMMA ItemTyped ==
  ASSUME NEW no \in Number
  PROVE  /\ \A op \in Calls : Item(op, no) \in Items(Calls) /\ Plain(op) \in Items(Calls)
         /\ \A op \in Commands : Item(op, no) \in Items(Commands) /\ Plain(op) \in Items(Commands)
  BY HandoverAssumption DEF Plain, Item, Items, Number

LEMMA PlainTyped ==
  /\ \A op \in Calls : Plain(op) \in Items(Calls)
  /\ \A op \in Commands : Plain(op) \in Items(Commands)
  BY HandoverAssumption DEF Plain, Item, Items

\* An anchor's state with one part changed.
LEMMA AnchorWith ==
  ASSUME NEW a \in AnchorType
  PROVE  /\ \A v \in States : [a EXCEPT !.state = v] \in AnchorType
         /\ \A v \in BOOLEAN : /\ [a EXCEPT !.found = v] \in AnchorType
                               /\ [a EXCEPT !.device = v] \in AnchorType
                               /\ [a EXCEPT !.handle = v] \in AnchorType
                               /\ [a EXCEPT !.busy = v] \in AnchorType
         /\ \A v \in Number : [a EXCEPT !.data = v] \in AnchorType
         /\ \A v \in Seq(Number) : [a EXCEPT !.queue = v] \in AnchorType
         /\ \A v \in CallSeq : [a EXCEPT !.calls = v] \in AnchorType
  BY DEF AnchorType

LEMMA AnchorFields ==
  ASSUME NEW a \in AnchorType
  PROVE  /\ a.state \in States /\ a.found \in BOOLEAN /\ a.device \in BOOLEAN
         /\ a.handle \in BOOLEAN /\ a.data \in Number
         /\ a.queue \in Seq(Number) /\ a.busy \in BOOLEAN /\ a.calls \in CallSeq
  BY DEF AnchorType

\* A call more of the stack.
LEMMA CallFacts ==
  ASSUME NEW a \in AnchorType, NEW op \in Calls
  PROVE  /\ Call(a, op) \in AnchorType
         /\ Call(a, op) = [a EXCEPT !.calls = Append(a.calls, Plain(op))]
         /\ Append(a.calls, Plain(op)) \in CallSeq
  <1>1. Append(a.calls, Plain(op)) \in CallSeq
    BY PlainTyped DEF AnchorType, CallSeq
  <1> QED BY <1>1, AnchorWith DEF Call

LEMMA UndoType ==
  ASSUME NEW a \in AnchorType
  PROVE  Undo(a) \in AnchorType
  <1>1. ASSUME NEW v \in BOOLEAN
        PROVE  [a EXCEPT !.found = v] \in AnchorType /\ [a EXCEPT !.handle = v] \in AnchorType
    BY AnchorWith
  <1> QED BY <1>1, CallFacts DEF Undo, Calls

LEMMA AbortType ==
  ASSUME NEW a \in AnchorType, NEW n
  PROVE  Abort(a, n) \in AnchorType
  <1> DEFINE u == Undo(a)
  <1>1. u \in AnchorType
    BY UndoType
  <1> HIDE DEF u
  <1>2. Append(u.calls, Plain("FreeData")) \in CallSeq /\ u.calls \in CallSeq
    BY <1>1, PlainTyped DEF AnchorType, CallSeq, Calls
  <1>3. 0 \in Number /\ <<>> \in Seq(Number) /\ "Idle" \in States
    BY HandoverAssumption DEF States, Number
  <1> QED BY <1>1, <1>2, <1>3 DEF AnchorType, Abort, u

\* The two variables Commit is about.
AnchorsTyped == anchor \in [Anchors -> AnchorType] /\ chan \in [Anchors -> CommandSeq]

LEMMA CommitType ==
  ASSUME AnchorsTyped, NEW n \in Anchors, NEW a \in AnchorType, NEW out \in CommandSeq,
         NEW rest \in CommandSeq, Commit(n, a, out, rest)
  PROVE  AnchorsTyped'
  <1>1. \A m \in Anchors : chan[m] \o out \in CommandSeq
    BY DEF AnchorsTyped, CommandSeq
  <1> QED BY <1>1, PeerFacts DEF AnchorsTyped, Commit

LEMMA NoCommand == <<>> \in CommandSeq /\ \A op \in Commands : <<Plain(op)>> \in CommandSeq
  BY PlainTyped DEF CommandSeq

LEMMA BecomeType ==
  ASSUME AnchorsTyped, NEW n \in Anchors, NEW a \in AnchorType, NEW out \in CommandSeq
  PROVE  /\ Become(n, a, out) => AnchorsTyped'
         /\ Fail(n, a, out) => AnchorsTyped'
         /\ \A ok \in BOOLEAN : Try(n, ok, a, out) => AnchorsTyped'
  <1>1. chan[n] \in CommandSeq
    BY DEF AnchorsTyped
  <1>2. ASSUME NEW b \in AnchorType, NEW o \in CommandSeq, Become(n, b, o) PROVE AnchorsTyped'
    BY <1>1, <1>2, CommitType DEF Become
  <1>3. Append(out, Plain("InformFailure")) \in CommandSeq
    BY PlainTyped DEF CommandSeq, Commands
  <1>4. Fail(n, a, out) => AnchorsTyped'
    BY <1>2, <1>3, AbortType DEF Fail
  <1> QED BY <1>2, <1>4 DEF Try

LEMMA DoneType ==
  ASSUME AnchorsTyped, NEW n \in Anchors, NEW a \in AnchorType, chan[n] # <<>>
  PROVE  /\ \A op \in Commands : Done(n, a, <<Plain(op)>>) => AnchorsTyped'
         /\ Done(n, a, <<>>) => AnchorsTyped'
         /\ \A ok \in BOOLEAN : Answer(n, ok, a) => AnchorsTyped'
  <1>1. Tail(chan[n]) \in CommandSeq
    BY DEF AnchorsTyped, CommandSeq
  <1>2. ASSUME NEW b \in AnchorType, NEW o \in CommandSeq, Done(n, b, o) PROVE AnchorsTyped'
    BY <1>1, <1>2, CommitType DEF Done
  <1>3. "InformFailure" \in Commands
    BY DEF Commands
  <1> QED BY <1>2, <1>3, NoCommand, AbortType DEF Answer

LEMMA RestFacts ==
  ASSUME AnchorsTyped, NEW n \in Anchors, anchor[n].calls # <<>>
  PROVE  /\ Rest(n) \in AnchorType /\ Rest(n) = [anchor[n] EXCEPT !.calls = Tail(@)]
         /\ Tail(anchor[n].calls) \in CallSeq /\ Head(anchor[n].calls) \in Items(Calls)
  <1>1. anchor[n] \in AnchorType /\ anchor[n].calls \in CallSeq
    BY AnchorFields DEF AnchorsTyped
  <1>2. Tail(anchor[n].calls) \in CallSeq /\ Head(anchor[n].calls) \in Items(Calls)
    BY <1>1 DEF CallSeq
  <1> QED BY <1>1, <1>2, AnchorWith DEF Rest

\* The other variables.
StackTyped ==
  /\ link \in [Anchors -> {"none", "sending", "suspended"}]
  /\ rx \in [Anchors -> BOOLEAN] /\ tx \in [Anchors -> BOOLEAN]
  /\ search \in [Anchors -> BOOLEAN] /\ ref \in [Anchors -> BOOLEAN]
CountsTyped ==
  /\ faults \in 0 .. MaxFaults /\ starts \in Number /\ indicated \in 0 .. MaxPending
  /\ taken \in [no : Number, data : Number, queue : Seq(Number)]
  /\ apart \in BOOLEAN

LEMMA TypedParts ==
  /\ TypeOK <=> AnchorsTyped /\ StackTyped /\ CountsTyped
  /\ TypeOK' <=> (AnchorsTyped /\ StackTyped /\ CountsTyped)'
  BY DEF TypeOK, AnchorType, CommandSeq, CallSeq, Number, AnchorsTyped, StackTyped, CountsTyped

LEMMA OutcomeType ==
  ASSUME CountsTyped, NEW kind, NEW ok \in Outcome(kind), Count(ok)
  PROVE  ok \in BOOLEAN /\ faults' \in 0 .. MaxFaults
  <1>1. ok \in BOOLEAN /\ (ok \/ faults < MaxFaults)
    BY Zenon DEF Outcome
  <1>2. faults' = IF ok THEN faults ELSE faults + 1
    BY DEF Count
  <1>3. faults \in 0 .. MaxFaults /\ MaxFaults \in Nat
    BY HandoverAssumption DEF CountsTyped
  <1>4. CASE ok
    BY <1>1, <1>2, <1>3, <1>4
  <1>5. CASE ~ok
    <2>1. faults < MaxFaults /\ faults' = faults + 1
      BY <1>1, <1>2, <1>5
    <2>2. faults + 1 \in 0 .. MaxFaults
      BY <1>3, <2>1
    <2> QED BY <1>1, <2>1, <2>2
  <1> QED BY <1>4, <1>5

LEMMA ApplicationTypes ==
  ASSUME TypeOK, NEW n \in Anchors, StartTimeSync(n) \/ AppAbort(n)
  PROVE  TypeOK'
  <1> USE TypedParts
  <1> DEFINE a == [anchor[n] EXCEPT !.device = TRUE, !.found = FALSE]
             b == [a EXCEPT !.busy = TRUE]
  <1>1. anchor[n] \in AnchorType /\ a \in AnchorType
    BY DEF AnchorsTyped, AnchorType
  <1>2. b \in AnchorType
    BY <1>1, AnchorWith
  <1> HIDE DEF a, b
  <1>3. CASE StartTimeSync(n)
    <2>1. PICK ok \in Outcome("refuse") :
            /\ Count(ok)
            /\ IF ok THEN Become(n, Call(b, "RxOn"), <<Plain("StartTimeSync")>>)
               ELSE Become(n, a, <<>>)
      BY <1>3 DEF StartTimeSync, a, b
    <2>2. Call(b, "RxOn") \in AnchorType
      BY <1>2, CallFacts DEF Calls
    <2>3. AnchorsTyped'
      BY <1>1, <2>1, <2>2, BecomeType, NoCommand DEF Commands
    <2>4. starts' \in Number
      BY <1>3, HandoverAssumption DEF StartTimeSync, CountsTyped, Number
    <2>5. apart' \in BOOLEAN
      <3>1. Calm \in BOOLEAN
        BY DEF Calm
      <3> QED BY <1>3, <3>1 DEF StartTimeSync, CountsTyped
    <2> QED BY <1>3, <2>1, <2>3, <2>4, <2>5, OutcomeType
         DEF StartTimeSync, stack, StackTyped, CountsTyped
  <1>4. CASE AppAbort(n)
    <2>1. Fail(n, anchor[n], <<>>) /\ FALSE \in Outcome("abort") /\ Count(FALSE)
          /\ UNCHANGED <<stack, starts, history>>
      BY <1>4 DEF AppAbort
    <2>2. AnchorsTyped'
      BY <1>1, <2>1, BecomeType, NoCommand
    <2> QED BY <2>1, <2>2, OutcomeType DEF stack, history, StackTyped, CountsTyped
  <1> QED BY <1>3, <1>4

LEMMA TimeSyncTypes ==
  ASSUME TypeOK, NEW n \in Anchors,
         \/ TimeSyncReceiveComplete(n) \/ TimeSyncTransmitStateChanged(n) \/ TimeSyncEvent(n)
  PROVE  TypeOK'
  <1> USE TypedParts
  <1>1. anchor[n] \in AnchorType
    BY DEF AnchorsTyped
  <1>2. ASSUME NEW table \in {RxToggle, TxToggle}, Toggle(n, table), anchor[n].calls # <<>>
        PROVE  AnchorsTyped'
    <2>1. Rest(n) \in AnchorType
      BY <1>2, RestFacts
    <2>2. \A s \in DOMAIN table : table[s] \in States
      BY <1>2 DEF RxToggle, TxToggle, States
    <2>3. CASE Rest(n).state \in DOMAIN table
      <3>1. [Rest(n) EXCEPT !.state = table[Rest(n).state]] \in AnchorType
        BY <2>1, <2>2, <2>3, AnchorWith
      <3>2. Become(n, [Rest(n) EXCEPT !.state = table[Rest(n).state]], <<>>)
        BY <1>2, <2>3 DEF Toggle
      <3> QED BY <3>1, <3>2, BecomeType, NoCommand
    <2>4. CASE Rest(n).state \notin DOMAIN table
      <3>1. Fail(n, Rest(n), <<>>)
        BY <1>2, <2>4 DEF Toggle
      <3> QED BY <2>1, <3>1, BecomeType, NoCommand
    <2> QED BY <2>3, <2>4
  <1>3. CASE TimeSyncReceiveComplete(n)
    <2>1. anchor[n].calls # <<>> /\ Toggle(n, RxToggle)
      BY <1>3 DEF TimeSyncReceiveComplete, Completes
    <2>2. AnchorsTyped'
      BY <1>2, <2>1
    <2> QED BY <1>3, <2>2 DEF TimeSyncReceiveComplete, history, StackTyped, CountsTyped
  <1>4. CASE TimeSyncTransmitStateChanged(n)
    <2>1. anchor[n].calls # <<>> /\ Toggle(n, TxToggle)
      BY <1>4 DEF TimeSyncTransmitStateChanged, Completes
    <2>2. AnchorsTyped'
      BY <1>2, <2>1
    <2> QED BY <1>4, <2>2 DEF TimeSyncTransmitStateChanged, history, StackTyped, CountsTyped
  <1>5. CASE TimeSyncEvent(n)
    <2>1. PICK ok \in Outcome("refuse") :
            /\ Count(ok)
            /\ Try(n, ok /\ anchor[n].device,
                   IF ok /\ anchor[n].device THEN Call(anchor[n], "Suspend") ELSE anchor[n],
                   <<Plain("StopTimeSync")>>)
      BY <1>5 DEF TimeSyncEvent
    <2>2. (IF ok /\ anchor[n].device THEN Call(anchor[n], "Suspend") ELSE anchor[n]) \in AnchorType
      BY <1>1, CallFacts DEF Calls
    <2>3. (ok /\ anchor[n].device) \in BOOLEAN
      OBVIOUS
    <2>4. AnchorsTyped'
      BY <2>1, <2>2, <2>3, BecomeType, NoCommand DEF Commands
    <2> QED BY <1>5, <2>1, <2>4, OutcomeType DEF TimeSyncEvent, history, StackTyped, CountsTyped
  <1> QED BY <1>3, <1>4, <1>5

\* What goes well in every alternative goes well.
LEMMA TryType ==
  ASSUME AnchorsTyped, NEW n \in Anchors, NEW a \in AnchorType, NEW b \in AnchorType,
         NEW out \in CommandSeq, NEW c, Try(n, c, IF c THEN a ELSE b, out)
  PROVE  AnchorsTyped'
  <1>1. CASE c
    <2>1. Become(n, a, out)
      BY <1>1 DEF Try
    <2> QED BY <2>1, BecomeType
  <1>2. CASE ~c
    <2>1. Fail(n, b, out)
      BY <1>2 DEF Try
    <2> QED BY <2>1, BecomeType
  <1> QED BY <1>1, <1>2

LEMMA ContextTypes ==
  ASSUME TypeOK, NEW n \in Anchors,
         \/ SuspendTransmitComplete(n) \/ LlPendingData(n) \/ GetComplete(n)
         \/ GetConnParamsComplete(n)
  PROVE  TypeOK'
  <1> USE TypedParts
  <1>1. anchor[n].calls # <<>> /\ anchor[n] \in AnchorType
    BY DEF SuspendTransmitComplete, LlPendingData, GetComplete, GetConnParamsComplete, Completes,
           AnchorsTyped
  <1>2. /\ Rest(n) \in AnchorType /\ Tail(anchor[n].calls) \in CallSeq
        /\ Head(anchor[n].calls) \in Items(Calls)
        /\ Rest(n).calls = Tail(anchor[n].calls) /\ Rest(n).device = anchor[n].device
    BY <1>1, RestFacts DEF AnchorType
  <1>3. starts \in Number
    BY DEF CountsTyped
  <1>4. CASE SuspendTransmitComplete(n)
    <2> DEFINE left(k) == [i \in 1 .. k |-> Item("Pending", starts)]
               a(k) == [Rest(n) EXCEPT !.state = "ContextTx", !.calls = left(k) \o @]
               b(k) == [a(k) EXCEPT !.data = starts]
    <2>1. PICK ok \in Outcome("refuse"), k \in 0 .. MaxPending :
            /\ Count(ok) /\ indicated' = k
            /\ Try(n, ok /\ a(k).device,
                   IF ok /\ a(k).device THEN Call(b(k), "GetData") ELSE a(k), <<>>)
      BY <1>4 DEF SuspendTransmitComplete
    <2>2. k \in Nat /\ Item("Pending", starts) \in Items(Calls)
      BY <1>3, ItemTyped, HandoverAssumption DEF Calls
    <2>3. left(k) \in CallSeq
      BY <2>2 DEF CallSeq
    <2>4. left(k) \o Tail(anchor[n].calls) \in CallSeq
      BY <1>2, <2>3 DEF CallSeq
    <2>5. a(k) \in AnchorType
      BY <1>2, <2>4 DEF AnchorType, States
    <2>6. b(k) \in AnchorType
      BY <1>3, <2>5, AnchorWith
    <2>7. Call(b(k), "GetData") \in AnchorType
      BY <2>6, CallFacts DEF Calls
    <2> HIDE DEF a, b
    <2>8. AnchorsTyped'
      BY <2>1, <2>5, <2>7, TryType, NoCommand
    <2>9. link' \in [Anchors -> {"none", "sending", "suspended"}]
      BY <1>4 DEF SuspendTransmitComplete, StackTyped
    <2> QED BY <1>4, <2>1, <2>8, <2>9, OutcomeType DEF SuspendTransmitComplete, StackTyped, CountsTyped
  <1>5. CASE LlPendingData(n)
    <2>1. Head(anchor[n].calls).no \in Number
      BY <1>2 DEF Items, Number
    <2>2. Item("LlPendingData", Head(anchor[n].calls).no) \in Items(Commands)
      BY <2>1, ItemTyped DEF Commands
    <2>3. AnchorsTyped'
      <3> DEFINE out == IF anchor[n].state = "ContextTx"
                        THEN <<Item("LlPendingData", Head(anchor[n].calls).no)>> ELSE <<>>
      <3>1. Become(n, Rest(n), out)
        BY <1>5 DEF LlPendingData
      <3>2. out \in CommandSeq
        BY <2>2 DEF CommandSeq
      <3> QED BY <1>2, <3>1, <3>2, BecomeType
    <2> QED BY <1>5, <2>3 DEF LlPendingData, stack, history, StackTyped, CountsTyped
  <1>6. CASE GetComplete(n)
    <2> DEFINE a == [Rest(n) EXCEPT !.data = 0]
    <2>1. PICK ok \in Outcome("refuse") :
            /\ Count(ok)
            /\ Try(n, ok /\ a.device, IF ok /\ a.device THEN Call(a, "GetConnParams") ELSE a,
                   <<Item("Data", anchor[n].data)>>)
      BY <1>6 DEF GetComplete
    <2>2. a \in AnchorType
      BY <1>2, HandoverAssumption, AnchorWith DEF Number
    <2>3. Call(a, "GetConnParams") \in AnchorType
      BY <2>2, CallFacts DEF Calls
    <2>4. <<Item("Data", anchor[n].data)>> \in CommandSeq
      <3>1. anchor[n].data \in Number
        BY <1>1, AnchorFields
      <3>2. Item("Data", anchor[n].data) \in Items(Commands)
        BY <3>1, ItemTyped DEF Commands
      <3> QED BY <3>2 DEF CommandSeq
    <2> HIDE DEF a
    <2>5. AnchorsTyped'
      BY <2>1, <2>2, <2>3, <2>4, TryType
    <2> QED BY <1>6, <2>1, <2>5, OutcomeType DEF GetComplete, stack, history, StackTyped, CountsTyped
  <1>7. CASE GetConnParamsComplete(n)
    <2>1. AnchorsTyped'
      BY <1>2, <1>7, BecomeType, NoCommand DEF GetConnParamsComplete, Commands
    <2> QED BY <1>7, <2>1 DEF GetConnParamsComplete, stack, history, StackTyped, CountsTyped
  <1> QED BY <1>4, <1>5, <1>6, <1>7

LEMMA SearchTypes ==
  ASSUME TypeOK, NEW n \in Anchors,
         AnchorSearchStarted(n) \/ DeviceFound(n) \/ SearchFailed(n)
  PROVE  TypeOK'
  <1> USE TypedParts
  <1>1. anchor[n] \in AnchorType
    BY DEF AnchorsTyped
  <1>2. CASE AnchorSearchStarted(n)
    <2> DEFINE a == [Rest(n) EXCEPT !.state = IF @ = "ContextRx" THEN "AnchorSearch" ELSE @]
    <2>1. PICK ok \in BOOLEAN :
            /\ search' = [search EXCEPT ![n] = @ \/ ok]
            /\ Try(n, ok, [a EXCEPT !.handle = @ \/ ok], <<>>)
      BY <1>2 DEF AnchorSearchStarted
    <2>2. Rest(n) \in AnchorType
      BY <1>2, RestFacts DEF AnchorSearchStarted, Completes
    <2>3. a \in AnchorType
      BY <2>2, AnchorWith DEF States, AnchorType
    <2> HIDE DEF a
    <2>4. [a EXCEPT !.handle = @ \/ ok] \in AnchorType
      BY <2>3, AnchorWith
    <2>5. AnchorsTyped'
      BY <2>1, <2>4, BecomeType, NoCommand
    <2>6. search' \in [Anchors -> BOOLEAN]
      BY <2>1 DEF StackTyped
    <2> QED BY <1>2, <2>5, <2>6 DEF AnchorSearchStarted, history, StackTyped, CountsTyped
  <1>3. CASE DeviceFound(n)
    <2> DEFINE a == [anchor[n] EXCEPT !.found = TRUE, !.queue = <<>>]
    <2>1. PICK ok \in Outcome("refuse") :
            /\ Count(ok)
            /\ Try(n, ok /\ ref[n], IF ok /\ ref[n] THEN Call(a, "Connect") ELSE a, <<>>)
      BY <1>3 DEF DeviceFound
    <2>2. a \in AnchorType
      <3>1. <<>> \in Seq(Number) /\ TRUE \in BOOLEAN
        OBVIOUS
      <3> QED BY <1>1, <3>1 DEF AnchorType
    <2>3. Call(a, "Connect") \in AnchorType
      BY <2>2, CallFacts DEF Calls
    <2> HIDE DEF a
    <2>4. AnchorsTyped'
      BY <2>1, <2>2, <2>3, TryType, NoCommand
    <2>5. taken' \in [no : Number, data : Number, queue : Seq(Number)]
      <3>1. anchor[n].data \in Number /\ anchor[n].queue \in Seq(Number)
        BY <1>1, AnchorFields
      <3> QED BY <1>3, <3>1 DEF DeviceFound, CountsTyped
    <2> QED BY <1>3, <2>1, <2>4, <2>5, OutcomeType DEF DeviceFound, stack, StackTyped, CountsTyped
  <1>4. CASE SearchFailed(n)
    <2>1. AnchorsTyped'
      BY <1>1, <1>4, BecomeType, NoCommand DEF SearchFailed
    <2>2. faults' \in 0 .. MaxFaults
      <3>1. CASE anchor[n].found
        <4>1. FALSE \in Outcome("late") /\ Count(FALSE)
          BY <1>4, <3>1 DEF SearchFailed
        <4> QED BY <4>1, OutcomeType
      <3>2. CASE ~anchor[n].found
        BY <1>4, <3>2 DEF SearchFailed, Count, CountsTyped
      <3> QED BY <3>1, <3>2
    <2> QED BY <1>4, <2>1, <2>2 DEF SearchFailed, stack, history, StackTyped, CountsTyped
  <1> QED BY <1>2, <1>3, <1>4

LEMMA EndTypes ==
  ASSUME TypeOK, NEW n \in Anchors,
         \/ FreeComplete(n) \/ ResumeTransmitComplete(n) \/ AnchorSearchStopped(n)
         \/ HandoverConnected(n) \/ HandoverDisconnected(n) \/ InternalError(n)
  PROVE  TypeOK'
  <1> USE TypedParts
  <1>1. anchor[n].calls # <<>>
    BY DEF FreeComplete, ResumeTransmitComplete, AnchorSearchStopped, HandoverConnected,
           HandoverDisconnected, InternalError, Completes
  <1>2. Rest(n) \in AnchorType
    BY <1>1, RestFacts
  <1>3. 0 \in Number
    BY HandoverAssumption DEF Number
  <1>4. CASE FreeComplete(n)
    <2>1. [Rest(n) EXCEPT !.data = 0] \in AnchorType
      BY <1>2, <1>3, AnchorWith
    <2>2. AnchorsTyped'
      BY <1>4, <2>1, BecomeType, NoCommand DEF FreeComplete
    <2> QED BY <1>4, <2>2 DEF FreeComplete, history, StackTyped, CountsTyped
  <1>5. CASE ResumeTransmitComplete(n)
    <2>1. AnchorsTyped'
      BY <1>2, <1>5, BecomeType, NoCommand DEF ResumeTransmitComplete
    <2> QED BY <1>5, <2>1 DEF ResumeTransmitComplete, history, StackTyped, CountsTyped
  <1>6. CASE AnchorSearchStopped(n)
    <2>1. AnchorsTyped'
      BY <1>2, <1>6, BecomeType, NoCommand DEF AnchorSearchStopped
    <2> QED BY <1>6, <2>1 DEF AnchorSearchStopped, history, StackTyped, CountsTyped
  <1>7. CASE HandoverConnected(n)
    <2> DEFINE a == [Rest(n) EXCEPT !.state = "Idle", !.device = TRUE, !.busy = FALSE]
    <2>1. a \in AnchorType
      BY <1>2 DEF AnchorType, States
    <2>2. [a EXCEPT !.data = 0] \in AnchorType /\ Call(a, "FreeData") \in AnchorType
      BY <1>3, <2>1, AnchorWith, CallFacts DEF Calls
    <2>3. Become(n, IF ref[n] THEN Call(a, "FreeData") ELSE [a EXCEPT !.data = 0],
                 <<Plain("InformConnect")>>)
      BY <1>7 DEF HandoverConnected
    <2> HIDE DEF a
    <2>4. AnchorsTyped'
      BY <2>2, <2>3, BecomeType, NoCommand DEF Commands
    <2> QED BY <1>7, <2>4 DEF HandoverConnected, history, StackTyped, CountsTyped
  <1>8. CASE HandoverDisconnected(n)
    <2>1. [Rest(n) EXCEPT !.busy = FALSE] \in AnchorType
      BY <1>2, AnchorWith
    <2>2. AnchorsTyped'
      BY <1>8, <2>1, BecomeType, NoCommand DEF HandoverDisconnected
    <2> QED BY <1>8, <2>2 DEF HandoverDisconnected, history, StackTyped, CountsTyped
  <1>9. CASE InternalError(n)
    <2>1. Fail(n, Rest(n), <<>>) /\ FALSE \in Outcome("error") /\ Count(FALSE)
          /\ UNCHANGED <<stack, starts, history>>
      BY <1>9 DEF InternalError
    <2>2. AnchorsTyped'
      BY <1>2, <2>1, BecomeType, NoCommand
    <2> QED BY <2>1, <2>2, OutcomeType DEF stack, history, StackTyped, CountsTyped
  <1> QED BY <1>4, <1>5, <1>6, <1>7, <1>8, <1>9

LEMMA AnswerType ==
  ASSUME TypeOK, NEW n \in Anchors, NEW a \in AnchorType, NEW kind, NEW ok \in Outcome(kind),
         Answer(n, ok, a), chan[n] # <<>>
  PROVE  AnchorsTyped' /\ CountsTyped'
  <1>1. ok \in BOOLEAN /\ faults' \in 0 .. MaxFaults
    BY OutcomeType, TypedParts DEF Answer
  <1>2. AnchorsTyped'
    BY <1>1, DoneType, TypedParts
  <1>3. UNCHANGED <<starts, history>>
    BY DEF Answer, Done
  <1> QED BY <1>1, <1>2, <1>3, TypedParts DEF CountsTyped, history

LEMMA CommandTypes ==
  ASSUME TypeOK, NEW n \in Anchors, ProcessA2ACommand(n) \/ Lose(n)
  PROVE  TypeOK'
  <1> USE TypedParts
  <1>1. anchor[n] \in AnchorType
    BY DEF AnchorsTyped
  <1>2. chan[n] # <<>>
    BY DEF ProcessA2ACommand, OnStartTimeSync, OnStopTimeSync, OnLlPendingData, OnData,
           OnAnchorStartSearch, OnInformConnect, OnInformFailure, Received, Lose
  <1>3. No(n) \in Number
    <2>1. chan[n] \in CommandSeq
      BY DEF AnchorsTyped
    <2>2. Head(chan[n]) \in Items(Commands)
      BY <1>2, <2>1 DEF CommandSeq
    <2> QED BY <2>2 DEF No, Items, Number
  <1>4. UNCHANGED stack => StackTyped'
    BY DEF stack, StackTyped
  <1> DEFINE a == [anchor[n] EXCEPT !.found = FALSE]
             b == [a EXCEPT !.busy = TRUE]
  <1>5. a \in AnchorType /\ b \in AnchorType
    BY <1>1, AnchorWith
  <1>6. CASE OnStartTimeSync(n) \/ OnStopTimeSync(n)
    <2>1. Call(b, "TxOn") \in AnchorType /\ Call(a, "TxOff") \in AnchorType
      BY <1>5, CallFacts DEF Calls
    <2>2. PICK ok \in Outcome("refuse") :
            \/ Answer(n, ok, IF ok THEN Call(b, "TxOn") ELSE a)
            \/ Answer(n, ok, IF ok THEN Call(a, "TxOff") ELSE a)
      BY <1>6 DEF OnStartTimeSync, OnStopTimeSync
    <2> HIDE DEF a, b
    <2>3. /\ (IF ok THEN Call(b, "TxOn") ELSE a) \in AnchorType
          /\ (IF ok THEN Call(a, "TxOff") ELSE a) \in AnchorType
      BY <1>5, <2>1
    <2>4. AnchorsTyped' /\ CountsTyped'
      BY <1>2, <2>2, <2>3, AnswerType
    <2> QED BY <1>4, <1>6, <2>4 DEF OnStartTimeSync, OnStopTimeSync
  <1>7. CASE OnLlPendingData(n)
    <2>1. Append(anchor[n].queue, No(n)) \in Seq(Number)
      BY <1>1, <1>3, AnchorFields
    <2> DEFINE c == [anchor[n] EXCEPT !.queue = Append(@, No(n))]
    <2>2. c \in AnchorType
      BY <1>1, <2>1, AnchorWith
    <2> HIDE DEF c
    <2>3. PICK ok \in Outcome("refuse") :
            Count(ok) /\ Done(n, IF ok THEN c ELSE anchor[n], <<>>)
      BY <1>7 DEF OnLlPendingData, c
    <2>4. (IF ok THEN c ELSE anchor[n]) \in AnchorType
      BY <1>1, <2>2
    <2>5. AnchorsTyped'
      BY <1>2, <2>3, <2>4, DoneType
    <2>6. CountsTyped'
      <3>1. UNCHANGED <<starts, history>> /\ Count(ok)
        BY <2>3 DEF Done
      <3>2. faults' \in 0 .. MaxFaults
        BY <3>1, OutcomeType
      <3> QED BY <3>1, <3>2 DEF CountsTyped, history
    <2>7. UNCHANGED stack
      BY <1>7 DEF OnLlPendingData
    <2> QED BY <1>4, <2>5, <2>6, <2>7
  <1>8. CASE OnData(n)
    <2> DEFINE d == [anchor[n] EXCEPT !.data = No(n)]
    <2>1. d \in AnchorType
      BY <1>1, <1>3, AnchorWith
    <2>2. CASE anchor[n].data # 0 \/ d.data = 0
      <3>1. /\ Done(n, Abort(anchor[n], n), <<Plain("InformFailure")>>)
            /\ UNCHANGED <<link, rx, tx, search, ref, faults>>
        BY <1>8, <2>2 DEF OnData
      <3>2. AnchorsTyped'
        BY <1>1, <1>2, <3>1, DoneType, AbortType DEF Commands
      <3> QED BY <3>1, <3>2 DEF Done, history, CountsTyped, StackTyped
    <2>3. CASE ~(anchor[n].data # 0 \/ d.data = 0)
      <3>1. PICK ok \in Outcome("refuse") :
              Answer(n, ok, d) /\ ref' = [ref EXCEPT ![n] = @ \/ ok]
        BY <1>8, <2>3 DEF OnData
      <3>2. AnchorsTyped' /\ CountsTyped'
        BY <1>2, <2>1, <3>1, AnswerType
      <3>3. UNCHANGED <<link, rx, tx, search>>
        BY <1>8 DEF OnData
      <3>4. ref' \in [Anchors -> BOOLEAN]
        BY <3>1 DEF StackTyped
      <3> QED BY <3>2, <3>3, <3>4 DEF StackTyped
    <2> QED BY <2>2, <2>3
  <1>9. CASE OnAnchorStartSearch(n)
    <2>1. PICK ok \in Outcome("refuse") :
            Answer(n, ok, IF ok THEN Call(anchor[n], "SearchOn") ELSE anchor[n])
      BY <1>9 DEF OnAnchorStartSearch
    <2>2. (IF ok THEN Call(anchor[n], "SearchOn") ELSE anchor[n]) \in AnchorType
      BY <1>1, CallFacts DEF Calls
    <2>3. AnchorsTyped' /\ CountsTyped'
      BY <1>2, <2>1, <2>2, AnswerType
    <2> QED BY <1>4, <1>9, <2>3 DEF OnAnchorStartSearch
  <1>10. CASE OnInformConnect(n)
    <2> DEFINE c == [anchor[n] EXCEPT !.state = "Idle", !.device = FALSE]
    <2>1. c \in AnchorType
      BY <1>1 DEF AnchorType, States
    <2>2. Call(c, "Disconnect") \in AnchorType
      BY <2>1, CallFacts DEF Calls
    <2>3. CASE ~anchor[n].device
      <3>1. Done(n, Abort(c, n), <<Plain("InformFailure")>>) /\ UNCHANGED faults
        BY <1>10, <2>3 DEF OnInformConnect
      <3> HIDE DEF c
      <3>2. AnchorsTyped'
        BY <1>2, <2>1, <3>1, DoneType, AbortType DEF Commands
      <3> QED BY <1>4, <1>10, <3>1, <3>2 DEF OnInformConnect, Done, history, CountsTyped
    <2>4. CASE anchor[n].device
      <3>1. PICK ok \in Outcome("refuse") : Answer(n, ok, IF ok THEN Call(c, "Disconnect") ELSE c)
        BY <1>10, <2>4 DEF OnInformConnect
      <3> HIDE DEF c
      <3>2. (IF ok THEN Call(c, "Disconnect") ELSE c) \in AnchorType
        BY <2>1, <2>2
      <3>3. AnchorsTyped' /\ CountsTyped'
        BY <1>2, <3>1, <3>2, AnswerType
      <3> QED BY <1>4, <1>10, <3>3 DEF OnInformConnect
    <2> QED BY <2>3, <2>4
  <1>11. CASE OnInformFailure(n)
    <2>1. Done(n, Abort(anchor[n], n), <<>>) /\ UNCHANGED <<stack, faults>>
      BY <1>11 DEF OnInformFailure
    <2>2. AnchorsTyped'
      BY <1>1, <1>2, <2>1, DoneType, AbortType
    <2> QED BY <1>4, <2>1, <2>2 DEF Done, history, CountsTyped, stack
  <1>12. CASE Lose(n)
    <2>1. Done(n, anchor[n], <<>>) /\ UNCHANGED stack /\ FALSE \in Outcome("loss") /\ Count(FALSE)
      BY <1>12 DEF Lose
    <2>2. AnchorsTyped'
      BY <1>1, <1>2, <2>1, DoneType
    <2>3. faults' \in 0 .. MaxFaults
      BY <2>1, OutcomeType
    <2> QED BY <1>4, <2>1, <2>2, <2>3 DEF Done, history, CountsTyped
  <1> QED BY <1>6, <1>7, <1>8, <1>9, <1>10, <1>11, <1>12 DEF ProcessA2ACommand

LEMMA NextType == TypeOK /\ [Next]_vars => TypeOK'
  <1> SUFFICES ASSUME TypeOK, [Next]_vars PROVE TypeOK'
    OBVIOUS
  <1>1. CASE UNCHANGED vars
    BY <1>1 DEF TypeOK, vars, stack, history
  <1>2. ASSUME NEW n \in Anchors, Event(n) PROVE TypeOK'
    BY <1>2, TimeSyncTypes, ContextTypes, SearchTypes, EndTypes DEF Event
  <1>3. CASE Next
    BY <1>2, <1>3, ApplicationTypes, SearchTypes, EndTypes, CommandTypes DEF Next
  <1> QED BY <1>1, <1>3

LEMMA InitType == Init => TypeOK
  <1> SUFFICES ASSUME Init PROVE TypeOK
    OBVIOUS
  <1>1. Rested \in AnchorType
    BY HandoverAssumption DEF Rested, AnchorType, States, CallSeq, Number
  <1>2. AnchorsTyped
    BY <1>1, NoCommand DEF Init, AnchorsTyped
  <1>3. StackTyped
    BY DEF Init, StackTyped
  <1>4. CountsTyped
    BY HandoverAssumption DEF Init, CountsTyped, Number
  <1> QED BY <1>2, <1>3, <1>4, TypedParts

\* In every behaviour, with any faults: commands and calls are those of the module, and no
\* part of the state leaves its type.
THEOREM TypeCorrect == Spec => []TypeOK
  BY InitType, NextType, PTL DEF Spec
-----------------------------------------------------------------------------
(* Sequences.                                                              *)

\* Places lo + 1 to hi of what f numbers.
Slice(f, lo, hi) == [i \in 1 .. hi - lo |-> f[lo + i]]
Copies(no, k)    == [i \in 1 .. k |-> no]

LEMMA SliceIsSeq ==
  ASSUME NEW f, NEW lo \in Nat, NEW hi \in Nat, lo <= hi, NEW S, \A i \in lo + 1 .. hi : f[i] \in S
  PROVE  /\ Slice(f, lo, hi) \in Seq(S) /\ Len(Slice(f, lo, hi)) = hi - lo
         /\ \A i \in 1 .. hi - lo : Slice(f, lo, hi)[i] = f[lo + i]
  <1>1. hi - lo \in Nat /\ \A i \in 1 .. hi - lo : f[lo + i] \in S
    OBVIOUS
  <1>2. Slice(f, lo, hi) \in [1 .. hi - lo -> S]
    BY <1>1 DEF Slice
  <1>3. \A i \in 1 .. hi - lo : Slice(f, lo, hi)[i] = f[lo + i]
    BY DEF Slice
  <1> QED BY <1>1, <1>2, <1>3, SeqDef, LenProperties

LEMMA SliceNone ==
  ASSUME NEW f, NEW lo \in Nat
  PROVE  Slice(f, lo, lo) = <<>>
  <1>1. Slice(f, lo, lo) \in Seq({}) /\ Len(Slice(f, lo, lo)) = 0
    BY SliceIsSeq
  <1> QED BY <1>1, EmptySeq

LEMMA SliceTail ==
  ASSUME NEW f, NEW lo \in Nat, NEW hi \in Nat, lo < hi, NEW S, \A i \in lo + 1 .. hi : f[i] \in S
  PROVE  /\ Slice(f, lo, hi) # <<>> /\ Head(Slice(f, lo, hi)) = f[lo + 1]
         /\ Tail(Slice(f, lo, hi)) = Slice(f, lo + 1, hi)
  <1> DEFINE s == Slice(f, lo, hi)
             t == Slice(f, lo + 1, hi)
  <1>0. lo <= hi
    OBVIOUS
  <1>1. s \in Seq(S) /\ Len(s) = hi - lo /\ \A i \in 1 .. hi - lo : s[i] = f[lo + i]
    BY <1>0, SliceIsSeq, Zenon
  <1>2. lo + 1 \in Nat /\ lo + 1 <= hi /\ \A i \in lo + 1 + 1 .. hi : f[i] \in S
    OBVIOUS
  <1>3. t \in Seq(S) /\ Len(t) = hi - (lo + 1) /\ \A i \in 1 .. hi - (lo + 1) : t[i] = f[lo + 1 + i]
    BY <1>2, SliceIsSeq
  <1> HIDE DEF s, t
  <1>4. s # <<>> /\ Head(s) = f[lo + 1]
    BY <1>1
  <1>5. Tail(s) \in Seq(S) /\ Len(Tail(s)) = hi - (lo + 1)
        /\ \A i \in 1 .. hi - (lo + 1) : Tail(s)[i] = f[lo + 1 + i]
    BY <1>1, <1>4
  <1>6. Tail(s) = t
    BY <1>3, <1>5, SeqEqual
  <1> QED BY <1>4, <1>6 DEF s, t

LEMMA SliceAppend ==
  ASSUME NEW f, NEW lo \in Nat, NEW hi \in Nat, lo <= hi, NEW S, \A i \in lo + 1 .. hi + 1 : f[i] \in S
  PROVE  Append(Slice(f, lo, hi), f[hi + 1]) = Slice(f, lo, hi + 1)
  <1> DEFINE s == Slice(f, lo, hi)
             t == Slice(f, lo, hi + 1)
             x == f[hi + 1]
  <1>1. /\ hi + 1 \in Nat /\ lo <= hi + 1
        /\ \A i \in lo + 1 .. hi : f[i] \in S
        /\ \A i \in lo + 1 .. hi + 1 : f[i] \in S
        /\ x \in S
    OBVIOUS
  <1>2. s \in Seq(S) /\ Len(s) = hi - lo /\ \A i \in 1 .. hi - lo : s[i] = f[lo + i]
    BY <1>1, SliceIsSeq, Zenon
  <1>3. t \in Seq(S) /\ Len(t) = hi + 1 - lo /\ \A i \in 1 .. hi + 1 - lo : t[i] = f[lo + i]
    <2>1. ASSUME NEW h \in Nat, lo <= h, \A i \in lo + 1 .. h : f[i] \in S
          PROVE  /\ Slice(f, lo, h) \in Seq(S) /\ Len(Slice(f, lo, h)) = h - lo
                 /\ \A i \in 1 .. h - lo : Slice(f, lo, h)[i] = f[lo + i]
      BY <2>1, SliceIsSeq, Zenon
    <2> QED BY <1>1, <2>1
  <1> HIDE DEF s, t
  <1>4. x = f[lo + (hi + 1 - lo)]
    BY <1>1
  <1> HIDE DEF x
  <1>5. Append(s, x) \in Seq(S) /\ Len(Append(s, x)) = hi + 1 - lo
        /\ \A i \in 1 .. hi + 1 - lo : Append(s, x)[i] = f[lo + i]
    BY <1>1, <1>2, <1>4
  <1>6. Append(s, x) = t
    BY <1>3, <1>5, SeqEqual
  <1> QED BY <1>6 DEF s, t, x

LEMMA CopiesAppend ==
  ASSUME NEW no, NEW k \in Nat
  PROVE  Append(Copies(no, k), no) = Copies(no, k + 1) /\ Copies(no, 0) = <<>>
  <1> DEFINE f == [i \in 1 .. k + 1 |-> no]
  <1>1. Copies(no, k) = Slice(f, 0, k) /\ Copies(no, k + 1) = Slice(f, 0, k + 1)
        /\ Copies(no, 0) = Slice(f, 0, 0)
    BY DEF Copies, Slice
  <1>2. f[k + 1] = no /\ \A i \in 0 + 1 .. k + 1 : f[i] \in {no}
    OBVIOUS
  <1> HIDE DEF f
  <1>3. Append(Slice(f, 0, k), f[k + 1]) = Slice(f, 0, k + 1)
    <2>1. 0 \in Nat /\ 0 <= k
      OBVIOUS
    <2> QED BY <1>2, <2>1, SliceAppend, Zenon
  <1> QED BY <1>1, <1>2, <1>3, SliceNone

LEMMA OneMore ==
  ASSUME NEW S, NEW s \in Seq(S), NEW x \in S
  PROVE  /\ s \o <<>> = s /\ <<>> \o s = s /\ s \o <<x>> = Append(s, x)
         /\ <<x>> \o s # <<>> /\ Head(<<x>> \o s) = x /\ Tail(<<x>> \o s) = s
  BY ConcatProperties, ConcatEmptySeq, AppendIsConcat, ConcatSimplifications

-----------------------------------------------------------------------------
(* What each operation does when nothing fails.  n is the anchor it runs    *)
(* on; of the other one it changes the commands on their way there.        *)

Stack(n)     == <<link[n], rx[n], tx[n], search[n], ref[n]>>
Local(n)     == <<anchor[n], Stack(n)>>
Numbers      == <<starts, indicated, taken>>
Nothing(n)   == UNCHANGED <<Local(Peer(n)), chan[Peer(n)]>>
Says(n, cmd) == UNCHANGED Local(Peer(n)) /\ chan'[Peer(n)] = Append(chan[Peer(n)], cmd)

\* A step that is no fault.
LEMMA WentWell ==
  ASSUME NEW ok, Count(ok), faults = 0, faults' = 0
  PROVE  ok
  BY DEF Count

LEMMA BecomeEffect ==
  ASSUME TypeOK, NEW n \in Anchors, NEW a
  PROVE  /\ Become(n, a, <<>>) =>
              /\ anchor'[n] = a /\ chan'[n] = chan[n]
              /\ UNCHANGED <<anchor[Peer(n)], chan[Peer(n)]>>
         /\ \A cmd \in Items(Commands) : Become(n, a, <<cmd>>) =>
              /\ anchor'[n] = a /\ chan'[n] = chan[n]
              /\ anchor'[Peer(n)] = anchor[Peer(n)]
              /\ chan'[Peer(n)] = Append(chan[Peer(n)], cmd)
  <1> DEFINE p == Peer(n)
  <1>1. p \in Anchors /\ p # n
    BY PeerFacts
  <1>2. anchor \in [Anchors -> AnchorType] /\ chan \in [Anchors -> Seq(Items(Commands))]
    BY TypedParts DEF AnchorsTyped, CommandSeq
  <1>3. chan[p] \o <<>> = chan[p] /\ \A cmd \in Items(Commands) : chan[p] \o <<cmd>> = Append(chan[p], cmd)
    BY <1>1, <1>2, OneMore
  <1>4. ASSUME NEW out, Become(n, a, out)
        PROVE  /\ anchor'[n] = a /\ anchor'[p] = anchor[p]
               /\ chan'[n] = chan[n] /\ chan'[p] = chan[p] \o out
    BY <1>1, <1>2, <1>4 DEF Become, Commit
  <1>5. ASSUME NEW cmd \in Items(Commands), Become(n, a, <<cmd>>)
        PROVE  /\ anchor'[n] = a /\ chan'[n] = chan[n] /\ anchor'[p] = anchor[p]
               /\ chan'[p] = Append(chan[p], cmd)
    <2>1. chan'[p] = chan[p] \o <<cmd>>
      BY <1>4, <1>5
    <2> QED BY <1>3, <1>4, <1>5, <2>1
  <1>6. ASSUME Become(n, a, <<>>)
        PROVE  anchor'[n] = a /\ chan'[n] = chan[n] /\ UNCHANGED <<anchor[p], chan[p]>>
    <2>1. chan'[p] = chan[p] \o <<>>
      BY <1>4, <1>6
    <2> QED BY <1>3, <1>4, <1>6, <2>1
  <1> QED BY <1>5, <1>6

LEMMA DoneEffect ==
  ASSUME TypeOK, NEW n \in Anchors, NEW a, Done(n, a, <<>>)
  PROVE  /\ anchor'[n] = a /\ chan'[n] = Tail(chan[n])
         /\ UNCHANGED <<anchor[Peer(n)], chan[Peer(n)]>> /\ UNCHANGED Numbers
  <1> DEFINE p == Peer(n)
  <1>1. p \in Anchors /\ p # n
    BY PeerFacts
  <1>2. anchor \in [Anchors -> AnchorType] /\ chan \in [Anchors -> Seq(Items(Commands))]
    BY TypedParts DEF AnchorsTyped, CommandSeq
  <1>3. chan[p] \o <<>> = chan[p]
    BY <1>1, <1>2, OneMore
  <1>4. /\ anchor'[n] = a /\ anchor'[p] = anchor[p]
        /\ chan'[n] = Tail(chan[n]) /\ chan'[p] = chan[p] \o <<>>
    BY <1>1, <1>2 DEF Done, Commit
  <1> QED BY <1>3, <1>4 DEF Done, Numbers, history

\* What AnchorsTyped and StackTyped say of one anchor.
LEMMA LocalTypes ==
  ASSUME TypeOK, NEW n \in Anchors
  PROVE  /\ anchor[n] \in AnchorType /\ anchor[n].calls \in CallSeq /\ chan[n] \in CommandSeq
         /\ Peer(n) \in Anchors /\ Peer(n) # n
         /\ link \in [Anchors -> {"none", "sending", "suspended"}]
         /\ rx \in [Anchors -> BOOLEAN] /\ tx \in [Anchors -> BOOLEAN]
         /\ search \in [Anchors -> BOOLEAN] /\ ref \in [Anchors -> BOOLEAN]
  BY TypedParts, AnchorFields, PeerFacts DEF AnchorsTyped, StackTyped

\* The end of a call other than Suspend, SearchOn and Connect.
LEMMA TimeSyncCallEffect ==
  ASSUME TypeOK, NEW n \in Anchors
  PROVE  /\ /\ TimeSyncReceiveComplete(n) /\ Head(anchor[n].calls).op = "RxOn"
            /\ anchor[n].state = "Idle"
            => /\ anchor'[n] = [anchor[n] EXCEPT !.calls = Tail(@), !.state = "TimeSyncRx"]
               /\ rx'[n] /\ UNCHANGED <<chan[n], link[n], tx[n], search[n], ref[n]>>
               /\ Nothing(n) /\ UNCHANGED Numbers
         /\ /\ TimeSyncTransmitStateChanged(n) /\ Head(anchor[n].calls).op = "TxOn"
            /\ anchor[n].state = "Idle"
            => /\ anchor'[n] = [anchor[n] EXCEPT !.calls = Tail(@), !.state = "TimeSyncTx"]
               /\ tx'[n] /\ UNCHANGED <<chan[n], link[n], rx[n], search[n], ref[n]>>
               /\ Nothing(n) /\ UNCHANGED Numbers
         /\ /\ TimeSyncTransmitStateChanged(n) /\ Head(anchor[n].calls).op = "TxOff"
            /\ anchor[n].state = "TimeSyncTx"
            => /\ anchor'[n] = [anchor[n] EXCEPT !.calls = Tail(@), !.state = "ContextRx"]
               /\ ~tx'[n] /\ UNCHANGED <<chan[n], link[n], rx[n], search[n], ref[n]>>
               /\ Nothing(n) /\ UNCHANGED Numbers
  <1>1. anchor[n] \in AnchorType /\ Rest(n) = [anchor[n] EXCEPT !.calls = Tail(@)]
        /\ Rest(n).state = anchor[n].state
    BY LocalTypes DEF Rest, AnchorType
  <1>2. ASSUME NEW table, Toggle(n, table), anchor[n].state \in DOMAIN table,
               NEW v, v = table[anchor[n].state]
        PROVE  /\ anchor'[n] = [anchor[n] EXCEPT !.calls = Tail(@), !.state = v]
               /\ UNCHANGED <<chan[n], anchor[Peer(n)], chan[Peer(n)]>>
    <2> DEFINE a == Rest(n)
    <2>1. Become(n, [a EXCEPT !.state = table[@]], <<>>)
      BY <1>1, <1>2 DEF Toggle
    <2>2. [a EXCEPT !.state = table[@]] = [anchor[n] EXCEPT !.calls = Tail(@), !.state = v]
      BY <1>1, <1>2 DEF AnchorType
    <2> QED BY <2>1, <2>2, BecomeEffect
  <1>3. ASSUME TimeSyncReceiveComplete(n), Head(anchor[n].calls).op = "RxOn",
               anchor[n].state = "Idle"
        PROVE  /\ anchor'[n] = [anchor[n] EXCEPT !.calls = Tail(@), !.state = "TimeSyncRx"]
               /\ rx'[n] /\ UNCHANGED <<chan[n], link[n], tx[n], search[n], ref[n]>>
               /\ Nothing(n) /\ UNCHANGED Numbers
    <2>1. rx' = [rx EXCEPT ![n] = TRUE]
      BY <1>3, Zenon DEF TimeSyncReceiveComplete, Completes
    <2>2. Toggle(n, RxToggle) /\ UNCHANGED <<link, tx, search, ref, starts, indicated, taken>>
      BY <1>3 DEF TimeSyncReceiveComplete, history
    <2>3. anchor[n].state \in DOMAIN RxToggle /\ "TimeSyncRx" = RxToggle[anchor[n].state]
      BY <1>3 DEF RxToggle
    <2>4. /\ anchor'[n] = [anchor[n] EXCEPT !.calls = Tail(@), !.state = "TimeSyncRx"]
          /\ UNCHANGED <<chan[n], anchor[Peer(n)], chan[Peer(n)]>>
      BY <1>2, <2>2, <2>3
    <2> QED BY <2>1, <2>2, <2>4, LocalTypes DEF Nothing, Local, Stack, Numbers
  <1>4. ASSUME TimeSyncTransmitStateChanged(n), NEW op \in {"TxOn", "TxOff"},
               Head(anchor[n].calls).op = op, anchor[n].state \in DOMAIN TxToggle,
               NEW v, v = TxToggle[anchor[n].state]
        PROVE  /\ anchor'[n] = [anchor[n] EXCEPT !.calls = Tail(@), !.state = v]
               /\ (tx'[n] <=> op = "TxOn")
               /\ UNCHANGED <<chan[n], link[n], rx[n], search[n], ref[n]>>
               /\ Nothing(n) /\ UNCHANGED Numbers
    <2>1. tx' = [tx EXCEPT ![n] = (op = "TxOn")]
      BY <1>4, Zenon DEF TimeSyncTransmitStateChanged, Completes
    <2>2. Toggle(n, TxToggle) /\ UNCHANGED <<link, rx, search, ref, starts, indicated, taken>>
      BY <1>4 DEF TimeSyncTransmitStateChanged, history
    <2>3. /\ anchor'[n] = [anchor[n] EXCEPT !.calls = Tail(@), !.state = v]
          /\ UNCHANGED <<chan[n], anchor[Peer(n)], chan[Peer(n)]>>
      BY <1>2, <1>4, <2>2
    <2> QED BY <2>1, <2>2, <2>3, LocalTypes DEF Nothing, Local, Stack, Numbers
  <1>5. /\ anchor[n].state = "Idle" =>
             anchor[n].state \in DOMAIN TxToggle /\ "TimeSyncTx" = TxToggle[anchor[n].state]
        /\ anchor[n].state = "TimeSyncTx" =>
             anchor[n].state \in DOMAIN TxToggle /\ "ContextRx" = TxToggle[anchor[n].state]
    BY DEF TxToggle
  <1>6. ASSUME TimeSyncTransmitStateChanged(n), Head(anchor[n].calls).op = "TxOn",
               anchor[n].state = "Idle"
        PROVE  /\ anchor'[n] = [anchor[n] EXCEPT !.calls = Tail(@), !.state = "TimeSyncTx"]
               /\ tx'[n] /\ UNCHANGED <<chan[n], link[n], rx[n], search[n], ref[n]>>
               /\ Nothing(n) /\ UNCHANGED Numbers
    BY <1>4, <1>5, <1>6
  <1>7. ASSUME TimeSyncTransmitStateChanged(n), Head(anchor[n].calls).op = "TxOff",
               anchor[n].state = "TimeSyncTx"
        PROVE  /\ anchor'[n] = [anchor[n] EXCEPT !.calls = Tail(@), !.state = "ContextRx"]
               /\ ~tx'[n] /\ UNCHANGED <<chan[n], link[n], rx[n], search[n], ref[n]>>
               /\ Nothing(n) /\ UNCHANGED Numbers
    BY <1>4, <1>5, <1>7
  <1> QED BY <1>3, <1>6, <1>7

LEMMA SyncEffect ==
  ASSUME TypeOK, NEW n \in Anchors, faults = 0, faults' = 0
  PROVE  /\ StartTimeSync(n) =>
              /\ anchor'[n] = [anchor[n] EXCEPT !.device = TRUE, !.found = FALSE, !.busy = TRUE,
                                                !.calls = Append(@, Plain("RxOn"))]
              /\ UNCHANGED <<chan[n], Stack(n)>> /\ Says(n, Plain("StartTimeSync"))
              /\ starts' = starts + 1 /\ UNCHANGED <<indicated, taken>>
         /\ TimeSyncEvent(n) /\ anchor[n].device =>
              /\ anchor'[n] = [anchor[n] EXCEPT !.calls = Append(@, Plain("Suspend"))]
              /\ ~rx'[n] /\ UNCHANGED <<chan[n], link[n], tx[n], search[n], ref[n]>>
              /\ Says(n, Plain("StopTimeSync")) /\ UNCHANGED Numbers
  <1>1. anchor[n] \in AnchorType
    BY LocalTypes
  <1>2. Plain("StartTimeSync") \in Items(Commands) /\ Plain("StopTimeSync") \in Items(Commands)
    BY PlainTyped DEF Commands
  <1>3. ASSUME StartTimeSync(n)
        PROVE  /\ anchor'[n] = [anchor[n] EXCEPT !.device = TRUE, !.found = FALSE, !.busy = TRUE,
                                                !.calls = Append(@, Plain("RxOn"))]
               /\ UNCHANGED <<chan[n], Stack(n)>> /\ Says(n, Plain("StartTimeSync"))
               /\ starts' = starts + 1 /\ UNCHANGED <<indicated, taken>>
    <2> DEFINE a == [anchor[n] EXCEPT !.device = TRUE, !.found = FALSE]
               b == [a EXCEPT !.busy = TRUE]
    <2>1. PICK ok \in Outcome("refuse") :
            /\ Count(ok)
            /\ IF ok THEN Become(n, Call(b, "RxOn"), <<Plain("StartTimeSync")>>)
               ELSE Become(n, a, <<>>)
      BY <1>3 DEF StartTimeSync
    <2>2. Become(n, Call(b, "RxOn"), <<Plain("StartTimeSync")>>)
      BY <2>1, WentWell
    <2>3. Call(b, "RxOn") = [anchor[n] EXCEPT !.device = TRUE, !.found = FALSE, !.busy = TRUE,
                                              !.calls = Append(@, Plain("RxOn"))]
      BY <1>1 DEF Call, AnchorType
    <2>4. UNCHANGED stack /\ UNCHANGED <<indicated, taken>> /\ starts' = starts + 1
      BY <1>3 DEF StartTimeSync
    <2> HIDE DEF a, b
    <2> QED BY <1>2, <2>2, <2>3, <2>4, BecomeEffect DEF stack, Stack, Local, Says
  <1>4. ASSUME TimeSyncEvent(n), anchor[n].device
        PROVE  /\ anchor'[n] = [anchor[n] EXCEPT !.calls = Append(@, Plain("Suspend"))]
               /\ ~rx'[n] /\ UNCHANGED <<chan[n], link[n], tx[n], search[n], ref[n]>>
               /\ Says(n, Plain("StopTimeSync")) /\ UNCHANGED Numbers
    <2>1. PICK ok \in Outcome("refuse") :
            /\ Count(ok)
            /\ Try(n, ok /\ anchor[n].device,
                   IF ok /\ anchor[n].device THEN Call(anchor[n], "Suspend") ELSE anchor[n],
                   <<Plain("StopTimeSync")>>)
      BY <1>4 DEF TimeSyncEvent
    <2>2. Become(n, Call(anchor[n], "Suspend"), <<Plain("StopTimeSync")>>)
      BY <1>4, <2>1, WentWell DEF Try
    <2>3. /\ anchor'[n] = Call(anchor[n], "Suspend") /\ chan'[n] = chan[n]
          /\ anchor'[Peer(n)] = anchor[Peer(n)]
          /\ chan'[Peer(n)] = Append(chan[Peer(n)], Plain("StopTimeSync"))
      BY <1>2, <2>2, BecomeEffect
    <2>4. rx' = [rx EXCEPT ![n] = FALSE] /\ UNCHANGED <<link, tx, search, ref, starts, history>>
      BY <1>4 DEF TimeSyncEvent
    <2> QED BY <2>3, <2>4, LocalTypes DEF Call, Stack, Local, Says, Numbers, history
  <1> QED BY <1>3, <1>4

LEMMA SuspendEffect ==
  ASSUME TypeOK, NEW n \in Anchors, faults = 0, faults' = 0,
         SuspendTransmitComplete(n), anchor[n].device, link[n] = "sending"
  PROVE  /\ indicated' \in 0 .. MaxPending
         /\ anchor'[n] = [anchor[n] EXCEPT !.state = "ContextTx", !.data = starts,
                            !.calls = Append([i \in 1 .. indicated' |-> Item("Pending", starts)]
                                             \o Tail(@), Plain("GetData"))]
         /\ link'[n] = "suspended" /\ UNCHANGED <<chan[n], rx[n], tx[n], search[n], ref[n]>>
         /\ Nothing(n) /\ UNCHANGED <<starts, taken>>
  <1> DEFINE left(k) == [i \in 1 .. k |-> Item("Pending", starts)]
             a(k) == [Rest(n) EXCEPT !.state = "ContextTx", !.calls = left(k) \o @]
             b(k) == [a(k) EXCEPT !.data = starts]
  <1>1. PICK ok \in Outcome("refuse"), k \in 0 .. MaxPending :
          /\ Count(ok) /\ indicated' = k
          /\ Try(n, ok /\ a(k).device,
                 IF ok /\ a(k).device THEN Call(b(k), "GetData") ELSE a(k), <<>>)
    BY DEF SuspendTransmitComplete
  <1>2. anchor[n] \in AnchorType
    BY LocalTypes
  <1>3. a(k).device
    BY <1>2 DEF Rest, AnchorType
  <1>4. Become(n, Call(b(k), "GetData"), <<>>)
    BY <1>1, <1>3, WentWell DEF Try
  <1>5. Call(b(k), "GetData") =
          [anchor[n] EXCEPT !.state = "ContextTx", !.data = starts,
                            !.calls = Append(left(k) \o Tail(@), Plain("GetData"))]
    BY <1>2 DEF Rest, Call, AnchorType
  <1> HIDE DEF b
  <1>6. /\ anchor'[n] = Call(b(k), "GetData") /\ chan'[n] = chan[n]
        /\ UNCHANGED <<anchor[Peer(n)], chan[Peer(n)]>>
    BY <1>4, BecomeEffect
  <1>7. /\ link' = [link EXCEPT ![n] = IF @ = "sending" THEN "suspended" ELSE @]
        /\ UNCHANGED <<rx, tx, search, ref, starts, taken>>
    BY DEF SuspendTransmitComplete
  <1>8. link'[n] = "suspended" /\ link'[Peer(n)] = link[Peer(n)]
    BY <1>7, LocalTypes
  <1> QED BY <1>1, <1>5, <1>6, <1>7, <1>8 DEF Nothing, Local, Stack

LEMMA ContextEffect ==
  ASSUME TypeOK, NEW n \in Anchors, faults = 0, faults' = 0
  PROVE  /\ LlPendingData(n) /\ anchor[n].state = "ContextTx" =>
              /\ anchor'[n] = [anchor[n] EXCEPT !.calls = Tail(@)] /\ UNCHANGED <<chan[n], Stack(n)>>
              /\ Says(n, Item("LlPendingData", Head(anchor[n].calls).no)) /\ UNCHANGED Numbers
         /\ GetComplete(n) /\ anchor[n].device =>
              /\ anchor'[n] = [anchor[n] EXCEPT !.data = 0,
                                                !.calls = Append(Tail(@), Plain("GetConnParams"))]
              /\ UNCHANGED <<chan[n], Stack(n)>>
              /\ Says(n, Item("Data", anchor[n].data)) /\ UNCHANGED Numbers
         /\ GetConnParamsComplete(n) /\ anchor[n].device =>
              /\ anchor'[n] = [anchor[n] EXCEPT !.calls = Tail(@)] /\ UNCHANGED <<chan[n], Stack(n)>>
              /\ Says(n, Plain("AnchorStartSearch")) /\ UNCHANGED Numbers
  <1>1. anchor[n] \in AnchorType
    BY LocalTypes
  <1>2. ASSUME LlPendingData(n), anchor[n].state = "ContextTx"
        PROVE  /\ anchor'[n] = [anchor[n] EXCEPT !.calls = Tail(@)] /\ UNCHANGED <<chan[n], Stack(n)>>
               /\ Says(n, Item("LlPendingData", Head(anchor[n].calls).no)) /\ UNCHANGED Numbers
    <2>1. Become(n, Rest(n), <<Item("LlPendingData", Head(anchor[n].calls).no)>>)
          /\ UNCHANGED <<stack, starts, history>>
      BY <1>2 DEF LlPendingData
    <2>2. Item("LlPendingData", Head(anchor[n].calls).no) \in Items(Commands)
      <3>1. Head(anchor[n].calls) \in Items(Calls)
        BY <1>2, RestFacts, TypedParts DEF LlPendingData, Completes
      <3>2. Head(anchor[n].calls).no \in Number
        BY <3>1 DEF Items, Number
      <3> QED BY <3>2, ItemTyped DEF Commands
    <2> QED BY <2>1, <2>2, BecomeEffect DEF Rest, stack, Stack, Local, Says, Numbers, history
  <1>3. ASSUME GetComplete(n), anchor[n].device
        PROVE  /\ anchor'[n] = [anchor[n] EXCEPT !.data = 0,
                                                !.calls = Append(Tail(@), Plain("GetConnParams"))]
               /\ UNCHANGED <<chan[n], Stack(n)>>
               /\ Says(n, Item("Data", anchor[n].data)) /\ UNCHANGED Numbers
    <2> DEFINE a == [Rest(n) EXCEPT !.data = 0]
    <2>1. PICK ok \in Outcome("refuse") :
            /\ Count(ok)
            /\ Try(n, ok /\ a.device, IF ok /\ a.device THEN Call(a, "GetConnParams") ELSE a,
                   <<Item("Data", anchor[n].data)>>)
      BY <1>3 DEF GetComplete
    <2>2. a.device
      BY <1>1, <1>3 DEF Rest, AnchorType
    <2>3. Become(n, Call(a, "GetConnParams"), <<Item("Data", anchor[n].data)>>)
      BY <2>1, <2>2, WentWell DEF Try
    <2>4. Call(a, "GetConnParams") =
            [anchor[n] EXCEPT !.data = 0, !.calls = Append(Tail(@), Plain("GetConnParams"))]
      BY <1>1 DEF Rest, Call, AnchorType
    <2>5. Item("Data", anchor[n].data) \in Items(Commands)
      BY <1>1, AnchorFields, ItemTyped DEF Commands
    <2>6. UNCHANGED <<stack, starts, history>>
      BY <1>3 DEF GetComplete
    <2> HIDE DEF a
    <2> QED BY <2>3, <2>4, <2>5, <2>6, BecomeEffect DEF stack, Stack, Local, Says, Numbers, history
  <1>4. ASSUME GetConnParamsComplete(n), anchor[n].device
        PROVE  /\ anchor'[n] = [anchor[n] EXCEPT !.calls = Tail(@)] /\ UNCHANGED <<chan[n], Stack(n)>>
               /\ Says(n, Plain("AnchorStartSearch")) /\ UNCHANGED Numbers
    <2>1. Become(n, Rest(n), <<Plain("AnchorStartSearch")>>) /\ UNCHANGED <<stack, starts, history>>
      BY <1>4 DEF GetConnParamsComplete
    <2>2. Plain("AnchorStartSearch") \in Items(Commands)
      BY PlainTyped DEF Commands
    <2> QED BY <2>1, <2>2, BecomeEffect DEF Rest, stack, Stack, Local, Says, Numbers, history
  <1> QED BY <1>2, <1>3, <1>4

LEMMA EndEffect ==
  ASSUME TypeOK, NEW n \in Anchors
  PROVE  /\ FreeComplete(n) =>
              /\ anchor'[n] = [anchor[n] EXCEPT !.calls = Tail(@), !.data = 0] /\ ~ref'[n]
              /\ UNCHANGED <<chan[n], link[n], rx[n], tx[n], search[n]>>
              /\ Nothing(n) /\ UNCHANGED Numbers
         /\ AnchorSearchStopped(n) =>
              /\ anchor'[n] = [anchor[n] EXCEPT !.calls = Tail(@)] /\ ~search'[n]
              /\ UNCHANGED <<chan[n], link[n], rx[n], tx[n], ref[n]>>
              /\ Nothing(n) /\ UNCHANGED Numbers
         /\ ResumeTransmitComplete(n) =>
              /\ anchor'[n] = [anchor[n] EXCEPT !.calls = Tail(@)]
              /\ link'[n] = IF link[n] = "suspended" THEN "sending" ELSE link[n]
              /\ UNCHANGED <<chan[n], rx[n], tx[n], search[n], ref[n]>>
              /\ Nothing(n) /\ UNCHANGED Numbers
         /\ HandoverDisconnected(n) =>
              /\ anchor'[n] = [anchor[n] EXCEPT !.calls = Tail(@), !.busy = FALSE]
              /\ link'[n] = "none"
              /\ UNCHANGED <<chan[n], rx[n], tx[n], search[n], ref[n]>>
              /\ Nothing(n) /\ UNCHANGED Numbers
         /\ HandoverConnected(n) /\ ref[n] =>
              /\ anchor'[n] = [anchor[n] EXCEPT !.state = "Idle", !.device = TRUE, !.busy = FALSE,
                                                !.calls = Append(Tail(@), Plain("FreeData"))]
              /\ link'[n] = "sending" /\ ~search'[n]
              /\ UNCHANGED <<chan[n], rx[n], tx[n], ref[n]>>
              /\ Says(n, Plain("InformConnect")) /\ UNCHANGED Numbers
  <1>1. anchor[n] \in AnchorType
    BY LocalTypes
  <1>2. ASSUME FreeComplete(n)
        PROVE  /\ anchor'[n] = [anchor[n] EXCEPT !.calls = Tail(@), !.data = 0] /\ ~ref'[n]
               /\ UNCHANGED <<chan[n], link[n], rx[n], tx[n], search[n]>>
               /\ Nothing(n) /\ UNCHANGED Numbers
    <2>1. /\ Become(n, [Rest(n) EXCEPT !.data = 0], <<>>) /\ ref' = [ref EXCEPT ![n] = FALSE]
          /\ UNCHANGED <<link, rx, tx, search, starts, history>>
      BY <1>2 DEF FreeComplete
    <2> QED BY <1>1, <2>1, BecomeEffect, LocalTypes
         DEF Rest, AnchorType, Nothing, Local, Stack, Numbers, history
  <1>3. ASSUME AnchorSearchStopped(n)
        PROVE  /\ anchor'[n] = [anchor[n] EXCEPT !.calls = Tail(@)] /\ ~search'[n]
               /\ UNCHANGED <<chan[n], link[n], rx[n], tx[n], ref[n]>>
               /\ Nothing(n) /\ UNCHANGED Numbers
    <2>1. /\ Become(n, Rest(n), <<>>) /\ search' = [search EXCEPT ![n] = FALSE]
          /\ UNCHANGED <<link, rx, tx, ref, starts, history>>
      BY <1>3 DEF AnchorSearchStopped
    <2> QED BY <2>1, BecomeEffect, LocalTypes DEF Rest, Nothing, Local, Stack, Numbers, history
  <1>4. ASSUME ResumeTransmitComplete(n)
        PROVE  /\ anchor'[n] = [anchor[n] EXCEPT !.calls = Tail(@)]
               /\ link'[n] = IF link[n] = "suspended" THEN "sending" ELSE link[n]
               /\ UNCHANGED <<chan[n], rx[n], tx[n], search[n], ref[n]>>
               /\ Nothing(n) /\ UNCHANGED Numbers
    <2>1. /\ Become(n, Rest(n), <<>>)
          /\ link' = [link EXCEPT ![n] = IF @ = "suspended" THEN "sending" ELSE @]
          /\ UNCHANGED <<rx, tx, search, ref, starts, history>>
      BY <1>4 DEF ResumeTransmitComplete
    <2> QED BY <2>1, BecomeEffect, LocalTypes DEF Rest, Nothing, Local, Stack, Numbers, history
  <1>5. ASSUME HandoverDisconnected(n)
        PROVE  /\ anchor'[n] = [anchor[n] EXCEPT !.calls = Tail(@), !.busy = FALSE]
               /\ link'[n] = "none"
               /\ UNCHANGED <<chan[n], rx[n], tx[n], search[n], ref[n]>>
               /\ Nothing(n) /\ UNCHANGED Numbers
    <2>1. /\ Become(n, [Rest(n) EXCEPT !.busy = FALSE], <<>>)
          /\ link' = [link EXCEPT ![n] = "none"]
          /\ UNCHANGED <<rx, tx, search, ref, starts, history>>
      BY <1>5 DEF HandoverDisconnected
    <2> QED BY <1>1, <2>1, BecomeEffect, LocalTypes
         DEF Rest, AnchorType, Nothing, Local, Stack, Numbers, history
  <1>6. ASSUME HandoverConnected(n), ref[n]
        PROVE  /\ anchor'[n] = [anchor[n] EXCEPT !.state = "Idle", !.device = TRUE, !.busy = FALSE,
                                                !.calls = Append(Tail(@), Plain("FreeData"))]
               /\ link'[n] = "sending" /\ ~search'[n]
               /\ UNCHANGED <<chan[n], rx[n], tx[n], ref[n]>>
               /\ Says(n, Plain("InformConnect")) /\ UNCHANGED Numbers
    <2> DEFINE a == [Rest(n) EXCEPT !.state = "Idle", !.device = TRUE, !.busy = FALSE]
    <2>1. /\ Become(n, Call(a, "FreeData"), <<Plain("InformConnect")>>)
          /\ link' = [link EXCEPT ![n] = "sending"] /\ search' = [search EXCEPT ![n] = FALSE]
          /\ UNCHANGED <<rx, tx, ref, starts, history>>
      BY <1>6 DEF HandoverConnected
    <2>2. Call(a, "FreeData") =
            [anchor[n] EXCEPT !.state = "Idle", !.device = TRUE, !.busy = FALSE,
                              !.calls = Append(Tail(@), Plain("FreeData"))]
      BY <1>1 DEF Rest, Call, AnchorType
    <2> HIDE DEF a
    <2>3. Plain("InformConnect") \in Items(Commands)
      BY PlainTyped DEF Commands
    <2>4. /\ anchor'[n] = Call(a, "FreeData") /\ chan'[n] = chan[n]
          /\ anchor'[Peer(n)] = anchor[Peer(n)]
          /\ chan'[Peer(n)] = Append(chan[Peer(n)], Plain("InformConnect"))
      BY <2>1, <2>3, BecomeEffect
    <2> QED BY <2>1, <2>2, <2>4, LocalTypes DEF Says, Local, Stack, Numbers, history
  <1> QED BY <1>2, <1>3, <1>4, <1>5, <1>6

\* What an abort stops: a search that has a handle, or the suspension.
LEMMA UndoCases ==
  ASSUME NEW a
  PROVE  /\ a.state = "AnchorSearch" /\ a.handle =>
              Undo(a) = Call([a EXCEPT !.handle = FALSE], "SearchOff")
         /\ a.state = "AnchorSearch" /\ ~a.handle => Undo(a) = a
         /\ a.state = "ContextTx" /\ a.device => Undo(a) = Call(a, "Resume")
  BY DEF Undo

\* The abort of an anchor that searches and has given the stack the handover data.
LEMMA SearchAborted ==
  ASSUME NEW a \in AnchorType, NEW n, a.state = "AnchorSearch", ref[n]
  PROVE  /\ a.handle => Abort(a, n) =
              [a EXCEPT !.handle = FALSE, !.device = FALSE, !.queue = <<>>, !.busy = FALSE,
                        !.state = "Idle",
                        !.calls = Append(Append(@, Plain("SearchOff")), Plain("FreeData"))]
         /\ ~a.handle => Abort(a, n) =
              [a EXCEPT !.device = FALSE, !.queue = <<>>, !.busy = FALSE, !.state = "Idle",
                        !.calls = Append(@, Plain("FreeData"))]
  <1>1. CASE a.handle
    <2>1. Undo(a) = [a EXCEPT !.handle = FALSE, !.calls = Append(@, Plain("SearchOff"))]
      BY <1>1, UndoCases DEF Call, AnchorType
    <2> QED BY <1>1, <2>1 DEF Abort, AnchorType
  <1>2. CASE ~a.handle
    <2>1. Undo(a) = a
      BY <1>2, UndoCases
    <2> QED BY <1>2, <2>1 DEF Abort, AnchorType
  <1> QED BY <1>1, <1>2

LEMMA FailEffect ==
  ASSUME TypeOK, NEW n \in Anchors, NEW a, Fail(n, a, <<>>)
  PROVE  /\ anchor'[n] = Abort(a, n) /\ chan'[n] = chan[n]
         /\ anchor'[Peer(n)] = anchor[Peer(n)]
         /\ chan'[Peer(n)] = Append(chan[Peer(n)], Plain("InformFailure"))
  <1>1. Plain("InformFailure") \in Items(Commands)
    BY PlainTyped DEF Commands
  <1>2. Append(<<>>, Plain("InformFailure")) = <<Plain("InformFailure")>>
    BY <1>1
  <1> QED BY <1>1, <1>2, BecomeEffect DEF Fail

\* The search has failed: the anchor is idle with what is left to stop and to free.
GivesUp(n, calls) ==
  /\ anchor'[n].state = "Idle" /\ anchor'[n].queue = <<>> /\ anchor'[n].data = anchor[n].data
  /\ anchor'[n].calls = calls
  /\ Says(n, Plain("InformFailure"))

LEMMA SearchEffect ==
  ASSUME TypeOK, NEW n \in Anchors, faults = 0, faults' = 0, ref[n]
  PROVE  /\ AnchorSearchStarted(n) /\ anchor[n].state = "ContextRx" =>
              /\ UNCHANGED <<chan[n], link[n], rx[n], tx[n], ref[n]>> /\ UNCHANGED Numbers
              /\ \/ /\ anchor'[n] = [anchor[n] EXCEPT !.calls = Tail(@), !.state = "AnchorSearch",
                                                       !.handle = TRUE]
                    /\ search'[n] /\ Nothing(n)
                 \/ /\ search'[n] = search[n]
                    /\ \/ GivesUp(n, Append(Tail(anchor[n].calls), Plain("FreeData")))
                       \/ GivesUp(n, Append(Append(Tail(anchor[n].calls), Plain("SearchOff")),
                                            Plain("FreeData")))
         /\ SearchFailed(n) /\ anchor[n].handle =>
              /\ UNCHANGED <<chan[n], Stack(n)>> /\ UNCHANGED Numbers /\ ~anchor[n].found
              /\ GivesUp(n, Append(Append(anchor[n].calls, Plain("SearchOff")), Plain("FreeData")))
         /\ DeviceFound(n) =>
              /\ UNCHANGED <<chan[n], Stack(n)>> /\ UNCHANGED <<starts, indicated>> /\ ~anchor[n].found
              /\ anchor'[n] = [anchor[n] EXCEPT !.found = TRUE, !.queue = <<>>,
                                                !.calls = Append(@, Plain("Connect"))]
              /\ Nothing(n)
              /\ taken' = [no |-> starts, data |-> anchor[n].data, queue |-> anchor[n].queue]
  <1>1. anchor[n] \in AnchorType /\ anchor[n].calls \in CallSeq
    BY LocalTypes
  <1>2. ASSUME NEW a \in AnchorType, Fail(n, a, <<>>), a.state = "AnchorSearch",
               a.data = anchor[n].data, UNCHANGED Stack(Peer(n))
        PROVE  /\ ~a.handle => GivesUp(n, Append(a.calls, Plain("FreeData")))
               /\ a.handle => GivesUp(n, Append(Append(a.calls, Plain("SearchOff")), Plain("FreeData")))
               /\ chan'[n] = chan[n]
    <2>1. /\ anchor'[n] = Abort(a, n) /\ chan'[n] = chan[n] /\ Says(n, Plain("InformFailure"))
      BY <1>2, FailEffect DEF Says, Local
    <2>2. CASE a.handle
      <3>1. Abort(a, n) =
              [a EXCEPT !.handle = FALSE, !.device = FALSE, !.queue = <<>>, !.busy = FALSE,
                        !.state = "Idle",
                        !.calls = Append(Append(@, Plain("SearchOff")), Plain("FreeData"))]
        BY <1>2, <2>2, SearchAborted
      <3> QED BY <1>2, <2>1, <2>2, <3>1 DEF GivesUp, AnchorType
    <2>3. CASE ~a.handle
      <3>1. Abort(a, n) =
              [a EXCEPT !.device = FALSE, !.queue = <<>>, !.busy = FALSE, !.state = "Idle",
                        !.calls = Append(@, Plain("FreeData"))]
        BY <1>2, <2>3, SearchAborted
      <3> QED BY <1>2, <2>1, <2>3, <3>1 DEF GivesUp, AnchorType
    <2> QED BY <2>2, <2>3
  <1>3. ASSUME AnchorSearchStarted(n), anchor[n].state = "ContextRx"
        PROVE  /\ UNCHANGED <<chan[n], link[n], rx[n], tx[n], ref[n]>> /\ UNCHANGED Numbers
               /\ \/ /\ anchor'[n] = [anchor[n] EXCEPT !.calls = Tail(@), !.state = "AnchorSearch",
                                                       !.handle = TRUE]
                     /\ search'[n] /\ Nothing(n)
                  \/ /\ search'[n] = search[n]
                     /\ \/ GivesUp(n, Append(Tail(anchor[n].calls), Plain("FreeData")))
                        \/ GivesUp(n, Append(Append(Tail(anchor[n].calls), Plain("SearchOff")),
                                             Plain("FreeData")))
    <2> DEFINE a == [Rest(n) EXCEPT !.state = IF @ = "ContextRx" THEN "AnchorSearch" ELSE @]
    <2>1. PICK ok \in BOOLEAN :
            /\ search' = [search EXCEPT ![n] = @ \/ ok]
            /\ Try(n, ok, [a EXCEPT !.handle = @ \/ ok], <<>>)
      BY <1>3 DEF AnchorSearchStarted
    <2>2. Tail(anchor[n].calls) \in CallSeq
      BY <1>3, RestFacts, TypedParts DEF AnchorSearchStarted, Completes
    <2>3. a = [anchor[n] EXCEPT !.calls = Tail(@), !.state = "AnchorSearch"]
      BY <1>1, <1>3 DEF Rest, AnchorType
    <2>4. /\ a \in AnchorType /\ a.state = "AnchorSearch" /\ a.data = anchor[n].data
          /\ a.calls = Tail(anchor[n].calls)
      BY <1>1, <2>2, <2>3 DEF AnchorType, States
    <2>5. UNCHANGED <<link, rx, tx, ref, starts, history>>
      BY <1>3 DEF AnchorSearchStarted
    <2> HIDE DEF a
    <2>6. CASE ok
      <3>1. Become(n, [a EXCEPT !.handle = TRUE], <<>>)
        <4>1. [a EXCEPT !.handle = @ \/ ok] = [a EXCEPT !.handle = TRUE]
          BY <2>6
        <4> QED BY <2>1, <2>6, <4>1 DEF Try
      <3>2. /\ anchor'[n] = [a EXCEPT !.handle = TRUE] /\ chan'[n] = chan[n]
            /\ UNCHANGED <<anchor[Peer(n)], chan[Peer(n)]>>
        BY <3>1, BecomeEffect
      <3>3. search'[n] /\ search'[Peer(n)] = search[Peer(n)]
        BY <2>1, <2>6, LocalTypes
      <3>4. anchor'[n] = [anchor[n] EXCEPT !.calls = Tail(@), !.state = "AnchorSearch",
                                           !.handle = TRUE]
        BY <1>1, <2>3, <3>2 DEF AnchorType
      <3> QED BY <2>5, <3>2, <3>3, <3>4 DEF Nothing, Local, Stack, Numbers, history
    <2>7. CASE ~ok
      <3>1. [a EXCEPT !.handle = @ \/ ok] = a
        BY <2>4, <2>7 DEF AnchorType
      <3>2. Fail(n, a, <<>>)
        BY <2>1, <2>7, <3>1 DEF Try
      <3>3. search'[n] = search[n] /\ search'[Peer(n)] = search[Peer(n)]
        BY <2>1, <2>7, LocalTypes
      <3>4. UNCHANGED Stack(Peer(n))
        BY <2>5, <3>3 DEF Stack
      <3>5. /\ \/ GivesUp(n, Append(a.calls, Plain("FreeData")))
               \/ GivesUp(n, Append(Append(a.calls, Plain("SearchOff")), Plain("FreeData")))
            /\ chan'[n] = chan[n]
        BY <1>2, <2>4, <3>2, <3>4
      <3> QED BY <2>4, <2>5, <3>3, <3>5 DEF Numbers, history
    <2> QED BY <2>6, <2>7
  <1>4. ASSUME SearchFailed(n), anchor[n].handle
        PROVE  /\ UNCHANGED <<chan[n], Stack(n)>> /\ UNCHANGED Numbers /\ ~anchor[n].found
               /\ GivesUp(n, Append(Append(anchor[n].calls, Plain("SearchOff")), Plain("FreeData")))
    <2>1. /\ Fail(n, anchor[n], <<>>) /\ anchor[n].state = "AnchorSearch"
          /\ UNCHANGED <<stack, starts, history>> /\ Count(~anchor[n].found)
      BY <1>4 DEF SearchFailed
    <2>2. ~anchor[n].found
      BY <2>1, WentWell
    <2>3. UNCHANGED Stack(Peer(n)) /\ UNCHANGED Stack(n) /\ UNCHANGED Numbers
      BY <2>1 DEF stack, Stack, Numbers, history
    <2> QED BY <1>1, <1>2, <1>4, <2>1, <2>2, <2>3
  <1>5. ASSUME DeviceFound(n)
        PROVE  /\ UNCHANGED <<chan[n], Stack(n)>> /\ UNCHANGED <<starts, indicated>> /\ ~anchor[n].found
               /\ anchor'[n] = [anchor[n] EXCEPT !.found = TRUE, !.queue = <<>>,
                                                 !.calls = Append(@, Plain("Connect"))]
               /\ Nothing(n)
               /\ taken' = [no |-> starts, data |-> anchor[n].data, queue |-> anchor[n].queue]
    <2> DEFINE a == [anchor[n] EXCEPT !.found = TRUE, !.queue = <<>>]
    <2>1. PICK ok \in Outcome("refuse") :
            /\ Count(ok)
            /\ Try(n, ok /\ ref[n], IF ok /\ ref[n] THEN Call(a, "Connect") ELSE a, <<>>)
      BY <1>5 DEF DeviceFound
    <2>2. Become(n, Call(a, "Connect"), <<>>)
      BY <2>1, WentWell DEF Try
    <2>3. Call(a, "Connect") = [anchor[n] EXCEPT !.found = TRUE, !.queue = <<>>,
                                                 !.calls = Append(@, Plain("Connect"))]
      BY <1>1 DEF Call, AnchorType
    <2> HIDE DEF a
    <2>4. /\ ~anchor[n].found /\ UNCHANGED <<stack, starts, indicated>>
          /\ taken' = [no |-> starts, data |-> anchor[n].data, queue |-> anchor[n].queue]
      BY <1>5 DEF DeviceFound
    <2>5. /\ anchor'[n] = Call(a, "Connect") /\ chan'[n] = chan[n]
          /\ UNCHANGED <<anchor[Peer(n)], chan[Peer(n)]>>
      BY <2>2, BecomeEffect
    <2> QED BY <2>3, <2>4, <2>5 DEF stack, Stack, Nothing, Local
  <1> QED BY <1>3, <1>4, <1>5

LEMMA CommandEffect ==
  ASSUME TypeOK, NEW n \in Anchors, faults = 0, faults' = 0
  PROVE  /\ OnStartTimeSync(n) =>
              /\ anchor'[n] = [anchor[n] EXCEPT !.found = FALSE, !.busy = TRUE,
                                                !.calls = Append(@, Plain("TxOn"))]
              /\ chan'[n] = Tail(chan[n]) /\ UNCHANGED Stack(n) /\ Nothing(n) /\ UNCHANGED Numbers
         /\ OnStopTimeSync(n) =>
              /\ anchor'[n] = [anchor[n] EXCEPT !.found = FALSE, !.calls = Append(@, Plain("TxOff"))]
              /\ chan'[n] = Tail(chan[n]) /\ UNCHANGED Stack(n) /\ Nothing(n) /\ UNCHANGED Numbers
         /\ OnLlPendingData(n) =>
              /\ anchor'[n] = [anchor[n] EXCEPT !.queue = Append(@, Head(chan[n]).no)]
              /\ chan'[n] = Tail(chan[n]) /\ UNCHANGED Stack(n) /\ Nothing(n) /\ UNCHANGED Numbers
         /\ OnAnchorStartSearch(n) =>
              /\ anchor'[n] = [anchor[n] EXCEPT !.calls = Append(@, Plain("SearchOn"))]
              /\ chan'[n] = Tail(chan[n]) /\ UNCHANGED Stack(n) /\ Nothing(n) /\ UNCHANGED Numbers
         /\ OnData(n) /\ anchor[n].data = 0 /\ Head(chan[n]).no # 0 =>
              /\ anchor'[n] = [anchor[n] EXCEPT !.data = Head(chan[n]).no] /\ ref'[n]
              /\ chan'[n] = Tail(chan[n]) /\ UNCHANGED <<link[n], rx[n], tx[n], search[n]>>
              /\ Nothing(n) /\ UNCHANGED Numbers
         /\ OnInformConnect(n) /\ anchor[n].device =>
              /\ anchor'[n] = [anchor[n] EXCEPT !.state = "Idle", !.device = FALSE,
                                                !.calls = Append(@, Plain("Disconnect"))]
              /\ chan'[n] = Tail(chan[n]) /\ UNCHANGED Stack(n) /\ Nothing(n) /\ UNCHANGED Numbers
         /\ OnInformFailure(n) /\ anchor[n].state = "ContextTx" /\ anchor[n].device /\ ~ref[n] =>
              /\ anchor'[n] = [anchor[n] EXCEPT !.state = "Idle", !.device = FALSE, !.data = 0,
                                                !.queue = <<>>, !.busy = FALSE,
                                                !.calls = Append(@, Plain("Resume"))]
              /\ chan'[n] = Tail(chan[n]) /\ UNCHANGED Stack(n) /\ Nothing(n) /\ UNCHANGED Numbers
  <1>1. anchor[n] \in AnchorType
    BY LocalTypes
  <1>2. ASSUME NEW a, Done(n, a, <<>>), UNCHANGED stack
        PROVE  /\ anchor'[n] = a /\ chan'[n] = Tail(chan[n]) /\ UNCHANGED Stack(n)
               /\ Nothing(n) /\ UNCHANGED Numbers
    BY <1>2, DoneEffect DEF stack, Stack, Nothing, Local
  <1>3. ASSUME NEW ok, NEW a, Answer(n, ok, a)
        PROVE  ok /\ Done(n, a, <<>>)
    BY <1>3, WentWell DEF Answer
  <1>4. ASSUME OnStartTimeSync(n)
        PROVE  /\ anchor'[n] = [anchor[n] EXCEPT !.found = FALSE, !.busy = TRUE,
                                                 !.calls = Append(@, Plain("TxOn"))]
               /\ chan'[n] = Tail(chan[n]) /\ UNCHANGED Stack(n) /\ Nothing(n) /\ UNCHANGED Numbers
    <2> DEFINE a == [anchor[n] EXCEPT !.found = FALSE]
               b == [a EXCEPT !.busy = TRUE]
    <2>1. PICK ok : Answer(n, ok, IF ok THEN Call(b, "TxOn") ELSE a)
      BY <1>4 DEF OnStartTimeSync
    <2>2. Done(n, Call(b, "TxOn"), <<>>)
      BY <1>3, <2>1
    <2>3. Call(b, "TxOn") = [anchor[n] EXCEPT !.found = FALSE, !.busy = TRUE,
                                              !.calls = Append(@, Plain("TxOn"))]
      BY <1>1 DEF Call, AnchorType
    <2> HIDE DEF a, b
    <2> QED BY <1>2, <1>4, <2>2, <2>3 DEF OnStartTimeSync
  <1>5. ASSUME OnStopTimeSync(n)
        PROVE  /\ anchor'[n] = [anchor[n] EXCEPT !.found = FALSE, !.calls = Append(@, Plain("TxOff"))]
               /\ chan'[n] = Tail(chan[n]) /\ UNCHANGED Stack(n) /\ Nothing(n) /\ UNCHANGED Numbers
    <2> DEFINE a == [anchor[n] EXCEPT !.found = FALSE]
    <2>1. PICK ok : Answer(n, ok, IF ok THEN Call(a, "TxOff") ELSE a)
      BY <1>5 DEF OnStopTimeSync
    <2>2. Done(n, Call(a, "TxOff"), <<>>)
      BY <1>3, <2>1
    <2>3. Call(a, "TxOff") = [anchor[n] EXCEPT !.found = FALSE, !.calls = Append(@, Plain("TxOff"))]
      BY <1>1 DEF Call, AnchorType
    <2> HIDE DEF a
    <2> QED BY <1>2, <1>5, <2>2, <2>3 DEF OnStopTimeSync
  <1>6. ASSUME OnLlPendingData(n)
        PROVE  /\ anchor'[n] = [anchor[n] EXCEPT !.queue = Append(@, Head(chan[n]).no)]
               /\ chan'[n] = Tail(chan[n]) /\ UNCHANGED Stack(n) /\ Nothing(n) /\ UNCHANGED Numbers
    <2> DEFINE c == [anchor[n] EXCEPT !.queue = Append(@, Head(chan[n]).no)]
    <2>1. Done(n, c, <<>>) /\ UNCHANGED stack
      <3>1. PICK ok \in Outcome("refuse") :
              Count(ok) /\ Done(n, IF ok THEN c ELSE anchor[n], <<>>)
        BY <1>6 DEF OnLlPendingData, No
      <3>2. UNCHANGED stack
        BY <1>6 DEF OnLlPendingData
      <3> HIDE DEF c
      <3>3. ok
        BY <3>1, WentWell
      <3> QED BY <3>1, <3>2, <3>3
    <2> QED BY <1>2, <2>1
  <1>7. ASSUME OnAnchorStartSearch(n)
        PROVE  /\ anchor'[n] = [anchor[n] EXCEPT !.calls = Append(@, Plain("SearchOn"))]
               /\ chan'[n] = Tail(chan[n]) /\ UNCHANGED Stack(n) /\ Nothing(n) /\ UNCHANGED Numbers
    <2>1. PICK ok : Answer(n, ok, IF ok THEN Call(anchor[n], "SearchOn") ELSE anchor[n])
      BY <1>7 DEF OnAnchorStartSearch
    <2>2. Done(n, Call(anchor[n], "SearchOn"), <<>>)
      BY <1>3, <2>1
    <2>3. UNCHANGED stack
      BY <1>7 DEF OnAnchorStartSearch
    <2>4. /\ anchor'[n] = Call(anchor[n], "SearchOn") /\ chan'[n] = Tail(chan[n])
          /\ UNCHANGED Stack(n) /\ Nothing(n) /\ UNCHANGED Numbers
      BY <1>2, <2>2, <2>3
    <2> QED BY <2>4 DEF Call
  <1>8. ASSUME OnData(n), anchor[n].data = 0, Head(chan[n]).no # 0
        PROVE  /\ anchor'[n] = [anchor[n] EXCEPT !.data = Head(chan[n]).no] /\ ref'[n]
               /\ chan'[n] = Tail(chan[n]) /\ UNCHANGED <<link[n], rx[n], tx[n], search[n]>>
               /\ Nothing(n) /\ UNCHANGED Numbers
    <2> DEFINE b == [anchor[n] EXCEPT !.data = No(n)]
    <2>1. b.data = Head(chan[n]).no
      BY <1>1 DEF No, AnchorType
    <2>2. PICK ok : Answer(n, ok, b) /\ ref' = [ref EXCEPT ![n] = @ \/ ok]
      BY <1>8, <2>1 DEF OnData
    <2>3. UNCHANGED <<link, rx, tx, search>>
      BY <1>8 DEF OnData
    <2>4. ok /\ Done(n, b, <<>>)
      BY <1>3, <2>2
    <2>5. /\ anchor'[n] = b /\ chan'[n] = Tail(chan[n])
          /\ UNCHANGED <<anchor[Peer(n)], chan[Peer(n)]>> /\ UNCHANGED Numbers
      BY <2>4, DoneEffect
    <2>6. ref'[n] /\ ref'[Peer(n)] = ref[Peer(n)]
      BY <2>2, <2>4, LocalTypes
    <2> QED BY <2>3, <2>5, <2>6 DEF No, Nothing, Local, Stack
  <1>9. ASSUME OnInformConnect(n), anchor[n].device
        PROVE  /\ anchor'[n] = [anchor[n] EXCEPT !.state = "Idle", !.device = FALSE,
                                                 !.calls = Append(@, Plain("Disconnect"))]
               /\ chan'[n] = Tail(chan[n]) /\ UNCHANGED Stack(n) /\ Nothing(n) /\ UNCHANGED Numbers
    <2> DEFINE a == [anchor[n] EXCEPT !.state = "Idle", !.device = FALSE]
    <2>1. PICK ok : Answer(n, ok, IF ok THEN Call(a, "Disconnect") ELSE a)
      BY <1>9 DEF OnInformConnect
    <2>2. Done(n, Call(a, "Disconnect"), <<>>)
      BY <1>3, <2>1
    <2>3. Call(a, "Disconnect") = [anchor[n] EXCEPT !.state = "Idle", !.device = FALSE,
                                                    !.calls = Append(@, Plain("Disconnect"))]
      BY <1>1 DEF Call, AnchorType
    <2> HIDE DEF a
    <2> QED BY <1>2, <1>9, <2>2, <2>3 DEF OnInformConnect
  <1>10. ASSUME OnInformFailure(n), anchor[n].state = "ContextTx", anchor[n].device, ~ref[n]
         PROVE  /\ anchor'[n] = [anchor[n] EXCEPT !.state = "Idle", !.device = FALSE, !.data = 0,
                                                  !.queue = <<>>, !.busy = FALSE,
                                                  !.calls = Append(@, Plain("Resume"))]
                /\ chan'[n] = Tail(chan[n]) /\ UNCHANGED Stack(n) /\ Nothing(n) /\ UNCHANGED Numbers
    <2>1. Undo(anchor[n]) = [anchor[n] EXCEPT !.calls = Append(@, Plain("Resume"))]
      BY <1>10, UndoCases DEF Call
    <2>2. Abort(anchor[n], n) =
            [anchor[n] EXCEPT !.state = "Idle", !.device = FALSE, !.data = 0, !.queue = <<>>,
                              !.busy = FALSE, !.calls = Append(@, Plain("Resume"))]
      BY <1>1, <1>10, <2>1 DEF Abort, AnchorType
    <2>3. Done(n, Abort(anchor[n], n), <<>>) /\ UNCHANGED stack
      BY <1>10 DEF OnInformFailure
    <2> QED BY <1>2, <2>2, <2>3
  <1> QED BY <1>4, <1>5, <1>6, <1>7, <1>8, <1>9, <1>10

-----------------------------------------------------------------------------
(* The steps of behaviours without a fault.                                *)

\* The end of a call.
Ends(n) ==
  \/ TimeSyncReceiveComplete(n) \/ TimeSyncTransmitStateChanged(n)
  \/ SuspendTransmitComplete(n) \/ LlPendingData(n) \/ GetComplete(n)
  \/ GetConnParamsComplete(n) \/ AnchorSearchStarted(n) \/ FreeComplete(n)
  \/ ResumeTransmitComplete(n) \/ AnchorSearchStopped(n)
  \/ HandoverConnected(n) \/ HandoverDisconnected(n)

Step(n) ==
  \/ StartTimeSync(n) \/ TimeSyncEvent(n) \/ DeviceFound(n) \/ SearchFailed(n)
  \/ Ends(n) \/ ProcessA2ACommand(n)

LEMMA Steps ==
  ASSUME TypeOK, Next, faults = 0, faults' = 0
  PROVE  \E n \in Anchors : Step(n)
  <1>1. PICK n \in Anchors :
          \/ StartTimeSync(n) \/ AppAbort(n) \/ Event(n) \/ SearchFailed(n)
          \/ InternalError(n) \/ ProcessA2ACommand(n) \/ Lose(n)
    BY DEF Next
  <1>2. ~Count(FALSE)
    BY WentWell
  <1>3. ~AppAbort(n) /\ ~InternalError(n) /\ ~Lose(n)
    BY <1>2 DEF AppAbort, InternalError, Lose
  <1>4. Event(n) => TimeSyncEvent(n) \/ DeviceFound(n) \/ Ends(n)
    BY DEF Event, Ends
  <1> QED BY <1>1, <1>3, <1>4 DEF Step

\* What an anchor needs for each.
LEMMA StepNeeds ==
  ASSUME NEW n
  PROVE  /\ StartTimeSync(n) => link[n] = "sending" /\ ~anchor[n].busy
         /\ TimeSyncEvent(n) => rx[n] /\ tx[Peer(n)]
         /\ DeviceFound(n) \/ SearchFailed(n) => search[n] /\ anchor[n].state = "AnchorSearch"
         /\ Ends(n) => anchor[n].calls # <<>>
         /\ ProcessA2ACommand(n) => chan[n] # <<>>
  <1>1. StartTimeSync(n) => link[n] = "sending" /\ ~anchor[n].busy
    BY DEF StartTimeSync
  <1>2. TimeSyncEvent(n) => rx[n] /\ tx[Peer(n)]
    BY DEF TimeSyncEvent
  <1>3. DeviceFound(n) \/ SearchFailed(n) => search[n] /\ anchor[n].state = "AnchorSearch"
    BY DEF DeviceFound, SearchFailed
  <1>4. Ends(n) => \E op \in Calls : Completes(n, op)
    BY Zenon DEF Ends, Calls, TimeSyncReceiveComplete, TimeSyncTransmitStateChanged,
        SuspendTransmitComplete, LlPendingData, GetComplete, GetConnParamsComplete,
        AnchorSearchStarted, FreeComplete, ResumeTransmitComplete, AnchorSearchStopped,
        HandoverConnected, HandoverDisconnected
  <1>5. ProcessA2ACommand(n) => \E op \in Commands : Received(n, op)
    BY Zenon DEF ProcessA2ACommand, Commands, OnStartTimeSync, OnStopTimeSync,
        OnLlPendingData, OnData, OnAnchorStartSearch, OnInformConnect, OnInformFailure
  <1> QED BY <1>1, <1>2, <1>3, <1>4, <1>5 DEF Completes, Received

\* The call that comes first is the one that ends.
LEMMA EndOf ==
  ASSUME NEW n, Ends(n), NEW op, op = Head(anchor[n].calls).op
  PROVE  /\ op = "RxOn" \/ op = "RxOff" => TimeSyncReceiveComplete(n)
         /\ op = "TxOn" \/ op = "TxOff" => TimeSyncTransmitStateChanged(n)
         /\ op = "Suspend" => SuspendTransmitComplete(n)
         /\ op = "Pending" => LlPendingData(n)
         /\ op = "GetData" => GetComplete(n)
         /\ op = "GetConnParams" => GetConnParamsComplete(n)
         /\ op = "SearchOn" => AnchorSearchStarted(n)
         /\ op = "FreeData" => FreeComplete(n)
         /\ op = "Resume" => ResumeTransmitComplete(n)
         /\ op = "SearchOff" => AnchorSearchStopped(n)
         /\ op = "Connect" => HandoverConnected(n)
         /\ op = "Disconnect" => HandoverDisconnected(n)
  <1>1. /\ TimeSyncReceiveComplete(n) => op = "RxOn" \/ op = "RxOff"
        /\ TimeSyncTransmitStateChanged(n) => op = "TxOn" \/ op = "TxOff"
    BY Zenon DEF TimeSyncReceiveComplete, TimeSyncTransmitStateChanged, Completes
  <1>2. /\ SuspendTransmitComplete(n) => op = "Suspend"
        /\ LlPendingData(n) => op = "Pending"
        /\ GetComplete(n) => op = "GetData"
        /\ GetConnParamsComplete(n) => op = "GetConnParams"
        /\ AnchorSearchStarted(n) => op = "SearchOn"
    BY DEF SuspendTransmitComplete, LlPendingData, GetComplete, GetConnParamsComplete,
        AnchorSearchStarted, Completes
  <1>3. /\ FreeComplete(n) => op = "FreeData"
        /\ ResumeTransmitComplete(n) => op = "Resume"
        /\ AnchorSearchStopped(n) => op = "SearchOff"
        /\ HandoverConnected(n) => op = "Connect"
        /\ HandoverDisconnected(n) => op = "Disconnect"
    BY DEF FreeComplete, ResumeTransmitComplete, AnchorSearchStopped, HandoverConnected,
        HandoverDisconnected, Completes
  <1> QED BY <1>1, <1>2, <1>3 DEF Ends

\* And so is the command.
LEMMA CommandOf ==
  ASSUME NEW n, ProcessA2ACommand(n), NEW op, op = Head(chan[n]).op
  PROVE  /\ op = "StartTimeSync" => OnStartTimeSync(n)
         /\ op = "StopTimeSync" => OnStopTimeSync(n)
         /\ op = "LlPendingData" => OnLlPendingData(n)
         /\ op = "Data" => OnData(n)
         /\ op = "AnchorStartSearch" => OnAnchorStartSearch(n)
         /\ op = "InformConnect" => OnInformConnect(n)
         /\ op = "InformFailure" => OnInformFailure(n)
  <1>1. /\ OnStartTimeSync(n) => op = "StartTimeSync"
        /\ OnStopTimeSync(n) => op = "StopTimeSync"
        /\ OnLlPendingData(n) => op = "LlPendingData"
        /\ OnData(n) => op = "Data"
        /\ OnAnchorStartSearch(n) => op = "AnchorStartSearch"
        /\ OnInformConnect(n) => op = "InformConnect"
        /\ OnInformFailure(n) => op = "InformFailure"
    BY DEF OnStartTimeSync, OnStopTimeSync, OnLlPendingData, OnData, OnAnchorStartSearch,
        OnInformConnect, OnInformFailure, Received
  <1> QED BY <1>1 DEF ProcessA2ACommand

-----------------------------------------------------------------------------
(* The phases of a handover.  s has the connection, r is to take it; cmds   *)
(* and calls are what a new handover put behind those of the one before.    *)

\* The calls given come last: what a handover that is over left to stop or to free comes
\* before.
After(n, calls) ==
  \/ anchor[n].calls = calls /\ ~search[n] /\ ~ref[n] /\ anchor[n].data = 0
  \/ anchor[n].calls = <<Plain("FreeData")>> \o calls /\ ~search[n] /\ ref[n]
  \/ anchor[n].calls = <<Plain("SearchOff")>> \o (<<Plain("FreeData")>> \o calls) /\ ref[n]

\* No time sync and no packets; and nothing of an earlier handover.
Silent(n) == anchor[n].queue = <<>> /\ ~rx[n] /\ ~tx[n]
Clean(n)  == Silent(n) /\ ~search[n] /\ ~ref[n] /\ anchor[n].data = 0

\* n did not take the connection, or gave it away and has disconnected.
Trails(n, cmds, calls) ==
  /\ link[n] = "none" /\ anchor[n].state = "Idle" /\ Silent(n)
  /\ chan[n] = cmds /\ After(n, calls)

\* n gave the connection away and has yet to hear of it or to disconnect.
Leaves(n, cmds, calls) ==
  /\ link[n] = "suspended" /\ Clean(n)
  /\ \/ /\ anchor[n].state = "ContextTx" /\ anchor[n].device
        /\ chan[n] = <<Plain("InformConnect")>> \o cmds /\ anchor[n].calls = <<>> /\ calls = <<>>
     \/ /\ anchor[n].state = "Idle"
        /\ chan[n] = cmds /\ anchor[n].calls = <<Plain("Disconnect")>> \o calls

Follows(n, cmds, calls) == Trails(n, cmds, calls) \/ Leaves(n, cmds, calls)

\* No handover, except that the last one may have to be cleaned up.
Resting(s, r) ==
  /\ link[s] = "sending" /\ anchor[s].state = "Idle" /\ Silent(s)
  /\ chan[s] = <<>> /\ After(s, <<>>)
  /\ Follows(r, <<>>, <<>>)

Seeks(s) ==
  \/ anchor[s].state = "Idle" /\ ~rx[s] /\ After(s, <<Plain("RxOn")>>)
  \/ /\ anchor[s].state = "TimeSyncRx" /\ rx[s] /\ anchor[s].calls = <<>>
     /\ ~search[s] /\ ~ref[s] /\ anchor[s].data = 0

Beacons(r) ==
  /\ link[r] = "none" /\ anchor[r].state = "TimeSyncTx" /\ tx[r] /\ ~rx[r]
  /\ anchor[r].calls = <<>> /\ chan[r] = <<>> /\ anchor[r].queue = <<>>
  /\ ~search[r] /\ ~ref[r] /\ anchor[r].data = 0

Begun(s) == anchor[s].busy /\ anchor[s].device /\ anchor[s].queue = <<>> /\ ~tx[s] /\ chan[s] = <<>>

\* s starts to receive and r to transmit the time sync signal.
Syncing(s, r) ==
  /\ link[s] = "sending" /\ Begun(s) /\ Seeks(s)
  /\ \/ Follows(r, <<Plain("StartTimeSync")>>, <<>>)
     \/ Follows(r, <<>>, <<Plain("TxOn")>>)
     \/ Beacons(r)
  /\ taken.no < starts

\* The commands s sends to r in a handover, in their order, and the calls that s waits for
\* while it sends them.
Script == [i \in 1 .. indicated + 3 |->
  IF i = 1 THEN Plain("StopTimeSync")
  ELSE IF i <= indicated + 1 THEN Item("LlPendingData", starts)
  ELSE IF i = indicated + 2 THEN Item("Data", starts)
  ELSE Plain("AnchorStartSearch")]

Duties == [i \in 1 .. indicated + 1 |->
  IF i <= indicated THEN Item("Pending", starts) ELSE Plain("GetData")]

\* s, from its last time sync signal, with sent commands of Script sent.
Gives(s, sent) ==
  \/ /\ sent = 1 /\ link[s] = "sending" /\ anchor[s].state = "TimeSyncRx"
     /\ anchor[s].calls = <<Plain("Suspend")>>
  \/ /\ link[s] = "suspended" /\ anchor[s].state = "ContextTx"
     /\ \/ /\ sent <= indicated + 1 /\ anchor[s].data = starts
           /\ anchor[s].calls = Slice(Duties, sent - 1, indicated + 1)
        \/ /\ sent = indicated + 2 /\ anchor[s].data = 0
           /\ anchor[s].calls = <<Plain("GetConnParams")>>
        \/ /\ sent = indicated + 3 /\ anchor[s].data = 0 /\ anchor[s].calls = <<>>

\* The call of the last command handled.
Asked(read) == IF read = indicated + 3 THEN <<Plain("SearchOn")>> ELSE <<>>

\* The packets received with the first commands.
Held(read) == IF read <= 1 THEN 0 ELSE IF read <= indicated + 1 THEN read - 1 ELSE indicated

\* r, with read commands of Script handled.
Takes(r, read) ==
  /\ anchor[r].queue = Copies(starts, Held(read))
  /\ IF read >= indicated + 2 THEN ref[r] /\ anchor[r].data = starts
                              ELSE ~ref[r] /\ anchor[r].data = 0
  /\ \/ read = 0 /\ anchor[r].state = "TimeSyncTx" /\ tx[r] /\ anchor[r].calls = <<>>
     \/ /\ read > 0 /\ ~anchor[r].found
        /\ \/ /\ anchor[r].state = "TimeSyncTx" /\ tx[r]
              /\ anchor[r].calls = <<Plain("TxOff")>> \o Asked(read)
           \/ anchor[r].state = "ContextRx" /\ ~tx[r] /\ anchor[r].calls = Asked(read)

\* The context is on its way: what lies between the anchors is what is sent and not read.
Sharing(s, r, sent, read) ==
  /\ sent \in 1 .. indicated + 3 /\ read \in 0 .. sent
  /\ Begun(s) /\ ~rx[s] /\ ~search[s] /\ ~ref[s] /\ Gives(s, sent)
  /\ link[r] = "none" /\ ~rx[r] /\ ~search[r]
  /\ chan[r] = Slice(Script, read, sent) /\ Takes(r, read)
  /\ taken.no < starts

\* s has given all and keeps the connection suspended until r takes it or fails.
Waits(s) ==
  /\ link[s] = "suspended" /\ anchor[s].state = "ContextTx"
  /\ anchor[s].device /\ anchor[s].busy /\ Clean(s) /\ anchor[s].calls = <<>>

\* r searches for the device, or has found it and takes the connection.
Searching(s, r) ==
  /\ Waits(s) /\ chan[s] = <<>>
  /\ link[r] = "none" /\ anchor[r].state = "AnchorSearch" /\ ~rx[r] /\ ~tx[r]
  /\ search[r] /\ ref[r] /\ anchor[r].handle /\ anchor[r].data = starts /\ chan[r] = <<>>
  /\ \/ /\ ~anchor[r].found /\ anchor[r].calls = <<>>
        /\ anchor[r].queue = Copies(starts, indicated) /\ taken.no < starts
     \/ anchor[r].found /\ anchor[r].calls = <<Plain("Connect")>> /\ anchor[r].queue = <<>>

\* The search failed and s has not heard of it; s has, and resumes its transmission.
Failed(s, r) ==
  Waits(s) /\ chan[s] = <<Plain("InformFailure")>> /\ Trails(r, <<>>, <<>>)

Resuming(s, r) ==
  /\ link[s] = "suspended" /\ anchor[s].state = "Idle" /\ Clean(s) /\ chan[s] = <<>>
  /\ anchor[s].calls = <<Plain("Resume")>> /\ Trails(r, <<>>, <<>>)

\* Where a handover can be.
Phase(s, r) ==
  \/ Resting(s, r) \/ Syncing(s, r) \/ Searching(s, r) \/ Failed(s, r) \/ Resuming(s, r)
  \/ \E sent \in 1 .. MaxPending + 3, read \in 0 .. MaxPending + 3 : Sharing(s, r, sent, read)

\* What was taken is of one handover, with all its packets if that is the last one.
Taken ==
  /\ taken.data = taken.no /\ taken.no <= starts
  /\ taken.no = starts /\ taken.no # 0 => taken.queue = Copies(taken.no, indicated)

\* The invariant of behaviours without a fault.
HandoverInv == Undisturbed => Taken /\ \E s \in Anchors : Phase(s, Peer(s))

-----------------------------------------------------------------------------
(* What a handover left comes to its end.                                  *)

LEMMA Pairs ==
  ASSUME NEW S, NEW x \in S, NEW y \in S, NEW z \in S
  PROVE  /\ <<x>> \o <<>> = <<x>>
         /\ Append(<<>>, x) = <<x>> /\ Append(<<x>>, z) = <<x>> \o <<z>>
         /\ Append(<<x>> \o <<>>, z) = <<x>> \o <<z>>
         /\ Append(Append(<<>>, y), x) = <<y>> \o (<<x>> \o <<>>)
         /\ Append(<<y>> \o (<<x>> \o <<>>), z) = <<y>> \o (<<x>> \o <<z>>)
         /\ Head(<<x>>) = x /\ Tail(<<x>>) = <<>> /\ <<x>> # <<>>
  <1>1. <<x>> \in Seq(S) /\ <<y>> \in Seq(S) /\ <<>> \in Seq(S)
    OBVIOUS
  <1>2. <<x>> \o <<>> = <<x>> /\ Append(<<x>>, z) = <<x>> \o <<z>>
    BY <1>1, OneMore
  <1>3. Append(<<>>, x) = <<x>> /\ Append(<<>>, y) = <<y>>
    OBVIOUS
  <1>4. Append(<<y>>, x) = <<y>> \o <<x>>
    BY <1>1, OneMore
  <1>5. Append(<<y>> \o <<x>>, z) = (<<y>> \o <<x>>) \o <<z>>
    <2>1. <<y>> \o <<x>> \in Seq(S)
      BY <1>1
    <2> QED BY <2>1, OneMore
  <1>6. (<<y>> \o <<x>>) \o <<z>> = <<y>> \o (<<x>> \o <<z>>)
    BY ConcatAssociative
  <1>7. Head(<<x>>) = x /\ Tail(<<x>>) = <<>> /\ <<x>> # <<>>
    OBVIOUS
  <1> QED BY <1>2, <1>3, <1>4, <1>5, <1>6, <1>7, Zenon

\* The calls that come last are still there, and nothing else has changed.
Quiet(n) ==
  UNCHANGED <<chan[n], link[n], rx[n], tx[n], anchor[n].state, anchor[n].queue,
              anchor[n].busy, anchor[n].device>>

LEMMA AfterEnds ==
  ASSUME TypeOK, NEW n \in Anchors, NEW calls \in CallSeq, After(n, calls), Ends(n)
  PROVE  \/ After(n, calls)' /\ Quiet(n) /\ Nothing(n) /\ UNCHANGED Numbers
         \/ anchor[n].calls = calls /\ ~search[n] /\ ~ref[n] /\ anchor[n].data = 0
  <1> DEFINE free == Plain("FreeData")
             off  == Plain("SearchOff")
  <1>1. anchor[n] \in AnchorType
    BY LocalTypes
  <1>2. free \in Items(Calls) /\ off \in Items(Calls) /\ free.op = "FreeData" /\ off.op = "SearchOff"
    BY PlainTyped DEF Calls, Plain, Item
  <1> HIDE DEF free, off
  <1>3. /\ <<free>> \o calls \in CallSeq
        /\ Head(<<free>> \o calls) = free /\ Tail(<<free>> \o calls) = calls
        /\ Head(<<off>> \o (<<free>> \o calls)) = off
        /\ Tail(<<off>> \o (<<free>> \o calls)) = <<free>> \o calls
    <2>1. <<free>> \o calls \in CallSeq
      BY <1>2 DEF CallSeq
    <2> QED BY <1>2, <2>1, OneMore DEF CallSeq
  <1>4. CASE anchor[n].calls = <<free>> \o calls /\ ~search[n] /\ ref[n]
    <2>1. FreeComplete(n)
      BY <1>2, <1>3, <1>4, EndOf
    <2>2. /\ anchor'[n] = [anchor[n] EXCEPT !.calls = Tail(@), !.data = 0] /\ ~ref'[n]
          /\ UNCHANGED <<chan[n], link[n], rx[n], tx[n], search[n]>>
          /\ Nothing(n) /\ UNCHANGED Numbers
      BY <2>1, EndEffect
    <2>3. After(n, calls)' /\ Quiet(n)
      BY <1>1, <1>3, <1>4, <2>2 DEF After, Quiet, AnchorType
    <2> QED BY <2>2, <2>3
  <1>5. CASE anchor[n].calls = <<off>> \o (<<free>> \o calls) /\ ref[n]
    <2>1. AnchorSearchStopped(n)
      BY <1>2, <1>3, <1>5, EndOf
    <2>2. /\ anchor'[n] = [anchor[n] EXCEPT !.calls = Tail(@)] /\ ~search'[n]
          /\ UNCHANGED <<chan[n], link[n], rx[n], tx[n], ref[n]>>
          /\ Nothing(n) /\ UNCHANGED Numbers
      BY <2>1, EndEffect
    <2>3. After(n, calls)' /\ Quiet(n)
      BY <1>1, <1>3, <1>5, <2>2 DEF After, Quiet, AnchorType, free
    <2> QED BY <2>2, <2>3
  <1> QED BY <1>4, <1>5 DEF After, free, off

\* One call more.
LEMMA AfterCall ==
  ASSUME NEW n, NEW x \in Items(Calls), After(n, <<>>),
         anchor'[n].calls = Append(anchor[n].calls, x), anchor'[n].data = anchor[n].data,
         UNCHANGED <<search[n], ref[n]>>
  PROVE  After(n, <<x>>)'
  <1> DEFINE free == Plain("FreeData")
             off  == Plain("SearchOff")
  <1>1. free \in Items(Calls) /\ off \in Items(Calls)
    BY PlainTyped DEF Calls
  <1> HIDE DEF free, off
  <1>2. /\ Append(<<>>, x) = <<x>> /\ Append(<<free>> \o <<>>, x) = <<free>> \o <<x>>
        /\ Append(<<off>> \o (<<free>> \o <<>>), x) = <<off>> \o (<<free>> \o <<x>>)
    BY <1>1, Pairs
  <1> QED BY <1>2 DEF After, free, off

\* A step of the other anchor that sends nothing here.
LEMMA FollowsStays ==
  ASSUME NEW n, NEW cmds, NEW calls, Follows(n, cmds, calls), UNCHANGED <<Local(n), chan[n]>>
  PROVE  Follows(n, cmds, calls)'
  BY DEF Follows, Trails, Leaves, Silent, Clean, After, Local, Stack

LEMMA FollowsEnds ==
  ASSUME TypeOK, NEW n \in Anchors, NEW cmds \in CommandSeq, NEW calls \in CallSeq,
         Follows(n, cmds, calls), Ends(n)
  PROVE  \/ Follows(n, cmds, calls)' /\ Nothing(n) /\ UNCHANGED Numbers
         \/ /\ Trails(n, cmds, calls) /\ anchor[n].calls = calls
            /\ ~search[n] /\ ~ref[n] /\ anchor[n].data = 0
  <1> DEFINE drop == Plain("Disconnect")
  <1>1. anchor[n] \in AnchorType
    BY LocalTypes
  <1>2. drop \in Items(Calls) /\ drop.op = "Disconnect"
    BY PlainTyped DEF Calls, Plain, Item
  <1> HIDE DEF drop
  <1>3. Head(<<drop>> \o calls) = drop /\ Tail(<<drop>> \o calls) = calls
    BY <1>2, OneMore DEF CallSeq
  <1>4. CASE Trails(n, cmds, calls)
    <2>1. \/ After(n, calls)' /\ Quiet(n) /\ Nothing(n) /\ UNCHANGED Numbers
          \/ anchor[n].calls = calls /\ ~search[n] /\ ~ref[n] /\ anchor[n].data = 0
      BY <1>4, AfterEnds DEF Trails
    <2>2. After(n, calls)' /\ Quiet(n) => Follows(n, cmds, calls)'
      BY <1>4 DEF Follows, Trails, Silent, Quiet
    <2> QED BY <1>4, <2>1, <2>2
  <1>5. CASE Leaves(n, cmds, calls)
    <2>1. /\ link[n] = "suspended" /\ Clean(n) /\ anchor[n].state = "Idle"
          /\ chan[n] = cmds /\ anchor[n].calls = <<drop>> \o calls
      BY <1>5, StepNeeds DEF Leaves, drop
    <2>2. HandoverDisconnected(n)
      BY <1>2, <1>3, <2>1, EndOf
    <2>3. /\ anchor'[n] = [anchor[n] EXCEPT !.calls = Tail(@), !.busy = FALSE]
          /\ link'[n] = "none"
          /\ UNCHANGED <<chan[n], rx[n], tx[n], search[n], ref[n]>>
          /\ Nothing(n) /\ UNCHANGED Numbers
      BY <2>2, EndEffect
    <2>4. Follows(n, cmds, calls)'
      BY <1>1, <1>3, <2>1, <2>3 DEF Follows, Trails, Clean, Silent, After, AnchorType
    <2> QED BY <2>3, <2>4
  <1> QED BY <1>4, <1>5 DEF Follows

LEMMA FollowsHandles ==
  ASSUME TypeOK, faults = 0, faults' = 0,
         NEW n \in Anchors, NEW cmds \in CommandSeq, NEW calls \in CallSeq,
         Follows(n, cmds, calls), ProcessA2ACommand(n), chan[n] # cmds
  PROVE  Follows(n, cmds, calls)' /\ Nothing(n) /\ UNCHANGED Numbers
  <1> DEFINE inform == Plain("InformConnect")
             drop   == Plain("Disconnect")
  <1>1. anchor[n] \in AnchorType
    BY LocalTypes
  <1>2. inform \in Items(Commands) /\ inform.op = "InformConnect" /\ drop \in Items(Calls)
    BY PlainTyped DEF Calls, Commands, Plain, Item
  <1>3. /\ link[n] = "suspended" /\ Clean(n) /\ anchor[n].device
        /\ chan[n] = <<inform>> \o cmds /\ anchor[n].calls = <<>> /\ calls = <<>>
    BY DEF Follows, Trails, Leaves
  <1> HIDE DEF inform, drop
  <1>4. Head(chan[n]) = inform /\ Tail(chan[n]) = cmds
    BY <1>2, <1>3, OneMore DEF CommandSeq
  <1>5. OnInformConnect(n)
    BY <1>2, <1>4, CommandOf
  <1>6. /\ anchor'[n] = [anchor[n] EXCEPT !.state = "Idle", !.device = FALSE,
                                          !.calls = Append(@, drop)]
        /\ chan'[n] = cmds /\ UNCHANGED Stack(n) /\ Nothing(n) /\ UNCHANGED Numbers
    BY <1>3, <1>4, <1>5, CommandEffect DEF drop
  <1>7. Append(<<>>, drop) = <<drop>> \o calls
    BY <1>2, <1>3, Pairs
  <1>8. Follows(n, cmds, calls)'
    BY <1>1, <1>3, <1>6, <1>7 DEF Follows, Leaves, Clean, Silent, AnchorType, Stack, drop
  <1> QED BY <1>6, <1>8

-----------------------------------------------------------------------------
(* The phases of a handover and the steps each allows.  s is the anchor that *)
(* has the connection and r the other one.                                  *)

LEMMA TakenStays ==
  ASSUME TypeOK, Taken, UNCHANGED <<indicated, taken>>, starts' = starts \/ starts' = starts + 1
  PROVE  Taken'
  <1>1. starts \in Nat /\ taken.no \in Nat
    BY TypedParts, HandoverAssumption DEF CountsTyped, Number
  <1>2. CASE starts' = starts
    BY <1>2 DEF Taken, Copies
  <1>3. CASE starts' = starts + 1
    <2>1. taken'.no <= starts' /\ taken'.no # starts'
      BY <1>1, <1>3 DEF Taken
    <2> QED BY <2>1 DEF Taken
  <1> QED BY <1>2, <1>3

LEMMA OpFacts ==
  /\ \A op \in Calls : Plain(op) \in Items(Calls) /\ Plain(op).op = op /\ <<Plain(op)>> \in CallSeq
  /\ \A op \in Commands :
       Plain(op) \in Items(Commands) /\ Plain(op).op = op /\ <<Plain(op)>> \in CommandSeq
  /\ <<>> \in CallSeq /\ <<>> \in CommandSeq
  BY PlainTyped DEF Plain, Item, CallSeq, CommandSeq

LEMMA RestingSteps ==
  ASSUME TypeOK, faults = 0, faults' = 0, Taken,
         NEW s \in Anchors, NEW r \in Anchors, r = Peer(s), s = Peer(r),
         Resting(s, r), NEW n \in Anchors, Step(n)
  PROVE  Taken' /\ (Resting(s, r) \/ Syncing(s, r))'
  <1>1. n = s \/ n = r
    BY PeerFacts
  <1>2. anchor[s] \in AnchorType /\ anchor[r] \in AnchorType
    BY LocalTypes
  <1>3. /\ link[s] = "sending" /\ anchor[s].state = "Idle" /\ Silent(s)
        /\ chan[s] = <<>> /\ After(s, <<>>) /\ Follows(r, <<>>, <<>>)
    BY DEF Resting
  <1>4. <<>> \in CallSeq /\ <<>> \in CommandSeq
    BY OpFacts
  <1>5. CASE n = s
    <2>1. ~TimeSyncEvent(s) /\ ~DeviceFound(s) /\ ~SearchFailed(s) /\ ~ProcessA2ACommand(s)
      BY <1>3, StepNeeds DEF Silent
    <2>2. CASE StartTimeSync(s)
      <3> DEFINE begin == Plain("StartTimeSync")
                 on    == Plain("RxOn")
      <3>1. /\ anchor'[s] = [anchor[s] EXCEPT !.device = TRUE, !.found = FALSE, !.busy = TRUE,
                                              !.calls = Append(@, on)]
            /\ UNCHANGED <<chan[s], Stack(s)>> /\ UNCHANGED Local(r)
            /\ chan'[r] = Append(chan[r], begin)
            /\ starts' = starts + 1 /\ UNCHANGED <<indicated, taken>>
        BY <2>2, SyncEffect DEF Says, history
      <3>2. on \in Items(Calls) /\ begin \in Items(Commands)
        BY PlainTyped DEF Calls, Commands
      <3> HIDE DEF on, begin
      <3>3. After(s, <<on>>)'
        BY <1>2, <1>3, <3>1, <3>2, AfterCall DEF AnchorType, Stack
      <3>4. (Begun(s) /\ Seeks(s))' /\ link'[s] = "sending"
        BY <1>2, <1>3, <3>1, <3>3 DEF Begun, Seeks, Silent, AnchorType, Stack, on
      <3>5. Follows(r, <<begin>>, <<>>)'
        <4> DEFINE inform == Plain("InformConnect")
        <4>1. inform \in Items(Commands)
          BY PlainTyped DEF Commands
        <4> HIDE DEF inform
        <4>2. Append(<<>>, begin) = <<begin>> /\ Append(<<inform>> \o <<>>, begin) = <<inform>> \o <<begin>>
          BY <3>2, <4>1, Pairs
        <4> QED BY <1>3, <3>1, <4>2
             DEF Follows, Trails, Leaves, Silent, Clean, After, Local, Stack, inform
      <3>6. taken'.no < starts'
        <4>1. starts \in Nat /\ taken.no \in Nat /\ taken.no <= starts
          BY TypedParts, HandoverAssumption DEF CountsTyped, Number, Taken
        <4> QED BY <3>1, <4>1
      <3> QED BY <3>1, <3>4, <3>5, <3>6, TakenStays DEF Syncing, begin
    <2>3. CASE Ends(s)
      <3>1. After(s, <<>>)' /\ Quiet(s) /\ Nothing(s) /\ UNCHANGED Numbers
        BY <1>3, <1>4, <2>3, AfterEnds, StepNeeds
      <3>2. Follows(r, <<>>, <<>>)'
        BY <1>3, <3>1, FollowsStays DEF Nothing
      <3> QED BY <1>3, <3>1, <3>2, TakenStays DEF Resting, Silent, Quiet, Numbers
    <2> QED BY <1>5, <2>1, <2>2, <2>3 DEF Step
  <1>6. CASE n = r
    <2>1. ~StartTimeSync(r) /\ ~TimeSyncEvent(r) /\ ~DeviceFound(r) /\ ~SearchFailed(r)
      BY <1>3, StepNeeds DEF Follows, Trails, Leaves, Clean, Silent
    <2>2. Ends(r) => Follows(r, <<>>, <<>>)' /\ Nothing(r) /\ UNCHANGED Numbers
      BY <1>3, <1>4, FollowsEnds, StepNeeds
    <2>3. ProcessA2ACommand(r) => Follows(r, <<>>, <<>>)' /\ Nothing(r) /\ UNCHANGED Numbers
      BY <1>3, <1>4, FollowsHandles, StepNeeds
    <2>4. Follows(r, <<>>, <<>>)' /\ Nothing(r) /\ UNCHANGED Numbers
      BY <1>6, <2>1, <2>2, <2>3 DEF Step
    <2> QED BY <1>3, <2>4, TakenStays DEF Resting, Silent, After, Nothing, Local, Stack, Numbers
  <1> QED BY <1>1, <1>5, <1>6

LEMMA SyncingSteps ==
  ASSUME TypeOK, faults = 0, faults' = 0, Taken,
         NEW s \in Anchors, NEW r \in Anchors, r = Peer(s), s = Peer(r),
         Syncing(s, r), NEW n \in Anchors, Step(n)
  PROVE  Taken' /\ (Syncing(s, r) \/ Sharing(s, r, 1, 0))'
  <1> DEFINE begin == Plain("StartTimeSync")
             on    == Plain("RxOn")
             onTx  == Plain("TxOn")
  <1>1. n = s \/ n = r
    BY PeerFacts
  <1>2. anchor[s] \in AnchorType /\ anchor[r] \in AnchorType
    BY LocalTypes
  <1>3. /\ on \in Items(Calls) /\ onTx \in Items(Calls) /\ begin \in Items(Commands)
        /\ on.op = "RxOn" /\ onTx.op = "TxOn" /\ begin.op = "StartTimeSync"
        /\ <<>> \in CallSeq /\ <<>> \in CommandSeq /\ <<on>> \in CallSeq /\ <<onTx>> \in CallSeq
        /\ <<begin>> \in CommandSeq
    BY OpFacts DEF Calls, Commands
  <1> HIDE DEF on, onTx, begin
  <1>4. /\ link[s] = "sending" /\ Begun(s) /\ taken.no < starts
        /\ \/ anchor[s].state = "Idle" /\ ~rx[s] /\ After(s, <<on>>)
           \/ /\ anchor[s].state = "TimeSyncRx" /\ rx[s] /\ anchor[s].calls = <<>>
              /\ ~search[s] /\ ~ref[s] /\ anchor[s].data = 0
        /\ \/ Follows(r, <<begin>>, <<>>) \/ Follows(r, <<>>, <<onTx>>) \/ Beacons(r)
    BY DEF Syncing, Seeks, on, onTx, begin
  <1>5. UNCHANGED <<Local(r), chan[r]>> =>
          (Follows(r, <<begin>>, <<>>) \/ Follows(r, <<>>, <<onTx>>) \/ Beacons(r))'
    BY <1>4, FollowsStays DEF Beacons, Local, Stack
  <1>6. UNCHANGED <<Local(s), chan[s]>> => link'[s] = "sending" /\ (Begun(s) /\ Seeks(s))'
    BY <1>4 DEF Begun, Seeks, After, Local, Stack, on
  <1>7. UNCHANGED Numbers => Taken' /\ taken'.no < starts'
    BY <1>4, TakenStays DEF Numbers
  <1>8. CASE n = s
    <2>1. ~StartTimeSync(s) /\ ~DeviceFound(s) /\ ~SearchFailed(s) /\ ~ProcessA2ACommand(s)
      BY <1>4, StepNeeds DEF Begun
    <2>2. CASE TimeSyncEvent(s)
      <3>1. rx[s] /\ tx[r]
        BY <2>2, StepNeeds
      <3>2. /\ anchor[s].state = "TimeSyncRx" /\ anchor[s].calls = <<>>
            /\ ~search[s] /\ ~ref[s] /\ anchor[s].data = 0 /\ Beacons(r)
        BY <1>4, <3>1 DEF Follows, Trails, Leaves, Clean, Silent
      <3> DEFINE suspend == Plain("Suspend")
                 stop    == Plain("StopTimeSync")
      <3>3. /\ anchor'[s] = [anchor[s] EXCEPT !.calls = Append(@, suspend)]
            /\ ~rx'[s] /\ UNCHANGED <<chan[s], link[s], tx[s], search[s], ref[s]>>
            /\ UNCHANGED Local(r) /\ chan'[r] = Append(chan[r], stop) /\ UNCHANGED Numbers
        BY <1>4, <2>2, SyncEffect DEF Begun, Says
      <3>4. /\ suspend \in Items(Calls) /\ Append(<<>>, suspend) = <<suspend>>
            /\ stop \in Items(Commands) /\ Append(<<>>, stop) = <<stop>>
        BY PlainTyped, Pairs DEF Calls, Commands
      <3>5. /\ Copies(starts', 0) = <<>> /\ 1 \in 1 .. indicated' + 3 /\ 0 \in 0 .. 1
            /\ ~(0 >= indicated' + 2) /\ ~(0 = indicated' + 3)
        <4>1. indicated' = indicated /\ indicated \in Nat
          BY <3>3, TypedParts, HandoverAssumption DEF CountsTyped, Numbers
        <4>2. \A k \in Nat : 1 \in 1 .. k + 3 /\ ~(0 >= k + 2) /\ ~(0 = k + 3)
          OBVIOUS
        <4>3. Copies(starts', 0) = <<>> /\ 0 \in 0 .. 1
          BY CopiesAppend
        <4> QED BY <4>1, <4>2, <4>3, Zenon
      <3> HIDE DEF suspend
      <3>6. Slice(Script', 0, 1) = <<stop>>
        <4>1. Script'[1] = stop
          <5> DEFINE k == indicated'
                     f(i) == IF i = 1 THEN stop
                             ELSE IF i <= k + 1 THEN Item("LlPendingData", starts')
                             ELSE IF i = k + 2 THEN Item("Data", starts')
                             ELSE Plain("AnchorStartSearch")
          <5>1. Script' = [i \in 1 .. k + 3 |-> f(i)] /\ f(1) = stop
            BY DEF Script
          <5>2. 1 \in 1 .. k + 3
            BY <3>5
          <5> HIDE DEF k, f
          <5> QED BY <5>1, <5>2
        <4> HIDE DEF stop
        <4>2. Slice(Script', 0, 1) = [i \in 1 .. 1 |-> stop]
          BY <4>1 DEF Slice
        <4> QED BY <4>2
      <3> HIDE DEF stop
      <3>7. (Begun(s) /\ Gives(s, 1))' /\ ~rx'[s] /\ ~search'[s] /\ ~ref'[s]
        BY <1>2, <1>4, <3>2, <3>3, <3>4 DEF Begun, Gives, AnchorType, suspend
      <3>8. /\ link'[r] = "none" /\ ~rx'[r] /\ ~search'[r]
            /\ chan'[r] = Slice(Script', 0, 1)
        BY <3>2, <3>3, <3>4, <3>6 DEF Beacons, Local, Stack
      <3>9. Takes(r, 0)'
        <4>1. /\ anchor'[r] = anchor[r] /\ tx'[r] /\ ~ref'[r]
              /\ anchor[r].queue = <<>> /\ anchor[r].data = 0 /\ anchor[r].state = "TimeSyncTx"
              /\ anchor[r].calls = <<>>
          BY <3>2, <3>3 DEF Beacons, Local, Stack
        <4>2. Held(0)' = 0
          BY DEF Held
        <4> QED BY <3>5, <4>1, <4>2 DEF Takes
      <3>11. Sharing(s, r, 1, 0)'
        BY <1>7, <3>3, <3>5, <3>7, <3>8, <3>9 DEF Sharing
      <3> QED BY <1>7, <3>3, <3>11
    <2>3. CASE Ends(s)
      <3>1. anchor[s].state = "Idle" /\ ~rx[s] /\ After(s, <<on>>)
        BY <1>4, <2>3, StepNeeds
      <3>2. CASE After(s, <<on>>)' /\ Quiet(s) /\ Nothing(s) /\ UNCHANGED Numbers
        BY <1>4, <1>5, <1>7, <3>1, <3>2
           DEF Syncing, Begun, Seeks, Quiet, Nothing, on, onTx, begin
      <3>3. CASE anchor[s].calls = <<on>> /\ ~search[s] /\ ~ref[s] /\ anchor[s].data = 0
        <4>1. Head(<<on>>) = on /\ Tail(<<on>>) = <<>>
          BY <1>3, Pairs
        <4>2. TimeSyncReceiveComplete(s) /\ Head(anchor[s].calls).op = "RxOn"
          BY <1>3, <2>3, <3>3, <4>1, EndOf
        <4>3. /\ anchor'[s] = [anchor[s] EXCEPT !.calls = Tail(@), !.state = "TimeSyncRx"]
              /\ rx'[s] /\ UNCHANGED <<chan[s], link[s], tx[s], search[s], ref[s]>>
              /\ Nothing(s) /\ UNCHANGED Numbers
          BY <3>1, <4>2, TimeSyncCallEffect
        <4>4. (Begun(s) /\ Seeks(s))' /\ link'[s] = "sending"
          BY <1>2, <1>4, <3>3, <4>1, <4>3 DEF Begun, Seeks, AnchorType
        <4> QED BY <1>5, <1>7, <4>3, <4>4 DEF Syncing, Nothing, onTx, begin
      <3> QED BY <1>3, <2>3, <3>1, <3>2, <3>3, AfterEnds
    <2> QED BY <1>8, <2>1, <2>2, <2>3 DEF Step
  <1>9. CASE n = r
    <2>1. ~StartTimeSync(r) /\ ~TimeSyncEvent(r) /\ ~DeviceFound(r) /\ ~SearchFailed(r)
      BY <1>4, StepNeeds DEF Follows, Trails, Leaves, Clean, Silent, Beacons
    <2>2. ASSUME Nothing(r), UNCHANGED Numbers,
                 (Follows(r, <<begin>>, <<>>) \/ Follows(r, <<>>, <<onTx>>) \/ Beacons(r))'
          PROVE  Taken' /\ Syncing(s, r)'
      BY <1>6, <1>7, <2>2 DEF Syncing, Nothing, onTx, begin
    <2>3. ~Beacons(r)
      BY <1>9, <2>1, StepNeeds DEF Step, Beacons
    <2>4. CASE Ends(r)
      <3>1. CASE Follows(r, <<begin>>, <<>>)
        BY <1>3, <2>2, <2>4, <3>1, FollowsEnds, StepNeeds
      <3>2. CASE Follows(r, <<>>, <<onTx>>)
        <4>1. CASE Follows(r, <<>>, <<onTx>>)' /\ Nothing(r) /\ UNCHANGED Numbers
          BY <2>2, <4>1
        <4>2. CASE /\ Trails(r, <<>>, <<onTx>>) /\ anchor[r].calls = <<onTx>>
                   /\ ~search[r] /\ ~ref[r] /\ anchor[r].data = 0
          <5>1. Head(<<onTx>>) = onTx /\ Tail(<<onTx>>) = <<>>
            BY <1>3, Pairs
          <5>2. TimeSyncTransmitStateChanged(r) /\ Head(anchor[r].calls).op = "TxOn"
            BY <1>3, <2>4, <4>2, <5>1, EndOf
          <5>3. /\ anchor'[r] = [anchor[r] EXCEPT !.calls = Tail(@), !.state = "TimeSyncTx"]
                /\ tx'[r] /\ UNCHANGED <<chan[r], link[r], rx[r], search[r], ref[r]>>
                /\ Nothing(r) /\ UNCHANGED Numbers
            BY <4>2, <5>2, TimeSyncCallEffect DEF Trails
          <5>4. /\ anchor'[r].state = "TimeSyncTx" /\ anchor'[r].calls = <<>>
                /\ anchor'[r].queue = anchor[r].queue /\ anchor'[r].data = anchor[r].data
            <6> DEFINE c == Tail(anchor[r].calls)
            <6>1. c = <<>>
              BY <4>2, <5>1
            <6>2. anchor'[r] = [anchor[r] EXCEPT !.calls = c, !.state = "TimeSyncTx"]
              BY <5>3
            <6> HIDE DEF c
            <6> QED BY <1>2, <6>1, <6>2 DEF AnchorType
          <5>5. Beacons(r)'
            BY <4>2, <5>3, <5>4 DEF Beacons, Trails, Silent
          <5> QED BY <2>2, <5>3, <5>5
        <4> QED BY <1>3, <2>4, <3>2, <4>1, <4>2, FollowsEnds
      <3> QED BY <1>4, <2>3, <3>1, <3>2
    <2>5. CASE ProcessA2ACommand(r)
      <3>1. CASE Follows(r, <<>>, <<onTx>>)
        BY <1>3, <2>2, <2>5, <3>1, FollowsHandles, StepNeeds
      <3>2. CASE Follows(r, <<begin>>, <<>>) /\ chan[r] # <<begin>>
        BY <1>3, <2>2, <2>5, <3>2, FollowsHandles
      <3>3. CASE Follows(r, <<begin>>, <<>>) /\ chan[r] = <<begin>>
        <4> DEFINE drop   == Plain("Disconnect")
                   inform == Plain("InformConnect")
        <4>1. drop \in Items(Calls) /\ inform \in Items(Commands)
          BY PlainTyped DEF Calls, Commands
        <4> HIDE DEF drop, inform
        <4>2. Head(<<begin>>) = begin /\ Tail(<<begin>>) = <<>> /\ <<inform>> \o <<begin>> # <<begin>>
          <5>1. <<inform>> \o <<begin>> = Append(<<inform>>, begin)
            BY <1>3, <4>1, OneMore
          <5>2. Len(Append(<<inform>>, begin)) = 2 /\ Len(<<begin>>) = 1
            BY <1>3, <4>1
          <5>3. <<inform>> \o <<begin>> # <<begin>>
            BY <5>1, <5>2
          <5> QED BY <1>3, <5>3, Pairs
        <4>3. OnStartTimeSync(r)
          BY <1>3, <2>5, <3>3, <4>2, CommandOf
        <4>4. /\ anchor'[r] = [anchor[r] EXCEPT !.found = FALSE, !.busy = TRUE,
                                                !.calls = Append(@, onTx)]
              /\ chan'[r] = <<>> /\ UNCHANGED Stack(r) /\ Nothing(r) /\ UNCHANGED Numbers
          BY <3>3, <4>2, <4>3, CommandEffect DEF onTx
        <4>5. CASE Trails(r, <<begin>>, <<>>)
          <5>1. After(r, <<onTx>>)'
            BY <1>2, <1>3, <4>4, <4>5, AfterCall DEF Trails, AnchorType, Stack
          <5>2. Trails(r, <<>>, <<onTx>>)'
            BY <1>2, <4>4, <4>5, <5>1 DEF Trails, Silent, AnchorType, Stack
          <5> QED BY <2>2, <4>4, <5>2 DEF Follows
        <4>6. CASE Leaves(r, <<begin>>, <<>>)
          <5>1. /\ link[r] = "suspended" /\ Clean(r) /\ anchor[r].state = "Idle"
                /\ anchor[r].calls = <<drop>> \o <<>>
            BY <3>3, <4>2, <4>6 DEF Leaves, drop, inform
          <5>2. Append(<<drop>> \o <<>>, onTx) = <<drop>> \o <<onTx>>
            BY <1>3, <4>1, Pairs
          <5>3. /\ anchor'[r].state = "Idle" /\ anchor'[r].calls = <<drop>> \o <<onTx>>
                /\ anchor'[r].queue = anchor[r].queue /\ anchor'[r].data = anchor[r].data
            <6> DEFINE c == Append(anchor[r].calls, onTx)
            <6>1. c = <<drop>> \o <<onTx>>
              BY <5>1, <5>2
            <6>2. anchor'[r] = [anchor[r] EXCEPT !.found = FALSE, !.busy = TRUE, !.calls = c]
              BY <4>4
            <6> HIDE DEF c
            <6> QED BY <1>2, <5>1, <6>1, <6>2 DEF AnchorType
          <5>4. Leaves(r, <<>>, <<onTx>>)'
            BY <4>4, <5>1, <5>3 DEF Leaves, Clean, Silent, Stack, drop
          <5> QED BY <2>2, <4>4, <5>4 DEF Follows
        <4> QED BY <3>3, <4>5, <4>6 DEF Follows
      <3> QED BY <1>4, <2>3, <3>1, <3>2, <3>3
    <2> QED BY <1>9, <2>1, <2>4, <2>5 DEF Step
  <1> QED BY <1>1, <1>8, <1>9

-----------------------------------------------------------------------------
(* The context on its way.                                                 *)

LEMMA Counts ==
  ASSUME TypeOK
  PROVE  /\ indicated \in Nat /\ indicated <= MaxPending /\ starts \in Number /\ starts \in Nat
         /\ taken.no \in Nat /\ MaxPending \in Nat
  BY TypedParts, HandoverAssumption DEF CountsTyped, Number

LEMMA ScriptFacts ==
  ASSUME TypeOK
  PROVE  /\ Script[1] = Plain("StopTimeSync")
         /\ \A i \in 2 .. indicated + 1 : Script[i] = Item("LlPendingData", starts)
         /\ Script[indicated + 2] = Item("Data", starts)
         /\ Script[indicated + 3] = Plain("AnchorStartSearch")
         /\ \A i \in 1 .. indicated + 3 : Script[i] \in Items(Commands)
  <1> DEFINE k == indicated
             stop    == Plain("StopTimeSync")
             pending == Item("LlPendingData", starts)
             data    == Item("Data", starts)
             find    == Plain("AnchorStartSearch")
             f(i) == IF i = 1 THEN stop ELSE IF i <= k + 1 THEN pending
                     ELSE IF i = k + 2 THEN data ELSE find
  <1>1. k \in Nat
    BY Counts
  <1>2. /\ stop \in Items(Commands) /\ pending \in Items(Commands)
        /\ data \in Items(Commands) /\ find \in Items(Commands)
    BY ItemTyped, Counts DEF Commands
  <1>3. Script = [i \in 1 .. k + 3 |-> f(i)]
    BY DEF Script
  <1> HIDE DEF k, stop, pending, data, find
  <1>4. /\ f(1) = stop /\ \A i \in 2 .. k + 1 : f(i) = pending
        /\ f(k + 2) = data /\ f(k + 3) = find /\ \A i \in 1 .. k + 3 : f(i) \in Items(Commands)
    BY <1>1, <1>2
  <1>5. /\ 1 \in 1 .. k + 3 /\ k + 2 \in 1 .. k + 3 /\ k + 3 \in 1 .. k + 3
        /\ \A i \in 2 .. k + 1 : i \in 1 .. k + 3
    BY <1>1
  <1> HIDE DEF f
  <1>6. /\ Script[1] = stop /\ \A i \in 2 .. k + 1 : Script[i] = pending
        /\ Script[k + 2] = data /\ Script[k + 3] = find
        /\ \A i \in 1 .. k + 3 : Script[i] \in Items(Commands)
    BY <1>3, <1>4, <1>5
  <1> QED BY <1>6 DEF k, stop, pending, data, find

LEMMA DutiesFacts ==
  ASSUME TypeOK
  PROVE  /\ \A i \in 1 .. indicated : Duties[i] = Item("Pending", starts)
         /\ Duties[indicated + 1] = Plain("GetData")
         /\ \A i \in 1 .. indicated + 1 : Duties[i] \in Items(Calls)
  <1> DEFINE k == indicated
             pending == Item("Pending", starts)
             get     == Plain("GetData")
             f(i) == IF i <= k THEN pending ELSE get
  <1>1. k \in Nat
    BY Counts
  <1>2. pending \in Items(Calls) /\ get \in Items(Calls)
    BY ItemTyped, Counts DEF Calls
  <1>3. Duties = [i \in 1 .. k + 1 |-> f(i)]
    BY DEF Duties
  <1> HIDE DEF k, pending, get
  <1>4. /\ \A i \in 1 .. k : f(i) = pending
        /\ f(k + 1) = get /\ \A i \in 1 .. k + 1 : f(i) \in Items(Calls)
    BY <1>1, <1>2
  <1>5. k + 1 \in 1 .. k + 1 /\ \A i \in 1 .. k : i \in 1 .. k + 1
    BY <1>1
  <1> HIDE DEF f
  <1>6. /\ \A i \in 1 .. k : Duties[i] = pending /\ Duties[k + 1] = get
        /\ \A i \in 1 .. k + 1 : Duties[i] \in Items(Calls)
    BY <1>3, <1>4, <1>5
  <1> QED BY <1>1, <1>3, <1>4, <1>5, <1>6 DEF k, pending, get

\* The commands on their way while one more is sent or handled.
LEMMA ScriptMoves ==
  ASSUME TypeOK, NEW sent \in Nat, NEW read \in Nat, read <= sent, sent <= indicated + 3
  PROVE  /\ read < sent =>
              /\ Slice(Script, read, sent) # <<>> /\ Head(Slice(Script, read, sent)) = Script[read + 1]
              /\ Tail(Slice(Script, read, sent)) = Slice(Script, read + 1, sent)
         /\ read = sent => Slice(Script, read, sent) = <<>>
         /\ sent < indicated + 3 =>
              Append(Slice(Script, read, sent), Script[sent + 1]) = Slice(Script, read, sent + 1)
  <1> DEFINE S == Items(Commands)
  <1>1. indicated \in Nat /\ \A i \in 1 .. indicated + 3 : Script[i] \in S
    BY ScriptFacts, Counts
  <1> HIDE DEF S
  <1>2. \A i \in read + 1 .. sent : Script[i] \in S
    BY <1>1
  <1>3. sent < indicated + 3 => \A i \in read + 1 .. sent + 1 : Script[i] \in S
    BY <1>1
  <1>4. read < sent =>
          /\ Slice(Script, read, sent) # <<>> /\ Head(Slice(Script, read, sent)) = Script[read + 1]
          /\ Tail(Slice(Script, read, sent)) = Slice(Script, read + 1, sent)
    BY <1>2, SliceTail, Zenon
  <1>5. read = sent => Slice(Script, read, sent) = <<>>
    BY SliceNone
  <1>6. sent < indicated + 3 =>
          Append(Slice(Script, read, sent), Script[sent + 1]) = Slice(Script, read, sent + 1)
    BY <1>3, SliceAppend, Zenon
  <1> QED BY <1>4, <1>5, <1>6, Zenon

LEMMA DutiesMove ==
  ASSUME TypeOK, NEW done \in Nat, done <= indicated
  PROVE  /\ Slice(Duties, done, indicated + 1) # <<>>
         /\ Head(Slice(Duties, done, indicated + 1)) = Duties[done + 1]
         /\ Tail(Slice(Duties, done, indicated + 1)) = Slice(Duties, done + 1, indicated + 1)
         /\ done = indicated => Slice(Duties, done + 1, indicated + 1) = <<>>
  <1> DEFINE S == Items(Calls)
  <1>1. indicated \in Nat /\ \A i \in 1 .. indicated + 1 : Duties[i] \in S
    BY DutiesFacts, Counts
  <1> HIDE DEF S
  <1>2. /\ \A i \in done + 1 .. indicated + 1 : Duties[i] \in S
        /\ done < indicated + 1 /\ indicated + 1 \in Nat
    BY <1>1
  <1>3. /\ Slice(Duties, done, indicated + 1) # <<>>
        /\ Head(Slice(Duties, done, indicated + 1)) = Duties[done + 1]
        /\ Tail(Slice(Duties, done, indicated + 1)) = Slice(Duties, done + 1, indicated + 1)
    BY <1>2, SliceTail, Zenon
  <1>4. done = indicated => Slice(Duties, done + 1, indicated + 1) = <<>>
    BY <1>1, SliceNone
  <1> QED BY <1>3, <1>4

LEMMA HeldFacts ==
  ASSUME indicated \in Nat, NEW read \in Nat
  PROVE  /\ Held(read) \in Nat /\ Held(0) = 0 /\ Held(1) = 0
         /\ read \in 1 .. indicated => Held(read + 1) = Held(read) + 1
         /\ read = indicated + 1 \/ read = indicated + 2 => Held(read + 1) = Held(read)
         /\ Held(indicated + 3) = indicated
  BY DEF Held

LEMMA SharingParts ==
  ASSUME TypeOK, NEW s \in Anchors, NEW r \in Anchors,
         NEW sent \in Nat, NEW read \in Nat, Sharing(s, r, sent, read)
  PROVE  /\ sent <= indicated + 3 /\ 1 <= sent /\ read <= sent
         /\ Begun(s) /\ ~rx[s] /\ ~search[s] /\ ~ref[s] /\ Gives(s, sent)
         /\ link[r] = "none" /\ ~rx[r] /\ ~search[r]
         /\ chan[r] = Slice(Script, read, sent) /\ Takes(r, read) /\ taken.no < starts
  BY Counts DEF Sharing

\* The parts that a step of the other anchor leaves alone.
LEMMA GivesStays ==
  ASSUME NEW s, NEW sent, Begun(s), Gives(s, sent), UNCHANGED <<Local(s), chan[s]>>,
         UNCHANGED Numbers
  PROVE  /\ (Begun(s) /\ Gives(s, sent))'
         /\ UNCHANGED <<link[s], rx[s], search[s], ref[s]>>
  <1>1. Duties' = Duties
    BY DEF Numbers, Duties
  <1> QED BY <1>1 DEF Begun, Gives, Local, Stack, Numbers

LEMMA TakesStays ==
  ASSUME NEW r, NEW read, Takes(r, read), UNCHANGED Local(r), UNCHANGED <<starts, indicated>>
  PROVE  Takes(r, read)' /\ UNCHANGED <<link[r], rx[r], search[r]>>
  <1>1. Held(read)' = Held(read) /\ Asked(read)' = Asked(read)
    BY DEF Held, Asked
  <1> QED BY <1>1 DEF Takes, Local, Stack

\* The other anchor handles a command.
LEMMA SharingReads ==
  ASSUME TypeOK, faults = 0, faults' = 0,
         NEW s \in Anchors, NEW r \in Anchors, r = Peer(s), s = Peer(r),
         NEW sent \in Nat, NEW read \in Nat, Sharing(s, r, sent, read), ProcessA2ACommand(r)
  PROVE  Sharing(s, r, sent, read + 1)' /\ UNCHANGED Numbers
  <1> DEFINE a == anchor[r]
             k == indicated
  <1>1. /\ sent <= k + 3 /\ 1 <= sent /\ read <= sent
        /\ Begun(s) /\ ~rx[s] /\ ~search[s] /\ ~ref[s] /\ Gives(s, sent)
        /\ link[r] = "none" /\ ~rx[r] /\ ~search[r]
        /\ chan[r] = Slice(Script, read, sent) /\ Takes(r, read) /\ taken.no < starts
    BY SharingParts
  <1>2. k \in Nat /\ starts # 0 /\ a \in AnchorType
    BY <1>1, Counts, LocalTypes
  <1>3. /\ read < sent /\ Head(chan[r]) = Script[read + 1]
        /\ Tail(chan[r]) = Slice(Script, read + 1, sent)
    <2>1. chan[r] # <<>>
      BY StepNeeds
    <2>2. /\ read < sent =>
               /\ Head(Slice(Script, read, sent)) = Script[read + 1]
               /\ Tail(Slice(Script, read, sent)) = Slice(Script, read + 1, sent)
          /\ read = sent => Slice(Script, read, sent) = <<>>
      BY <1>1, ScriptMoves
    <2>3. read < sent
      BY <1>1, <2>1, <2>2
    <2> QED BY <1>1, <2>2, <2>3
  <1>4. ASSUME chan'[r] = Tail(chan[r]), Nothing(r), UNCHANGED Numbers,
               UNCHANGED <<link[r], rx[r], search[r]>>, Takes(r, read + 1)'
        PROVE  Sharing(s, r, sent, read + 1)' /\ UNCHANGED Numbers
    <2>1. Script' = Script /\ indicated' = indicated /\ starts' = starts /\ taken' = taken
      BY <1>4 DEF Script, Numbers
    <2>2. (Begun(s) /\ Gives(s, sent))' /\ UNCHANGED <<rx[s], search[s], ref[s]>>
      BY <1>1, <1>4, GivesStays DEF Nothing
    <2>3. sent \in 1 .. k + 3 /\ read + 1 \in 0 .. sent
      BY <1>1, <1>2, <1>3
    <2>4. chan'[r] = Slice(Script', read + 1, sent)
      BY <1>3, <1>4, <2>1
    <2> QED BY <1>1, <1>4, <2>1, <2>2, <2>3, <2>4 DEF Sharing
  <1>5. /\ a.queue = Copies(starts, Held(read))
        /\ IF read >= k + 2 THEN ref[r] /\ a.data = starts ELSE ~ref[r] /\ a.data = 0
        /\ \/ read = 0 /\ a.state = "TimeSyncTx" /\ tx[r] /\ a.calls = <<>>
           \/ /\ read > 0 /\ ~a.found
              /\ \/ a.state = "TimeSyncTx" /\ tx[r] /\ a.calls = <<Plain("TxOff")>> \o Asked(read)
                 \/ a.state = "ContextRx" /\ ~tx[r] /\ a.calls = Asked(read)
    BY <1>1 DEF Takes
  <1>6. /\ read = 0 \/ read \in 1 .. k \/ (read > 0 /\ read = k + 1) \/ (read > 0 /\ read = k + 2)
        /\ read \in 1 .. k => read + 1 \in 2 .. k + 1
    BY <1>1, <1>2, <1>3
  <1>7. CASE read = 0
    <2> DEFINE off == Plain("TxOff")
    <2>1. Head(chan[r]).op = "StopTimeSync"
      BY <1>3, <1>7, ScriptFacts DEF Plain, Item
    <2>2. off \in Items(Calls)
      BY PlainTyped DEF Calls
    <2>3. /\ anchor'[r] = [a EXCEPT !.found = FALSE, !.calls = Append(@, off)]
          /\ chan'[r] = Tail(chan[r]) /\ UNCHANGED Stack(r) /\ Nothing(r) /\ UNCHANGED Numbers
      BY <2>1, CommandOf, CommandEffect
    <2>4. /\ a.state = "TimeSyncTx" /\ tx[r] /\ a.calls = <<>> /\ ~ref[r] /\ a.data = 0
          /\ a.queue = Copies(starts, 0)
      BY <1>2, <1>5, <1>7, HeldFacts
    <2> HIDE DEF off
    <2>5. Append(<<>>, off) = <<off>> \o <<>> /\ Asked(1)' = <<>> /\ Held(1)' = 0
      <3>1. Append(<<>>, off) = <<off>> \o <<>>
        BY <2>2, Pairs
      <3>2. 1 # k' + 3
        BY <1>2, <2>3 DEF Numbers
      <3> QED BY <3>1, <3>2 DEF Asked, Held
    <2>6. /\ anchor'[r].state = "TimeSyncTx" /\ anchor'[r].calls = <<off>> \o <<>>
          /\ anchor'[r].queue = a.queue /\ anchor'[r].data = 0 /\ ~anchor'[r].found
      <3> DEFINE c == Append(a.calls, off)
      <3>1. c = <<off>> \o <<>>
        BY <2>4, <2>5
      <3>2. anchor'[r] = [a EXCEPT !.found = FALSE, !.calls = c]
        BY <2>3
      <3> HIDE DEF c
      <3> QED BY <1>2, <2>4, <3>1, <3>2 DEF AnchorType
    <2>7. ~(1 >= k' + 2) /\ 1 > 0 /\ k' = k /\ starts' = starts
      BY <1>2, <2>3 DEF Numbers
    <2> HIDE DEF k
    <2>8. Takes(r, 1)'
      BY <2>3, <2>4, <2>5, <2>6, <2>7 DEF Takes, Stack, off, k
    <2> QED BY <1>4, <1>7, <2>3, <2>8 DEF Stack
  <1>8. CASE read \in 1 .. k
    <2>1. Head(chan[r]).op = "LlPendingData" /\ Head(chan[r]).no = starts
      BY <1>3, <1>6, <1>8, ScriptFacts DEF Item
    <2>2. /\ anchor'[r] = [a EXCEPT !.queue = Append(@, starts)]
          /\ chan'[r] = Tail(chan[r]) /\ UNCHANGED Stack(r) /\ Nothing(r) /\ UNCHANGED Numbers
      BY <2>1, CommandOf, CommandEffect
    <2>3. Append(Copies(starts, Held(read)), starts) = Copies(starts, Held(read + 1))
      <3>1. \A j \in Nat : Append(Copies(starts, j), starts) = Copies(starts, j + 1)
        BY CopiesAppend
      <3> QED BY <1>2, <1>8, <3>1, HeldFacts
    <2>4. read > 0 /\ ~(read >= k + 2) /\ ~(read + 1 >= k + 2) /\ read # k + 3 /\ read + 1 # k + 3
          /\ read + 1 > 0
      BY <1>2, <1>8
    <2>5. /\ Asked(read + 1)' = Asked(read) /\ Held(read + 1)' = Held(read + 1)
          /\ k' = k /\ starts' = starts
      BY <2>2, <2>4 DEF Asked, Held, Numbers
    <2>6. /\ anchor'[r].queue = Copies(starts, Held(read + 1))
          /\ anchor'[r].state = a.state /\ anchor'[r].calls = a.calls /\ anchor'[r].data = a.data
          /\ anchor'[r].found = a.found
      <3> DEFINE q == Append(a.queue, starts)
      <3>1. q = Copies(starts, Held(read + 1))
        BY <1>5, <2>3
      <3>2. anchor'[r] = [a EXCEPT !.queue = q]
        BY <2>2
      <3> HIDE DEF q
      <3> QED BY <1>2, <3>1, <3>2 DEF AnchorType
    <2>7. Takes(r, read + 1)'
      BY <1>5, <2>2, <2>4, <2>5, <2>6 DEF Takes, Stack
    <2> QED BY <1>4, <2>2, <2>7 DEF Stack
  <1>9. CASE read > 0 /\ read = k + 1
    <2>1. Head(chan[r]).op = "Data" /\ Head(chan[r]).no = starts
      <3>1. read + 1 = k + 2
        BY <1>2, <1>9
      <3> QED BY <1>3, <3>1, ScriptFacts DEF Item
    <2>2. ~(read >= k + 2) /\ read + 1 >= k + 2 /\ read # k + 3 /\ read + 1 # k + 3 /\ read + 1 > 0
      BY <1>2, <1>9
    <2>3. ~ref[r] /\ a.data = 0
      BY <1>5, <2>2
    <2>4. /\ anchor'[r] = [a EXCEPT !.data = starts] /\ ref'[r]
          /\ chan'[r] = Tail(chan[r]) /\ UNCHANGED <<link[r], rx[r], tx[r], search[r]>>
          /\ Nothing(r) /\ UNCHANGED Numbers
      BY <1>2, <2>1, <2>3, CommandOf, CommandEffect
    <2>5. Held(read + 1) = Held(read)
      BY <1>2, <1>9, HeldFacts
    <2>6. /\ Asked(read + 1)' = Asked(read) /\ Held(read + 1)' = Held(read)
          /\ k' = k /\ starts' = starts
      BY <2>2, <2>4, <2>5 DEF Asked, Held, Numbers
    <2>7. /\ anchor'[r].queue = a.queue /\ anchor'[r].data = starts
          /\ anchor'[r].state = a.state /\ anchor'[r].calls = a.calls /\ anchor'[r].found = a.found
      BY <1>2, <2>4 DEF AnchorType
    <2>8. Takes(r, read + 1)'
      <3>1. anchor'[r].queue = Copies(starts', Held(read + 1)')
        BY <1>5, <2>6, <2>7
      <3>2. ref'[r] /\ anchor'[r].data = starts' /\ read + 1 >= k' + 2
        BY <2>2, <2>4, <2>6, <2>7
      <3>3. /\ read + 1 > 0 /\ ~anchor'[r].found
            /\ \/ /\ anchor'[r].state = "TimeSyncTx" /\ tx'[r]
                  /\ anchor'[r].calls = <<Plain("TxOff")>> \o Asked(read + 1)'
               \/ /\ anchor'[r].state = "ContextRx" /\ ~tx'[r]
                  /\ anchor'[r].calls = Asked(read + 1)'
        <4> DEFINE c == <<Plain("TxOff")>> \o Asked(read)
        <4>1. /\ ~a.found
              /\ \/ a.state = "TimeSyncTx" /\ tx[r] /\ a.calls = c
                 \/ a.state = "ContextRx" /\ ~tx[r] /\ a.calls = Asked(read)
          BY <1>5, <1>9
        <4>2. c = <<Plain("TxOff")>> \o Asked(read + 1)'
          BY <2>6
        <4> HIDE DEF c, a
        <4> QED BY <2>2, <2>4, <2>6, <2>7, <4>1, <4>2
      <3> QED BY <3>1, <3>2, <3>3 DEF Takes
    <2> QED BY <1>4, <2>4, <2>8
  <1>10. CASE read > 0 /\ read = k + 2
    <2> DEFINE find == Plain("SearchOn")
               off  == Plain("TxOff")
    <2>1. Head(chan[r]).op = "AnchorStartSearch"
      <3>1. read + 1 = k + 3
        BY <1>2, <1>10
      <3> QED BY <1>3, <3>1, ScriptFacts DEF Plain, Item
    <2>2. read >= k + 2 /\ read + 1 >= k + 2 /\ read # k + 3 /\ read + 1 = k + 3 /\ read + 1 > 0
      BY <1>2, <1>10
    <2>3. find \in Items(Calls) /\ off \in Items(Calls)
      BY PlainTyped DEF Calls
    <2>4. /\ anchor'[r] = [a EXCEPT !.calls = Append(@, find)]
          /\ chan'[r] = Tail(chan[r]) /\ UNCHANGED Stack(r) /\ Nothing(r) /\ UNCHANGED Numbers
      BY <2>1, CommandOf, CommandEffect
    <2>5. Held(read + 1) = Held(read)
      BY <1>2, <1>10, HeldFacts
    <2>6. /\ k' = k /\ starts' = starts /\ Held(read + 1)' = Held(read)
      BY <2>4, <2>5 DEF Held, Numbers
    <2> HIDE DEF find
    <2>7. Asked(read + 1)' = <<find>> /\ Asked(read) = <<>>
      BY <2>2, <2>6 DEF Asked, find
    <2> HIDE DEF off
    <2>8. Append(<<off>> \o <<>>, find) = <<off>> \o <<find>> /\ Append(<<>>, find) = <<find>>
      BY <2>3, Pairs
    <2>9. /\ anchor'[r].calls = Append(a.calls, find)
          /\ anchor'[r].queue = a.queue /\ anchor'[r].data = a.data
          /\ anchor'[r].state = a.state /\ anchor'[r].found = a.found
      <3> DEFINE c == Append(a.calls, find)
      <3>1. anchor'[r] = [a EXCEPT !.calls = c]
        BY <2>4
      <3> HIDE DEF c
      <3>2. /\ anchor'[r].calls = c
            /\ anchor'[r].queue = a.queue /\ anchor'[r].data = a.data
            /\ anchor'[r].state = a.state /\ anchor'[r].found = a.found
        BY <1>2, <3>1 DEF AnchorType
      <3> QED BY <3>2 DEF c
    <2>10. /\ ~a.found
           /\ \/ a.state = "TimeSyncTx" /\ tx[r] /\ a.calls = <<off>> \o <<>>
              \/ a.state = "ContextRx" /\ ~tx[r] /\ a.calls = <<>>
      BY <1>5, <1>10, <2>7 DEF off
    <2> HIDE DEF a
    <2>11. \/ a.state = "TimeSyncTx" /\ tx[r] /\ anchor'[r].calls = <<off>> \o <<find>>
           \/ a.state = "ContextRx" /\ ~tx[r] /\ anchor'[r].calls = <<find>>
      BY <2>8, <2>9, <2>10
    <2>12. Takes(r, read + 1)'
      <3>1. anchor'[r].queue = Copies(starts', Held(read + 1)')
        BY <1>5, <2>6, <2>9
      <3>2. ref'[r] /\ anchor'[r].data = starts' /\ read + 1 >= k' + 2
        BY <1>5, <2>2, <2>4, <2>6, <2>9 DEF Stack
      <3>3. /\ read + 1 > 0 /\ ~anchor'[r].found
            /\ \/ /\ anchor'[r].state = "TimeSyncTx" /\ tx'[r]
                  /\ anchor'[r].calls = <<off>> \o Asked(read + 1)'
               \/ /\ anchor'[r].state = "ContextRx" /\ ~tx'[r]
                  /\ anchor'[r].calls = Asked(read + 1)'
        BY <2>2, <2>4, <2>7, <2>9, <2>10, <2>11 DEF Stack
      <3> QED BY <3>1, <3>2, <3>3 DEF Takes, off
    <2> QED BY <1>4, <2>4, <2>12 DEF Stack
  <1> QED BY <1>6, <1>7, <1>8, <1>9, <1>10

\* The other anchor stops its beacon or begins its search.
LEMMA SharingTurns ==
  ASSUME TypeOK, faults = 0, faults' = 0,
         NEW s \in Anchors, NEW r \in Anchors, r = Peer(s), s = Peer(r),
         NEW sent \in Nat, NEW read \in Nat, Sharing(s, r, sent, read), Ends(r)
  PROVE  /\ (Sharing(s, r, sent, read) \/ Searching(s, r) \/ Failed(s, r))'
         /\ UNCHANGED Numbers
  <1> DEFINE a    == anchor[r]
             k    == indicated
             off  == Plain("TxOff")
             find == Plain("SearchOn")
  <1>1. /\ sent <= k + 3 /\ 1 <= sent /\ read <= sent
        /\ Begun(s) /\ ~rx[s] /\ ~search[s] /\ ~ref[s] /\ Gives(s, sent)
        /\ link[r] = "none" /\ ~rx[r] /\ ~search[r]
        /\ chan[r] = Slice(Script, read, sent) /\ Takes(r, read) /\ taken.no < starts
    BY SharingParts
  <1>2. k \in Nat /\ a \in AnchorType
    BY Counts, LocalTypes
  <1>3. /\ off \in Items(Calls) /\ off.op = "TxOff" /\ find \in Items(Calls) /\ find.op = "SearchOn"
    BY PlainTyped DEF Calls, Plain, Item
  <1>4. /\ a.queue = Copies(starts, Held(read))
        /\ (read >= k + 2) => (ref[r] /\ a.data = starts)
        /\ ~a.found /\ read > 0
        /\ \/ a.state = "TimeSyncTx" /\ tx[r] /\ a.calls = <<off>> \o Asked(read)
           \/ a.state = "ContextRx" /\ ~tx[r] /\ a.calls = Asked(read)
    <2>1. a.calls # <<>>
      BY StepNeeds
    <2> QED BY <1>1, <2>1 DEF Takes
  <1>5. Asked(read) = IF read = k + 3 THEN <<find>> ELSE <<>>
    BY DEF Asked
  <1> HIDE DEF off, find
  <1>6. /\ Asked(read) \in CallSeq
        /\ Head(<<off>> \o Asked(read)) = off /\ Tail(<<off>> \o Asked(read)) = Asked(read)
        /\ Head(<<find>>) = find /\ Tail(<<find>>) = <<>>
    <2>1. Asked(read) \in CallSeq
      BY <1>3, <1>5 DEF CallSeq
    <2> QED BY <1>3, <2>1, OneMore, Pairs DEF CallSeq
  <1>7. CASE a.state = "TimeSyncTx" /\ tx[r] /\ a.calls = <<off>> \o Asked(read)
    <2>1. Head(a.calls).op = "TxOff"
      BY <1>3, <1>6, <1>7
    <2>2. /\ anchor'[r] = [a EXCEPT !.calls = Tail(@), !.state = "ContextRx"]
          /\ ~tx'[r] /\ UNCHANGED <<chan[r], link[r], rx[r], search[r], ref[r]>>
          /\ Nothing(r) /\ UNCHANGED Numbers
      BY <1>7, <2>1, EndOf, TimeSyncCallEffect
    <2>3. /\ anchor'[r].state = "ContextRx" /\ anchor'[r].calls = Asked(read)
          /\ anchor'[r].queue = a.queue /\ anchor'[r].data = a.data /\ ~anchor'[r].found
      <3> DEFINE c == Tail(a.calls)
      <3>1. c = Asked(read)
        BY <1>6, <1>7
      <3>2. anchor'[r] = [a EXCEPT !.calls = c, !.state = "ContextRx"]
        BY <2>2
      <3> HIDE DEF c
      <3> QED BY <1>2, <1>4, <3>1, <3>2 DEF AnchorType
    <2>4. /\ Script' = Script /\ k' = k /\ starts' = starts /\ taken' = taken
          /\ Held(read)' = Held(read) /\ Asked(read)' = Asked(read)
      BY <2>2 DEF Script, Held, Asked, Numbers
    <2>5. Takes(r, read)'
      <3>1. anchor'[r].queue = Copies(starts', Held(read)')
        BY <1>4, <2>3, <2>4
      <3>2. IF read >= k' + 2 THEN ref'[r] /\ anchor'[r].data = starts'
                              ELSE ~ref'[r] /\ anchor'[r].data = 0
        BY <1>1, <2>2, <2>3, <2>4 DEF Takes
      <3> HIDE DEF a
      <3> QED BY <1>4, <2>2, <2>3, <2>4, <3>1, <3>2 DEF Takes
    <2>6. (Begun(s) /\ Gives(s, sent))' /\ UNCHANGED <<rx[s], search[s], ref[s]>>
      BY <1>1, <2>2, GivesStays DEF Nothing
    <2>7. sent \in 1 .. k + 3 /\ read \in 0 .. sent
      BY <1>1, <1>2
    <2>8. Sharing(s, r, sent, read)'
      BY <1>1, <2>2, <2>4, <2>5, <2>6, <2>7 DEF Sharing
    <2> QED BY <2>2, <2>8
  <1>8. CASE a.state = "ContextRx" /\ ~tx[r] /\ a.calls = Asked(read)
    <2>1. read = k + 3 /\ a.calls = <<find>>
      BY <1>5, <1>8, StepNeeds
    <2>2. /\ sent = k + 3 /\ ref[r] /\ a.data = starts /\ a.queue = Copies(starts, k)
          /\ ~(sent <= k + 1) /\ sent # k + 2 /\ sent # 1
      <3>1. sent = k + 3 /\ ~(sent <= k + 1) /\ sent # k + 2 /\ sent # 1 /\ read >= k + 2
        BY <1>1, <1>2, <2>1
      <3>2. Held(read) = k
        BY <1>2, <2>1, HeldFacts
      <3> HIDE DEF a, k
      <3> QED BY <1>4, <3>1, <3>2
    <2>3. /\ link[s] = "suspended" /\ anchor[s].state = "ContextTx"
          /\ anchor[s].data = 0 /\ anchor[s].calls = <<>>
      BY <1>1, <2>2 DEF Gives
    <2>4. chan[r] = <<>>
      BY <1>1, <2>1, <2>2, SliceNone
    <2>5. AnchorSearchStarted(r)
      BY <1>3, <1>6, <2>1, EndOf
    <2>6. Waits(s) /\ chan[s] = <<>>
      BY <1>1, <2>3 DEF Waits, Begun, Clean, Silent
    <2>7. /\ UNCHANGED <<chan[r], link[r], rx[r], tx[r], ref[r]>> /\ UNCHANGED Numbers
          /\ \/ /\ anchor'[r] = [a EXCEPT !.calls = Tail(@), !.state = "AnchorSearch",
                                          !.handle = TRUE]
                /\ search'[r] /\ Nothing(r)
             \/ /\ search'[r] = search[r]
                /\ \/ GivesUp(r, Append(Tail(a.calls), Plain("FreeData")))
                   \/ GivesUp(r, Append(Append(Tail(a.calls), Plain("SearchOff")),
                                        Plain("FreeData")))
      BY <1>8, <2>2, <2>5, SearchEffect
    <2>8. Tail(a.calls) = <<>>
      BY <1>6, <2>1
    <2>9. CASE /\ anchor'[r] = [a EXCEPT !.calls = Tail(@), !.state = "AnchorSearch",
                                         !.handle = TRUE]
               /\ search'[r] /\ Nothing(r)
      <3>1. /\ anchor'[r].state = "AnchorSearch" /\ anchor'[r].calls = <<>> /\ anchor'[r].handle
            /\ anchor'[r].queue = a.queue /\ anchor'[r].data = a.data /\ ~anchor'[r].found
        <4> DEFINE c == Tail(a.calls)
        <4>1. anchor'[r] = [a EXCEPT !.calls = c, !.state = "AnchorSearch", !.handle = TRUE]
          BY <2>9
        <4> HIDE DEF c
        <4>2. c = <<>>
          BY <2>8 DEF c
        <4> QED BY <1>2, <1>4, <4>1, <4>2 DEF AnchorType
      <3>2. Waits(s)' /\ chan'[s] = <<>>
        BY <2>6, <2>9 DEF Waits, Clean, Silent, Nothing, Local, Stack
      <3>3. Searching(s, r)'
        <4> HIDE DEF a
        <4> QED BY <1>1, <1>8, <2>2, <2>4, <2>7, <2>9, <3>1, <3>2 DEF Searching, Numbers
      <3> QED BY <2>7, <3>3
    <2>10. CASE /\ search'[r] = search[r]
                /\ \/ GivesUp(r, Append(Tail(a.calls), Plain("FreeData")))
                   \/ GivesUp(r, Append(Append(Tail(a.calls), Plain("SearchOff")),
                                        Plain("FreeData")))
      <3> DEFINE free   == Plain("FreeData")
                 stop   == Plain("SearchOff")
                 inform == Plain("InformFailure")
      <3>1. free \in Items(Calls) /\ stop \in Items(Calls) /\ inform \in Items(Commands)
        BY PlainTyped DEF Calls, Commands
      <3>2. /\ anchor'[r].state = "Idle" /\ anchor'[r].queue = <<>> /\ Says(r, inform)
            /\ \/ anchor'[r].calls = Append(<<>>, free)
               \/ anchor'[r].calls = Append(Append(<<>>, stop), free)
        BY <2>8, <2>10 DEF GivesUp
      <3> HIDE DEF free, stop, inform
      <3>3. /\ Append(<<>>, free) = <<free>> \o <<>> /\ Append(<<>>, inform) = <<inform>>
            /\ Append(Append(<<>>, stop), free) = <<stop>> \o (<<free>> \o <<>>)
        BY <3>1, Pairs
      <3>4. After(r, <<>>)'
        BY <1>1, <2>2, <2>7, <2>10, <3>2, <3>3 DEF After, free, stop
      <3>5. Trails(r, <<>>, <<>>)'
        <4> HIDE DEF a
        <4> QED BY <1>1, <1>8, <2>4, <2>7, <3>2, <3>4 DEF Trails, Silent
      <3>6. Waits(s)' /\ chan'[s] = <<inform>>
        BY <2>6, <3>2, <3>3 DEF Waits, Clean, Silent, Says, Local, Stack
      <3> QED BY <2>7, <3>5, <3>6 DEF Failed, inform
    <2> QED BY <2>7, <2>9, <2>10
  <1> QED BY <1>4, <1>7, <1>8

\* As many of x, then one y.
Ended(x, k, y) == [i \in 1 .. k + 1 |-> IF i <= k THEN x ELSE y]

LEMMA EndedFacts ==
  ASSUME NEW S, NEW x \in S, NEW y \in S, NEW k \in Nat
  PROVE  Append(Copies(x, k) \o <<>>, y) = Slice(Ended(x, k, y), 0, k + 1)
  <1> DEFINE f == Ended(x, k, y)
             c == Copies(x, k)
  <1>1. \A i \in 1 .. k : f[i] = x
    BY DEF Ended
  <1>2. f[k + 1] = y /\ \A i \in 0 + 1 .. k + 1 : f[i] \in S
    BY DEF Ended
  <1>3. c = Slice(f, 0, k)
    BY <1>1 DEF Slice, Copies
  <1>4. c \in Seq(S)
    BY DEF Copies
  <1> HIDE DEF c, f
  <1>5. c \o <<>> = c
    BY <1>4, OneMore
  <1>6. Append(Slice(f, 0, k), f[k + 1]) = Slice(f, 0, k + 1)
    <2>1. 0 \in Nat /\ 0 <= k
      OBVIOUS
    <2> QED BY <1>2, <2>1, SliceAppend, Zenon
  <1> QED BY <1>2, <1>3, <1>5, <1>6 DEF c, f

\* Transmission is suspended: what the link layer had left becomes known.
LEMMA SharingSuspends ==
  ASSUME TypeOK, TypeOK', faults = 0, faults' = 0,
         NEW s \in Anchors, NEW r \in Anchors, r = Peer(s), s = Peer(r),
         NEW sent \in Nat, NEW read \in Nat, Sharing(s, r, sent, read),
         link[s] = "sending", Ends(s)
  PROVE  Sharing(s, r, 1, read)' /\ UNCHANGED <<starts, taken>>
  <1> DEFINE a       == anchor[s]
             suspend == Plain("Suspend")
             pending == Item("Pending", starts)
             get     == Plain("GetData")
             k       == indicated'
  <1>1. /\ read <= sent
        /\ Begun(s) /\ ~rx[s] /\ ~search[s] /\ ~ref[s] /\ Gives(s, sent)
        /\ link[r] = "none" /\ ~rx[r] /\ ~search[r]
        /\ chan[r] = Slice(Script, read, sent) /\ Takes(r, read) /\ taken.no < starts
    BY SharingParts
  <1>2. sent = 1 /\ a.state = "TimeSyncRx" /\ a.calls = <<suspend>> /\ a.device
    BY <1>1 DEF Gives, Begun
  <1>3. /\ suspend \in Items(Calls) /\ suspend.op = "Suspend"
        /\ pending \in Items(Calls) /\ get \in Items(Calls)
    BY ItemTyped, PlainTyped, Counts DEF Calls, Plain, Item
  <1> HIDE DEF suspend
  <1>4. Head(<<suspend>>) = suspend /\ Tail(<<suspend>>) = <<>>
    BY <1>3, Pairs
  <1>5. SuspendTransmitComplete(s)
    BY <1>2, <1>3, <1>4, EndOf
  <1>6. /\ k \in 0 .. MaxPending
        /\ anchor'[s] = [a EXCEPT !.state = "ContextTx", !.data = starts,
                            !.calls = Append([i \in 1 .. k |-> pending] \o Tail(@), get)]
        /\ link'[s] = "suspended" /\ UNCHANGED <<chan[s], rx[s], tx[s], search[s], ref[s]>>
        /\ Nothing(s) /\ UNCHANGED <<starts, taken>>
    BY <1>2, <1>5, SuspendEffect
  <1>7. k \in Nat /\ indicated \in Nat /\ a \in AnchorType
    BY <1>6, Counts, LocalTypes
  <1>8. Append([i \in 1 .. k |-> pending] \o <<>>, get) = Slice(Duties', 0, k + 1)
    <2>1. Duties' = Ended(pending, k, get) /\ [i \in 1 .. k |-> pending] = Copies(pending, k)
      BY <1>6 DEF Duties, Ended, Copies
    <2> HIDE DEF k, pending, get
    <2>2. Append(Copies(pending, k) \o <<>>, get) = Slice(Ended(pending, k, get), 0, k + 1)
      BY <1>3, <1>7, EndedFacts
    <2> QED BY <2>1, <2>2
  <1>9. /\ anchor'[s].state = "ContextTx" /\ anchor'[s].data = starts
        /\ anchor'[s].calls = Slice(Duties', 0, k + 1)
        /\ anchor'[s].busy = a.busy /\ anchor'[s].device = a.device /\ anchor'[s].queue = a.queue
    <2> DEFINE c == Append([i \in 1 .. k |-> pending] \o Tail(a.calls), get)
    <2>1. c = Slice(Duties', 0, k + 1)
      BY <1>2, <1>4, <1>8
    <2>2. anchor'[s] = [a EXCEPT !.state = "ContextTx", !.data = starts, !.calls = c]
      BY <1>6
    <2> HIDE DEF c
    <2> QED BY <1>7, <2>1, <2>2 DEF AnchorType
  <1>10. (Begun(s) /\ Gives(s, 1))'
    <2>1. Begun(s)'
      BY <1>1, <1>6, <1>9 DEF Begun
    <2>2. 1 <= k + 1 /\ 1 - 1 = 0
      <3> HIDE DEF k
      <3> QED BY <1>7
    <2>3. Gives(s, 1)'
      BY <1>6, <1>9, <2>2 DEF Gives
    <2> QED BY <2>1, <2>3
  <1>11. read = 0 \/ read = 1
    BY <1>1, <1>2
  <1>12. Takes(r, read)'
    <2>1. /\ ~(read >= indicated + 2) /\ ~(read >= k + 2) /\ read # indicated + 3 /\ read # k + 3
      <3> HIDE DEF k
      <3> QED BY <1>7, <1>11
    <2>2. Held(read) = 0 /\ Held(read)' = 0 /\ Asked(read) = <<>> /\ Asked(read)' = <<>>
      BY <1>11, <2>1 DEF Held, Asked
    <2>3. anchor'[r] = anchor[r] /\ tx'[r] = tx[r] /\ ref'[r] = ref[r] /\ starts' = starts
      BY <1>6 DEF Nothing, Local, Stack
    <2>4. anchor'[r].queue = Copies(starts', Held(read)')
      BY <1>1, <2>2, <2>3 DEF Takes
    <2>5. IF read >= k + 2 THEN ref'[r] /\ anchor'[r].data = starts'
                           ELSE ~ref'[r] /\ anchor'[r].data = 0
      BY <1>1, <2>1, <2>3 DEF Takes
    <2>6. \/ read = 0 /\ anchor[r].state = "TimeSyncTx" /\ tx[r] /\ anchor[r].calls = <<>>
          \/ /\ read > 0 /\ ~anchor[r].found
             /\ \/ /\ anchor[r].state = "TimeSyncTx" /\ tx[r]
                   /\ anchor[r].calls = <<Plain("TxOff")>> \o Asked(read)
                \/ anchor[r].state = "ContextRx" /\ ~tx[r] /\ anchor[r].calls = Asked(read)
      BY <1>1 DEF Takes
    <2>7. Asked(read)' = Asked(read)
      BY <2>2
    <2> QED BY <2>3, <2>4, <2>5, <2>6, <2>7 DEF Takes
  <1>13. chan'[r] = Slice(Script', read, 1)
    <2> DEFINE stop == Plain("StopTimeSync")
               f(i) == IF i = 1 THEN stop ELSE IF i <= k + 1 THEN Item("LlPendingData", starts')
                       ELSE IF i = k + 2 THEN Item("Data", starts')
                       ELSE Plain("AnchorStartSearch")
    <2>1. Script[1] = stop
      BY ScriptFacts
    <2>2. Script' = [i \in 1 .. k + 3 |-> f(i)] /\ f(1) = stop
      BY DEF Script
    <2> HIDE DEF k, f, stop
    <2>3. 1 \in 1 .. k + 3
      BY <1>7
    <2>4. Script'[1] = stop
      BY <2>2, <2>3
    <2>5. CASE read = 1
      BY <1>1, <1>2, <1>6, <2>5, SliceNone DEF Nothing
    <2>6. CASE read = 0
      <3>1. Slice(Script, 0, 1) = [i \in 1 .. 1 |-> stop] /\ Slice(Script', 0, 1) = [i \in 1 .. 1 |-> stop]
        BY <2>1, <2>4 DEF Slice
      <3>2. Slice(Script, 0, 1) = Slice(Script', 0, 1)
        BY <3>1
      <3> QED BY <1>1, <1>2, <1>6, <2>6, <3>2 DEF Nothing
    <2> QED BY <1>11, <2>5, <2>6
  <1>14. 1 \in 1 .. k + 3 /\ read \in 0 .. 1
    <2> HIDE DEF k
    <2> QED BY <1>7, <1>11
  <1>15. link'[r] = "none" /\ ~rx'[r] /\ ~search'[r] /\ ~rx'[s] /\ ~search'[s] /\ ~ref'[s]
    BY <1>1, <1>6 DEF Nothing, Local, Stack
  <1> QED BY <1>1, <1>6, <1>10, <1>12, <1>13, <1>14, <1>15 DEF Sharing

\* Transmission is suspended: the next part of the context goes out.
LEMMA SharingSends ==
  ASSUME TypeOK, faults = 0, faults' = 0,
         NEW s \in Anchors, NEW r \in Anchors, r = Peer(s), s = Peer(r),
         NEW sent \in Nat, NEW read \in Nat, Sharing(s, r, sent, read),
         link[s] # "sending", Ends(s)
  PROVE  Sharing(s, r, sent + 1, read)' /\ UNCHANGED Numbers
  <1> DEFINE a == anchor[s]
             k == indicated
             params == Plain("GetConnParams")
  <1>1. /\ sent <= k + 3 /\ 1 <= sent /\ read <= sent
        /\ Begun(s) /\ ~rx[s] /\ ~search[s] /\ ~ref[s] /\ Gives(s, sent)
        /\ link[r] = "none" /\ ~rx[r] /\ ~search[r]
        /\ chan[r] = Slice(Script, read, sent) /\ Takes(r, read) /\ taken.no < starts
    BY SharingParts
  <1>2. k \in Nat /\ a \in AnchorType
    BY Counts, LocalTypes
  <1>3. a.calls # <<>>
    BY StepNeeds
  <1>4. /\ link[s] = "suspended" /\ a.state = "ContextTx" /\ a.device
        /\ \/ /\ sent <= k + 1 /\ a.data = starts /\ a.calls = Slice(Duties, sent - 1, k + 1)
           \/ sent = k + 2 /\ a.data = 0 /\ a.calls = <<params>>
    BY <1>1, <1>3 DEF Gives, Begun
  <1>5. params \in Items(Calls) /\ params.op = "GetConnParams"
    BY PlainTyped DEF Calls, Plain, Item
  <1> HIDE DEF params
  <1>6. Head(<<params>>) = params /\ Tail(<<params>>) = <<>> /\ Append(<<>>, params) = <<params>>
    BY <1>5, Pairs
  <1>7. ASSUME sent < k + 3, UNCHANGED <<chan[s], Stack(s)>>, UNCHANGED Local(r),
               chan'[r] = Append(chan[r], Script[sent + 1]), UNCHANGED Numbers,
               UNCHANGED <<anchor[s].busy, anchor[s].device, anchor[s].queue>>,
               Gives(s, sent + 1)'
        PROVE  Sharing(s, r, sent + 1, read)' /\ UNCHANGED Numbers
    <2>1. Script' = Script /\ k' = k /\ starts' = starts /\ taken' = taken
      BY <1>7 DEF Script, Numbers
    <2>2. Begun(s)' /\ ~rx'[s] /\ ~search'[s] /\ ~ref'[s]
      BY <1>1, <1>7 DEF Begun, Stack
    <2>3. chan'[r] = Slice(Script', read, sent + 1)
      BY <1>1, <1>7, <2>1, ScriptMoves
    <2>4. Takes(r, read)' /\ UNCHANGED <<link[r], rx[r], search[r]>>
      BY <1>1, <1>7, <2>1, TakesStays
    <2>5. sent + 1 \in 1 .. k + 3 /\ read \in 0 .. sent + 1
      BY <1>1, <1>2, <1>7
    <2> QED BY <1>1, <1>7, <2>1, <2>2, <2>3, <2>4, <2>5 DEF Sharing
  <1>8. ASSUME sent <= k + 1, a.data = starts, a.calls = Slice(Duties, sent - 1, k + 1)
        PROVE  /\ Head(a.calls) = Duties[sent] /\ Tail(a.calls) = Slice(Duties, sent, k + 1)
               /\ sent = k + 1 => Slice(Duties, sent, k + 1) = <<>>
    <2> DEFINE d == sent - 1
    <2>1. d \in Nat /\ d <= k /\ d + 1 = sent /\ (sent = k + 1 => d = k)
      BY <1>1, <1>2, <1>8
    <2> HIDE DEF d
    <2>2. /\ Head(Slice(Duties, d, k + 1)) = Duties[d + 1]
          /\ Tail(Slice(Duties, d, k + 1)) = Slice(Duties, d + 1, k + 1)
          /\ d = k => Slice(Duties, d + 1, k + 1) = <<>>
      BY <2>1, DutiesMove, Zenon
    <2>3. a.calls = Slice(Duties, d, k + 1)
      BY <1>8 DEF d
    <2> QED BY <2>1, <2>2, <2>3, Zenon
  <1>9. CASE sent <= k /\ a.data = starts /\ a.calls = Slice(Duties, sent - 1, k + 1)
    <2>1. sent <= k + 1 /\ sent < k + 3 /\ sent \in 1 .. k /\ sent + 1 \in 2 .. k + 1
          /\ sent + 1 <= k + 1 /\ (sent + 1) - 1 = sent
      BY <1>1, <1>2, <1>9
    <2>2. Head(a.calls) = Item("Pending", starts) /\ Tail(a.calls) = Slice(Duties, sent, k + 1)
      BY <1>8, <1>9, <2>1, DutiesFacts
    <2>3. Head(a.calls).op = "Pending" /\ Head(a.calls).no = starts
      BY <2>2 DEF Item
    <2>4. LlPendingData(s)
      BY <2>3, EndOf
    <2>5. /\ anchor'[s] = [a EXCEPT !.calls = Tail(@)] /\ UNCHANGED <<chan[s], Stack(s)>>
          /\ Says(s, Item("LlPendingData", starts)) /\ UNCHANGED Numbers
      BY <1>4, <2>3, <2>4, ContextEffect
    <2>6. Script[sent + 1] = Item("LlPendingData", starts)
      BY <2>1, ScriptFacts
    <2>7. /\ anchor'[s].calls = Slice(Duties, sent, k + 1) /\ anchor'[s].data = starts
          /\ anchor'[s].state = "ContextTx"
          /\ UNCHANGED <<anchor[s].busy, anchor[s].device, anchor[s].queue>>
      <3> DEFINE c == Tail(a.calls)
      <3>1. anchor'[s] = [a EXCEPT !.calls = c]
        BY <2>5
      <3> HIDE DEF c
      <3>2. c = Slice(Duties, sent, k + 1)
        BY <2>2 DEF c
      <3> QED BY <1>2, <1>4, <1>9, <3>1, <3>2 DEF AnchorType
    <2>8. Gives(s, sent + 1)'
      <3>1. Duties' = Duties /\ k' = k /\ starts' = starts
        BY <2>5 DEF Duties, Numbers
      <3>2. link'[s] = "suspended"
        BY <1>4, <2>5 DEF Stack
      <3> QED BY <2>1, <2>7, <3>1, <3>2 DEF Gives
    <2> QED BY <1>7, <2>1, <2>5, <2>6, <2>7, <2>8 DEF Says
  <1>10. CASE sent = k + 1 /\ a.data = starts /\ a.calls = Slice(Duties, sent - 1, k + 1)
    <2>1. sent <= k + 1 /\ sent < k + 3 /\ sent + 1 = k + 2 /\ ~(sent + 1 <= k + 1) /\ sent + 1 # 1
      BY <1>1, <1>2, <1>10
    <2>2. Head(a.calls) = Plain("GetData") /\ Tail(a.calls) = <<>>
      BY <1>8, <1>10, <2>1, DutiesFacts
    <2>3. Head(a.calls).op = "GetData"
      BY <2>2 DEF Plain, Item
    <2>4. GetComplete(s)
      BY <2>3, EndOf
    <2>5. /\ anchor'[s] = [a EXCEPT !.data = 0, !.calls = Append(Tail(@), params)]
          /\ UNCHANGED <<chan[s], Stack(s)>>
          /\ Says(s, Item("Data", starts)) /\ UNCHANGED Numbers
      BY <1>4, <1>10, <2>4, ContextEffect DEF params
    <2>6. Script[sent + 1] = Item("Data", starts)
      BY <2>1, ScriptFacts
    <2>7. /\ anchor'[s].calls = <<params>> /\ anchor'[s].data = 0
          /\ anchor'[s].state = "ContextTx"
          /\ UNCHANGED <<anchor[s].busy, anchor[s].device, anchor[s].queue>>
      <3> DEFINE c == Append(Tail(a.calls), params)
      <3>1. anchor'[s] = [a EXCEPT !.data = 0, !.calls = c]
        BY <2>5
      <3> HIDE DEF c
      <3>2. c = <<params>>
        BY <1>6, <2>2 DEF c
      <3> QED BY <1>2, <1>4, <3>1, <3>2 DEF AnchorType
    <2>8. Gives(s, sent + 1)'
      <3>1. k' = k
        BY <2>5 DEF Numbers
      <3>2. link'[s] = "suspended"
        BY <1>4, <2>5 DEF Stack
      <3> QED BY <2>1, <2>7, <3>1, <3>2 DEF Gives, params
    <2> QED BY <1>7, <2>1, <2>5, <2>6, <2>7, <2>8 DEF Says
  <1>11. CASE sent = k + 2 /\ a.data = 0 /\ a.calls = <<params>>
    <2>1. sent < k + 3 /\ sent + 1 = k + 3
      BY <1>1, <1>2, <1>11
    <2>2. GetConnParamsComplete(s)
      BY <1>5, <1>6, <1>11, EndOf
    <2>3. /\ anchor'[s] = [a EXCEPT !.calls = Tail(@)] /\ UNCHANGED <<chan[s], Stack(s)>>
          /\ Says(s, Plain("AnchorStartSearch")) /\ UNCHANGED Numbers
      BY <1>4, <2>2, ContextEffect
    <2>4. Script[sent + 1] = Plain("AnchorStartSearch")
      BY <2>1, ScriptFacts
    <2>5. /\ anchor'[s].calls = <<>> /\ anchor'[s].data = 0
          /\ anchor'[s].state = "ContextTx"
          /\ UNCHANGED <<anchor[s].busy, anchor[s].device, anchor[s].queue>>
      <3> DEFINE c == Tail(a.calls)
      <3>1. anchor'[s] = [a EXCEPT !.calls = c]
        BY <2>3
      <3> HIDE DEF c
      <3>2. c = <<>>
        BY <1>6, <1>11 DEF c
      <3> QED BY <1>2, <1>4, <1>11, <3>1, <3>2 DEF AnchorType
    <2>6. Gives(s, sent + 1)'
      <3>1. k' = k
        BY <2>3 DEF Numbers
      <3>2. link'[s] = "suspended"
        BY <1>4, <2>3 DEF Stack
      <3> QED BY <2>1, <2>5, <3>1, <3>2 DEF Gives
    <2> QED BY <1>7, <2>1, <2>3, <2>4, <2>5, <2>6 DEF Says
  <1>12. sent <= k + 1 => sent <= k \/ sent = k + 1
    BY <1>2
  <1> QED BY <1>4, <1>9, <1>10, <1>11, <1>12

LEMMA SharingSteps ==
  ASSUME TypeOK, TypeOK', faults = 0, faults' = 0, Taken,
         NEW s \in Anchors, NEW r \in Anchors, r = Peer(s), s = Peer(r),
         NEW sent \in Nat, NEW read \in Nat, Sharing(s, r, sent, read), NEW n \in Anchors, Step(n)
  PROVE  /\ Taken'
         /\ \/ Searching(s, r)' \/ Failed(s, r)'
            \/ \E i, j \in Nat : Sharing(s, r, i, j)'
  <1>1. n = s \/ n = r
    BY PeerFacts
  <1>2. /\ Begun(s) /\ ~rx[s] /\ ~search[s] /\ link[r] = "none" /\ ~rx[r] /\ ~search[r]
        /\ taken.no < starts
    BY SharingParts
  <1>3. sent + 1 \in Nat /\ read + 1 \in Nat /\ 1 \in Nat
    OBVIOUS
  <1>4. UNCHANGED Numbers => Taken'
    BY TakenStays DEF Numbers
  <1>5. ~StartTimeSync(n) /\ ~TimeSyncEvent(n) /\ ~DeviceFound(n) /\ ~SearchFailed(n)
    BY <1>1, <1>2, StepNeeds DEF Begun
  <1>6. CASE n = s
    <2>1. Ends(s)
      BY <1>2, <1>5, <1>6, StepNeeds DEF Step, Begun
    <2>2. CASE link[s] = "sending"
      <3>1. Sharing(s, r, 1, read)' /\ UNCHANGED <<starts, taken>>
        BY <2>1, <2>2, SharingSuspends
      <3>2. Taken'
        BY <1>2, <3>1, Counts DEF Taken
      <3> QED BY <1>3, <3>1, <3>2
    <2>3. CASE link[s] # "sending"
      BY <1>3, <1>4, <2>1, <2>3, SharingSends
    <2> QED BY <2>2, <2>3
  <1>7. CASE n = r
    <2>1. CASE Ends(r)
      BY <1>4, <2>1, SharingTurns
    <2>2. CASE ProcessA2ACommand(r)
      BY <1>3, <1>4, <2>2, SharingReads
    <2> QED BY <1>5, <1>7, <2>1, <2>2 DEF Step
  <1> QED BY <1>1, <1>6, <1>7

LEMMA SearchingSteps ==
  ASSUME TypeOK, faults = 0, faults' = 0, Taken,
         NEW s \in Anchors, NEW r \in Anchors, r = Peer(s), s = Peer(r),
         Searching(s, r), NEW n \in Anchors, Step(n)
  PROVE  Taken' /\ (Searching(s, r) \/ Failed(s, r) \/ Resting(r, s))'
  <1> DEFINE a       == anchor[r]
             connect == Plain("Connect")
             free    == Plain("FreeData")
             inform  == Plain("InformConnect")
  <1>1. n = s \/ n = r
    BY PeerFacts
  <1>2. /\ Waits(s) /\ chan[s] = <<>>
        /\ link[r] = "none" /\ a.state = "AnchorSearch" /\ ~rx[r] /\ ~tx[r]
        /\ search[r] /\ ref[r] /\ a.handle /\ a.data = starts /\ chan[r] = <<>>
        /\ \/ /\ ~a.found /\ a.calls = <<>>
              /\ a.queue = Copies(starts, indicated) /\ taken.no < starts
           \/ a.found /\ a.calls = <<connect>> /\ a.queue = <<>>
    BY DEF Searching
  <1>3. a \in AnchorType
    BY LocalTypes
  <1>4. /\ connect \in Items(Calls) /\ connect.op = "Connect" /\ free \in Items(Calls)
        /\ inform \in Items(Commands)
    BY PlainTyped DEF Calls, Commands, Plain, Item
  <1> HIDE DEF connect, free, inform
  <1>5. /\ Head(<<connect>>) = connect /\ Tail(<<connect>>) = <<>>
        /\ Append(<<>>, connect) = <<connect>> /\ Append(<<>>, free) = <<free>> \o <<>>
        /\ Append(<<>>, inform) = <<inform>> \o <<>>
    BY <1>4, Pairs
  <1>6. UNCHANGED Numbers => Taken'
    BY TakenStays DEF Numbers
  <1>7. ~StartTimeSync(n) /\ ~TimeSyncEvent(n) /\ ~ProcessA2ACommand(n)
    BY <1>1, <1>2, StepNeeds DEF Waits, Clean, Silent
  <1>8. n = r
    BY <1>1, <1>2, <1>7, StepNeeds DEF Step, Waits
  <1>9. CASE DeviceFound(r)
    <2>1. /\ UNCHANGED <<chan[r], Stack(r)>> /\ UNCHANGED <<starts, indicated>> /\ ~a.found
          /\ anchor'[r] = [a EXCEPT !.found = TRUE, !.queue = <<>>, !.calls = Append(@, connect)]
          /\ Nothing(r)
          /\ taken' = [no |-> starts, data |-> a.data, queue |-> a.queue]
      BY <1>2, <1>9, SearchEffect DEF connect
    <2>2. /\ anchor'[r].found /\ anchor'[r].queue = <<>> /\ anchor'[r].calls = <<connect>>
          /\ anchor'[r].state = a.state /\ anchor'[r].handle = a.handle /\ anchor'[r].data = a.data
      <3> DEFINE c == Append(a.calls, connect)
      <3>1. c = <<connect>>
        BY <1>2, <1>5, <2>1
      <3>2. anchor'[r] = [a EXCEPT !.found = TRUE, !.queue = <<>>, !.calls = c]
        BY <2>1
      <3> HIDE DEF c
      <3> QED BY <1>3, <3>1, <3>2 DEF AnchorType
    <2>3. a.data = starts /\ a.queue = Copies(starts, indicated)
      BY <1>2, <2>1
    <2> HIDE DEF a
    <2>4. Taken'
      BY <2>1, <2>3, Counts DEF Taken
    <2>5. Waits(s)' /\ chan'[s] = <<>>
      BY <1>2, <2>1 DEF Waits, Clean, Silent, Nothing, Local, Stack
    <2>6. Searching(s, r)'
      BY <1>2, <2>1, <2>2, <2>5 DEF Searching, Stack, connect
    <2> QED BY <2>4, <2>6
  <1>10. CASE SearchFailed(r)
    <2> DEFINE stop == Plain("SearchOff")
               tell == Plain("InformFailure")
    <2>1. /\ UNCHANGED <<chan[r], Stack(r)>> /\ UNCHANGED Numbers /\ ~a.found
          /\ GivesUp(r, Append(Append(a.calls, stop), free))
      BY <1>2, <1>10, SearchEffect DEF free
    <2>2. stop \in Items(Calls) /\ tell \in Items(Commands)
      BY PlainTyped DEF Calls, Commands
    <2>3. /\ anchor'[r].state = "Idle" /\ anchor'[r].queue = <<>> /\ Says(r, tell)
          /\ anchor'[r].calls = Append(Append(<<>>, stop), free)
      BY <1>2, <2>1 DEF GivesUp
    <2> HIDE DEF stop, tell
    <2>4. /\ Append(Append(<<>>, stop), free) = <<stop>> \o (<<free>> \o <<>>)
          /\ Append(<<>>, tell) = <<tell>>
      BY <1>4, <2>2, Pairs
    <2> HIDE DEF a
    <2>5. After(r, <<>>)'
      BY <1>2, <2>1, <2>3, <2>4 DEF After, Stack, free, stop
    <2>6. Trails(r, <<>>, <<>>)'
      BY <1>2, <2>1, <2>3, <2>5 DEF Trails, Silent, Stack
    <2>7. Waits(s)' /\ chan'[s] = <<tell>>
      BY <1>2, <2>3, <2>4 DEF Waits, Clean, Silent, Says, Local, Stack
    <2> QED BY <1>6, <2>1, <2>6, <2>7 DEF Failed, tell
  <1>11. CASE Ends(r)
    <2>1. a.found /\ a.calls = <<connect>> /\ a.queue = <<>>
      BY <1>2, <1>11, StepNeeds
    <2>2. HandoverConnected(r)
      BY <1>4, <1>5, <1>11, <2>1, EndOf
    <2>3. /\ anchor'[r] = [a EXCEPT !.state = "Idle", !.device = TRUE, !.busy = FALSE,
                                    !.calls = Append(Tail(@), free)]
          /\ link'[r] = "sending" /\ ~search'[r]
          /\ UNCHANGED <<chan[r], rx[r], tx[r], ref[r]>>
          /\ Says(r, inform) /\ UNCHANGED Numbers
      BY <1>2, <2>2, EndEffect DEF free, inform
    <2>4. /\ anchor'[r].state = "Idle" /\ anchor'[r].calls = <<free>> \o <<>>
          /\ anchor'[r].queue = <<>>
      <3> DEFINE c == Append(Tail(a.calls), free)
      <3>1. c = <<free>> \o <<>>
        BY <1>5, <2>1
      <3>2. anchor'[r] = [a EXCEPT !.state = "Idle", !.device = TRUE, !.busy = FALSE, !.calls = c]
        BY <2>3
      <3> HIDE DEF c
      <3> QED BY <1>3, <2>1, <3>1, <3>2 DEF AnchorType
    <2> HIDE DEF a
    <2>5. After(r, <<>>)'
      BY <1>2, <2>3, <2>4 DEF After, free
    <2>6. /\ link[s] = "suspended" /\ Clean(s) /\ anchor[s].state = "ContextTx" /\ anchor[s].device
          /\ anchor[s].calls = <<>>
      BY <1>2 DEF Waits
    <2>7. chan'[s] = <<inform>> \o <<>> /\ UNCHANGED Local(s)
      <3>1. UNCHANGED Local(s) /\ chan'[s] = Append(chan[s], inform)
        BY <2>3 DEF Says
      <3> QED BY <1>2, <1>5, <3>1
    <2>8. Leaves(s, <<>>, <<>>)'
      BY <2>6, <2>7 DEF Leaves, Clean, Silent, Local, Stack, inform
    <2>9. Resting(r, s)'
      BY <1>2, <2>3, <2>4, <2>5, <2>8 DEF Resting, Silent, Follows
    <2> QED BY <1>6, <2>3, <2>9
  <1> QED BY <1>7, <1>8, <1>9, <1>10, <1>11 DEF Step

LEMMA FailedSteps ==
  ASSUME TypeOK, faults = 0, faults' = 0, Taken,
         NEW s \in Anchors, NEW r \in Anchors, r = Peer(s), s = Peer(r),
         Failed(s, r), NEW n \in Anchors, Step(n)
  PROVE  Taken' /\ (Failed(s, r) \/ Resuming(s, r))'
  <1> DEFINE tell == Plain("InformFailure")
             go   == Plain("Resume")
  <1>1. n = s \/ n = r
    BY PeerFacts
  <1>2. Waits(s) /\ chan[s] = <<tell>> /\ Trails(r, <<>>, <<>>)
    BY DEF Failed
  <1>3. anchor[s] \in AnchorType
    BY LocalTypes
  <1>4. tell \in Items(Commands) /\ tell.op = "InformFailure" /\ go \in Items(Calls)
    BY PlainTyped DEF Calls, Commands, Plain, Item
  <1> HIDE DEF tell, go
  <1>5. Head(<<tell>>) = tell /\ Tail(<<tell>>) = <<>> /\ Append(<<>>, go) = <<go>>
    BY <1>4, Pairs
  <1>6. UNCHANGED Numbers => Taken'
    BY TakenStays DEF Numbers
  <1>7. ~StartTimeSync(n) /\ ~TimeSyncEvent(n) /\ ~DeviceFound(n) /\ ~SearchFailed(n)
    BY <1>1, <1>2, StepNeeds DEF Waits, Clean, Trails, Silent
  <1>8. CASE n = s
    <2>1. ProcessA2ACommand(s)
      BY <1>2, <1>7, <1>8, StepNeeds DEF Step, Waits
    <2>2. OnInformFailure(s)
      BY <1>2, <1>4, <1>5, <2>1, CommandOf
    <2>3. /\ anchor'[s] = [anchor[s] EXCEPT !.state = "Idle", !.device = FALSE, !.data = 0,
                             !.queue = <<>>, !.busy = FALSE, !.calls = Append(@, go)]
          /\ chan'[s] = Tail(chan[s]) /\ UNCHANGED Stack(s) /\ Nothing(s) /\ UNCHANGED Numbers
      BY <1>2, <2>2, CommandEffect DEF Waits, Clean, go
    <2>4. /\ anchor'[s].state = "Idle" /\ anchor'[s].data = 0 /\ anchor'[s].queue = <<>>
          /\ anchor'[s].calls = <<go>> /\ chan'[s] = <<>>
      <3> DEFINE c == Append(anchor[s].calls, go)
      <3>1. c = <<go>> /\ Tail(chan[s]) = <<>>
        BY <1>2, <1>5 DEF Waits
      <3>2. anchor'[s] = [anchor[s] EXCEPT !.state = "Idle", !.device = FALSE, !.data = 0,
                            !.queue = <<>>, !.busy = FALSE, !.calls = c]
        BY <2>3
      <3> HIDE DEF c
      <3> QED BY <1>3, <2>3, <3>1, <3>2 DEF AnchorType
    <2>5. link'[s] = "suspended" /\ Clean(s)'
      BY <1>2, <2>3, <2>4 DEF Waits, Clean, Silent, Stack
    <2>6. Trails(r, <<>>, <<>>)'
      BY <1>2, <2>3 DEF Trails, Silent, After, Nothing, Local, Stack
    <2> QED BY <1>6, <2>3, <2>4, <2>5, <2>6 DEF Resuming, go
  <1>9. CASE n = r
    <2>1. Ends(r)
      BY <1>2, <1>7, <1>9, StepNeeds DEF Step, Trails
    <2>2. After(r, <<>>)' /\ Quiet(r) /\ Nothing(r) /\ UNCHANGED Numbers
      BY <1>2, <2>1, AfterEnds, StepNeeds, OpFacts DEF Trails
    <2>3. Trails(r, <<>>, <<>>)'
      BY <1>2, <2>2 DEF Trails, Silent, Quiet
    <2>4. Waits(s)' /\ chan'[s] = <<tell>>
      BY <1>2, <2>2 DEF Waits, Clean, Silent, Nothing, Local, Stack
    <2> QED BY <1>6, <2>2, <2>3, <2>4 DEF Failed, tell
  <1> QED BY <1>1, <1>8, <1>9

LEMMA ResumingSteps ==
  ASSUME TypeOK, faults = 0, faults' = 0, Taken,
         NEW s \in Anchors, NEW r \in Anchors, r = Peer(s), s = Peer(r),
         Resuming(s, r), NEW n \in Anchors, Step(n)
  PROVE  Taken' /\ (Resuming(s, r) \/ Resting(s, r))'
  <1> DEFINE go == Plain("Resume")
  <1>1. n = s \/ n = r
    BY PeerFacts
  <1>2. /\ link[s] = "suspended" /\ anchor[s].state = "Idle" /\ Clean(s) /\ chan[s] = <<>>
        /\ anchor[s].calls = <<go>> /\ Trails(r, <<>>, <<>>)
    BY DEF Resuming
  <1>3. anchor[s] \in AnchorType
    BY LocalTypes
  <1>4. go \in Items(Calls) /\ go.op = "Resume"
    BY PlainTyped DEF Calls, Plain, Item
  <1> HIDE DEF go
  <1>5. Head(<<go>>) = go /\ Tail(<<go>>) = <<>>
    BY <1>4, Pairs
  <1>6. UNCHANGED Numbers => Taken'
    BY TakenStays DEF Numbers
  <1>7. Ends(n)
    BY <1>1, <1>2, StepNeeds DEF Step, Clean, Trails, Silent
  <1>8. CASE n = s
    <2>1. ResumeTransmitComplete(s)
      BY <1>2, <1>4, <1>5, <1>7, <1>8, EndOf
    <2>2. /\ anchor'[s] = [anchor[s] EXCEPT !.calls = Tail(@)] /\ link'[s] = "sending"
          /\ UNCHANGED <<chan[s], rx[s], tx[s], search[s], ref[s]>>
          /\ Nothing(s) /\ UNCHANGED Numbers
      BY <1>2, <2>1, EndEffect
    <2>3. /\ anchor'[s].calls = <<>> /\ anchor'[s].state = "Idle"
          /\ anchor'[s].queue = anchor[s].queue /\ anchor'[s].data = anchor[s].data
      <3> DEFINE c == Tail(anchor[s].calls)
      <3>1. c = <<>>
        BY <1>2, <1>5
      <3>2. anchor'[s] = [anchor[s] EXCEPT !.calls = c]
        BY <2>2
      <3> HIDE DEF c
      <3> QED BY <1>2, <1>3, <3>1, <3>2 DEF AnchorType
    <2>4. Silent(s)' /\ After(s, <<>>)'
      BY <1>2, <2>2, <2>3 DEF Silent, After, Clean
    <2>5. Follows(r, <<>>, <<>>)'
      BY <1>2, <2>2, FollowsStays DEF Follows, Nothing
    <2> QED BY <1>2, <1>6, <2>2, <2>3, <2>4, <2>5 DEF Resting
  <1>9. CASE n = r
    <2>1. After(r, <<>>)' /\ Quiet(r) /\ Nothing(r) /\ UNCHANGED Numbers
      BY <1>2, <1>7, <1>9, AfterEnds, StepNeeds, OpFacts DEF Trails
    <2>2. Trails(r, <<>>, <<>>)'
      BY <1>2, <2>1 DEF Trails, Silent, Quiet
    <2> QED BY <1>2, <1>6, <2>1, <2>2 DEF Resuming, Clean, Silent, Nothing, Local, Stack, go
  <1> QED BY <1>1, <1>8, <1>9

-----------------------------------------------------------------------------
(* The theorems.                                                           *)

LEMMA SharingIsPhase ==
  ASSUME NEW s, NEW r, NEW i \in Nat, NEW j \in Nat
  PROVE  /\ TypeOK /\ Sharing(s, r, i, j) => Phase(s, r)
         /\ TypeOK' /\ Sharing(s, r, i, j)' => Phase(s, r)'
  <1>1. ASSUME NEW k \in 0 .. MaxPending, i \in 1 .. k + 3, j \in 0 .. i
        PROVE  i \in 1 .. MaxPending + 3 /\ j \in 0 .. MaxPending + 3
    BY <1>1, HandoverAssumption
  <1>2. ASSUME TypeOK, Sharing(s, r, i, j) PROVE Phase(s, r)
    <2>1. indicated \in 0 .. MaxPending /\ i \in 1 .. indicated + 3 /\ j \in 0 .. i
      BY <1>2, TypedParts DEF CountsTyped, Sharing
    <2>2. i \in 1 .. MaxPending + 3 /\ j \in 0 .. MaxPending + 3
      BY <1>1, <2>1
    <2> QED BY <1>2, <2>2 DEF Phase
  <1>3. ASSUME TypeOK', Sharing(s, r, i, j)' PROVE Phase(s, r)'
    <2>1. indicated' \in 0 .. MaxPending /\ i \in 1 .. indicated' + 3 /\ j \in 0 .. i
      BY <1>3, TypedParts DEF CountsTyped, Sharing
    <2>2. i \in 1 .. MaxPending + 3 /\ j \in 0 .. MaxPending + 3
      BY <1>1, <2>1
    <2> QED BY <1>3, <2>2 DEF Phase
  <1> QED BY <1>2, <1>3

\* A step without a fault stays in the phase or goes on to the next one.
LEMMA PhaseSteps ==
  ASSUME TypeOK, TypeOK', faults = 0, faults' = 0, Taken, Next,
         NEW s \in Anchors, NEW r \in Anchors, r = Peer(s), s = Peer(r), Phase(s, r)
  PROVE  Taken' /\ (Phase(s, r)' \/ (Searching(s, r) /\ Resting(r, s)'))
  <1>1. PICK n \in Anchors : Step(n)
    BY Steps
  <1>2. CASE Resting(s, r)
    BY <1>1, <1>2, RestingSteps DEF Phase
  <1>3. CASE Syncing(s, r)
    <2>1. Taken' /\ (Syncing(s, r)' \/ Sharing(s, r, 1, 0)')
      BY <1>1, <1>3, SyncingSteps
    <2>2. Sharing(s, r, 1, 0)' => Phase(s, r)'
      BY SharingIsPhase
    <2> QED BY <2>1, <2>2 DEF Phase
  <1>4. ASSUME NEW i \in Nat, NEW j \in Nat, Sharing(s, r, i, j)
        PROVE  Taken' /\ Phase(s, r)'
    <2>1. /\ Taken'
          /\ \/ Searching(s, r)' \/ Failed(s, r)'
             \/ \E p, q \in Nat : Sharing(s, r, p, q)'
      BY <1>1, <1>4, SharingSteps
    <2>2. ASSUME NEW p \in Nat, NEW q \in Nat, Sharing(s, r, p, q)' PROVE Phase(s, r)'
      BY <2>2, SharingIsPhase
    <2>3. Searching(s, r)' \/ Failed(s, r)' => Phase(s, r)'
      BY DEF Phase
    <2> QED BY <2>1, <2>2, <2>3
  <1>5. CASE Searching(s, r)
    <2>1. Taken' /\ (Searching(s, r) \/ Failed(s, r) \/ Resting(r, s))'
      BY <1>1, <1>5, SearchingSteps
    <2>2. (Searching(s, r) \/ Failed(s, r))' => Phase(s, r)'
      BY DEF Phase
    <2> QED BY <1>5, <2>1, <2>2
  <1>6. CASE Failed(s, r)
    BY <1>1, <1>6, FailedSteps DEF Phase
  <1>7. CASE Resuming(s, r)
    BY <1>1, <1>7, ResumingSteps DEF Phase
  <1>8. CASE \E i \in 1 .. MaxPending + 3, j \in 0 .. MaxPending + 3 : Sharing(s, r, i, j)
    <2>1. PICK i \in 1 .. MaxPending + 3, j \in 0 .. MaxPending + 3 : Sharing(s, r, i, j)
      BY <1>8
    <2>2. i \in Nat /\ j \in Nat
      BY HandoverAssumption
    <2> QED BY <1>4, <2>1, <2>2
  <1> QED BY <1>2, <1>3, <1>5, <1>6, <1>7, <1>8 DEF Phase

\* Faults are not forgotten.
LEMMA FaultsCounted ==
  ASSUME TypeOK, Next, faults' = 0
  PROVE  faults = 0
  <1>1. faults \in Nat
    BY TypedParts, HandoverAssumption DEF CountsTyped
  <1>2. PICK n \in Anchors :
          \/ StartTimeSync(n) \/ AppAbort(n) \/ Event(n) \/ SearchFailed(n)
          \/ InternalError(n) \/ ProcessA2ACommand(n) \/ Lose(n)
    BY DEF Next
  <1>3. ASSUME NEW ok, Count(ok) PROVE faults = 0
    BY <1>1, <1>3 DEF Count
  <1>4. CASE StartTimeSync(n) \/ AppAbort(n) \/ SearchFailed(n) \/ InternalError(n) \/ Lose(n)
    BY <1>3, <1>4, Zenon DEF StartTimeSync, AppAbort, SearchFailed, InternalError, Lose
  <1>5. CASE Event(n)
    <2>1. CASE \/ TimeSyncReceiveComplete(n) \/ TimeSyncTransmitStateChanged(n)
               \/ LlPendingData(n) \/ GetConnParamsComplete(n) \/ AnchorSearchStarted(n)
               \/ FreeComplete(n) \/ ResumeTransmitComplete(n) \/ AnchorSearchStopped(n)
               \/ HandoverConnected(n) \/ HandoverDisconnected(n)
      <3>1. faults' = faults
        BY <2>1 DEF TimeSyncReceiveComplete, TimeSyncTransmitStateChanged, LlPendingData,
             GetConnParamsComplete, AnchorSearchStarted, FreeComplete, ResumeTransmitComplete,
             AnchorSearchStopped, HandoverConnected, HandoverDisconnected
      <3> QED BY <3>1
    <2>2. CASE TimeSyncEvent(n) \/ SuspendTransmitComplete(n) \/ GetComplete(n) \/ DeviceFound(n)
      BY <1>3, <2>2, Zenon DEF TimeSyncEvent, SuspendTransmitComplete, GetComplete, DeviceFound
    <2> QED BY <1>5, <2>1, <2>2 DEF Event
  <1>6. CASE ProcessA2ACommand(n)
    <2>1. ASSUME NEW ok, NEW a, Answer(n, ok, a) PROVE faults = 0
      BY <1>3, <2>1 DEF Answer
    <2>2. CASE OnStartTimeSync(n) \/ OnStopTimeSync(n) \/ OnAnchorStartSearch(n)
      BY <2>1, <2>2, Zenon DEF OnStartTimeSync, OnStopTimeSync, OnAnchorStartSearch
    <2>3. CASE OnLlPendingData(n) \/ OnInformFailure(n)
      BY <1>3, <2>3, Zenon DEF OnLlPendingData, OnInformFailure
    <2>4. CASE OnData(n)
      <3>1. faults' = faults \/ \E ok \in Outcome("refuse"), a \in {[anchor[n] EXCEPT !.data = No(n)]} :
                                  Answer(n, ok, a)
        BY <2>4 DEF OnData
      <3> QED BY <2>1, <3>1
    <2>5. CASE OnInformConnect(n)
      <3>1. faults' = faults \/ \E ok, a : Answer(n, ok, a)
        BY <2>5 DEF OnInformConnect
      <3> QED BY <2>1, <3>1
    <2> QED BY <1>6, <2>2, <2>3, <2>4, <2>5 DEF ProcessA2ACommand
  <1> QED BY <1>2, <1>4, <1>5, <1>6

\* The invariant of all behaviours.
Course == TypeOK /\ HandoverInv

LEMMA CourseBegins == Init => Course
  <1> SUFFICES ASSUME Init PROVE Course
    OBVIOUS
  <1>1. TypeOK
    BY InitType
  <1>2. PICK s \in Anchors : link = [m \in Anchors |-> IF m = s THEN "sending" ELSE "none"]
    BY DEF Init
  <1> DEFINE r == Peer(s)
  <1>3. r \in Anchors /\ r # s
    BY PeerFacts
  <1> HIDE DEF r
  <1>4. link[s] = "sending" /\ link[r] = "none"
    BY <1>2, <1>3
  <1>5. ASSUME NEW n \in Anchors
        PROVE  /\ anchor[n] = Rested /\ chan[n] = <<>>
               /\ ~rx[n] /\ ~tx[n] /\ ~search[n] /\ ~ref[n]
    BY DEF Init
  <1>6. ASSUME NEW n \in Anchors
        PROVE  anchor[n].state = "Idle" /\ Silent(n) /\ chan[n] = <<>> /\ After(n, <<>>)
    BY <1>5 DEF Rested, Silent, After
  <1>7. Resting(s, r)
    BY <1>3, <1>4, <1>6 DEF Resting, Follows, Trails
  <1>8. Taken
    BY DEF Init, Taken
  <1> QED BY <1>1, <1>7, <1>8 DEF Course, HandoverInv, Phase, r

LEMMA CourseStays ==
  ASSUME UNCHANGED vars, HandoverInv
  PROVE  HandoverInv'
  <1>1. UNCHANGED <<anchor, chan, link, rx, tx, search, ref, faults, starts, indicated, taken>>
    BY DEF vars, stack, history
  <1>2. Script' = Script /\ Duties' = Duties
    BY <1>1 DEF Script, Duties
  <1>3. ASSUME NEW n, NEW cmds, NEW calls
        PROVE  /\ After(n, calls) => After(n, calls)'
               /\ Silent(n) => Silent(n)'
               /\ Clean(n) => Clean(n)'
               /\ Begun(n) => Begun(n)'
               /\ Waits(n) => Waits(n)'
               /\ Beacons(n) => Beacons(n)'
               /\ Trails(n, cmds, calls) => Trails(n, cmds, calls)'
               /\ Leaves(n, cmds, calls) => Leaves(n, cmds, calls)'
    BY <1>1 DEF After, Silent, Clean, Begun, Waits, Beacons, Trails, Leaves
  <1>4. ASSUME NEW n, NEW cmds, NEW calls
        PROVE  Follows(n, cmds, calls) => Follows(n, cmds, calls)'
    BY <1>3 DEF Follows
  <1>5. ASSUME NEW s, NEW r, Resting(s, r) PROVE Resting(s, r)'
    BY <1>1, <1>3, <1>4, <1>5 DEF Resting
  <1>6. ASSUME NEW s, Seeks(s) PROVE Seeks(s)'
    BY <1>1, <1>3, <1>6 DEF Seeks
  <1>7. ASSUME NEW s, NEW r, Syncing(s, r) PROVE Syncing(s, r)'
    BY <1>1, <1>3, <1>4, <1>6, <1>7 DEF Syncing
  <1>8. ASSUME NEW s, NEW r, Searching(s, r) PROVE Searching(s, r)'
    BY <1>1, <1>3, <1>8 DEF Searching
  <1>9. ASSUME NEW s, NEW r, Failed(s, r) PROVE Failed(s, r)'
    BY <1>1, <1>3, <1>9 DEF Failed
  <1>10. ASSUME NEW s, NEW r, Resuming(s, r) PROVE Resuming(s, r)'
    BY <1>1, <1>3, <1>10 DEF Resuming
  <1>11. ASSUME NEW n, NEW i PROVE (Gives(n, i) => Gives(n, i)') /\ (Takes(n, i) => Takes(n, i)')
    <2>1. Held(i)' = Held(i) /\ Asked(i)' = Asked(i)
      BY <1>1 DEF Held, Asked
    <2>2. Gives(n, i) => Gives(n, i)'
      BY <1>1, <1>2 DEF Gives
    <2>3. Takes(n, i) => Takes(n, i)'
      BY <1>1, <2>1 DEF Takes
    <2> QED BY <2>2, <2>3
  <1>12. ASSUME NEW s, NEW r, NEW i, NEW j, Sharing(s, r, i, j) PROVE Sharing(s, r, i, j)'
    BY <1>1, <1>2, <1>3, <1>11, <1>12 DEF Sharing
  <1>13. ASSUME NEW s, NEW r, Phase(s, r) PROVE Phase(s, r)'
    BY <1>5, <1>7, <1>8, <1>9, <1>10, <1>12, <1>13 DEF Phase
  <1>14. Taken => Taken'
    BY <1>1 DEF Taken
  <1> QED BY <1>1, <1>13, <1>14 DEF HandoverInv, Undisturbed

LEMMA CourseGoesOn == Course /\ [Next]_vars => Course'
  <1> SUFFICES ASSUME Course, [Next]_vars PROVE Course'
    OBVIOUS
  <1>1. TypeOK /\ TypeOK'
    BY NextType DEF Course
  <1>2. CASE UNCHANGED vars
    BY <1>1, <1>2, CourseStays DEF Course
  <1>3. ASSUME Next, faults' = 0
        PROVE  Taken' /\ \E s \in Anchors : Phase(s, Peer(s))'
    <2>1. faults = 0
      BY <1>1, <1>3, FaultsCounted
    <2>2. PICK s \in Anchors : Taken /\ Phase(s, Peer(s))
      BY <2>1 DEF Course, HandoverInv, Undisturbed
    <2> DEFINE r == Peer(s)
    <2>3. r \in Anchors /\ s = Peer(r)
      BY PeerFacts
    <2> HIDE DEF r
    <2>4. Taken' /\ (Phase(s, r)' \/ Resting(r, s)')
      BY <1>1, <1>3, <2>1, <2>2, <2>3, PhaseSteps DEF r
    <2>5. Resting(r, s)' => Phase(r, s)'
      BY DEF Phase
    <2> QED BY <2>2, <2>3, <2>4, <2>5 DEF r
  <1>4. CASE Next
    <2>1. HandoverInv'
      BY <1>3, <1>4 DEF HandoverInv, Undisturbed
    <2> QED BY <1>1, <2>1 DEF Course
  <1> QED BY <1>2, <1>4

\* A handover in which nothing but a search has failed is at every moment in one of the
\* phases of app_handover.c: at rest, syncing, handing its context over in the order of
\* Script, searching, failed or resuming, one anchor having the connection throughout.
THEOREM CourseKept == Spec => []Course
  BY CourseBegins, CourseGoesOn, PTL DEF Spec

LEMMA CourseGivesRestIsClean == Course => RestIsClean
  <1> SUFFICES ASSUME Course, faults = 0, AtRest, NEW n \in Anchors
               PROVE  /\ anchor[n].state = "Idle" /\ anchor[n].data = 0 /\ anchor[n].queue = <<>>
                      /\ ~rx[n] /\ ~tx[n] /\ ~search[n] /\ ~ref[n]
    BY DEF RestIsClean, Undisturbed
  <1>1. PICK s \in Anchors : Phase(s, Peer(s))
    BY DEF Course, HandoverInv, Undisturbed
  <1> DEFINE r == Peer(s)
  <1>2. r \in Anchors /\ (n = s \/ n = r)
    BY PeerFacts
  <1> HIDE DEF r
  <1>3. ASSUME NEW m \in Anchors
        PROVE  anchor[m].calls = <<>> /\ chan[m] = <<>> /\ ~anchor[m].busy
    BY DEF AtRest
  <1> DEFINE free   == Plain("FreeData")
             stop   == Plain("SearchOff")
             drop   == Plain("Disconnect")
             inform == Plain("InformConnect")
             go     == Plain("Resume")
  <1>4. /\ free \in Items(Calls) /\ stop \in Items(Calls) /\ drop \in Items(Calls)
        /\ inform \in Items(Commands) /\ go \in Items(Calls)
    BY PlainTyped DEF Calls, Commands
  <1> HIDE DEF free, stop, drop, inform, go
  <1>5. /\ <<free>> \o <<>> # <<>> /\ <<stop>> \o (<<free>> \o <<>>) # <<>>
        /\ <<drop>> \o <<>> # <<>> /\ <<inform>> \o <<>> # <<>> /\ <<go>> # <<>>
    <2>1. ASSUME NEW S, NEW x \in S PROVE <<x>> \o <<>> # <<>> /\ <<x>> \o <<>> = <<x>> /\ <<x>> # <<>>
      BY Pairs
    <2>2. <<stop>> \o (<<free>> \o <<>>) # <<>>
      BY <1>4, Pairs
    <2>3. ASSUME NEW x PROVE <<x>> \o <<>> # <<>> /\ <<x>> # <<>>
      <3>1. x \in {x}
        OBVIOUS
      <3> QED BY <2>1, <3>1
    <2> QED BY <2>2, <2>3
  <1>6. ASSUME NEW m \in Anchors, After(m, <<>>)
        PROVE  ~search[m] /\ ~ref[m] /\ anchor[m].data = 0
    BY <1>3, <1>5, <1>6 DEF After, free, stop
  <1>7. Resting(s, r)
    <2>1. ~Begun(s) /\ ~Waits(s)
      BY <1>3 DEF Begun, Waits
    <2>2. ~Syncing(s, r) /\ ~Searching(s, r) /\ ~Failed(s, r) /\ \A i, j : ~Sharing(s, r, i, j)
      BY <2>1 DEF Syncing, Searching, Failed, Sharing
    <2>3. ~Resuming(s, r)
      BY <1>3, <1>5 DEF Resuming, go
    <2> QED BY <1>1, <2>2, <2>3 DEF Phase, r
  <1>8. Trails(r, <<>>, <<>>)
    <2>1. ~Leaves(r, <<>>, <<>>)
      BY <1>2, <1>3, <1>5 DEF Leaves, drop, inform
    <2> QED BY <1>7, <2>1 DEF Resting, Follows
  <1> QED BY <1>2, <1>6, <1>7, <1>8 DEF Resting, Trails, Silent

\* A handover that is over, in which nothing but a search failed, leaves both anchors idle,
\* with time sync and search stopped and no data or packets kept (the ends of
\* AppHandover_GenericCallback and AppHandover_Abort), after any number of handovers.
THEOREM RestIsCleanCorrect == Spec => []RestIsClean
  BY CourseKept, CourseGivesRestIsClean, PTL

\* The connection is taken with the context of the handover it is taken in and with all the
\* packets the other anchor's link layer had left, in their number, however many those are.
THEOREM TakenWholeCorrect == Spec => []TakenWhole
  <1>1. Course => TakenWhole
    BY DEF Course, HandoverInv, Taken, TakenWhole, Copies
  <1> QED BY <1>1, CourseKept, PTL

-----------------------------------------------------------------------------
(* The anchors implement ConnectionPass.                                   *)

Owns(s, r) ==
  \/ link[s] = "sending" /\ link[r] # "sending"
  \/ link[s] = "suspended" /\ link[r] = "none"

LEMMA PhaseOwns ==
  ASSUME NEW s, NEW r
  PROVE  /\ Phase(s, r) => Owns(s, r)
         /\ Phase(s, r)' => Owns(s, r)'
  BY DEF Phase, Resting, Syncing, Sharing, Searching, Failed, Resuming, Owns, Follows, Trails,
         Leaves, Beacons, Gives, Waits

\* The owner in terms of the phase.
LEMMA OwnerIs ==
  ASSUME NEW s \in Anchors, NEW r \in Anchors, r = Peer(s)
  PROVE  /\ Owns(s, r) => owner = s /\ sending = (link[s] = "sending")
         /\ Owns(s, r)' => owner' = s /\ sending' = (link'[s] = "sending")
  <1>1. r # s /\ \A m \in Anchors : m = s \/ m = r
    BY PeerFacts
  <1>2. ASSUME Owns(s, r) PROVE owner = s /\ sending = (link[s] = "sending")
    <2>1. sending = (link[s] = "sending")
      BY <1>1, <1>2 DEF Owns, sending
    <2>2. \A n \in Anchors : link[n] = (IF sending THEN "sending" ELSE "suspended") <=> n = s
      BY <1>1, <1>2, <2>1 DEF Owns
    <2> QED BY <2>1, <2>2 DEF owner
  <1>3. ASSUME Owns(s, r)' PROVE owner' = s /\ sending' = (link'[s] = "sending")
    <2>1. sending' = (link'[s] = "sending")
      BY <1>1, <1>3 DEF Owns, sending
    <2>2. \A n \in Anchors : link'[n] = (IF sending' THEN "sending" ELSE "suspended") <=> n = s
      BY <1>1, <1>3, <2>1 DEF Owns
    <2> QED BY <2>1, <2>2 DEF owner
  <1> QED BY <1>2, <1>3

\* As long as nothing but a search fails, every step of the anchors is one of
\* ConnectionPass or leaves it where it is: one anchor at a time transmits to the device, and
\* the connection goes to the other one only while it is suspended (app_handover.c from
\* AppHandover_StartTimeSync to the disconnection of the anchor that gave it away).
THEOREM PassesConnectionCorrect == Spec => PassesConnection
  <1>1. Init => Pass!Init
    <2> SUFFICES ASSUME Init PROVE owner \in Anchors /\ sending = TRUE
      BY DEF Pass!Init
    <2>1. PICK s \in Anchors : link = [m \in Anchors |-> IF m = s THEN "sending" ELSE "none"]
      BY DEF Init
    <2> DEFINE r == Peer(s)
    <2>2. r \in Anchors /\ r # s
      BY PeerFacts
    <2> HIDE DEF r
    <2>3. Owns(s, r) /\ link[s] = "sending"
      BY <2>1, <2>2 DEF Owns
    <2>4. owner = s /\ sending = (link[s] = "sending")
      BY <2>2, <2>3, OwnerIs DEF r
    <2> QED BY <2>3, <2>4
  <1>2. Course /\ Course' /\ [Next]_vars => [faults' # 0 \/ Pass!Next]_<<owner, sending>>
    <2> SUFFICES ASSUME Course, Course', [Next]_vars, faults' = 0
                 PROVE  Pass!Next \/ UNCHANGED <<owner, sending>>
      OBVIOUS
    <2>1. CASE UNCHANGED vars
      <3>1. link' = link
        BY <2>1 DEF vars, stack
      <3> QED BY <3>1 DEF owner, sending
    <2>2. CASE Next
      <3>1. faults = 0 /\ TypeOK /\ TypeOK'
        BY <2>2, FaultsCounted DEF Course
      <3>2. PICK s \in Anchors : Taken /\ Phase(s, Peer(s))
        BY <3>1 DEF Course, HandoverInv, Undisturbed
      <3> DEFINE r == Peer(s)
      <3>3. r \in Anchors /\ r # s /\ s = Peer(r)
        BY PeerFacts
      <3> HIDE DEF r
      <3>4. Phase(s, r)' \/ (Searching(s, r) /\ Resting(r, s)')
        BY <2>2, <3>1, <3>2, <3>3, PhaseSteps DEF r
      <3>5. owner = s /\ sending = (link[s] = "sending")
        BY <3>2, <3>3, PhaseOwns, OwnerIs DEF r
      <3>6. CASE Phase(s, r)'
        <4>1. owner' = s /\ sending' = (link'[s] = "sending")
          BY <3>3, <3>6, PhaseOwns, OwnerIs DEF r
        <4> QED BY <3>5, <4>1 DEF Pass!Next, Pass!Suspend, Pass!Resume
      <3>7. CASE Searching(s, r) /\ Resting(r, s)'
        <4>1. Owns(r, s)' /\ link'[r] = "sending"
          BY <3>7 DEF Resting, Follows, Trails, Leaves, Owns
        <4>2. owner' = r /\ sending' = (link'[r] = "sending")
          BY <3>3, <4>1, OwnerIs
        <4>3. sending = FALSE
          BY <3>5, <3>7 DEF Searching, Waits
        <4>4. sending' = TRUE
          BY <4>1, <4>2
        <4> QED BY <3>3, <3>5, <4>2, <4>3, <4>4 DEF Pass!Next, Pass!Pass
      <3> QED BY <3>4, <3>6, <3>7
    <2> QED BY <2>1, <2>2
  <1> QED BY <1>1, <1>2, CourseKept, PTL DEF Spec, PassesConnection

-----------------------------------------------------------------------------
(* The connection is kept, with faults.                                    *)

\* The operations of calls or commands.
Ops(q) == {q[i].op : i \in 1 .. Len(q)}

LEMMA OpsConcat ==
  ASSUME NEW S, NEW q \in Seq(S), NEW t \in Seq(S)
  PROVE  Ops(q \o t) = Ops(q) \cup Ops(t)
  <1>1. q \o t \in Seq(S) /\ Len(q \o t) = Len(q) + Len(t) /\ Len(q) \in Nat /\ Len(t) \in Nat
    OBVIOUS
  <1>2. /\ \A i \in 1 .. Len(q) : i \in 1 .. Len(q \o t) /\ (q \o t)[i] = q[i]
        /\ \A i \in 1 .. Len(t) : i + Len(q) \in 1 .. Len(q \o t) /\ (q \o t)[i + Len(q)] = t[i]
    OBVIOUS
  <1>3. \A i \in 1 .. Len(q \o t) :
          i \in 1 .. Len(q) \/ \E j \in 1 .. Len(t) : i = j + Len(q)
    <2> SUFFICES ASSUME NEW i \in 1 .. Len(q \o t), i \notin 1 .. Len(q)
                 PROVE  \E j \in 1 .. Len(t) : i = j + Len(q)
      OBVIOUS
    <2>1. i - Len(q) \in 1 .. Len(t) /\ i = (i - Len(q)) + Len(q)
      BY <1>1
    <2> QED BY <2>1
  <1>4. Ops(q) \subseteq Ops(q \o t) /\ Ops(t) \subseteq Ops(q \o t)
    BY <1>2 DEF Ops
  <1>5. Ops(q \o t) \subseteq Ops(q) \cup Ops(t)
    BY <1>2, <1>3 DEF Ops
  <1> QED BY <1>4, <1>5

LEMMA OneOp == \A x : Ops(<<x>>) = {x.op}
  BY DEF Ops

LEMMA OpsAppend ==
  ASSUME NEW S, NEW q \in Seq(S), NEW x \in S
  PROVE  Ops(Append(q, x)) = Ops(q) \cup {x.op}
  <1>1. <<x>> \in Seq(S) /\ Append(q, x) = q \o <<x>>
    BY OneMore
  <1>2. Ops(q \o <<x>>) = Ops(q) \cup Ops(<<x>>)
    BY <1>1, OpsConcat
  <1> QED BY <1>1, <1>2, OneOp

LEMMA OpsTail ==
  ASSUME NEW S, NEW q \in Seq(S), q # <<>>
  PROVE  Ops(Tail(q)) \subseteq Ops(q) /\ Head(q).op \in Ops(q)
  <1>1. /\ Len(q) >= 1 /\ Head(q) = q[1] /\ Len(Tail(q)) = Len(q) - 1
        /\ \A i \in 1 .. Len(Tail(q)) : Tail(q)[i] = q[i + 1] /\ i + 1 \in 1 .. Len(q)
    OBVIOUS
  <1> QED BY <1>1 DEF Ops

LEMMA NoOps == Ops(<<>>) = {}
  BY DEF Ops

\* What an abort calls the stack for.
Undone == {"RxOff", "TxOff", "Resume", "SearchOff", "FreeData"}

LEMMA OpOf == \A op, no : Item(op, no).op = op /\ Plain(op).op = op
  BY DEF Item, Plain

LEMMA AbortOps ==
  ASSUME NEW a \in AnchorType, NEW n
  PROVE  Ops(Abort(a, n).calls) \subseteq Ops(a.calls) \cup Undone
  <1> DEFINE u == Undo(a)
  <1>1. u \in AnchorType /\ u.calls \in CallSeq /\ a.calls \in CallSeq
    BY UndoType, AnchorFields
  <1>2. ASSUME NEW op \in Calls, NEW q \in CallSeq
        PROVE  Ops(Append(q, Plain(op))) = Ops(q) \cup {op}
    <2>1. Plain(op) \in Items(Calls) /\ q \in Seq(Items(Calls)) /\ Plain(op).op = op
      BY PlainTyped, OpOf DEF CallSeq
    <2>2. \A c \in Items(Calls) : Ops(Append(q, c)) = Ops(q) \cup {c.op}
      BY <2>1, OpsAppend
    <2> QED BY <2>1, <2>2
  <1>3. u.calls = a.calls \/ \E op \in Undone : u.calls = Append(a.calls, Plain(op))
    BY DEF Undo, Call, AnchorType, Undone
  <1>4. Undone \subseteq Calls /\ "FreeData" \in Undone
    BY DEF Undone, Calls
  <1>5. Ops(u.calls) \subseteq Ops(a.calls) \cup Undone
    BY <1>1, <1>2, <1>3, <1>4
  <1> HIDE DEF u
  <1>6. Abort(a, n).calls = u.calls \/ Abort(a, n).calls = Append(u.calls, Plain("FreeData"))
    BY <1>1 DEF Abort, AnchorType, u
  <1> QED BY <1>1, <1>2, <1>4, <1>5, <1>6

\* State a comes from that of n, with calls C besides those of an abort.
Within(n, a, C) == a \in AnchorType /\ Ops(a.calls) \subseteq Ops(anchor[n].calls) \cup Undone \cup C

\* The commands out are O or tell of a failure.
Tells(out, O) == out \in CommandSeq /\ Ops(out) \subseteq {"InformFailure"} \cup O

LEMMA WithinStays ==
  ASSUME NEW n, NEW C, NEW a, Within(n, a, C)
  PROVE  /\ \A v \in States : Within(n, [a EXCEPT !.state = v], C)
         /\ \A v \in BOOLEAN : /\ Within(n, [a EXCEPT !.found = v], C)
                               /\ Within(n, [a EXCEPT !.device = v], C)
                               /\ Within(n, [a EXCEPT !.handle = v], C)
                               /\ Within(n, [a EXCEPT !.busy = v], C)
         /\ \A v \in Number : Within(n, [a EXCEPT !.data = v], C)
         /\ \A v \in Seq(Number) : Within(n, [a EXCEPT !.queue = v], C)
         /\ \A D : Within(n, a, C \cup D) /\ Within(n, a, D \cup C)
         /\ Within(n, Abort(a, n), C)
  <1>1. a \in AnchorType /\ Ops(a.calls) \subseteq Ops(anchor[n].calls) \cup Undone \cup C
    BY DEF Within
  <1>2. /\ \A v : /\ [a EXCEPT !.state = v].calls = a.calls /\ [a EXCEPT !.found = v].calls = a.calls
                  /\ [a EXCEPT !.device = v].calls = a.calls
                  /\ [a EXCEPT !.handle = v].calls = a.calls
                  /\ [a EXCEPT !.busy = v].calls = a.calls /\ [a EXCEPT !.data = v].calls = a.calls
                  /\ [a EXCEPT !.queue = v].calls = a.calls
    BY <1>1 DEF AnchorType
  <1>3. Abort(a, n) \in AnchorType /\ Ops(Abort(a, n).calls) \subseteq Ops(a.calls) \cup Undone
    BY <1>1, AbortType, AbortOps
  <1> QED BY <1>1, <1>2, <1>3, AnchorWith DEF Within

LEMMA WithinCall ==
  ASSUME NEW n, NEW C, NEW a, Within(n, a, C), NEW op \in Calls
  PROVE  Within(n, Call(a, op), C \cup {op})
  <1>1. a \in AnchorType /\ a.calls \in Seq(Items(Calls)) /\ Plain(op) \in Items(Calls)
    BY AnchorFields, PlainTyped DEF Within, CallSeq
  <1>2. Call(a, op) \in AnchorType /\ Call(a, op).calls = Append(a.calls, Plain(op))
    BY <1>1, CallFacts DEF AnchorType
  <1>3. \A c \in Items(Calls) : Ops(Append(a.calls, c)) = Ops(a.calls) \cup {c.op}
    BY <1>1, OpsAppend
  <1>4. Ops(Call(a, op).calls) = Ops(a.calls) \cup {op}
    BY <1>1, <1>2, <1>3, OpOf
  <1> QED BY <1>2, <1>4 DEF Within

LEMMA WithinStart ==
  ASSUME TypeOK, NEW n \in Anchors
  PROVE  /\ Within(n, anchor[n], {})
         /\ anchor[n].calls # <<>> => Within(n, Rest(n), {}) /\ Rest(n).calls = Tail(anchor[n].calls)
         /\ \A op : Completes(n, op) => op \in Ops(anchor[n].calls)
         /\ \A op : Received(n, op) => op \in Ops(chan[n])
  <1>1. /\ AnchorsTyped /\ anchor[n] \in AnchorType
        /\ anchor[n].calls \in Seq(Items(Calls)) /\ chan[n] \in Seq(Items(Commands))
    BY TypedParts, AnchorFields DEF AnchorsTyped, CallSeq, CommandSeq
  <1>2. anchor[n].calls # <<>> => /\ Ops(Tail(anchor[n].calls)) \subseteq Ops(anchor[n].calls)
                                  /\ Head(anchor[n].calls).op \in Ops(anchor[n].calls)
    BY <1>1, OpsTail
  <1>3. chan[n] # <<>> => Head(chan[n]).op \in Ops(chan[n])
    BY <1>1, OpsTail
  <1>4. anchor[n].calls # <<>> => Rest(n) \in AnchorType /\ Rest(n).calls = Tail(anchor[n].calls)
    BY <1>1, RestFacts DEF AnchorType
  <1> QED BY <1>1, <1>2, <1>3, <1>4 DEF Within, Completes, Received

\* What a step of n may add: calls C, but for those of an abort, and commands O, but for the
\* failure it may tell of.
Adds(n, C, O) ==
  /\ Ops(anchor'[n].calls) \subseteq Ops(anchor[n].calls) \cup Undone \cup C
  /\ Ops(chan'[Peer(n)]) \subseteq Ops(chan[Peer(n)]) \cup {"InformFailure"} \cup O
  /\ Ops(chan'[n]) \subseteq Ops(chan[n])
  /\ anchor'[Peer(n)].calls = anchor[Peer(n)].calls

LEMMA CommitAdds ==
  ASSUME TypeOK, NEW n \in Anchors, NEW C, NEW O, NEW a, Within(n, a, C), NEW out, Tells(out, O),
         NEW rest \in CommandSeq, Ops(rest) \subseteq Ops(chan[n]), Commit(n, a, out, rest)
  PROVE  Adds(n, C, O)
  <1> DEFINE p == Peer(n)
  <1>1. p \in Anchors /\ p # n
    BY PeerFacts
  <1>2. anchor \in [Anchors -> AnchorType] /\ chan \in [Anchors -> CommandSeq]
    BY TypedParts DEF AnchorsTyped
  <1>3. /\ anchor'[n] = a /\ anchor'[p] = anchor[p]
        /\ chan'[n] = rest /\ chan'[p] = chan[p] \o out
    BY <1>1, <1>2 DEF Commit
  <1>4. Ops(chan[p] \o out) = Ops(chan[p]) \cup Ops(out)
    BY <1>1, <1>2, OpsConcat DEF Tells, CommandSeq
  <1> QED BY <1>3, <1>4 DEF Adds, Within, Tells

LEMMA FailureOps ==
  ASSUME NEW out \in CommandSeq
  PROVE  /\ Append(out, Plain("InformFailure")) \in CommandSeq
         /\ Ops(Append(out, Plain("InformFailure"))) = Ops(out) \cup {"InformFailure"}
         /\ <<>> \in CommandSeq /\ Ops(<<>>) = {}
         /\ \A c \in Items(Commands) : <<c>> \in CommandSeq /\ Ops(<<c>>) = {c.op}
  <1>1. Plain("InformFailure") \in Items(Commands)
    BY PlainTyped DEF Commands
  <1>2. Append(out, Plain("InformFailure")) \in CommandSeq
    BY <1>1 DEF CommandSeq
  <1>3. Ops(Append(out, Plain("InformFailure"))) = Ops(out) \cup {"InformFailure"}
    <2>1. out \in Seq(Items(Commands)) /\ Plain("InformFailure").op = "InformFailure"
      BY OpOf DEF CommandSeq
    <2>2. \A c \in Items(Commands) : Ops(Append(out, c)) = Ops(out) \cup {c.op}
      BY <2>1, OpsAppend
    <2> QED BY <1>1, <2>1, <2>2
  <1>4. \A c \in Items(Commands) : <<c>> \in CommandSeq /\ Ops(<<c>>) = {c.op}
    BY OneOp DEF CommandSeq
  <1> QED BY <1>2, <1>3, <1>4, NoOps DEF CommandSeq

LEMMA TellsFacts ==
  /\ \A O : Tells(<<>>, O) /\ Tells(<<Plain("InformFailure")>>, O)
  /\ \A c \in Items(Commands) : Tells(<<c>>, {c.op})
  /\ \A out, O : Tells(out, O) => Tells(Append(out, Plain("InformFailure")), O)
  <1>1. Plain("InformFailure") \in Items(Commands) /\ Plain("InformFailure").op = "InformFailure"
    BY PlainTyped, OpOf DEF Commands
  <1> QED BY <1>1, FailureOps, NoOps, NoCommand DEF Tells

LEMMA BecomeAdds ==
  ASSUME TypeOK, NEW n \in Anchors, NEW C, NEW O, NEW a, Within(n, a, C), NEW out, Tells(out, O)
  PROVE  /\ Become(n, a, out) => Adds(n, C, O)
         /\ Fail(n, a, out) => Adds(n, C, O)
         /\ \A ok : Try(n, ok, a, out) => Adds(n, C, O)
  <1>1. chan[n] \in CommandSeq
    BY TypedParts DEF AnchorsTyped
  <1>2. ASSUME NEW b, Within(n, b, C), NEW o, Tells(o, O), Become(n, b, o) PROVE Adds(n, C, O)
    BY <1>1, <1>2, CommitAdds DEF Become
  <1>3. ASSUME Fail(n, a, out) PROVE Adds(n, C, O)
    <2>1. Within(n, Abort(a, n), C) /\ Tells(Append(out, Plain("InformFailure")), O)
      BY WithinStays, TellsFacts
    <2> QED BY <1>2, <1>3, <2>1 DEF Fail
  <1> QED BY <1>2, <1>3 DEF Try

\* A call that is tried.
LEMMA TryAdds ==
  ASSUME TypeOK, NEW n \in Anchors, NEW C, NEW O, NEW a, Within(n, a, C), NEW out, Tells(out, O),
         NEW op \in Calls, NEW ok, NEW b, Within(n, b, C),
         Try(n, ok, IF ok THEN Call(b, op) ELSE a, out)
  PROVE  Adds(n, C \cup {op}, O)
  <1>1. Within(n, Call(b, op), C \cup {op}) /\ Within(n, a, C \cup {op})
    BY WithinCall, WithinStays
  <1>2. CASE ok
    BY <1>1, <1>2, BecomeAdds DEF Try
  <1>3. CASE ~ok
    BY <1>1, <1>3, BecomeAdds DEF Try
  <1> QED BY <1>2, <1>3

LEMMA DoneAdds ==
  ASSUME TypeOK, NEW n \in Anchors, NEW C, chan[n] # <<>>, NEW a, Within(n, a, C)
  PROVE  /\ Done(n, a, <<>>) => Adds(n, C, {})
         /\ Done(n, Abort(a, n), <<>>) => Adds(n, C, {})
         /\ Done(n, Abort(a, n), <<Plain("InformFailure")>>) => Adds(n, C, {})
         /\ \A ok : Answer(n, ok, a) => Adds(n, C, {})
  <1>1. Tail(chan[n]) \in CommandSeq /\ Ops(Tail(chan[n])) \subseteq Ops(chan[n])
    <2>1. chan[n] \in Seq(Items(Commands))
      BY TypedParts DEF AnchorsTyped, CommandSeq
    <2> QED BY <2>1, OpsTail DEF CommandSeq
  <1>2. ASSUME NEW b, Within(n, b, C), NEW out, Tells(out, {}), Done(n, b, out)
        PROVE  Adds(n, C, {})
    BY <1>1, <1>2, CommitAdds DEF Done
  <1>3. Within(n, Abort(a, n), C)
    BY WithinStays
  <1> QED BY <1>2, <1>3, TellsFacts DEF Answer

\* A step of n changes the stack of n only, in the way of the call it completes.
Mild(n) ==
  /\ UNCHANGED <<link[Peer(n)], rx[Peer(n)], tx[Peer(n)], search[Peer(n)], apart>>
  /\ rx'[n] => rx[n] \/ "RxOn" \in Ops(anchor[n].calls)
  /\ tx'[n] => tx[n] \/ "TxOn" \in Ops(anchor[n].calls)
  /\ search'[n] => search[n] \/ "SearchOn" \in Ops(anchor[n].calls)
  /\ link'[n] = "none" => link[n] = "none" \/ "Disconnect" \in Ops(anchor[n].calls)

Grows(n, C, O) == Adds(n, C, O) /\ Mild(n)

\* The steps of n but for the begin of a handover, by what they add.
Growth(n) ==
  \/ Grows(n, {}, {})
  \/ rx[n] /\ Grows(n, {"Suspend"}, {"StopTimeSync"})
  \/ Completes(n, "Suspend") /\ Grows(n, {"Pending", "GetData"}, {})
  \/ Completes(n, "Pending") /\ Grows(n, {}, {"LlPendingData"})
  \/ Completes(n, "GetData") /\ Grows(n, {"GetConnParams"}, {"Data"})
  \/ Completes(n, "GetConnParams") /\ Grows(n, {}, {"AnchorStartSearch"})
  \/ search[n] /\ Grows(n, {"Connect"}, {})
  \/ Completes(n, "Connect") /\ link'[n] = "sending" /\ Grows(n, {}, {"InformConnect"})
  \/ Received(n, "StartTimeSync") /\ Grows(n, {"TxOn"}, {})
  \/ Received(n, "AnchorStartSearch") /\ Grows(n, {"SearchOn"}, {})
  \/ Received(n, "InformConnect") /\ Grows(n, {"Disconnect"}, {})

LEMMA StackMild ==
  ASSUME TypeOK, NEW n \in Anchors, UNCHANGED apart
  PROVE  /\ UNCHANGED <<link, rx, tx, search>> => Mild(n)
         /\ \A v \in BOOLEAN : v = FALSE =>
              /\ UNCHANGED <<link, tx, search>> /\ rx' = [rx EXCEPT ![n] = v] => Mild(n)
              /\ UNCHANGED <<link, rx, search>> /\ tx' = [tx EXCEPT ![n] = v] => Mild(n)
              /\ UNCHANGED <<link, rx, tx>> /\ search' = [search EXCEPT ![n] = v] => Mild(n)
         /\ \A v : v # "none" \/ v = link[n] =>
              (UNCHANGED <<rx, tx>> /\ link' = [link EXCEPT ![n] = v]
                 /\ (UNCHANGED search \/ search' = [search EXCEPT ![n] = FALSE]) => Mild(n))
  <1>1. /\ link \in [Anchors -> {"none", "sending", "suspended"}] /\ rx \in [Anchors -> BOOLEAN]
        /\ tx \in [Anchors -> BOOLEAN] /\ search \in [Anchors -> BOOLEAN]
        /\ Peer(n) \in Anchors /\ Peer(n) # n
    BY TypedParts, PeerFacts DEF StackTyped
  <1> QED BY <1>1 DEF Mild

LEMMA TimeSyncGrowth ==
  ASSUME TypeOK, NEW n \in Anchors,
         \/ TimeSyncReceiveComplete(n) \/ TimeSyncTransmitStateChanged(n) \/ TimeSyncEvent(n)
  PROVE  Growth(n)
  <1>1. /\ rx \in [Anchors -> BOOLEAN] /\ tx \in [Anchors -> BOOLEAN]
        /\ Peer(n) \in Anchors /\ Peer(n) # n
    BY TypedParts, PeerFacts DEF StackTyped
  <1>2. ASSUME NEW table \in {RxToggle, TxToggle}, Toggle(n, table), anchor[n].calls # <<>>
        PROVE  Adds(n, {}, {})
    <2>1. Within(n, Rest(n), {})
      BY <1>2, WithinStart
    <2>2. \A s \in DOMAIN table : table[s] \in States
      BY <1>2 DEF RxToggle, TxToggle, States
    <2>3. CASE Rest(n).state \in DOMAIN table
      <3>1. Within(n, [Rest(n) EXCEPT !.state = table[Rest(n).state]], {})
        BY <2>1, <2>2, <2>3, WithinStays
      <3>2. Become(n, [Rest(n) EXCEPT !.state = table[Rest(n).state]], <<>>)
        BY <1>2, <2>3 DEF Toggle
      <3> QED BY <3>1, <3>2, BecomeAdds, TellsFacts
    <2>4. CASE Rest(n).state \notin DOMAIN table
      <3>1. Fail(n, Rest(n), <<>>)
        BY <1>2, <2>4 DEF Toggle
      <3> QED BY <2>1, <3>1, BecomeAdds, TellsFacts
    <2> QED BY <2>3, <2>4
  <1>3. CASE TimeSyncReceiveComplete(n)
    <2>1. PICK on \in BOOLEAN :
            Completes(n, IF on THEN "RxOn" ELSE "RxOff") /\ rx' = [rx EXCEPT ![n] = on]
      BY <1>3 DEF TimeSyncReceiveComplete
    <2>2. Adds(n, {}, {})
      BY <1>2, <1>3, <2>1 DEF TimeSyncReceiveComplete, Completes
    <2>3. UNCHANGED <<link, tx, search, apart>>
      BY <1>3 DEF TimeSyncReceiveComplete, history
    <2>4. on => "RxOn" \in Ops(anchor[n].calls)
      BY <2>1, WithinStart
    <2>5. Mild(n)
      BY <1>1, <2>1, <2>3, <2>4 DEF Mild
    <2> QED BY <2>2, <2>5 DEF Growth, Grows
  <1>4. CASE TimeSyncTransmitStateChanged(n)
    <2>1. PICK on \in BOOLEAN :
            Completes(n, IF on THEN "TxOn" ELSE "TxOff") /\ tx' = [tx EXCEPT ![n] = on]
      BY <1>4 DEF TimeSyncTransmitStateChanged
    <2>2. Adds(n, {}, {})
      BY <1>2, <1>4, <2>1 DEF TimeSyncTransmitStateChanged, Completes
    <2>3. UNCHANGED <<link, rx, search, apart>>
      BY <1>4 DEF TimeSyncTransmitStateChanged, history
    <2>4. on => "TxOn" \in Ops(anchor[n].calls)
      BY <2>1, WithinStart
    <2>5. Mild(n)
      BY <1>1, <2>1, <2>3, <2>4 DEF Mild
    <2> QED BY <2>2, <2>5 DEF Growth, Grows
  <1>5. CASE TimeSyncEvent(n)
    <2>1. PICK ok \in Outcome("refuse") :
            Try(n, ok /\ anchor[n].device,
                IF ok /\ anchor[n].device THEN Call(anchor[n], "Suspend") ELSE anchor[n],
                <<Plain("StopTimeSync")>>)
      BY <1>5 DEF TimeSyncEvent
    <2>2. Within(n, anchor[n], {}) /\ "Suspend" \in Calls
      BY WithinStart DEF Calls
    <2>3. Tells(<<Plain("StopTimeSync")>>, {"StopTimeSync"})
      BY TellsFacts, PlainTyped, OpOf DEF Commands
    <2>4. Adds(n, {} \cup {"Suspend"}, {"StopTimeSync"})
      BY <2>1, <2>2, <2>3, TryAdds
    <2>5. rx[n] /\ rx' = [rx EXCEPT ![n] = FALSE] /\ UNCHANGED <<link, tx, search, apart>>
      BY <1>5 DEF TimeSyncEvent, history
    <2>6. {} \cup {"Suspend"} = {"Suspend"}
      OBVIOUS
    <2>7. Mild(n)
      BY <2>5, StackMild
    <2> QED BY <2>4, <2>5, <2>6, <2>7 DEF Growth, Grows
  <1> QED BY <1>3, <1>4, <1>5

LEMMA ContextGrowth ==
  ASSUME TypeOK, NEW n \in Anchors,
         \/ SuspendTransmitComplete(n) \/ LlPendingData(n) \/ GetComplete(n)
         \/ GetConnParamsComplete(n)
  PROVE  Growth(n)
  <1>1. anchor[n].calls # <<>>
    BY DEF SuspendTransmitComplete, LlPendingData, GetComplete, GetConnParamsComplete, Completes
  <1>2. /\ Within(n, Rest(n), {}) /\ Rest(n).calls = Tail(anchor[n].calls)
        /\ Rest(n) \in AnchorType /\ Tail(anchor[n].calls) \in CallSeq
        /\ Ops(Tail(anchor[n].calls)) \subseteq Ops(anchor[n].calls) \cup Undone
        /\ Rest(n).device = anchor[n].device /\ anchor[n] \in AnchorType
        /\ Head(anchor[n].calls) \in Items(Calls)
    <2>1. AnchorsTyped /\ anchor[n] \in AnchorType
      BY TypedParts DEF AnchorsTyped
    <2> QED BY <1>1, <2>1, WithinStart, RestFacts DEF Within, AnchorType
  <1>3. starts \in Number /\ 0 \in Number /\ "ContextTx" \in States
    BY TypedParts, HandoverAssumption DEF CountsTyped, Number, States
  <1>4. CASE SuspendTransmitComplete(n)
    <2> DEFINE left(k) == [i \in 1 .. k |-> Item("Pending", starts)]
               a(k) == [Rest(n) EXCEPT !.state = "ContextTx", !.calls = left(k) \o @]
               b(k) == [a(k) EXCEPT !.data = starts]
    <2>1. PICK ok \in Outcome("refuse"), k \in 0 .. MaxPending :
            Try(n, ok /\ a(k).device, IF ok /\ a(k).device THEN Call(b(k), "GetData") ELSE a(k), <<>>)
      BY <1>4 DEF SuspendTransmitComplete
    <2>2. k \in Nat /\ Item("Pending", starts) \in Items(Calls) /\ Item("Pending", starts).op = "Pending"
      BY <1>3, ItemTyped, OpOf, HandoverAssumption DEF Calls
    <2>3. left(k) \in CallSeq /\ Ops(left(k)) \subseteq {"Pending"}
      BY <2>2 DEF CallSeq, Ops
    <2>4. /\ left(k) \o Tail(anchor[n].calls) \in CallSeq
          /\ Ops(left(k) \o Tail(anchor[n].calls)) = Ops(left(k)) \cup Ops(Tail(anchor[n].calls))
      <3> HIDE DEF left
      <3>1. left(k) \in Seq(Items(Calls)) /\ Tail(anchor[n].calls) \in Seq(Items(Calls))
        BY <1>2, <2>3 DEF CallSeq
      <3>2. \A q, t \in Seq(Items(Calls)) : Ops(q \o t) = Ops(q) \cup Ops(t)
        BY OpsConcat
      <3>3. left(k) \o Tail(anchor[n].calls) \in Seq(Items(Calls))
        BY <3>1
      <3>4. Ops(left(k) \o Tail(anchor[n].calls)) = Ops(left(k)) \cup Ops(Tail(anchor[n].calls))
        BY <3>1, <3>2, Zenon
      <3> QED BY <3>3, <3>4 DEF CallSeq
    <2>5. a(k) \in AnchorType /\ a(k).calls = left(k) \o Tail(anchor[n].calls)
      BY <1>2, <2>4 DEF AnchorType, States
    <2>6. Within(n, a(k), {"Pending"})
      <3> HIDE DEF a, left
      <3> QED BY <1>2, <2>3, <2>4, <2>5 DEF Within
    <2> HIDE DEF a, left
    <2>7. Within(n, b(k), {"Pending"}) /\ "GetData" \in Calls
      BY <1>3, <2>6, WithinStays DEF Calls
    <2> HIDE DEF b
    <2>8. Adds(n, {"Pending"} \cup {"GetData"}, {})
      BY <2>1, <2>6, <2>7, TryAdds, TellsFacts
    <2>9. {"Pending"} \cup {"GetData"} = {"Pending", "GetData"}
      OBVIOUS
    <2>10. /\ Completes(n, "Suspend") /\ UNCHANGED <<rx, tx, search, apart>>
           /\ link' = [link EXCEPT ![n] = IF link[n] = "sending" THEN "suspended" ELSE link[n]]
      BY <1>4 DEF SuspendTransmitComplete
    <2>11. Mild(n)
      <3> DEFINE v == IF link[n] = "sending" THEN "suspended" ELSE link[n]
      <3>1. v # "none" \/ v = link[n]
        OBVIOUS
      <3>2. link' = [link EXCEPT ![n] = v]
        BY <2>10
      <3> HIDE DEF v
      <3> QED BY <2>10, <3>1, <3>2, StackMild
    <2> QED BY <2>8, <2>9, <2>10, <2>11 DEF Growth, Grows
  <1>5. CASE LlPendingData(n)
    <2> DEFINE out == IF anchor[n].state = "ContextTx"
                      THEN <<Item("LlPendingData", Head(anchor[n].calls).no)>> ELSE <<>>
    <2>1. Head(anchor[n].calls).no \in Number
      BY <1>2 DEF Items, Number
    <2>2. /\ Item("LlPendingData", Head(anchor[n].calls).no) \in Items(Commands)
          /\ Item("LlPendingData", Head(anchor[n].calls).no).op = "LlPendingData"
      BY <2>1, ItemTyped, OpOf DEF Commands
    <2>3. Tells(out, {"LlPendingData"})
      BY <2>2, TellsFacts
    <2>4. Become(n, Rest(n), out) /\ Completes(n, "Pending") /\ UNCHANGED <<link, rx, tx, search, apart>>
      BY <1>5 DEF LlPendingData, stack, history
    <2> HIDE DEF out
    <2>5. Adds(n, {}, {"LlPendingData"}) /\ Mild(n)
      BY <1>2, <2>3, <2>4, BecomeAdds, StackMild
    <2> QED BY <2>4, <2>5 DEF Growth, Grows
  <1>6. CASE GetComplete(n)
    <2> DEFINE a == [Rest(n) EXCEPT !.data = 0]
    <2>1. PICK ok \in Outcome("refuse") :
            Try(n, ok /\ a.device, IF ok /\ a.device THEN Call(a, "GetConnParams") ELSE a,
                <<Item("Data", anchor[n].data)>>)
      BY <1>6 DEF GetComplete
    <2>2. Within(n, a, {}) /\ "GetConnParams" \in Calls
      BY <1>2, <1>3, WithinStays DEF Calls
    <2>3. Tells(<<Item("Data", anchor[n].data)>>, {"Data"})
      <3>1. anchor[n].data \in Number
        BY <1>2, AnchorFields
      <3>2. Item("Data", anchor[n].data) \in Items(Commands) /\ Item("Data", anchor[n].data).op = "Data"
        BY <3>1, ItemTyped, OpOf DEF Commands
      <3> QED BY <3>2, TellsFacts
    <2> HIDE DEF a
    <2>4. Adds(n, {} \cup {"GetConnParams"}, {"Data"})
      BY <2>1, <2>2, <2>3, TryAdds
    <2>5. {} \cup {"GetConnParams"} = {"GetConnParams"}
      OBVIOUS
    <2>6. Completes(n, "GetData") /\ UNCHANGED <<link, rx, tx, search, apart>>
      BY <1>6 DEF GetComplete, stack, history
    <2>7. Mild(n)
      BY <2>6, StackMild
    <2> QED BY <2>4, <2>5, <2>6, <2>7 DEF Growth, Grows
  <1>7. CASE GetConnParamsComplete(n)
    <2>1. \/ Become(n, Rest(n), <<Plain("AnchorStartSearch")>>)
          \/ Fail(n, Rest(n), <<>>)
      BY <1>7 DEF GetConnParamsComplete
    <2>2. Tells(<<Plain("AnchorStartSearch")>>, {"AnchorStartSearch"})
      BY TellsFacts, PlainTyped, OpOf DEF Commands
    <2>3. Adds(n, {}, {"AnchorStartSearch"})
      BY <1>2, <2>1, <2>2, BecomeAdds, TellsFacts
    <2>4. Completes(n, "GetConnParams") /\ UNCHANGED <<link, rx, tx, search, apart>>
      BY <1>7 DEF GetConnParamsComplete, stack, history
    <2>5. Mild(n)
      BY <2>4, StackMild
    <2> QED BY <2>3, <2>4, <2>5 DEF Growth, Grows
  <1> QED BY <1>4, <1>5, <1>6, <1>7

LEMMA SearchGrowth ==
  ASSUME TypeOK, NEW n \in Anchors,
         AnchorSearchStarted(n) \/ DeviceFound(n) \/ SearchFailed(n)
  PROVE  Growth(n)
  <1>1. Within(n, anchor[n], {}) /\ anchor[n] \in AnchorType
    BY WithinStart DEF Within
  <1>2. CASE AnchorSearchStarted(n)
    <2> DEFINE a == [Rest(n) EXCEPT !.state = IF @ = "ContextRx" THEN "AnchorSearch" ELSE @]
    <2>1. PICK ok \in BOOLEAN :
            /\ search' = [search EXCEPT ![n] = @ \/ ok]
            /\ Try(n, ok, [a EXCEPT !.handle = @ \/ ok], <<>>)
      BY <1>2 DEF AnchorSearchStarted
    <2>2. Within(n, Rest(n), {}) /\ Rest(n).state \in States
      BY <1>2, WithinStart, AnchorFields DEF AnchorSearchStarted, Completes, Within
    <2>3. Within(n, a, {})
      BY <2>2, WithinStays DEF States
    <2> HIDE DEF a
    <2>4. a.handle \in BOOLEAN
      BY <2>3, AnchorFields DEF Within
    <2>5. Within(n, [a EXCEPT !.handle = @ \/ ok], {})
      BY <2>3, <2>4, WithinStays
    <2>6. Adds(n, {}, {})
      BY <2>1, <2>5, BecomeAdds, TellsFacts
    <2>7. Mild(n)
      <3>1. "SearchOn" \in Ops(anchor[n].calls) /\ UNCHANGED <<link, rx, tx, apart>>
        BY <1>2, WithinStart DEF AnchorSearchStarted, history
      <3>2. search \in [Anchors -> BOOLEAN] /\ Peer(n) \in Anchors /\ Peer(n) # n
        BY TypedParts, PeerFacts DEF StackTyped
      <3> QED BY <2>1, <3>1, <3>2 DEF Mild
    <2> QED BY <2>6, <2>7 DEF Growth, Grows
  <1>3. CASE DeviceFound(n)
    <2> DEFINE a == [anchor[n] EXCEPT !.found = TRUE, !.queue = <<>>]
    <2>1. PICK ok \in Outcome("refuse") :
            Try(n, ok /\ ref[n], IF ok /\ ref[n] THEN Call(a, "Connect") ELSE a, <<>>)
      BY <1>3 DEF DeviceFound
    <2>2. Within(n, a, {}) /\ "Connect" \in Calls
      <3>1. <<>> \in Seq(Number) /\ TRUE \in BOOLEAN
        OBVIOUS
      <3>2. Within(n, [anchor[n] EXCEPT !.found = TRUE], {})
        BY <1>1, <3>1, WithinStays
      <3> QED BY <3>1, <3>2, WithinStays DEF Calls
    <2> HIDE DEF a
    <2>3. Adds(n, {} \cup {"Connect"}, {})
      BY <2>1, <2>2, TryAdds, TellsFacts
    <2>4. {} \cup {"Connect"} = {"Connect"}
      OBVIOUS
    <2>5. search[n] /\ UNCHANGED <<link, rx, tx, search, apart>>
      BY <1>3 DEF DeviceFound, stack
    <2>6. Mild(n)
      BY <2>5, StackMild
    <2> QED BY <2>3, <2>4, <2>5, <2>6 DEF Growth, Grows
  <1>4. CASE SearchFailed(n)
    <2>1. Fail(n, anchor[n], <<>>) /\ UNCHANGED <<link, rx, tx, search, apart>>
      BY <1>4 DEF SearchFailed, stack, history
    <2>2. Adds(n, {}, {}) /\ Mild(n)
      BY <1>1, <2>1, BecomeAdds, TellsFacts, StackMild
    <2> QED BY <2>2 DEF Growth, Grows
  <1> QED BY <1>2, <1>3, <1>4

LEMMA EndGrowth ==
  ASSUME TypeOK, NEW n \in Anchors,
         \/ FreeComplete(n) \/ ResumeTransmitComplete(n) \/ AnchorSearchStopped(n)
         \/ HandoverConnected(n) \/ HandoverDisconnected(n) \/ InternalError(n)
  PROVE  Growth(n)
  <1>1. anchor[n].calls # <<>>
    BY DEF FreeComplete, ResumeTransmitComplete, AnchorSearchStopped, HandoverConnected,
           HandoverDisconnected, InternalError, Completes
  <1>2. Within(n, Rest(n), {}) /\ 0 \in Number /\ "Idle" \in States
    BY <1>1, WithinStart, HandoverAssumption DEF Number, States
  <1>3. CASE FreeComplete(n)
    <2>1. Within(n, [Rest(n) EXCEPT !.data = 0], {})
      BY <1>2, WithinStays
    <2>2. Become(n, [Rest(n) EXCEPT !.data = 0], <<>>) /\ UNCHANGED <<link, rx, tx, search, apart>>
      BY <1>3 DEF FreeComplete, history
    <2>3. Adds(n, {}, {}) /\ Mild(n)
      BY <2>1, <2>2, BecomeAdds, TellsFacts, StackMild
    <2> QED BY <2>3 DEF Growth, Grows
  <1>4. CASE ResumeTransmitComplete(n)
    <2> DEFINE v == IF link[n] = "suspended" THEN "sending" ELSE link[n]
    <2>1. /\ Become(n, Rest(n), <<>>) /\ UNCHANGED <<rx, tx, search, apart>>
          /\ link' = [link EXCEPT ![n] = v] /\ (v # "none" \/ v = link[n])
      BY <1>4 DEF ResumeTransmitComplete, history
    <2> HIDE DEF v
    <2>2. Adds(n, {}, {}) /\ Mild(n)
      BY <1>2, <2>1, BecomeAdds, TellsFacts, StackMild
    <2> QED BY <2>2 DEF Growth, Grows
  <1>5. CASE AnchorSearchStopped(n)
    <2>1. /\ Become(n, Rest(n), <<>>) /\ UNCHANGED <<link, rx, tx, apart>>
          /\ search' = [search EXCEPT ![n] = FALSE]
      BY <1>5 DEF AnchorSearchStopped, history
    <2>2. Adds(n, {}, {}) /\ Mild(n)
      BY <1>2, <2>1, BecomeAdds, TellsFacts, StackMild
    <2> QED BY <2>2 DEF Growth, Grows
  <1>6. CASE HandoverConnected(n)
    <2> DEFINE a == [Rest(n) EXCEPT !.state = "Idle", !.device = TRUE, !.busy = FALSE]
               b == IF ref[n] THEN Call(a, "FreeData") ELSE [a EXCEPT !.data = 0]
    <2>1. Within(n, a, {})
      <3>1. Within(n, [Rest(n) EXCEPT !.state = "Idle"], {})
        BY <1>2, WithinStays
      <3>2. Within(n, [Rest(n) EXCEPT !.state = "Idle", !.device = TRUE], {})
        BY <3>1, WithinStays
      <3> QED BY <3>2, WithinStays
    <2>2. Within(n, b, {})
      <3> HIDE DEF a
      <3>1. Within(n, [a EXCEPT !.data = 0], {})
        BY <1>2, <2>1, WithinStays
      <3>2. Within(n, Call(a, "FreeData"), {} \cup {"FreeData"})
        BY <2>1, WithinCall DEF Calls
      <3>3. Within(n, Call(a, "FreeData"), {})
        BY <3>2 DEF Within, Undone
      <3> QED BY <3>1, <3>3
    <2>3. /\ Become(n, b, <<Plain("InformConnect")>>) /\ UNCHANGED <<rx, tx, apart>>
          /\ link' = [link EXCEPT ![n] = "sending"] /\ search' = [search EXCEPT ![n] = FALSE]
          /\ Completes(n, "Connect")
      BY <1>6 DEF HandoverConnected, history
    <2> HIDE DEF a, b
    <2>4. Tells(<<Plain("InformConnect")>>, {"InformConnect"})
      BY TellsFacts, PlainTyped, OpOf DEF Commands
    <2>5. Adds(n, {}, {"InformConnect"}) /\ Mild(n)
      BY <2>2, <2>3, <2>4, BecomeAdds, StackMild
    <2>6. link'[n] = "sending"
      BY <2>3, TypedParts DEF StackTyped
    <2> QED BY <2>3, <2>5, <2>6 DEF Growth, Grows
  <1>7. CASE HandoverDisconnected(n)
    <2>1. /\ Become(n, [Rest(n) EXCEPT !.busy = FALSE], <<>>) /\ UNCHANGED <<rx, tx, search, apart>>
          /\ link' = [link EXCEPT ![n] = "none"] /\ Completes(n, "Disconnect")
      BY <1>7 DEF HandoverDisconnected, history
    <2>2. Within(n, [Rest(n) EXCEPT !.busy = FALSE], {})
      BY <1>2, WithinStays
    <2>3. Adds(n, {}, {})
      BY <2>1, <2>2, BecomeAdds, TellsFacts
    <2>4. Mild(n)
      <3>1. link \in [Anchors -> {"none", "sending", "suspended"}] /\ Peer(n) \in Anchors /\ Peer(n) # n
        BY TypedParts, PeerFacts DEF StackTyped
      <3> QED BY <2>1, <3>1, WithinStart DEF Mild
    <2> QED BY <2>3, <2>4 DEF Growth, Grows
  <1>8. CASE InternalError(n)
    <2>1. Fail(n, Rest(n), <<>>) /\ UNCHANGED <<link, rx, tx, search, apart>>
      BY <1>8 DEF InternalError, stack, history
    <2>2. Adds(n, {}, {}) /\ Mild(n)
      BY <1>2, <2>1, BecomeAdds, TellsFacts, StackMild
    <2> QED BY <2>2 DEF Growth, Grows
  <1> QED BY <1>3, <1>4, <1>5, <1>6, <1>7, <1>8

LEMMA CommandGrowth ==
  ASSUME TypeOK, NEW n \in Anchors, ProcessA2ACommand(n) \/ Lose(n) \/ AppAbort(n)
  PROVE  Growth(n)
  <1>1. Within(n, anchor[n], {}) /\ anchor[n] \in AnchorType /\ AnchorsTyped
    BY WithinStart, TypedParts DEF Within
  <1>2. UNCHANGED <<link, rx, tx, search, apart>> /\ Mild(n)
    <2>1. UNCHANGED <<link, rx, tx, search, apart>>
      BY DEF ProcessA2ACommand, OnStartTimeSync, OnStopTimeSync, OnLlPendingData, OnData,
             OnAnchorStartSearch, OnInformConnect, OnInformFailure, Lose, AppAbort, Answer, Done,
             stack, history
    <2> QED BY <2>1, StackMild
  <1>3. ASSUME NEW ok, NEW C, NEW a, Within(n, a, C), NEW op \in Calls,
               Answer(n, ok, IF ok THEN Call(a, op) ELSE a), chan[n] # <<>>
        PROVE  Adds(n, C \cup {op}, {})
    <2>1. Within(n, Call(a, op), C \cup {op}) /\ Within(n, a, C \cup {op})
      BY <1>3, WithinCall, WithinStays
    <2>2. CASE ok
      <3>1. Answer(n, ok, Call(a, op))
        BY <1>3, <2>2
      <3> QED BY <1>3, <2>1, <3>1, DoneAdds
    <2>3. CASE ~ok
      <3>1. Answer(n, ok, a)
        BY <1>3, <2>3
      <3> QED BY <1>3, <2>1, <3>1, DoneAdds
    <2> QED BY <2>2, <2>3
  <1> DEFINE a == [anchor[n] EXCEPT !.found = FALSE]
             b == [a EXCEPT !.busy = TRUE]
  <1>4. Within(n, a, {}) /\ Within(n, b, {})
    BY <1>1, WithinStays
  <1> HIDE DEF a, b
  <1>5. CASE OnStartTimeSync(n)
    <2>1. PICK ok \in Outcome("refuse") : Answer(n, ok, IF ok THEN Call(b, "TxOn") ELSE a)
      BY <1>5 DEF OnStartTimeSync, a, b
    <2>2. Received(n, "StartTimeSync") /\ chan[n] # <<>>
      BY <1>5 DEF OnStartTimeSync, Received
    <2>3. Adds(n, {"TxOn"}, {})
      <3>1. Within(n, Call(b, "TxOn"), {} \cup {"TxOn"}) /\ Within(n, a, {} \cup {"TxOn"})
        BY <1>4, WithinCall, WithinStays DEF Calls
      <3>2. {} \cup {"TxOn"} = {"TxOn"}
        OBVIOUS
      <3>3. Within(n, IF ok THEN Call(b, "TxOn") ELSE a, {"TxOn"})
        BY <3>1, <3>2
      <3> QED BY <2>1, <2>2, <3>3, DoneAdds
    <2> QED BY <1>2, <2>2, <2>3 DEF Growth, Grows
  <1>6. CASE OnStopTimeSync(n)
    <2>1. PICK ok \in Outcome("refuse") : Answer(n, ok, IF ok THEN Call(a, "TxOff") ELSE a)
      BY <1>6 DEF OnStopTimeSync, a
    <2>2. chan[n] # <<>> /\ "TxOff" \in Calls
      BY <1>6 DEF OnStopTimeSync, Received, Calls
    <2>3. Adds(n, {} \cup {"TxOff"}, {})
      BY <1>3, <1>4, <2>1, <2>2
    <2>4. Adds(n, {}, {})
      BY <2>3 DEF Adds, Undone
    <2> QED BY <1>2, <2>4 DEF Growth, Grows
  <1>7. CASE OnLlPendingData(n)
    <2> DEFINE c == [anchor[n] EXCEPT !.queue = Append(@, No(n))]
    <2>1. chan[n] # <<>> /\ \E ok : Done(n, IF ok THEN c ELSE anchor[n], <<>>)
      BY <1>7 DEF OnLlPendingData, Received
    <2>2. Append(anchor[n].queue, No(n)) \in Seq(Number)
      <3>1. Head(chan[n]) \in Items(Commands)
        BY <1>1, <2>1 DEF AnchorsTyped, CommandSeq
      <3>2. No(n) \in Number /\ anchor[n].queue \in Seq(Number)
        BY <1>1, <3>1, AnchorFields DEF No, Items, Number
      <3> QED BY <3>2
    <2>3. Within(n, c, {})
      BY <1>1, <2>2, WithinStays
    <2> HIDE DEF c
    <2>4. Adds(n, {}, {})
      <3>1. PICK ok : Done(n, IF ok THEN c ELSE anchor[n], <<>>)
        BY <2>1
      <3>2. Within(n, IF ok THEN c ELSE anchor[n], {})
        BY <1>1, <2>3
      <3> QED BY <2>1, <3>1, <3>2, DoneAdds
    <2> QED BY <1>2, <2>4 DEF Growth, Grows
  <1>8. CASE OnData(n)
    <2> DEFINE d == [anchor[n] EXCEPT !.data = No(n)]
    <2>1. chan[n] # <<>>
      BY <1>8 DEF OnData, Received
    <2>2. Within(n, d, {})
      <3>1. Head(chan[n]) \in Items(Commands)
        BY <1>1, <2>1 DEF AnchorsTyped, CommandSeq
      <3>2. No(n) \in Number
        BY <3>1 DEF No, Items, Number
      <3> QED BY <1>1, <3>2, WithinStays
    <2>3. \/ Done(n, Abort(anchor[n], n), <<Plain("InformFailure")>>)
          \/ \E ok : Answer(n, ok, d)
      BY <1>8 DEF OnData
    <2> HIDE DEF d
    <2>4. Adds(n, {}, {})
      BY <1>1, <2>1, <2>2, <2>3, DoneAdds
    <2> QED BY <1>2, <2>4 DEF Growth, Grows
  <1>9. CASE OnAnchorStartSearch(n)
    <2>1. PICK ok \in Outcome("refuse") :
            Answer(n, ok, IF ok THEN Call(anchor[n], "SearchOn") ELSE anchor[n])
      BY <1>9 DEF OnAnchorStartSearch
    <2>2. Received(n, "AnchorStartSearch") /\ chan[n] # <<>> /\ "SearchOn" \in Calls
      BY <1>9 DEF OnAnchorStartSearch, Received, Calls
    <2>3. Adds(n, {} \cup {"SearchOn"}, {})
      BY <1>1, <1>3, <2>1, <2>2
    <2>4. {} \cup {"SearchOn"} = {"SearchOn"}
      OBVIOUS
    <2> QED BY <1>2, <2>2, <2>3, <2>4 DEF Growth, Grows
  <1>10. CASE OnInformConnect(n)
    <2> DEFINE c == [anchor[n] EXCEPT !.state = "Idle", !.device = FALSE]
    <2>1. Within(n, c, {})
      <3>1. Within(n, [anchor[n] EXCEPT !.state = "Idle"], {})
        BY <1>1, WithinStays DEF States
      <3> QED BY <3>1, WithinStays
    <2>2. Received(n, "InformConnect") /\ chan[n] # <<>> /\ "Disconnect" \in Calls
      BY <1>10 DEF OnInformConnect, Received, Calls
    <2>3. \/ Done(n, Abort(c, n), <<Plain("InformFailure")>>)
          \/ \E ok : Answer(n, ok, IF ok THEN Call(c, "Disconnect") ELSE c)
      BY <1>10 DEF OnInformConnect
    <2> HIDE DEF c
    <2>4. Adds(n, {} \cup {"Disconnect"}, {})
      <3>1. Within(n, c, {} \cup {"Disconnect"})
        BY <2>1, WithinStays
      <3>2. CASE Done(n, Abort(c, n), <<Plain("InformFailure")>>)
        BY <2>2, <3>1, <3>2, DoneAdds
      <3>3. CASE \E ok : Answer(n, ok, IF ok THEN Call(c, "Disconnect") ELSE c)
        BY <1>3, <2>1, <2>2, <3>3
      <3> QED BY <2>3, <3>2, <3>3
    <2>5. {} \cup {"Disconnect"} = {"Disconnect"}
      OBVIOUS
    <2> QED BY <1>2, <2>2, <2>4, <2>5 DEF Growth, Grows
  <1>11. CASE OnInformFailure(n)
    <2>1. chan[n] # <<>> /\ Done(n, Abort(anchor[n], n), <<>>)
      BY <1>11 DEF OnInformFailure, Received
    <2>2. Adds(n, {}, {})
      BY <1>1, <2>1, DoneAdds
    <2> QED BY <1>2, <2>2 DEF Growth, Grows
  <1>12. CASE Lose(n)
    <2>1. chan[n] # <<>> /\ Done(n, anchor[n], <<>>)
      BY <1>12 DEF Lose
    <2>2. Adds(n, {}, {})
      BY <1>1, <2>1, DoneAdds
    <2> QED BY <1>2, <2>2 DEF Growth, Grows
  <1>13. CASE AppAbort(n)
    <2>1. Adds(n, {}, {})
      BY <1>1, <1>13, BecomeAdds, TellsFacts DEF AppAbort
    <2> QED BY <1>2, <2>1 DEF Growth, Grows
  <1> QED BY <1>5, <1>6, <1>7, <1>8, <1>9, <1>10, <1>11, <1>12, <1>13 DEF ProcessA2ACommand

\* The connection of n is dropped or may be, for all that is on its way.
Dropping(n) ==
  link[n] = "none" \/ "InformConnect" \in Ops(chan[n]) \/ "Disconnect" \in Ops(anchor[n].calls)

\* n does not search and nothing has it do so.
Giver(n) ==
  /\ Ops(chan[n]) \subseteq {"InformConnect", "InformFailure"}
  /\ "TxOn" \notin Ops(anchor[n].calls) /\ "SearchOn" \notin Ops(anchor[n].calls)
  /\ "Connect" \notin Ops(anchor[n].calls) /\ ~tx[n] /\ ~search[n]

\* n does not give the connection away and nothing has it do so.
GivingCalls == {"RxOn", "Suspend", "Pending", "GetData", "GetConnParams", "Disconnect"}
Taker(n) ==
  "InformConnect" \notin Ops(chan[n]) /\ Ops(anchor[n].calls) \cap GivingCalls = {} /\ ~rx[n]

\* s may give the connection to r, and drops it only when r has it.
OneWay(s, r) == Giver(s) /\ Taker(r) /\ (Dropping(s) => link[r] # "none")

\* Handovers that are begun apart from one another go one way at a time, whatever goes wrong.
OneWayAtATime == apart => \E s \in Anchors : OneWay(s, Peer(s))

\* A step of the anchor that gives.
LEMMA GiverStays ==
  ASSUME TypeOK, NEW s \in Anchors, OneWay(s, Peer(s)), Growth(s)
  PROVE  OneWay(s, Peer(s))'
  <1> DEFINE r == Peer(s)
  <1>1. /\ Giver(s) /\ Taker(r) /\ (Dropping(s) => link[r] # "none")
        /\ \A op : Completes(s, op) => op \in Ops(anchor[s].calls)
        /\ \A op : Received(s, op) => op \in Ops(chan[s])
    BY WithinStart DEF OneWay
  <1>2. ASSUME NEW C, NEW O, Grows(s, C, O), "InformConnect" \notin O,
               C \cap {"TxOn", "SearchOn", "Connect"} = {},
               "Disconnect" \in C => "InformConnect" \in Ops(chan[s])
        PROVE  OneWay(s, r)'
    <2>1. Giver(s)'
      BY <1>1, <1>2 DEF Giver, Grows, Adds, Mild, Undone
    <2>2. Taker(r)'
      BY <1>1, <1>2 DEF Taker, Grows, Adds, Mild, Undone, GivingCalls
    <2>3. Dropping(s)' => Dropping(s)
      BY <1>2 DEF Dropping, Grows, Adds, Mild, Undone
    <2>4. link'[r] = link[r]
      BY <1>2 DEF Grows, Mild
    <2> QED BY <1>1, <2>1, <2>2, <2>3, <2>4 DEF OneWay
  <1> QED BY <1>1, <1>2 DEF Growth, Giver

\* A step of the anchor that takes.
LEMMA TakerStays ==
  ASSUME TypeOK, NEW r \in Anchors, OneWay(Peer(r), r), Growth(r)
  PROVE  OneWay(Peer(r), r)'
  <1> DEFINE s == Peer(r)
  <1>1. /\ Giver(s) /\ Taker(r) /\ (Dropping(s) => link[r] # "none")
        /\ \A op : Completes(r, op) => op \in Ops(anchor[r].calls)
        /\ \A op : Received(r, op) => op \in Ops(chan[r])
    BY WithinStart DEF OneWay
  <1>2. ASSUME NEW C, NEW O, Grows(r, C, O), O \subseteq {"InformConnect"},
               C \cap GivingCalls = {}, "InformConnect" \in O => link'[r] # "none"
        PROVE  OneWay(s, r)'
    <2>1. Giver(s)'
      BY <1>1, <1>2 DEF Giver, Grows, Adds, Mild
    <2>2. Taker(r)'
      BY <1>1, <1>2 DEF Taker, Grows, Adds, Mild, Undone, GivingCalls
    <2>3. link[r] # "none" => link'[r] # "none"
      BY <1>1, <1>2 DEF Grows, Mild, Taker, GivingCalls
    <2>4. Dropping(s)' => Dropping(s) \/ "InformConnect" \in O
      BY <1>2 DEF Dropping, Grows, Adds, Mild
    <2> QED BY <1>1, <1>2, <2>1, <2>2, <2>3, <2>4 DEF OneWay
  <1>3. /\ {"Connect"} \cap GivingCalls = {} /\ {"TxOn"} \cap GivingCalls = {}
        /\ {"SearchOn"} \cap GivingCalls = {}
    BY DEF GivingCalls
  <1> QED BY <1>1, <1>2, <1>3 DEF Growth, Taker, GivingCalls

LEMMA StepGrowth ==
  ASSUME TypeOK, NEW n \in Anchors,
         \/ AppAbort(n) \/ Event(n) \/ SearchFailed(n) \/ InternalError(n)
         \/ ProcessA2ACommand(n) \/ Lose(n)
  PROVE  Growth(n)
  BY TimeSyncGrowth, ContextGrowth, SearchGrowth, EndGrowth, CommandGrowth DEF Event

\* A handover begun when all is calm goes from the anchor it is begun on.
LEMMA CalmBegin ==
  ASSUME TypeOK, NEW n \in Anchors, StartTimeSync(n), apart'
  PROVE  OneWay(n, Peer(n))'
  <1> DEFINE r == Peer(n)
  <1>1. /\ Calm /\ UNCHANGED <<link, rx, tx, search>> /\ link[n] = "sending"
        /\ r \in Anchors /\ r # n
    BY PeerFacts DEF StartTimeSync, stack
  <1>2. anchor[n] \in AnchorType /\ AnchorsTyped
    BY TypedParts DEF AnchorsTyped
  <1>3. /\ chan[n] = <<>> /\ chan[r] = <<>> /\ anchor[n].calls = <<>> /\ anchor[r].calls = <<>>
        /\ ~tx[n] /\ ~search[n] /\ ~rx[r]
    BY <1>1 DEF Calm
  <1> DEFINE a == [anchor[n] EXCEPT !.device = TRUE, !.found = FALSE]
             b == [a EXCEPT !.busy = TRUE]
  <1>4. a \in AnchorType /\ b \in AnchorType /\ a.calls = <<>> /\ b.calls = <<>>
    BY <1>2, <1>3, AnchorWith DEF AnchorType
  <1>5. \E ok : IF ok THEN Become(n, Call(b, "RxOn"), <<Plain("StartTimeSync")>>)
                ELSE Become(n, a, <<>>)
    BY DEF StartTimeSync
  <1> HIDE DEF a, b
  <1>6. Call(b, "RxOn").calls = <<Plain("RxOn")>>
    <2>1. Append(<<>>, Plain("RxOn")) = <<Plain("RxOn")>>
      OBVIOUS
    <2>2. Call(b, "RxOn") = [b EXCEPT !.calls = Append(b.calls, Plain("RxOn"))]
      BY <1>4, CallFacts DEF Calls
    <2> QED BY <1>4, <2>1, <2>2 DEF AnchorType
  <1>7. Ops(<<Plain("RxOn")>>) = {"RxOn"} /\ Ops(<<>>) = {}
        /\ Ops(<<Plain("StartTimeSync")>>) = {"StartTimeSync"}
    BY OneOp, NoOps, OpOf
  <1>8. /\ anchor'[r] = anchor[r] /\ chan'[n] = chan[n]
        /\ \/ anchor'[n] = a /\ chan'[r] = chan[r] \o <<>>
           \/ anchor'[n] = Call(b, "RxOn") /\ chan'[r] = chan[r] \o <<Plain("StartTimeSync")>>
    BY <1>1, <1>2, <1>5 DEF Become, Commit, AnchorsTyped
  <1>9. /\ anchor'[r].calls = <<>> /\ chan'[n] = <<>>
        /\ Ops(anchor'[n].calls) \subseteq {"RxOn"} /\ Ops(chan'[r]) \subseteq {"StartTimeSync"}
    <2>1. <<>> \o <<>> = <<>> /\ <<>> \o <<Plain("StartTimeSync")>> = <<Plain("StartTimeSync")>>
      OBVIOUS
    <2>2. chan'[r] = <<>> \/ chan'[r] = <<Plain("StartTimeSync")>>
      BY <1>3, <1>8, <2>1
    <2>3. anchor'[n].calls = <<>> \/ anchor'[n].calls = <<Plain("RxOn")>>
      BY <1>4, <1>6, <1>8
    <2> QED BY <1>3, <1>7, <1>8, <2>2, <2>3
  <1>10. Giver(n)' /\ ~Dropping(n)' /\ Taker(r)'
    BY <1>1, <1>3, <1>7, <1>9 DEF Giver, Dropping, Taker, GivingCalls
  <1> QED BY <1>10 DEF OneWay

LEMMA OneWayGoesOn == TypeOK /\ OneWayAtATime /\ [Next]_vars => OneWayAtATime'
  <1> SUFFICES ASSUME TypeOK, OneWayAtATime, [Next]_vars, apart'
               PROVE  \E s \in Anchors : OneWay(s, Peer(s))'
    BY DEF OneWayAtATime
  <1>1. CASE UNCHANGED vars
    BY <1>1 DEF OneWayAtATime, OneWay, Giver, Taker, Dropping, vars, stack, history
  <1>2. ASSUME NEW n \in Anchors, StartTimeSync(n) PROVE \E s \in Anchors : OneWay(s, Peer(s))'
    BY <1>2, CalmBegin
  <1>3. ASSUME NEW n \in Anchors, Growth(n) PROVE \E s \in Anchors : OneWay(s, Peer(s))'
    <2>1. UNCHANGED apart
      BY <1>3 DEF Growth, Grows, Mild
    <2>2. PICK s \in Anchors : OneWay(s, Peer(s))
      BY <2>1 DEF OneWayAtATime
    <2>3. CASE n = s
      BY <1>3, <2>2, <2>3, GiverStays
    <2>4. CASE n = Peer(s)
      <3>1. Peer(n) = s /\ OneWay(Peer(n), n)
        BY <2>2, <2>4, PeerFacts
      <3>2. OneWay(Peer(n), n)'
        BY <1>3, <3>1, TakerStays
      <3> QED BY <2>4, <3>1, <3>2
    <2> QED BY <2>3, <2>4, PeerFacts
  <1>4. CASE Next
    BY <1>2, <1>3, <1>4, StepGrowth DEF Next
  <1> QED BY <1>1, <1>4

LEMMA OneWayBegins == Init => OneWayAtATime
  <1> SUFFICES ASSUME Init PROVE \E s \in Anchors : OneWay(s, Peer(s))
    BY DEF OneWayAtATime
  <1>1. PICK s \in Anchors : link = [m \in Anchors |-> IF m = s THEN "sending" ELSE "none"]
    BY DEF Init
  <1>2. Peer(s) \in Anchors /\ Peer(s) # s
    BY PeerFacts
  <1>3. \A n \in Anchors : /\ chan[n] = <<>> /\ anchor[n].calls = <<>>
                           /\ ~rx[n] /\ ~tx[n] /\ ~search[n]
    BY DEF Init, Rested
  <1> QED BY <1>1, <1>2, <1>3, NoOps DEF OneWay, Giver, Taker, Dropping

\* Without faults the course of a handover has an anchor that owns the connection; the one that
\* gives it away drops it only when the other one has taken it.
LEMMA CourseAndOneWayKeep == Course /\ OneWayAtATime => Kept
  <1> SUFFICES ASSUME Course, OneWayAtATime, Undisturbed \/ apart
               PROVE  \E n \in Anchors : link[n] # "none"
    BY DEF Kept
  <1>1. CASE apart
    <2>1. PICK s \in Anchors : OneWay(s, Peer(s))
      BY <1>1 DEF OneWayAtATime
    <2> QED BY <2>1, PeerFacts DEF OneWay, Dropping
  <1>2. CASE Undisturbed
    <2>1. PICK s \in Anchors : Taken /\ Phase(s, Peer(s))
      BY <1>2 DEF Course, HandoverInv
    <2>2. Owns(s, Peer(s))
      BY <2>1, PeerFacts, PhaseOwns
    <2> QED BY <2>2 DEF Owns
  <1> QED BY <1>1, <1>2

\* The connection to the device is never dropped by both anchors: without faults, however
\* soon one handover follows another, and whatever goes wrong (refusals, errors, lost
\* commands, aborts, a device found too late) when each handover is begun with nothing left
\* of those before.
THEOREM KeptCorrect == Spec => []Kept
  <1>1. Spec => []OneWayAtATime
    BY OneWayBegins, OneWayGoesOn, TypeCorrect, PTL DEF Spec
  <1> QED BY <1>1, CourseKept, CourseAndOneWayKeep, PTL
====
