--------------------------- MODULE RepeatedAttempts ---------------------------
(***************************************************************************)
(* The list of failed pairings of ble_conn_manager.c: a peer that failed   *)
(* to pair is refused for a time that doubles with each failure.  One      *)
(* timer serves the whole list; it runs for the shortest remaining time,   *)
(* is stopped by every outcome of a pairing and started again.             *)
(*                                                                         *)
(* The list counts in seconds and the timer in milliseconds, which is what *)
(* a thousandth of the remaining time in microseconds comes to.            *)
(***************************************************************************)
EXTENDS Integers, FiniteSets

CONSTANTS Peer, NoPeer,    \* addresses, and the zeroed one of an unused entry
          NoOfDevices,     \* gRepeatedAttemptsNoOfDevices_c
          TimeoutMin, TimeoutMax,  \* gRepeatedAttemptsTimeout*_c, in seconds
          Steps,           \* milliseconds that may pass between two events
          MaxConnections

ASSUME AttemptsAssumption ==
  /\ NoPeer \notin Peer
  /\ NoOfDevices \in 1 .. 255
  /\ TimeoutMin \in Nat \ {0} /\ TimeoutMax \in Nat /\ TimeoutMax < 65535
  /\ TimeoutMin <= TimeoutMax
  /\ Steps \subseteq Nat \ {0} /\ MaxConnections \in Nat

VARIABLES
  maPairingPeers,   \* the list: an address, its time and what remains of it
  mMinTimeToWait,   \* what the timer was last started with, in seconds
  timer,            \* milliseconds left; 0: the callback is due; Off
  original,         \* maPeerDeviceOriginalAddress
  conn, pairing,    \* peers connected, and those whose pairing is under way
  outcome,          \* of a pairing whose logging has begun, or NoOutcome
  left,             \* history: milliseconds of the waits the last outcome left
  sure              \* history: those a peer must be refused since its own failure

listVars == <<maPairingPeers, mMinTimeToWait, timer>>
linkVars == <<original, conn, pairing>>
history  == <<left, sure>>
vars     == <<listVars, linkVars, outcome, history>>

Slot  == 1 .. NoOfDevices
Second == 1000
Off   == -1
Unused == [address |-> NoPeer, base |-> 0, remaining |-> 0]
NoOutcome == [peer |-> NoPeer, address |-> NoPeer, ok |-> FALSE, active |-> FALSE]
Uint16(n) == n % 65536
Sooner(m, n) == IF m <= n THEN m ELSE n
Less(n, d) == IF n > d THEN n - d ELSE 0

Init ==
  /\ maPairingPeers = [i \in Slot |-> Unused]
  /\ mMinTimeToWait = 0 /\ timer = Off
  /\ original = NoPeer /\ conn = {} /\ pairing = {}
  /\ outcome = NoOutcome
  /\ left = [p \in Peer |-> 0] /\ sure = [p \in Peer |-> 0]

-----------------------------------------------------------------------------
CheckRequest(a) ==
  \A i \in Slot : maPairingPeers[i].address = a => maPairingPeers[i].remaining = 0

UpdateTimePassed(list, seconds) ==
  [i \in Slot |-> [list[i] EXCEPT !.remaining = Less(@, seconds)]]

\* The shortest time somebody waits, or one second more than any.
IsMinTimeToWait(m, list) ==
  LET waits == {list[i].remaining : i \in Slot} \ {0}
  IN  /\ m \in waits \cup {TimeoutMax + 1}
      /\ \A w \in waits : m <= w

\* Variant: the timer still runs out when the entry it was started for did.
StartTimerFirst(list) ==
  \E m \in 1 .. TimeoutMax + 1 :
    /\ IsMinTimeToWait(m, list)
    /\ mMinTimeToWait' = m
    /\ timer' = IF m = TimeoutMax + 1 THEN Off
                ELSE IF timer > 0 THEN timer ELSE Second * m

\* The timer runs for the shortest wait, or not at all.
StartTimer(list) ==
  \E m \in 1 .. TimeoutMax + 1 :
    /\ IsMinTimeToWait(m, list)
    /\ mMinTimeToWait' = m
    /\ timer' = IF m < TimeoutMax + 1 THEN Second * m ELSE Off

\* The seconds that passed since the timer was started, as LogAttempt reckons: a
\* thousandth of the remaining microseconds is taken for seconds.
TimePassed == Uint16(mMinTimeToWait - (IF timer = Off THEN 0 ELSE timer))

First(i, S) == i \in S /\ \A j \in S : i <= j
\* Variant: a peer that may pair again is not found.
ListedWaiting(list, a) == {i \in Slot : list[i].address = a /\ list[i].remaining # 0}

Listed(list, a) == {i \in Slot : list[i].address = a}
Empty(list)     == {i \in Slot : list[i].base = 0}

Longest(list)   == {i \in Slot : \A j \in Slot : list[j].remaining <= list[i].remaining}

\* Where a peer not listed goes: the first unused entry, or that with most to wait.
NewSlot(list) == IF Empty(list) # {} THEN Empty(list) ELSE Longest(list)

Failed(base) == LET b == Sooner(2 * base, TimeoutMax)
                IN  [base |-> b, remaining |-> b]

\* Variant: the callback does not start the timer again.
TimerCbOnce ==
  /\ timer = 0
  /\ maPairingPeers' = UpdateTimePassed(maPairingPeers, mMinTimeToWait)
  /\ mMinTimeToWait' = mMinTimeToWait /\ timer' = Off
  /\ UNCHANGED <<linkVars, outcome, history>>

TimerCb ==
  /\ timer = 0
  /\ maPairingPeers' = UpdateTimePassed(maPairingPeers, mMinTimeToWait)
  /\ StartTimer(maPairingPeers')
  /\ UNCHANGED <<linkVars, outcome, history>>

\* What the list has a peer wait.
WaitOf(list, p) ==
  IF Listed(list, p) = {} THEN 0 ELSE list[CHOOSE i \in Listed(list, p) : TRUE].remaining

\* History of an outcome: the waits it leaves, and those peers must keep, by who paired
\* and not by the address logged, but for the second that reckoning in seconds may take
\* from the others, and for peers forgotten.
Recorded(list) ==
  /\ left' = [p \in Peer |-> Second * WaitOf(list, p)]
  /\ sure' = [p \in Peer |->
       CASE p = outcome.peer -> Second * WaitOf(list, outcome.address)
         [] p # outcome.peer /\ Listed(list, p) = {} -> 0
         [] p # outcome.peer /\ Listed(list, p) # {} -> Less(sure[p], Second)]

\* Whether the timer runs is tested first; its callback may still come between.
LogAttempt(p, a, ok) ==
  /\ outcome = NoOutcome
  /\ outcome' = [peer |-> p, address |-> a, ok |-> ok, active |-> timer # Off]

LogOutcome ==
  /\ outcome # NoOutcome
  /\ LET a == outcome.address
         list == IF outcome.active THEN UpdateTimePassed(maPairingPeers, TimePassed)
                 ELSE maPairingPeers
     IN  \/ /\ Listed(list, a) # {} /\ outcome.ok
            /\ \E i \in Slot : /\ First(i, Listed(list, a))
                               /\ maPairingPeers' = [list EXCEPT ![i] = Unused]
         \/ /\ Listed(list, a) # {} /\ ~outcome.ok
            /\ \E i \in Slot :
                 /\ First(i, Listed(list, a))
                 /\ LET f == Failed(list[i].base)
                    IN  maPairingPeers' = [list EXCEPT ![i] =
                          [address |-> a, base |-> f.base, remaining |-> f.remaining]]
         \/ /\ Listed(list, a) = {} /\ outcome.ok
            /\ maPairingPeers' = list
         \/ /\ Listed(list, a) = {} /\ ~outcome.ok
            /\ \E i \in Slot :
                 /\ First(i, NewSlot(list))
                 /\ maPairingPeers' = [list EXCEPT ![i] =
                      [address |-> a, base |-> TimeoutMin, remaining |-> TimeoutMin]]
  /\ StartTimer(maPairingPeers')
  /\ outcome' = NoOutcome
  /\ Recorded(maPairingPeers')
  /\ UNCHANGED linkVars

-----------------------------------------------------------------------------
(* The events that read and feed the list.  The handlers run one at a time  *)
(* in the application's task.                                               *)

Connected(p) ==
  /\ outcome = NoOutcome
  /\ p \notin conn /\ Cardinality(conn) < MaxConnections
  /\ conn' = conn \cup {p}
  /\ original' = p
  /\ UNCHANGED <<listVars, pairing, outcome, history>>

Disconnected(p) ==
  /\ outcome = NoOutcome
  /\ p \in conn
  /\ conn' = conn \ {p} /\ pairing' = pairing \ {p}
  /\ UNCHANGED <<listVars, original, outcome, history>>

\* gConnEvtPairingRequest_c of a peripheral, gConnEvtPeripheralSecurityRequest_c
\* of a central.  Whoever asks, the address checked is the last one connected.
PairingRequest(p) ==
  /\ outcome = NoOutcome
  /\ p \in conn \ pairing
  /\ CheckRequest(original)
  /\ pairing' = pairing \cup {p}
  /\ UNCHANGED <<listVars, original, conn, outcome, history>>

PairingComplete(p, ok) ==
  /\ p \in pairing
  /\ LogAttempt(p, original, ok)
  /\ pairing' = pairing \ {p}
  /\ UNCHANGED <<listVars, original, conn, history>>

\* Time passes between the handlers, up to the timer's end.
Tick(step) ==
  /\ timer # 0 /\ outcome = NoOutcome
  /\ LET d == IF timer = Off THEN step ELSE Sooner(step, timer)
     IN  /\ timer' = IF timer = Off THEN Off ELSE timer - d
         /\ left' = [p \in Peer |-> Less(left[p], d)]
         /\ sure' = [p \in Peer |-> Less(sure[p], d)]
  /\ UNCHANGED <<maPairingPeers, mMinTimeToWait, linkVars, outcome>>

Peers ==
  \E p \in Peer : \/ Connected(p) \/ Disconnected(p) \/ PairingRequest(p)
                  \/ \E ok \in BOOLEAN : PairingComplete(p, ok)

Next == Peers \/ LogOutcome \/ TimerCb \/ \E step \in Steps : Tick(step)

\* The application's task and the timer's run, and time passes however many outcomes
\* are logged in an instant; peers need do nothing.
Fairness == WF_vars(LogOutcome) /\ WF_vars(TimerCb) /\ SF_vars(\E step \in Steps : Tick(step))

Spec == Init /\ [][Next]_vars
FairSpec == Spec /\ Fairness

-----------------------------------------------------------------------------
(* Properties.                                                             *)

Entry == [address : Peer \cup {NoPeer},
          base : 0 .. TimeoutMax, remaining : 0 .. TimeoutMax]

\* Every variable has its type, and an unused entry is all zero.
TypeOK ==
  /\ maPairingPeers \in [Slot -> Entry]
  /\ mMinTimeToWait \in 0 .. TimeoutMax + 1
  /\ timer \in Off .. Second * TimeoutMax
  /\ original \in Peer \cup {NoPeer}
  /\ conn \subseteq Peer /\ pairing \subseteq conn
  /\ outcome \in [peer : Peer \cup {NoPeer}, address : Peer \cup {NoPeer},
                  ok : BOOLEAN, active : BOOLEAN]
  /\ left \in [Peer -> 0 .. Second * TimeoutMax] /\ sure \in [Peer -> 0 .. Second * TimeoutMax]

\* Whoever waits is timed: the timer runs, for no longer than anybody waits, and
\* with nobody waiting it is off (LogAttempt, TimerCb, the timer they share).
Timed ==
  LET waits == {i \in Slot : maPairingPeers[i].remaining # 0}
  IN  /\ timer = Off <=> waits = {}
      /\ \A i \in waits : mMinTimeToWait <= maPairingPeers[i].remaining
      /\ timer <= Second * mMinTimeToWait

\* A peer has one entry: an outcome finds the one that counts its failures, and
\* no second one goes on refusing a peer that paired (LogAttempt).
OneEntryEach ==
  \A i, j \in Slot : i # j /\ maPairingPeers[i].address # NoPeer =>
                       maPairingPeers[i].address # maPairingPeers[j].address

\* A wait the list holds after an outcome lasts to the millisecond, although it is one timer
\* that runs for the shortest and is started again for the next: a peer is refused
\* until its wait is over, and not any longer, unless another outcome comes between
\* (LogAttempt, TimerCb, CheckRequest).  At timer = 0 the callback is due.
RefusedExactly ==
  timer # 0 => \A p \in Peer : CheckRequest(p) <=> left[p] = 0

\* Whoever is refused is allowed again some day, if outcomes, each of which stops and
\* starts the timer, do not come for ever.
EveryWaitEnds ==
  <>[](outcome = NoOutcome) => \A p \in Peer : ~CheckRequest(p) ~> CheckRequest(p)

-----------------------------------------------------------------------------
(* What the code does not give.                                            *)

\* No pairing begins with a peer that failed until its time is over, but for the second
\* that every other outcome logged since may cost (CheckRequest: "still in the waiting
\* period"), unless a full list gave its entry to another.
RefusedUntilOver ==
  [][\A p \in Peer : p \in pairing' \ pairing => sure[p] = 0]_vars

\* No outcome of another peer makes a peer wait longer.  It does when it comes within
\* the last milliseconds of the timer, no more of them than the seconds it ran for.
NeverProlonged ==
  [][\A p \in Peer : outcome.address # p => left'[p] <= left[p]]_vars
=============================================================================
