----------------------- MODULE RepeatedAttemptsProofs -----------------------
(***************************************************************************)
(* Theorems about RepeatedAttempts for any peers, any length of the list    *)
(* and any times: the list keeps one entry for a peer, its timer runs while *)
(* anybody waits, and a wait is as long as the last outcome left it.        *)
(***************************************************************************)
EXTENDS RepeatedAttempts, FiniteSetTheorems, TLAPS

LEMMA Sizes ==
  /\ NoPeer \notin Peer /\ NoOfDevices \in Nat \ {0}
  /\ TimeoutMin \in Nat \ {0} /\ TimeoutMax \in Nat /\ TimeoutMin <= TimeoutMax
  /\ Second = 1000 /\ MaxConnections \in Nat
  /\ \A step \in Steps : step \in Nat \ {0}
  BY AttemptsAssumption DEF Second

-----------------------------------------------------------------------------
(* The list.                                                               *)

\* An entry without a time is an unused one.
EmptyIsUnused ==
  \A i \in Slot : maPairingPeers[i].base = 0 => maPairingPeers[i].address = NoPeer

\* What every step keeps.
ListInv == TypeOK /\ Timed /\ OneEntryEach /\ EmptyIsUnused

\* The list as LogAttempt finds it once it has reckoned the time passed.
Reckoned == IF outcome.active THEN UpdateTimePassed(maPairingPeers, TimePassed)
            ELSE maPairingPeers

LEMMA EntryType ==
  ASSUME NEW address \in Peer \cup {NoPeer}, NEW base \in 0 .. TimeoutMax,
         NEW remaining \in 0 .. TimeoutMax
  PROVE  [address |-> address, base |-> base, remaining |-> remaining] \in Entry
  BY DEF Entry

LEMMA EntryFields ==
  ASSUME NEW e \in Entry
  PROVE  /\ e.address \in Peer \cup {NoPeer} /\ e.base \in 0 .. TimeoutMax
         /\ e.remaining \in 0 .. TimeoutMax
  BY DEF Entry

LEMMA UnusedIsEntry == Unused \in Entry
  BY Sizes, EntryType DEF Unused

\* Time that passes shortens the waits and leaves the entries in their places.
LEMMA TimePasses ==
  ASSUME NEW list \in [Slot -> Entry], NEW seconds \in Nat
  PROVE  LET next == UpdateTimePassed(list, seconds) IN
         /\ next \in [Slot -> Entry]
         /\ \A i \in Slot :
              /\ next[i].address = list[i].address /\ next[i].base = list[i].base
              /\ next[i].remaining = IF list[i].remaining > seconds
                                     THEN list[i].remaining - seconds ELSE 0
  <1> DEFINE next == UpdateTimePassed(list, seconds)
  <1>1. \A i \in Slot :
          next[i] = [list[i] EXCEPT !.remaining = IF @ > seconds THEN @ - seconds ELSE 0]
    BY DEF UpdateTimePassed, Less
  <1>2. ASSUME NEW e \in Entry
        PROVE  LET f == [e EXCEPT !.remaining = IF @ > seconds THEN @ - seconds ELSE 0] IN
               /\ f \in Entry /\ f.address = e.address /\ f.base = e.base
               /\ f.remaining = IF e.remaining > seconds THEN e.remaining - seconds ELSE 0
    <2>1. (IF e.remaining > seconds THEN e.remaining - seconds ELSE 0) \in 0 .. TimeoutMax
      BY Sizes, EntryFields
    <2> QED BY <2>1 DEF Entry
  <1>3. next \in [Slot -> Entry]
    BY <1>1, <1>2 DEF UpdateTimePassed
  <1> QED BY <1>1, <1>2, <1>3

LEMMA TimePassedType == TypeOK => TimePassed \in Nat
  <1> SUFFICES ASSUME TypeOK PROVE TimePassed \in Nat
    OBVIOUS
  <1> DEFINE x == mMinTimeToWait - (IF timer = Off THEN 0 ELSE timer)
  <1>1. x \in Int
    BY Sizes DEF TypeOK, Off
  <1>2. \A n \in Int : n % 65536 \in Nat
    OBVIOUS
  <1> QED BY <1>1, <1>2 DEF TimePassed, Uint16

\* The reckoning leaves the entries in their places, too.
LEMMA ReckonedFacts ==
  ASSUME TypeOK
  PROVE  /\ Reckoned \in [Slot -> Entry]
         /\ \A i \in Slot : /\ Reckoned[i].address = maPairingPeers[i].address
                            /\ Reckoned[i].base = maPairingPeers[i].base
  <1>1. maPairingPeers \in [Slot -> Entry]
    BY DEF TypeOK
  <1>2. CASE outcome.active
    BY <1>1, <1>2, TimePassedType, TimePasses DEF Reckoned
  <1>3. CASE ~outcome.active
    BY <1>1, <1>3 DEF Reckoned
  <1> QED BY <1>2, <1>3

\* A timer that is started runs for the shortest wait, and does not run for no wait.
LEMMA Started ==
  ASSUME NEW list \in [Slot -> Entry], StartTimer(list)
  PROVE  /\ mMinTimeToWait' \in 1 .. TimeoutMax + 1
         /\ timer' = Off \/ (timer' = Second * mMinTimeToWait' /\ mMinTimeToWait' <= TimeoutMax)
         /\ timer' = Off <=> \A i \in Slot : list[i].remaining = 0
         /\ \A i \in Slot : list[i].remaining # 0 => mMinTimeToWait' <= list[i].remaining
  <1>1. PICK m \in 1 .. TimeoutMax + 1 :
          /\ IsMinTimeToWait(m, list) /\ mMinTimeToWait' = m
          /\ timer' = IF m < TimeoutMax + 1 THEN Second * m ELSE Off
    BY DEF StartTimer
  <1>2. \A i \in Slot : list[i].remaining \in 0 .. TimeoutMax
    BY EntryFields
  <1>3. \A i \in Slot : list[i].remaining # 0 => m <= list[i].remaining
    BY <1>1 DEF IsMinTimeToWait
  <1>4. m = TimeoutMax + 1 \/ \E i \in Slot : list[i].remaining = m
    BY <1>1 DEF IsMinTimeToWait
  <1>5. m \in 1 .. TimeoutMax + 1 /\ TimeoutMax \in Nat
    BY Sizes
  <1>6. CASE m = TimeoutMax + 1
    <2>1. timer' = Off
      BY <1>1, <1>5, <1>6
    <2>2. \A i \in Slot : list[i].remaining = 0
      BY <1>2, <1>3, <1>5, <1>6
    <2> QED BY <1>1, <1>3, <1>5, <2>1, <2>2
  <1>7. CASE m # TimeoutMax + 1
    <2>1. timer' = Second * m /\ m <= TimeoutMax /\ Second * m # Off
      <3>1. m < TimeoutMax + 1
        BY <1>5, <1>7
      <3>2. timer' = Second * m
        BY <1>1, <3>1
      <3> QED BY <1>5, <3>1, <3>2, Sizes DEF Off
    <2>2. \E i \in Slot : list[i].remaining # 0
      BY <1>4, <1>5, <1>7
    <2> QED BY <1>1, <1>3, <1>5, <2>1, <2>2
  <1> QED BY <1>6, <1>7

\* What an outcome makes of the list: the peer's entry is cleared, renewed or made, or
\* there is none and none is needed.
Cleared(i) == /\ outcome.ok /\ Reckoned[i].address = outcome.address
              /\ maPairingPeers' = [Reckoned EXCEPT ![i] = Unused]
Renewed(i) == /\ ~outcome.ok /\ Reckoned[i].address = outcome.address
              /\ \E b \in 0 .. TimeoutMax :
                   /\ b = 0 => Reckoned[i].base = 0
                   /\ maPairingPeers' = [Reckoned EXCEPT ![i] =
                        [address |-> outcome.address, base |-> b, remaining |-> b]]
Made(i)    == /\ ~outcome.ok /\ Listed(Reckoned, outcome.address) = {}
              /\ i \in NewSlot(Reckoned)
              /\ maPairingPeers' = [Reckoned EXCEPT ![i] =
                   [address |-> outcome.address, base |-> TimeoutMin, remaining |-> TimeoutMin]]
NotListed  == /\ outcome.ok /\ Listed(Reckoned, outcome.address) = {}
              /\ maPairingPeers' = Reckoned

LEMMA Logged ==
  ASSUME TypeOK, LogOutcome
  PROVE  NotListed \/ \E i \in Slot : Cleared(i) \/ Renewed(i) \/ Made(i)
  <1> DEFINE a == outcome.address
  <1>1. CASE Listed(Reckoned, a) # {} /\ outcome.ok
    <2>1. PICK i \in Slot : /\ First(i, Listed(Reckoned, a))
                            /\ maPairingPeers' = [Reckoned EXCEPT ![i] = Unused]
      BY <1>1 DEF LogOutcome, Reckoned
    <2>2. Cleared(i)
      BY <1>1, <2>1 DEF Cleared, First, Listed
    <2> QED BY <2>2
  <1>2. CASE Listed(Reckoned, a) # {} /\ ~outcome.ok
    <2>1. PICK i \in Slot :
            /\ First(i, Listed(Reckoned, a))
            /\ maPairingPeers' = [Reckoned EXCEPT ![i] =
                 [address |-> a, base |-> Failed(Reckoned[i].base).base,
                  remaining |-> Failed(Reckoned[i].base).remaining]]
      BY <1>2 DEF LogOutcome, Reckoned
    <2> DEFINE b == Sooner(2 * Reckoned[i].base, TimeoutMax)
    <2>2. b \in 0 .. TimeoutMax /\ (b = 0 => Reckoned[i].base = 0)
      <3>1. Reckoned[i].base \in 0 .. TimeoutMax
        BY ReckonedFacts, EntryFields
      <3> QED BY <3>1, Sizes DEF Sooner
    <2>3. maPairingPeers' = [Reckoned EXCEPT ![i] =
             [address |-> a, base |-> b, remaining |-> b]]
      BY <2>1 DEF Failed
    <2>4. Reckoned[i].address = a
      BY <2>1 DEF First, Listed
    <2>5. Renewed(i)
      <3> HIDE DEF b
      <3> QED BY <1>2, <2>2, <2>3, <2>4 DEF Renewed
    <2> QED BY <2>5
  <1>3. CASE Listed(Reckoned, a) = {} /\ outcome.ok
    BY <1>3 DEF LogOutcome, Reckoned, NotListed
  <1>4. CASE Listed(Reckoned, a) = {} /\ ~outcome.ok
    <2>1. PICK i \in Slot :
            /\ First(i, NewSlot(Reckoned))
            /\ maPairingPeers' = [Reckoned EXCEPT ![i] =
                 [address |-> a, base |-> TimeoutMin, remaining |-> TimeoutMin]]
      BY <1>4 DEF LogOutcome, Reckoned
    <2> QED BY <1>4, <2>1 DEF Made, First
  <1> QED BY <1>1, <1>2, <1>3, <1>4

\* The list an outcome leaves: at most one entry differs from what was reckoned, and it is
\* a peer's own, or unused.
LEMMA ListAfter ==
  ASSUME ListInv, LogOutcome
  PROVE  /\ maPairingPeers' \in [Slot -> Entry] /\ OneEntryEach' /\ EmptyIsUnused'
         /\ ~outcome.ok => Listed(maPairingPeers', outcome.address) # {}
  <1>1. /\ Reckoned \in [Slot -> Entry]
        /\ \A i \in Slot : /\ Reckoned[i].address = maPairingPeers[i].address
                           /\ Reckoned[i].base = maPairingPeers[i].base
    BY ReckonedFacts DEF ListInv
  <1>2. /\ \A i, j \in Slot : i # j /\ Reckoned[i].address # NoPeer =>
                                Reckoned[i].address # Reckoned[j].address
        /\ \A i \in Slot : Reckoned[i].base = 0 => Reckoned[i].address = NoPeer
    BY <1>1 DEF ListInv, OneEntryEach, EmptyIsUnused
  <1>3. outcome.address \in Peer \cup {NoPeer}
    BY DEF ListInv, TypeOK
  <1>4. CASE NotListed
    BY <1>1, <1>2, <1>4 DEF NotListed, OneEntryEach, EmptyIsUnused
  <1>5. ASSUME NEW i \in Slot, NEW e \in Entry, maPairingPeers' = [Reckoned EXCEPT ![i] = e],
               \/ e = Unused
               \/ \A j \in Slot : j # i => e.address # Reckoned[j].address
               \/ e.address = Reckoned[i].address,
               e.base = 0 => e.address = NoPeer
        PROVE  maPairingPeers' \in [Slot -> Entry] /\ OneEntryEach' /\ EmptyIsUnused'
    <2>1. /\ maPairingPeers' \in [Slot -> Entry] /\ maPairingPeers'[i] = e
          /\ \A j \in Slot : j # i => maPairingPeers'[j] = Reckoned[j]
      BY <1>1, <1>5
    <2>2. EmptyIsUnused'
      BY <1>2, <1>5, <2>1 DEF EmptyIsUnused
    <2>3. ASSUME NEW j \in Slot, j # i, e.address # NoPeer \/ Reckoned[j].address # NoPeer
          PROVE  e.address # Reckoned[j].address
      BY <1>2, <1>5, <2>3 DEF Unused
    <2>4. OneEntryEach'
      BY <1>2, <2>1, <2>3 DEF OneEntryEach
    <2> QED BY <2>1, <2>2, <2>4
  <1>6. ASSUME NEW i \in Slot, Cleared(i) \/ Renewed(i) \/ Made(i)
        PROVE  /\ maPairingPeers' \in [Slot -> Entry] /\ OneEntryEach' /\ EmptyIsUnused'
               /\ ~outcome.ok => Listed(maPairingPeers', outcome.address) # {}
    <2>1. CASE Cleared(i)
      BY <1>5, <2>1, UnusedIsEntry DEF Cleared, Unused
    <2>2. CASE Renewed(i)
      <3>1. PICK b \in 0 .. TimeoutMax :
              /\ b = 0 => Reckoned[i].base = 0
              /\ maPairingPeers' = [Reckoned EXCEPT ![i] =
                   [address |-> outcome.address, base |-> b, remaining |-> b]]
        BY <2>2 DEF Renewed
      <3>2. Reckoned[i].address = outcome.address
        BY <2>2 DEF Renewed
      <3> DEFINE e == [address |-> outcome.address, base |-> b, remaining |-> b]
      <3>3. e \in Entry /\ e.address = Reckoned[i].address /\ (e.base = 0 => e.address = NoPeer)
        BY <1>2, <1>3, <3>1, <3>2, EntryType
      <3>4. e.address = outcome.address
        OBVIOUS
      <3> HIDE DEF e
      <3>5. maPairingPeers' = [Reckoned EXCEPT ![i] = e]
        BY <3>1 DEF e
      <3>6. i \in Listed(maPairingPeers', outcome.address)
        BY <1>1, <3>4, <3>5 DEF Listed
      <3> QED BY <1>5, <3>3, <3>5, <3>6
    <2>3. CASE Made(i)
      <3> DEFINE e == [address |-> outcome.address, base |-> TimeoutMin,
                       remaining |-> TimeoutMin]
      <3>1. TimeoutMin \in 0 .. TimeoutMax /\ TimeoutMin # 0
        BY Sizes
      <3>2. e \in Entry /\ e.base # 0 /\ e.address = outcome.address
        BY <1>3, <3>1, EntryType
      <3> HIDE DEF e
      <3>3. maPairingPeers' = [Reckoned EXCEPT ![i] = e]
        BY <2>3 DEF Made, e
      <3>4. \A j \in Slot : e.address # Reckoned[j].address
        BY <2>3, <3>2 DEF Made, Listed
      <3>5. i \in Listed(maPairingPeers', outcome.address)
        BY <1>1, <3>2, <3>3 DEF Listed
      <3> QED BY <1>5, <3>2, <3>3, <3>4, <3>5
    <2> QED BY <1>6, <2>1, <2>2, <2>3
  <1>7. CASE NotListed /\ ~outcome.ok
    BY <1>7 DEF NotListed
  <1>8. TypeOK
    BY DEF ListInv
  <1> QED BY <1>4, <1>6, <1>7, <1>8, Logged

-----------------------------------------------------------------------------
(* Types, the timer and one entry for each peer.                            *)

Ticks == [Peer -> 0 .. Second * TimeoutMax]

LEMMA StartedTimed ==
  ASSUME maPairingPeers' \in [Slot -> Entry], StartTimer(maPairingPeers')
  PROVE  /\ Timed' /\ mMinTimeToWait' \in 0 .. TimeoutMax + 1
         /\ timer' \in Off .. Second * TimeoutMax
  <1>1. /\ mMinTimeToWait' \in 1 .. TimeoutMax + 1
        /\ timer' = Off \/ (timer' = Second * mMinTimeToWait' /\ mMinTimeToWait' <= TimeoutMax)
        /\ timer' = Off <=> \A i \in Slot : maPairingPeers'[i].remaining = 0
        /\ \A i \in Slot : maPairingPeers'[i].remaining # 0 =>
                             mMinTimeToWait' <= maPairingPeers'[i].remaining
    BY Started
  <1>2. timer' <= Second * mMinTimeToWait'
    BY <1>1, Sizes DEF Off
  <1>3. timer' \in Off .. Second * TimeoutMax
    BY <1>1, Sizes DEF Off
  <1>4. Timed'
    BY <1>1, <1>2, Zenon DEF Timed
  <1>5. mMinTimeToWait' \in 0 .. TimeoutMax + 1
    BY <1>1, Sizes
  <1> QED BY <1>3, <1>4, <1>5

LEMMA WaitOfType ==
  ASSUME NEW list \in [Slot -> Entry], NEW p
  PROVE  WaitOf(list, p) \in 0 .. TimeoutMax
  <1>1. CASE Listed(list, p) = {}
    BY <1>1, Sizes DEF WaitOf
  <1>2. CASE Listed(list, p) # {}
    <2> DEFINE i == CHOOSE j \in Listed(list, p) : TRUE
    <2>1. i \in Slot
      BY <1>2 DEF Listed
    <2>2. WaitOf(list, p) = list[i].remaining
      BY <1>2 DEF WaitOf
    <2> HIDE DEF i
    <2> QED BY <2>1, <2>2, EntryFields
  <1> QED BY <1>1, <1>2

LEMMA LessType ==
  ASSUME NEW m \in Nat, NEW n \in 0 .. m, NEW d \in Nat
  PROVE  Less(n, d) \in 0 .. m
  BY DEF Less

LEMMA RecordedType ==
  ASSUME ListInv, LogOutcome
  PROVE  left' \in Ticks /\ sure' \in Ticks
  <1> DEFINE list == maPairingPeers'
             w(p) == Second * WaitOf(list, p)
             s(p) == CASE p = outcome.peer -> w(outcome.address)
                       [] p # outcome.peer /\ Listed(list, p) = {} -> 0
                       [] p # outcome.peer /\ Listed(list, p) # {} -> Less(sure[p], Second)
  <1>1. \A p : w(p) \in 0 .. Second * TimeoutMax
    <2> SUFFICES ASSUME NEW p PROVE w(p) \in 0 .. Second * TimeoutMax
      OBVIOUS
    <2>1. WaitOf(list, p) \in 0 .. TimeoutMax
      BY ListAfter, WaitOfType
    <2> QED BY <2>1, Sizes
  <1>2. left' = [p \in Peer |-> w(p)] /\ sure' = [p \in Peer |-> s(p)]
    BY DEF LogOutcome, Recorded
  <1>3. sure \in Ticks
    BY DEF ListInv, TypeOK, Ticks
  <1>4. \A p \in Peer : Less(sure[p], Second) \in 0 .. Second * TimeoutMax
    <2>1. Second * TimeoutMax \in Nat /\ Second \in Nat
      BY Sizes
    <2>2. \A p \in Peer : sure[p] \in 0 .. Second * TimeoutMax
      BY <1>3 DEF Ticks
    <2> QED BY <2>1, <2>2, LessType
  <1>5. 0 \in 0 .. Second * TimeoutMax
    BY Sizes
  <1> HIDE DEF w
  <1>6. \A p \in Peer : s(p) \in 0 .. Second * TimeoutMax
    BY <1>1, <1>4, <1>5
  <1> HIDE DEF s
  <1> QED BY <1>1, <1>2, <1>6 DEF Ticks

LEMMA ListLogged == ListInv /\ LogOutcome => ListInv'
  <1> SUFFICES ASSUME ListInv, LogOutcome PROVE ListInv'
    OBVIOUS
  <1>1. maPairingPeers' \in [Slot -> Entry] /\ OneEntryEach' /\ EmptyIsUnused'
    BY ListAfter
  <1>2. StartTimer(maPairingPeers')
    BY DEF LogOutcome
  <1>3. /\ Timed' /\ mMinTimeToWait' \in 0 .. TimeoutMax + 1
        /\ timer' \in Off .. Second * TimeoutMax
    BY <1>1, <1>2, StartedTimed
  <1>4. outcome' = NoOutcome /\ UNCHANGED <<original, conn, pairing>>
    BY DEF LogOutcome, linkVars
  <1>5. left' \in Ticks /\ sure' \in Ticks
    BY RecordedType
  <1> QED BY <1>1, <1>3, <1>4, <1>5 DEF ListInv, TypeOK, NoOutcome, Ticks

\* The callback shortens the waits by what the timer was started with.
LEMMA CallbackFacts ==
  ASSUME TypeOK, TimerCb
  PROVE  /\ maPairingPeers' \in [Slot -> Entry]
         /\ \A i \in Slot :
              /\ maPairingPeers'[i].address = maPairingPeers[i].address
              /\ maPairingPeers'[i].base = maPairingPeers[i].base
              /\ maPairingPeers'[i].remaining =
                   IF maPairingPeers[i].remaining > mMinTimeToWait
                   THEN maPairingPeers[i].remaining - mMinTimeToWait ELSE 0
         /\ StartTimer(maPairingPeers') /\ timer = 0
         /\ UNCHANGED <<original, conn, pairing, outcome, left, sure>>
  <1>1. maPairingPeers \in [Slot -> Entry] /\ mMinTimeToWait \in Nat
    BY Sizes DEF TypeOK
  <1>2. maPairingPeers' = UpdateTimePassed(maPairingPeers, mMinTimeToWait)
    BY DEF TimerCb
  <1> QED BY <1>1, <1>2, TimePasses DEF TimerCb, linkVars, history

LEMMA ListCalledBack == ListInv /\ TimerCb => ListInv'
  <1> SUFFICES ASSUME ListInv, TimerCb PROVE ListInv'
    OBVIOUS
  <1>0. TypeOK
    BY DEF ListInv
  <1>1. /\ maPairingPeers' \in [Slot -> Entry]
        /\ \A i \in Slot : /\ maPairingPeers'[i].address = maPairingPeers[i].address
                           /\ maPairingPeers'[i].base = maPairingPeers[i].base
        /\ StartTimer(maPairingPeers')
        /\ UNCHANGED <<original, conn, pairing, outcome, left, sure>>
    BY <1>0, CallbackFacts
  <1>2. /\ Timed' /\ mMinTimeToWait' \in 0 .. TimeoutMax + 1
        /\ timer' \in Off .. Second * TimeoutMax
    BY <1>1, StartedTimed
  <1>3. OneEntryEach' /\ EmptyIsUnused'
    BY <1>1 DEF ListInv, OneEntryEach, EmptyIsUnused
  <1> QED BY <1>1, <1>2, <1>3 DEF ListInv, TypeOK

\* No more time passes than the timer has left.
LEMMA TickFacts ==
  ASSUME TypeOK, NEW step \in Steps, Tick(step)
  PROVE  \E d \in Nat :
           /\ timer # Off => d <= timer
           /\ timer' = IF timer = Off THEN Off ELSE timer - d
           /\ left' = [p \in Peer |-> Less(left[p], d)]
           /\ sure' = [p \in Peer |-> Less(sure[p], d)]
  <1> DEFINE d == IF timer = Off THEN step ELSE Sooner(step, timer)
  <1>1. timer \in Off .. Second * TimeoutMax /\ step \in Nat
    BY Sizes DEF TypeOK
  <1>2. d \in Nat /\ (timer # Off => d <= timer)
    BY <1>1, Sizes DEF Sooner, Off
  <1>3. /\ timer' = IF timer = Off THEN Off ELSE timer - d
        /\ left' = [p \in Peer |-> Less(left[p], d)]
        /\ sure' = [p \in Peer |-> Less(sure[p], d)]
    BY DEF Tick
  <1> HIDE DEF d
  <1> QED BY <1>2, <1>3

LEMMA ListTicks == \A step \in Steps : ListInv /\ Tick(step) => ListInv'
  <1> SUFFICES ASSUME NEW step \in Steps, ListInv, Tick(step) PROVE ListInv'
    OBVIOUS
  <1>1. UNCHANGED <<maPairingPeers, mMinTimeToWait, original, conn, pairing, outcome>>
    BY DEF Tick, linkVars
  <1>2. PICK d \in Nat :
          /\ timer # Off => d <= timer
          /\ timer' = IF timer = Off THEN Off ELSE timer - d
          /\ left' = [p \in Peer |-> Less(left[p], d)]
          /\ sure' = [p \in Peer |-> Less(sure[p], d)]
    BY TickFacts DEF ListInv
  <1>3. /\ timer' \in Off .. Second * TimeoutMax /\ timer' <= timer
        /\ timer' = Off <=> timer = Off
    <2>1. timer \in Off .. Second * TimeoutMax
      BY DEF ListInv, TypeOK
    <2> QED BY <1>2, <2>1, Sizes DEF Off
  <1>4. Timed'
    <2>1. mMinTimeToWait \in Nat /\ timer \in Int
      BY Sizes DEF ListInv, TypeOK, Off
    <2>2. timer <= Second * mMinTimeToWait
      BY DEF ListInv, Timed
    <2>3. timer' <= Second * mMinTimeToWait'
      BY <1>1, <1>3, <2>1, <2>2, Sizes DEF Off
    <2> QED BY <1>1, <1>3, <2>3 DEF ListInv, Timed
  <1>5. left' \in Ticks /\ sure' \in Ticks
    <2>1. left \in Ticks /\ sure \in Ticks /\ Second * TimeoutMax \in Nat
      BY Sizes DEF ListInv, TypeOK, Ticks
    <2> QED BY <1>2, <2>1, LessType DEF Ticks
  <1>6. OneEntryEach' /\ EmptyIsUnused'
    BY <1>1 DEF ListInv, OneEntryEach, EmptyIsUnused
  <1> QED BY <1>1, <1>3, <1>4, <1>5, <1>6 DEF ListInv, TypeOK, Ticks

LEMMA ListPeers == ListInv /\ Peers => ListInv'
  <1> SUFFICES ASSUME ListInv, NEW p \in Peer,
                      \/ Connected(p) \/ Disconnected(p) \/ PairingRequest(p)
                      \/ \E ok \in BOOLEAN : PairingComplete(p, ok)
               PROVE  ListInv'
    BY DEF Peers
  <1>1. UNCHANGED <<maPairingPeers, mMinTimeToWait, timer, left, sure>>
    BY DEF Connected, Disconnected, PairingRequest, PairingComplete, listVars, history
  <1>2. Timed' /\ OneEntryEach' /\ EmptyIsUnused'
    BY <1>1 DEF ListInv, Timed, OneEntryEach, EmptyIsUnused
  <1>3. TypeOK'
    <2>1. CASE Connected(p)
      BY <1>1, <2>1 DEF Connected, ListInv, TypeOK
    <2>2. CASE Disconnected(p)
      BY <1>1, <2>2 DEF Disconnected, ListInv, TypeOK
    <2>3. CASE PairingRequest(p)
      BY <1>1, <2>3 DEF PairingRequest, ListInv, TypeOK
    <2>4. ASSUME NEW ok \in BOOLEAN, PairingComplete(p, ok) PROVE TypeOK'
      BY <1>1, <2>4 DEF PairingComplete, LogAttempt, ListInv, TypeOK
    <2> QED BY <2>1, <2>2, <2>3, <2>4
  <1> QED BY <1>2, <1>3 DEF ListInv

LEMMA ListInvariant == Spec => []ListInv
  <1>1. Init => ListInv
    <2> SUFFICES ASSUME Init PROVE ListInv
      OBVIOUS
    <2>1. maPairingPeers \in [Slot -> Entry] /\ \A i \in Slot : maPairingPeers[i] = Unused
      BY UnusedIsEntry DEF Init
    <2>2. Timed /\ OneEntryEach /\ EmptyIsUnused
      BY <2>1, Sizes DEF Init, Timed, OneEntryEach, EmptyIsUnused, Unused, Off
    <2>3. TypeOK
      BY <2>1, Sizes DEF Init, TypeOK, NoOutcome, Off
    <2> QED BY <2>2, <2>3 DEF ListInv
  <1>2. ListInv /\ [Next]_vars => ListInv'
    <2> SUFFICES ASSUME ListInv, [Next]_vars PROVE ListInv'
      OBVIOUS
    <2>1. CASE Next
      BY <2>1, ListPeers, ListLogged, ListCalledBack, ListTicks DEF Next
    <2>2. CASE UNCHANGED vars
      BY <2>2 DEF vars, listVars, linkVars, history, ListInv, TypeOK, Timed, OneEntryEach,
                  EmptyIsUnused
    <2> QED BY <2>1, <2>2
  <1> QED BY <1>1, <1>2, PTL DEF Spec

\* A peer has one entry, which an outcome finds: no second one goes on refusing a peer
\* that has paired, however full the list.
THEOREM OneEntryEachCorrect == Spec => []OneEntryEach
  <1>1. ListInv => OneEntryEach
    BY DEF ListInv
  <1> QED BY <1>1, ListInvariant, PTL

\* Whoever waits is timed, for no longer than the shortest wait, and nobody's wait is
\* left without a timer by an outcome that stops the one they share.
THEOREM TimedCorrect == Spec => [](TypeOK /\ Timed)
  <1>1. ListInv => TypeOK /\ Timed
    BY DEF ListInv
  <1> QED BY <1>1, ListInvariant, PTL

-----------------------------------------------------------------------------
(* How long a peer waits.                                                   *)

\* Milliseconds since the timer was started.
SinceStart == Second * mMinTimeToWait - timer

Waits(p) == {i \in Slot : maPairingPeers[i].address = p /\ maPairingPeers[i].remaining # 0}

\* What is left of a peer's wait is its entry's, less what passed since the timer was
\* started.
LeftInv ==
  \A p \in Peer :
    /\ Waits(p) = {} => left[p] = 0
    /\ \A i \in Waits(p) : left[p] = Second * maPairingPeers[i].remaining - SinceStart

LEMMA Numbers ==
  ASSUME ListInv
  PROVE  /\ timer \in Int /\ mMinTimeToWait \in Nat
         /\ \A i \in Slot : maPairingPeers[i].remaining \in Nat
         /\ \A i \in Slot : maPairingPeers[i].remaining # 0 =>
              /\ mMinTimeToWait <= maPairingPeers[i].remaining
              /\ timer \in Nat /\ timer <= Second * mMinTimeToWait
  <1>1. timer \in Off .. Second * TimeoutMax /\ mMinTimeToWait \in 0 .. TimeoutMax + 1
    BY DEF ListInv, TypeOK
  <1>2. \A i \in Slot : maPairingPeers[i].remaining \in 0 .. TimeoutMax
    BY EntryFields DEF ListInv, TypeOK
  <1>3. ASSUME NEW i \in Slot, maPairingPeers[i].remaining # 0
        PROVE  /\ mMinTimeToWait <= maPairingPeers[i].remaining
               /\ timer # Off /\ timer <= Second * mMinTimeToWait
    BY <1>3 DEF ListInv, Timed
  <1> QED BY <1>1, <1>2, <1>3, Sizes DEF Off

\* Just started, the timer has all of its time before it.
LEMMA JustStarted ==
  ASSUME maPairingPeers' \in [Slot -> Entry], StartTimer(maPairingPeers'),
         NEW i \in Slot, maPairingPeers'[i].remaining # 0
  PROVE  SinceStart' = 0
  <1>1. timer' # Off /\ mMinTimeToWait' \in 1 .. TimeoutMax + 1
        /\ (timer' = Off \/ timer' = Second * mMinTimeToWait')
    BY Started
  <1> QED BY <1>1, Sizes DEF SinceStart

\* The one entry of a peer holds its wait.
LEMMA WaitOfEntry ==
  ASSUME maPairingPeers' \in [Slot -> Entry], OneEntryEach', NEW p \in Peer
  PROVE  /\ Waits(p)' = {} => WaitOf(maPairingPeers', p) = 0
         /\ \A i \in Waits(p)' : WaitOf(maPairingPeers', p) = maPairingPeers'[i].remaining
  <1> DEFINE list == maPairingPeers'
             j == CHOOSE k \in Listed(list, p) : TRUE
  <1>1. CASE Listed(list, p) = {}
    BY <1>1 DEF Waits, Listed, WaitOf
  <1>2. CASE Listed(list, p) # {}
    <2>1. j \in Slot /\ list[j].address = p
      BY <1>2 DEF Listed
    <2>2. WaitOf(list, p) = list[j].remaining
      BY <1>2 DEF WaitOf
    <2> HIDE DEF j
    <2>3. \A i \in Waits(p)' : i = j
      BY <2>1, Sizes DEF Waits, OneEntryEach
    <2>4. Waits(p)' = {} => list[j].remaining = 0
      BY <2>1 DEF Waits
    <2> QED BY <2>2, <2>3, <2>4
  <1> QED BY <1>1, <1>2

LEMMA LeftLogged == ListInv /\ LogOutcome => LeftInv'
  <1> SUFFICES ASSUME ListInv, LogOutcome, NEW p \in Peer
               PROVE  /\ Waits(p)' = {} => left'[p] = 0
                      /\ \A i \in Waits(p)' :
                           left'[p] = Second * maPairingPeers'[i].remaining - SinceStart'
    BY DEF LeftInv
  <1>1. /\ maPairingPeers' \in [Slot -> Entry] /\ OneEntryEach'
        /\ StartTimer(maPairingPeers')
    BY ListAfter DEF LogOutcome
  <1>2. left'[p] = Second * WaitOf(maPairingPeers', p)
    BY DEF LogOutcome, Recorded
  <1>3. CASE Waits(p)' = {}
    <2>1. WaitOf(maPairingPeers', p) = 0
      BY <1>1, <1>3, WaitOfEntry
    <2> QED BY <1>2, <1>3, <2>1, Sizes
  <1>4. ASSUME NEW i \in Waits(p)'
        PROVE  left'[p] = Second * maPairingPeers'[i].remaining - SinceStart'
    <2>1. WaitOf(maPairingPeers', p) = maPairingPeers'[i].remaining
      BY <1>1, <1>4, WaitOfEntry
    <2>2. i \in Slot /\ maPairingPeers'[i].remaining # 0
      BY <1>4 DEF Waits
    <2>3. SinceStart' = 0
      BY <1>1, <2>2, JustStarted
    <2>4. maPairingPeers'[i].remaining \in Int
      BY <1>1, <2>2, EntryFields
    <2> QED BY <1>2, <2>1, <2>3, <2>4, Sizes
  <1> QED BY <1>3, <1>4

LEMMA LeftCalledBack == ListInv /\ LeftInv /\ TimerCb => LeftInv'
  <1> SUFFICES ASSUME ListInv, LeftInv, TimerCb, NEW p \in Peer
               PROVE  /\ Waits(p)' = {} => left'[p] = 0
                      /\ \A i \in Waits(p)' :
                           left'[p] = Second * maPairingPeers'[i].remaining - SinceStart'
    BY DEF LeftInv
  <1>1. /\ maPairingPeers' \in [Slot -> Entry]
        /\ \A i \in Slot :
             /\ maPairingPeers'[i].address = maPairingPeers[i].address
             /\ maPairingPeers'[i].remaining =
                  IF maPairingPeers[i].remaining > mMinTimeToWait
                  THEN maPairingPeers[i].remaining - mMinTimeToWait ELSE 0
        /\ StartTimer(maPairingPeers') /\ timer = 0 /\ left' = left
    BY CallbackFacts DEF ListInv
  <1>2. mMinTimeToWait \in Nat /\ SinceStart = Second * mMinTimeToWait
    BY <1>1, Numbers, Sizes DEF SinceStart
  <1>3. CASE Waits(p) = {}
    <2>1. left[p] = 0
      BY <1>3 DEF LeftInv
    <2>2. Waits(p)' = {}
      <3> SUFFICES ASSUME NEW i \in Slot, maPairingPeers'[i].address = p
                   PROVE  maPairingPeers'[i].remaining = 0
        BY DEF Waits
      <3>1. maPairingPeers[i].remaining = 0
        BY <1>1, <1>3 DEF Waits
      <3> QED BY <1>1, <1>2, <3>1
    <2> QED BY <1>1, <2>1, <2>2
  <1>4. ASSUME NEW i \in Waits(p) PROVE
               /\ Waits(p)' = {} => left'[p] = 0
               /\ \A k \in Waits(p)' :
                    left'[p] = Second * maPairingPeers'[k].remaining - SinceStart'
    <2> DEFINE r == maPairingPeers[i].remaining
               q == maPairingPeers'[i].remaining
    <2>1. i \in Slot /\ maPairingPeers[i].address = p /\ r # 0
      BY DEF Waits
    <2>2. r \in Nat /\ mMinTimeToWait <= r
      BY <2>1, Numbers
    <2>3. left[p] = Second * r - Second * mMinTimeToWait
      BY <1>2 DEF LeftInv
    <2>4. q = IF r > mMinTimeToWait THEN r - mMinTimeToWait ELSE 0
      BY <1>1, <2>1
    <2>5. maPairingPeers'[i].address = p
      BY <1>1, <2>1
    <2>6. \A k \in Waits(p)' : k = i
      BY <1>1, <2>1, Sizes DEF Waits, ListInv, OneEntryEach
    <2>7. q # 0 => SinceStart' = 0
      BY <1>1, <2>1, JustStarted
    <2>8. Waits(p)' = {} => q = 0
      BY <2>1, <2>5 DEF Waits
    <2>9. \A k \in Waits(p)' : maPairingPeers'[k].remaining = q /\ q # 0
      BY <2>6 DEF Waits
    <2> HIDE DEF r, q
    <2>10. left'[p] = Second * q
      BY <1>1, <1>2, <2>2, <2>3, <2>4, Sizes
    <2>11. q \in Nat
      BY <1>2, <2>2, <2>4
    <2> QED BY <2>7, <2>8, <2>9, <2>10, <2>11, Sizes
  <1> QED BY <1>3, <1>4

LEMMA LeftTicks == \A step \in Steps : ListInv /\ LeftInv /\ Tick(step) => LeftInv'
  <1> SUFFICES ASSUME NEW step \in Steps, ListInv, LeftInv, Tick(step), NEW p \in Peer
               PROVE  /\ Waits(p)' = {} => left'[p] = 0
                      /\ \A i \in Waits(p)' :
                           left'[p] = Second * maPairingPeers'[i].remaining - SinceStart'
    BY DEF LeftInv
  <1>1. UNCHANGED <<maPairingPeers, mMinTimeToWait>>
    BY DEF Tick
  <1>2. PICK d \in Nat :
          /\ timer # Off => d <= timer
          /\ timer' = IF timer = Off THEN Off ELSE timer - d
          /\ left' = [q \in Peer |-> Less(left[q], d)]
    BY TickFacts DEF ListInv
  <1>3. Waits(p)' = Waits(p)
    BY <1>1 DEF Waits
  <1>4. CASE Waits(p) = {}
    <2>1. left[p] = 0
      BY <1>4 DEF LeftInv
    <2> QED BY <1>2, <1>3, <1>4, <2>1 DEF Less
  <1>5. ASSUME NEW i \in Waits(p)
        PROVE  left'[p] = Second * maPairingPeers[i].remaining - SinceStart'
    <2> DEFINE r == maPairingPeers[i].remaining
    <2>1. i \in Slot /\ r # 0
      BY DEF Waits
    <2>2. /\ r \in Nat /\ mMinTimeToWait \in Nat /\ mMinTimeToWait <= r
          /\ timer \in Nat /\ timer <= Second * mMinTimeToWait
      BY <2>1, Numbers
    <2>3. left[p] = Second * r - SinceStart
      BY DEF LeftInv
    <2> HIDE DEF r
    <2>4. timer' = timer - d /\ d <= timer
      BY <1>2, <2>2 DEF Off
    <2>5. left[p] >= timer /\ left[p] \in Nat
      BY <2>2, <2>3, Sizes DEF SinceStart
    <2>6. left'[p] = left[p] - d
      BY <1>2, <2>2, <2>4, <2>5 DEF Less
    <2>7. SinceStart' = SinceStart + d
      BY <1>1, <2>2, <2>4, Sizes DEF SinceStart
    <2>8. SinceStart \in Int
      BY <2>2, Sizes DEF SinceStart
    <2> QED BY <2>2, <2>3, <2>6, <2>7, <2>8, Sizes DEF r
  <1> QED BY <1>1, <1>3, <1>4, <1>5

LEMMA LeftInvariant == Spec => []LeftInv
  <1>1. Init => LeftInv
    BY DEF Init, LeftInv, Waits, Unused
  <1>2. ListInv /\ LeftInv /\ [Next]_vars => LeftInv'
    <2> SUFFICES ASSUME ListInv, LeftInv, [Next]_vars PROVE LeftInv'
      OBVIOUS
    <2>1. CASE Peers \/ UNCHANGED vars
      <3>1. UNCHANGED <<maPairingPeers, mMinTimeToWait, timer, left>>
        BY <2>1 DEF Peers, Connected, Disconnected, PairingRequest, PairingComplete, vars,
                    listVars, history
      <3> QED BY <3>1 DEF LeftInv, Waits, SinceStart
    <2> QED BY <2>1, LeftLogged, LeftCalledBack, LeftTicks DEF Next
  <1> QED BY <1>1, <1>2, ListInvariant, PTL DEF Spec

\* A wait lasts as long as the last outcome left it, to the millisecond and through every
\* callback, with any number of peers connected.
THEOREM RefusedExactlyCorrect == Spec => []RefusedExactly
  <1>1. ListInv /\ LeftInv => RefusedExactly
    <2> SUFFICES ASSUME ListInv, LeftInv, timer # 0, NEW p \in Peer
                 PROVE  CheckRequest(p) <=> left[p] = 0
      BY DEF RefusedExactly
    <2>1. CheckRequest(p) <=> Waits(p) = {}
      BY DEF CheckRequest, Waits
    <2>2. Waits(p) = {} => left[p] = 0
      BY DEF LeftInv
    <2>3. ASSUME NEW i \in Waits(p) PROVE left[p] # 0
      <3> DEFINE r == maPairingPeers[i].remaining
      <3>1. i \in Slot /\ r # 0
        BY DEF Waits
      <3>2. r \in Nat /\ mMinTimeToWait \in Nat /\ mMinTimeToWait <= r /\ timer \in Nat
        BY <3>1, Numbers
      <3>3. left[p] = Second * r - SinceStart
        BY DEF LeftInv
      <3> HIDE DEF r
      <3> QED BY <3>2, <3>3, Sizes DEF SinceStart
    <2> QED BY <2>1, <2>2, <2>3
  <1> QED BY <1>1, ListInvariant, LeftInvariant, PTL

=============================================================================
