------------------------- MODULE FsciGattClientProofs -------------------------
(***************************************************************************)
(* Proofs about the buffers of the GATT client commands of FsciGattClient, *)
(* for any number of links and of requests.                                *)
(*                                                                         *)
(* Accounted is inductive once the entries are known to name only requests *)
(* made so far: the number of a new request is in no table, so its buffers *)
(* are new.  The other two properties need to know where the buffers of a  *)
(* procedure are: among the temporary ones until the status of its command *)
(* is sent, among the permanent ones from then on (Undisturbed).           *)
(***************************************************************************)
EXTENDS FsciGattClient, TLAPS

-----------------------------------------------------------------------------
(* The requests.                                                           *)

\* Buffers of known kinds, of which the event reads only those allocated.
WellFormed(r) ==
  /\ KindsOf(r) \subseteq Kind /\ r.reads \subseteq KindsOf(r)
  /\ r.kinds # <<>> => r.kinds[1] \in KindsOf(r)
  /\ r.kinds = <<>> => KindsOf(r) = {}

LEMMA TwoKinds ==
  ASSUME NEW r, NEW a \in Kind, NEW b \in Kind,
         r.kinds = <<a, b>>, r.reads \subseteq {a, b}
  PROVE  WellFormed(r)
  <1>1. KindsOf(r) = {a, b}
    BY DEF KindsOf
  <1>2. r.kinds[1] = a /\ r.kinds # <<>>
    OBVIOUS
  <1> QED BY <1>1, <1>2 DEF WellFormed

LEMMA NoKinds ==
  WellFormed(WriteCharacteristicValue)
  <1>1. WriteCharacteristicValue.kinds = <<>> /\ WriteCharacteristicValue.reads = {}
    BY DEF WriteCharacteristicValue
  <1>2. KindsOf(WriteCharacteristicValue) = {}
    BY <1>1 DEF KindsOf
  <1> QED BY <1>1, <1>2 DEF WellFormed

LEMMA RequestFacts ==
  ASSUME NEW name \in Commands
  PROVE  WellFormed(Request(name))
  <1>1. WellFormed(Request("DiscoverAllPrimaryServices"))
    <2>1. Request("DiscoverAllPrimaryServices") = DiscoverAllPrimaryServices
      BY DEF Request
    <2>2. /\ DiscoverAllPrimaryServices.kinds = <<"services", "arraySize">>
          /\ DiscoverAllPrimaryServices.reads \subseteq {"services", "arraySize"}
      BY DEF DiscoverAllPrimaryServices, Both, AllPrimaryServicesEvent
    <2>3. "services" \in Kind /\ "arraySize" \in Kind
      BY DEF Kind
    <2> QED BY <2>1, <2>2, <2>3, TwoKinds
  <1>2. WellFormed(Request("DiscoverPrimaryServicesByUuid"))
    <2>1. Request("DiscoverPrimaryServicesByUuid") = DiscoverPrimaryServicesByUuid
      BY DEF Request
    <2>2. /\ DiscoverPrimaryServicesByUuid.kinds = <<"services", "arraySize">>
          /\ DiscoverPrimaryServicesByUuid.reads \subseteq {"services", "arraySize"}
      BY DEF DiscoverPrimaryServicesByUuid, Both, PrimaryServicesByUuidEvent
    <2>3. "services" \in Kind /\ "arraySize" \in Kind
      BY DEF Kind
    <2> QED BY <2>1, <2>2, <2>3, TwoKinds
  <1>3. WellFormed(Request("FindIncludedServices"))
    <2>1. Request("FindIncludedServices") = FindIncludedServices
      BY DEF Request
    <2>2. /\ FindIncludedServices.kinds = <<"services", "included">>
          /\ FindIncludedServices.reads \subseteq {"services", "included"}
      BY DEF FindIncludedServices, Nested, IncludedServicesEvent
    <2>3. "services" \in Kind /\ "included" \in Kind
      BY DEF Kind
    <2> QED BY <2>1, <2>2, <2>3, TwoKinds
  <1>4. WellFormed(Request("DiscoverAllCharacteristicsOfService"))
    <2>1. Request("DiscoverAllCharacteristicsOfService") = DiscoverAllCharacteristicsOfService
      BY DEF Request
    <2>2. /\ DiscoverAllCharacteristicsOfService.kinds = <<"services", "characteristics">>
          /\ DiscoverAllCharacteristicsOfService.reads \subseteq {"services", "characteristics"}
      BY DEF DiscoverAllCharacteristicsOfService, Nested, AllCharacteristicsEvent
    <2>3. "services" \in Kind /\ "characteristics" \in Kind
      BY DEF Kind
    <2> QED BY <2>1, <2>2, <2>3, TwoKinds
  <1>5. WellFormed(Request("DiscoverCharacteristicOfServiceByUuid"))
    <2>1. Request("DiscoverCharacteristicOfServiceByUuid") = DiscoverCharacteristicOfServiceByUuid
      BY DEF Request
    <2>2. /\ DiscoverCharacteristicOfServiceByUuid.kinds = <<"characteristics", "arraySize">>
          /\ DiscoverCharacteristicOfServiceByUuid.reads \subseteq {"characteristics", "arraySize"}
      BY DEF DiscoverCharacteristicOfServiceByUuid, Both, CharacteristicByUuidEvent
    <2>3. "characteristics" \in Kind /\ "arraySize" \in Kind
      BY DEF Kind
    <2> QED BY <2>1, <2>2, <2>3, TwoKinds
  <1>6. WellFormed(Request("DiscoverAllCharacteristicDescriptors"))
    <2>1. Request("DiscoverAllCharacteristicDescriptors") = DiscoverAllCharacteristicDescriptors
      BY DEF Request
    <2>2. /\ DiscoverAllCharacteristicDescriptors.kinds = <<"characteristics", "descriptors">>
          /\ DiscoverAllCharacteristicDescriptors.reads \subseteq {"characteristics", "descriptors"}
      BY DEF DiscoverAllCharacteristicDescriptors, Nested, DescriptorsEvent
    <2>3. "characteristics" \in Kind /\ "descriptors" \in Kind
      BY DEF Kind
    <2> QED BY <2>1, <2>2, <2>3, TwoKinds
  <1>7. WellFormed(Request("ReadCharacteristicValue"))
    <2>1. Request("ReadCharacteristicValue") = ReadCharacteristicValue
      BY DEF Request
    <2>2. /\ ReadCharacteristicValue.kinds = <<"characteristics", "value">>
          /\ ReadCharacteristicValue.reads \subseteq {"characteristics", "value"}
      BY DEF ReadCharacteristicValue, Nested, ReadValueEvent
    <2>3. "characteristics" \in Kind /\ "value" \in Kind
      BY DEF Kind
    <2> QED BY <2>1, <2>2, <2>3, TwoKinds
  <1>8. WellFormed(Request("ReadUsingCharacteristicUuid"))
    <2>1. Request("ReadUsingCharacteristicUuid") = ReadUsingCharacteristicUuid
      BY DEF Request
    <2>2. /\ ReadUsingCharacteristicUuid.kinds = <<"value", "arraySize">>
          /\ ReadUsingCharacteristicUuid.reads \subseteq {"value", "arraySize"}
      BY DEF ReadUsingCharacteristicUuid, Both, ReadUsingUuidEvent
    <2>3. "value" \in Kind /\ "arraySize" \in Kind
      BY DEF Kind
    <2> QED BY <2>1, <2>2, <2>3, TwoKinds
  <1>9. WellFormed(Request("ReadMultipleCharacteristicValues"))
    <2>1. Request("ReadMultipleCharacteristicValues") = ReadMultipleCharacteristicValues
      BY DEF Request
    <2>2. /\ ReadMultipleCharacteristicValues.kinds = <<"characteristics", "value">>
          /\ ReadMultipleCharacteristicValues.reads \subseteq {"characteristics", "value"}
      BY DEF ReadMultipleCharacteristicValues, Nested, ReadMultipleEvent
    <2>3. "characteristics" \in Kind /\ "value" \in Kind
      BY DEF Kind
    <2> QED BY <2>1, <2>2, <2>3, TwoKinds
  <1>10. WellFormed(Request("ReadCharacteristicDescriptors"))
    <2>1. Request("ReadCharacteristicDescriptors") = ReadCharacteristicDescriptors
      BY DEF Request
    <2>2. /\ ReadCharacteristicDescriptors.kinds = <<"descriptors", "value">>
          /\ ReadCharacteristicDescriptors.reads \subseteq {"descriptors", "value"}
      BY DEF ReadCharacteristicDescriptors, Nested, ReadDescriptorEvent
    <2>3. "descriptors" \in Kind /\ "value" \in Kind
      BY DEF Kind
    <2> QED BY <2>1, <2>2, <2>3, TwoKinds
  <1>11. WellFormed(Request("WriteCharacteristicValue"))
    <2>1. Request("WriteCharacteristicValue") = WriteCharacteristicValue
      BY DEF Request
    <2> QED BY <2>1, NoKinds
  <1>12. name \in {"DiscoverAllPrimaryServices", "DiscoverPrimaryServicesByUuid", "FindIncludedServices", "DiscoverAllCharacteristicsOfService", "DiscoverCharacteristicOfServiceByUuid", "DiscoverAllCharacteristicDescriptors", "ReadCharacteristicValue", "ReadUsingCharacteristicUuid", "ReadMultipleCharacteristicValues", "ReadCharacteristicDescriptors", "WriteCharacteristicValue"}
    BY FsciGattClientAssumption
  <1> QED BY <1>1, <1>2, <1>3, <1>4, <1>5, <1>6, <1>7, <1>8, <1>9, <1>10, <1>11, <1>12

-----------------------------------------------------------------------------
(* Entries of the tables.                                                  *)

Entry == [Kind -> 0 .. requests]

Typed ==
  /\ requests \in Nat
  /\ tmp \in [Link -> Entry] /\ kept \in [Link -> Entry]

LEMMA OwnedIs ==
  ASSUME NEW entry, NEW x
  PROVE  x \in Owned(entry) <=> \E k \in Kind : entry[k] # NoReq /\ x = <<entry[k], k>>
  BY DEF Owned

LEMMA OwnedEmpty == Owned(Empty) = {}
  BY DEF Owned, Empty

LEMMA EmptyIsEntry ==
  ASSUME Typed
  PROVE  Empty \in Entry
  <1>1. 0 \in 0 .. requests
    BY DEF Typed
  <1> QED BY <1>1 DEF Empty, Entry, NoReq

\* The number of the next request is in no entry.
LEMMA NextIsNew ==
  ASSUME Typed, NEW entry \in Entry, NEW k
  PROVE  /\ <<requests + 1, k>> \notin Owned(entry) /\ NoReq # requests + 1
         /\ \A x \in Kind : entry[x] # requests + 1
  <1>1. \A n \in 0 .. requests : n # requests + 1
    BY DEF Typed
  <1>2. NoReq # requests + 1
    BY DEF Typed, NoReq
  <1> QED BY <1>1, <1>2 DEF Owned, Entry

-----------------------------------------------------------------------------
(* Every buffer is in one place.                                           *)

\* Clearing one entry and freeing its buffers.
LEMMA ErasesTmp ==
  ASSUME Typed, Accounted, NEW l \in Link, EraseTmpInfo(l), UNCHANGED kept
  PROVE  Accounted'
  <1>1. /\ tmp'[l] = Empty /\ \A m \in Link : m # l => tmp'[m] = tmp[m]
    BY DEF Typed, EraseTmpInfo
  <1>2. Owned(tmp'[l]) = {}
    BY <1>1, OwnedEmpty
  <1> DEFINE T(m) == Owned(tmp[m])
             K(m) == Owned(kept[m])
             T2(m) == Owned(tmp'[m])
  <1>3. T2(l) = {} /\ \A m \in Link : m # l => T2(m) = T(m)
    BY <1>1, <1>2
  <1>4. heap = UNION {T(m) \cup K(m) : m \in Link}
    BY DEF Accounted
  <1>5. \A i, j \in Link : T(i) \cap K(j) = {} /\ (i # j => T(i) \cap T(j) = {} /\ K(i) \cap K(j) = {})
    BY DEF Accounted
  <1>6. heap' = heap \ T(l)
    BY DEF EraseTmpInfo
  <1>7. Accounted' <=> /\ heap' = UNION {T2(m) \cup K(m) : m \in Link}
                       /\ \A i, j \in Link : /\ T2(i) \cap K(j) = {}
                                             /\ i # j => T2(i) \cap T2(j) = {} /\ K(i) \cap K(j) = {}
    BY DEF Accounted
  <1> HIDE DEF T, K, T2
  <1>8. heap' = UNION {T2(m) \cup K(m) : m \in Link}
    BY <1>3, <1>4, <1>5, <1>6
  <1>9. \A i, j \in Link : T2(i) \cap K(j) = {} /\ (i # j => T2(i) \cap T2(j) = {} /\ K(i) \cap K(j) = {})
    BY <1>3, <1>5
  <1> QED BY <1>7, <1>8, <1>9

LEMMA ErasesKept ==
  ASSUME Typed, Accounted, NEW l \in Link, EraseInfo(l), UNCHANGED tmp
  PROVE  Accounted'
  <1>1. /\ kept'[l] = Empty /\ \A m \in Link : m # l => kept'[m] = kept[m]
    BY DEF Typed, EraseInfo
  <1>2. Owned(kept'[l]) = {}
    BY <1>1, OwnedEmpty
  <1> DEFINE T(m) == Owned(tmp[m])
             K(m) == Owned(kept[m])
             K2(m) == Owned(kept'[m])
  <1>3. K2(l) = {} /\ \A m \in Link : m # l => K2(m) = K(m)
    BY <1>1, <1>2
  <1>4. heap = UNION {T(m) \cup K(m) : m \in Link}
    BY DEF Accounted
  <1>5. \A i, j \in Link : T(i) \cap K(j) = {} /\ (i # j => T(i) \cap T(j) = {} /\ K(i) \cap K(j) = {})
    BY DEF Accounted
  <1>6. heap' = heap \ K(l)
    BY DEF EraseInfo
  <1>7. Accounted' <=> /\ heap' = UNION {T(m) \cup K2(m) : m \in Link}
                       /\ \A i, j \in Link : /\ T(i) \cap K2(j) = {}
                                             /\ i # j => T(i) \cap T(j) = {} /\ K2(i) \cap K2(j) = {}
    BY DEF Accounted
  <1> HIDE DEF T, K, K2
  <1>8. heap' = UNION {T(m) \cup K2(m) : m \in Link}
    BY <1>3, <1>4, <1>5, <1>6
  <1>9. \A i, j \in Link : T(i) \cap K2(j) = {} /\ (i # j => T(i) \cap T(j) = {} /\ K2(i) \cap K2(j) = {})
    BY <1>3, <1>5
  <1> QED BY <1>7, <1>8, <1>9

\* KeepInfo moves entries and frees nothing.
LEMMA Moves ==
  ASSUME Typed, Accounted, KeepInfo, UNCHANGED heap
  PROVE  Accounted'
  <1> DEFINE T(m) == Owned(tmp[m])
             K(m) == Owned(kept[m])
             T2(m) == Owned(tmp'[m])
             K2(m) == Owned(kept'[m])
             Free(m) == kept[m] = Empty
  <1>1. \A m \in Link : /\ Free(m) => T2(m) = {} /\ K2(m) = T(m) /\ K(m) = {}
                        /\ ~Free(m) => T2(m) = T(m) /\ K2(m) = K(m)
    BY OwnedEmpty DEF KeepInfo
  <1>4. heap = UNION {T(m) \cup K(m) : m \in Link}
    BY DEF Accounted
  <1>5. \A i, j \in Link : T(i) \cap K(j) = {} /\ (i # j => T(i) \cap T(j) = {} /\ K(i) \cap K(j) = {})
    BY DEF Accounted
  <1>7. Accounted' <=> /\ heap' = UNION {T2(m) \cup K2(m) : m \in Link}
                       /\ \A i, j \in Link : /\ T2(i) \cap K2(j) = {}
                                             /\ i # j => T2(i) \cap T2(j) = {} /\ K2(i) \cap K2(j) = {}
    BY DEF Accounted
  <1> HIDE DEF T, K, T2, K2, Free
  <1>2. \A m \in Link : T2(m) \cup K2(m) = T(m) \cup K(m)
    BY <1>1
  <1>3. {T2(m) \cup K2(m) : m \in Link} = {T(m) \cup K(m) : m \in Link}
    BY <1>2, Zenon
  <1>8. heap' = UNION {T2(m) \cup K2(m) : m \in Link}
    BY <1>3, <1>4
  <1>9. ASSUME NEW i \in Link, NEW j \in Link
        PROVE  T2(i) \cap K2(j) = {} /\ (i # j => T2(i) \cap T2(j) = {} /\ K2(i) \cap K2(j) = {})
    <2>1. CASE Free(i) /\ Free(j)
      BY <1>1, <1>5, <2>1
    <2>2. CASE Free(i) /\ ~Free(j)
      BY <1>1, <1>5, <2>2
    <2>3. CASE ~Free(i) /\ Free(j)
      BY <1>1, <1>5, <2>3
    <2>4. CASE ~Free(i) /\ ~Free(j)
      BY <1>1, <1>5, <2>4
    <2> QED BY <2>1, <2>2, <2>3, <2>4
  <1> QED BY <1>7, <1>8, <1>9

\* What a request does: the buffers it allocates, and that the stack either runs its
\* procedure with all of them or the link has met trouble.
Allocates(l, got) ==
  /\ got \subseteq {k \in Kind : tmp[l][k] = NoReq}
  /\ requests' = requests + 1
  /\ tmp' = [tmp EXCEPT ![l] = [k \in Kind |-> IF k \in got THEN requests + 1 ELSE tmp[l][k]]]
  /\ heap' = heap \cup {<<requests + 1, k>> : k \in got}
  /\ UNCHANGED <<kept, event>>

Accepts(l, name, got) ==
  /\ got = KindsOf(Request(name)) /\ proc[l] = Idle
  /\ command' = [req |-> requests + 1, link |-> l, accepted |-> TRUE,
                 out |-> Request(name).kinds # <<>>]
  /\ \E c : proc' = [proc EXCEPT ![l] = [req |-> requests + 1, name |-> name, count |-> c]]
  /\ troubled' = IF event # Idle /\ event.link = l THEN troubled \cup {l} ELSE troubled

Fails(l) ==
  /\ troubled' = troubled \cup {l}
  /\ UNCHANGED proc
  /\ \/ \E a, o : command' = [req |-> requests + 1, link |-> l, accepted |-> a, out |-> o]
     \/ UNCHANGED command

LEMMA HandleFacts ==
  ASSUME Typed, NEW l \in Link, NEW name \in Commands, NEW count, NEW short,
         Handle(l, name, count, short)
  PROVE  \E got \in SUBSET KindsOf(Request(name)) :
           Allocates(l, got) /\ (Accepts(l, name, got) \/ Fails(l))
  <1> DEFINE r     == Request(name)
             tried == Tried(l, r, short)
             got   == Obtained(l, tried, short)
  <1>1. WellFormed(r)
    BY RequestFacts
  <1>2. tried \subseteq KindsOf(r)
    BY <1>1 DEF Tried, WellFormed
  <1>3. got \subseteq tried /\ got \subseteq {k \in Kind : tmp[l][k] = NoReq}
    BY <1>1, <1>2 DEF Obtained, WellFormed
  <1>4. Allocates(l, got)
    <2>1. /\ requests' = requests + 1
          /\ tmp' = [tmp EXCEPT ![l] = [k \in Kind |-> IF k \in got THEN requests + 1 ELSE @[k]]]
          /\ heap' = heap \cup {<<requests + 1, k>> : k \in got}
          /\ UNCHANGED <<kept, event>>
      BY Zenon DEF Handle
    <2> HIDE DEF got
    <2> QED BY <1>3, <2>1 DEF Allocates
  <1>5. Accepts(l, name, got) \/ Fails(l)
    <2>1. \/ /\ got = KindsOf(r) /\ proc[l] = Idle
             /\ command' = [req |-> requests + 1, link |-> l, accepted |-> TRUE,
                            out |-> r.kinds # <<>>]
             /\ proc' = [proc EXCEPT ![l] = [req |-> requests + 1, name |-> name, count |-> nbOfChars']]
             /\ troubled' = IF event # Idle /\ event.link = l THEN troubled \cup {l} ELSE troubled
          \/ /\ command' = [req |-> requests + 1, link |-> l, accepted |-> FALSE,
                            out |-> r.kinds # <<>>]
             /\ troubled' = troubled \cup {l}
             /\ UNCHANGED proc
          \/ /\ troubled' = troubled \cup {l}
             /\ UNCHANGED <<command, proc>>
      BY Zenon DEF Handle
    <2> HIDE DEF got, r
    <2>2. CASE /\ got = KindsOf(r) /\ proc[l] = Idle
               /\ command' = [req |-> requests + 1, link |-> l, accepted |-> TRUE,
                              out |-> r.kinds # <<>>]
               /\ proc' = [proc EXCEPT ![l] = [req |-> requests + 1, name |-> name, count |-> nbOfChars']]
               /\ troubled' = IF event # Idle /\ event.link = l THEN troubled \cup {l} ELSE troubled
      BY <2>2, Zenon DEF Accepts, r
    <2>3. CASE /\ command' = [req |-> requests + 1, link |-> l, accepted |-> FALSE,
                              out |-> r.kinds # <<>>]
               /\ troubled' = troubled \cup {l}
               /\ UNCHANGED proc
      BY <2>3, Zenon DEF Fails
    <2>4. CASE /\ troubled' = troubled \cup {l}
               /\ UNCHANGED <<command, proc>>
      BY <2>4, Zenon DEF Fails
    <2> QED BY <2>1, <2>2, <2>3, <2>4
  <1>6. got \in SUBSET KindsOf(Request(name))
    BY <1>2, <1>3
  <1> HIDE DEF got
  <1> QED BY <1>4, <1>5, <1>6

LEMMA EntryGrows ==
  ASSUME Typed, requests' = requests + 1
  PROVE  Entry \subseteq Entry'
  <1>1. 0 .. requests \subseteq 0 .. requests + 1
    BY DEF Typed
  <1> QED BY <1>1 DEF Entry

LEMMA AllocatesFacts ==
  ASSUME Typed, Accounted, NEW l \in Link, NEW got, Allocates(l, got)
  PROVE  /\ Typed' /\ Accounted'
         /\ tmp'[l] = [k \in Kind |-> IF k \in got THEN requests + 1 ELSE tmp[l][k]]
         /\ \A m \in Link : m # l => tmp'[m] = tmp[m]
  <1> DEFINE new == {<<requests + 1, k>> : k \in got}
             T(m) == Owned(tmp[m])
             K(m) == Owned(kept[m])
             T2(m) == Owned(tmp'[m])
  <1>1. /\ tmp'[l] = [k \in Kind |-> IF k \in got THEN requests + 1 ELSE tmp[l][k]]
        /\ \A m \in Link : m # l => tmp'[m] = tmp[m]
    BY DEF Typed, Allocates
  <1>2. tmp[l] \in Entry /\ \A m \in Link : tmp[m] \in Entry /\ kept[m] \in Entry
    BY DEF Typed
  <1>3. Typed'
    <2>1. requests' = requests + 1 /\ requests' \in Nat
      BY DEF Allocates, Typed
    <2>2. requests + 1 \in 0 .. requests + 1
      BY DEF Typed
    <2>3. \A k \in Kind : tmp[l][k] \in 0 .. requests + 1
      BY <1>2, <2>1, EntryGrows DEF Entry
    <2>4. tmp'[l] \in Entry'
      BY <1>1, <2>1, <2>2, <2>3 DEF Entry
    <2>5. tmp' \in [Link -> Entry']
      <3>1. tmp' = [m \in Link |-> tmp'[m]]
        BY DEF Typed, Allocates
      <3>2. \A m \in Link : tmp'[m] \in Entry'
        BY <1>1, <1>2, <2>1, <2>4, EntryGrows
      <3> QED BY <3>1, <3>2
    <2>6. kept' \in [Link -> Entry']
      BY <2>1, EntryGrows DEF Allocates, Typed
    <2> QED BY <2>1, <2>5, <2>6 DEF Typed
  <1>4. T2(l) = T(l) \cup new
    <2>1. \A k \in Kind : tmp[l][k] # requests + 1 /\ NoReq # requests + 1
      BY <1>2, NextIsNew
    <2>2. /\ \A k \in Kind : k \in got => tmp[l][k] = NoReq /\ tmp'[l][k] = requests + 1
          /\ \A k \in Kind : k \notin got => tmp'[l][k] = tmp[l][k]
          /\ got \subseteq Kind
      BY <1>1 DEF Allocates
    <2>3. ASSUME NEW x PROVE x \in T2(l) <=> x \in T(l) \cup new
      <3>1. x \in T2(l) <=> \E k \in Kind : tmp'[l][k] # NoReq /\ x = <<tmp'[l][k], k>>
        BY OwnedIs
      <3>2. x \in T(l) <=> \E k \in Kind : tmp[l][k] # NoReq /\ x = <<tmp[l][k], k>>
        BY OwnedIs
      <3>3. x \in new <=> \E k \in got : x = <<requests + 1, k>>
        OBVIOUS
      <3> HIDE DEF T, T2, new
      <3>4. ASSUME x \in T2(l) PROVE x \in T(l) \cup new
        <4>1. PICK k \in Kind : tmp'[l][k] # NoReq /\ x = <<tmp'[l][k], k>>
          BY <3>1, <3>4
        <4>2. CASE k \in got
          BY <2>2, <3>3, <4>1, <4>2
        <4>3. CASE k \notin got
          BY <2>2, <3>2, <4>1, <4>3
        <4> QED BY <4>2, <4>3
      <3>5. ASSUME x \in T(l) PROVE x \in T2(l)
        <4>1. PICK k \in Kind : tmp[l][k] # NoReq /\ x = <<tmp[l][k], k>>
          BY <3>2, <3>5
        <4>2. tmp'[l][k] = tmp[l][k]
          BY <2>2, <4>1
        <4> QED BY <3>1, <4>1, <4>2
      <3>6. ASSUME x \in new PROVE x \in T2(l)
        BY <2>1, <2>2, <3>1, <3>3, <3>6
      <3> QED BY <3>4, <3>5, <3>6
    <2> HIDE DEF T, T2, new
    <2> QED BY <2>3
  <1>5. /\ \A m \in Link : m # l => T2(m) = T(m)
        /\ \A m \in Link : T(m) \cap new = {} /\ K(m) \cap new = {}
    BY <1>1, <1>2, NextIsNew
  <1>6. heap = UNION {T(m) \cup K(m) : m \in Link}
    BY DEF Accounted
  <1>7. \A i, j \in Link : T(i) \cap K(j) = {} /\ (i # j => T(i) \cap T(j) = {} /\ K(i) \cap K(j) = {})
    BY DEF Accounted
  <1>8. heap' = heap \cup new
    BY DEF Allocates
  <1>9. Accounted' <=> /\ heap' = UNION {T2(m) \cup K(m) : m \in Link}
                       /\ \A i, j \in Link : /\ T2(i) \cap K(j) = {}
                                             /\ i # j => T2(i) \cap T2(j) = {} /\ K(i) \cap K(j) = {}
    BY DEF Accounted, Allocates
  <1>10. Accounted'
    <2> HIDE DEF T, K, T2, new
    <2>1. heap' = UNION {T2(m) \cup K(m) : m \in Link}
      BY <1>4, <1>5, <1>6, <1>8
    <2>2. ASSUME NEW i \in Link, NEW j \in Link
          PROVE  T2(i) \cap K(j) = {} /\ (i # j => T2(i) \cap T2(j) = {} /\ K(i) \cap K(j) = {})
      BY <1>4, <1>5, <1>7
    <2> QED BY <1>9, <2>1, <2>2
  <1> QED BY <1>1, <1>3, <1>10

-----------------------------------------------------------------------------
(* Where the buffers of a procedure are, on a link that met no trouble.    *)

CallsOK ==
  /\ proc = [l \in Link |-> proc[l]]
  /\ \A l \in Link : proc[l] # Idle => proc[l].req \in 1 .. requests /\ proc[l].name \in Commands
  /\ event # Idle => event.link \in Link

Wanted(l) ==
  [k \in Kind |-> IF k \in KindsOf(Request(proc[l].name)) THEN proc[l].req ELSE NoReq]

Reporting(l) == event # Idle /\ event.link = l

\* The status of the command that started the procedure has not been sent.
Starting(l) ==
  /\ command.req = proc[l].req /\ command.accepted
  /\ command.out <=> Request(proc[l].name).kinds # <<>>
  /\ tmp[l] = Wanted(l) /\ kept[l] = Empty

Started(l) ==
  /\ command.req # proc[l].req
  /\ kept[l] = Wanted(l) /\ tmp[l] = Empty

Undisturbed(l) ==
  /\ proc[l] = Idle /\ ~Reporting(l) => tmp[l] = Empty /\ kept[l] = Empty
  /\ Reporting(l) => tmp[l] = Empty /\ proc[l] = Idle
  /\ proc[l] # Idle => Starting(l) \/ Started(l)

InPlace == \A l \in Link \ troubled : Undisturbed(l)

ClientInv == Typed /\ Accounted /\ CallsOK /\ InPlace /\ ReportsOwn

LEMMA IdleRequest ==
  ASSUME CallsOK, NEW l \in Link, proc[l] # Idle, command = Idle
  PROVE  command.req # proc[l].req
  <1>1. \A n \in 1 .. requests : n # 0
    OBVIOUS
  <1> QED BY <1>1 DEF CallsOK, Idle, NoReq

\* A step that is not about the link.
LEMMA StaysUndisturbed ==
  ASSUME CallsOK, NEW l \in Link, Undisturbed(l),
         tmp'[l] = tmp[l], kept'[l] = kept[l], proc'[l] = proc[l], Reporting(l)' <=> Reporting(l),
         \/ command' = command
         \/ command = Idle /\ (proc[l] # Idle => command'.req # proc[l].req)
  PROVE  Undisturbed(l)'
  <1>1. Wanted(l)' = Wanted(l)
    BY DEF Wanted
  <1>2. ASSUME proc[l] # Idle PROVE Starting(l)' \/ Started(l)'
    <2>1. CASE command' = command
      BY <1>1, <1>2, <2>1 DEF Undisturbed, Starting, Started
    <2>2. CASE command = Idle /\ command'.req # proc[l].req
      <3>1. Started(l)
        BY <1>2, <2>2, IdleRequest DEF Undisturbed, Starting
      <3> QED BY <1>1, <2>2, <3>1 DEF Started
    <2> QED BY <1>2, <2>1, <2>2
  <1>3. /\ proc'[l] = Idle /\ ~Reporting(l)' => tmp'[l] = Empty /\ kept'[l] = Empty
        /\ Reporting(l)' => tmp'[l] = Empty /\ proc'[l] = Idle
    BY DEF Undisturbed
  <1> QED BY <1>2, <1>3 DEF Undisturbed

LEMMA InitInv ==
  ASSUME Init
  PROVE  ClientInv
  <1>1. Empty \in Entry /\ requests \in Nat
    BY DEF Init, Empty, Entry, NoReq
  <1>2. Typed
    BY <1>1 DEF Init, Typed
  <1>3. Accounted
    BY OwnedEmpty DEF Init, Accounted
  <1>4. CallsOK /\ InPlace /\ ReportsOwn
    BY DEF Init, CallsOK, InPlace, Undisturbed, Reporting, ReportsOwn
  <1> QED BY <1>2, <1>3, <1>4 DEF ClientInv

\* A request: only the link it is for is concerned, and if the stack accepts it there,
\* the two entries of that link were empty.
LEMMA KeepsHandle ==
  ASSUME ClientInv, NEW m \in Link, NEW name \in Commands, NEW count, NEW short,
         command = Idle, Handle(m, name, count, short)
  PROVE  ClientInv'
  <1> USE DEF ClientInv
  <1>1. PICK got \in SUBSET KindsOf(Request(name)) :
          Allocates(m, got) /\ (Accepts(m, name, got) \/ Fails(m))
    BY HandleFacts
  <1>2. /\ Typed' /\ Accounted'
        /\ tmp'[m] = [k \in Kind |-> IF k \in got THEN requests + 1 ELSE tmp[m][k]]
        /\ \A l \in Link : l # m => tmp'[l] = tmp[l]
    BY <1>1, AllocatesFacts
  <1>3. /\ requests \in Nat /\ requests' = requests + 1 /\ kept' = kept /\ event' = event
        /\ troubled \subseteq troubled'
    BY <1>1 DEF Typed, Allocates, Accepts, Fails
  <1>4. \A l \in Link : l # m => proc'[l] = proc[l]
    BY <1>1 DEF CallsOK, Accepts, Fails
  <1>5. /\ \A n \in 1 .. requests : n \in 1 .. requests + 1 /\ n # requests + 1 /\ n # NoReq
        /\ requests + 1 \in 1 .. requests + 1 /\ requests + 1 # NoReq
    BY <1>3 DEF NoReq
  <1>6. CallsOK'
    <2>1. CASE Accepts(m, name, got)
      <3>1. PICK c : proc' = [proc EXCEPT ![m] = [req |-> requests + 1, name |-> name, count |-> c]]
        BY <2>1 DEF Accepts
      <3>2. proc'[m].req = requests + 1 /\ proc'[m].name = name
        BY <3>1 DEF CallsOK
      <3>3. proc' = [l \in Link |-> proc'[l]]
        BY <3>1 DEF CallsOK
      <3>4. \A l \in Link : proc'[l] # Idle => proc'[l].req \in 1 .. requests + 1 /\ proc'[l].name \in Commands
        BY <1>4, <1>5, <3>2 DEF CallsOK
      <3> QED BY <1>3, <3>3, <3>4 DEF CallsOK
    <2>2. CASE Fails(m)
      BY <1>3, <1>5, <2>2 DEF CallsOK, Fails
    <2> QED BY <1>1, <2>1, <2>2
  <1>7. ASSUME NEW l \in Link, l \notin troubled', l # m PROVE Undisturbed(l)'
    <2>2. command' = command \/ command'.req = requests + 1
      BY <1>1 DEF Accepts, Fails
    <2>3. proc[l] # Idle => proc[l].req # requests + 1
      BY <1>5 DEF CallsOK
    <2>4. Undisturbed(l) /\ (Reporting(l)' <=> Reporting(l))
      BY <1>3, <1>7 DEF InPlace, Reporting
    <2>5. /\ tmp'[l] = tmp[l] /\ kept'[l] = kept[l] /\ proc'[l] = proc[l]
          /\ \/ command' = command
             \/ command = Idle /\ (proc[l] # Idle => command'.req # proc[l].req)
      BY <1>2, <1>3, <1>4, <1>7, <2>2, <2>3
    <2> QED BY <2>4, <2>5, StaysUndisturbed
  <1>8. ASSUME m \notin troubled' PROVE Undisturbed(m)'
    <2>1. Accepts(m, name, got) /\ m \notin troubled /\ ~Reporting(m) /\ ~Reporting(m)'
      BY <1>1, <1>3, <1>8 DEF Accepts, Fails, Reporting
    <2>2. tmp[m] = Empty /\ kept[m] = Empty
      BY <2>1 DEF InPlace, Undisturbed, Accepts
    <2>3. PICK c : proc' = [proc EXCEPT ![m] = [req |-> requests + 1, name |-> name, count |-> c]]
      BY <2>1 DEF Accepts
    <2>4. proc'[m].req = requests + 1 /\ proc'[m].name = name
      BY <2>3 DEF CallsOK
    <2>5. proc'[m] # Idle
      BY <1>5, <2>4 DEF Idle
    <2>6. tmp'[m] = Wanted(m)'
      BY <1>2, <2>1, <2>2, <2>4 DEF Wanted, Accepts, Empty
    <2>7. /\ command'.req = proc'[m].req /\ command'.accepted
          /\ command'.out <=> Request(proc'[m].name).kinds # <<>>
      BY <2>1, <2>4 DEF Accepts
    <2>8. Starting(m)'
      BY <1>3, <2>2, <2>6, <2>7 DEF Starting
    <2> QED BY <2>1, <2>5, <2>8 DEF Undisturbed
  <1>9. InPlace'
    BY <1>7, <1>8 DEF InPlace
  <1>10. ReportsOwn'
    BY <1>3 DEF ReportsOwn
  <1> QED BY <1>2, <1>6, <1>9, <1>10

\* A multiple read that is refused for its length clears the temporary entry, which
\* is empty then if the link met no trouble.
LEMMA KeepsTooLong ==
  ASSUME ClientInv, NEW m \in Link, NEW count, CommandTooLong(m, count)
  PROVE  ClientInv'
  <1> USE DEF ClientInv
  <1>1. /\ command = Idle /\ requests' = requests + 1 /\ EraseTmpInfo(m)
        /\ UNCHANGED <<kept, command, proc, event, troubled>>
    BY DEF CommandTooLong
  <1>2. Accounted'
    BY <1>1, ErasesTmp
  <1>3. tmp'[m] = Empty /\ \A l \in Link : l # m => tmp'[l] = tmp[l]
    BY <1>1 DEF EraseTmpInfo, Typed
  <1>4. Typed'
    <2>1. Entry \subseteq Entry'
      BY <1>1, EntryGrows
    <2>2. tmp' \in [Link -> Entry]
      BY <1>1, EmptyIsEntry DEF EraseTmpInfo, Typed
    <2>3. tmp' \in [Link -> Entry'] /\ kept' \in [Link -> Entry']
      BY <1>1, <2>1, <2>2 DEF Typed
    <2>4. requests' \in Nat
      BY <1>1 DEF Typed
    <2> QED BY <2>3, <2>4 DEF Typed
  <1>5. CallsOK'
    <2>1. 1 .. requests \subseteq 1 .. requests + 1
      BY DEF Typed
    <2> QED BY <1>1, <2>1 DEF CallsOK
  <1>6. InPlace'
    <2> SUFFICES ASSUME NEW l \in Link, l \notin troubled PROVE Undisturbed(l)'
      BY <1>1 DEF InPlace
    <2>1. Undisturbed(l)
      BY DEF InPlace
    <2>2. tmp[l] = Empty
      BY <1>1, <2>1, IdleRequest DEF Undisturbed, Starting, Started
    <2>3. tmp'[l] = tmp[l]
      BY <1>3, <2>2
    <2>4. Reporting(l)' <=> Reporting(l)
      BY <1>1 DEF Reporting
    <2> QED BY <1>1, <2>1, <2>3, <2>4, StaysUndisturbed
  <1>7. ReportsOwn'
    BY <1>1 DEF ReportsOwn
  <1> QED BY <1>2, <1>4, <1>5, <1>6, <1>7

LEMMA KeepsReset ==
  ASSUME ClientInv, ResetProcedures
  PROVE  ClientInv'
  <1> USE DEF ClientInv
  <1>1. /\ requests' = requests + 1 /\ proc' = [l \in Link |-> Idle]
        /\ troubled' = troubled \cup {l \in Link : proc[l] # Idle}
        /\ UNCHANGED <<tmp, kept, heap, event>>
    BY DEF ResetProcedures
  <1>2. Typed'
    <2>1. Entry \subseteq Entry' /\ requests' \in Nat
      BY <1>1, EntryGrows DEF Typed
    <2> QED BY <1>1, <2>1 DEF Typed
  <1>3. Accounted' /\ CallsOK' /\ ReportsOwn'
    BY <1>1 DEF Accounted, CallsOK, ReportsOwn
  <1>4. InPlace'
    <2> SUFFICES ASSUME NEW l \in Link, l \notin troubled' PROVE Undisturbed(l)'
      BY DEF InPlace
    <2>1. Undisturbed(l) /\ proc[l] = Idle
      BY <1>1 DEF InPlace
    <2> QED BY <1>1, <2>1 DEF Undisturbed, Reporting
  <1> QED BY <1>2, <1>3, <1>4

LEMMA KeepInfoFacts ==
  ASSUME Typed, KeepInfo
  PROVE  /\ tmp' \in [Link -> Entry] /\ kept' \in [Link -> Entry]
         /\ \A l \in Link : /\ kept[l] = Empty => kept'[l] = tmp[l] /\ tmp'[l] = Empty
                            /\ kept[l] # Empty => kept'[l] = kept[l] /\ tmp'[l] = tmp[l]
  <1>1. Empty \in Entry
    BY EmptyIsEntry
  <1> QED BY <1>1 DEF KeepInfo, Typed

LEMMA WantedNothing ==
  ASSUME CallsOK, NEW l \in Link, proc[l] # Idle, Request(proc[l].name).kinds = <<>>
  PROVE  Wanted(l) = Empty
  <1>1. WellFormed(Request(proc[l].name))
    BY RequestFacts DEF CallsOK
  <1> QED BY <1>1 DEF WellFormed, Wanted, Empty

\* The status of a command: the buffers of the procedure it started become permanent.
LEMMA KeepsStatus ==
  ASSUME ClientInv, StatusMonitor
  PROVE  ClientInv'
  <1> USE DEF ClientInv
  <1>1. /\ command # Idle /\ command' = Idle
        /\ IF command.out /\ command.accepted THEN KeepInfo ELSE UNCHANGED <<tmp, kept>>
        /\ UNCHANGED <<heap, proc, event, requests, troubled>>
    BY DEF StatusMonitor
  <1>2. Typed' /\ Accounted'
    <2>1. CASE KeepInfo
      BY <1>1, <2>1, KeepInfoFacts, Moves DEF Typed, Entry
    <2>2. CASE UNCHANGED <<tmp, kept>>
      BY <1>1, <2>2 DEF Typed, Accounted, Entry
    <2> QED BY <1>1, <2>1, <2>2
  <1>3. CallsOK' /\ ReportsOwn'
    BY <1>1 DEF CallsOK, ReportsOwn
  <1>4. ASSUME NEW l \in Link, l \notin troubled PROVE Undisturbed(l)'
    <2>1. Undisturbed(l) /\ Wanted(l)' = Wanted(l) /\ (Reporting(l)' <=> Reporting(l))
      BY <1>1, <1>4 DEF InPlace, Wanted, Reporting
    <2>2. /\ tmp[l] = Empty /\ kept[l] = Empty => tmp'[l] = Empty /\ kept'[l] = Empty
          /\ tmp[l] = Empty => tmp'[l] = Empty /\ kept'[l] = kept[l]
      BY <1>1, KeepInfoFacts
    <2>3. ASSUME proc[l] # Idle PROVE kept'[l] = Wanted(l) /\ tmp'[l] = Empty
      <3>1. CASE Started(l)
        BY <2>2, <3>1 DEF Started
      <3>2. CASE Starting(l) /\ command.out
        BY <1>1, <3>2, KeepInfoFacts DEF Starting
      <3>3. CASE Starting(l) /\ ~command.out
        <4>1. tmp[l] = Empty /\ kept[l] = Empty /\ Wanted(l) = Empty
          BY <2>3, <3>3, WantedNothing DEF Starting
        <4> QED BY <2>2, <4>1
      <3> QED BY <2>1, <2>3, <3>1, <3>2, <3>3 DEF Undisturbed
    <2>4. proc[l] # Idle => command'.req # proc[l].req
      <3>1. \A n \in 1 .. requests : n # 0
        OBVIOUS
      <3> QED BY <1>1, <3>1 DEF CallsOK, Idle, NoReq
    <2>5. proc[l] # Idle => Started(l)'
      BY <1>1, <2>1, <2>3, <2>4 DEF Started
    <2> QED BY <1>1, <2>1, <2>2, <2>5 DEF Undisturbed
  <1>5. InPlace'
    BY <1>1, <1>4 DEF InPlace
  <1> QED BY <1>2, <1>3, <1>5

\* The event of a procedure that was started long enough ago finds its buffers kept.
LEMMA KeepsEvent ==
  ASSUME ClientInv, NEW m \in Link, NEW ok \in BOOLEAN, ProcedureEvent(m, ok)
  PROVE  ClientInv'
  <1> USE DEF ClientInv
  <1> DEFINE kinds == IF ok THEN Request(proc[m].name).reads ELSE {}
  <1>1. /\ event = Idle /\ proc[m] # Idle
        /\ troubled' = IF command # Idle /\ command.req = proc[m].req
                       THEN troubled \cup {m} ELSE troubled
        /\ proc' = [proc EXCEPT ![m] = Idle]
        /\ UNCHANGED <<tmp, kept, heap, command, requests>>
    BY DEF ProcedureEvent
  <1>2. /\ event' # Idle /\ event'.link = m /\ event'.req = proc[m].req
        /\ event'.read = kept[m] /\ event'.kinds = kinds
    <2>1. PICK a, c : event' = [req |-> proc[m].req, link |-> m, read |-> kept[m], kinds |-> kinds,
                                asked |-> a, count |-> c]
      BY DEF ProcedureEvent
    <2>2. \A n \in 1 .. requests : n # NoReq
      BY DEF NoReq
    <2>3. proc[m].req # NoReq
      BY <1>1, <2>2 DEF CallsOK
    <2> HIDE DEF kinds
    <2>4. event'.link = m /\ event'.req = proc[m].req /\ event'.read = kept[m] /\ event'.kinds = kinds
      BY <2>1
    <2> QED BY <2>3, <2>4 DEF Idle
  <1> HIDE DEF kinds
  <1>3. /\ proc'[m] = Idle /\ proc' = [l \in Link |-> proc'[l]]
        /\ \A l \in Link : l # m => proc'[l] = proc[l]
    BY <1>1 DEF CallsOK
  <1>4. Typed' /\ Accounted'
    BY <1>1 DEF Typed, Accounted, Entry
  <1>5. CallsOK'
    <2>1. \A l \in Link : proc'[l] # Idle => proc'[l].req \in 1 .. requests /\ proc'[l].name \in Commands
      BY <1>3 DEF CallsOK
    <2> QED BY <1>1, <1>2, <1>3, <2>1 DEF CallsOK
  <1>6. ASSUME NEW l \in Link, l \notin troubled', l # m PROVE Undisturbed(l)'
    <2>1. Undisturbed(l) /\ ~Reporting(l) /\ ~Reporting(l)'
      BY <1>1, <1>2, <1>6 DEF InPlace, Reporting
    <2> QED BY <1>1, <1>3, <1>6, <2>1, StaysUndisturbed
  <1>7. ASSUME m \notin troubled' PROVE kept[m] = Wanted(m) /\ tmp[m] = Empty
    <2>1. Undisturbed(m) /\ command.req # proc[m].req
      BY <1>1, <1>7, IdleRequest DEF InPlace
    <2> QED BY <1>1, <2>1 DEF Undisturbed, Starting, Started
  <1>8. m \notin troubled' => Undisturbed(m)'
    BY <1>1, <1>2, <1>3, <1>7 DEF Undisturbed, Reporting
  <1>9. ReportsOwn'
    <2>1. SUFFICES ASSUME m \notin troubled', NEW k \in kinds PROVE kept[m][k] = proc[m].req
      BY <1>2 DEF ReportsOwn
    <2>2. WellFormed(Request(proc[m].name))
      BY <1>1, RequestFacts DEF CallsOK
    <2>3. k \in KindsOf(Request(proc[m].name)) /\ k \in Kind
      BY <2>1, <2>2 DEF WellFormed, kinds
    <2> QED BY <1>7, <2>1, <2>3 DEF Wanted
  <1> QED BY <1>4, <1>5, <1>6, <1>8, <1>9 DEF InPlace

LEMMA KeepsSent ==
  ASSUME ClientInv, EventSent
  PROVE  ClientInv'
  <1> USE DEF ClientInv
  <1> DEFINE m == event.link
  <1>1. /\ event # Idle /\ event' = Idle /\ EraseInfo(m) /\ m \in Link
        /\ UNCHANGED <<tmp, command, proc, requests, troubled>>
    BY DEF EventSent, CallsOK
  <1>2. Accounted'
    BY <1>1, ErasesKept
  <1>3. kept'[m] = Empty /\ \A l \in Link : l # m => kept'[l] = kept[l]
    BY <1>1 DEF EraseInfo, Typed
  <1>4. Typed'
    BY <1>1, EmptyIsEntry DEF EraseInfo, Typed, Entry
  <1>5. CallsOK' /\ ReportsOwn'
    BY <1>1 DEF CallsOK, ReportsOwn
  <1>6. ASSUME NEW l \in Link, l \notin troubled PROVE Undisturbed(l)'
    <2>1. Undisturbed(l) /\ ~Reporting(l)'
      BY <1>1, <1>6 DEF InPlace, Reporting
    <2>2. CASE l = m
      BY <1>1, <1>3, <2>1, <2>2 DEF Undisturbed, Reporting
    <2>3. CASE l # m
      <3>1. ~Reporting(l)
        BY <2>3 DEF Reporting
      <3> QED BY <1>1, <1>3, <2>1, <2>3, <3>1, StaysUndisturbed
    <2> QED BY <2>2, <2>3
  <1> QED BY <1>1, <1>2, <1>4, <1>5, <1>6 DEF InPlace

LEMMA NextInv ==
  ASSUME ClientInv, [Next]_vars
  PROVE  ClientInv'
  <1>1. CASE Host
    <2>1. PICK l \in Link :
            \/ \E name \in Commands, count \in 1 .. MaxCount :
                 \E short \in SUBSET KindsOf(Request(name)) : Command(l, name, count, short)
            \/ \E count \in 1 .. MaxCount : CommandTooLong(l, count)
      BY <1>1 DEF Host
    <2>2. ASSUME NEW name \in Commands, NEW count, NEW short, Command(l, name, count, short)
          PROVE  ClientInv'
      BY <2>2, KeepsHandle DEF Command
    <2> QED BY <2>1, <2>2, KeepsTooLong
  <1>2. CASE ResetProcedures
    BY <1>2, KeepsReset
  <1>3. CASE StatusMonitor
    BY <1>3, KeepsStatus
  <1>4. CASE EventSent
    BY <1>4, KeepsSent
  <1>5. CASE \E l \in Link, ok \in BOOLEAN : ProcedureEvent(l, ok)
    BY <1>5, KeepsEvent
  <1>6. CASE UNCHANGED vars
    BY <1>6 DEF vars, ClientInv, Typed, Entry, Accounted, CallsOK, InPlace, Undisturbed, Reporting,
                Starting, Started, Wanted, ReportsOwn
  <1> QED BY <1>1, <1>2, <1>3, <1>4, <1>5, <1>6 DEF Next

LEMMA InductiveInv == Spec => []ClientInv
  <1> QED BY InitInv, NextInv, PTL DEF Spec

-----------------------------------------------------------------------------
(* The properties.                                                         *)

\* Whatever the stack refuses, however requests, their answers and their events follow
\* one another, and with any number of links: a buffer allocated is in one place of one
\* table (KeepInfo, EraseInfo, EraseTmpInfo free each once and lose none).
THEOREM AccountedCorrect == Spec => []Accounted
  <1> QED BY InductiveInv, PTL DEF ClientInv

\* While the stack runs a procedure on a link that met no refusal, no reset and no
\* overlap, the buffers it writes to are allocated, though commands and events of
\* other links free theirs, refused or not (fsciBleGattStatusMonitor moves all entries).
THEOREM StackWritesLiveCorrect == Spec => []StackWritesLive
  <1>1. ASSUME ClientInv PROVE StackWritesLive
    <2> USE <1>1 DEF ClientInv
    <2> SUFFICES ASSUME NEW l \in Link \ troubled, proc[l] # Idle,
                        NEW k \in KindsOf(Request(proc[l].name))
                 PROVE  <<proc[l].req, k>> \in heap
      BY DEF StackWritesLive
    <2>1. tmp[l] = Wanted(l) \/ kept[l] = Wanted(l)
      BY DEF InPlace, Undisturbed, Starting, Started
    <2>2. WellFormed(Request(proc[l].name))
      BY RequestFacts DEF CallsOK
    <2>3. \A n \in 1 .. requests : n # NoReq
      BY DEF NoReq
    <2>4. k \in Kind /\ Wanted(l)[k] = proc[l].req /\ proc[l].req # NoReq
      BY <2>2, <2>3 DEF Wanted, WellFormed, CallsOK
    <2>5. <<proc[l].req, k>> \in Owned(Wanted(l))
      BY <2>4, OwnedIs
    <2> QED BY <2>1, <2>5 DEF Accounted
  <1> QED BY <1>1, InductiveInv, PTL

\* On such a link the event of a procedure reports what the procedure's own buffers
\* hold, whatever was requested, answered or reported on other links meanwhile.
THEOREM ReportsOwnCorrect == Spec => []ReportsOwn
  <1> QED BY InductiveInv, PTL DEF ClientInv

\* When nothing goes wrong - memory is never short, the host asks nothing of a link whose
\* procedure runs, no procedure is reset and the event of one does not come before the
\* status of its command or last beyond the next command - no link counts as troubled, and
\* the two properties above hold of every link.
THEOREM PlainCourse == Troubles = {} => (Spec => [](troubled = {}))
  <1> SUFFICES ASSUME Troubles = {} PROVE Spec => [](troubled = {})
    OBVIOUS
  <1> DEFINE Quiet == troubled = {}
  <1>1. Init => Quiet
    BY DEF Init
  <1>2. ASSUME ClientInv, Quiet, [Next]_vars PROVE Quiet'
    <2> USE <1>2
    <2>1. ASSUME NEW l \in Link, NEW name \in Commands, NEW count, NEW short,
                 Command(l, name, count, short)
          PROVE  Quiet'
      <3> DEFINE r   == Request(name)
                 got == Obtained(l, Tried(l, r, short), short)
      <3>1. /\ short = {} /\ proc[l] = Idle /\ ~Reporting(l) /\ Handle(l, name, count, short)
        BY <2>1 DEF Command, Reporting
      <3>2. tmp[l] = Empty
        BY <3>1 DEF ClientInv, InPlace, Undisturbed
      <3>3. WellFormed(r)
        BY RequestFacts
      <3>4. \A kinds \in SUBSET Kind : Obtained(l, kinds, short) = kinds
        BY <3>1, <3>2 DEF Obtained, Empty
      <3>5. Tried(l, r, short) = KindsOf(r)
        <4>1. r.kinds # <<>> => Obtained(l, {r.kinds[1]}, short) # {}
          <5>1. r.kinds # <<>> => {r.kinds[1]} \in SUBSET Kind
            BY <3>3 DEF WellFormed
          <5> HIDE DEF r
          <5>2. \A x : {x} # {}
            OBVIOUS
          <5> QED BY <3>4, <5>1, <5>2, Zenon
        <4> HIDE DEF r
        <4> QED BY <4>1 DEF Tried
      <3>6. got = KindsOf(r)
        BY <3>3, <3>4, <3>5 DEF WellFormed
      <3>7. \/ troubled' = IF event # Idle /\ event.link = l THEN troubled \cup {l} ELSE troubled
            \/ Refuses(l, got = KindsOf(r))
            \/ ~(got = KindsOf(r) \/ (r.one /\ got # {}))
        BY <3>1, Zenon DEF Handle
      <3>8. ~Refuses(l, got = KindsOf(r))
        BY <3>1, <3>6 DEF Refuses
      <3> QED BY <3>1, <3>6, <3>7, <3>8 DEF Reporting
    <2>2. CASE Host
      <3>1. ASSUME NEW l \in Link, NEW count, CommandTooLong(l, count) PROVE Quiet'
        BY <3>1 DEF CommandTooLong
      <3> QED BY <2>1, <2>2, <3>1 DEF Host
    <2>3. CASE ResetProcedures
      BY <2>3 DEF ResetProcedures
    <2>4. CASE StatusMonitor \/ EventSent \/ UNCHANGED vars
      BY <2>4 DEF StatusMonitor, EventSent, vars
    <2>5. CASE \E l \in Link, ok \in BOOLEAN : ProcedureEvent(l, ok)
      BY <2>5 DEF ProcedureEvent
    <2> QED BY <2>2, <2>3, <2>4, <2>5 DEF Next
  <1> QED BY <1>1, <1>2, InductiveInv, PTL DEF Spec
=============================================================================
