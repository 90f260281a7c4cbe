------------------------- MODULE GattDatabaseProofs -------------------------
(***************************************************************************)
(* Theorems about GattDatabase for any services and any last handle: the    *)
(* look-ups find what the table holds, whatever additions that failed and   *)
(* services that were removed have made of it; a service the application    *)
(* was told of is whole, and the hash goes into the value told for it.      *)
(***************************************************************************)
EXTENDS GattDatabase, LeastAndGreatest, SequenceTheorems, FiniteSetTheorems, TLAPS

-----------------------------------------------------------------------------
(* The table: handles ascend, and none is smaller than the place of its     *)
(* attribute, counted from 1.                                              *)

Kinds == {"service", "characteristic", "descriptor", "cccd", "value", "hash"}
AttributeType == [handle : 1 .. MaxHandle, kind : Kinds]

TableOK == gattDatabase \in Seq(AttributeType)

AscendsIn(db) ==
  /\ \A i \in 1 .. Len(db) : db[i].handle >= i
  /\ \A i, k \in 1 .. Len(db) : i < k => db[i].handle < db[k].handle

Ascends == AscendsIn(gattDatabase)

LEMMA TableFacts ==
  ASSUME TableOK
  PROVE  /\ Len(gattDatabase) \in Nat
         /\ \A i \in 1 .. Len(gattDatabase) : gattDatabase[i] \in AttributeType
         /\ \A j \in Indices : At(j) \in AttributeType
  BY DEF TableOK, Indices, At, gGattDbAttributeCount_c

LEMMA HandleRange ==
  MaxHandle \in Nat /\ MaxHandle <= 65534 /\ \A h \in 1 .. MaxHandle : h \in Nat /\ h > 0
  <1>1. MaxHandle \in 1 .. 65534
    BY GattDatabaseAssumption
  <1> QED BY <1>1

LEMMA NoneNotService ==
  "none" \notin Services
  BY GattDatabaseAssumption

LEMMA HandleBounds ==
  ASSUME TableOK, Ascends, NEW j \in Indices
  PROVE  At(j).handle \in Nat /\ j < At(j).handle /\ At(j).handle <= 65534
  <1>1. Len(gattDatabase) \in Nat /\ j \in Nat /\ j + 1 \in 1 .. Len(gattDatabase)
    BY TableFacts DEF Indices, gGattDbAttributeCount_c
  <1>2. At(j).handle \in 1 .. MaxHandle
    BY TableFacts DEF AttributeType
  <1>3. At(j).handle >= j + 1
    BY <1>1 DEF Ascends, AscendsIn, At
  <1>4. MaxHandle \in Int /\ MaxHandle <= 65534
    BY GattDatabaseAssumption
  <1>5. \A h \in 1 .. MaxHandle : h >= j + 1 => h \in Nat /\ j < h /\ h <= 65534
    BY <1>1, <1>4
  <1> QED BY <1>2, <1>3, <1>5

\* GattDb_GetIndexOfHandle finds the attribute of every handle that is in the table.
LEMMA IndexOfHandle ==
  ASSUME TableOK, Ascends, NEW j \in Indices
  PROVE  GattDb_GetIndexOfHandle(At(j).handle) = j
  <1> DEFINE handle == At(j).handle
             init   == IF handle >= gGattDbAttributeCount_c
                       THEN gGattDbAttributeCount_c - 1 ELSE handle
             found  == {k \in 0 .. init : /\ At(k).handle = handle
                                          /\ \A m \in k .. init : At(m).handle >= handle}
  <1>0. Len(gattDatabase) \in Nat /\ \A i \in 1 .. Len(gattDatabase) : gattDatabase[i].handle \in Nat
    BY TableFacts, HandleRange DEF AttributeType
  <1>1. j \in 0 .. init /\ init \in Nat /\ init < Len(gattDatabase)
    BY <1>0 DEF Ascends, AscendsIn, At, Indices, gGattDbAttributeCount_c
  <1>2. \A k \in 0 .. init : k # j => At(k).handle # handle
    BY <1>0, <1>1 DEF Ascends, AscendsIn, At, Indices, gGattDbAttributeCount_c
  <1>3. \A m \in j .. init : At(m).handle >= handle
    BY <1>0, <1>1 DEF Ascends, AscendsIn, At, Indices, gGattDbAttributeCount_c
  <1>4. found = {j}
    BY <1>1, <1>2, <1>3
  <1>5. Max(found) = j
    <2>1. Max({j}) = j
      BY <1>1, MaxOfOne
    <2> QED BY <1>4, <2>1
  <1>6. GattDb_GetIndexOfHandle(handle) = IF found = {} THEN gGattDbInvalidHandleIndex_d ELSE Max(found)
    BY DEF GattDb_GetIndexOfHandle
  <1> QED BY <1>4, <1>5, <1>6

\* A handle that is nowhere in the table is not found.
LEMMA IndexOfNoHandle ==
  ASSUME TableOK, NEW h \in Nat, \A j \in Indices : At(j).handle # h
  PROVE  GattDb_GetIndexOfHandle(h) = gGattDbInvalidHandleIndex_d
  <1> DEFINE init  == IF h >= gGattDbAttributeCount_c THEN gGattDbAttributeCount_c - 1 ELSE h
             found == {k \in 0 .. init : /\ At(k).handle = h
                                         /\ \A m \in k .. init : At(m).handle >= h}
  <1>1. 0 .. init \subseteq Indices
    BY TableFacts DEF Indices, gGattDbAttributeCount_c
  <1>2. found = {}
    BY <1>1
  <1> QED BY <1>2 DEF GattDb_GetIndexOfHandle

\* No two attributes have one handle.
LEMMA HandlesDiffer ==
  ASSUME TableOK, Ascends, NEW j \in Indices, NEW k \in Indices, At(j).handle = At(k).handle
  PROVE  j = k
  BY IndexOfHandle

\* IndexFound is what ascending handles give the search.
LEMMA AscendsFound == TableOK /\ Ascends => IndexFound
  <1> SUFFICES ASSUME TableOK, Ascends, NEW h \in 1 .. MaxHandle
               PROVE  LET at == {j \in Indices : At(j).handle = h}
                      IN IF at = {} THEN GattDb_GetIndexOfHandle(h) = gGattDbInvalidHandleIndex_d
                         ELSE at = {GattDb_GetIndexOfHandle(h)}
    BY DEF IndexFound
  <1>1. CASE \E j \in Indices : At(j).handle = h
    <2>1. PICK j \in Indices : At(j).handle = h
      BY <1>1
    <2>2. GattDb_GetIndexOfHandle(h) = j
      BY <2>1, IndexOfHandle
    <2>3. {k \in Indices : At(k).handle = h} = {j}
      BY <2>1, HandlesDiffer
    <2> QED BY <2>2, <2>3
  <1>2. CASE \A j \in Indices : At(j).handle # h
    <2>1. h \in Nat
      BY HandleRange
    <2> QED BY <1>2, <2>1, IndexOfNoHandle
  <1> QED BY <1>1, <1>2

-----------------------------------------------------------------------------
(* Services and their ranges.                                              *)

LEMMA MinOfOne == \A x \in Int : Min({x}) = x
  BY DEF Min

\* e is where the range of the service declared at k ends.
EndsAt(k, e) ==
  /\ e \in k + 1 .. Len(gattDatabase)
  /\ e = Len(gattDatabase) \/ IsServiceDeclaration(e)
  /\ \A i \in k + 1 .. e - 1 : ~ IsServiceDeclaration(i)

LEMMA RangeOfService ==
  ASSUME TableOK, Ascends, NEW k \in Indices, IsServiceDeclaration(k)
  PROVE  \E e \in Nat : /\ EndsAt(k, e)
                        /\ GattDb_FindServiceRange(At(k).handle) = [start |-> k, count |-> e - k]
  <1> DEFINE found == {j \in Indices : At(j).handle = At(k).handle /\ IsServiceDeclaration(j)}
             next(j) == {i \in j + 1 .. gGattDbAttributeCount_c - 1 : IsServiceDeclaration(i)}
             e == IF next(k) = {} THEN gGattDbAttributeCount_c ELSE Min(next(k))
  <1>0. Len(gattDatabase) \in Nat /\ k \in 0 .. Len(gattDatabase) - 1 /\ k \in Int
    BY TableFacts DEF Indices, gGattDbAttributeCount_c
  <1>1. found = {k}
    BY HandlesDiffer
  <1>2. Min(found) = k
    <2>1. Min({k}) = k
      BY <1>0, MinOfOne
    <2> QED BY <1>1, <2>1
  <1>3. GattDb_FindServiceRange(At(k).handle) = [start |-> k, count |-> e - k]
    <2>1. GattDb_FindServiceRange(At(k).handle) =
            IF found = {} THEN NoRange
            ELSE [start |-> Min(found),
                  count |-> (IF next(Min(found)) = {} THEN gGattDbAttributeCount_c
                             ELSE Min(next(Min(found)))) - Min(found)]
      BY DEF GattDb_FindServiceRange
    <2> QED BY <1>1, <1>2, <2>1
  <1>4. EndsAt(k, e)
    <2>1. CASE next(k) = {}
      BY <1>0, <2>1 DEF EndsAt, gGattDbAttributeCount_c
    <2>2. CASE next(k) # {}
      <3>1. next(k) \subseteq Int /\ \A x \in next(k) : k + 1 <= x
        BY <1>0 DEF gGattDbAttributeCount_c
      <3>2. Min(next(k)) \in next(k) /\ \A y \in next(k) : Min(next(k)) <= y
        <4> HIDE DEF next
        <4> QED BY <1>0, <2>2, <3>1, MinFacts
      <3>3. e \in next(k) /\ \A y \in next(k) : e <= y
        <4> HIDE DEF next
        <4> QED BY <2>2, <3>2
      <3>4. e \in k + 1 .. Len(gattDatabase) - 1 /\ IsServiceDeclaration(e)
        BY <3>3 DEF gGattDbAttributeCount_c
      <3>5. \A i \in k + 1 .. Len(gattDatabase) - 1 : IsServiceDeclaration(i) => e <= i
        BY <3>3 DEF gGattDbAttributeCount_c
      <3> HIDE DEF e
      <3> QED BY <1>0, <3>4, <3>5 DEF EndsAt
    <2> QED BY <2>1, <2>2
  <1>5. e \in Nat
    <2> HIDE DEF e
    <2> QED BY <1>0, <1>4 DEF EndsAt
  <1> QED BY <1>3, <1>4, <1>5

LEMMA RangeOfNoService ==
  ASSUME NEW h, \A j \in Indices : At(j).handle = h => ~ IsServiceDeclaration(j)
  PROVE  GattDb_FindServiceRange(h) = NoRange
  BY DEF GattDb_FindServiceRange

LEMMA StartOfService ==
  ASSUME TableOK, Ascends, NEW j \in Indices, NEW m \in 0 .. j, IsServiceDeclaration(m),
         \A i \in m + 1 .. j : ~ IsServiceDeclaration(i)
  PROVE  GattDb_ServiceStartHandle(At(j).handle) = At(m).handle
  <1> DEFINE found == {i \in 0 .. j : IsServiceDeclaration(i)}
  <1>1. j \in Int /\ found \subseteq Int /\ m \in found /\ \A x \in found : x <= j
    BY TableFacts DEF Indices, gGattDbAttributeCount_c
  <1>2. \A x \in found : x <= m
    BY <1>1
  <1>3. Max(found) \in found /\ \A y \in found : y <= Max(found)
    <2> HIDE DEF found
    <2> QED BY <1>1, MaxFacts
  <1>4. Max(found) = m
    <2>1. Max(found) \in Int /\ m \in Int
      BY <1>1, <1>3
    <2>2. Max(found) <= m /\ m <= Max(found)
      <3> HIDE DEF found
      <3> QED BY <1>1, <1>2, <1>3
    <2> QED BY <2>1, <2>2
  <1>5. GattDb_GetIndexOfHandle(At(j).handle) = j
    BY IndexOfHandle
  <1>6. j # gGattDbInvalidHandleIndex_d
    BY <1>1, HandleBounds DEF gGattDbInvalidHandleIndex_d
  <1>7. GattDb_ServiceStartHandle(At(j).handle) =
          IF j = gGattDbInvalidHandleIndex_d \/ found = {}
          THEN gGattDbInvalidHandleIndex_d ELSE At(Max(found)).handle
    BY <1>5 DEF GattDb_ServiceStartHandle
  <1> QED BY <1>1, <1>4, <1>6, <1>7

LEMMA StartOfNoService ==
  ASSUME TableOK, Ascends, NEW j \in Indices, \A i \in 0 .. j : ~ IsServiceDeclaration(i)
  PROVE  GattDb_ServiceStartHandle(At(j).handle) = gGattDbInvalidHandleIndex_d
  <1>1. GattDb_GetIndexOfHandle(At(j).handle) = j
    BY IndexOfHandle
  <1> QED BY <1>1 DEF GattDb_ServiceStartHandle

\* An attribute belongs to a service, or lies in front of all of them.
LEMMA OwnService ==
  ASSUME TableOK, NEW j \in Indices
  PROVE  \/ \A i \in 0 .. j : ~ IsServiceDeclaration(i)
         \/ \E m \in 0 .. j : /\ IsServiceDeclaration(m)
                              /\ \A i \in m + 1 .. j : ~ IsServiceDeclaration(i)
  <1> DEFINE found == {i \in 0 .. j : IsServiceDeclaration(i)}
  <1>1. j \in Int /\ found \subseteq Int /\ \A x \in found : x <= j
    BY TableFacts DEF Indices, gGattDbAttributeCount_c
  <1>2. CASE found # {}
    <2>1. Max(found) \in found /\ \A y \in found : y <= Max(found)
      <3> HIDE DEF found
      <3> QED BY <1>1, <1>2, MaxFacts
    <2>2. PICK m \in 0 .. j : IsServiceDeclaration(m) /\ \A y \in found : y <= m
      BY <2>1
    <2>3. \A i \in m + 1 .. j : ~ IsServiceDeclaration(i)
      BY <1>1, <2>2
    <2> QED BY <2>2, <2>3
  <1> QED BY <1>2

\* RangesAgree holds of every table whose handles ascend.
LEMMA AscendsAgree == TableOK /\ Ascends => RangesAgree
  <1> DEFINE In(j, h) == LET r == GattDb_FindServiceRange(h)
                         IN j \in r.start .. r.start + r.count - 1
  <1> SUFFICES ASSUME TableOK, Ascends, NEW j \in Indices, NEW k \in Indices
               PROVE  In(j, At(k).handle)
                        <=> At(k).handle = GattDb_ServiceStartHandle(At(j).handle)
    BY DEF RangesAgree
  <1>0. /\ Len(gattDatabase) \in Nat
        /\ j \in 0 .. Len(gattDatabase) - 1
        /\ k \in 0 .. Len(gattDatabase) - 1
    BY TableFacts DEF Indices, gGattDbAttributeCount_c
  <1>1. CASE ~ IsServiceDeclaration(k)
    <2>1. GattDb_FindServiceRange(At(k).handle) = NoRange
      BY <1>1, HandlesDiffer, RangeOfNoService
    <2>2. ~ In(j, At(k).handle)
      BY <2>1 DEF NoRange
    <2>3. At(k).handle # gGattDbInvalidHandleIndex_d
      BY HandleBounds DEF gGattDbInvalidHandleIndex_d
    <2>4. CASE \A i \in 0 .. j : ~ IsServiceDeclaration(i)
      BY <2>2, <2>3, <2>4, StartOfNoService
    <2>5. CASE \E m \in 0 .. j : /\ IsServiceDeclaration(m)
                                 /\ \A i \in m + 1 .. j : ~ IsServiceDeclaration(i)
      <3>1. PICK m \in 0 .. j : /\ IsServiceDeclaration(m)
                                /\ \A i \in m + 1 .. j : ~ IsServiceDeclaration(i)
        BY <2>5
      <3>2. GattDb_ServiceStartHandle(At(j).handle) = At(m).handle
        BY <3>1, StartOfService
      <3>3. m \in Indices /\ m # k
        BY <1>0, <1>1, <3>1 DEF Indices, gGattDbAttributeCount_c
      <3>4. At(m).handle # At(k).handle
        BY <3>3, HandlesDiffer
      <3> QED BY <2>2, <3>2, <3>4
    <2> QED BY <2>4, <2>5, OwnService
  <1>2. CASE IsServiceDeclaration(k)
    <2>1. PICK e \in Nat :
            /\ EndsAt(k, e)
            /\ GattDb_FindServiceRange(At(k).handle) = [start |-> k, count |-> e - k]
      BY <1>2, RangeOfService
    <2>2. In(j, At(k).handle) <=> j \in k .. e - 1
      BY <1>0, <2>1 DEF EndsAt
    <2>3. CASE \A i \in 0 .. j : ~ IsServiceDeclaration(i)
      <3>1. j < k
        BY <1>0, <1>2, <2>3
      <3>2. At(k).handle # gGattDbInvalidHandleIndex_d
        BY HandleBounds DEF gGattDbInvalidHandleIndex_d
      <3> QED BY <1>0, <2>1, <2>2, <2>3, <3>1, <3>2, StartOfNoService
    <2>4. CASE \E m \in 0 .. j : /\ IsServiceDeclaration(m)
                                 /\ \A i \in m + 1 .. j : ~ IsServiceDeclaration(i)
      <3>1. PICK m \in 0 .. j : /\ IsServiceDeclaration(m)
                                /\ \A i \in m + 1 .. j : ~ IsServiceDeclaration(i)
        BY <2>4
      <3>2. GattDb_ServiceStartHandle(At(j).handle) = At(m).handle
        BY <3>1, StartOfService
      <3>3. m \in Indices
        BY <1>0 DEF Indices, gGattDbAttributeCount_c
      <3>4. At(k).handle = At(m).handle <=> k = m
        BY <3>3, HandlesDiffer
      <3>5. k = m <=> j \in k .. e - 1
        <4>1. m \in Nat /\ m <= j /\ e \in k + 1 .. Len(gattDatabase)
          BY <1>0, <2>1 DEF EndsAt
        <4>2. CASE k = m
          <5>1. ASSUME e <= j PROVE FALSE
            BY <1>0, <2>1, <3>1, <4>1, <4>2, <5>1 DEF EndsAt
          <5> QED BY <1>0, <4>1, <4>2, <5>1
        <4>3. CASE k < m
          BY <1>0, <2>1, <3>1, <4>1, <4>3 DEF EndsAt
        <4>4. CASE k > m
          BY <1>0, <1>2, <3>1, <4>1, <4>4
        <4> QED BY <1>0, <4>1, <4>2, <4>3, <4>4
      <3> QED BY <2>2, <3>2, <3>4, <3>5
    <2> QED BY <2>3, <2>4, OwnService
  <1> QED BY <1>1, <1>2

-----------------------------------------------------------------------------
(* Where a service sits.  told is what the application was or will be told. *)

CharInfo == [descs : Nat, cccd : BOOLEAN, value : {"value", "hash"}]
CharTold == [handle : Nat, descs : Nat, cccd : Nat]
Told == [handle : Nat \ {0}, chars : Seq(CharTold)]

\* The handle behind a characteristic, and behind the service.
Behind(char) == char.handle + 2 + char.descs + (IF char.cccd # 0 THEN 1 ELSE 0)
EndHandle(told) ==
  IF Len(told.chars) = 0 THEN told.handle + 1 ELSE Behind(told.chars[Len(told.chars)])
Extent(told) == EndHandle(told) - told.handle

\* All of a characteristic's descriptors are there, and its CCCD.
Complete(char, info) == char.descs = info.descs /\ (char.cccd # 0 <=> info.cccd)

\* The characteristics follow one another, and all but the last are complete.
Shape(s, told) ==
  /\ told \in Told
  /\ Len(told.chars) <= Len(ServiceInfo(s))
  /\ \A c \in 1 .. Len(told.chars) :
       LET char == told.chars[c]
       IN /\ char.handle = IF c = 1 THEN told.handle + 1 ELSE Behind(told.chars[c - 1])
          /\ told.handle < char.handle /\ Behind(char) <= EndHandle(told)
          /\ char.cccd # 0 => /\ char.cccd = Behind(char) - 1
                              /\ Complete(char, ServiceInfo(s)[c])
          /\ c < Len(told.chars) => Complete(char, ServiceInfo(s)[c])

Finished(s, told) ==
  /\ Len(told.chars) = Len(ServiceInfo(s))
  /\ \A c \in 1 .. Len(told.chars) : Complete(told.chars[c], ServiceInfo(s)[c])

\* The attributes from place p on are those of the service, in order.
Placed(db, p, s, told) ==
  LET KindOf(h) == db[p + (h - told.handle)].kind
  IN /\ p + Extent(told) <= Len(db) + 1
     /\ \A i \in 0 .. Extent(told) - 1 :
          /\ db[p + i].handle = told.handle + i
          /\ db[p + i].kind = "service" <=> i = 0
     /\ \A c \in 1 .. Len(told.chars) :
          LET char == told.chars[c]
          IN /\ KindOf(char.handle) = "characteristic"
             /\ KindOf(char.handle + 1) = ServiceInfo(s)[c].value
             /\ char.cccd # 0 => KindOf(char.cccd) = "cccd"

\* Behind the service the table ends, or another service begins.
BoundedAt(db, p, told) ==
  p + Extent(told) = Len(db) + 1 \/ db[p + Extent(told)].kind = "service"

Sits(db, s, told) ==
  \E p \in Nat \ {0} : Placed(db, p, s, told) /\ BoundedAt(db, p, told)

IsReported(s) == reported[s] # NotReported

ReportedOK ==
  /\ reported \in [Services -> {NotReported} \cup Told]
  /\ \A s \in Services : IsReported(s) =>
       /\ Shape(s, reported[s]) /\ Finished(s, reported[s])
       /\ Sits(gattDatabase, s, reported[s])

\* The service under way is at the end of the table.
AddOK ==
  \/ Idle
  \/ /\ add \in [service : Services, info : Told]
     /\ Shape(add.service, add.info)
     /\ \E p \in Nat \ {0} : /\ Placed(gattDatabase, p, add.service, add.info)
                             /\ p + Extent(add.info) = Len(gattDatabase) + 1

HandlesApart ==
  \A s \in Services : IsReported(s) =>
    /\ ~ Idle => reported[s].handle # add.info.handle
    /\ \A t \in Services : s # t /\ IsReported(t) => reported[s].handle # reported[t].handle

DatabaseInv == TableOK /\ Ascends /\ ReportedOK /\ AddOK /\ HandlesApart

-----------------------------------------------------------------------------
LEMMA CharacteristicInfo ==
  /\ Characteristic(0, TRUE) \in CharInfo
  /\ Characteristic(0, FALSE) \in CharInfo
  /\ Characteristic(1, TRUE) \in CharInfo
  /\ [Characteristic(0, FALSE) EXCEPT !.value = "hash"] \in CharInfo
  BY DEF Characteristic, CharInfo

LEMMA ShortSequences ==
  ASSUME NEW S
  PROVE  /\ << >> \in Seq(S)
         /\ \A x \in S : <<x>> \in Seq(S)
         /\ \A x \in S : \A n \in Nat : [i \in 1 .. n |-> x] \in Seq(S)
         /\ \A x, y, z \in S : <<x, y, z>> \in Seq(S)
  OBVIOUS

LEMMA InfoFacts ==
  ASSUME NEW s \in Services
  PROVE  ServiceInfo(s) \in Seq(CharInfo)
  <1>1. s \in {"gatt", "gap", "ipss", "heartRate", "battery", "deviceInformation", "hash"}
    BY GattDatabaseAssumption
  <1>2. ServiceInfo("gatt") \in Seq(CharInfo)
    <2>1. ServiceInfo("gatt") = GattService
      BY DEF ServiceInfo
    <2>2. GattService \in Seq(CharInfo)
      BY CharacteristicInfo, ShortSequences, Zenon DEF GattService
    <2> QED BY <2>1, <2>2
  <1>3. ServiceInfo("gap") \in Seq(CharInfo)
    <2>1. ServiceInfo("gap") = GapService
      BY DEF ServiceInfo
    <2>2. GapService \in Seq(CharInfo)
      BY CharacteristicInfo, ShortSequences, Zenon DEF GapService
    <2> QED BY <2>1, <2>2
  <1>4. ServiceInfo("ipss") \in Seq(CharInfo)
    <2>1. ServiceInfo("ipss") = IpssService
      BY DEF ServiceInfo
    <2>2. IpssService \in Seq(CharInfo)
      BY CharacteristicInfo, ShortSequences, Zenon DEF IpssService
    <2> QED BY <2>1, <2>2
  <1>5. ServiceInfo("heartRate") \in Seq(CharInfo)
    <2>1. ServiceInfo("heartRate") = HeartRateService
      BY DEF ServiceInfo
    <2>2. HeartRateService \in Seq(CharInfo)
      BY CharacteristicInfo, ShortSequences, Zenon DEF HeartRateService
    <2> QED BY <2>1, <2>2
  <1>6. ServiceInfo("battery") \in Seq(CharInfo)
    <2>1. ServiceInfo("battery") = BatteryService
      BY DEF ServiceInfo
    <2>2. BatteryService \in Seq(CharInfo)
      BY CharacteristicInfo, ShortSequences, Zenon DEF BatteryService
    <2> QED BY <2>1, <2>2
  <1>7. ServiceInfo("deviceInformation") \in Seq(CharInfo)
    <2>1. ServiceInfo("deviceInformation") = DeviceInformationService
      BY DEF ServiceInfo
    <2>2. DeviceInformationService \in Seq(CharInfo)
      BY CharacteristicInfo, ShortSequences, Zenon DEF DeviceInformationService
    <2> QED BY <2>1, <2>2
  <1>8. ServiceInfo("hash") \in Seq(CharInfo)
    <2>1. ServiceInfo("hash") = HashService
      BY DEF ServiceInfo
    <2>2. HashService \in Seq(CharInfo)
      BY CharacteristicInfo, ShortSequences, Zenon DEF HashService
    <2> QED BY <2>1, <2>2
  <1> QED BY <1>1, <1>2, <1>3, <1>4, <1>5, <1>6, <1>7, <1>8

LEMMA ExtentFacts ==
  ASSUME NEW s, NEW told, Shape(s, told)
  PROVE  /\ told.handle \in Nat \ {0}
         /\ Len(told.chars) \in Nat
         /\ \A c \in 1 .. Len(told.chars) :
              /\ told.chars[c] \in CharTold
              /\ Behind(told.chars[c]) \in Nat
              /\ Behind(told.chars[c]) >= told.chars[c].handle + 2
              /\ told.handle < told.chars[c].handle
              /\ Behind(told.chars[c]) <= EndHandle(told)
         /\ EndHandle(told) \in Nat
         /\ Extent(told) \in Nat \ {0}
  <1>1. /\ told.handle \in Nat \ {0}
        /\ Len(told.chars) \in Nat
        /\ \A c \in 1 .. Len(told.chars) : told.chars[c] \in CharTold
    BY DEF Shape, Told
  <1>2. \A c \in 1 .. Len(told.chars) :
          /\ Behind(told.chars[c]) \in Nat
          /\ Behind(told.chars[c]) >= told.chars[c].handle + 2
    BY <1>1 DEF Behind, CharTold
  <1>3. \A c \in 1 .. Len(told.chars) :
          told.handle < told.chars[c].handle /\ Behind(told.chars[c]) <= EndHandle(told)
    BY DEF Shape
  <1>4. EndHandle(told) \in Nat /\ EndHandle(told) > told.handle
    <2>1. CASE Len(told.chars) = 0
      BY <1>1, <2>1 DEF EndHandle
    <2>2. CASE Len(told.chars) # 0
      <3>1. Len(told.chars) \in 1 .. Len(told.chars)
        BY <1>1, <2>2
      <3>2. told.chars[Len(told.chars)].handle \in Nat
        BY <1>1, <3>1 DEF CharTold
      <3> QED BY <1>1, <1>2, <1>3, <2>2, <3>1, <3>2 DEF EndHandle
    <2> QED BY <2>1, <2>2
  <1>5. Extent(told) \in Nat \ {0}
    BY <1>1, <1>4 DEF Extent
  <1> QED BY <1>1, <1>2, <1>3, <1>4, <1>5

\* A service sits where its attributes have moved to.
LEMMA Moved ==
  ASSUME NEW db, NEW db2, NEW p \in Nat, NEW q \in Nat, NEW s, NEW told,
         Shape(s, told), Placed(db, p, s, told),
         q + Extent(told) <= Len(db2) + 1,
         \A i \in 0 .. Extent(told) - 1 : /\ db2[q + i].handle = db[p + i].handle
                                          /\ db2[q + i].kind = db[p + i].kind
  PROVE  Placed(db2, q, s, told)
  <1>1. \A h \in told.handle .. EndHandle(told) - 1 :
          db2[q + (h - told.handle)].kind = db[p + (h - told.handle)].kind
    <2> SUFFICES ASSUME NEW h \in told.handle .. EndHandle(told) - 1
                 PROVE  db2[q + (h - told.handle)].kind = db[p + (h - told.handle)].kind
      OBVIOUS
    <2>1. told.handle \in Nat /\ EndHandle(told) \in Nat
      BY ExtentFacts
    <2>2. h - told.handle \in 0 .. Extent(told) - 1
      BY <2>1 DEF Extent
    <2> QED BY <2>2
  <1>2. \A c \in 1 .. Len(told.chars) :
          LET char == told.chars[c]
          IN /\ char.handle \in told.handle .. EndHandle(told) - 1
             /\ char.handle + 1 \in told.handle .. EndHandle(told) - 1
             /\ char.cccd # 0 => char.cccd \in told.handle .. EndHandle(told) - 1
    <2> SUFFICES ASSUME NEW c \in 1 .. Len(told.chars)
                 PROVE  LET char == told.chars[c]
                        IN /\ char.handle \in told.handle .. EndHandle(told) - 1
                           /\ char.handle + 1 \in told.handle .. EndHandle(told) - 1
                           /\ char.cccd # 0 => char.cccd \in told.handle .. EndHandle(told) - 1
      OBVIOUS
    <2>1. told.chars[c].cccd # 0 => told.chars[c].cccd = Behind(told.chars[c]) - 1
      BY DEF Shape
    <2>2. /\ told.handle \in Nat /\ EndHandle(told) \in Nat
          /\ told.chars[c].handle \in Nat /\ Behind(told.chars[c]) \in Nat
          /\ Behind(told.chars[c]) >= told.chars[c].handle + 2
          /\ told.handle < told.chars[c].handle
          /\ Behind(told.chars[c]) <= EndHandle(told)
      BY ExtentFacts DEF CharTold
    <2>3. /\ told.chars[c].handle \in told.handle .. EndHandle(told) - 1
          /\ told.chars[c].handle + 1 \in told.handle .. EndHandle(told) - 1
          /\ Behind(told.chars[c]) - 1 \in told.handle .. EndHandle(told) - 1
      <3>1. \A t, e, h, b \in Nat : b >= h + 2 /\ t < h /\ b <= e =>
              h \in t .. e - 1 /\ h + 1 \in t .. e - 1 /\ b - 1 \in t .. e - 1
        OBVIOUS
      <3> QED BY <2>2, <3>1
    <2> QED BY <2>1, <2>3
  <1>3. \A i \in 0 .. Extent(told) - 1 :
          /\ db2[q + i].handle = told.handle + i
          /\ db2[q + i].kind = "service" <=> i = 0
    BY DEF Placed
  <1> QED BY <1>1, <1>2, <1>3 DEF Placed

\* What is appended does not move what is there.
Extends(db, db2) ==
  /\ Len(db2) \in Nat /\ Len(db) < Len(db2)
  /\ \A i \in 1 .. Len(db) : db2[i] = db[i]

LEMMA PlacedExtends ==
  ASSUME NEW db, NEW db2, Len(db) \in Nat, Extends(db, db2), NEW s, NEW told, Shape(s, told),
         NEW p \in Nat \ {0}, Placed(db, p, s, told)
  PROVE  Placed(db2, p, s, told)
  <1>1. Extent(told) \in Nat /\ p + Extent(told) <= Len(db) + 1
    BY ExtentFacts DEF Placed
  <1>2. \A i \in 0 .. Extent(told) - 1 : p + i \in 1 .. Len(db)
    BY <1>1
  <1>3. p + Extent(told) <= Len(db2) + 1
    BY <1>1 DEF Extends
  <1> QED BY <1>2, <1>3, Moved DEF Extends

\* A new service begins behind all others.
LEMMA SitsBeforeService ==
  ASSUME NEW db, NEW db2, Len(db) \in Nat, Extends(db, db2), db2[Len(db) + 1].kind = "service",
         NEW s, NEW told, Shape(s, told), Sits(db, s, told)
  PROVE  Sits(db2, s, told)
  <1>1. PICK p \in Nat \ {0} : Placed(db, p, s, told) /\ BoundedAt(db, p, told)
    BY DEF Sits
  <1>2. Placed(db2, p, s, told)
    BY <1>1, PlacedExtends
  <1>3. Extent(told) \in Nat /\ p + Extent(told) <= Len(db) + 1
    BY <1>1, ExtentFacts DEF Placed
  <1>4. CASE p + Extent(told) = Len(db) + 1
    BY <1>2, <1>4 DEF Sits, BoundedAt
  <1>5. CASE p + Extent(told) # Len(db) + 1
    <2>1. p + Extent(told) \in 1 .. Len(db)
      BY <1>3, <1>5
    <2> QED BY <1>1, <1>2, <1>5, <2>1 DEF Sits, BoundedAt, Extends
  <1> QED BY <1>4, <1>5

\* Two services that are not at one place do not overlap.
LEMMA NoOverlap ==
  ASSUME NEW db, Len(db) \in Nat,
         NEW s, NEW told, Shape(s, told), NEW p \in Nat \ {0}, Placed(db, p, s, told),
         NEW t, NEW told2, Shape(t, told2), NEW q \in Nat \ {0}, Placed(db, q, t, told2),
         told.handle # told2.handle
  PROVE  p + Extent(told) <= q \/ q + Extent(told2) <= p
  <1>1. Extent(told) \in Nat \ {0} /\ Extent(told2) \in Nat \ {0}
    BY ExtentFacts
  <1>2. db[p].kind = "service" /\ db[p].handle = told.handle
    <2>1. 0 \in 0 .. Extent(told) - 1 /\ p + 0 = p /\ told.handle + 0 = told.handle
      BY <1>1, ExtentFacts
    <2> QED BY <2>1 DEF Placed
  <1>3. db[q].kind = "service" /\ db[q].handle = told2.handle
    <2>1. 0 \in 0 .. Extent(told2) - 1 /\ q + 0 = q /\ told2.handle + 0 = told2.handle
      BY <1>1, ExtentFacts
    <2> QED BY <2>1 DEF Placed
  <1>4. p # q
    BY <1>2, <1>3
  <1>5. ASSUME p < q, q < p + Extent(told) PROVE FALSE
    <2>1. q - p \in 0 .. Extent(told) - 1 /\ q - p # 0 /\ p + (q - p) = q
      BY <1>1, <1>5
    <2> QED BY <1>3, <2>1 DEF Placed
  <1>6. ASSUME q < p, p < q + Extent(told2) PROVE FALSE
    <2>1. p - q \in 0 .. Extent(told2) - 1 /\ p - q # 0 /\ q + (p - q) = p
      BY <1>1, <1>6
    <2> QED BY <1>2, <2>1 DEF Placed
  <1> QED BY <1>1, <1>4, <1>5, <1>6

\* While a service grows at the end of the table, the others are in front of it.
LEMMA SitsBeforeGrowth ==
  ASSUME NEW db, NEW db2, Len(db) \in Nat, Extends(db, db2),
         NEW s, NEW told, Shape(s, told), Sits(db, s, told),
         NEW t, NEW told2, Shape(t, told2), NEW q \in Nat \ {0}, Placed(db, q, t, told2),
         q + Extent(told2) = Len(db) + 1, told.handle # told2.handle
  PROVE  Sits(db2, s, told)
  <1>1. PICK p \in Nat \ {0} : Placed(db, p, s, told) /\ BoundedAt(db, p, told)
    BY DEF Sits
  <1>2. Placed(db2, p, s, told)
    BY <1>1, PlacedExtends
  <1>3. /\ Extent(told) \in Nat \ {0} /\ Extent(told2) \in Nat \ {0}
        /\ p + Extent(told) <= Len(db) + 1
    BY <1>1, ExtentFacts DEF Placed
  <1>4. p + Extent(told) <= q
    <2>1. p + Extent(told) <= q \/ q + Extent(told2) <= p
      BY <1>1, NoOverlap
    <2> QED BY <1>3, <2>1
  <1>5. p + Extent(told) \in 1 .. Len(db)
    BY <1>3, <1>4
  <1>6. db[p + Extent(told)].kind = "service"
    BY <1>1, <1>3, <1>5 DEF BoundedAt
  <1> QED BY <1>2, <1>5, <1>6 DEF Sits, BoundedAt, Extends

\* db2 is db without the attributes from place q on, n of them.
Removes(db, db2, q, n) ==
  /\ q \in Nat \ {0} /\ n \in Nat /\ q + n <= Len(db) + 1
  /\ Len(db2) = Len(db) - n
  /\ \A i \in 1 .. q - 1 : db2[i] = db[i]
  /\ \A i \in q .. Len(db) - n : db2[i] = db[i + n]

\* A service that is removed leaves the others as they are, further down or not.
LEMMA SitsWithout ==
  ASSUME NEW db, NEW db2, Len(db) \in Nat,
         NEW s, NEW told, Shape(s, told), Sits(db, s, told),
         NEW t, NEW told2, Shape(t, told2), NEW q \in Nat \ {0}, Placed(db, q, t, told2),
         BoundedAt(db, q, told2),
         Removes(db, db2, q, Extent(told2)), told.handle # told2.handle
  PROVE  Sits(db2, s, told)
  <1> DEFINE n == Extent(told2)
             m == Extent(told)
  <1>1. PICK p \in Nat \ {0} : Placed(db, p, s, told) /\ BoundedAt(db, p, told)
    BY DEF Sits
  <1>2. /\ m \in Nat \ {0} /\ n \in Nat \ {0}
        /\ p + m <= Len(db) + 1 /\ q + n <= Len(db) + 1
    BY <1>1, ExtentFacts DEF Placed
  <1>3. p + m <= q \/ q + n <= p
    BY <1>1, NoOverlap
  <1>4. Len(db2) = Len(db) - n /\ Len(db2) \in Nat
    BY <1>2 DEF Removes
  <1>5. CASE p + m <= q
    <2>1. \A i \in 0 .. m - 1 : db2[p + i] = db[p + i]
      <3>1. \A i \in 0 .. m - 1 : p + i \in 1 .. q - 1
        BY <1>2, <1>5
      <3> QED BY <3>1 DEF Removes
    <2>2. p + m <= Len(db2) + 1
      BY <1>2, <1>4, <1>5
    <2>3. Placed(db2, p, s, told)
      BY <1>1, <2>1, <2>2, Moved
    <2>4. BoundedAt(db2, p, told)
      <3>1. CASE p + m < q
        <4>1. p + m \in 1 .. q - 1 /\ p + m # Len(db) + 1
          BY <1>2, <3>1
        <4> QED BY <1>1, <4>1 DEF BoundedAt, Removes
      <3>2. CASE p + m = q
        <4>1. CASE q + n = Len(db) + 1
          BY <1>2, <1>4, <3>2, <4>1 DEF BoundedAt
        <4>2. CASE q + n # Len(db) + 1
          <5>1. db[q + n].kind = "service"
            BY <4>2 DEF BoundedAt
          <5>2. q \in q .. Len(db) - n
            BY <1>2, <4>2
          <5>3. db2[q] = db[q + n]
            BY <5>2 DEF Removes
          <5> QED BY <3>2, <5>1, <5>3 DEF BoundedAt
        <4> QED BY <4>1, <4>2
      <3> QED BY <1>2, <1>5, <3>1, <3>2
    <2> QED BY <2>3, <2>4 DEF Sits
  <1>6. CASE q + n <= p
    <2>1. p - n \in Nat \ {0}
      BY <1>2, <1>6
    <2>2. \A i \in 0 .. m - 1 : db2[(p - n) + i] = db[p + i]
      <3>1. \A i \in 0 .. m - 1 : (p - n) + i \in q .. Len(db) - n /\ ((p - n) + i) + n = p + i
        BY <1>2, <1>6
      <3> QED BY <3>1 DEF Removes
    <2>3. (p - n) + m <= Len(db2) + 1
      BY <1>2, <1>4
    <2>4. Placed(db2, p - n, s, told)
      BY <1>1, <2>1, <2>2, <2>3, Moved
    <2>5. BoundedAt(db2, p - n, told)
      <3>1. CASE p + m = Len(db) + 1
        BY <1>2, <1>4, <3>1 DEF BoundedAt
      <3>2. CASE p + m # Len(db) + 1
        <4>1. db[p + m].kind = "service"
          BY <1>1, <3>2 DEF BoundedAt
        <4>2. (p - n) + m \in q .. Len(db) - n /\ ((p - n) + m) + n = p + m
          BY <1>2, <1>6, <3>2
        <4>3. db2[(p - n) + m] = db[p + m]
          BY <4>2 DEF Removes
        <4> QED BY <4>1, <4>3 DEF BoundedAt
      <3> QED BY <3>1, <3>2
    <2> QED BY <2>1, <2>4, <2>5 DEF Sits
  <1> QED BY <1>3, <1>5, <1>6

-----------------------------------------------------------------------------
(* What the calls of the library do to the table.                          *)

LEMMA AttributeFacts ==
  ASSUME NEW h \in 1 .. MaxHandle, NEW k \in Kinds
  PROVE  /\ Attribute(h, k) \in AttributeType
         /\ Attribute(h, k).handle = h /\ Attribute(h, k).kind = k
  BY DEF Attribute, AttributeType

LEMMA LastHandleFacts ==
  ASSUME TableOK, Ascends
  PROVE  /\ LastHandle \in Nat /\ Len(gattDatabase) <= LastHandle
         /\ \A i \in 1 .. Len(gattDatabase) : gattDatabase[i].handle <= LastHandle
  <1>0. /\ Len(gattDatabase) \in Nat
        /\ \A i \in 1 .. Len(gattDatabase) : gattDatabase[i].handle \in Nat
        /\ gattDatabase = <<>> <=> Len(gattDatabase) = 0
    <2>1. \A i \in 1 .. Len(gattDatabase) : gattDatabase[i].handle \in 1 .. MaxHandle
      BY TableFacts DEF AttributeType
    <2> QED BY <2>1, TableFacts, HandleRange DEF TableOK
  <1>1. CASE gattDatabase = <<>>
    BY <1>0, <1>1 DEF LastHandle
  <1>2. CASE gattDatabase # <<>>
    <2>1. Len(gattDatabase) \in 1 .. Len(gattDatabase)
      BY <1>0, <1>2
    <2>2. LastHandle = gattDatabase[Len(gattDatabase)].handle
      BY <1>2 DEF LastHandle
    <2>3. \A i \in 1 .. Len(gattDatabase) : i < Len(gattDatabase) =>
            gattDatabase[i].handle < gattDatabase[Len(gattDatabase)].handle
      BY <2>1 DEF Ascends, AscendsIn
    <2>4. gattDatabase[Len(gattDatabase)].handle >= Len(gattDatabase)
      BY <2>1 DEF Ascends, AscendsIn
    <2> QED BY <1>0, <2>1, <2>2, <2>3, <2>4
  <1> QED BY <1>1, <1>2

\* Attributes appended behind the last handle.
LEMMA Appends ==
  ASSUME TableOK, Ascends, NEW new \in Seq(AttributeType), Len(new) > 0,
         new[1].handle > LastHandle,
         \A i, k \in 1 .. Len(new) : i < k => new[i].handle < new[k].handle,
         \A i \in 1 .. Len(new) : new[i].handle >= new[1].handle + (i - 1),
         gattDatabase' = gattDatabase \o new
  PROVE  /\ TableOK' /\ Ascends'
         /\ Extends(gattDatabase, gattDatabase')
         /\ Len(gattDatabase') = Len(gattDatabase) + Len(new)
         /\ \A i \in 1 .. Len(new) : gattDatabase'[Len(gattDatabase) + i] = new[i]
  <1>1. gattDatabase \in Seq(AttributeType)
    BY DEF TableOK
  <1>2. /\ gattDatabase' \in Seq(AttributeType)
        /\ Len(gattDatabase') = Len(gattDatabase) + Len(new)
        /\ \A i \in 1 .. Len(gattDatabase) + Len(new) :
             gattDatabase'[i] = IF i <= Len(gattDatabase) THEN gattDatabase[i]
                                ELSE new[i - Len(gattDatabase)]
    BY <1>1, ConcatProperties
  <1>3. Len(gattDatabase) \in Nat /\ Len(new) \in Nat
    BY <1>1
  <1>4. \A i \in 1 .. Len(new) : gattDatabase'[Len(gattDatabase) + i] = new[i]
    <2> SUFFICES ASSUME NEW i \in 1 .. Len(new)
                 PROVE  gattDatabase'[Len(gattDatabase) + i] = new[i]
      OBVIOUS
    <2>1. /\ Len(gattDatabase) + i \in 1 .. Len(gattDatabase) + Len(new)
          /\ ~ (Len(gattDatabase) + i <= Len(gattDatabase))
          /\ (Len(gattDatabase) + i) - Len(gattDatabase) = i
      BY <1>3
    <2> QED BY <1>2, <2>1
  <1>5. \A i \in 1 .. Len(gattDatabase) : gattDatabase'[i] = gattDatabase[i]
    BY <1>2, <1>3
  <1>6. TableOK' /\ Extends(gattDatabase, gattDatabase')
    BY <1>2, <1>3, <1>5 DEF TableOK, Extends
  <1>7. \A i \in 1 .. Len(gattDatabase') :
          \/ i \in 1 .. Len(gattDatabase)
          \/ \E k \in 1 .. Len(new) : i = Len(gattDatabase) + k
    <2> SUFFICES ASSUME NEW i \in 1 .. Len(gattDatabase'), i > Len(gattDatabase)
                 PROVE  \E k \in 1 .. Len(new) : i = Len(gattDatabase) + k
      BY <1>2, <1>3
    <2>1. i - Len(gattDatabase) \in 1 .. Len(new) /\ i = Len(gattDatabase) + (i - Len(gattDatabase))
      BY <1>2, <1>3
    <2> QED BY <2>1
  <1>8. /\ \A i \in 1 .. Len(gattDatabase) : gattDatabase[i].handle \in Nat
        /\ \A i \in 1 .. Len(new) : new[i].handle \in Nat
    <2>1. 1 .. MaxHandle \subseteq Nat
      BY HandleRange
    <2>2. \A i \in 1 .. Len(gattDatabase) : gattDatabase[i].handle \in 1 .. MaxHandle
      BY TableFacts DEF AttributeType
    <2>3. \A i \in 1 .. Len(new) : new[i] \in AttributeType
      BY ElementOfSeq
    <2>4. \A i \in 1 .. Len(new) : new[i].handle \in 1 .. MaxHandle
      BY <2>3 DEF AttributeType
    <2> QED BY <2>1, <2>2, <2>4
  <1>9. \A i \in 1 .. Len(new) : new[i].handle > LastHandle /\ new[i].handle >= LastHandle + i
    <2>1. LastHandle \in Nat /\ 1 \in 1 .. Len(new)
      BY <1>3, LastHandleFacts
    <2> QED BY <1>8, <2>1
  <1>10. \A i \in 1 .. Len(gattDatabase') : gattDatabase'[i].handle >= i
    <2> SUFFICES ASSUME NEW i \in 1 .. Len(gattDatabase') PROVE gattDatabase'[i].handle >= i
      OBVIOUS
    <2>1. CASE i \in 1 .. Len(gattDatabase)
      BY <1>5, <2>1 DEF Ascends, AscendsIn
    <2>2. CASE \E k \in 1 .. Len(new) : i = Len(gattDatabase) + k
      <3>1. PICK k \in 1 .. Len(new) : i = Len(gattDatabase) + k
        BY <2>2
      <3>2. gattDatabase'[i] = new[k]
        BY <1>4, <3>1
      <3>3. new[k].handle \in Nat /\ new[k].handle >= LastHandle + k
        BY <1>8, <1>9
      <3>4. LastHandle \in Nat /\ LastHandle >= Len(gattDatabase)
        BY LastHandleFacts
      <3> QED BY <1>3, <3>1, <3>2, <3>3, <3>4
    <2> QED BY <1>7, <2>1, <2>2
  <1>11. \A i, k \in 1 .. Len(gattDatabase') :
           i < k => gattDatabase'[i].handle < gattDatabase'[k].handle
    <2> SUFFICES ASSUME NEW i \in 1 .. Len(gattDatabase'), NEW k \in 1 .. Len(gattDatabase'), i < k
                 PROVE  gattDatabase'[i].handle < gattDatabase'[k].handle
      OBVIOUS
    <2>1. CASE k \in 1 .. Len(gattDatabase)
      <3>1. i \in 1 .. Len(gattDatabase)
        BY <1>3, <2>1
      <3> QED BY <1>5, <2>1, <3>1 DEF Ascends, AscendsIn
    <2>2. CASE \E m \in 1 .. Len(new) : k = Len(gattDatabase) + m
      <3>1. PICK m \in 1 .. Len(new) : k = Len(gattDatabase) + m
        BY <2>2
      <3>2. gattDatabase'[k] = new[m]
        BY <1>4, <3>1
      <3>3. CASE i \in 1 .. Len(gattDatabase)
        <4>1. gattDatabase'[i].handle <= LastHandle /\ gattDatabase'[i].handle \in Nat
          BY <1>5, <1>8, <3>3, LastHandleFacts
        <4>2. new[m].handle > LastHandle /\ new[m].handle \in Nat /\ LastHandle \in Nat
          BY <1>8, <1>9, LastHandleFacts
        <4>3. \A x, y, z \in Nat : x <= z /\ y > z => x < y
          OBVIOUS
        <4> QED BY <3>2, <4>1, <4>2, <4>3
      <3>4. CASE \E n \in 1 .. Len(new) : i = Len(gattDatabase) + n
        <4>1. PICK n \in 1 .. Len(new) : i = Len(gattDatabase) + n
          BY <3>4
        <4>2. gattDatabase'[i] = new[n]
          BY <1>4, <4>1
        <4>3. n < m
          BY <1>3, <3>1, <4>1
        <4>4. new[n].handle < new[m].handle
          BY <4>3
        <4> QED BY <3>2, <4>2, <4>4
      <3> QED BY <1>7, <3>3, <3>4
    <2> QED BY <1>7, <2>1, <2>2
  <1> QED BY <1>2, <1>4, <1>6, <1>10, <1>11 DEF Ascends, AscendsIn

LEMMA AppendsOne ==
  ASSUME TableOK, Ascends, NEW h, NEW k \in Kinds, h \in Nat, h > LastHandle, Append1(h, k)
  PROVE  /\ TableOK' /\ Ascends'
         /\ Extends(gattDatabase, gattDatabase')
         /\ Len(gattDatabase') = Len(gattDatabase) + 1
         /\ gattDatabase'[Len(gattDatabase) + 1].handle = h
         /\ gattDatabase'[Len(gattDatabase) + 1].kind = k
  <1> DEFINE new == <<Attribute(h, k)>>
  <1>1. h \in 1 .. MaxHandle
    BY LastHandleFacts, HandleRange DEF Append1
  <1>2. Attribute(h, k) \in AttributeType /\ Attribute(h, k).handle = h /\ Attribute(h, k).kind = k
    BY <1>1, AttributeFacts
  <1>3. new \in Seq(AttributeType) /\ Len(new) = 1 /\ new[1] = Attribute(h, k)
    BY <1>2
  <1>4. gattDatabase' = gattDatabase \o new
    BY <1>2 DEF Append1, TableOK
  <1>5. /\ \A i, m \in 1 .. Len(new) : i < m => new[i].handle < new[m].handle
        /\ \A i \in 1 .. Len(new) : new[i].handle >= new[1].handle + (i - 1)
    BY <1>1, <1>2, <1>3
  <1>6. new[1].handle > LastHandle
    BY <1>2, <1>3
  <1>7. gattDatabase'[Len(gattDatabase) + 1] = new[1]
    <2> HIDE DEF new
    <2> QED BY <1>3, <1>4, <1>5, <1>6, Appends
  <1>8. /\ TableOK' /\ Ascends' /\ Extends(gattDatabase, gattDatabase')
        /\ Len(gattDatabase') = Len(gattDatabase) + Len(new)
    <2>1. Len(new) > 0
      BY <1>3
    <2> HIDE DEF new
    <2> QED BY <1>3, <1>4, <1>5, <1>6, <2>1, Appends
  <1> QED BY <1>2, <1>3, <1>7, <1>8

-----------------------------------------------------------------------------
(* One lemma per action: the invariant is kept.                            *)

LEMMA PlacedFirst ==
  ASSUME NEW db, NEW s, NEW told, Shape(s, told), NEW p \in Nat \ {0}, Placed(db, p, s, told)
  PROVE  db[p].kind = "service" /\ db[p].handle = told.handle
  <1>1. 0 \in 0 .. Extent(told) - 1 /\ p + 0 = p /\ told.handle + 0 = told.handle
    BY ExtentFacts
  <1> QED BY <1>1 DEF Placed

\* What was reported, or is under way, has handles of the table.
LEMMA PlacedHandle ==
  ASSUME TableOK, Ascends, NEW s, NEW told, Shape(s, told),
         NEW p \in Nat \ {0}, Placed(gattDatabase, p, s, told)
  PROVE  told.handle <= LastHandle
  <1>1. p \in 1 .. Len(gattDatabase)
    BY TableFacts, ExtentFacts DEF Placed
  <1> QED BY <1>1, PlacedFirst, LastHandleFacts

\* The next handle is the one behind the service under way.
LEMMA PlacedLast ==
  ASSUME TableOK, Ascends, NEW s, NEW told, Shape(s, told),
         NEW p \in Nat \ {0}, Placed(gattDatabase, p, s, told),
         p + Extent(told) = Len(gattDatabase) + 1
  PROVE  LastHandle + 1 = EndHandle(told)
  <1>1. /\ Extent(told) \in Nat \ {0} /\ Extent(told) = EndHandle(told) - told.handle
        /\ EndHandle(told) \in Nat /\ told.handle \in Nat
    BY ExtentFacts DEF Extent
  <1>2. Len(gattDatabase) \in Nat /\ gattDatabase # <<>>
    BY <1>1, TableFacts
  <1>3. /\ Extent(told) - 1 \in 0 .. Extent(told) - 1
        /\ p + (Extent(told) - 1) = Len(gattDatabase)
    BY <1>1, <1>2
  <1>4. gattDatabase[Len(gattDatabase)].handle = told.handle + (Extent(told) - 1)
    BY <1>3 DEF Placed
  <1> QED BY <1>1, <1>2, <1>4 DEF LastHandle

\* The service under way has grown by the attributes that were appended.
LEMMA PlacedGrows ==
  ASSUME NEW db, NEW db2, Len(db) \in Nat, Extends(db, db2),
         NEW s, NEW told, Shape(s, told), NEW told2, Shape(s, told2), told2.handle = told.handle,
         NEW p \in Nat \ {0}, Placed(db, p, s, told), p + Extent(told) = Len(db) + 1,
         p + Extent(told2) = Len(db2) + 1,
         \A i \in Len(db) + 1 .. Len(db2) : /\ db2[i].handle = told.handle + (i - p)
                                            /\ db2[i].kind # "service",
         \A c \in 1 .. Len(told2.chars) :
           LET char == told2.chars[c]
               KindOf(h) == db2[p + (h - told2.handle)].kind
           IN /\ KindOf(char.handle) = "characteristic"
              /\ KindOf(char.handle + 1) = ServiceInfo(s)[c].value
              /\ char.cccd # 0 => KindOf(char.cccd) = "cccd"
  PROVE  Placed(db2, p, s, told2)
  <1>1. Placed(db2, p, s, told)
    BY PlacedExtends
  <1>2. /\ Extent(told) \in Nat \ {0} /\ Extent(told2) \in Nat \ {0}
        /\ told.handle \in Nat /\ Len(db2) \in Nat
    BY ExtentFacts DEF Extends
  <1>3. \A i \in 0 .. Extent(told2) - 1 :
          /\ db2[p + i].handle = told2.handle + i
          /\ db2[p + i].kind = "service" <=> i = 0
    <2> SUFFICES ASSUME NEW i \in 0 .. Extent(told2) - 1
                 PROVE  /\ db2[p + i].handle = told2.handle + i
                        /\ db2[p + i].kind = "service" <=> i = 0
      OBVIOUS
    <2>1. CASE i \in 0 .. Extent(told) - 1
      BY <1>1, <2>1 DEF Placed
    <2>2. CASE i >= Extent(told)
      <3>1. p + i \in Len(db) + 1 .. Len(db2) /\ (p + i) - p = i /\ i # 0
        BY <1>2, <2>2
      <3>2. db2[p + i].handle = told.handle + ((p + i) - p) /\ db2[p + i].kind # "service"
        BY <3>1
      <3> QED BY <3>1, <3>2
    <2> QED BY <1>2, <2>1, <2>2
  <1> QED BY <1>2, <1>3 DEF Placed

LEMMA KeepsPrimary ==
  ASSUME DatabaseInv, NEW s \in Services, AddPrimaryServiceDeclaration(s)
  PROVE  DatabaseInv'
  <1> USE DEF DatabaseInv
  <1> DEFINE h == LastHandle + 1
             told == [handle |-> h, chars |-> <<>>]
             p == Len(gattDatabase) + 1
  <1>1. Idle /\ Append1(h, "service") /\ add' = [service |-> s, info |-> told]
        /\ UNCHANGED reported
    BY DEF AddPrimaryServiceDeclaration
  <1>2. LastHandle \in Nat /\ h \in Nat /\ h > LastHandle /\ h # 0 /\ Len(gattDatabase) \in Nat
    BY LastHandleFacts, TableFacts
  <1>3. /\ TableOK' /\ Ascends' /\ Extends(gattDatabase, gattDatabase')
        /\ Len(gattDatabase') = Len(gattDatabase) + 1
        /\ gattDatabase'[p].handle = h /\ gattDatabase'[p].kind = "service"
    BY <1>1, <1>2, AppendsOne DEF Kinds
  <1>4. told \in Told /\ Len(told.chars) = 0 /\ told.handle = h
    BY <1>2 DEF Told
  <1>5. Shape(s, told) /\ Extent(told) = 1
    <2>1. Len(ServiceInfo(s)) \in Nat
      BY InfoFacts
    <2>2. EndHandle(told) = h + 1
      BY <1>4 DEF EndHandle
    <2> HIDE DEF told, h
    <2> QED BY <1>2, <1>4, <2>1, <2>2 DEF Shape, Extent
  <1>6. Placed(gattDatabase', p, s, told)
    <2> HIDE DEF told, h
    <2> QED BY <1>2, <1>3, <1>4, <1>5 DEF Placed
  <1>7. AddOK'
    <2>1. p \in Nat \ {0} /\ p + Extent(told) = Len(gattDatabase') + 1
      BY <1>2, <1>3, <1>5
    <2>2. add'.service = s /\ add'.info = told /\ add' \in [service : Services, info : Told]
      BY <1>1, <1>4
    <2> HIDE DEF told, p
    <2> QED BY <1>5, <1>6, <2>1, <2>2 DEF AddOK
  <1>8. ReportedOK'
    <2>1. \A t \in Services : IsReported(t) => Sits(gattDatabase', t, reported[t])
      BY <1>2, <1>3, SitsBeforeService DEF ReportedOK
    <2> QED BY <1>1, <2>1 DEF ReportedOK, IsReported
  <1>9. HandlesApart'
    <2>1. \A t \in Services : IsReported(t) => reported[t].handle # h
      <3> SUFFICES ASSUME NEW t \in Services, IsReported(t) PROVE reported[t].handle # h
        OBVIOUS
      <3>1. PICK q \in Nat \ {0} : Placed(gattDatabase, q, t, reported[t])
        BY DEF ReportedOK, Sits
      <3>2. reported[t].handle <= LastHandle
        BY <3>1, PlacedHandle DEF ReportedOK
      <3> QED BY <1>2, <3>2
    <2>2. add'.info.handle = h
      BY <1>1
    <2> HIDE DEF h
    <2> QED BY <1>1, <2>1, <2>2 DEF HandlesApart, IsReported
  <1> QED BY <1>3, <1>7, <1>8, <1>9

\* A step that lets the service under way grow keeps the rest of the invariant.
LEMMA KeepsOthers ==
  ASSUME DatabaseInv, ~ Idle, Extends(gattDatabase, gattDatabase'), UNCHANGED reported,
         add' # NoService, add'.info.handle = add.info.handle
  PROVE  ReportedOK' /\ HandlesApart'
  <1> USE DEF DatabaseInv
  <1>1. Len(gattDatabase) \in Nat
    BY TableFacts
  <1>2. PICK q \in Nat \ {0} : /\ Placed(gattDatabase, q, add.service, add.info)
                               /\ q + Extent(add.info) = Len(gattDatabase) + 1
    BY DEF AddOK
  <1>3. Shape(add.service, add.info)
    BY DEF AddOK
  <1>4. \A t \in Services : IsReported(t) => Sits(gattDatabase', t, reported[t])
    <2> SUFFICES ASSUME NEW t \in Services, IsReported(t) PROVE Sits(gattDatabase', t, reported[t])
      OBVIOUS
    <2>1. Shape(t, reported[t]) /\ Sits(gattDatabase, t, reported[t])
      BY DEF ReportedOK
    <2>2. reported[t].handle # add.info.handle
      BY DEF HandlesApart
    <2> QED BY <1>1, <1>2, <1>3, <2>1, <2>2, SitsBeforeGrowth
  <1>5. ReportedOK'
    BY <1>4 DEF ReportedOK, IsReported
  <1>6. HandlesApart'
    BY DEF HandlesApart, IsReported, Idle
  <1> QED BY <1>5, <1>6

LEMMA AddFacts ==
  ASSUME DatabaseInv, ~ Idle
  PROVE  /\ add.service \in Services /\ add.info \in Told /\ Chars \in Seq(CharTold)
         /\ add = [service |-> add.service, info |-> [handle |-> add.info.handle, chars |-> Chars]]
         /\ Shape(add.service, add.info)
         /\ ServiceInfo(add.service) \in Seq(CharInfo)
         /\ Len(Chars) \in Nat /\ (Chars = <<>> <=> Len(Chars) = 0)
         /\ Len(Chars) <= Len(ServiceInfo(add.service))
  <1>1. /\ add \in [service : Services, info : Told]
        /\ Shape(add.service, add.info)
    BY DEF DatabaseInv, AddOK
  <1>2. Chars \in Seq(CharTold)
    BY <1>1 DEF Told, Chars
  <1>3. Len(Chars) <= Len(ServiceInfo(add.service))
    BY <1>1 DEF Shape, Chars
  <1>4. add = [service |-> add.service, info |-> [handle |-> add.info.handle, chars |-> Chars]]
    BY <1>1 DEF Told, Chars
  <1> QED BY <1>1, <1>2, <1>3, <1>4, InfoFacts

\* The last characteristic gets a descriptor or its CCCD.
LastBecomes(char) ==
  [handle |-> add.info.handle, chars |-> [Chars EXCEPT ![Len(Chars)] = char]]

LEMMA LastBecomesFacts ==
  ASSUME DatabaseInv, ~ Idle, Len(Chars) # 0, NEW char \in CharTold,
         char.handle = LastChar.handle,
         Behind(char) = Behind(LastChar) + 1,
         char.cccd # 0 => char.cccd = Behind(char) - 1 /\ Complete(char, LastInfo)
  PROVE  /\ LastBecomes(char) \in Told
         /\ LastBecomes(char).handle = add.info.handle
         /\ Len(LastBecomes(char).chars) = Len(Chars)
         /\ \A c \in 1 .. Len(Chars) :
              LastBecomes(char).chars[c] = IF c = Len(Chars) THEN char ELSE Chars[c]
         /\ Shape(add.service, LastBecomes(char))
         /\ EndHandle(LastBecomes(char)) = EndHandle(add.info) + 1
         /\ Extent(LastBecomes(char)) = Extent(add.info) + 1
  <1> DEFINE n == Len(Chars)
             told == LastBecomes(char)
             s == add.service
  <1>1. n \in 1 .. Len(Chars) /\ n \in Nat
    BY AddFacts
  <1>2. /\ told \in Told /\ told.handle = add.info.handle
        /\ Len(told.chars) = n
        /\ \A c \in 1 .. n : told.chars[c] = IF c = n THEN char ELSE Chars[c]
    <2>1. /\ [Chars EXCEPT ![n] = char] \in Seq(CharTold)
          /\ Len([Chars EXCEPT ![n] = char]) = n
          /\ \A c \in 1 .. n : [Chars EXCEPT ![n] = char][c] = IF c = n THEN char ELSE Chars[c]
      BY <1>1, AddFacts, ExceptSeq
    <2>2. add.info.handle \in Nat \ {0}
      BY AddFacts DEF Told
    <2> QED BY <2>1, <2>2 DEF LastBecomes, Told
  <1>3. EndHandle(told) = Behind(char) /\ EndHandle(add.info) = Behind(LastChar)
    BY <1>1, <1>2 DEF EndHandle, LastChar, Chars
  <1>4. EndHandle(add.info) \in Nat /\ add.info.handle \in Nat
    BY AddFacts, ExtentFacts
  <1>5. Shape(s, told)
    <2>1. Len(told.chars) <= Len(ServiceInfo(s))
      BY <1>2, AddFacts
    <2>2. ASSUME NEW c \in 1 .. n, c # n
          PROVE  LET old == told.chars[c]
                 IN /\ old.handle = IF c = 1 THEN told.handle + 1 ELSE Behind(told.chars[c - 1])
                    /\ told.handle < old.handle /\ Behind(old) <= EndHandle(told)
                    /\ old.cccd # 0 => /\ old.cccd = Behind(old) - 1
                                       /\ Complete(old, ServiceInfo(s)[c])
                    /\ c < Len(told.chars) => Complete(old, ServiceInfo(s)[c])
      <3>1. told.chars[c] = add.info.chars[c] /\ c \in 1 .. Len(add.info.chars)
        BY <1>2, <2>2 DEF Chars
      <3>2. c # 1 => told.chars[c - 1] = add.info.chars[c - 1]
        BY <1>1, <1>2, <2>2 DEF Chars
      <3>3. Behind(add.info.chars[c]) \in Nat /\ Behind(add.info.chars[c]) <= EndHandle(add.info)
        BY <3>1, AddFacts, ExtentFacts
      <3>4. Behind(told.chars[c]) <= EndHandle(told)
        BY <1>3, <1>4, <3>1, <3>3
      <3>5. Len(told.chars) = Len(add.info.chars)
        BY <1>2 DEF Chars
      <3> HIDE DEF told
      <3> QED BY <1>2, <3>1, <3>2, <3>4, <3>5, AddFacts DEF Shape
    <2>3. LET old == told.chars[n]
          IN /\ old.handle = IF n = 1 THEN told.handle + 1 ELSE Behind(told.chars[n - 1])
             /\ told.handle < old.handle /\ Behind(old) <= EndHandle(told)
             /\ old.cccd # 0 => /\ old.cccd = Behind(old) - 1
                                /\ Complete(old, ServiceInfo(s)[n])
             /\ n < Len(told.chars) => Complete(old, ServiceInfo(s)[n])
      <3>1. told.chars[n] = char /\ LastChar = add.info.chars[n] /\ n \in 1 .. Len(add.info.chars)
        BY <1>1, <1>2 DEF LastChar, Chars
      <3>2. n # 1 => told.chars[n - 1] = add.info.chars[n - 1]
        <4>1. n # 1 => n - 1 \in 1 .. n /\ n - 1 # n
          <5>1. \A m \in Nat : m \in 1 .. m /\ m # 1 => m - 1 \in 1 .. m /\ m - 1 # m
            OBVIOUS
          <5> QED BY <1>1, <5>1
        <4> QED BY <1>2, <4>1 DEF Chars
      <3>3. /\ LastChar.handle = IF n = 1 THEN add.info.handle + 1
                                 ELSE Behind(add.info.chars[n - 1])
            /\ add.info.handle < LastChar.handle
        BY <3>1, AddFacts DEF Shape
      <3>4. LastInfo = ServiceInfo(s)[n]
        BY DEF LastInfo
      <3>5. Behind(char) \in Nat /\ ~ (n < Len(told.chars))
        BY <1>2, <1>3, <1>4, <1>1
      <3> HIDE DEF told
      <3> QED BY <1>2, <1>3, <3>1, <3>2, <3>3, <3>4, <3>5
    <2> HIDE DEF told, n
    <2>4. \A c \in 1 .. Len(told.chars) :
            LET old == told.chars[c]
            IN /\ old.handle = IF c = 1 THEN told.handle + 1 ELSE Behind(told.chars[c - 1])
               /\ told.handle < old.handle /\ Behind(old) <= EndHandle(told)
               /\ old.cccd # 0 => /\ old.cccd = Behind(old) - 1
                                  /\ Complete(old, ServiceInfo(s)[c])
               /\ c < Len(told.chars) => Complete(old, ServiceInfo(s)[c])
      BY <1>2, <2>2, <2>3
    <2> QED BY <1>2, <2>1, <2>4 DEF Shape
  <1>6. Extent(told) = Extent(add.info) + 1
    BY <1>2, <1>3, <1>4 DEF Extent
  <1> QED BY <1>2, <1>3, <1>4, <1>5, <1>6

LEMMA KeepsLast ==
  ASSUME DatabaseInv, ~ Idle, Len(Chars) # 0, NEW char \in CharTold,
         char.handle = LastChar.handle,
         Behind(char) = Behind(LastChar) + 1,
         char.cccd # 0 => char.cccd = Behind(char) - 1 /\ Complete(char, LastInfo),
         NEW k \in {"descriptor", "cccd"}, char.cccd # 0 => k = "cccd",
         Append1(LastHandle + 1, k),
         add' = [service |-> add.service, info |-> LastBecomes(char)],
         UNCHANGED reported
  PROVE  DatabaseInv'
  <1> USE DEF DatabaseInv
  <1> DEFINE n == Len(Chars)
             told == add.info
             told2 == LastBecomes(char)
             s == add.service
             db2 == gattDatabase'
  <1>1. /\ told2 \in Told /\ told2.handle = told.handle /\ Len(told2.chars) = n
        /\ \A c \in 1 .. n : told2.chars[c] = IF c = n THEN char ELSE Chars[c]
        /\ Shape(s, told2) /\ Shape(s, told)
        /\ EndHandle(told2) = EndHandle(told) + 1 /\ Extent(told2) = Extent(told) + 1
    BY LastBecomesFacts, AddFacts
  <1>2. PICK p \in Nat \ {0} : /\ Placed(gattDatabase, p, s, told)
                               /\ p + Extent(told) = Len(gattDatabase) + 1
    BY DEF AddOK
  <1>3. /\ LastHandle \in Nat /\ LastHandle + 1 = EndHandle(told)
        /\ Extent(told) \in Nat /\ told.handle \in Nat
        /\ Extent(told) = EndHandle(told) - told.handle /\ Len(gattDatabase) \in Nat
    BY <1>1, <1>2, LastHandleFacts, PlacedLast, ExtentFacts, TableFacts DEF Extent
  <1>4. /\ TableOK' /\ Ascends' /\ Extends(gattDatabase, db2)
        /\ Len(db2) = Len(gattDatabase) + 1
        /\ db2[Len(gattDatabase) + 1].handle = LastHandle + 1
        /\ db2[Len(gattDatabase) + 1].kind = k
    <2>1. k \in Kinds /\ LastHandle + 1 \in Nat /\ LastHandle + 1 > LastHandle
      BY <1>3 DEF Kinds
    <2> QED BY <2>1, AppendsOne
  <1>5. Placed(db2, p, s, told)
    BY <1>1, <1>2, <1>3, <1>4, PlacedExtends
  <1>6. p + Extent(told2) = Len(db2) + 1
    BY <1>1, <1>2, <1>3, <1>4
  <1>7. \A i \in Len(gattDatabase) + 1 .. Len(db2) :
          db2[i].handle = told.handle + (i - p) /\ db2[i].kind # "service"
    <2>1. /\ \A i \in Len(gattDatabase) + 1 .. Len(db2) : i = Len(gattDatabase) + 1
          /\ LastHandle + 1 = told.handle + ((Len(gattDatabase) + 1) - p)
      BY <1>2, <1>3, <1>4
    <2> QED BY <1>4, <2>1
  <1>8. \A c \in 1 .. Len(told2.chars) :
          LET char2 == told2.chars[c]
              KindOf(h) == db2[p + (h - told2.handle)].kind
          IN /\ KindOf(char2.handle) = "characteristic"
             /\ KindOf(char2.handle + 1) = ServiceInfo(s)[c].value
             /\ char2.cccd # 0 => KindOf(char2.cccd) = "cccd"
    <2> SUFFICES ASSUME NEW c \in 1 .. n
                 PROVE  LET char2 == told2.chars[c]
                            KindOf(h) == db2[p + (h - told2.handle)].kind
                        IN /\ KindOf(char2.handle) = "characteristic"
                           /\ KindOf(char2.handle + 1) = ServiceInfo(s)[c].value
                           /\ char2.cccd # 0 => KindOf(char2.cccd) = "cccd"
      BY <1>1
    <2>1. /\ db2[p + (Chars[c].handle - told.handle)].kind = "characteristic"
          /\ db2[p + ((Chars[c].handle + 1) - told.handle)].kind = ServiceInfo(s)[c].value
          /\ Chars[c].cccd # 0 => db2[p + (Chars[c].cccd - told.handle)].kind = "cccd"
      BY <1>5 DEF Placed, Chars
    <2>2. CASE c # n
      BY <1>1, <2>1, <2>2
    <2>3. CASE c = n
      <3>1. told2.chars[c] = char /\ char.handle = Chars[c].handle
        BY <1>1, <2>3 DEF LastChar
      <3>2. char.cccd # 0 => db2[p + (char.cccd - told.handle)].kind = "cccd"
        <4> SUFFICES ASSUME char.cccd # 0
                     PROVE  db2[p + (char.cccd - told.handle)].kind = "cccd"
          OBVIOUS
        <4>1. char.cccd = EndHandle(told)
          <5>1. EndHandle(told) = Behind(LastChar)
            BY AddFacts DEF EndHandle, LastChar, Chars
          <5> QED BY <1>3, <5>1
        <4>2. p + (char.cccd - told.handle) = Len(gattDatabase) + 1
          BY <1>2, <1>3, <4>1
        <4> QED BY <1>4, <4>2
      <3> QED BY <1>1, <2>1, <3>1, <3>2
    <2> QED BY <2>2, <2>3
  <1>9. Placed(db2, p, s, told2)
    <2> HIDE DEF told2, told, s, db2
    <2> QED BY <1>1, <1>2, <1>3, <1>4, <1>6, <1>7, <1>8, PlacedGrows
  <1>10. AddOK'
    <2>1. add'.service = s /\ add'.info = told2 /\ add' \in [service : Services, info : Told]
      BY <1>1, AddFacts
    <2> HIDE DEF told2, s
    <2> QED BY <1>1, <1>6, <1>9, <2>1 DEF AddOK
  <1>11. ReportedOK' /\ HandlesApart'
    <2>1. add'.info.handle = add.info.handle /\ add' # NoService
      <3>1. add'.service \in Services
        BY AddFacts
      <3>2. add' # NoService
        BY <3>1, NoneNotService DEF NoService
      <3> QED BY <1>1, <3>2
    <2> QED BY <1>4, <2>1, KeepsOthers
  <1> QED BY <1>4, <1>10, <1>11

LEMMA LastCharFacts ==
  ASSUME DatabaseInv, ~ Idle, Len(Chars) # 0
  PROVE  /\ Len(Chars) \in 1 .. Len(Chars)
         /\ LastChar \in CharTold /\ LastInfo \in CharInfo
         /\ LastChar.cccd # 0 => /\ LastChar.cccd = Behind(LastChar) - 1
                                 /\ Complete(LastChar, LastInfo)
  <1>1. Len(Chars) \in 1 .. Len(Chars) /\ Len(Chars) \in 1 .. Len(ServiceInfo(add.service))
    BY AddFacts
  <1>2. LastChar \in CharTold /\ LastInfo \in CharInfo
    BY <1>1, AddFacts, ElementOfSeq DEF LastChar, LastInfo
  <1>3. LastChar = add.info.chars[Len(add.info.chars)]
    BY DEF LastChar, Chars
  <1> QED BY <1>1, <1>2, <1>3, AddFacts DEF Shape, LastInfo, Chars

LEMMA KeepsDescriptor ==
  ASSUME DatabaseInv, AddCharDescriptor
  PROVE  DatabaseInv'
  <1> DEFINE char == [LastChar EXCEPT !.descs = @ + 1]
  <1>1. ~ Idle /\ ~ DescriptorsDone /\ Append1(LastHandle + 1, "descriptor") /\ UNCHANGED reported
    BY DEF AddCharDescriptor
  <1>2. Len(Chars) # 0 /\ LastChar.descs # LastInfo.descs
    BY <1>1, AddFacts DEF DescriptorsDone
  <1>3. LastChar \in CharTold /\ LastChar.cccd = 0
    BY <1>1, <1>2, LastCharFacts DEF Complete
  <1>4. /\ char \in CharTold /\ char.handle = LastChar.handle /\ char.cccd = 0
        /\ char.descs = LastChar.descs + 1 /\ LastChar.descs \in Nat /\ LastChar.handle \in Nat
    BY <1>3 DEF CharTold
  <1>5. Behind(char) = Behind(LastChar) + 1
    <2> HIDE DEF char
    <2> QED BY <1>3, <1>4 DEF Behind
  <1>6. add' = [service |-> add.service, info |-> LastBecomes(char)]
    <2>1. add' = [add EXCEPT !.info.chars[Len(Chars)].descs = LastChar.descs + 1]
      BY DEF AddCharDescriptor, LastChar, Chars
    <2>2. /\ add = [service |-> add.service, info |-> [handle |-> add.info.handle, chars |-> Chars]]
          /\ Chars \in Seq(CharTold)
      BY <1>1, AddFacts
    <2>3. ASSUME NEW x
          PROVE  [add EXCEPT !.info.chars[Len(Chars)].descs = x] =
                   [service |-> add.service,
                    info |-> [handle |-> add.info.handle,
                              chars |-> [Chars EXCEPT ![Len(Chars)] =
                                           [Chars[Len(Chars)] EXCEPT !.descs = x]]]]
      BY <2>2
    <2> QED BY <2>1, <2>3 DEF LastBecomes, LastChar
  <1>7. char.cccd # 0 => char.cccd = Behind(char) - 1 /\ Complete(char, LastInfo)
    <2> HIDE DEF char
    <2> QED BY <1>4
  <1> HIDE DEF char
  <1> QED BY <1>1, <1>2, <1>4, <1>5, <1>6, <1>7, KeepsLast

LEMMA KeepsCccd ==
  ASSUME DatabaseInv, AddCccd
  PROVE  DatabaseInv'
  <1> DEFINE char == [LastChar EXCEPT !.cccd = LastHandle + 1]
  <1>1. /\ ~ Idle /\ DescriptorsDone /\ ~ CharacteristicDone
        /\ Append1(LastHandle + 1, "cccd") /\ UNCHANGED reported
    BY DEF AddCccd
  <1>2. /\ Len(Chars) # 0 /\ LastChar.descs = LastInfo.descs
        /\ LastInfo.cccd /\ LastChar.cccd = 0
    BY <1>1, AddFacts DEF DescriptorsDone, CharacteristicDone, gGattDbInvalidHandle_d
  <1>3. LastHandle + 1 = Behind(LastChar) /\ LastHandle \in Nat
    <2>1. PICK p \in Nat \ {0} : /\ Placed(gattDatabase, p, add.service, add.info)
                                 /\ p + Extent(add.info) = Len(gattDatabase) + 1
      BY <1>1 DEF DatabaseInv, AddOK
    <2>2. LastHandle + 1 = EndHandle(add.info)
      BY <1>1, <2>1, AddFacts, PlacedLast DEF DatabaseInv
    <2>3. EndHandle(add.info) = Behind(LastChar)
      BY <1>2 DEF EndHandle, LastChar, Chars
    <2> QED BY <2>2, <2>3, LastHandleFacts DEF DatabaseInv
  <1>4. LastChar \in CharTold
    BY <1>1, <1>2, LastCharFacts
  <1>5. /\ char \in CharTold /\ char.handle = LastChar.handle /\ char.cccd = LastHandle + 1
        /\ char.descs = LastChar.descs /\ LastChar.descs \in Nat /\ LastChar.handle \in Nat
    BY <1>3, <1>4 DEF CharTold
  <1>6. Behind(char) = Behind(LastChar) + 1
    <2> HIDE DEF char
    <2>1. char.cccd # 0
      BY <1>3, <1>5
    <2> QED BY <1>2, <1>5, <2>1 DEF Behind
  <1>7. add' = [service |-> add.service, info |-> LastBecomes(char)]
    <2>1. add' = [add EXCEPT !.info.chars[Len(Chars)].cccd = LastHandle + 1]
      BY DEF AddCccd
    <2>2. /\ add = [service |-> add.service, info |-> [handle |-> add.info.handle, chars |-> Chars]]
          /\ Chars \in Seq(CharTold)
      BY <1>1, AddFacts
    <2>3. ASSUME NEW x
          PROVE  [add EXCEPT !.info.chars[Len(Chars)].cccd = x] =
                   [service |-> add.service,
                    info |-> [handle |-> add.info.handle,
                              chars |-> [Chars EXCEPT ![Len(Chars)] =
                                           [Chars[Len(Chars)] EXCEPT !.cccd = x]]]]
      BY <2>2
    <2> QED BY <2>1, <2>3 DEF LastBecomes, LastChar
  <1>8. char.cccd = Behind(char) - 1
    <2>1. Behind(LastChar) \in Nat
      BY <1>3
    <2> HIDE DEF char
    <2> QED BY <1>3, <1>5, <1>6, <2>1
  <1>9. Complete(char, LastInfo)
    <2> HIDE DEF char
    <2>1. char.cccd # 0
      BY <1>3, <1>5
    <2> QED BY <1>2, <1>5, <2>1 DEF Complete
  <1> HIDE DEF char
  <1> QED BY <1>1, <1>2, <1>5, <1>6, <1>7, <1>8, <1>9, KeepsLast

\* Nothing is added: the service under way is given up.
LEMMA KeepsFails ==
  ASSUME DatabaseInv, AddFails
  PROVE  DatabaseInv'
  <1>1. add' = NoService /\ UNCHANGED <<gattDatabase, reported>>
    BY DEF AddFails
  <1> QED BY <1>1 DEF DatabaseInv, TableOK, Ascends, ReportedOK, IsReported, AddOK, HandlesApart, Idle

LEMMA KeepsReport ==
  ASSUME DatabaseInv, ReportHandles
  PROVE  DatabaseInv'
  <1> USE DEF DatabaseInv
  <1> DEFINE s == add.service
  <1>1. /\ ~ Idle /\ ServiceDone /\ add' = NoService /\ UNCHANGED gattDatabase
        /\ reported' = [reported EXCEPT ![s] = add.info]
    BY DEF ReportHandles
  <1>2. /\ s \in Services /\ add.info \in Told /\ Shape(s, add.info)
        /\ reported \in [Services -> {NotReported} \cup Told]
    BY <1>1, AddFacts DEF ReportedOK
  <1>3. /\ reported' \in [Services -> {NotReported} \cup Told]
        /\ \A t \in Services : reported'[t] = IF t = s THEN add.info ELSE reported[t]
    BY <1>1, <1>2
  <1>4. Finished(s, add.info)
    <2>1. CharacteristicDone /\ Len(Chars) = Len(ServiceInfo(s))
      BY <1>1 DEF ServiceDone
    <2>2. ASSUME NEW c \in 1 .. Len(Chars)
          PROVE  Complete(Chars[c], ServiceInfo(s)[c])
      <3>1. CASE c < Len(Chars)
        BY <1>2, <2>2, <3>1 DEF Shape, Chars
      <3>2. CASE c = Len(Chars)
        <4>1. Len(Chars) # 0 /\ Chars # <<>>
          BY <1>1, <2>2, AddFacts
        <4>2. LastChar.descs = LastInfo.descs /\ (LastInfo.cccd => LastChar.cccd # 0)
          BY <2>1, <4>1 DEF CharacteristicDone, gGattDbInvalidHandle_d
        <4>3. Complete(LastChar, LastInfo)
          BY <1>1, <4>1, <4>2, LastCharFacts DEF Complete
        <4> QED BY <3>2, <4>3 DEF LastChar, LastInfo
      <3> QED BY <1>1, <2>2, <3>1, <3>2, AddFacts
    <2> QED BY <2>1, <2>2 DEF Finished, Chars
  <1>5. Sits(gattDatabase, s, add.info)
    BY <1>1 DEF AddOK, Sits, BoundedAt
  <1>6. ReportedOK'
    <2>1. \A t \in Services : reported'[t] # NotReported =>
            /\ Shape(t, reported'[t]) /\ Finished(t, reported'[t])
            /\ Sits(gattDatabase, t, reported'[t])
      BY <1>2, <1>3, <1>4, <1>5 DEF ReportedOK, IsReported
    <2> QED BY <1>1, <1>3, <2>1 DEF ReportedOK, IsReported
  <1>7. HandlesApart'
    <2>1. \A t \in Services : IsReported(t) => reported[t].handle # add.info.handle
      BY <1>1 DEF HandlesApart
    <2>2. \A t, u \in Services : IsReported(t) /\ IsReported(u) /\ t # u =>
            reported[t].handle # reported[u].handle
      BY DEF HandlesApart
    <2> QED BY <1>1, <1>3, <2>1, <2>2 DEF HandlesApart, IsReported, Idle
  <1> QED BY <1>1, <1>6, <1>7 DEF TableOK, Ascends, AddOK, Idle

LEMMA KeepsDeclare ==
  ASSUME DatabaseInv, NEW h \in 1 .. MaxHandle, DeclareServiceAt(h)
  PROVE  DatabaseInv'
  <1> USE DEF DatabaseInv
  <1>1. /\ Idle /\ h > LastHandle + 1 /\ Append1(h, "service") /\ UNCHANGED <<add, reported>>
    BY DEF DeclareServiceAt
  <1>2. h \in Nat /\ LastHandle \in Nat /\ h > LastHandle /\ Len(gattDatabase) \in Nat
    BY <1>1, LastHandleFacts, TableFacts, HandleRange
  <1>3. /\ TableOK' /\ Ascends' /\ Extends(gattDatabase, gattDatabase')
        /\ gattDatabase'[Len(gattDatabase) + 1].kind = "service"
    BY <1>1, <1>2, AppendsOne DEF Kinds
  <1>4. ReportedOK'
    <2>1. \A t \in Services : IsReported(t) => Sits(gattDatabase', t, reported[t])
      BY <1>2, <1>3, SitsBeforeService DEF ReportedOK
    <2> QED BY <1>1, <2>1 DEF ReportedOK, IsReported
  <1> QED BY <1>1, <1>3, <1>4 DEF AddOK, HandlesApart, Idle, IsReported

LEMMA KeepsRelease ==
  ASSUME DatabaseInv, ReleaseDatabase
  PROVE  DatabaseInv'
  <1>1. /\ Idle /\ gattDatabase' = <<>> /\ UNCHANGED add
        /\ reported' = [s \in Services |-> NotReported]
    BY DEF ReleaseDatabase
  <1>2. TableOK' /\ Ascends'
    BY <1>1 DEF TableOK, Ascends, AscendsIn
  <1> QED BY <1>1, <1>2 DEF DatabaseInv, ReportedOK, AddOK, HandlesApart, Idle, IsReported

LEMMA KeepsHash ==
  ASSUME DatabaseInv, GattDb_ComputeDatabaseHash
  PROVE  DatabaseInv'
  <1>1. UNCHANGED <<gattDatabase, add, reported>>
    BY DEF GattDb_ComputeDatabaseHash
  <1> QED
    BY <1>1 DEF DatabaseInv, TableOK, Ascends, AscendsIn, ReportedOK, AddOK,
                HandlesApart, Idle, IsReported, Chars

\* A characteristic follows what the service under way has so far.
NewChar == [handle |-> LastHandle + 1, descs |-> 0, cccd |-> 0]
WithChar == [handle |-> add.info.handle, chars |-> Append(Chars, NewChar)]

LEMMA WithCharFacts ==
  ASSUME DatabaseInv, ~ Idle, CharacteristicDone, ~ ServiceDone
  PROVE  /\ WithChar \in Told
         /\ WithChar.handle = add.info.handle
         /\ Len(WithChar.chars) = Len(Chars) + 1
         /\ \A c \in 1 .. Len(Chars) : WithChar.chars[c] = Chars[c]
         /\ WithChar.chars[Len(Chars) + 1] = NewChar
         /\ Shape(add.service, WithChar)
         /\ LastHandle \in Nat /\ LastHandle + 1 = EndHandle(add.info)
         /\ EndHandle(WithChar) = EndHandle(add.info) + 2
         /\ Extent(WithChar) = Extent(add.info) + 2
         /\ Len(Chars) + 1 \in 1 .. Len(ServiceInfo(add.service))
  <1> DEFINE n == Len(Chars)
             told == WithChar
             s == add.service
  <1>1. /\ n \in Nat /\ Chars \in Seq(CharTold) /\ n <= Len(ServiceInfo(s))
        /\ Shape(s, add.info) /\ Len(ServiceInfo(s)) \in Nat
    BY AddFacts
  <1>2. n + 1 \in 1 .. Len(ServiceInfo(s))
    BY <1>1 DEF ServiceDone
  <1>3. LastHandle \in Nat /\ LastHandle + 1 = EndHandle(add.info)
    <2>1. PICK p \in Nat \ {0} : /\ Placed(gattDatabase, p, s, add.info)
                                 /\ p + Extent(add.info) = Len(gattDatabase) + 1
      BY DEF DatabaseInv, AddOK
    <2> QED BY <1>1, <2>1, PlacedLast, LastHandleFacts DEF DatabaseInv
  <1>4. NewChar \in CharTold /\ Behind(NewChar) = EndHandle(add.info) + 2
    BY <1>3 DEF NewChar, CharTold, Behind
  <1>5. /\ Len(told.chars) = n + 1 /\ told.chars[n + 1] = NewChar
        /\ \A c \in 1 .. n : told.chars[c] = Chars[c]
        /\ told.handle = add.info.handle /\ told.chars \in Seq(CharTold)
    BY <1>1, <1>4, AppendProperties DEF WithChar
  <1>6. told \in Told
    <2>1. add.info.handle \in Nat \ {0}
      BY AddFacts DEF Told
    <2> QED BY <1>5, <2>1 DEF Told, WithChar
  <1>7. EndHandle(told) = EndHandle(add.info) + 2 /\ EndHandle(add.info) \in Nat
    <2>1. EndHandle(told) = Behind(NewChar)
      <3>1. Len(told.chars) # 0
        BY <1>1, <1>5
      <3> QED BY <1>5, <3>1 DEF EndHandle
    <2> QED BY <1>1, <1>4, <2>1, ExtentFacts
  <1>8. ASSUME NEW c \in 1 .. n
        PROVE  LET old == told.chars[c]
               IN /\ old.handle = IF c = 1 THEN told.handle + 1 ELSE Behind(told.chars[c - 1])
                  /\ told.handle < old.handle /\ Behind(old) <= EndHandle(told)
                  /\ old.cccd # 0 => /\ old.cccd = Behind(old) - 1
                                     /\ Complete(old, ServiceInfo(s)[c])
                  /\ c < Len(told.chars) => Complete(old, ServiceInfo(s)[c])
    <2>1. told.chars[c] = add.info.chars[c] /\ c \in 1 .. Len(add.info.chars)
      BY <1>5 DEF Chars
    <2>2. c # 1 => told.chars[c - 1] = add.info.chars[c - 1]
      <3>1. c # 1 => c - 1 \in 1 .. n
        BY <1>1
      <3> QED BY <1>5, <3>1 DEF Chars
    <2>3. Behind(told.chars[c]) <= EndHandle(told)
      <3>1. Behind(add.info.chars[c]) \in Nat /\ Behind(add.info.chars[c]) <= EndHandle(add.info)
        BY <1>1, <2>1, ExtentFacts
      <3> QED BY <1>7, <2>1, <3>1
    <2>4. Complete(told.chars[c], ServiceInfo(s)[c])
      <3>1. CASE c < n
        BY <1>1, <2>1, <3>1 DEF Shape, Chars
      <3>2. CASE c = n
        <4>1. n # 0 /\ Chars # <<>>
          BY <1>1, AddFacts
        <4>2. LastChar.descs = LastInfo.descs /\ (LastInfo.cccd => LastChar.cccd # 0)
          BY <4>1 DEF CharacteristicDone, gGattDbInvalidHandle_d
        <4>3. Complete(LastChar, LastInfo)
          BY <4>1, <4>2, LastCharFacts DEF Complete
        <4>4. told.chars[c] = LastChar /\ ServiceInfo(s)[c] = LastInfo
          BY <2>1, <3>2 DEF LastChar, LastInfo, Chars
        <4> QED BY <4>3, <4>4
      <3> QED BY <1>1, <3>1, <3>2
    <2> HIDE DEF told
    <2> QED BY <1>1, <1>5, <2>1, <2>2, <2>3, <2>4 DEF Shape
  <1>9. LET old == told.chars[n + 1]
        IN /\ old.handle = IF n + 1 = 1 THEN told.handle + 1 ELSE Behind(told.chars[(n + 1) - 1])
           /\ told.handle < old.handle /\ Behind(old) <= EndHandle(told)
           /\ old.cccd = 0
    <2>1. NewChar.handle = EndHandle(add.info) /\ NewChar.cccd = 0
      BY <1>3 DEF NewChar
    <2>2. CASE n = 0
      <3>1. EndHandle(add.info) = add.info.handle + 1
        BY <2>2 DEF EndHandle, Chars
      <3>2. add.info.handle \in Nat
        BY <1>1, ExtentFacts
      <3> QED BY <1>4, <1>5, <1>7, <2>1, <2>2, <3>1, <3>2
    <2>3. CASE n # 0
      <3>1. n \in 1 .. n /\ (n + 1) - 1 = n /\ n + 1 # 1
        BY <1>1, <2>3
      <3>2. EndHandle(add.info) = Behind(Chars[n])
        BY <2>3 DEF EndHandle, Chars
      <3>3. told.chars[n] = Chars[n]
        BY <1>5, <3>1
      <3>4. EndHandle(add.info) > add.info.handle
        <4>1. /\ EndHandle(add.info) \in Nat /\ add.info.handle \in Nat
              /\ EndHandle(add.info) - add.info.handle \in Nat \ {0}
          BY <1>1, ExtentFacts DEF Extent
        <4> QED BY <4>1
      <3> QED BY <1>4, <1>5, <1>7, <2>1, <3>1, <3>2, <3>3, <3>4
    <2> QED BY <2>2, <2>3
  <1>10. Shape(s, told)
    <2> HIDE DEF told, n
    <2>1. \A c \in 1 .. Len(told.chars) : c \in 1 .. n \/ c = n + 1
      BY <1>1, <1>5
    <2>2. Len(told.chars) <= Len(ServiceInfo(s)) /\ ~ (n + 1 < Len(told.chars))
      BY <1>1, <1>2, <1>5
    <2> QED BY <1>5, <1>6, <1>8, <1>9, <2>1, <2>2 DEF Shape
  <1>11. Extent(told) = Extent(add.info) + 2
    <2>1. add.info.handle \in Nat
      BY <1>1, ExtentFacts
    <2> QED BY <1>5, <1>7, <2>1 DEF Extent
  <1> QED BY <1>2, <1>3, <1>5, <1>6, <1>7, <1>10, <1>11

LEMMA KeepsCharacteristic ==
  ASSUME DatabaseInv, AddCharacteristicDeclarationAndValue
  PROVE  DatabaseInv'
  <1> USE DEF DatabaseInv
  <1> DEFINE n == Len(Chars)
             told == add.info
             told2 == WithChar
             s == add.service
             db2 == gattDatabase'
             value == ServiceInfo(s)[n + 1].value
             new == <<Attribute(LastHandle + 1, "characteristic"), Attribute(LastHandle + 2, value)>>
  <1>1. /\ ~ Idle /\ CharacteristicDone /\ ~ ServiceDone /\ LastHandle + 2 <= MaxHandle
        /\ gattDatabase' = gattDatabase \o new /\ UNCHANGED reported
    BY DEF AddCharacteristicDeclarationAndValue
  <1>2. /\ told2 \in Told /\ told2.handle = told.handle
        /\ Len(told2.chars) = n + 1 /\ n \in Nat
        /\ \A c \in 1 .. n : told2.chars[c] = Chars[c]
        /\ told2.chars[n + 1] = NewChar
        /\ Shape(s, told2) /\ Shape(s, told) /\ s \in Services
        /\ LastHandle \in Nat /\ LastHandle + 1 = EndHandle(told)
        /\ Extent(told2) = Extent(told) + 2 /\ Extent(told) \in Nat \ {0}
        /\ told.handle \in Nat /\ Extent(told) = EndHandle(told) - told.handle
        /\ Len(gattDatabase) \in Nat
    BY <1>1, WithCharFacts, AddFacts, ExtentFacts, TableFacts DEF Extent
  <1>3. value \in {"value", "hash"}
    <2>1. ServiceInfo(s)[n + 1] \in CharInfo
      BY <1>1, AddFacts, WithCharFacts, ElementOfSeq
    <2> QED BY <2>1 DEF CharInfo
  <1>4. /\ new \in Seq(AttributeType) /\ Len(new) = 2
        /\ new[1].handle = LastHandle + 1 /\ new[2].handle = LastHandle + 2
        /\ new[1].kind = "characteristic" /\ new[2].kind = value
    <2>1. LastHandle + 1 \in 1 .. MaxHandle /\ LastHandle + 2 \in 1 .. MaxHandle
      <3>1. \A l, m \in Nat : l + 2 <= m => l + 1 \in 1 .. m /\ l + 2 \in 1 .. m
        OBVIOUS
      <3>2. MaxHandle \in Nat
        BY HandleRange
      <3> QED BY <1>1, <1>2, <3>1, <3>2
    <2>2. "characteristic" \in Kinds /\ value \in Kinds
      BY <1>3 DEF Kinds
    <2>3. /\ Attribute(LastHandle + 1, "characteristic") \in AttributeType
          /\ Attribute(LastHandle + 1, "characteristic").handle = LastHandle + 1
          /\ Attribute(LastHandle + 1, "characteristic").kind = "characteristic"
          /\ Attribute(LastHandle + 2, value) \in AttributeType
          /\ Attribute(LastHandle + 2, value).handle = LastHandle + 2
          /\ Attribute(LastHandle + 2, value).kind = value
      BY <2>1, <2>2, AttributeFacts
    <2> HIDE DEF value
    <2> QED BY <2>3
  <1>5. /\ TableOK' /\ Ascends' /\ Extends(gattDatabase, db2)
        /\ Len(db2) = Len(gattDatabase) + 2
        /\ db2[Len(gattDatabase) + 1].handle = LastHandle + 1
        /\ db2[Len(gattDatabase) + 1].kind = "characteristic"
        /\ db2[Len(gattDatabase) + 2].handle = LastHandle + 2
        /\ db2[Len(gattDatabase) + 2].kind = value
    <2> HIDE DEF new, value
    <2>1. /\ \A i, k \in 1 .. Len(new) : i < k => i = 1 /\ k = 2
          /\ \A i \in 1 .. Len(new) : i = 1 \/ i = 2
      BY <1>4
    <2>2. /\ \A i, k \in 1 .. Len(new) : i < k => new[i].handle < new[k].handle
          /\ \A i \in 1 .. Len(new) : new[i].handle >= new[1].handle + (i - 1)
          /\ new[1].handle > LastHandle /\ Len(new) > 0
      BY <1>2, <1>4, <2>1
    <2>3. /\ TableOK' /\ Ascends' /\ Extends(gattDatabase, db2)
          /\ Len(db2) = Len(gattDatabase) + Len(new)
          /\ \A i \in 1 .. Len(new) : db2[Len(gattDatabase) + i] = new[i]
      BY <1>1, <1>4, <2>2, Appends
    <2>4. 1 \in 1 .. Len(new) /\ 2 \in 1 .. Len(new)
      BY <1>4
    <2> QED BY <1>4, <2>3, <2>4
  <1>6. PICK p \in Nat \ {0} : /\ Placed(gattDatabase, p, s, told)
                               /\ p + Extent(told) = Len(gattDatabase) + 1
    BY <1>1 DEF AddOK
  <1>7. Placed(db2, p, s, told)
    BY <1>2, <1>5, <1>6, PlacedExtends
  <1>8. /\ p + Extent(told2) = Len(db2) + 1
        /\ p + ((LastHandle + 1) - told.handle) = Len(gattDatabase) + 1
        /\ p + (((LastHandle + 1) + 1) - told.handle) = Len(gattDatabase) + 2
    <2>1. Extent(told) = (LastHandle + 1) - told.handle
      BY <1>2
    <2> HIDE DEF told2, told, db2
    <2>2. p + Extent(told2) = Len(db2) + 1
      <3>1. /\ Extent(told2) = Extent(told) + 2 /\ Extent(told) \in Nat /\ p \in Nat
            /\ Len(db2) = Len(gattDatabase) + 2 /\ Len(gattDatabase) \in Nat
            /\ p + Extent(told) = Len(gattDatabase) + 1
        BY <1>2, <1>5, <1>6
      <3> QED BY <3>1
    <2>3. p + ((LastHandle + 1) - told.handle) = Len(gattDatabase) + 1
      BY <1>6, <2>1
    <2>4. p + (((LastHandle + 1) + 1) - told.handle) = (p + ((LastHandle + 1) - told.handle)) + 1
      <3>1. LastHandle \in Nat /\ told.handle \in Nat /\ p \in Nat
        BY <1>2, <1>6
      <3> QED BY <3>1
    <2>5. (Len(gattDatabase) + 1) + 1 = Len(gattDatabase) + 2
      BY <1>2
    <2> QED BY <2>2, <2>3, <2>4, <2>5
  <1>9. \A i \in Len(gattDatabase) + 1 .. Len(db2) :
          db2[i].handle = told.handle + (i - p) /\ db2[i].kind # "service"
    <2>1. /\ \A i \in Len(gattDatabase) + 1 .. Len(db2) :
               i = Len(gattDatabase) + 1 \/ i = Len(gattDatabase) + 2
          /\ LastHandle + 1 = told.handle + ((Len(gattDatabase) + 1) - p)
          /\ LastHandle + 2 = told.handle + ((Len(gattDatabase) + 2) - p)
      <3>1. \A e, l, h, len, q \in Nat :
              q + e = len + 1 /\ e = (l + 1) - h
                => l + 1 = h + ((len + 1) - q) /\ l + 2 = h + ((len + 2) - q)
        OBVIOUS
      <3>2. Extent(told) = (LastHandle + 1) - told.handle
        BY <1>2
      <3> HIDE DEF told, db2
      <3>3. \A i \in Len(gattDatabase) + 1 .. Len(db2) :
              i = Len(gattDatabase) + 1 \/ i = Len(gattDatabase) + 2
        <4>1. \A len \in Nat : \A i \in len + 1 .. len + 2 : i = len + 1 \/ i = len + 2
          OBVIOUS
        <4>2. Len(gattDatabase) \in Nat /\ Len(db2) = Len(gattDatabase) + 2
          BY <1>2, <1>5
        <4> QED BY <4>1, <4>2
      <3>4. /\ Extent(told) \in Nat /\ LastHandle \in Nat /\ told.handle \in Nat
            /\ Len(gattDatabase) \in Nat /\ p \in Nat
            /\ p + Extent(told) = Len(gattDatabase) + 1
        BY <1>2, <1>5, <1>6
      <3>5. /\ LastHandle + 1 = told.handle + ((Len(gattDatabase) + 1) - p)
            /\ LastHandle + 2 = told.handle + ((Len(gattDatabase) + 2) - p)
        BY <3>1, <3>2, <3>4
      <3> QED BY <3>3, <3>5
    <2> HIDE DEF value
    <2> QED BY <1>3, <1>5, <2>1
  <1>10. \A c \in 1 .. Len(told2.chars) :
          LET char2 == told2.chars[c]
              KindOf(h) == db2[p + (h - told2.handle)].kind
          IN /\ KindOf(char2.handle) = "characteristic"
             /\ KindOf(char2.handle + 1) = ServiceInfo(s)[c].value
             /\ char2.cccd # 0 => KindOf(char2.cccd) = "cccd"
    <2> SUFFICES ASSUME NEW c \in 1 .. n + 1
                 PROVE  LET char2 == told2.chars[c]
                            KindOf(h) == db2[p + (h - told2.handle)].kind
                        IN /\ KindOf(char2.handle) = "characteristic"
                           /\ KindOf(char2.handle + 1) = ServiceInfo(s)[c].value
                           /\ char2.cccd # 0 => KindOf(char2.cccd) = "cccd"
      BY <1>2
    <2>1. CASE c \in 1 .. n
      <3>1. /\ db2[p + (Chars[c].handle - told.handle)].kind = "characteristic"
            /\ db2[p + ((Chars[c].handle + 1) - told.handle)].kind = ServiceInfo(s)[c].value
            /\ Chars[c].cccd # 0 => db2[p + (Chars[c].cccd - told.handle)].kind = "cccd"
        BY <1>7, <2>1 DEF Placed, Chars
      <3> QED BY <1>2, <2>1, <3>1
    <2>2. CASE c = n + 1
      <3>1. told2.chars[c] = NewChar /\ NewChar.handle = LastHandle + 1 /\ NewChar.cccd = 0
        BY <1>2, <2>2 DEF NewChar
      <3> HIDE DEF told2, told, s, db2
      <3> QED BY <1>2, <1>5, <1>8, <2>2, <3>1
    <2> QED BY <1>2, <2>1, <2>2
  <1>11. Placed(db2, p, s, told2)
    <2> HIDE DEF told2, told, s, db2
    <2> QED BY <1>2, <1>5, <1>6, <1>8, <1>9, <1>10, PlacedGrows
  <1>12. add' = [service |-> s, info |-> told2]
    <2>1. add' = [add EXCEPT !.info.chars =
                    Append(Chars, [handle |-> LastHandle + 1, descs |-> 0, cccd |-> 0])]
      BY DEF AddCharacteristicDeclarationAndValue, gGattDbInvalidHandle_d, Chars
    <2>2. add = [service |-> add.service, info |-> [handle |-> add.info.handle, chars |-> Chars]]
      BY <1>1, AddFacts
    <2>3. ASSUME NEW x
          PROVE  [add EXCEPT !.info.chars = x] =
                   [service |-> add.service, info |-> [handle |-> add.info.handle, chars |-> x]]
      BY <2>2
    <2> QED BY <2>1, <2>3 DEF WithChar, NewChar
  <1>13. AddOK'
    <2>1. add'.service = s /\ add'.info = told2 /\ add' \in [service : Services, info : Told]
      BY <1>2, <1>12
    <2> HIDE DEF told2, s
    <2> QED BY <1>2, <1>8, <1>11, <2>1 DEF AddOK
  <1>14. ReportedOK' /\ HandlesApart'
    <2>1. add'.info.handle = add.info.handle /\ add' # NoService
      <3>1. add'.service \in Services
        BY <1>2, <1>12
      <3>2. add' # NoService
        BY <3>1, NoneNotService DEF NoService
      <3> QED BY <1>2, <1>12, <3>2
    <2> QED BY <1>1, <1>5, <2>1, KeepsOthers
  <1> QED BY <1>5, <1>13, <1>14

\* The range that is looked up for a service is where the service sits.
LEMMA RangeOfSits ==
  ASSUME TableOK, Ascends, NEW s, NEW told, Shape(s, told), NEW p \in Nat \ {0},
         Placed(gattDatabase, p, s, told), BoundedAt(gattDatabase, p, told)
  PROVE  /\ p - 1 \in Indices /\ IsServiceDeclaration(p - 1) /\ At(p - 1).handle = told.handle
         /\ GattDb_FindServiceRange(told.handle) = [start |-> p - 1, count |-> Extent(told)]
  <1> DEFINE k == p - 1
             n == Extent(told)
  <1>1. n \in Nat \ {0} /\ p + n <= Len(gattDatabase) + 1 /\ Len(gattDatabase) \in Nat
    BY ExtentFacts, TableFacts DEF Placed
  <1>2. k \in Indices /\ k + 1 = p /\ k \in Nat
    BY <1>1 DEF Indices, gGattDbAttributeCount_c
  <1>3. IsServiceDeclaration(k) /\ At(k).handle = told.handle
    BY <1>2, PlacedFirst DEF IsServiceDeclaration, At
  <1>4. PICK e \in Nat :
          /\ EndsAt(k, e)
          /\ GattDb_FindServiceRange(told.handle) = [start |-> k, count |-> e - k]
    BY <1>2, <1>3, RangeOfService
  <1>5. \A i \in k + 1 .. (k + n) - 1 : ~ IsServiceDeclaration(i)
    <2> SUFFICES ASSUME NEW i \in k + 1 .. (k + n) - 1 PROVE ~ IsServiceDeclaration(i)
      OBVIOUS
    <2>1. i - k \in 0 .. n - 1 /\ i - k # 0 /\ p + (i - k) = i + 1
      BY <1>1, <1>2
    <2>2. gattDatabase[p + (i - k)].kind # "service"
      BY <2>1 DEF Placed
    <2> QED BY <2>1, <2>2 DEF IsServiceDeclaration, At
  <1>6. k + n = Len(gattDatabase) \/ IsServiceDeclaration(k + n)
    <2>1. (k + n) + 1 = p + n
      BY <1>1, <1>2
    <2>2. CASE p + n = Len(gattDatabase) + 1
      BY <1>1, <1>2, <2>2
    <2>3. CASE gattDatabase[p + n].kind = "service"
      BY <2>1, <2>3 DEF IsServiceDeclaration, At
    <2> QED BY <2>2, <2>3 DEF BoundedAt
  <1>7. e = k + n
    <2>1. /\ e \in k + 1 .. Len(gattDatabase) /\ k + n \in k + 1 .. Len(gattDatabase)
          /\ k + n \in Nat
      BY <1>1, <1>2, <1>4 DEF EndsAt
    <2>2. ASSUME e < k + n PROVE FALSE
      <3>1. e \in k + 1 .. (k + n) - 1 /\ e # Len(gattDatabase)
        BY <1>1, <1>2, <2>1, <2>2
      <3> QED BY <1>4, <1>5, <3>1 DEF EndsAt
    <2>3. ASSUME k + n < e PROVE FALSE
      <3>1. k + n \in k + 1 .. e - 1 /\ k + n # Len(gattDatabase)
        BY <1>1, <1>2, <2>1, <2>3
      <3> QED BY <1>4, <1>6, <3>1 DEF EndsAt
    <2> QED BY <2>1, <2>2, <2>3
  <1>8. e - k = n
    BY <1>1, <1>2, <1>7
  <1> QED BY <1>2, <1>3, <1>4, <1>8

\* What taking a range out of the table does.
LEMMA RemovesRange ==
  ASSUME TableOK, NEW p \in Nat \ {0}, NEW n \in Nat \ {0}, p + n <= Len(gattDatabase) + 1,
         gattDatabase' = SubSeq(gattDatabase, 1, p - 1)
                           \o SubSeq(gattDatabase, (p - 1) + n + 1, Len(gattDatabase))
  PROVE  TableOK' /\ Removes(gattDatabase, gattDatabase', p, n)
  <1> DEFINE len == Len(gattDatabase)
             before == SubSeq(gattDatabase, 1, p - 1)
             behind == SubSeq(gattDatabase, (p - 1) + n + 1, len)
  <1>1. len \in Nat /\ \A i \in 1 .. len : gattDatabase[i] \in AttributeType
    BY TableFacts
  <1>2. /\ before \in Seq(AttributeType) /\ Len(before) = p - 1
        /\ \A i \in 1 .. p - 1 : before[i] = gattDatabase[i]
    <2>1. \A i \in 1 .. p - 1 : gattDatabase[i] \in AttributeType
      BY <1>1
    <2>2. /\ before \in Seq(AttributeType)
          /\ Len(before) = IF 1 <= p - 1 THEN (p - 1) - 1 + 1 ELSE 0
          /\ \A i \in 1 .. (p - 1) - 1 + 1 : before[i] = gattDatabase[1 + i - 1]
      <3>1. p - 1 \in Int /\ 1 \in Int
        OBVIOUS
      <3> QED BY <2>1, <3>1, SubSeqProperties
    <2>3. (p - 1) - 1 + 1 = p - 1 /\ \A i \in 1 .. p - 1 : 1 + i - 1 = i
      OBVIOUS
    <2> QED BY <2>2, <2>3
  <1>3. /\ behind \in Seq(AttributeType) /\ Len(behind) = (len - n) - (p - 1)
        /\ \A i \in 1 .. (len - n) - (p - 1) : behind[i] = gattDatabase[(p - 1) + n + i]
    <2>1. \A i \in (p - 1) + n + 1 .. len : gattDatabase[i] \in AttributeType
      BY <1>1
    <2> DEFINE from == (p - 1) + n + 1
    <2>2. /\ behind \in Seq(AttributeType)
          /\ Len(behind) = IF from <= len THEN len - from + 1 ELSE 0
          /\ \A i \in 1 .. len - from + 1 : behind[i] = gattDatabase[from + i - 1]
      <3>1. from \in Int /\ len \in Int
        BY <1>1
      <3>2. behind = SubSeq(gattDatabase, from, len) /\ \A i \in from .. len : gattDatabase[i] \in AttributeType
        BY <2>1
      <3> HIDE DEF len, from, behind
      <3>3. /\ SubSeq(gattDatabase, from, len) \in Seq(AttributeType)
            /\ Len(SubSeq(gattDatabase, from, len)) = IF from <= len THEN len - from + 1 ELSE 0
            /\ \A i \in 1 .. len - from + 1 :
                 SubSeq(gattDatabase, from, len)[i] = gattDatabase[from + i - 1]
        <4> USE <3>1
        <4>1. \A i \in from .. len : gattDatabase[i] \in AttributeType
          BY <3>2
        <4> QED BY <4>1, SubSeqProperties
      <3> QED BY <3>2, <3>3
    <2>3. /\ len - from + 1 = (len - n) - (p - 1)
          /\ ~ (from <= len) => (len - n) - (p - 1) = 0
          /\ \A i \in 1 .. (len - n) - (p - 1) : from + i - 1 = (p - 1) + n + i
      BY <1>1
    <2> HIDE DEF from
    <2> HIDE DEF behind
    <2> QED BY <2>2, <2>3
  <1>4. /\ gattDatabase' \in Seq(AttributeType)
        /\ Len(gattDatabase') = (p - 1) + ((len - n) - (p - 1))
        /\ \A i \in 1 .. (p - 1) + ((len - n) - (p - 1)) :
             gattDatabase'[i] = IF i <= p - 1 THEN before[i] ELSE behind[i - (p - 1)]
    <2> HIDE DEF before, behind
    <2>1. gattDatabase' = before \o behind
      BY DEF before, behind
    <2>2. /\ before \o behind \in Seq(AttributeType)
          /\ Len(before \o behind) = Len(before) + Len(behind)
          /\ \A i \in 1 .. Len(before) + Len(behind) :
               (before \o behind)[i] = IF i <= Len(before) THEN before[i] ELSE behind[i - Len(before)]
      BY <1>2, <1>3, ConcatProperties
    <2>3. Len(before) = p - 1 /\ Len(behind) = (len - n) - (p - 1)
      BY <1>2, <1>3
    <2> HIDE DEF len
    <2> QED BY <2>1, <2>2, <2>3
  <1>5. (p - 1) + ((len - n) - (p - 1)) = len - n
    BY <1>1
  <1>6. \A i \in 1 .. p - 1 : gattDatabase'[i] = gattDatabase[i]
    <2>1. \A i \in 1 .. p - 1 : i \in 1 .. len - n /\ i <= p - 1
      BY <1>1
    <2> HIDE DEF before, behind, len
    <2> QED BY <1>2, <1>4, <1>5, <2>1
  <1>7. \A i \in p .. len - n : gattDatabase'[i] = gattDatabase[i + n]
    <2> SUFFICES ASSUME NEW i \in p .. len - n PROVE gattDatabase'[i] = gattDatabase[i + n]
      OBVIOUS
    <2>1. /\ i \in 1 .. len - n /\ ~ (i <= p - 1)
          /\ i - (p - 1) \in 1 .. (len - n) - (p - 1)
          /\ (p - 1) + n + (i - (p - 1)) = i + n
      BY <1>1
    <2> HIDE DEF before, behind, len
    <2>2. gattDatabase'[i] = behind[i - (p - 1)]
      BY <1>4, <1>5, <2>1
    <2>3. behind[i - (p - 1)] = gattDatabase[(p - 1) + n + (i - (p - 1))]
      BY <1>3, <2>1
    <2> QED BY <2>1, <2>2, <2>3
  <1> QED BY <1>4, <1>5, <1>6, <1>7 DEF TableOK, Removes

LEMMA KeepsRemove ==
  ASSUME DatabaseInv, NEW s \in Services, RemoveService(s)
  PROVE  DatabaseInv'
  <1> USE DEF DatabaseInv
  <1> DEFINE told == reported[s]
             n == Extent(told)
  <1>1. /\ Idle /\ IsReported(s) /\ UNCHANGED add
        /\ reported' = [reported EXCEPT ![s] = NotReported]
        /\ LET range == GattDb_FindServiceRange(told.handle)
           IN gattDatabase' = SubSeq(gattDatabase, 1, range.start)
                \o SubSeq(gattDatabase, range.start + range.count + 1, Len(gattDatabase))
    BY DEF RemoveService, IsReported
  <1>2. Shape(s, told) /\ Sits(gattDatabase, s, told)
    BY <1>1 DEF ReportedOK
  <1>3. PICK p \in Nat \ {0} : Placed(gattDatabase, p, s, told) /\ BoundedAt(gattDatabase, p, told)
    BY <1>2 DEF Sits
  <1>4. GattDb_FindServiceRange(told.handle) = [start |-> p - 1, count |-> n]
    BY <1>2, <1>3, RangeOfSits
  <1>5. n \in Nat \ {0} /\ p + n <= Len(gattDatabase) + 1 /\ Len(gattDatabase) \in Nat
    BY <1>2, <1>3, ExtentFacts, TableFacts DEF Placed
  <1>6. TableOK' /\ Removes(gattDatabase, gattDatabase', p, n)
    <2> HIDE DEF n, told
    <2>1. gattDatabase' = SubSeq(gattDatabase, 1, p - 1)
                            \o SubSeq(gattDatabase, (p - 1) + n + 1, Len(gattDatabase))
      <3>1. /\ GattDb_FindServiceRange(told.handle).start = p - 1
            /\ GattDb_FindServiceRange(told.handle).count = n
        BY <1>4
      <3> QED BY <1>1, <3>1, Zenon
    <2> QED BY <1>5, <2>1, RemovesRange
  <1>7. Ascends'
    <2> HIDE DEF n
    <2>0. \A i \in 1 .. Len(gattDatabase) : gattDatabase[i].handle \in Nat
      <3>1. 1 .. MaxHandle \subseteq Nat
        BY HandleRange
      <3> QED BY <3>1, TableFacts DEF AttributeType
    <2> DEFINE from(i) == IF i < p THEN i ELSE i + n
    <2>1. \A i \in 1 .. Len(gattDatabase') :
            /\ from(i) \in 1 .. Len(gattDatabase) /\ from(i) >= i
            /\ gattDatabase'[i] = gattDatabase[from(i)]
      <3> SUFFICES ASSUME NEW i \in 1 .. Len(gattDatabase')
                   PROVE  /\ from(i) \in 1 .. Len(gattDatabase) /\ from(i) >= i
                          /\ gattDatabase'[i] = gattDatabase[from(i)]
        OBVIOUS
      <3>1. i \in 1 .. Len(gattDatabase) - n
        BY <1>6 DEF Removes
      <3>2. CASE i < p
        <4>1. i \in 1 .. p - 1 /\ i \in 1 .. Len(gattDatabase)
          BY <1>5, <3>1, <3>2
        <4> QED BY <1>6, <3>2, <4>1 DEF Removes
      <3>3. CASE ~ (i < p)
        <4>1. i \in p .. Len(gattDatabase) - n /\ i + n \in 1 .. Len(gattDatabase) /\ i + n >= i
          BY <1>5, <3>1, <3>3
        <4> QED BY <1>6, <3>3, <4>1 DEF Removes
      <3> QED BY <3>2, <3>3
    <2>2. \A i, k \in 1 .. Len(gattDatabase') : i < k => from(i) < from(k)
      BY <1>5
    <2> HIDE DEF from
    <2>3. \A i \in 1 .. Len(gattDatabase') : gattDatabase'[i].handle >= i
      <3> SUFFICES ASSUME NEW i \in 1 .. Len(gattDatabase')
                   PROVE  gattDatabase'[i].handle >= i
        OBVIOUS
      <3>1. gattDatabase[from(i)].handle >= from(i) /\ gattDatabase[from(i)].handle \in Nat
        BY <2>0, <2>1 DEF Ascends, AscendsIn
      <3>2. from(i) \in Nat /\ i \in Nat /\ from(i) >= i
        BY <2>1
      <3> QED BY <2>1, <3>1, <3>2
    <2>4. \A i, k \in 1 .. Len(gattDatabase') :
            i < k => gattDatabase'[i].handle < gattDatabase'[k].handle
      BY <2>1, <2>2 DEF Ascends, AscendsIn
    <2> QED BY <2>3, <2>4 DEF Ascends, AscendsIn
  <1>8. \A t \in Services : reported'[t] = IF t = s THEN NotReported ELSE reported[t]
    BY <1>1 DEF ReportedOK
  <1>9. ReportedOK'
    <2>1. reported' \in [Services -> {NotReported} \cup Told]
      BY <1>1 DEF ReportedOK
    <2>2. ASSUME NEW t \in Services, IsReported(t), t # s
          PROVE  Sits(gattDatabase', t, reported[t])
      <3>1. Shape(t, reported[t]) /\ Sits(gattDatabase, t, reported[t])
        BY <2>2 DEF ReportedOK
      <3>2. reported[t].handle # told.handle
        BY <1>1, <2>2 DEF HandlesApart
      <3> HIDE DEF told, n
      <3>3. Removes(gattDatabase, gattDatabase', p, Extent(told))
        BY <1>6 DEF n
      <3> QED BY <1>2, <1>3, <1>5, <3>1, <3>2, <3>3, SitsWithout
    <2> QED BY <1>8, <2>1, <2>2 DEF ReportedOK, IsReported
  <1>10. HandlesApart'
    BY <1>1, <1>8 DEF HandlesApart, IsReported, Idle
  <1> QED BY <1>1, <1>6, <1>7, <1>9, <1>10 DEF AddOK, Idle

-----------------------------------------------------------------------------
LEMMA InitDatabase == Init => DatabaseInv
  <1> SUFFICES ASSUME Init PROVE DatabaseInv
    OBVIOUS
  <1>1. TableOK /\ Ascends
    BY DEF Init, TableOK, Ascends, AscendsIn
  <1>2. ReportedOK /\ AddOK /\ HandlesApart
    BY DEF Init, ReportedOK, AddOK, HandlesApart, IsReported, Idle
  <1> QED BY <1>1, <1>2 DEF DatabaseInv

LEMMA DatabaseStep == DatabaseInv /\ [Next]_vars => DatabaseInv'
  <1> SUFFICES ASSUME DatabaseInv, [Next]_vars PROVE DatabaseInv'
    OBVIOUS
  <1>1. ASSUME NEW s \in Services, AddPrimaryServiceDeclaration(s) PROVE DatabaseInv'
    BY <1>1, KeepsPrimary
  <1>2. ASSUME NEW s \in Services, RemoveService(s) PROVE DatabaseInv'
    BY <1>2, KeepsRemove
  <1>3. CASE AddCharacteristicDeclarationAndValue
    BY <1>3, KeepsCharacteristic
  <1>4. CASE AddCharDescriptor
    BY <1>4, KeepsDescriptor
  <1>5. CASE AddCccd
    BY <1>5, KeepsCccd
  <1>6. CASE AddFails
    BY <1>6, KeepsFails
  <1>7. CASE ReportHandles
    BY <1>7, KeepsReport
  <1>8. ASSUME NEW h \in 1 .. MaxHandle, DeclareServiceAt(h) PROVE DatabaseInv'
    BY <1>8, KeepsDeclare
  <1>9. CASE ReleaseDatabase
    BY <1>9, KeepsRelease
  <1>10. CASE GattDb_ComputeDatabaseHash
    BY <1>10, KeepsHash
  <1>11. CASE UNCHANGED vars
    BY <1>11 DEF vars, DatabaseInv, TableOK, Ascends, ReportedOK, IsReported, AddOK,
       HandlesApart, Idle
  <1> QED BY <1>1, <1>2, <1>3, <1>4, <1>5, <1>6, <1>7, <1>8, <1>9, <1>10, <1>11 DEF Next

LEMMA DatabaseInvariance == Spec => []DatabaseInv
  BY InitDatabase, DatabaseStep, PTL DEF Spec

-----------------------------------------------------------------------------
(* What the application was told is whole.                                 *)

\* The attribute of a handle of a service, and the service of that attribute.
LEMMA AttributeOfSits ==
  ASSUME TableOK, Ascends, NEW s, NEW told, Shape(s, told), NEW p \in Nat \ {0},
         Placed(gattDatabase, p, s, told), BoundedAt(gattDatabase, p, told),
         NEW h \in Nat, told.handle <= h, h < EndHandle(told)
  PROVE  /\ GattDb_GetIndexOfHandle(h) \in Indices
         /\ At(GattDb_GetIndexOfHandle(h)).kind = gattDatabase[p + (h - told.handle)].kind
         /\ GattDb_ServiceStartHandle(h) = told.handle
  <1> DEFINE i == h - told.handle
             j == (p - 1) + i
  <1>1. /\ Extent(told) \in Nat \ {0} /\ Extent(told) = EndHandle(told) - told.handle
        /\ EndHandle(told) \in Nat /\ told.handle \in Nat /\ Len(gattDatabase) \in Nat
        /\ p + Extent(told) <= Len(gattDatabase) + 1
    BY ExtentFacts, TableFacts DEF Extent, Placed
  <1>2. i \in 0 .. Extent(told) - 1 /\ told.handle + i = h
    BY <1>1
  <1>3. j \in Indices /\ j + 1 = p + i /\ j \in Nat
    <2>1. i \in Nat /\ i < Extent(told)
      BY <1>1, <1>2
    <2> HIDE DEF i
    <2>2. j \in Nat /\ j + 1 = p + i
      BY <2>1
    <2>3. p + i <= Len(gattDatabase)
      BY <1>1, <2>1
    <2>4. j \in 0 .. Len(gattDatabase) - 1
      BY <1>1, <2>2, <2>3
    <2> QED BY <2>2, <2>4 DEF Indices, gGattDbAttributeCount_c
  <1>4. At(j) = gattDatabase[p + i] /\ At(j).handle = h
    BY <1>2, <1>3 DEF Placed, At
  <1>5. GattDb_GetIndexOfHandle(h) = j
    BY <1>3, <1>4, IndexOfHandle
  <1>6. /\ p - 1 \in 0 .. j /\ IsServiceDeclaration(p - 1)
        /\ At(p - 1).handle = told.handle
    <2>1. p - 1 \in 0 .. j
      <3>1. i \in Nat
        BY <1>2
      <3> HIDE DEF i
      <3> QED BY <3>1
    <2> HIDE DEF j
    <2> QED BY <2>1, RangeOfSits
  <1>7. \A k \in (p - 1) + 1 .. j : ~ IsServiceDeclaration(k)
    <2> SUFFICES ASSUME NEW k \in (p - 1) + 1 .. j PROVE ~ IsServiceDeclaration(k)
      OBVIOUS
    <2>1. /\ k - (p - 1) \in 0 .. Extent(told) - 1 /\ k - (p - 1) # 0
          /\ p + (k - (p - 1)) = k + 1
      <3>1. i \in Nat /\ i < Extent(told) /\ Extent(told) \in Nat
        BY <1>1, <1>2
      <3> HIDE DEF i
      <3> QED BY <3>1
    <2>2. gattDatabase[p + (k - (p - 1))].kind # "service"
      BY <2>1 DEF Placed
    <2> QED BY <2>1, <2>2 DEF IsServiceDeclaration, At
  <1>8. GattDb_ServiceStartHandle(At(j).handle) = At(p - 1).handle
    <2> HIDE DEF j
    <2> QED BY <1>3, <1>6, <1>7, StartOfService
  <1> HIDE DEF i, j
  <1> QED BY <1>3, <1>4, <1>5, <1>6, <1>8 DEF i

LEMMA SitsWhole ==
  ASSUME DatabaseInv, NEW s \in Services, IsReported(s)
  PROVE  Whole(s)
  <1> DEFINE told == reported[s]
             info == ServiceInfo(s)
             size(c) == 2 + info[c].descs + (IF info[c].cccd THEN 1 ELSE 0)
             behind(c) == IF c = 0 THEN told.handle + 1 ELSE told.chars[c].handle + size(c)
             KindAt(h) == IF GattDb_GetIndexOfHandle(h) \in Indices
                          THEN At(GattDb_GetIndexOfHandle(h)).kind ELSE "none"
  <1>1. TableOK /\ Ascends /\ Shape(s, told) /\ Finished(s, told)
    BY DEF DatabaseInv, ReportedOK
  <1>2. PICK p \in Nat \ {0} : Placed(gattDatabase, p, s, told) /\ BoundedAt(gattDatabase, p, told)
    BY DEF DatabaseInv, ReportedOK, Sits
  <1>3. /\ told.handle \in Nat \ {0} /\ EndHandle(told) \in Nat
        /\ Extent(told) \in Nat \ {0} /\ Extent(told) = EndHandle(told) - told.handle
        /\ Len(told.chars) \in Nat
        /\ \A c \in 1 .. Len(told.chars) : told.chars[c] \in CharTold
    BY <1>1, ExtentFacts DEF Extent
  <1>4. DOMAIN told.chars = 1 .. Len(told.chars)
    BY <1>1 DEF Shape, Told
  <1>5. \A h \in Nat : told.handle <= h /\ h < EndHandle(told) =>
          /\ KindAt(h) = gattDatabase[p + (h - told.handle)].kind
          /\ GattDb_ServiceStartHandle(h) = told.handle
    <2> HIDE DEF told
    <2> QED BY <1>1, <1>2, AttributeOfSits
  <1>6. GattDb_FindServiceRange(told.handle).count = Extent(told)
    <2> HIDE DEF told
    <2>1. GattDb_FindServiceRange(told.handle) = [start |-> p - 1, count |-> Extent(told)]
      BY <1>1, <1>2, RangeOfSits
    <2> QED BY <2>1
  <1>7. \A c \in 1 .. Len(told.chars) : behind(c) = Behind(told.chars[c])
    <2> SUFFICES ASSUME NEW c \in 1 .. Len(told.chars) PROVE behind(c) = Behind(told.chars[c])
      OBVIOUS
    <2>1. told.chars[c].descs = info[c].descs /\ (told.chars[c].cccd # 0 <=> info[c].cccd)
      BY <1>1 DEF Finished, Complete
    <2>2. told.chars[c].handle \in Nat /\ told.chars[c].descs \in Nat
      BY <1>3 DEF CharTold
    <2>3. c # 0
      BY <1>3
    <2> HIDE DEF told, info
    <2> DEFINE one == IF told.chars[c].cccd # 0 THEN 1 ELSE 0
    <2>4. behind(c) = told.chars[c].handle + (2 + told.chars[c].descs + one)
      BY <2>1, <2>3
    <2>5. Behind(told.chars[c]) = told.chars[c].handle + 2 + told.chars[c].descs + one
      BY DEF Behind
    <2>6. one \in Nat
      OBVIOUS
    <2> HIDE DEF behind, one
    <2>7. \A h, d, b \in Nat : h + (2 + d + b) = h + 2 + d + b
      OBVIOUS
    <2> QED BY <2>2, <2>4, <2>5, <2>6, <2>7
  <1>8. behind(Len(told.chars)) = EndHandle(told)
    <2> HIDE DEF told, size
    <2>1. CASE Len(told.chars) = 0
      BY <2>1 DEF EndHandle
    <2>2. CASE Len(told.chars) # 0
      <3>1. Len(told.chars) \in 1 .. Len(told.chars)
        BY <1>3, <2>2
      <3> HIDE DEF behind
      <3> QED BY <1>7, <2>2, <3>1 DEF EndHandle
    <2> QED BY <2>1, <2>2
  <1>9. KindAt(told.handle) = "service"
    <2>1. told.handle < EndHandle(told) /\ p + (told.handle - told.handle) = p
      BY <1>3
    <2>2. gattDatabase[p].kind = "service"
      BY <1>1, <1>2, PlacedFirst
    <2> HIDE DEF told, KindAt
    <2> QED BY <1>3, <1>5, <2>1, <2>2
  <1>10. ASSUME NEW c \in 1 .. Len(told.chars)
         PROVE  /\ told.chars[c].handle = behind(c - 1)
                /\ KindAt(told.chars[c].handle) = "characteristic"
                /\ KindAt(told.chars[c].handle + 1) = info[c].value
                /\ GattDb_ServiceStartHandle(told.chars[c].handle) = told.handle
                /\ info[c].cccd => /\ told.chars[c].cccd = behind(c) - 1
                                   /\ KindAt(told.chars[c].cccd) = "cccd"
    <2> DEFINE char == told.chars[c]
    <2>1. /\ char.handle = IF c = 1 THEN told.handle + 1 ELSE Behind(told.chars[c - 1])
          /\ char.cccd # 0 => char.cccd = Behind(char) - 1
          /\ info[c].cccd => char.cccd # 0
      BY <1>1 DEF Shape, Finished, Complete
    <2>2. /\ char.handle \in Nat /\ Behind(char) \in Nat /\ told.handle \in Nat
          /\ EndHandle(told) \in Nat
          /\ Behind(char) >= char.handle + 2 /\ told.handle < char.handle
          /\ Behind(char) <= EndHandle(told)
      BY <1>1, ExtentFacts DEF CharTold
    <2>3. /\ gattDatabase[p + (char.handle - told.handle)].kind = "characteristic"
          /\ gattDatabase[p + ((char.handle + 1) - told.handle)].kind = info[c].value
          /\ char.cccd # 0 => gattDatabase[p + (char.cccd - told.handle)].kind = "cccd"
      BY <1>2 DEF Placed
    <2>4. char.handle = behind(c - 1)
      <3>1. CASE c = 1
        <4>1. c - 1 = 0
          BY <3>1
        <4> HIDE DEF told, char, size
        <4> QED BY <2>1, <3>1, <4>1
      <3>2. CASE c # 1
        <4>1. c - 1 \in 1 .. Len(told.chars)
          BY <1>3, <3>2
        <4> HIDE DEF told, behind, char
        <4> QED BY <1>7, <2>1, <3>2, <4>1
      <3> QED BY <3>1, <3>2
    <2>5. /\ told.handle <= char.handle /\ char.handle < EndHandle(told)
          /\ char.handle + 1 \in Nat
          /\ told.handle <= char.handle + 1 /\ char.handle + 1 < EndHandle(told)
          /\ Behind(char) - 1 \in Nat
          /\ told.handle <= Behind(char) - 1 /\ Behind(char) - 1 < EndHandle(told)
      <3> HIDE DEF told, char
      <3> QED BY <2>2
    <2>6. KindAt(char.handle) = "characteristic" /\ KindAt(char.handle + 1) = info[c].value
      <3> HIDE DEF told, char, KindAt, info
      <3> QED BY <1>5, <2>2, <2>3, <2>5
    <2>7. GattDb_ServiceStartHandle(char.handle) = told.handle
      <3> HIDE DEF told, char, KindAt
      <3> QED BY <1>5, <2>2, <2>5
    <2>8. ASSUME info[c].cccd
          PROVE  char.cccd = behind(c) - 1 /\ KindAt(char.cccd) = "cccd"
      <3>1. char.cccd # 0 /\ char.cccd = Behind(char) - 1
        BY <2>1, <2>8
      <3>2. behind(c) = Behind(char)
        BY <1>7
      <3> HIDE DEF told, char, KindAt, behind
      <3> QED BY <1>5, <2>3, <2>5, <3>1, <3>2
    <2> HIDE DEF told, KindAt, behind, info
    <2> QED BY <2>4, <2>6, <2>7, <2>8 DEF char
  <1>11. told.handle + Extent(told) = behind(Len(told.chars))
    <2> HIDE DEF behind, told
    <2> QED BY <1>3, <1>8
  <1>12. Len(told.chars) = Len(info)
    BY <1>1 DEF Finished
  <1>13. told.handle + GattDb_FindServiceRange(told.handle).count = behind(Len(told.chars))
    <2> HIDE DEF behind, told
    <2> QED BY <1>6, <1>11
  <1> QED BY <1>4, <1>9, <1>10, <1>12, <1>13, Zenon DEF Whole

-----------------------------------------------------------------------------
\* The attributes of the table have handles the table can have, places that ascend with
\* them and known kinds, after every sequence of additions, failures and removals.
THEOREM TableCorrect == Spec => [](TableOK /\ Ascends)
  <1>1. DatabaseInv => TableOK /\ Ascends
    BY DEF DatabaseInv
  <1> QED BY <1>1, DatabaseInvariance, PTL

\* GattDb_GetIndexOfHandle finds exactly the handles of the table, on every table that
\* additions, additions that failed, gaps and removals can make.
THEOREM IndexFoundCorrect == Spec => []IndexFound
  <1>1. DatabaseInv => IndexFound
    BY AscendsFound DEF DatabaseInv
  <1> QED BY <1>1, DatabaseInvariance, PTL

\* GattDb_ServiceStartHandle and GattDb_FindServiceRange agree on the service of every
\* attribute, on every such table.
THEOREM RangesAgreeCorrect == Spec => []RangesAgree
  <1>1. DatabaseInv => RangesAgree
    BY AscendsAgree DEF DatabaseInv
  <1> QED BY <1>1, DatabaseInvariance, PTL

\* Whatever fails and whatever is removed in between, the handles that the functions adding
\* a service filled in stay those of the whole service until it is removed itself.
THEOREM ReportedWholeCorrect == Spec => []ReportedWhole
  <1>1. DatabaseInv => ReportedWhole
    BY SitsWhole DEF ReportedWhole, IsReported
  <1> QED BY <1>1, DatabaseInvariance, PTL

-----------------------------------------------------------------------------
(* Where the hash goes.                                                     *)

\* Only the hash service has a hash: its one value, without descriptors or CCCD.
PlainInfo == {char \in CharInfo : char.value = "value"}

LEMMA PlainCharacteristics ==
  /\ Characteristic(0, TRUE) \in PlainInfo
  /\ Characteristic(0, FALSE) \in PlainInfo
  /\ Characteristic(1, TRUE) \in PlainInfo
  BY DEF Characteristic, CharInfo, PlainInfo

LEMMA PlainServices ==
  ASSUME NEW s \in Services, s # "hash"
  PROVE  ServiceInfo(s) \in Seq(PlainInfo)
  <1>1. s \in {"gatt", "gap", "ipss", "heartRate", "battery", "deviceInformation"}
    BY GattDatabaseAssumption
  <1>2. /\ GattService \in Seq(PlainInfo) /\ IpssService \in Seq(PlainInfo)
        /\ HeartRateService \in Seq(PlainInfo) /\ BatteryService \in Seq(PlainInfo)
    BY PlainCharacteristics, ShortSequences, Zenon
       DEF GattService, IpssService, HeartRateService, BatteryService
  <1>3. GapService \in Seq(PlainInfo) /\ DeviceInformationService \in Seq(PlainInfo)
    BY PlainCharacteristics, ShortSequences, Zenon DEF GapService, DeviceInformationService
  <1>4. /\ ServiceInfo("gatt") = GattService /\ ServiceInfo("gap") = GapService
        /\ ServiceInfo("ipss") = IpssService /\ ServiceInfo("heartRate") = HeartRateService
        /\ ServiceInfo("battery") = BatteryService
        /\ ServiceInfo("deviceInformation") = DeviceInformationService
    BY DEF ServiceInfo
  <1> QED BY <1>1, <1>2, <1>3, <1>4

LEMMA HashInfo ==
  /\ Len(ServiceInfo("hash")) = 1
  /\ ServiceInfo("hash")[1].descs = 0 /\ ServiceInfo("hash")[1].cccd = FALSE
  /\ ServiceInfo("hash")[1].value = "hash"
  BY DEF ServiceInfo, HashService, Characteristic

\* A hash value lies no further on than the one the application was told of, unless the
\* service of another is all there and about to be told.
HashUnderWay == ~ Idle /\ add.service = "hash" /\ ServiceDone
LowHashes ==
  "hash" \in Services /\ IsReported("hash") =>
    \A i \in 1 .. Len(gattDatabase) :
      gattDatabase[i].kind = "hash" => gattDatabase[i].handle <= reported["hash"].handle + 2

\* A hash that is of the table went to the last place for one.
HashedLast ==
  hashed => Idle /\ (Places # {} => mServerDatabaseHashIndex = Max(Places))

HashInv == (HashUnderWay \/ LowHashes) /\ HashedLast

\* Attributes of other kinds, and fewer attributes, leave the hashes where they were told.
LEMMA LowStays ==
  ASSUME LowHashes, UNCHANGED reported,
         \A i \in 1 .. Len(gattDatabase') :
           \/ gattDatabase'[i].kind # "hash"
           \/ \E k \in 1 .. Len(gattDatabase) : gattDatabase'[i] = gattDatabase[k]
  PROVE  LowHashes'
  <1> SUFFICES ASSUME "hash" \in Services, reported'["hash"] # NotReported,
                      NEW i \in 1 .. Len(gattDatabase'), gattDatabase'[i].kind = "hash"
               PROVE  gattDatabase'[i].handle <= reported'["hash"].handle + 2
    BY DEF LowHashes, IsReported
  <1>1. PICK k \in 1 .. Len(gattDatabase) : gattDatabase'[i] = gattDatabase[k]
    OBVIOUS
  <1> QED BY <1>1 DEF LowHashes, IsReported

\* So does one attribute that the library appends.
LEMMA LowAppended ==
  ASSUME DatabaseInv, LowHashes, UNCHANGED reported, NEW h \in Nat, h > LastHandle,
         NEW k \in Kinds, k # "hash", Append1(h, k)
  PROVE  LowHashes'
  <1>1. TableOK /\ Ascends /\ Len(gattDatabase) \in Nat
    BY TableFacts DEF DatabaseInv
  <1>2. /\ Extends(gattDatabase, gattDatabase')
        /\ Len(gattDatabase') = Len(gattDatabase) + 1
        /\ gattDatabase'[Len(gattDatabase) + 1].kind = k
    BY <1>1, AppendsOne
  <1>3. \A i \in 1 .. Len(gattDatabase') :
          \/ gattDatabase'[i].kind # "hash"
          \/ \E m \in 1 .. Len(gattDatabase) : gattDatabase'[i] = gattDatabase[m]
    BY <1>1, <1>2 DEF Extends
  <1> QED BY <1>3, LowStays

\* The value of the hash service makes it whole.
LEMMA HashCharacteristic ==
  ASSUME DatabaseInv, LowHashes, AddCharacteristicDeclarationAndValue
  PROVE  HashUnderWay' \/ LowHashes'
  <1> DEFINE n == Len(Chars)
             value == ServiceInfo(add.service)[n + 1].value
             new == <<Attribute(LastHandle + 1, "characteristic"),
                      Attribute(LastHandle + 2, value)>>
  <1>1. /\ ~ Idle /\ CharacteristicDone /\ ~ ServiceDone /\ UNCHANGED reported
        /\ gattDatabase' = gattDatabase \o new
        /\ add' = [add EXCEPT !.info.chars = Append(@, NewChar)]
    BY DEF AddCharacteristicDeclarationAndValue, NewChar, gGattDbInvalidHandle_d
  <1>2. /\ add.service \in Services /\ Chars \in Seq(CharTold) /\ n \in Nat
        /\ n <= Len(ServiceInfo(add.service))
        /\ add = [service |-> add.service, info |-> [handle |-> add.info.handle, chars |-> Chars]]
    BY <1>1, AddFacts
  <1>3. n + 1 \in 1 .. Len(ServiceInfo(add.service))
    BY <1>1, <1>2, AddFacts DEF ServiceDone
  <1>4. CASE add.service = "hash"
    <2>1. n = 0
      <3>1. Len(ServiceInfo(add.service)) = 1
        BY <1>4, HashInfo
      <3> HIDE DEF n
      <3> QED BY <1>2, <1>3, <3>1
    <2>2. /\ add'.service = "hash" /\ Chars' = Append(Chars, NewChar)
      BY <1>1, <1>2, <1>4 DEF Chars
    <2>3. Len(Chars') = 1 /\ Chars'[1] = NewChar
      BY <1>2, <2>1, <2>2
    <2>4. LastChar' = NewChar /\ LastInfo' = ServiceInfo("hash")[1]
      BY <2>2, <2>3 DEF LastChar, LastInfo
    <2>5. ServiceDone'
      BY <2>2, <2>3, <2>4, HashInfo DEF ServiceDone, CharacteristicDone, NewChar
    <2>6. ~ Idle'
      BY <2>2 DEF Idle, NoService
    <2> QED BY <2>2, <2>5, <2>6 DEF HashUnderWay
  <1>5. CASE add.service # "hash"
    <2>1. ServiceInfo(add.service)[n + 1] \in PlainInfo
      BY <1>2, <1>3, <1>5, PlainServices, ElementOfSeq
    <2>2. value = "value"
      BY <2>1 DEF PlainInfo
    <2>3. /\ Len(new) = 2 /\ new[1].kind # "hash" /\ new[2].kind # "hash"
      BY <2>2 DEF Attribute
    <2> HIDE DEF new
    <2>4. gattDatabase \in Seq(AttributeType) /\ Len(gattDatabase) \in Nat
      BY TableFacts DEF DatabaseInv, TableOK
    <2>5. /\ Len(gattDatabase') = Len(gattDatabase) + 2
          /\ \A i \in 1 .. Len(gattDatabase) + 2 :
               gattDatabase'[i] = IF i <= Len(gattDatabase) THEN gattDatabase[i]
                                  ELSE new[i - Len(gattDatabase)]
      <3>1. LastHandle + 1 \in 1 .. MaxHandle /\ LastHandle + 2 \in 1 .. MaxHandle
        <4>1. \A l, m \in Nat : l + 2 <= m => l + 1 \in 1 .. m /\ l + 2 \in 1 .. m
          OBVIOUS
        <4>2. LastHandle + 2 <= MaxHandle /\ LastHandle \in Nat /\ MaxHandle \in Nat
          BY LastHandleFacts, HandleRange DEF DatabaseInv, AddCharacteristicDeclarationAndValue
        <4> QED BY <4>1, <4>2
      <3>2. /\ Attribute(LastHandle + 1, "characteristic") \in AttributeType
            /\ Attribute(LastHandle + 2, value) \in AttributeType
        BY <2>2, <3>1, AttributeFacts DEF Kinds
      <3>3. new \in Seq(AttributeType)
        BY <3>2 DEF new
      <3>4. gattDatabase' = gattDatabase \o new /\ gattDatabase \in Seq(AttributeType)
        BY <1>1, <2>4
      <3>5. /\ Len(gattDatabase \o new) = Len(gattDatabase) + Len(new)
            /\ \A i \in 1 .. Len(gattDatabase) + Len(new) :
                 (gattDatabase \o new)[i] = IF i <= Len(gattDatabase) THEN gattDatabase[i]
                                             ELSE new[i - Len(gattDatabase)]
        BY <3>3, <3>4, ConcatProperties
      <3> QED BY <2>3, <3>4, <3>5
    <2>6. \A i \in 1 .. Len(gattDatabase') :
            \/ gattDatabase'[i].kind # "hash"
            \/ \E m \in 1 .. Len(gattDatabase) : gattDatabase'[i] = gattDatabase[m]
      <3> SUFFICES ASSUME NEW i \in 1 .. Len(gattDatabase')
                   PROVE  \/ gattDatabase'[i].kind # "hash"
                          \/ \E m \in 1 .. Len(gattDatabase) : gattDatabase'[i] = gattDatabase[m]
        OBVIOUS
      <3>1. CASE i <= Len(gattDatabase)
        BY <2>4, <2>5, <3>1
      <3>2. CASE i > Len(gattDatabase)
        <4>1. i - Len(gattDatabase) = 1 \/ i - Len(gattDatabase) = 2
          BY <2>4, <2>5, <3>2
        <4>2. gattDatabase'[i] = new[i - Len(gattDatabase)]
          BY <2>4, <2>5, <3>2
        <4> QED BY <2>3, <4>1, <4>2
      <3> QED BY <2>4, <2>5, <3>1, <3>2
    <2> QED BY <1>1, <2>6, LowStays
  <1> QED BY <1>4, <1>5

\* The hash service that is told lies at the table's end.
LEMMA HashTold ==
  ASSUME DatabaseInv, ReportHandles, HashUnderWay \/ LowHashes
  PROVE  LowHashes'
  <1> DEFINE s == add.service
  <1>1. /\ ~ Idle /\ ServiceDone /\ add' = NoService /\ UNCHANGED gattDatabase
        /\ reported' = [reported EXCEPT ![s] = add.info] /\ s \in Services
        /\ reported \in [Services -> {NotReported} \cup Told]
    BY AddFacts DEF ReportHandles, DatabaseInv, ReportedOK
  <1>2. CASE s # "hash"
    <2>1. LowHashes
      BY <1>2 DEF HashUnderWay
    <2>2. "hash" \in Services => reported'["hash"] = reported["hash"]
      BY <1>1, <1>2
    <2> QED BY <1>1, <2>1, <2>2 DEF LowHashes, IsReported
  <1>3. CASE s = "hash"
    <2>1. /\ TableOK /\ Ascends /\ Shape(s, add.info)
          /\ \E p \in Nat \ {0} : /\ Placed(gattDatabase, p, s, add.info)
                                  /\ p + Extent(add.info) = Len(gattDatabase) + 1
      BY <1>1 DEF DatabaseInv, AddOK
    <2>2. LastHandle + 1 = EndHandle(add.info)
      BY <2>1, PlacedLast
    <2>3. /\ Len(Chars) = 1 /\ LastChar = Chars[1] /\ LastInfo = ServiceInfo("hash")[1]
          /\ Chars # <<>>
      BY <1>1, <1>3, HashInfo, AddFacts DEF ServiceDone, LastChar, LastInfo
    <2>4. LastChar.descs = 0 /\ (LastChar.cccd # 0 => LastInfo.cccd)
      <3>1. LastChar.descs = LastInfo.descs
        BY <1>1, <2>3 DEF ServiceDone, CharacteristicDone
      <3>2. LastChar.cccd # 0 => Complete(LastChar, LastInfo)
        BY <1>1, <2>3, LastCharFacts
      <3> QED BY <2>3, <3>1, <3>2, HashInfo DEF Complete
    <2>5. LastChar.cccd = 0
      BY <2>3, <2>4, HashInfo
    <2>6. LastChar.handle = add.info.handle + 1 /\ add.info.handle \in Nat
      BY <2>1, <2>3 DEF Shape, Chars, Told
    <2>7. EndHandle(add.info) = Behind(LastChar)
      BY <2>3 DEF EndHandle, Chars
    <2>8. LastHandle = add.info.handle + 2
      <3>1. Behind(LastChar) = LastChar.handle + 2
        BY <2>4, <2>5, <2>6 DEF Behind
      <3>2. LastHandle \in Nat
        BY <2>1, LastHandleFacts
      <3> QED BY <2>2, <2>6, <2>7, <3>1, <3>2
    <2>9. reported'["hash"] = add.info
      BY <1>1, <1>3
    <2>10. \A i \in 1 .. Len(gattDatabase) : gattDatabase[i].handle <= LastHandle
      BY <2>1, LastHandleFacts
    <2> QED BY <1>1, <2>8, <2>9, <2>10 DEF LowHashes
  <1> QED BY <1>2, <1>3

LEMMA HashRemoved ==
  ASSUME DatabaseInv, LowHashes, NEW s \in Services, RemoveService(s)
  PROVE  LowHashes'
  <1> DEFINE told == reported[s]
             n == Extent(told)
  <1>1. /\ IsReported(s) /\ reported' = [reported EXCEPT ![s] = NotReported]
        /\ LET range == GattDb_FindServiceRange(told.handle)
           IN gattDatabase' = SubSeq(gattDatabase, 1, range.start)
                \o SubSeq(gattDatabase, range.start + range.count + 1, Len(gattDatabase))
    BY DEF RemoveService, IsReported
  <1>2. TableOK /\ Ascends /\ ReportedOK
    BY DEF DatabaseInv
  <1>3. Shape(s, told) /\ Sits(gattDatabase, s, told)
    BY <1>1, <1>2 DEF ReportedOK
  <1>4. PICK p \in Nat \ {0} : Placed(gattDatabase, p, s, told) /\ BoundedAt(gattDatabase, p, told)
    BY <1>3 DEF Sits
  <1>5. GattDb_FindServiceRange(told.handle) = [start |-> p - 1, count |-> n]
    BY <1>2, <1>3, <1>4, RangeOfSits
  <1>6. n \in Nat \ {0} /\ p + n <= Len(gattDatabase) + 1 /\ Len(gattDatabase) \in Nat
    BY <1>2, <1>3, <1>4, ExtentFacts, TableFacts DEF Placed
  <1>7. Removes(gattDatabase, gattDatabase', p, n)
    <2> HIDE DEF n, told
    <2>1. gattDatabase' = SubSeq(gattDatabase, 1, p - 1)
                            \o SubSeq(gattDatabase, (p - 1) + n + 1, Len(gattDatabase))
      <3>1. /\ GattDb_FindServiceRange(told.handle).start = p - 1
            /\ GattDb_FindServiceRange(told.handle).count = n
        BY <1>5
      <3> QED BY <1>1, <3>1, Zenon
    <2> QED BY <1>2, <1>6, <2>1, RemovesRange
  <1> HIDE DEF n, told
  <1>8. \A i \in 1 .. Len(gattDatabase') :
          \E k \in 1 .. Len(gattDatabase) : gattDatabase'[i] = gattDatabase[k]
    <2> SUFFICES ASSUME NEW i \in 1 .. Len(gattDatabase')
                 PROVE  \E k \in 1 .. Len(gattDatabase) : gattDatabase'[i] = gattDatabase[k]
      OBVIOUS
    <2>1. CASE i < p
      <3>1. i \in 1 .. p - 1 /\ i \in 1 .. Len(gattDatabase)
        BY <1>6, <1>7, <2>1 DEF Removes
      <3> QED BY <1>7, <3>1 DEF Removes
    <2>2. CASE i >= p
      <3>1. i \in p .. Len(gattDatabase) - n /\ i + n \in 1 .. Len(gattDatabase)
        BY <1>6, <1>7, <2>2 DEF Removes
      <3> QED BY <1>7, <3>1 DEF Removes
    <2> QED BY <1>6, <1>7, <2>1, <2>2 DEF Removes
  <1>9. "hash" \in Services /\ reported'["hash"] # NotReported =>
          reported'["hash"] = reported["hash"]
    BY <1>1, <1>2 DEF ReportedOK
  <1> QED BY <1>8, <1>9 DEF LowHashes, IsReported

LEMMA HashGrows ==
  ASSUME DatabaseInv, HashUnderWay \/ LowHashes, UNCHANGED reported,
         \/ \E s \in Services : AddPrimaryServiceDeclaration(s)
         \/ AddCharDescriptor \/ AddCccd
         \/ \E h \in 1 .. MaxHandle : DeclareServiceAt(h)
  PROVE  LowHashes'
  <1>1. LowHashes
    BY DEF AddPrimaryServiceDeclaration, AddCharDescriptor, AddCccd, DeclareServiceAt,
           HashUnderWay, ServiceDone, CharacteristicDone, DescriptorsDone
  <1>2. LastHandle \in Nat /\ LastHandle + 1 \in Nat /\ LastHandle + 1 > LastHandle
    BY LastHandleFacts DEF DatabaseInv
  <1>3. \E h \in Nat, k \in Kinds : h > LastHandle /\ k # "hash" /\ Append1(h, k)
    <2>1. ASSUME NEW s \in Services, AddPrimaryServiceDeclaration(s)
          PROVE  Append1(LastHandle + 1, "service")
      BY <2>1 DEF AddPrimaryServiceDeclaration
    <2>2. CASE AddCharDescriptor
      BY <1>2, <2>2 DEF AddCharDescriptor, Kinds
    <2>3. CASE AddCccd
      BY <1>2, <2>3 DEF AddCccd, Kinds
    <2>4. ASSUME NEW h \in 1 .. MaxHandle, DeclareServiceAt(h)
          PROVE  h \in Nat /\ h > LastHandle /\ Append1(h, "service")
      BY <1>2, <2>4, HandleRange DEF DeclareServiceAt
    <2>5. "service" \in Kinds /\ "service" # "hash"
      BY DEF Kinds
    <2> QED BY <1>2, <2>1, <2>2, <2>3, <2>4, <2>5
  <1> QED BY <1>1, <1>3, LowAppended

LEMMA HashStep == DatabaseInv /\ HashInv /\ [Next]_vars => HashInv'
  <1> SUFFICES ASSUME DatabaseInv, HashInv, [Next]_vars PROVE HashInv'
    OBVIOUS
  <1>0. HashUnderWay \/ LowHashes
    BY DEF HashInv
  <1>1. ASSUME HashOutdated PROVE HashedLast'
    BY <1>1 DEF HashOutdated, HashedLast
  <1>2. ASSUME NEW s \in Services, AddPrimaryServiceDeclaration(s) PROVE HashInv'
    BY <1>0, <1>1, <1>2, HashGrows DEF HashInv, AddPrimaryServiceDeclaration
  <1>3. ASSUME NEW s \in Services, RemoveService(s) PROVE HashInv'
    <2>1. LowHashes /\ HashOutdated
      BY <1>0, <1>3 DEF RemoveService, HashUnderWay
    <2> QED BY <1>1, <1>3, <2>1, HashRemoved DEF HashInv
  <1>4. CASE AddCharacteristicDeclarationAndValue
    <2>1. LowHashes /\ HashOutdated
      BY <1>0, <1>4 DEF AddCharacteristicDeclarationAndValue, HashUnderWay
    <2> QED BY <1>1, <1>4, <2>1, HashCharacteristic DEF HashInv
  <1>5. CASE AddCharDescriptor
    BY <1>0, <1>1, <1>5, HashGrows DEF HashInv, AddCharDescriptor
  <1>6. CASE AddCccd
    BY <1>0, <1>1, <1>6, HashGrows DEF HashInv, AddCccd
  <1>7. CASE AddFails
    <2>1. LowHashes /\ ~ hashed
      BY <1>0, <1>7 DEF AddFails, HashUnderWay, HashInv, HashedLast
    <2> QED BY <1>7, <2>1 DEF AddFails, HashInv, HashedLast, LowHashes, IsReported
  <1>8. CASE ReportHandles
    <2>1. ~ hashed /\ UNCHANGED hashed
      BY <1>8 DEF ReportHandles, HashInv, HashedLast
    <2> QED BY <1>0, <1>8, <2>1, HashTold DEF HashInv, HashedLast
  <1>9. ASSUME NEW h \in 1 .. MaxHandle, DeclareServiceAt(h) PROVE HashInv'
    BY <1>0, <1>1, <1>9, HashGrows DEF HashInv, DeclareServiceAt
  <1>10. CASE ReleaseDatabase
    <2>1. /\ HashOutdated /\ gattDatabase' = <<>>
      BY <1>10 DEF ReleaseDatabase
    <2> QED BY <1>1, <2>1 DEF HashInv, LowHashes
  <1>11. CASE GattDb_ComputeDatabaseHash
    <2>1. /\ Idle /\ mServerDatabaseHashIndex' = HashIndex
          /\ UNCHANGED <<gattDatabase, add, reported>>
      BY <1>11 DEF GattDb_ComputeDatabaseHash
    <2>2. LowHashes'
      BY <1>0, <2>1 DEF HashUnderWay, LowHashes, IsReported
    <2>3. Places' = Places /\ Idle'
      BY <2>1 DEF Places, Indices, At, gGattDbAttributeCount_c, Idle
    <2>4. Places' # {} => mServerDatabaseHashIndex' = Max(Places')
      BY <2>1, <2>3, Zenon DEF HashIndex
    <2> QED BY <2>2, <2>3, <2>4 DEF HashInv, HashedLast
  <1>12. CASE UNCHANGED vars
    <2>1. UNCHANGED <<gattDatabase, add, reported, mServerDatabaseHashIndex, hashed>>
      BY <1>12 DEF vars
    <2>2. LowHashes => LowHashes'
      BY <2>1 DEF LowHashes, IsReported
    <2>3. HashUnderWay => HashUnderWay'
      BY <2>1 DEF HashUnderWay, Idle, ServiceDone, CharacteristicDone, LastChar, LastInfo, Chars
    <2>4. HashedLast'
      BY <2>1 DEF HashInv, HashedLast, Places, Indices, At, gGattDbAttributeCount_c, Idle
    <2> QED BY <1>0, <2>2, <2>3, <2>4 DEF HashInv
  <1> QED BY <1>2, <1>3, <1>4, <1>5, <1>6, <1>7, <1>8, <1>9, <1>10, <1>11, <1>12 DEF Next

LEMMA HashInvariance == Spec => []HashInv
  <1>1. Init => HashInv
    BY DEF Init, HashInv, LowHashes, HashedLast
  <1> QED BY <1>1, HashStep, DatabaseInvariance, PTL DEF Spec

LEMMA HashWhereToldHolds == DatabaseInv /\ HashInv => HashWhereTold
  <1> SUFFICES ASSUME DatabaseInv, HashInv, hashed, "hash" \in Services, IsReported("hash")
               PROVE  mServerDatabaseHashIndex =
                        GattDb_GetIndexOfHandle(reported["hash"].chars[1].handle + 1)
    BY DEF HashWhereTold, IsReported
  <1> DEFINE told == reported["hash"]
             h == told.chars[1].handle + 1
             j == GattDb_GetIndexOfHandle(h)
  <1>1. /\ TableOK /\ Ascends /\ Whole("hash") /\ Shape("hash", told)
        /\ Finished("hash", told)
    BY SitsWhole DEF DatabaseInv, ReportedOK
  <1>2. Len(told.chars) = 1 /\ told.chars[1].handle = told.handle + 1 /\ told.handle \in Nat
    BY <1>1, HashInfo DEF Finished, Shape, Told
  <1>3. j \in Indices /\ At(j).kind = "hash"
    <2>1. 1 \in DOMAIN told.chars
      BY <1>1, <1>2 DEF Shape, Told
    <2>2. (IF j \in Indices THEN At(j).kind ELSE "none") = ServiceInfo("hash")[1].value
      BY <1>1, <2>1, Zenon DEF Whole
    <2> QED BY <2>2, HashInfo
  <1>4. h = told.handle + 2 /\ h \in Nat
    BY <1>2
  <1> HIDE DEF h
  <1>5. At(j).handle = h
    <2>1. PICK k \in Indices : At(k).handle = h
      <3> SUFFICES ASSUME \A k \in Indices : At(k).handle # h PROVE FALSE
        OBVIOUS
      <3>1. j = gGattDbInvalidHandleIndex_d
        BY <1>1, <1>4, IndexOfNoHandle
      <3>2. j < 65534
        <4> HIDE DEF j
        <4> QED BY <1>1, <1>3, HandleBounds DEF Indices
      <3> QED BY <3>1, <3>2 DEF gGattDbInvalidHandleIndex_d
    <2>2. j = k
      BY <1>1, <2>1, IndexOfHandle
    <2> QED BY <2>1, <2>2
  <1> HIDE DEF j
  <1>6. Idle /\ LowHashes /\ (Places # {} => mServerDatabaseHashIndex = Max(Places))
    BY DEF HashInv, HashedLast, HashUnderWay
  <1>7. j \in Places /\ Len(gattDatabase) \in Nat
    BY <1>1, <1>3, TableFacts DEF Places
  <1>8. \A k \in Places : k <= j
    <2> SUFFICES ASSUME NEW k \in Places, j < k PROVE FALSE
      BY <1>3, <1>7 DEF Places, Indices
    <2>1. /\ k \in Nat /\ j \in Nat /\ k + 1 \in 1 .. Len(gattDatabase)
          /\ j + 1 \in 1 .. Len(gattDatabase) /\ j + 1 < k + 1
      BY <1>3, <1>7 DEF Places, Indices, gGattDbAttributeCount_c
    <2>2. gattDatabase[j + 1].handle < gattDatabase[k + 1].handle
      BY <1>1, <2>1 DEF Ascends, AscendsIn
    <2>3. gattDatabase[k + 1].handle <= told.handle + 2
      BY <1>6, <2>1 DEF Places, At, LowHashes
    <2>4. gattDatabase[j + 1].handle = told.handle + 2
      BY <1>4, <1>5 DEF At
    <2>5. gattDatabase[k + 1].handle \in Nat
      BY <1>1, <2>1, TableFacts, HandleRange DEF AttributeType
    <2> QED BY <1>2, <2>2, <2>3, <2>4, <2>5
  <1>9. Max(Places) = j
    <2>1. Places \subseteq Int /\ j \in Int /\ Places # {}
      BY <1>3, <1>7 DEF Places, Indices
    <2>2. Max(Places) \in Places /\ \A y \in Places : y <= Max(Places)
      BY <1>8, <2>1, MaxFacts
    <2>3. Max(Places) <= j /\ j <= Max(Places) /\ Max(Places) \in Int
      BY <1>7, <1>8, <2>1, <2>2
    <2> QED BY <2>1, <2>3
  <1> QED BY <1>6, <1>7, <1>9 DEF j, h

\* Where the application was told of a service for the hash, the hash of the database goes
\* into its value, wherever the table's additions and removals have moved it and whatever
\* older hash services they have left.
THEOREM HashWhereToldCorrect == Spec => []HashWhereTold
  BY DatabaseInvariance, HashInvariance, HashWhereToldHolds, PTL

=============================================================================
