----------------------------- MODULE GattDatabase -----------------------------
(***************************************************************************)
(* The dynamic GATT database: the services gatt_database_dynamic.c adds    *)
(* attribute by attribute, any of which may find no memory, the look-ups   *)
(* and the database hash of gatt_database.c.  The table itself is kept by  *)
(* the library; its calls are the external operators below.                *)
(*                                                                         *)
(* Indices count from 0, as in the code.                                   *)
(***************************************************************************)
EXTENDS Integers, Sequences, FiniteSetsExt

CONSTANTS Services,     \* the services the application may add
          MaxHandle     \* bound: the last handle the table may reach

ASSUME GattDatabaseAssumption ==
  /\ Services \subseteq {"gatt", "gap", "ipss", "heartRate", "battery",
                         "deviceInformation", "hash"}
  /\ MaxHandle \in 1 .. 65534

VARIABLES
  gattDatabase,             \* the attributes, in the order of the table
  add,                      \* the service whose addition is under way, or NoService
  reported,                 \* what the application was told of its services
  mServerDatabaseHashIndex, \* where the last hash went
  hashed                    \* history: that hash is of the table as it is

vars == <<gattDatabase, add, reported, mServerDatabaseHashIndex, hashed>>

gGattDbInvalidHandleIndex_d == 65535
gGattDbInvalidHandle_d == 0

-----------------------------------------------------------------------------
(* The service infos: characteristics with their number of descriptors.    *)
Characteristic(nbOfDescriptors, bAddCccd) ==
  [descs |-> nbOfDescriptors, cccd |-> bAddCccd, value |-> "value"]

GattService == <<Characteristic(0, TRUE)>>
GapService == [i \in 1 .. 3 |-> Characteristic(0, FALSE)]
IpssService == <<>>
HeartRateService ==
  <<Characteristic(0, TRUE), Characteristic(0, FALSE), Characteristic(0, FALSE)>>
BatteryService == <<Characteristic(1, TRUE)>>
DeviceInformationService == [i \in 1 .. 8 |-> Characteristic(0, FALSE)]
\* A service of the application's own, with the Database Hash characteristic.
HashService == <<[Characteristic(0, FALSE) EXCEPT !.value = "hash"]>>

ServiceInfo(s) ==
  CASE s = "gatt" -> GattService
    [] s = "gap" -> GapService
    [] s = "ipss" -> IpssService
    [] s = "heartRate" -> HeartRateService
    [] s = "battery" -> BatteryService
    [] s = "deviceInformation" -> DeviceInformationService
    [] s = "hash" -> HashService

-----------------------------------------------------------------------------
gGattDbAttributeCount_c == Len(gattDatabase)
Indices == 0 .. gGattDbAttributeCount_c - 1
At(j) == gattDatabase[j + 1]
IsServiceDeclaration(j) == At(j).kind = "service"

\* Variant: a table without gaps, where a handle is its index and one.
GetIndexWithoutGaps(handle) ==
  IF handle <= gGattDbAttributeCount_c /\ At(handle - 1).handle = handle
  THEN handle - 1 ELSE gGattDbInvalidHandleIndex_d

\* Down from the index of the handle's own number, or from the last one.
GattDb_GetIndexOfHandle(handle) ==
  LET init  == IF handle >= gGattDbAttributeCount_c
               THEN gGattDbAttributeCount_c - 1 ELSE handle
      found == {j \in 0 .. init : /\ At(j).handle = handle
                                  /\ \A k \in j .. init : At(k).handle >= handle}
  IN IF found = {} THEN gGattDbInvalidHandleIndex_d ELSE Max(found)

NoRange == [start |-> 0, count |-> 0]

\* Variant: the last attribute of the table belongs to no service.
FindServiceRangeShort(serviceHandle) ==
  LET found == {j \in Indices : At(j).handle = serviceHandle /\ IsServiceDeclaration(j)}
      next(j) == {k \in j + 1 .. gGattDbAttributeCount_c - 1 : IsServiceDeclaration(k)}
  IN IF found = {} THEN NoRange
     ELSE LET j == Min(found)
              k == IF next(j) = {} THEN gGattDbAttributeCount_c - 1 ELSE Min(next(j))
          IN [start |-> j, count |-> k - j]

\* From the declaration to the next one, or to the end of the table.
GattDb_FindServiceRange(serviceHandle) ==
  LET found == {j \in Indices : At(j).handle = serviceHandle /\ IsServiceDeclaration(j)}
      next(j) == {k \in j + 1 .. gGattDbAttributeCount_c - 1 : IsServiceDeclaration(k)}
  IN IF found = {} THEN NoRange
     ELSE LET j == Min(found)
              k == IF next(j) = {} THEN gGattDbAttributeCount_c ELSE Min(next(j))
          IN [start |-> j, count |-> k - j]

GattDb_ServiceStartHandle(handle) ==
  LET index == GattDb_GetIndexOfHandle(handle)
      found == {j \in 0 .. index : IsServiceDeclaration(j)}
  IN IF index = gGattDbInvalidHandleIndex_d \/ found = {}
     THEN gGattDbInvalidHandleIndex_d ELSE At(Max(found)).handle

-----------------------------------------------------------------------------
NotReported == [handle |-> gGattDbInvalidHandle_d, chars |-> <<>>]
NoService == [service |-> "none", info |-> NotReported]
Idle == add = NoService

Init ==
  /\ gattDatabase = <<>>
  /\ add = NoService
  /\ reported = [s \in Services |-> NotReported]
  /\ mServerDatabaseHashIndex = gGattDbInvalidHandleIndex_d
  /\ hashed = FALSE

\* The library appends attributes of these kinds, with the handles that follow.
LastHandle == IF gattDatabase = <<>> THEN 0 ELSE gattDatabase[Len(gattDatabase)].handle
Attribute(handle, kind) == [handle |-> handle, kind |-> kind]
Append1(handle, kind) ==
  /\ handle <= MaxHandle
  /\ gattDatabase' = Append(gattDatabase, Attribute(handle, kind))

\* What becomes of the hash when the table changes.
HashOutdated == hashed' = FALSE /\ UNCHANGED mServerDatabaseHashIndex

\* GattDbDynamic_AddServiceInDatabase, one call of the library at a time.
Chars == add.info.chars
LastChar == Chars[Len(Chars)]
LastInfo == ServiceInfo(add.service)[Len(Chars)]
DescriptorsDone == Chars # <<>> => LastChar.descs = LastInfo.descs
CharacteristicDone ==
  Chars # <<>> => /\ LastChar.descs = LastInfo.descs
                  /\ LastInfo.cccd => LastChar.cccd # gGattDbInvalidHandle_d
ServiceDone ==
  CharacteristicDone /\ Len(Chars) = Len(ServiceInfo(add.service))

AddPrimaryServiceDeclaration(s) ==
  /\ Idle
  /\ Append1(LastHandle + 1, "service")
  /\ add' = [service |-> s, info |-> [handle |-> LastHandle + 1, chars |-> <<>>]]
  /\ HashOutdated
  /\ UNCHANGED reported

AddCharacteristicDeclarationAndValue ==
  /\ ~Idle /\ CharacteristicDone /\ ~ServiceDone
  /\ LastHandle + 2 <= MaxHandle
  /\ gattDatabase' = gattDatabase \o
       <<Attribute(LastHandle + 1, "characteristic"),
         Attribute(LastHandle + 2, ServiceInfo(add.service)[Len(Chars) + 1].value)>>
  /\ add' = [add EXCEPT !.info.chars = Append(@,
       [handle |-> LastHandle + 1, descs |-> 0, cccd |-> gGattDbInvalidHandle_d])]
  /\ HashOutdated
  /\ UNCHANGED reported

AddCharDescriptor ==
  /\ ~Idle /\ ~DescriptorsDone
  /\ Append1(LastHandle + 1, "descriptor")
  /\ add' = [add EXCEPT !.info.chars[Len(Chars)].descs = @ + 1]
  /\ HashOutdated
  /\ UNCHANGED reported

AddCccd ==
  /\ ~Idle /\ DescriptorsDone /\ ~CharacteristicDone
  /\ Append1(LastHandle + 1, "cccd")
  /\ add' = [add EXCEPT !.info.chars[Len(Chars)].cccd = LastHandle + 1]
  /\ HashOutdated
  /\ UNCHANGED reported

\* Variant: the handles are filled in whatever the result.
AddFailsReported ==
  /\ ~Idle /\ ~ServiceDone
  /\ add' = NoService
  /\ reported' = [reported EXCEPT ![add.service] = add.info]
  /\ UNCHANGED <<gattDatabase, mServerDatabaseHashIndex, hashed>>

\* A call finds no memory: what was added so far stays, and nothing is reported.
AddFails ==
  /\ ~Idle /\ ~ServiceDone
  /\ add' = NoService
  /\ UNCHANGED <<gattDatabase, reported, mServerDatabaseHashIndex, hashed>>

\* The functions that add a service fill in its handles.
ReportHandles ==
  /\ ~Idle /\ ServiceDone
  /\ add' = NoService
  /\ reported' = [reported EXCEPT ![add.service] = add.info]
  /\ UNCHANGED <<gattDatabase, mServerDatabaseHashIndex, hashed>>

-----------------------------------------------------------------------------
\* The application declares a service at a handle of its choice.
DeclareServiceAt(handle) ==
  /\ Idle
  /\ handle > LastHandle + 1
  /\ Append1(handle, "service")
  /\ HashOutdated
  /\ UNCHANGED <<add, reported>>

\* The application removes a service whose handles it was told.
RemoveService(s) ==
  LET range == GattDb_FindServiceRange(reported[s].handle)
  IN /\ Idle
     /\ reported[s] # NotReported
     /\ gattDatabase' = SubSeq(gattDatabase, 1, range.start)
          \o SubSeq(gattDatabase, range.start + range.count + 1, Len(gattDatabase))
     /\ reported' = [reported EXCEPT ![s] = NotReported]
     /\ HashOutdated
     /\ UNCHANGED add

\* GattDb_Deinit.
ReleaseDatabase ==
  /\ Idle
  /\ gattDatabase' = <<>>
  /\ reported' = [s \in Services |-> NotReported]
  /\ HashOutdated
  /\ UNCHANGED add

Places == {j \in Indices : At(j).kind = "hash"}

\* Variant: the place is looked for once.
HashIndexKept ==
  IF mServerDatabaseHashIndex # gGattDbInvalidHandleIndex_d \/ Places = {}
  THEN mServerDatabaseHashIndex ELSE Max(Places)

\* The last place found on the way, or else where the last hash went.
HashIndex == IF Places = {} THEN mServerDatabaseHashIndex ELSE Max(Places)

\* The hash is written to that index, be it in the table or not.
GattDb_ComputeDatabaseHash ==
  /\ Idle
  /\ gattDatabase # <<>>
  /\ mServerDatabaseHashIndex' = HashIndex
  /\ hashed' = TRUE
  /\ UNCHANGED <<gattDatabase, add, reported>>

Next ==
  \/ \E s \in Services : AddPrimaryServiceDeclaration(s) \/ RemoveService(s)
  \/ AddCharacteristicDeclarationAndValue \/ AddCharDescriptor \/ AddCccd
  \/ AddFails \/ ReportHandles
  \/ \E h \in 1 .. MaxHandle : DeclareServiceAt(h)
  \/ ReleaseDatabase \/ GattDb_ComputeDatabaseHash

Spec == Init /\ [][Next]_vars

-----------------------------------------------------------------------------
\* GattDb_GetIndexOfHandle finds every handle of the table and no other, although it
\* looks only below the handle's own number and stops at the first smaller handle.
IndexFound ==
  \A h \in 1 .. MaxHandle :
    LET at == {j \in Indices : At(j).handle = h}
    IN IF at = {} THEN GattDb_GetIndexOfHandle(h) = gGattDbInvalidHandleIndex_d
       ELSE at = {GattDb_GetIndexOfHandle(h)}

\* GattDb_ServiceStartHandle and GattDb_FindServiceRange agree: an attribute lies in the
\* range of the service it is said to belong to and in no other, whatever additions that
\* failed and services that were removed have left of the table.
RangesAgree ==
  \A j \in Indices :
    LET own == GattDb_ServiceStartHandle(At(j).handle)
        In(h) == LET r == GattDb_FindServiceRange(h)
                 IN j \in r.start .. r.start + r.count - 1
    IN \A k \in Indices : In(At(k).handle) <=> At(k).handle = own

\* A service the application was told of is whole: at the handles it was told lie the
\* declaration, characteristics, values and CCCDs of the service info, one behind the other,
\* and its range ends behind the last of them, before what another addition has left.
Whole(s) ==
  LET told == reported[s]
      range == GattDb_FindServiceRange(told.handle)
      KindAt(h) == LET j == GattDb_GetIndexOfHandle(h)
                   IN IF j \in Indices THEN At(j).kind ELSE "none"
      size(c) == 2 + ServiceInfo(s)[c].descs + (IF ServiceInfo(s)[c].cccd THEN 1 ELSE 0)
      behind(c) == IF c = 0 THEN told.handle + 1 ELSE told.chars[c].handle + size(c)
  IN /\ Len(told.chars) = Len(ServiceInfo(s))
     /\ KindAt(told.handle) = "service"
     /\ told.handle + range.count = behind(Len(told.chars))
     /\ \A c \in DOMAIN told.chars :
          /\ told.chars[c].handle = behind(c - 1)
          /\ KindAt(told.chars[c].handle) = "characteristic"
          /\ KindAt(told.chars[c].handle + 1) = ServiceInfo(s)[c].value
          /\ GattDb_ServiceStartHandle(told.chars[c].handle) = told.handle
          /\ ServiceInfo(s)[c].cccd =>
               /\ told.chars[c].cccd = behind(c) - 1
               /\ KindAt(told.chars[c].cccd) = "cccd"

ReportedWhole ==
  \A s \in Services : reported[s] # NotReported => Whole(s)

\* A database with a service the application was told of for the hash has its hash in
\* that service's value, at the handle the application was told, wherever additions and
\* removals have moved it since and whatever older hash service is left in the table.
HashWhereTold ==
  hashed /\ "hash" \in Services =>
    (reported["hash"] # NotReported =>
       mServerDatabaseHashIndex =
         GattDb_GetIndexOfHandle(reported["hash"].chars[1].handle + 1))

-----------------------------------------------------------------------------
(* What the code does not give.                                            *)

\* A hash goes to no other attribute than a Database Hash value.  It does not hold when
\* the last such value has been removed: the index is that of the last hash.
HashInItsPlace ==
  hashed /\ mServerDatabaseHashIndex # gGattDbInvalidHandleIndex_d =>
    mServerDatabaseHashIndex \in Places
=============================================================================
