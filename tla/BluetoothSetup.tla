--------------------------- MODULE BluetoothSetup ---------------------------
(***************************************************************************)
(* bluetooth::initialize of src/nodes/common/bluetooth.cpp: the stack, the *)
(* GAP parameters, the SDK's modules, the services of the application and  *)
(* their characteristics, and advertising.                                 *)
(*                                                                         *)
(* Every call may fail.  A failure is logged, nothing is returned, and the *)
(* next call is made all the same, with what the failed one has left: a    *)
(* UUID type or a service handle of 0, parameters that are not set, an     *)
(* advertising module that is not initialized.                             *)
(*                                                                         *)
(* The SoftDevice and the SDK are external: which calls they refuse, and   *)
(* that a characteristic added to the handle 0 becomes one of the service  *)
(* that was added last.  The initializer of a service is the application's *)
(* and is assumed to register the service, to hand out its UUID and to     *)
(* register one characteristic.                                            *)
(***************************************************************************)
EXTENDS Naturals, Sequences, FiniteSets

CONSTANTS
  MaxServices,    \* bound on the services of an application
  MaxVendorUuids, \* NRF_SDH_BLE_VS_UUID_COUNT
  MaxAdvertised   \* UUIDs of 16 bytes that fit beside flags and appearance

ASSUME ServiceAssumption ==
  MaxServices \in Nat /\ MaxVendorUuids \in Nat /\ MaxAdvertised \in Nat

VARIABLES
  stage,        \* the part of initialize to be executed next
  services,     \* the application's, numbered in the order of their initializers
  next,         \* the service whose initializer is called next
  enabled,      \* the stack is
  uuid_type,    \* of each service; 0 is BLE_UUID_TYPE_UNKNOWN
  handle,       \* of each service; 0 is BLE_GATT_HANDLE_INVALID
  table,        \* the services in the attribute table, in their order
  placed,       \* the service each service's characteristic is in, or 0
  announced,    \* the services in the advertising data
  prepared,     \* the advertising module is initialized
  advertising

attributes == <<uuid_type, handle, table, placed>>
adverts    == <<announced, prepared, advertising>>
setupVars == <<stage, services, next, enabled, uuid_type, handle, table, placed,
          announced, prepared, advertising>>

-----------------------------------------------------------------------------
SetupInit ==
  /\ stage       = "stack"
  /\ \E n \in 0 .. MaxServices : services = 1 .. n
  /\ next        = 1
  /\ enabled     = FALSE
  /\ uuid_type   = [s \in services |-> 0]
  /\ handle      = [s \in services |-> 0]
  /\ table       = <<>>
  /\ placed      = [s \in services |-> 0]
  /\ announced   = {}
  /\ prepared    = FALSE
  /\ advertising = FALSE

\* The request, the configuration and the enabling: the stack is enabled only if
\* the handler is and the configuration fits the memory.
InitializeStack ==
  /\ stage = "stack"
  /\ stage'   = "gap"
  /\ enabled' \in BOOLEAN
  /\ UNCHANGED <<services, next, attributes, adverts>>

\* The name, the preferred connection parameters and the state of the queued write
\* module: nothing later depends on them.
InitializeGap ==
  /\ stage = "gap"
  /\ stage' = "connection_parameters"
  /\ UNCHANGED <<services, next, enabled, attributes, adverts>>

\* p_conn_params is nullptr: the module takes the preferred parameters, and without
\* it nobody negotiates any.
InitializeConnectionParameters ==
  /\ stage = "connection_parameters"
  /\ stage' = "services"
  /\ UNCHANGED <<services, next, enabled, attributes, adverts>>

-----------------------------------------------------------------------------
VendorUuids == {uuid_type[s] : s \in services} \ {0}

\* register_service: sd_ble_uuid_vs_add, whose type stays 0 if it fails, and
\* sd_ble_gatts_service_add, which needs a type.
RegisterService(s) ==
  /\ \/ UNCHANGED uuid_type
     \/ /\ enabled
        /\ Cardinality(VendorUuids) < MaxVendorUuids
        /\ uuid_type' = [uuid_type EXCEPT ![s] = s]
  /\ \/ UNCHANGED <<handle, table>>
     \/ /\ uuid_type'[s] # 0
        /\ handle' = [handle EXCEPT ![s] = s]
        /\ table'  = Append(table, s)

\* Where sd_ble_gatts_characteristic_add puts a characteristic.
Place(service_handle, registered) ==
  IF service_handle # 0 THEN service_handle
  ELSE IF registered = <<>> THEN 0 ELSE registered[Len(registered)]

\* Mutant: the handle of the service that was registered before.
RegisterCharacteristicBefore(s) ==
  \/ UNCHANGED placed
  \/ uuid_type'[s] # 0 /\ placed' = [placed EXCEPT ![s] = Place(0, table)]

\* It needs a UUID type as well.
RegisterCharacteristic(s) ==
  \/ UNCHANGED placed
  \/ uuid_type'[s] # 0 /\ placed' = [placed EXCEPT ![s] = Place(handle'[s], table')]

InitializeService ==
  /\ stage = "services"
  /\ IF next \in services
     THEN /\ RegisterService(next)
          /\ RegisterCharacteristic(next)
          /\ next' = next + 1
          /\ UNCHANGED stage
     ELSE /\ stage' = "advertising"
          /\ UNCHANGED <<next, attributes>>
  /\ UNCHANGED <<services, enabled, adverts>>

-----------------------------------------------------------------------------
\* A UUID without a type cannot be encoded, and all of them must fit.
Encodable == /\ \A s \in services : uuid_type[s] # 0
             /\ Cardinality(services) <= MaxAdvertised

InitializeAdvertising ==
  /\ stage = "advertising"
  /\ stage' = "start"
  /\ \/ UNCHANGED <<announced, prepared>>
     \/ enabled /\ Encodable /\ announced' = services /\ prepared' = TRUE
  /\ UNCHANGED <<services, next, enabled, attributes, advertising>>

\* ble_advertising_start is called in any case; the SDK refuses an advertising module
\* that is not initialized.
StartAdvertising ==
  /\ stage = "start"
  /\ stage' = "address"
  /\ advertising' \in {FALSE, prepared}
  /\ UNCHANGED <<services, next, enabled, attributes, announced, prepared>>

\* get_address, whose failure is only logged: the address is read in spite of it
\* and what is written is then arbitrary.
LogAddress ==
  /\ stage = "address"
  /\ stage' = "done"
  /\ UNCHANGED <<services, next, enabled, attributes, adverts>>

SetupNext ==
  \/ InitializeStack
  \/ InitializeGap
  \/ InitializeConnectionParameters
  \/ InitializeService
  \/ InitializeAdvertising
  \/ StartAdvertising
  \/ LogAddress

SetupSpec == SetupInit /\ [][SetupNext]_setupVars

-----------------------------------------------------------------------------
\* A characteristic is in its own service.  Only where the service got a UUID and
\* no handle does it end up in another, the one that was registered before it.
CharacteristicsStayHome ==
  \A s \in services :
    placed[s] \notin {0, s} =>
      /\ handle[s] = 0 /\ uuid_type[s] # 0
      /\ placed[s] < s /\ handle[placed[s]] # 0
      /\ \A t \in placed[s] + 1 .. s : handle[t] = 0
=============================================================================
