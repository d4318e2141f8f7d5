--------------------------- MODULE SensorCatalogue ---------------------------
(***************************************************************************)
(* The tables telemetry is judged by: Devices, one Sensor Type with its    *)
(* Measurement Definitions, Sensors, and the Channel each Sensor has for   *)
(* each Measurement Definition that existed when it was registered.        *)
(*                                                                         *)
(* Code: services/device_service.py (set_active),                          *)
(* services/sensor_type_service.py, services/sensor_service.py (create,    *)
(* update, set_enabled, update_channel), scripts/seed_sensor_types.py.     *)
(*                                                                         *)
(* Registering a Sensor reads the tables, plans its Channels from what it  *)
(* read and inserts them later.  Every other operation is one action: it   *)
(* writes values of its payload, never values it computed from what it     *)
(* read, and the payload is arbitrary, so two requests that overlap leave  *)
(* the tables as two requests in a row may (with the payloads mixed, if    *)
(* they write different columns), or one is refused by a unique            *)
(* constraint.  Names, descriptions, uids and codes are left out;          *)
(* configurations are the subject of ConfigurationSync.                    *)
(***************************************************************************)
EXTENDS Naturals

CONSTANTS
    Devices, Sensors, Definitions, Keys, Units,
    DeviceOf,       \* the Device each Sensor belongs to
    Seeded,         \* the Measurement Definitions of the seed
    Payloads,       \* what an administrator may write into one
    MaxEdits        \* bound on the changes to what is registered

Types == {"NUMERIC", "BOOLEAN", "TEXT"}
Definition == [exists : BOOLEAN, key : Keys, type : Types, unit : Units]
MeasurementPayload == [key : Keys, type : Types, unit : Units]
SensorStatus == {"ABSENT", "REGISTERED", "DISABLED", "ERROR"}
Sensor == [status : SensorStatus, enabled : BOOLEAN]
Channel == [exists : BOOLEAN, enabled : BOOLEAN, unit : Units]
\* How far a registration is, and the Channels it is going to insert.
Registration == [pc : {"none", "device", "type"}, channels : [Definitions -> Channel]]

ASSUME CatalogueAssumption ==
    /\ DeviceOf \in [Sensors -> Devices]
    /\ Seeded \in [Definitions -> Definition]
    /\ \A m, n \in Definitions :
        Seeded[m].exists /\ Seeded[n].exists /\ Seeded[m].key = Seeded[n].key => m = n
    /\ Payloads \subseteq MeasurementPayload
    /\ MaxEdits \in Nat

VARIABLES
    active, typeActive, definitions, sensors, channels,  \* the tables
    registering,    \* locals of the request that registers each Sensor
    edits

catalogue == <<active, typeActive, definitions, sensors, channels, registering, edits>>

CatalogueTypeOK ==
    /\ active \in [Devices -> BOOLEAN]
    /\ typeActive \in BOOLEAN
    /\ definitions \in [Definitions -> Definition]
    /\ sensors \in [Sensors -> Sensor]
    /\ channels \in [Sensors -> [Definitions -> Channel]]
    /\ registering \in [Sensors -> Registration]
    /\ edits \in 0..MaxEdits

NoChannel == [m \in Definitions |->
    [exists |-> FALSE, enabled |-> FALSE, unit |-> Seeded[m].unit]]
NoRegistration == [pc |-> "none", channels |-> NoChannel]
NoSensor == [status |-> "ABSENT", enabled |-> FALSE]
Registered(s) == sensors[s].status # "ABSENT"

CatalogueInit ==
    /\ active = [d \in Devices |-> TRUE]
    /\ typeActive = TRUE
    /\ definitions = Seeded
    /\ sensors = [s \in Sensors |-> NoSensor]
    /\ channels = [s \in Sensors |-> NoChannel]
    /\ registering = [s \in Sensors |-> NoRegistration]
    /\ edits = 0

\* The duplicate check, and the unique constraint behind it.
KeyFree(m, key) ==
    \A n \in Definitions \ {m} : definitions[n].exists => definitions[n].key # key

SetDeviceActive(d) ==
    /\ active' = [active EXCEPT ![d] = ~@]
    /\ UNCHANGED <<typeActive, definitions, sensors, channels>>

SetTypeActive ==
    /\ typeActive' = ~typeActive
    /\ UNCHANGED <<active, definitions, sensors, channels>>

\* create_measurement when m does not exist, update_measurement when it does:
\* neither touches the Channels that Sensors already have.
WriteMeasurement(m, p) ==
    /\ KeyFree(m, p.key)
    /\ definitions' = [definitions EXCEPT ![m] =
            [exists |-> TRUE, key |-> p.key, type |-> p.type, unit |-> p.unit]]
    /\ UNCHANGED <<active, typeActive, sensors, channels>>

\* update and set_enabled: the two columns always change together.
SetEnabled(s, enabled) ==
    /\ Registered(s)
    /\ sensors' = [sensors EXCEPT ![s] =
            [status |-> IF enabled THEN "REGISTERED" ELSE "DISABLED",
             enabled |-> enabled]]
    /\ UNCHANGED <<active, typeActive, definitions, channels>>

UpdateChannel(s, m, unit, enabled) ==
    /\ channels[s][m].exists
    /\ channels' = [channels EXCEPT ![s][m] =
            [exists |-> TRUE, enabled |-> enabled, unit |-> unit]]
    /\ UNCHANGED <<active, typeActive, definitions, sensors>>

\* create reads the Device, ...
RegisterDevice(s) ==
    /\ registering[s].pc = "none"
    /\ active[DeviceOf[s]]
    /\ registering' = [registering EXCEPT ![s].pc = "device"]
    /\ UNCHANGED <<active, typeActive, definitions, sensors, channels>>

\* ... then the Sensor Type with its Measurement Definitions, and whether the
\* uid is free, ...
RegisterType(s) ==
    /\ registering[s].pc = "device"
    /\ typeActive
    /\ \E m \in Definitions : definitions[m].exists
    /\ ~Registered(s)
    /\ registering' = [registering EXCEPT ![s] = [pc |-> "type",
            channels |-> [m \in Definitions |->
                [exists |-> definitions[m].exists, enabled |-> definitions[m].exists,
                 unit |-> definitions[m].unit]]]]
    /\ UNCHANGED <<active, typeActive, definitions, sensors, channels>>

\* ... and inserts the Sensor with a Channel for each it has read.
RegisterCommit(s) ==
    /\ registering[s].pc = "type"
    /\ sensors' = [sensors EXCEPT ![s] = [status |-> "REGISTERED", enabled |-> TRUE]]
    /\ channels' = [channels EXCEPT ![s] = registering[s].channels]
    /\ registering' = [registering EXCEPT ![s] = NoRegistration]
    /\ UNCHANGED <<active, typeActive, definitions>>

\* Refused, or rolled back: of two requests that register the same uid the
\* unique constraint lets one commit, which is the one followed here.
RegisterFail(s) ==
    /\ registering[s].pc # "none"
    /\ registering' = [registering EXCEPT ![s] = NoRegistration]
    /\ UNCHANGED <<active, typeActive, definitions, sensors, channels>>

Edit ==
    /\ edits < MaxEdits
    /\ edits' = edits + 1
    /\ UNCHANGED registering
    /\ \/ \E d \in Devices : SetDeviceActive(d)
       \/ SetTypeActive
       \/ \E m \in Definitions, p \in Payloads : WriteMeasurement(m, p)
       \/ \E s \in Sensors, enabled \in BOOLEAN : SetEnabled(s, enabled)
       \/ \E s \in Sensors, m \in Definitions, unit \in Units, enabled \in BOOLEAN :
            UpdateChannel(s, m, unit, enabled)

Register(s) ==
    /\ \/ RegisterDevice(s) \/ RegisterType(s)
       \/ RegisterCommit(s) \/ RegisterFail(s)
    /\ UNCHANGED edits

CatalogueNext == Edit \/ \E s \in Sensors : Register(s)

=============================================================================
