----------------------- MODULE TelemetryIngestion_proofs -----------------------
(***************************************************************************)
(* Proofs about TelemetryIngestion, for any Devices, Sensors, envelopes    *)
(* and number of catalogue changes.                                        *)
(*                                                                         *)
(* The argument: a Channel only exists for a Measurement Definition that   *)
(* exists, and existing definitions have different keys, so an item names  *)
(* at most one Channel and a message yields at most one row per index; the *)
(* insert skips the rows that are stored.  What was loaded for a message   *)
(* was true when it was loaded, hence is remembered in `opened' until the  *)
(* worker is idle again.                                                   *)
(***************************************************************************)
EXTENDS TelemetryIngestion, TLAPS

KeysDiffer ==
    \A m, n \in Definitions :
        definitions[m].exists /\ definitions[n].exists /\ definitions[m].key = definitions[n].key
            => m = n
ChannelsDefined ==
    \A s \in Sensors, m \in Definitions :
        channels[s][m].exists \/ registering[s].channels[m].exists => definitions[m].exists
LoadedDefined ==
    \A s \in Sensors, m \in Definitions : worker.channels[s][m].exists => definitions[m].exists

SameKey(q, r) == q.device = r.device /\ q.message = r.message /\ q.index = r.index
RowsOfMessage ==
    \A q, r \in worker.rows :
        q.device = r.device /\ q.message = r.message /\ (q.index = r.index => q = r)
OneRowPerKey == \A q, r \in readings : SameKey(q, r) => q = r

SensorsSeen ==
    \A s \in Sensors : worker.sensors[s].status # "ABSENT" =>
        /\ DeviceOf[s] = worker.envelope.device
        /\ Accepts(worker.sensors[s]) => <<"sensor", s>> \in opened
ChannelsSeen ==
    \A s \in Sensors, m \in Definitions :
        worker.channels[s][m].exists /\ worker.channels[s][m].enabled =>
            <<"channel", s, m, worker.channels[s][m].unit>> \in opened
RowSeen(r) ==
    FactsOf(r) \subseteq opened /\ DeviceOf[r.sensor] = r.device /\ r.at <= now + Skew
Seen ==
    /\ worker.pc # "idle" => <<"device", worker.envelope.device>> \in opened
    /\ SensorsSeen
    /\ ChannelsSeen
    /\ \A r \in worker.rows : RowSeen(r)

IngestionInv ==
    /\ IngestionTypeOK
    /\ worker.pc = "idle" => worker = Idle
    /\ worker.pc # "idle" => EnvelopeValid(worker.envelope)
    /\ KeysDiffer /\ ChannelsDefined /\ LoadedDefined
    /\ RowsOfMessage /\ OneRowPerKey
    /\ Seen

-----------------------------------------------------------------------------
(* The catalogue.                                                          *)

LEMMA NoChannelTyped == NoChannel \in [Definitions -> Channel]
BY CatalogueAssumption DEF NoChannel, Channel, Definition

\* Whatever an administrator does, the tables keep their types, existing
\* definitions keep different keys and stay, and Channels have a definition.
LEMMA CatalogueStep ==
    ASSUME CatalogueTypeOK, KeysDiffer, ChannelsDefined, CatalogueNext
    PROVE  /\ CatalogueTypeOK' /\ KeysDiffer' /\ ChannelsDefined'
           /\ \A m \in Definitions : definitions[m].exists => definitions'[m].exists
<1> USE CatalogueAssumption DEF CatalogueTypeOK, KeysDiffer, ChannelsDefined
<1>1. CASE Edit
  <2>0. edits' \in 0..MaxEdits /\ registering' = registering
    BY <1>1 DEF Edit
  <2>1. CASE \E d \in Devices : SetDeviceActive(d)
    BY <2>0, <2>1 DEF SetDeviceActive
  <2>2. CASE SetTypeActive
    BY <2>0, <2>2 DEF SetTypeActive
  <2>3. CASE \E m \in Definitions, p \in Payloads : WriteMeasurement(m, p)
    <3>1. PICK m \in Definitions, p \in Payloads : WriteMeasurement(m, p)
      BY <2>3
    <3>2. p \in MeasurementPayload
      BY <3>1
    <3>3. definitions' \in [Definitions -> Definition]
      BY <3>1, <3>2 DEF WriteMeasurement, Definition, MeasurementPayload
    <3>4. /\ definitions'[m].exists /\ definitions'[m].key = p.key
          /\ \A n \in Definitions \ {m} : definitions'[n] = definitions[n]
      BY <3>1 DEF WriteMeasurement
    <3>5. KeysDiffer'
      BY <3>1, <3>4 DEF WriteMeasurement, KeyFree
    <3> QED
      BY <2>0, <3>1, <3>3, <3>4, <3>5 DEF WriteMeasurement
  <2>4. CASE \E s \in Sensors, enabled \in BOOLEAN : SetEnabled(s, enabled)
    <3>1. PICK s \in Sensors, enabled \in BOOLEAN : SetEnabled(s, enabled)
      BY <2>4
    <3>2. [status |-> IF enabled THEN "REGISTERED" ELSE "DISABLED", enabled |-> enabled] \in Sensor
      BY DEF Sensor, SensorStatus
    <3>3. sensors' \in [Sensors -> Sensor]
      BY <3>1, <3>2 DEF SetEnabled
    <3> QED
      BY <2>0, <3>1, <3>3 DEF SetEnabled
  <2>5. CASE \E s \in Sensors, m \in Definitions, unit \in Units, enabled \in BOOLEAN :
                UpdateChannel(s, m, unit, enabled)
    <3>1. PICK s \in Sensors, m \in Definitions, unit \in Units, enabled \in BOOLEAN :
                UpdateChannel(s, m, unit, enabled)
      BY <2>5
    <3>2. [exists |-> TRUE, enabled |-> enabled, unit |-> unit] \in Channel
      BY <3>1 DEF Channel
    <3>3. channels' \in [Sensors -> [Definitions -> Channel]]
      BY <3>1, <3>2 DEF UpdateChannel
    <3>4. \A t \in Sensors, n \in Definitions :
            channels'[t][n].exists => channels[t][n].exists
      BY <3>1 DEF UpdateChannel
    <3> QED
      BY <2>0, <3>1, <3>3, <3>4 DEF UpdateChannel
  <2> QED
    BY <1>1, <2>1, <2>2, <2>3, <2>4, <2>5 DEF Edit
<1>2. CASE \E s \in Sensors : Register(s)
  <2>1. PICK s \in Sensors : Register(s)
    BY <1>2
  <2>2. NoRegistration \in Registration /\ \A m \in Definitions : ~NoRegistration.channels[m].exists
    BY NoChannelTyped DEF NoRegistration, Registration, NoChannel
  <2>3. CASE RegisterDevice(s)
    <3>1. /\ registering' \in [Sensors -> Registration]
          /\ \A t \in Sensors : registering'[t].channels = registering[t].channels
      BY <2>3 DEF RegisterDevice, Registration
    <3> QED
      BY <2>1, <2>3, <3>1 DEF Register, RegisterDevice
  <2>4. CASE RegisterType(s)
    <3> DEFINE found == [m \in Definitions |-> [exists |-> definitions[m].exists,
                            enabled |-> definitions[m].exists, unit |-> definitions[m].unit]]
    <3>1. [pc |-> "type", channels |-> found] \in Registration
      BY DEF Channel, Definition, Registration
    <3>2. registering' = [registering EXCEPT ![s] = [pc |-> "type", channels |-> found]]
      BY <2>4 DEF RegisterType
    <3>3. registering' \in [Sensors -> Registration]
      BY <3>1, <3>2
    <3>4. \A t \in Sensors, m \in Definitions : registering'[t].channels[m].exists
            => registering[t].channels[m].exists \/ definitions[m].exists
      BY <3>2
    <3> QED
      BY <2>1, <2>4, <3>3, <3>4 DEF Register, RegisterType
  <2>5. CASE RegisterCommit(s)
    <3>1. [status |-> "REGISTERED", enabled |-> TRUE] \in Sensor
      BY DEF Sensor, SensorStatus
    <3>2. sensors' \in [Sensors -> Sensor]
      BY <2>5, <3>1 DEF RegisterCommit
    <3>3. registering[s].channels \in [Definitions -> Channel]
      BY DEF Registration
    <3>4. channels' \in [Sensors -> [Definitions -> Channel]]
      BY <2>5, <3>3 DEF RegisterCommit
    <3>5. registering' \in [Sensors -> Registration]
      BY <2>2, <2>5 DEF RegisterCommit
    <3>6. ChannelsDefined'
      BY <2>2, <2>5 DEF RegisterCommit
    <3> QED
      BY <2>1, <2>5, <3>2, <3>4, <3>5, <3>6 DEF Register, RegisterCommit
  <2>6. CASE RegisterFail(s)
    <3>1. registering' \in [Sensors -> Registration]
      BY <2>2, <2>6 DEF RegisterFail
    <3>2. ChannelsDefined'
      BY <2>2, <2>6 DEF RegisterFail
    <3> QED
      BY <2>1, <2>6, <3>1, <3>2 DEF Register, RegisterFail
  <2> QED
    BY <2>1, <2>3, <2>4, <2>5, <2>6 DEF Register
<1> QED
  BY <1>1, <1>2 DEF CatalogueNext

\* Facts only depend on the catalogue.
LEMMA FactsUnchanged == ASSUME UNCHANGED catalogue PROVE Facts' = Facts
BY DEF Facts, Accepts, catalogue

\* What is remembered is kept while a message is worked on.
LEMMA Remembered ==
    ASSUME Remember, worker'.pc # "idle"
    PROVE  opened \subseteq opened' /\ Facts' \subseteq opened'
BY DEF Remember

\* What a step that changes none of it keeps.
LEMMA CatalogueKept ==
    ASSUME IngestionInv, UNCHANGED catalogue
    PROVE  CatalogueTypeOK' /\ KeysDiffer' /\ ChannelsDefined'
BY DEF IngestionInv, IngestionTypeOK, CatalogueTypeOK, KeysDiffer, ChannelsDefined, catalogue

LEMMA IdleKept ==
    ASSUME worker' = Idle, now' \in Nat
    PROVE  LoadedDefined' /\ RowsOfMessage' /\ Seen'
<1>1. worker'.pc = "idle" /\ worker'.rows = {}
  BY DEF Idle
<1>2. \A s \in Sensors : worker'.sensors[s].status = "ABSENT"
  BY DEF Idle, NoSensors, NoSensor
<1>3. \A s \in Sensors, m \in Definitions : ~worker'.channels[s][m].exists
  BY DEF Idle, NoChannels, NoChannel
<1> QED
  BY <1>1, <1>2, <1>3 DEF LoadedDefined, RowsOfMessage, Seen, SensorsSeen, ChannelsSeen

LEMMA IdleTyped ==
    /\ Idle \in [pc : Stages, envelope : Envelopes \cup {NoEnvelope},
                sensors : [Sensors -> Sensor],
                channels : [Sensors -> [Definitions -> Channel]], rows : SUBSET Row]
    /\ Idle.pc = "idle" /\ Idle.rows = {}
<1>1. NoSensors \in [Sensors -> Sensor]
  BY DEF NoSensors, NoSensor, Sensor, SensorStatus
<1>2. NoChannels \in [Sensors -> [Definitions -> Channel]]
  BY NoChannelTyped DEF NoChannels
<1> QED
  BY <1>1, <1>2 DEF Idle, Stages

-----------------------------------------------------------------------------
(* The worker.                                                             *)

LEMMA InitInv == IngestionInit => IngestionInv
<1> SUFFICES ASSUME IngestionInit PROVE IngestionInv
  OBVIOUS
<1> USE CatalogueAssumption, IngestionAssumption DEF IngestionInit, CatalogueInit
<1>1. CatalogueTypeOK
  <2>1. sensors \in [Sensors -> Sensor]
    BY DEF NoSensor, Sensor, SensorStatus
  <2>2. channels \in [Sensors -> [Definitions -> Channel]]
    BY NoChannelTyped
  <2>3. registering \in [Sensors -> Registration]
    BY NoChannelTyped DEF NoRegistration, Registration
  <2> QED
    BY <2>1, <2>2, <2>3 DEF CatalogueTypeOK
<1>2. IngestionTypeOK
  BY <1>1, IdleTyped DEF IngestionTypeOK
<1>3. KeysDiffer
  BY DEF KeysDiffer
<1>4. ChannelsDefined
  BY DEF ChannelsDefined, NoRegistration, NoChannel
<1>5. LoadedDefined /\ RowsOfMessage /\ Seen
  <2>1. \A s \in Sensors : worker.sensors[s].status = "ABSENT"
    BY DEF Idle, NoSensors, NoSensor
  <2>2. \A s \in Sensors, m \in Definitions : ~worker.channels[s][m].exists
    BY DEF Idle, NoChannels, NoChannel
  <2> QED
    BY <2>1, <2>2, IdleTyped
    DEF LoadedDefined, RowsOfMessage, Seen, SensorsSeen, ChannelsSeen
<1> QED
  BY <1>2, <1>3, <1>4, <1>5, IdleTyped DEF IngestionInv, OneRowPerKey

\* The worker takes a message of an active Device.
LEMMA TakeStep ==
    ASSUME IngestionInv, NEW e \in Envelopes, Take(e), UNCHANGED catalogue, Remember
    PROVE  IngestionInv'
<1> USE DEF IngestionInv, IngestionTypeOK
<1>1. CatalogueTypeOK' /\ KeysDiffer' /\ ChannelsDefined'
  BY CatalogueKept
<1>2. /\ worker'.pc = "sensors" /\ worker'.envelope = e /\ worker'.rows = {}
      /\ worker'.sensors = NoSensors /\ worker'.channels = NoChannels
      /\ now' = now /\ readings' = readings
  BY DEF Take, Idle
<1>3. IngestionTypeOK'
  BY <1>1, <1>2, IdleTyped DEF Take, Stages
<1>4. Facts' \subseteq opened'
  BY <1>2, Remembered
<1>5. <<"device", worker'.envelope.device>> \in opened'
  <2>1. e.device \in Devices /\ active'[e.device]
    BY IngestionAssumption DEF Take, Envelope, catalogue
  <2> QED
    BY <1>2, <1>4, <2>1 DEF Facts
<1>6. LoadedDefined' /\ SensorsSeen' /\ ChannelsSeen'
  BY <1>2 DEF LoadedDefined, SensorsSeen, ChannelsSeen, NoSensors, NoSensor, NoChannels,
               NoChannel
<1>7. RowsOfMessage' /\ OneRowPerKey'
  BY <1>2 DEF RowsOfMessage, OneRowPerKey
<1> QED
  BY <1>1, <1>2, <1>3, <1>5, <1>6, <1>7 DEF Seen, Take, EnvelopeValid

\* It loads the Device's Sensors.
LEMMA ReadSensorsStep ==
    ASSUME IngestionInv, ReadSensors, UNCHANGED catalogue, Remember
    PROVE  IngestionInv'
<1> USE DEF IngestionInv, IngestionTypeOK
<1>1. CatalogueTypeOK' /\ KeysDiffer' /\ ChannelsDefined'
  BY CatalogueKept
<1>2. /\ worker'.pc = "channels" /\ worker'.envelope = worker.envelope
      /\ worker'.rows = worker.rows /\ worker'.channels = worker.channels
      /\ worker'.sensors = [s \in Sensors |->
            IF DeviceOf[s] = worker.envelope.device THEN sensors[s] ELSE NoSensor]
      /\ now' = now /\ readings' = readings
  BY DEF ReadSensors
<1>3. worker'.sensors \in [Sensors -> Sensor]
  BY <1>2 DEF CatalogueTypeOK, NoSensor, Sensor, SensorStatus
<1>4. IngestionTypeOK'
  BY <1>1, <1>2, <1>3 DEF ReadSensors, Stages
<1>5. opened \subseteq opened' /\ Facts' \subseteq opened'
  BY <1>2, Remembered
<1>6. SensorsSeen'
  <2> SUFFICES ASSUME NEW s \in Sensors, worker'.sensors[s].status # "ABSENT"
               PROVE  /\ DeviceOf[s] = worker'.envelope.device
                      /\ Accepts(worker'.sensors[s]) => <<"sensor", s>> \in opened'
    BY DEF SensorsSeen, Accepts
  <2>1. DeviceOf[s] = worker.envelope.device /\ worker'.sensors[s] = sensors[s]
    BY <1>2 DEF NoSensor
  <2>2. Accepts(sensors[s]) => <<"sensor", s>> \in Facts'
    BY DEF Facts, catalogue, Accepts
  <2> QED
    BY <1>2, <1>5, <2>1, <2>2 DEF Accepts
<1>7. ChannelsSeen' /\ LoadedDefined' /\ RowsOfMessage' /\ OneRowPerKey'
  BY <1>2, <1>5 DEF ChannelsSeen, LoadedDefined, RowsOfMessage, OneRowPerKey, Seen, catalogue
<1>8. \A r \in worker'.rows : RowSeen(r)'
  BY <1>2, <1>5 DEF Seen, RowSeen, FactsOf
<1> QED
  BY <1>1, <1>2, <1>4, <1>5, <1>6, <1>7, <1>8 DEF Seen, ReadSensors

\* And their Channels.
LEMMA ReadChannelsStep ==
    ASSUME IngestionInv, ReadChannels, UNCHANGED catalogue, Remember
    PROVE  IngestionInv'
<1> USE DEF IngestionInv, IngestionTypeOK
<1>1. CatalogueTypeOK' /\ KeysDiffer' /\ ChannelsDefined'
  BY CatalogueKept
<1>2. /\ worker'.pc = "definitions" /\ worker'.envelope = worker.envelope
      /\ worker'.rows = worker.rows /\ worker'.sensors = worker.sensors
      /\ worker'.channels = [s \in Sensors |->
            IF worker.sensors[s].status # "ABSENT" THEN channels[s] ELSE NoChannels[s]]
      /\ now' = now /\ readings' = readings
  BY DEF ReadChannels
<1>3. worker'.channels \in [Sensors -> [Definitions -> Channel]]
  <2>1. NoChannels \in [Sensors -> [Definitions -> Channel]]
    BY IdleTyped DEF Idle
  <2> QED
    BY <1>2, <2>1 DEF CatalogueTypeOK
<1>4. IngestionTypeOK'
  BY <1>1, <1>2, <1>3 DEF ReadChannels, Stages
<1>5. opened \subseteq opened' /\ Facts' \subseteq opened'
  BY <1>2, Remembered
<1>6. \A s \in Sensors, m \in Definitions : worker'.channels[s][m].exists =>
            worker'.channels[s][m] = channels[s][m]
  BY <1>2 DEF NoChannels, NoChannel
<1>7. ChannelsSeen'
  <2> SUFFICES ASSUME NEW s \in Sensors, NEW m \in Definitions,
                      worker'.channels[s][m].exists, worker'.channels[s][m].enabled
               PROVE  <<"channel", s, m, worker'.channels[s][m].unit>> \in opened'
    BY DEF ChannelsSeen
  <2>1. worker'.channels[s][m] = channels[s][m]
    BY <1>6
  <2>2. channels[s][m].exists /\ channels[s][m].enabled
    BY <2>1
  <2>3. <<s, m>> \in Sensors \X Definitions
    OBVIOUS
  <2>4. <<"channel", s, m, channels[s][m].unit>> \in Facts'
    BY <2>2, <2>3 DEF Facts, catalogue
  <2> QED
    BY <1>5, <2>1, <2>4
<1>8. LoadedDefined'
  BY <1>6 DEF LoadedDefined, ChannelsDefined, catalogue
<1>9. SensorsSeen' /\ RowsOfMessage' /\ OneRowPerKey'
  BY <1>2, <1>5 DEF SensorsSeen, Seen, RowsOfMessage, OneRowPerKey, Accepts
<1>10. \A r \in worker'.rows : RowSeen(r)'
  BY <1>2, <1>5 DEF Seen, RowSeen, FactsOf
<1> QED
  BY <1>1, <1>2, <1>4, <1>5, <1>7, <1>8, <1>9, <1>10 DEF Seen, ReadChannels

\* What is known of an item that names a Channel.
LEMMA ItemNamed ==
    ASSUME IngestionInv, worker.pc = "definitions",
           NEW i \in 1..Len(worker.envelope.items), NEW m \in Definitions, Names(i, m)
    PROVE  /\ worker.envelope \in Envelope
           /\ worker.envelope.items[i] \in Item
           /\ definitions[m].exists
           /\ definitions[m].key = worker.envelope.items[i].key
<1>1. worker.envelope \in Envelope
  BY IngestionAssumption DEF IngestionInv, IngestionTypeOK
<1>2. worker.envelope.items \in Seq(Item)
  BY <1>1 DEF Envelope
<1>3. worker.envelope.items[i] \in Item
  BY <1>2
<1>4. worker.envelope.items[i].sensor \in Sensors
  BY <1>3 DEF Item
<1> QED
  BY <1>1, <1>3, <1>4 DEF Names, IngestionInv, LoadedDefined

\* An accepted item yields a row of the message, and everything it is stored
\* as was seen.
LEMMA RowAccepted ==
    ASSUME IngestionInv, worker.pc = "definitions",
           NEW i \in 1..Len(worker.envelope.items), NEW m \in Definitions, Accepted(i, m)
    PROVE  /\ NewRow(i, m) \in Row
           /\ NewRow(i, m).index = i /\ NewRow(i, m).definition = m
           /\ NewRow(i, m).device = worker.envelope.device
           /\ NewRow(i, m).message = worker.envelope.message
           /\ FactsOf(NewRow(i, m)) \subseteq opened \cup Facts
           /\ DeviceOf[NewRow(i, m).sensor] = NewRow(i, m).device
           /\ NewRow(i, m).at <= now + Skew
<1> DEFINE item == worker.envelope.items[i]
<1> DEFINE channel == worker.channels[item.sensor][m]
<1>1. /\ Names(i, m) /\ Accepts(worker.sensors[item.sensor])
      /\ worker.sensors[item.sensor].status # "ABSENT"
      /\ channel.exists /\ channel.enabled
      /\ item.at <= now + Skew /\ Column[item.value] = definitions[m].type
  BY DEF Accepted, Names
<1>2. /\ worker.envelope \in Envelope /\ item \in Item
      /\ definitions[m].exists /\ definitions[m].key = item.key
  BY <1>1, ItemNamed
<1>3. item.sensor \in Sensors /\ item.key \in Keys /\ item.at \in Nat /\ item.value \in Values
  BY <1>2 DEF Item
<1>4. channel \in Channel
  BY <1>3 DEF IngestionInv, IngestionTypeOK
<1>5. channel.unit \in Units
  BY <1>4 DEF Channel
<1>6. worker.envelope.device \in Devices /\ worker.envelope.message \in Messages
  BY <1>2 DEF Envelope
<1>6a. i \in 1..MaxReadings
  BY IngestionAssumption DEF IngestionInv, EnvelopeValid
<1>7. NewRow(i, m) = [device |-> worker.envelope.device, message |-> worker.envelope.message,
        index |-> i, sensor |-> item.sensor, definition |-> m, key |-> item.key,
        at |-> item.at, value |-> item.value, unit |-> channel.unit]
  BY DEF NewRow
<1> HIDE DEF item, channel
<1>8. NewRow(i, m) \in Row
  BY <1>3, <1>5, <1>6, <1>6a, <1>7 DEF Row
<1>9. <<"device", worker.envelope.device>> \in opened
  BY DEF IngestionInv, Seen
<1>10. DeviceOf[item.sensor] = worker.envelope.device /\ <<"sensor", item.sensor>> \in opened
  BY <1>1, <1>3 DEF IngestionInv, Seen, SensorsSeen
<1>11. <<"channel", item.sensor, m, channel.unit>> \in opened
  BY <1>1, <1>3 DEF IngestionInv, Seen, ChannelsSeen, channel
<1>12. <<"definition", m, item.key, Column[item.value]>> \in Facts
  BY <1>1, <1>2 DEF Facts
<1> QED
  BY <1>1, <1>7, <1>8, <1>9, <1>10, <1>11, <1>12 DEF FactsOf

\* The worker judges its message.
LEMMA JudgeStep ==
    ASSUME IngestionInv, Judge, UNCHANGED catalogue, Remember
    PROVE  IngestionInv'
<1> DEFINE indices == 1..Len(worker.envelope.items)
<1>1. CatalogueTypeOK' /\ KeysDiffer' /\ ChannelsDefined'
  BY CatalogueKept
<1>2. /\ worker.pc = "definitions"
      /\ worker'.pc = "insert" /\ worker'.envelope = worker.envelope
      /\ worker'.sensors = worker.sensors /\ worker'.channels = worker.channels
      /\ worker'.rows = {NewRow(p[1], p[2]) : p \in
            {p \in indices \X Definitions : Accepted(p[1], p[2])}}
      /\ worker' = [worker EXCEPT !.pc = "insert", !.rows = worker'.rows]
      /\ now' = now /\ readings' = readings
  BY DEF Judge, IngestionInv, IngestionTypeOK
<1>3. \A r \in worker'.rows : \E i \in indices, m \in Definitions :
        Accepted(i, m) /\ r = NewRow(i, m)
  <2> TAKE r \in worker'.rows
  <2>1. PICK p \in indices \X Definitions : Accepted(p[1], p[2]) /\ r = NewRow(p[1], p[2])
    BY <1>2
  <2> QED
    BY <2>1
<1> HIDE DEF indices
<1>a. \A i \in indices, m \in Definitions : Accepted(i, m) =>
        /\ NewRow(i, m) \in Row
        /\ NewRow(i, m).index = i /\ NewRow(i, m).definition = m
        /\ NewRow(i, m).device = worker.envelope.device
        /\ NewRow(i, m).message = worker.envelope.message
        /\ FactsOf(NewRow(i, m)) \subseteq opened \cup Facts
        /\ DeviceOf[NewRow(i, m).sensor] = NewRow(i, m).device
        /\ NewRow(i, m).at <= now + Skew
  BY <1>2, RowAccepted DEF indices
<1>b. \A i \in indices, m \in Definitions : Names(i, m) =>
        definitions[m].exists /\ definitions[m].key = worker.envelope.items[i].key
  BY <1>2, ItemNamed DEF indices
<1>4. worker'.rows \subseteq Row
  BY <1>3, <1>a
<1>5. IngestionTypeOK'
  BY <1>1, <1>2, <1>4 DEF IngestionInv, IngestionTypeOK, Stages
<1>6. RowsOfMessage'
  <2> SUFFICES ASSUME NEW q \in worker'.rows, NEW r \in worker'.rows
               PROVE  q.device = r.device /\ q.message = r.message /\ (q.index = r.index => q = r)
    BY DEF RowsOfMessage
  <2>1. PICK i \in indices, m \in Definitions : Accepted(i, m) /\ q = NewRow(i, m)
    BY <1>3
  <2>2. PICK j \in indices, n \in Definitions : Accepted(j, n) /\ r = NewRow(j, n)
    BY <1>3
  <2>3. q.device = r.device /\ q.message = r.message /\ q.index = i /\ r.index = j
    BY <2>1, <2>2, <1>a
  <2>4. ASSUME i = j PROVE m = n
    <3>1. Names(i, m) /\ Names(i, n)
      BY <2>1, <2>2, <2>4 DEF Accepted
    <3>2. /\ definitions[m].exists /\ definitions[n].exists
          /\ definitions[m].key = definitions[n].key
      BY <2>4, <3>1, <1>b
    <3> QED
      BY <3>2 DEF IngestionInv, KeysDiffer
  <2> QED
    BY <2>1, <2>2, <2>3, <2>4
<1>7. opened \cup Facts \subseteq opened'
  BY <1>2, Remembered, FactsUnchanged
<1>8. \A r \in worker'.rows : RowSeen(r)'
  <2> SUFFICES ASSUME NEW r \in worker'.rows PROVE RowSeen(r)'
    OBVIOUS
  <2>1. PICK i \in indices, m \in Definitions : Accepted(i, m) /\ r = NewRow(i, m)
    BY <1>3
  <2>2. FactsOf(r) \subseteq opened \cup Facts /\ DeviceOf[r.sensor] = r.device
        /\ r.at <= now + Skew
    BY <2>1, <1>a
  <2> QED
    BY <1>2, <1>7, <2>2 DEF RowSeen, FactsOf
<1>9. Seen'
  BY <1>2, <1>7, <1>8 DEF IngestionInv, Seen, SensorsSeen, ChannelsSeen, Accepts
<1>10. LoadedDefined' /\ OneRowPerKey'
  BY <1>2 DEF IngestionInv, LoadedDefined, OneRowPerKey, catalogue
<1> QED
  BY <1>1, <1>2, <1>5, <1>6, <1>9, <1>10 DEF IngestionInv

\* It stores what is not stored yet.
LEMMA InsertStep ==
    ASSUME IngestionInv, Insert, UNCHANGED catalogue
    PROVE  IngestionInv'
<1>1. CatalogueTypeOK' /\ KeysDiffer' /\ ChannelsDefined'
  BY CatalogueKept
<1>2. /\ worker' = Idle /\ now' = now
      /\ readings' = readings \cup {r \in worker.rows : ~Stored(r)}
  BY DEF Insert
<1>3. LoadedDefined' /\ RowsOfMessage' /\ Seen'
  BY <1>2, IdleKept, IngestionAssumption DEF IngestionInv, IngestionTypeOK
<1>4. IngestionTypeOK'
  BY <1>1, <1>2, IdleTyped DEF IngestionInv, IngestionTypeOK
<1>5. OneRowPerKey'
  <2> SUFFICES ASSUME NEW q \in readings', NEW r \in readings', SameKey(q, r) PROVE q = r
    BY DEF OneRowPerKey
  <2>1. CASE q \in readings /\ r \in readings
    BY <2>1 DEF IngestionInv, OneRowPerKey
  <2>2. CASE q \in readings /\ r \notin readings
    BY <1>2, <2>2 DEF Stored, SameKey
  <2>3. CASE q \notin readings /\ r \in readings
    BY <1>2, <2>3 DEF Stored, SameKey
  <2>4. CASE q \notin readings /\ r \notin readings
    BY <1>2, <2>4 DEF IngestionInv, RowsOfMessage, SameKey
  <2> QED
    BY <2>1, <2>2, <2>3, <2>4
<1> QED
  BY <1>1, <1>2, <1>3, <1>4, <1>5, IdleTyped DEF IngestionInv

\* It loses its message.
LEMMA FailStep ==
    ASSUME IngestionInv, Fail, UNCHANGED catalogue
    PROVE  IngestionInv'
<1>1. CatalogueTypeOK' /\ KeysDiffer' /\ ChannelsDefined'
  BY CatalogueKept
<1>2. worker' = Idle /\ now' = now /\ readings' = readings
  BY DEF Fail
<1>3. LoadedDefined' /\ RowsOfMessage' /\ Seen'
  BY <1>2, IdleKept, IngestionAssumption DEF IngestionInv, IngestionTypeOK
<1>4. IngestionTypeOK'
  BY <1>1, <1>2, IdleTyped DEF IngestionInv, IngestionTypeOK
<1> QED
  BY <1>1, <1>2, <1>3, <1>4, IdleTyped DEF IngestionInv, OneRowPerKey

\* What the worker holds stays true of the past when the clock or the
\* catalogue moves.
LEMMA OutsideStep ==
    ASSUME IngestionInv, Remember, UNCHANGED <<worker, readings>>,
           now' \in 0..MaxTime, now <= now',
           CatalogueTypeOK', KeysDiffer', ChannelsDefined',
           \A m \in Definitions : definitions[m].exists => definitions'[m].exists
    PROVE  IngestionInv'
<1>1. IngestionTypeOK'
  BY DEF IngestionInv, IngestionTypeOK
<1>2. LoadedDefined' /\ RowsOfMessage' /\ OneRowPerKey'
  BY DEF IngestionInv, LoadedDefined, RowsOfMessage, OneRowPerKey
<1>3. Seen'
  <2>1. CASE worker.pc = "idle"
    <3>1. worker = Idle
      BY <2>1 DEF IngestionInv
    <3> QED
      BY <3>1, IdleKept, IngestionAssumption
  <2>2. CASE worker.pc # "idle"
    <3>1. opened \subseteq opened'
      BY <2>2, Remembered
    <3>2. \A r \in worker.rows : RowSeen(r)'
      <4> TAKE r \in worker.rows
      <4>1. RowSeen(r) /\ r.at \in Nat
        BY DEF IngestionInv, Seen, IngestionTypeOK, Row
      <4>2. now \in Nat /\ now' \in Nat /\ Skew \in Nat
        BY IngestionAssumption DEF IngestionInv, IngestionTypeOK
      <4> QED
        BY <3>1, <4>1, <4>2 DEF RowSeen, FactsOf
    <3> QED
      BY <3>1, <3>2 DEF IngestionInv, Seen, SensorsSeen, ChannelsSeen, Accepts
  <2> QED
    BY <2>1, <2>2
<1> QED
  BY <1>1, <1>2, <1>3 DEF IngestionInv

\* Every step of the worker, the clock and the administrators.
LEMMA IngestionStep ==
    IngestionInv /\ [IngestionNext]_ingestion => IngestionInv'
<1> SUFFICES ASSUME IngestionInv, [IngestionNext]_ingestion PROVE IngestionInv'
  OBVIOUS
<1>1. CASE UNCHANGED ingestion
  BY <1>1 DEF ingestion, catalogue, IngestionInv, IngestionTypeOK, CatalogueTypeOK, KeysDiffer,
    ChannelsDefined, LoadedDefined, RowsOfMessage, OneRowPerKey, Seen, SensorsSeen,
    ChannelsSeen, RowSeen, FactsOf, Accepts
<1>2. CASE Work /\ UNCHANGED catalogue /\ Remember
  <2>1. CASE \E e \in Envelopes : Take(e)
    BY <1>2, <2>1, TakeStep
  <2>2. CASE ReadSensors
    BY <1>2, <2>2, ReadSensorsStep
  <2>3. CASE ReadChannels
    BY <1>2, <2>3, ReadChannelsStep
  <2>4. CASE Judge
    BY <1>2, <2>4, JudgeStep
  <2>5. CASE Insert
    BY <1>2, <2>5, InsertStep
  <2>6. CASE Fail
    BY <1>2, <2>6, FailStep
  <2> QED
    BY <1>2, <2>1, <2>2, <2>3, <2>4, <2>5, <2>6 DEF Work
<1>3. CASE Tick /\ UNCHANGED catalogue /\ Remember
  <2>1. CatalogueTypeOK' /\ KeysDiffer' /\ ChannelsDefined'
    BY <1>3, CatalogueKept
  <2>2. now' \in 0..MaxTime /\ now <= now' /\ UNCHANGED <<worker, readings, definitions>>
    BY <1>3, IngestionAssumption DEF Tick, IngestionInv, IngestionTypeOK, catalogue
  <2> QED
    BY <1>3, <2>1, <2>2, OutsideStep
<1>4. CASE CatalogueNext /\ UNCHANGED <<now, worker, readings>> /\ Remember
  <2>1. /\ CatalogueTypeOK' /\ KeysDiffer' /\ ChannelsDefined'
        /\ \A m \in Definitions : definitions[m].exists => definitions'[m].exists
    BY <1>4, CatalogueStep DEF IngestionInv, IngestionTypeOK
  <2>2. now' \in 0..MaxTime /\ now <= now' /\ UNCHANGED <<worker, readings>>
    BY <1>4, IngestionAssumption DEF IngestionInv, IngestionTypeOK
  <2> QED
    BY <1>4, <2>1, <2>2, OutsideStep
<1> QED
  BY <1>1, <1>2, <1>3, <1>4 DEF IngestionNext

-----------------------------------------------------------------------------
(* What the readings promise.                                              *)

\* Only the insert changes the table.
LEMMA OnlyInsert ==
    ASSUME [IngestionNext]_ingestion, readings' # readings
    PROVE  Insert
BY DEF ingestion, IngestionNext, Work, Take, ReadSensors, ReadChannels, Judge, Fail, Tick

LEMMA LogStep ==
    IngestionInv /\ [IngestionNext]_ingestion => [Log!Append]_readings
<1> SUFFICES ASSUME IngestionInv, [IngestionNext]_ingestion, readings' # readings
             PROVE  Log!Append
  OBVIOUS
<1>1. readings' = readings \cup {r \in worker.rows : ~Stored(r)}
  BY OnlyInsert DEF Insert
<1>2. IngestionInv'
  BY IngestionStep
<1>3. \A q, r \in readings' : Log!Key(q) = Log!Key(r) => q = r
  BY <1>2 DEF IngestionInv, OneRowPerKey, SameKey, Log!Key
<1>4. \A q, r \in readings' \ readings : q.device = r.device /\ q.message = r.message
  BY <1>1 DEF IngestionInv, RowsOfMessage
<1> QED
  BY <1>1, <1>3, <1>4 DEF Log!Append

LEMMA StoredStep ==
    IngestionInv /\ [IngestionNext]_ingestion =>
        [\A r \in readings' \ readings : RowSeen(r)]_ingestion
<1> SUFFICES ASSUME IngestionInv, [IngestionNext]_ingestion, NEW r \in readings' \ readings
             PROVE  RowSeen(r)
  OBVIOUS
<1>1. r \in worker.rows
  BY OnlyInsert DEF Insert
<1> QED
  BY <1>1 DEF IngestionInv, Seen

\* Every variable of the catalogue and of the telemetry worker keeps its type
\* and the inductive invariant holds, whatever is sent, fails or is edited.
THEOREM IngestionCorrect == IngestionSpec => []IngestionInv
<1>1. IngestionInit => IngestionInv
  BY InitInv
<1>2. IngestionInv /\ [IngestionNext]_ingestion => IngestionInv'
  BY IngestionStep
<1> QED
  BY <1>1, <1>2, PTL DEF IngestionSpec

\* The telemetry worker implements the log: redelivered, reordered and failed
\* messages store each reading once and change or remove none.
THEOREM IngestionImplementsLog == IngestionSpec => ImplementsLog
<1>1. IngestionInit => Log!Init
  BY DEF IngestionInit, Log!Init
<1>2. IngestionInv /\ [IngestionNext]_ingestion => [Log!Append]_readings
  BY LogStep
<1> QED
  BY <1>1, <1>2, IngestionCorrect, PTL DEF IngestionSpec, ImplementsLog, Log!Spec

\* A reading is stored only as the catalogue allowed it while its message was
\* worked on, however administrators change the catalogue meanwhile.
THEOREM IngestionStoresAsConfigured == IngestionSpec => StoredAsConfigured
<1>1. IngestionInv /\ [IngestionNext]_ingestion =>
        [\A r \in readings' \ readings : RowSeen(r)]_ingestion
  BY StoredStep
<1>2. [\A r \in readings' \ readings : RowSeen(r)]_ingestion <=>
        [\A r \in readings' \ readings :
            /\ FactsOf(r) \subseteq opened
            /\ DeviceOf[r.sensor] = r.device
            /\ r.at <= now + Skew]_ingestion
  BY DEF RowSeen
<1> QED
  BY <1>1, <1>2, IngestionCorrect, PTL DEF IngestionSpec, StoredAsConfigured

-----------------------------------------------------------------------------
(* No good reading is dropped: what was true all along was true at each     *)
(* SELECT, so it is in what the worker loaded and in the rows it makes of   *)
(* it.                                                                      *)

\* Sensors and Channels of the message's Device that have been good all along.
SteadySensor(s) ==
    DeviceOf[s] = worker.envelope.device /\ <<"sensor", s>> \in steady
SteadyChannel(s, m) ==
    SteadySensor(s) /\ \E unit \in Units : <<"channel", s, m, unit>> \in steady

SensorsLoaded ==
    worker.pc \in {"channels", "definitions", "insert"} =>
        \A s \in Sensors : SteadySensor(s) => Accepts(worker.sensors[s])
ChannelsLoaded ==
    worker.pc \in {"definitions", "insert"} =>
        \A s \in Sensors, m \in Definitions : SteadyChannel(s, m) =>
            worker.channels[s][m].exists /\ worker.channels[s][m].enabled
HasRow(i) ==
    \E r \in worker.rows : /\ r.device = worker.envelope.device
                           /\ r.message = worker.envelope.message
                           /\ r.index = i
RowsMade ==
    worker.pc = "insert" =>
        \A i \in 1..Len(worker.envelope.items), m \in Definitions :
            Undoubted(i, m) => HasRow(i)

SteadyInv ==
    /\ worker.pc # "idle" => steady \subseteq FactsAndTimes
    /\ SensorsLoaded
    /\ ChannelsLoaded
    /\ RowsMade

\* What the facts say of the tables.
LEMMA FactsTrue ==
    /\ \A s : <<"sensor", s>> \in FactsAndTimes => s \in Sensors /\ Accepts(sensors[s])
    /\ \A s, m, unit : <<"channel", s, m, unit>> \in FactsAndTimes =>
            channels[s][m].exists /\ channels[s][m].enabled
    /\ \A m, key, type : <<"definition", m, key, type>> \in FactsAndTimes =>
            m \in Definitions /\ definitions[m].key = key /\ definitions[m].type = type
    /\ \A at : <<"time", at>> \in FactsAndTimes => at \in 0..(now + Skew)
<1>1. ASSUME NEW s, <<"sensor", s>> \in FactsAndTimes PROVE s \in Sensors /\ Accepts(sensors[s])
  BY <1>1 DEF FactsAndTimes, Facts
<1>2. ASSUME NEW s, NEW m, NEW unit, <<"channel", s, m, unit>> \in FactsAndTimes
      PROVE  channels[s][m].exists /\ channels[s][m].enabled
  <2>1. PICK c \in Sensors \X Definitions :
            /\ channels[c[1]][c[2]].exists /\ channels[c[1]][c[2]].enabled
            /\ <<"channel", s, m, unit>> = <<"channel", c[1], c[2], channels[c[1]][c[2]].unit>>
    BY <1>2 DEF FactsAndTimes, Facts
  <2>2. s = c[1] /\ m = c[2]
    BY <2>1
  <2> QED
    BY <2>1, <2>2
<1>3. ASSUME NEW m, NEW key, NEW type, <<"definition", m, key, type>> \in FactsAndTimes
      PROVE  m \in Definitions /\ definitions[m].key = key /\ definitions[m].type = type
  BY <1>3 DEF FactsAndTimes, Facts
<1>4. ASSUME NEW at, <<"time", at>> \in FactsAndTimes PROVE at \in 0..(now + Skew)
  BY <1>4 DEF FactsAndTimes, Facts
<1> QED
  BY <1>1, <1>2, <1>3, <1>4

\* What was true all along is true now.
LEMMA SteadyShrinks ==
    ASSUME Remember, worker'.pc # "idle"
    PROVE  /\ steady' \subseteq FactsAndTimes'
           /\ worker.pc # "idle" => steady' \subseteq steady
BY DEF Remember

\* Facts that hold after a step that changes no table held before it.
LEMMA SteadyHolds ==
    ASSUME SteadyInv, worker.pc # "idle", worker'.pc # "idle", Remember
    PROVE  steady' \subseteq FactsAndTimes /\ steady' \subseteq steady
BY SteadyShrinks DEF SteadyInv

\* A message whose item is wanted all along gets a row for it.
LEMMA UndoubtedAccepted ==
    ASSUME IngestionInv, SteadyInv, worker.pc = "definitions",
           NEW i \in 1..Len(worker.envelope.items), NEW m \in Definitions, Undoubted(i, m)
    PROVE  Accepted(i, m)
<1> DEFINE item == worker.envelope.items[i]
<1>1. worker.envelope \in Envelope
  BY IngestionAssumption DEF IngestionInv, IngestionTypeOK
<1>2. item \in Item
  BY <1>1 DEF Envelope
<1>3. item.sensor \in Sensors /\ item.at \in Nat /\ item.value \in Values
  BY <1>2 DEF Item
<1>4. steady \subseteq FactsAndTimes
  BY DEF SteadyInv
<1>5. SteadyChannel(item.sensor, m) /\ SteadySensor(item.sensor)
  BY DEF Undoubted, SteadyChannel, SteadySensor
<1>6. Accepts(worker.sensors[item.sensor])
  BY <1>3, <1>5 DEF SteadyInv, SensorsLoaded
<1>7. worker.channels[item.sensor][m].exists /\ worker.channels[item.sensor][m].enabled
  BY <1>3, <1>5 DEF SteadyInv, ChannelsLoaded
<1>8. definitions[m].key = item.key /\ definitions[m].type = Column[item.value]
  BY <1>4, FactsTrue DEF Undoubted
<1>9. item.at <= now + Skew
  BY <1>4, FactsTrue DEF Undoubted
<1>10. item.value # "malformed"
  <2>1. definitions[m].type \in Types
    BY DEF IngestionInv, IngestionTypeOK, CatalogueTypeOK, Definition
  <2>2. Column["malformed"] = "NONE"
    BY DEF Column, Values
  <2> QED
    BY <1>8, <2>1, <2>2 DEF Types
<1>11. Names(i, m)
  BY <1>6, <1>7, <1>8, <1>10 DEF Names, Accepts
<1> QED
  BY <1>6, <1>7, <1>8, <1>9, <1>11 DEF Accepted

\* A step that leaves the worker alone.
LEMMA SteadyOutside ==
    ASSUME SteadyInv, Remember, UNCHANGED worker
    PROVE  SteadyInv'
<1>1. CASE worker.pc = "idle"
  BY <1>1 DEF SteadyInv, SensorsLoaded, ChannelsLoaded, RowsMade
<1>2. CASE worker.pc # "idle"
  <2>1. steady' \subseteq FactsAndTimes' /\ steady' \subseteq steady
    BY <1>2, SteadyShrinks
  <2>2. \A s \in Sensors : SteadySensor(s)' => SteadySensor(s)
    BY <2>1 DEF SteadySensor
  <2>3. \A s \in Sensors, m \in Definitions : SteadyChannel(s, m)' => SteadyChannel(s, m)
    BY <2>1, <2>2 DEF SteadyChannel
  <2>4. \A i, m : Undoubted(i, m)' => Undoubted(i, m)
    BY <2>1 DEF Undoubted
  <2>5. SensorsLoaded'
    BY <2>2 DEF SteadyInv, SensorsLoaded, Accepts
  <2>6. ChannelsLoaded'
    BY <2>3 DEF SteadyInv, ChannelsLoaded
  <2>7. RowsMade'
    BY <2>4 DEF SteadyInv, RowsMade, HasRow
  <2> QED
    BY <2>1, <2>5, <2>6, <2>7 DEF SteadyInv
<1> QED
  BY <1>1, <1>2

LEMMA SteadyLoads ==
    ASSUME IngestionInv, SteadyInv, Remember, UNCHANGED catalogue, ReadSensors \/ ReadChannels
    PROVE  SteadyInv'
<1>1. steady' \subseteq FactsAndTimes' /\ steady' \subseteq FactsAndTimes /\ steady' \subseteq steady
  BY SteadyHolds, SteadyShrinks DEF ReadSensors, ReadChannels, IngestionInv, IngestionTypeOK
<1>2. CASE ReadSensors
  <2>1. /\ worker'.pc = "channels" /\ worker'.envelope = worker.envelope
        /\ worker'.sensors = [s \in Sensors |->
                IF DeviceOf[s] = worker.envelope.device THEN sensors[s] ELSE NoSensor]
    BY <1>2 DEF ReadSensors, IngestionInv, IngestionTypeOK
  <2>2. SensorsLoaded'
    BY <1>1, <2>1, FactsTrue DEF SensorsLoaded, SteadySensor, Accepts
  <2> QED
    BY <1>1, <2>1, <2>2 DEF SteadyInv, ChannelsLoaded, RowsMade
<1>3. CASE ReadChannels
  <2>1. /\ worker.pc = "channels" /\ worker'.pc = "definitions"
        /\ worker'.envelope = worker.envelope /\ worker'.sensors = worker.sensors
        /\ worker'.channels = [s \in Sensors |->
                IF worker.sensors[s].status # "ABSENT" THEN channels[s] ELSE NoChannels[s]]
    BY <1>3 DEF ReadChannels, IngestionInv, IngestionTypeOK
  <2>2. \A s \in Sensors : SteadySensor(s)' => Accepts(worker.sensors[s])
    BY <1>1, <2>1 DEF SteadyInv, SensorsLoaded, SteadySensor
  <2>3. SensorsLoaded'
    BY <2>1, <2>2 DEF SensorsLoaded, Accepts
  <2>4. ChannelsLoaded'
    <3> SUFFICES ASSUME NEW s \in Sensors, NEW m \in Definitions, SteadyChannel(s, m)'
                 PROVE  worker'.channels[s][m].exists /\ worker'.channels[s][m].enabled
      BY DEF ChannelsLoaded
    <3>1. worker'.channels[s] = channels[s]
      BY <2>1, <2>2 DEF SteadyChannel, Accepts
    <3>2. channels[s][m].exists /\ channels[s][m].enabled
      BY <1>1, FactsTrue DEF SteadyChannel
    <3> QED
      BY <3>1, <3>2
  <2> QED
    BY <1>1, <2>1, <2>3, <2>4 DEF SteadyInv, RowsMade
<1> QED
  BY <1>2, <1>3

LEMMA SteadyJudged ==
    ASSUME IngestionInv, SteadyInv, Remember, UNCHANGED catalogue, Judge
    PROVE  SteadyInv'
<1>1. /\ worker.pc = "definitions" /\ worker'.pc = "insert"
      /\ worker'.envelope = worker.envelope
      /\ worker'.sensors = worker.sensors /\ worker'.channels = worker.channels
      /\ worker'.rows = {NewRow(p[1], p[2]) : p \in
            {p \in (1..Len(worker.envelope.items)) \X Definitions : Accepted(p[1], p[2])}}
  BY DEF Judge, IngestionInv, IngestionTypeOK
<1>2. steady' \subseteq FactsAndTimes' /\ steady' \subseteq steady
  BY <1>1, SteadyHolds, SteadyShrinks
<1>3. SensorsLoaded'
  BY <1>1, <1>2 DEF SteadyInv, SensorsLoaded, SteadySensor, Accepts
<1>4. ChannelsLoaded'
  BY <1>1, <1>2 DEF SteadyInv, ChannelsLoaded, SteadyChannel, SteadySensor
<1>5. RowsMade'
  <2> SUFFICES ASSUME NEW i \in 1..Len(worker.envelope.items), NEW m \in Definitions,
                      Undoubted(i, m)'
               PROVE  HasRow(i)'
    BY <1>1 DEF RowsMade
  <2>1. Undoubted(i, m)
    BY <1>1, <1>2 DEF Undoubted
  <2>2. Accepted(i, m)
    BY <1>1, <2>1, UndoubtedAccepted
  <2>3. NewRow(i, m) \in worker'.rows
    <3>1. <<i, m>> \in {p \in (1..Len(worker.envelope.items)) \X Definitions :
                            Accepted(p[1], p[2])}
      BY <2>2
    <3> QED
      BY <1>1, <3>1
  <2> QED
    BY <1>1, <2>2, <2>3, RowAccepted DEF HasRow
<1> QED
  BY <1>1, <1>2, <1>3, <1>4, <1>5 DEF SteadyInv

LEMMA SteadyStep ==
    IngestionInv /\ SteadyInv /\ [IngestionNext]_ingestion => SteadyInv'
<1> SUFFICES ASSUME IngestionInv, SteadyInv, [IngestionNext]_ingestion PROVE SteadyInv'
  OBVIOUS
<1>1. ASSUME worker'.pc \in {"idle", "sensors"}, Remember PROVE SteadyInv'
  BY <1>1 DEF Remember, SteadyInv, SensorsLoaded, ChannelsLoaded, RowsMade
<1>2. CASE UNCHANGED ingestion
  <2>1. UNCHANGED <<worker, now, steady>> /\ UNCHANGED catalogue
    BY <1>2 DEF ingestion
  <2>2. FactsAndTimes' = FactsAndTimes
    BY <2>1, FactsUnchanged DEF FactsAndTimes
  <2>3. SensorsLoaded' /\ ChannelsLoaded'
    BY <2>1 DEF SteadyInv, SensorsLoaded, ChannelsLoaded, SteadySensor, SteadyChannel, Accepts
  <2>4. RowsMade'
    BY <2>1 DEF SteadyInv, RowsMade, HasRow, Undoubted
  <2> QED
    BY <2>1, <2>2, <2>3, <2>4 DEF SteadyInv
<1>3. CASE Work /\ UNCHANGED catalogue /\ Remember
  <2>1. CASE (\E e \in Envelopes : Take(e)) \/ Insert \/ Fail
    BY <1>1, <1>3, <2>1, IdleTyped DEF Take, Insert, Fail, Idle
  <2> QED
    BY <1>3, <2>1, SteadyLoads, SteadyJudged DEF Work
<1>4. CASE UNCHANGED worker /\ Remember
  BY <1>4, SteadyOutside
<1> QED
  BY <1>2, <1>3, <1>4 DEF IngestionNext, Tick

\* No good reading is dropped, however the catalogue changes between the
\* SELECTs and whatever else the message holds.
THEOREM IngestionDropsNothing == IngestionSpec => NothingDropped
<1> DEFINE Complete ==
        Insert \/ readings' # readings =>
            \A i \in 1..Len(worker.envelope.items), m \in Definitions : Undoubted(i, m) =>
                \E r \in readings' : /\ r.device = worker.envelope.device
                                     /\ r.message = worker.envelope.message
                                     /\ r.index = i
<1>1. IngestionInit => SteadyInv
  BY DEF IngestionInit, SteadyInv, SensorsLoaded, ChannelsLoaded, RowsMade, Idle
<1>2. SteadyInv /\ [IngestionNext]_ingestion => [Complete]_ingestion
  <2>0. [IngestionNext]_ingestion => (readings' # readings => Insert)
    BY DEF IngestionNext, Work, Take, ReadSensors, ReadChannels, Judge, Fail, Tick, ingestion
  <2> SUFFICES ASSUME SteadyInv, Insert, NEW i \in 1..Len(worker.envelope.items),
                      NEW m \in Definitions, Undoubted(i, m)
               PROVE  \E r \in readings' : /\ r.device = worker.envelope.device
                                           /\ r.message = worker.envelope.message
                                           /\ r.index = i
    BY <2>0
  <2>1. HasRow(i)
    BY DEF SteadyInv, RowsMade, Insert
  <2>2. PICK r \in worker.rows : /\ r.device = worker.envelope.device
                                /\ r.message = worker.envelope.message
                                /\ r.index = i
    BY <2>1 DEF HasRow
  <2>3. CASE Stored(r)
    BY <2>2, <2>3 DEF Stored, Insert
  <2>4. CASE ~Stored(r)
    BY <2>2, <2>4 DEF Insert
  <2> QED
    BY <2>3, <2>4
<1> HIDE DEF Complete
<1>3. IngestionSpec => [][Complete]_ingestion
  BY <1>1, <1>2, SteadyStep, IngestionCorrect, PTL DEF IngestionSpec
<1> QED
  BY <1>3 DEF NothingDropped, Complete
=============================================================================
