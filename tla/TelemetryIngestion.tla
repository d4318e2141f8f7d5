-------------------------- MODULE TelemetryIngestion --------------------------
(***************************************************************************)
(* The telemetry worker: it takes an envelope of readings from its queue,  *)
(* loads the Device and its Sensors, Channels and Measurement Definitions  *)
(* with one SELECT each, judges every reading against what it loaded, and  *)
(* inserts the accepted ones in one transaction.                           *)
(*                                                                         *)
(* Code: telemetry/worker.py, telemetry/processor.py, the insert of        *)
(* repositories/reading_repository.py, schemas/telemetry.py,               *)
(* models/reading.py.                                                      *)
(*                                                                         *)
(* Each SELECT sees what was committed before it (READ COMMITTED), so the  *)
(* catalogue may change between any two of them.  A message is acknowledged *)
(* to the broker when it is put in the queue: whatever fails afterwards    *)
(* loses it.  The queue and the network are no variable: messages are lost, *)
(* repeated and reordered, so any envelope that a Device may send can come *)
(* next, any number of times.                                              *)
(***************************************************************************)
EXTENDS SensorCatalogue, Sequences

CONSTANTS
    Messages,
    Envelopes,      \* what Devices may send
    NoEnvelope,
    MaxReadings,    \* telemetry_max_readings_per_message
    Skew,           \* telemetry_max_future_skew_seconds
    MaxTime         \* bound on the clock

\* The JSON values told apart: "overflow" is an integer no float can hold,
\* "unstorable" a string PostgreSQL refuses (a NUL character), "other" a value
\* no Channel takes, "malformed" an item that fails the schema.
Values == {"number", "boolean", "text", "overflow", "unstorable", "other", "malformed"}
Item == [sensor : Sensors, key : Keys, at : Nat, value : Values]
Envelope == [message : Messages, topic : Devices, device : Devices, items : Seq(Item)]
Row == [device : Devices, message : Messages, index : 1..MaxReadings, sensor : Sensors,
        definition : Definitions, key : Keys, at : Nat, value : Values, unit : Units]

ASSUME IngestionAssumption ==
    /\ \A e \in Envelopes : e \in Envelope
    /\ NoEnvelope \notin Envelopes
    /\ MaxReadings \in Nat /\ Skew \in Nat /\ MaxTime \in Nat

VARIABLES
    now,            \* the worker's clock
    worker,         \* the message in hand and what was loaded for it
    readings,       \* table sensor_readings
    opened,         \* history: facts true at some time since the worker took
                    \* the message
    steady          \* history: facts true all that time

ingestion == <<catalogue, now, worker, readings, opened, steady>>

NoSensors == [s \in Sensors |-> NoSensor]
NoChannels == [s \in Sensors |-> NoChannel]
Idle == [pc |-> "idle", envelope |-> NoEnvelope, sensors |-> NoSensors,
         channels |-> NoChannels, rows |-> {}]
Stages == {"idle", "sensors", "channels", "definitions", "insert"}

IngestionTypeOK ==
    /\ CatalogueTypeOK
    /\ now \in 0..MaxTime
    /\ worker \in [pc : Stages, envelope : Envelopes \cup {NoEnvelope},
                   sensors : [Sensors -> Sensor],
                   channels : [Sensors -> [Definitions -> Channel]],
                   rows : SUBSET Row]
    /\ worker.pc # "idle" => worker.envelope \in Envelopes
    /\ readings \subseteq Row

IngestionInit ==
    /\ CatalogueInit
    /\ now = 0
    /\ worker = Idle
    /\ readings = {}
    /\ opened = {}
    /\ steady = {}

\* A Sensor that accepts telemetry, and the column each kind of value goes to.
Accepts(sensor) == sensor.enabled /\ sensor.status = "REGISTERED"
Column == [value \in Values |->
    CASE value = "number" -> "NUMERIC"
      [] value = "boolean" -> "BOOLEAN"
      [] value \in {"text", "unstorable"} -> "TEXT"
      [] OTHER -> "NONE"]

\* What the tables allow a reading to be stored as.
Facts ==
    {<<"device", d>> : d \in {d \in Devices : active[d]}}
    \cup {<<"sensor", s>> : s \in {s \in Sensors : Accepts(sensors[s])}}
    \cup {<<"channel", c[1], c[2], channels[c[1]][c[2]].unit>> : c \in
            {c \in Sensors \X Definitions :
                channels[c[1]][c[2]].exists /\ channels[c[1]][c[2]].enabled}}
    \cup {<<"definition", m, definitions[m].key, definitions[m].type>> :
            m \in {m \in Definitions : definitions[m].exists}}

\* The same, and the times a reading may have.
FactsAndTimes == Facts \cup {<<"time", at>> : at \in 0..(now + Skew)}

\* The envelope's checks; an invalid message changes nothing.
EnvelopeValid(e) ==
    /\ e.topic = e.device
    /\ Len(e.items) \in 1..MaxReadings

\* Mutant: the message is not kept.
TakeNothing(e) ==
    /\ worker.pc = "idle"
    /\ active[e.device]
    /\ worker' = [Idle EXCEPT !.pc = "sensors"]
    /\ UNCHANGED <<now, readings>>

Take(e) ==
    /\ worker.pc = "idle"
    /\ EnvelopeValid(e)
    /\ active[e.device]
    /\ worker' = [Idle EXCEPT !.pc = "sensors", !.envelope = e]
    /\ UNCHANGED <<now, readings>>

ReadSensors ==
    /\ worker.pc = "sensors"
    /\ worker' = [worker EXCEPT !.pc = "channels",
            !.sensors = [s \in Sensors |->
                IF DeviceOf[s] = worker.envelope.device THEN sensors[s] ELSE NoSensor]]
    /\ UNCHANGED <<now, readings>>

ReadChannels ==
    /\ worker.pc = "channels"
    /\ worker' = [worker EXCEPT !.pc = "definitions",
            !.channels = [s \in Sensors |->
                IF worker.sensors[s].status # "ABSENT" THEN channels[s] ELSE NoChannels[s]]]
    /\ UNCHANGED <<now, readings>>

\* The Channel an item names: item i and Measurement Definition m.
Names(i, m) ==
    LET item == worker.envelope.items[i] IN
    /\ item.value # "malformed"
    /\ worker.sensors[item.sensor].status # "ABSENT"
    /\ worker.channels[item.sensor][m].exists
    /\ definitions[m].key = item.key

\* Mutant: the Channel's enabled flag is not looked at.
AcceptedAnyway(i, m) ==
    LET item == worker.envelope.items[i] IN
    /\ Names(i, m)
    /\ Accepts(worker.sensors[item.sensor])
    /\ item.at <= now + Skew
    /\ Column[item.value] = definitions[m].type

Accepted(i, m) ==
    LET item == worker.envelope.items[i] IN
    /\ Names(i, m)
    /\ Accepts(worker.sensors[item.sensor])
    /\ worker.channels[item.sensor][m].enabled
    /\ item.at <= now + Skew
    /\ Column[item.value] = definitions[m].type

NewRow(i, m) ==
    LET e == worker.envelope
        item == e.items[i]
    IN [device |-> e.device, message |-> e.message, index |-> i, sensor |-> item.sensor,
        definition |-> m, key |-> item.key, at |-> item.at, value |-> item.value,
        unit |-> worker.channels[item.sensor][m].unit]

\* float() of an integer out of range raises, whatever else is wrong with the
\* item: the whole message is lost (Fail).
Overflows(i, m) ==
    /\ Names(i, m)
    /\ worker.envelope.items[i].value = "overflow"
    /\ definitions[m].type = "NUMERIC"

\* Mutant: the items after the first refused one are not looked at.
JudgeUntilRefused ==
    LET indices == 1..Len(worker.envelope.items)
        refused == {i \in indices : ~ \E m \in Definitions : Accepted(i, m)} IN
    /\ worker.pc = "definitions"
    /\ ~ \E i \in indices, m \in Definitions : Overflows(i, m)
    /\ worker' = [worker EXCEPT !.pc = "insert",
            !.rows = {NewRow(p[1], p[2]) : p \in {p \in indices \X Definitions :
                Accepted(p[1], p[2]) /\ \A j \in refused : p[1] < j}}]
    /\ UNCHANGED <<now, readings>>

Judge ==
    LET indices == 1..Len(worker.envelope.items) IN
    /\ worker.pc = "definitions"
    /\ ~ \E i \in indices, m \in Definitions : Overflows(i, m)
    /\ worker' = [worker EXCEPT !.pc = "insert",
            !.rows = {NewRow(p[1], p[2]) : p \in
                {p \in indices \X Definitions : Accepted(p[1], p[2])}}]
    /\ UNCHANGED <<now, readings>>

\* Mutant: only an identical row is a conflict.
StoredAlike(r) == r \in readings

\* INSERT ... ON CONFLICT (device_id, message_id, reading_index) DO NOTHING.
Stored(r) ==
    \E q \in readings : q.device = r.device /\ q.message = r.message /\ q.index = r.index

Insert ==
    /\ worker.pc = "insert"
    /\ \A r \in worker.rows : r.value # "unstorable"
    /\ readings' = readings \cup {r \in worker.rows : ~Stored(r)}
    /\ worker' = Idle
    /\ UNCHANGED now

\* An exception or the end of the process: the transaction is rolled back.
Fail ==
    /\ worker.pc # "idle"
    /\ worker' = Idle
    /\ UNCHANGED <<now, readings>>

Tick ==
    /\ now < MaxTime
    /\ now' = now + 1
    /\ UNCHANGED <<worker, readings>>

Work == (\E e \in Envelopes : Take(e)) \/ ReadSensors \/ ReadChannels \/ Judge \/ Insert \/ Fail
Remember ==
    /\ opened' = IF worker'.pc = "idle" THEN {} ELSE opened \cup Facts'
    /\ steady' = IF worker'.pc = "idle" THEN {}
                 ELSE IF worker.pc = "idle" THEN FactsAndTimes'
                 ELSE steady \cap FactsAndTimes'

IngestionNext ==
    /\ \/ Work /\ UNCHANGED catalogue
       \/ Tick /\ UNCHANGED catalogue
       \/ CatalogueNext /\ UNCHANGED <<now, worker, readings>>
    /\ Remember

IngestionSpec == IngestionInit /\ [][IngestionNext]_ingestion

(***************************************************************************)
(* Properties.                                                             *)
(***************************************************************************)
\* The table of readings is the log that its readers are promised: whatever
\* is repeated, reordered or lost, a reading of a message is stored once and
\* is never changed or removed, however the catalogue changed in between.
Log == INSTANCE ReadingLog WITH log <- readings
ImplementsLog == Log!Spec

\* A stored reading was measured no later than the clock allows, and each
\* thing it is stored as was true at some moment while its message was worked
\* on: its Device active, its Sensor accepting telemetry, its Channel enabled
\* with the unit stored, its Measurement Definition with the key and the type
\* of the value.
FactsOf(r) == {<<"device", r.device>>, <<"sensor", r.sensor>>,
               <<"channel", r.sensor, r.definition, r.unit>>,
               <<"definition", r.definition, r.key, Column[r.value]>>}
StoredAsConfigured ==
    [][\A r \in readings' \ readings :
        /\ FactsOf(r) \subseteq opened
        /\ DeviceOf[r.sensor] = r.device
        /\ r.at <= now + Skew]_ingestion

\* All that item i needs to be stored as a reading of Measurement Definition m
\* has been true ever since its message was taken.
Undoubted(i, m) ==
    LET item == worker.envelope.items[i] IN
    /\ DeviceOf[item.sensor] = worker.envelope.device
    /\ {<<"sensor", item.sensor>>, <<"time", item.at>>,
        <<"definition", m, item.key, Column[item.value]>>} \subseteq steady
    /\ \E unit \in Units : <<"channel", item.sensor, m, unit>> \in steady

\* No good reading is dropped and no message is half stored: when rows are
\* stored or a message is committed, each of its items that the catalogue allowed
\* all along has a row under its key, its own or the one that was stored first
\* under the same message id, whatever changed between the SELECTs for other
\* Sensors and Channels and whatever else the message holds.
NothingDropped ==
    [][Insert \/ readings' # readings =>
        \A i \in 1..Len(worker.envelope.items), m \in Definitions : Undoubted(i, m) =>
            \E r \in readings' : /\ r.device = worker.envelope.device
                                 /\ r.message = worker.envelope.message
                                 /\ r.index = i]_ingestion

===============================================================================
