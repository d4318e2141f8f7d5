# AQRESS Pulse: TLA+ verification project

AQRESS Pulse registers IoT devices and their sensors, sends each device its desired
configuration over MQTT, records what the device acknowledges, watches whether devices are
alive and stores their telemetry. This directory holds TLA+ models of the parts of it that
are hard to test, the TLC configurations that check them, and proofs for TLAPS.

All paths below are relative to the repository; "backend" is `backend/app/`.

## 1. The system

### Components, their state and their operations

| component | state | operations | code |
|---|---|---|---|
| Sensor registration and configuration versions | `sensors`, `sensor_channels`, `sensor_configurations` rows | `create`, `update`, `set_enabled`, `update_channel`, `update_configuration` | `backend/services/sensor_service.py`, `backend/models/sensor.py` |
| Configuration synchronization | configuration statuses, the retained MQTT message | `synchronize`, `build_snapshot`, `MqttPublisher.publish` | `backend/services/device_configuration_service.py`, `backend/mqtt/publisher.py` |
| Control worker | in-memory message queue, time of the last offline check | `process_configuration_ack`, `process_heartbeat`, `mark_stale_devices_offline` | `backend/mqtt/worker.py`, `backend/mqtt/control_plane.py` |
| Device administration | `devices` rows | `create`, `update`, `set_active` | `backend/services/device_service.py` |
| Simulated Device | running configuration, connection | `_on_connect`, `_on_message`, `_apply`, heartbeat and telemetry loops | `simulator/app/` |
| Telemetry ingestion | `sensor_readings`, the worker's queue | `process_telemetry_message`, `insert_idempotently` | `backend/telemetry/`, `backend/repositories/reading_repository.py` |
| Readings API | none | `latest`, `history` with a keyset cursor | `backend/services/reading_service.py` |
| Sessions | `refresh_tokens` | `login`, `refresh`, `logout` | `backend/services/auth_service.py` |
| Browser session | two tokens in memory, one in `localStorage`, a shared refresh promise | `api`, `refreshAccess`, `logout` | `frontend/src/lib/api.ts` |
| MQTT credentials | `device_mqtt_credentials` | `provision`, `rotate`, `revoke`; `authenticate` for the broker | `backend/services/mqtt_credential_service.py`, `mqtt_auth_service.py` |
| Sensor Type catalogue, Sites | their rows | create and edit | `backend/services/sensor_type_service.py`, `site_service.py` |
| Configuration validation | none | JSON-schema subset check | `backend/services/configuration_validation_service.py`, `frontend/src/lib/configuration.ts` |
| HTTP layer, schemas, seeds, migrations, pages | none of their own | | not modelled |

### How they interact

* The API, the control worker and the telemetry worker are separate processes. They share
  nothing but the PostgreSQL database (READ COMMITTED) and the EMQX broker.
* Every API request is one SQLAlchemy session: it loads rows, decides, assigns attributes and
  commits. A flush writes only the columns whose value differs from the *loaded* one
  (`OrmSession.tla`). Only `update_configuration` and the refresh-token operations lock what
  they read.
* `synchronize` reads the current configurations, publishes them as one retained message while
  its transaction stays open, and writes statuses afterwards. The device receives the message
  (at once, or on its next connection because it is retained), applies it sensor by sensor and
  publishes one acknowledgement. The control worker queues what it receives in memory and
  processes one message after the other, each in a session of its own.
* The device publishes batches of readings. The telemetry worker, a process of its own, takes one
  at a time, loads the device's part of the catalogue with four SELECTs, judges each reading and
  inserts the accepted ones. The readings API reads that table page by page meanwhile.
* EMQX asks `mqtt-auth` whether a client may connect, and keeps the topics it was told for as long
  as the connection lasts. Nothing tells the broker about later changes.
* The device also publishes heartbeats, which the same worker processes, and between messages
  the worker looks for devices whose last heartbeat is too old.

### What is hard

Reads that are stale when the write happens (every service without a lock); acknowledgements,
publishes and edits in every order; publishes that are accepted but not confirmed, or confirmed
after the request has failed; messages lost with a connection or with the worker's memory, or
delivered twice; multi-row transactions that fail halfway; time limits; and everything that has
to happen *eventually* although each attempt may fail. `PROJECT.json` lists the hazards at the
line where they bite, with the properties that cover them.

### What makes each component correct

* **Configuration versions**: one current version per sensor, the highest, without gaps; accepted
  payloads never change; no edit is lost or fails for a conflict the lock should exclude.
* **Synchronization and acknowledgements**: a status says only what happened (PUBLISHED: the
  broker accepted it; APPLIED: the device acknowledged that version); a failed publish and a
  rejected acknowledgement leave the rows alone; a connected device has what is retained on its way
  or runs it, and runs what the rows say is APPLIED.
* **Connectivity**: OFFLINE only after silence, silence always noticed, an active device can
  always come back; a deactivated device stays DISABLED.
* **Telemetry**: each reading of a message stored at most once and never changed, whatever is
  redelivered; only readings that the catalogue allowed while the message was processed, and of a
  committed message all that it allowed throughout.
* **Readings API**: pages go back in time, and neither repeat readings nor skip those that were there from the start; the
  latest reading of a channel only gets newer.
* **Sessions**: a refresh token is used at most once, and a browser that stays open is not logged
  out by its own concurrency; no call waits for an answer that cannot come or is sent again and again.
* **MQTT credentials**: a password that was replaced or revoked never authenticates again; a
  client is let in by facts that held while it was asked about, with exactly the topics of its device;
  a device has one account, under a username that no other has.

## 2. Plan

Modules, in the order they are written:

1. `OrmSession`, `ConfigurationHistory`, `ConfigurationSync` (+ proofs): the heart of the
   system. Done.
2. `DeviceConnectivity` (+ proofs): the other half of the control worker. Done.
3. `SessionChain`, `RefreshTokens` and `BrowserSession` (+ proofs): rotation under row locks, composed
   with tabs that share `localStorage` and lose responses. Done.
4. `SensorCatalogue`, `ReadingLog` and `TelemetryIngestion` (+ proofs): the acceptance rules per
   reading, redelivery, failures, and sensors, channels and definitions that change in between. Done.
5. `ReadingHistory` (+ proofs): keyset pages over a table that grows, composed with 4. Done.
6. `PasswordLifecycle` and `MqttCredentials` (+ proofs): provision, rotate and revoke against
   authentications, connections and device renames. Done.

7. `SnapshotOrder_proofs` and `NeverReused` in `BrowserSession_proofs`: the safety properties that need an
   assumption about the actors. Done.

8. The safety cores of the liveness properties and what was promised but not yet stated:
   `DeviceWillKnow`, `AppliedIsRunning`, `NobodyWaitsInVain`, `SentTwiceAtMost`, `NothingDropped`, `NewestFirst`,
   and `OfflineMeansSilent` as an invariant. Done.

Open: the liveness properties themselves are only model-checked, and section 6 lists what is not modelled.

## 3. Modules

| module | models |
|---|---|
| `OrmSession` | what one flushed attribute does to the stored column |
| `ConfigurationHistory` | abstract specification: a versioned register per sensor |
| `ConfigurationSync` | API requests, broker, device and control worker around `sensor_configurations` |
| `ConfigurationSync_proofs` | its inductive invariant, theorems and the implementation of `ConfigurationHistory` |
| `SnapshotOrder_proofs` | what a single synchronization at a time and an honest device guarantee |
| `MCConfigurationSync` | TLC instance: symmetry sets |
| `DeviceConnectivity` | `is_active`, `status`, `last_seen_at` of devices, the worker's loop, and time |
| `DeviceConnectivity_proofs` | its theorems |
| `MCDeviceConnectivity` | TLC instance |
| `SessionChain` | abstract specification: one good token per login, exchanged at each use |
| `RefreshTokens` | the server's `refresh_tokens` and the requests that lock them |
| `RefreshTokens_proofs` | its inductive invariant and the implementation of `SessionChain` |
| `BrowserSession` | tabs composed with `RefreshTokens` |
| `BrowserSession_proofs` | its types, that it implements `RefreshTokens`, that a single tab reuses no token, and that calls come to their end |
| `MCBrowserSession` | TLC instance: symmetry sets |
| `SensorCatalogue` | devices' activity, one Sensor Type, its Measurement Definitions, sensors and channels |
| `ReadingLog` | abstract specification: a log that only grows and holds a reading once |
| `TelemetryIngestion` | the telemetry worker composed with `SensorCatalogue` |
| `TelemetryIngestion_proofs` | its inductive invariant, its properties, the implementation of `ReadingLog` |
| `ReadingHistory` | a client of the readings API composed with `TelemetryIngestion` |
| `ReadingHistory_proofs` | its inductive invariant and theorems |
| `MCReadingHistory` | TLC instance: envelopes, filters, an order of row ids |
| `PasswordLifecycle` | abstract specification: a device has one account, and a password that is gone stays gone |
| `MqttCredentials` | credentials, the requests that change them, devices, and one client of the broker |
| `MqttCredentials_proofs` | its inductive invariant, theorems and the implementation of `PasswordLifecycle` |
| `MCMqttCredentials` | TLC instance: the first uids, symmetry of requests |

### ConfigurationSync

`rows[s][v]` is the `sensor_configurations` row of sensor `s` and version `v`: status, `is_current`
and payload. `published_at` and `applied_at` are left out: they are written together with the
status and read by nothing. The locals of each request live in `edits`, `syncs` and `txn`; what
the broker and the device hold is `retained`, `connected`, `inbox`, `running`; the worker's queue is
`acks`. An acknowledgement maps the pairs of a sensor and a version it names to what it says of them:
several versions of one sensor may be in one message, and of two results for the same version the
later would overwrite the earlier in the same transaction, so it counts once. `accepted` and
`honoured` are history variables that only properties read.

| action | code |
|---|---|
| `CreateRead`, `CreateCommit` | `SensorService.create`: uid lookup; insert and commit, or 409 from the unique constraint |
| `UpdateRead`, `UpdateCommit`, `EditAbort` | `update_configuration`: `SELECT ... FOR UPDATE`; flush, insert, commit or 409; every way out in between |
| `SyncRead` | `build_snapshot` |
| `SyncPublish` | the broker takes the PUBLISH, also for a request that has already given up |
| `SyncCommit`, `SyncFail`, `SyncForget` | statuses and commit; `MqttPublishError` or death; the late message is dropped |
| `DeviceConnect`, `DeviceDisconnect`, `DeviceReceive` | `SimulatorMqttClient` |
| `StrayAck` | any other acknowledgement the device's credentials allow |
| `AckTake`, `AckRead`, `AckReject`, `AckCommit` | one message through `process_configuration_ack`; one `AckRead` per result, because each SELECT autoflushes the rows assigned before |
| `WorkerCrash` | the process ends (database errors are not caught), memory is lost |

Decisions: a snapshot names versions, because a row's payload never changes (checked:
`ImplementsHistory`). The SELECTs of `build_snapshot` are one step: only one of them reads
configurations. An update of a row another transaction has written waits (`RowLocked`). The device-active guard of
`synchronize`, sensor renames, the `enabled` flags in the snapshot and the deadlock two multi-row
updates can run into are not modelled; the last ends in `WorkerCrash` or `SyncFail`.

### DeviceConnectivity

`devices[d]` has the three columns; `lastSeen` is the *age* of `last_seen_at`, growing with `Tick` up
to `Timeout + 1`, the age that is past the timeout. The code compares ages with the timeout and
the interval only, so nothing is lost above it. `overtaken` and `settled` are history variables: they
remember which `set_active` requests had another one committed since their SELECT. `worker` is the control worker's program
counter with the locals of the message or scan in progress; `sinceCheck` is the age of
`last_offline_check`.

| action | code |
|---|---|
| `Register` | `DeviceService.create` |
| `SetActiveRead`, `SetActiveCommit`, `SetActiveAbort` | `DeviceService.set_active` |
| `HeartbeatArrive` | `on_message` in paho's thread |
| `HeartbeatRead`, `HeartbeatCommit` | `process_heartbeat` up to its guards; its commit |
| `QueueEmpty`, `CheckNotDue` | the timeout of `messages.get`; the interval test |
| `ScanRead`, `ScanCommit` | `mark_stale_devices_offline` |
| `WorkerCrash` | the process ends and is restarted |

The heartbeats of one worker are processed one at a time and never during a scan: that is the
program counter, and it is what `OfflineMeansSilent` rests on.

### RefreshTokens and BrowserSession

`tokens` holds the rows of `refresh_tokens`. Tokens are numbered in the order they are issued; they
all live equally long, so they also expire in that order, and `expired` is the last that has. A row's
`login` is the token its chain began with, and `revoked` says why it was revoked; both are read by
properties only. `requests` are the `/auth/refresh` and `/auth/logout` requests in progress. An access
token has the number of the refresh token it was issued with.

`BrowserSession` extends `RefreshTokens`: `tabs` has the module variables of `api.ts` and the state of
`AuthProvider`, `calls` the `api()` calls in progress, `stored` is the shared `localStorage` entry.
`Restores` are the `/auth/me` calls a restored session begins with: one in a build, two in development,
where React's StrictMode runs `AuthProvider`'s effect twice.
`undisturbed` is a history variable.

| action | code |
|---|---|
| `Login` | `AuthService.login` with the right password |
| `RefreshRead`, `RefreshCommit` | `refresh`: `SELECT ... FOR UPDATE` and its checks; revoke, issue, commit |
| `LogoutDecode`, `LogoutRead`, `LogoutCommit` | `logout`: the JWT with its expiration; the wait for the row and its lock; revoke, commit |
| `RequestFail`, `Collect` | a database error; the response leaves |
| `OpenTab`, `CloseTab` | module loading and `AuthProvider`'s effect; closing or reloading |
| `LoginTab`, `LoginElsewhere` | the login form; a login of somebody else or with a lost answer |
| `PageCall`, `CallServed`, `CallRefused`, `CallLost`, `GiveUp` | `api()` up to its response, 401, a rejected fetch, the second 401 |
| `StartRefresh`, `JoinRefresh`, `RefreshSucceeds`, `RefreshFails`, `RefreshLost` | `refreshAccess` and what its callers do then |
| `Logout`, `LogoutSend`, `LogoutAnswered` | `authApi.logout`, `AuthProvider.logout` |

A response is handled in one step together with the promise callbacks it triggers: JavaScript runs
them before the next event. `TokenLocked` is the row lock of `get_for_update`; each request locks one row. Not modelled: a user whose `is_active` is false (no
operation makes one), tokens the server did not issue, and what pages do with their answers.

### SensorCatalogue, TelemetryIngestion and ReadingHistory

`SensorCatalogue` has the tables telemetry is judged by. Its operations but one write what their payloads
say and nothing they computed from rows read earlier, so each is one action; the columns of one row that
two overlapping requests mix are what two requests in a row can leave as well. The one is the registration
of a sensor, whose channels are copied from the definitions it has read: `registering` holds them
until the commit, and an edit of a definition may come in between. `worker` is the
telemetry worker with the message in hand and what its SELECTs loaded; `readings` is
`sensor_readings`. There is no queue: a message is acknowledged to the broker when it is queued, and
may be repeated, overtaken or lost before and after, so any envelope of `Envelopes` may be the next,
any number of times. `opened` and `steady` are history variables: what was true at some time since the
message was taken, and what was true all the time.

| action | code |
|---|---|
| `SetDeviceActive`, `SetTypeActive` | `DeviceService.set_active`, `SensorTypeService.set_active` |
| `WriteMeasurement` | `create_measurement`, `update_measurement` with the unique key |
| `RegisterDevice`, `RegisterType`, `RegisterCommit`, `RegisterFail` | `SensorService.create`: the SELECT of the device; that of the type with its definitions, and the duplicate check; the inserts, a channel per definition read; its refusals and failures |
| `SetEnabled`, `UpdateChannel` | `update` and `set_enabled`; `update_channel` |
| `Take` | `messages.get`, the envelope's checks, the SELECT of the device |
| `ReadSensors`, `ReadChannels`, `Judge` | one SELECT each of the `selectinload`s; with the last, the loop over the items |
| `Insert`, `Fail` | `insert_idempotently` and commit; an exception, a rollback, the end of the process |
| `Tick` | the worker's clock, which the future skew is added to |
| `OpenHistory`, `NextPage`, `CloseHistory` | the first and each further `GET .../readings` of a walk |

A value is one of the kinds `_typed_values` and the database tell apart, among them an integer that no
float holds (`Overflows`: the whole message fails) and a string that PostgreSQL refuses. `RowId` stands
for the random UUIDs, as an arbitrary order: `id DESC` breaks the ties of `recorded_at DESC`.
`quality`, `received_at`, `raw_payload` and `sent_at` are stored and read by nothing modelled. A sensor
is in one device for good. Two sensors of one device do not share a uid (the unique constraint).

### MqttCredentials

`devices` has the uid and `is_active`; `credentials` the row of each device, with the uid part of its
username. Its `id` is the number of its first password, by which a second row in its place would be
noticed: that there is one row per device, under a username of its own, is what `PasswordLifecycle` asks
of it. A password is the number of its drawing: it is random, so no two are equal. `requests` are the
credential requests with the columns they loaded; `client` is one client of the broker, from its
authentication to the end of its connection. `opened` is as above.

| action | code |
|---|---|
| `Rename`, `SetActive` | `DeviceService.update` (the uid), `set_active` |
| `RequestRead` | the reads of `provision`, `rotate` or `revoke`, with their 404 and 409 |
| `Provision`, `Rotate`, `Revoke` | what each flushes and commits |
| `RequestFail` | `IntegrityError`, which `provision` does not handle, or the end of the request |
| `AuthenticateRead`, `AuthenticateDevice` | the two SELECTs of `get_by_username` |
| `Accept`, `Leave` | the answer reaches the broker; a denial, a timeout, a disconnect |

`MqttAuthService.authorize` is not modelled: `emqx/base.hocon` names no authorization source, so EMQX never
asks it. What a connection may do is the ACL of its authentication (`DeviceAcl`), for as long as it lasts.

## 4. Runs

| run | checks | instance |
|---|---|---|
| `sync_edits` | `TypeOK`, `UpdateNeverConflicts`, `IInv`, `AppliedWasAcknowledged`, `PublishedWasAccepted`, `ImplementsHistory` | one sensor, two versions, two edit requests, one synchronization, all acknowledgements (partial, unknown, several versions), worker crashes |
| `sync_fair` | `OneCurrent`, `CurrentIsRetained`, `DeviceWillKnow`, `AppliedIsRunning`, `ImplementsHistory`, `NeverDowngrades`, `DeviceCatchesUp`, `RepublishHeals` | one sensor, two versions, one applicable payload and one not, with failures of every part, under fairness |
| `sync_replaced_revived` | violation of `ReplacedIsSuperseded` | an edit during a synchronization |
| `sync_retained_older` | violation of `PublishedIsRetained` | two synchronizations and an edit |
| `connectivity` | `TypeOK`, `ActiveIsNotDisabled`, `OfflineMeansSilent`, `OfflineDetected`, `HeartbeatsBringOnline` | one device, two overlapping requests, timeout and interval 1, one queued heartbeat beside the one processed |
| `connectivity_inactive` | violation of `InactiveIsDisabled` | one device, one request |
| `browser_calls` | `TypeOK`, `NeverReused`, `NobodyWaitsInVain`, `ImplementsChain`, `SentTwiceAtMost` | one tab, two `/auth/me` calls, a page call and a logout, two requests, two tokens |
| `browser_fair` | `CallsSettle` | the same with one `/auth/me` call and one request |
| `browser_logs_out` | violation of `LogsOut` | one page call |
| `history` | `TypeOK`, `NoRepeat`, `NoneSkipped`, `ImplementsLog`, `StoredAsConfigured`, `NothingDropped`, `NewestFirst`, `LatestNeverOlder` | two devices, one sensor, two definitions, five envelopes of two messages, two edits, pages of one reading |
| `credentials` | `TypeOK`, `ImplementsLifecycle`, `AcceptedAsConfigured` | two devices, three uids, two requests, two passwords, two device edits, one client |
| `credentials_renamed` | violation of `TopicsAreOwn` | the same with one request and one password |

### Bounds

Two versions are an edit, which replaces the version a synchronization or an acknowledgement has read,
and two concurrent edits of the first are what the lock is for. An acknowledgement that names both
versions of the sensor, one of which need not exist, is one that fails after a flushed result or finds
one of its results stale. One payload is enough where only versions matter (`sync_edits`); that payloads
stay what they were is checked in `sync_fair`, with two. Two synchronizations are needed only for
`PublishedIsRetained`, which the violation run gives. Two queued acknowledgements (`sync_fair`) let a
duplicate overtake an edit. Sensors meet in one transaction only, which the proofs cover for any
number of them, and of versions and requests. Devices do not
interact except through the worker's one loop, so one device shows every race of a device with
itself; the safety properties are proved for any number of them. A timeout of one
tick has three ages, before, at and past it, and a scan may come at each. Two requests and a
heartbeat are what it takes to leave an active device DISABLED.

Two calls that are refused together and two requests are what it takes to refresh twice.
Two tokens are a login and its refresh, or two logins; a tab reloaded during its refresh or a logout
that overtakes it gives the two requests for one token that the row lock is there for. That two
*refreshes* of one token never both succeed would take a third token; for that, and for several
tabs, the theorems hold without a bound. `CallsSettle` lets a call off
only where the bound stops the server: a refresh has its row and there is no token left to issue
(`OutOfTokens`). After the one refresh that two tokens allow, calls are sent again, served, refused once
more, and logouts resent, and all of that has to end.

In `history` one definition exists and one does not, so a definition can be added before the sensor
is registered (it gets a channel) or after (it does not), and changed in type, key or unit; two edits
reach "disabled and enabled again". The envelopes are two good batches, one with the id of the
second but other contents that fail, one of another device with the id of the first, and one under a
foreign topic. Two items with one message give a batch of which a part is rejected, and
filled in by a second delivery after an edit. A page of one reading puts an insertion between any two;
the times include ties. `MaxTime` 1 with a skew of 1 makes a reading that is too early become
acceptable. A catalogue edit may come between the reads of a registration and its commit.

In `credentials` two passwords are a provisioning and a rotation, and two requests overlap in all ways
(two provisionings of one device, or of two under one uid, a rotation under a revocation); three uids let
a device give up its uid and another take it, which takes two edits. The theorems hold without these bounds.

### Assumptions of single runs

* `NeverReused` is about a browser with one tab open whose refreshes are all answered. A second tab
  keeps the refresh token it read from `localStorage` when it was opened, and a lost answer leaves
  the tab with a used token: in both cases the next refresh is refused, by design of single use.

* `CurrentIsRetained`, `AppliedIsRunning` and `NeverDowngrades` are stated for one synchronization at a time, with no
  earlier publish still on its way (one element in `Syncs`, whose slot is taken until an abandoned
  publish has been delivered or dropped). `sync_retained_older` shows what happens otherwise.
  `DeviceWillKnow` needs no such assumption.
* `ActiveIsNotDisabled` and `HeartbeatsBringOnline` are about a device whose last `set_active` was not overtaken:
  no other one was committed between its SELECT and its own commit. Otherwise two requests and a heartbeat
  in between can leave an active device DISABLED, until the next request.

### Fairness

`ConfigurationSync!Fairness`: paho's loop reconnects for ever, so `DeviceConnect` is weakly fair.
Processing a received snapshot and each step of the worker's loop is strongly fair: connections
and workers may fail again and again (`restart: unless-stopped` brings the worker back), but not
every attempt fails. The device's receipt is fair only with at least one acknowledgement
delivered (`copies >= 1`), the same assumption for that message. Nothing is assumed of users:
`RepublishHeals` has "synchronizations keep succeeding" as a premise.

`DeviceConnectivity!Fairness`: time passes, and each step of the worker's loop is strongly fair for the
same reason. Heartbeats and administrators are not assumed to act.

`BrowserSession!Fairness`: the server's handling of a request is strongly fair, because a row lock
may be taken by others again and again but PostgreSQL grants it in turn; the browser runs its
callbacks. Where a callback sends a request, its fairness is strong, because in the model all
elements of `Requests` may be in use for a while. Users, and losses, are not fair.

### What the violations show

1. `synchronize` decides with statuses read before the publish, so a version that was replaced during
   it is marked PUBLISHED, and one whose acknowledgement waited APPLIED (README.md:252). It does not
   become current again: the flush writes the status only. In the same way an
   acknowledgement that arrives during the publish is lost under PUBLISHED, although README.md:254
   says that a status does not regress; `RepublishHeals` shows the remedy: another
   synchronization, which the device acknowledges again.
2. Nothing orders two synchronizations of one device (README.md:249).
3. `process_heartbeat` can set a device ONLINE that was deactivated after its SELECT; the offline
   scan then skips it because it is inactive.
4. When a refresh is refused, `refreshAccess` drops the tokens, but nothing tells `AuthProvider`: the
   user stays on pages whose calls all fail (README.md:54 says that the frontend logs out). Only
   a session that is being restored (`/auth/me` in `AuthProvider`'s effect) ends on the login page.
5. An open connection keeps the topics of the uid its device had when it connected. When the device is
   renamed and another is given the old uid, the connection may use what are now the other's topics
   (README.md:183), until the client disconnects.

Two more differences are in the models without a run of their own. README.md:313 says that the valid
readings of a batch are stored whatever is wrong with others; an integer that no float can hold raises
`OverflowError` in `_typed_values`, and the whole message is lost (`Overflows`). README.md:163 says that
channels preserve the definition present at registration; they preserve its unit, but their
definition's key and type follow `update_measurement` (`WriteMeasurement`).

## 5. Proofs

`ConfigurationSync_proofs` proves, for any sensors, payloads, concurrent requests, queue lengths and
number of versions:

* `TypeCorrect`: `Spec => []TypeOK`.
* `AlwaysOneCurrent`: `Spec => []OneCurrent`.
* `UpdatesNeverConflict`: the 409 branch of `update_configuration` is unreachable.
* `AppliedOnlyIfAcknowledged`, `PublishedOnlyIfAccepted`: statuses are backed by history.
* `RowsImplementHistory`: `Spec => ImplementsHistory`, by a step-by-step refinement.
* `RetainedReachesDevice`: `Spec => []DeviceWillKnow`, the safety core of `DeviceCatchesUp`, with any number
  of synchronizations.
* `Inductive`: `Spec => []IInv`, from which all but `RetainedReachesDevice` follow.

None of these invariants is inductive alone. `IInv` adds what the requests in flight know:
`EditLocals` (an updating request's `current` is the current row, its `next` the successor of the
highest version, and its loaded status is not ABSENT), `LockHeldOnce` (two updating requests never
have the same sensor), `SyncLocals` and `TxnLocals` (the rows a synchronization or an acknowledgement
is going to write exist, and the loaded status explains what will be written), and `AbsentRows` (a
row that does not exist is `NoRow`). The argument: only `CreateCommit` and `UpdateCommit` insert rows
or touch `is_current`; the other writers change a status of an existing row
(`VersionsKept`); `UpdateCommit` does what its locals say, and they are still true because
every other update of the sensor is excluded by the lock and no other writer changes what they
are about. Each action is first classified (`VersionsKept`, `Inserted`, `Replaced`), and the conjuncts
of `IInv` and the refinement are proved per class. TLC checks `IInv` in `sync_edits`.

`RetainedReachesDevice` needs one more conjunct (`DeliveryIInv`): the versions a retained snapshot names
exist (`RetainedExists`), so that no edit changes their payload and what the device applied stays
applicable. A publish appends to the inbox what it retains, a connection begins with what is retained,
and a received snapshot leaves the last of the inbox where it was.

`SnapshotOrder_proofs` proves `PublishedIsAlwaysRetained` and `DevicesNeverDowngrade` from the assumption
`OneSync` (`Syncs` has at most one element) and a device that acknowledges what it received
(`HonestSpec`); a stray acknowledgement of a version not yet published refutes the first. `OrderIInv` puts
every version on its way in order: what the device runs, the snapshots in its inbox one after the
other, what is acknowledged, what the broker retains (`InboxInOrder`, `AcksArePast`), the snapshot being
published (`SyncAhead`), and the current version (`RetainedIsPast`). Only a synchronization or an
acknowledgement takes a row out of PENDING; the row is current only if its version is at the end of
this order, and then the retained one is too.

`AppliedIsAlwaysRunning` puts the three together. `TruthIInv` says that whatever is on its way to the worker
reports APPLIED only of versions the device can apply (`AcksTruthful`) and that the worker honoured no
others (`HonouredApplies`, which gives `AppliedIsApplicable` for any number of synchronizations); the current version, no longer PENDING, is the
retained one (`CurrentIsRetained`); and a device that has nothing left to receive runs all of it that
it can apply (`DeviceWillKnow`). So what an administrator reads is what the device does, also after
the device was restarted and lost its memory.

`DeviceConnectivity_proofs` proves `ConnectivityTypeCorrect`; `OfflineOnlyIfSilent`, with the invariants that what a
scan found stale stays stale until its commit (`StaleInv`), because no heartbeat is processed
in between, and that a heartbeat in progress for a device that is OFFLINE has loaded OFFLINE
(`LoadedOffline`), so that its ONLINE differs from the loaded value and is written: the worker alone writes
OFFLINE, and what an API request writes is never OFFLINE; and `ActiveNeverDisabled` for any number of requests, with the invariant that as long as a request is not
overtaken its loaded `is_active` is still the stored one and that a stored DISABLED was loaded as
such (`RequestOK`). `OneAtATime` is its corollary: with at most one request at a time (`SingleRequest`) no
request is overtaken, and no device is active and DISABLED.

`RefreshTokens_proofs` proves `TokensTypeCorrect`, `AlwaysOneLiveToken` and `TokensImplementChain`.
`TokensIInv` adds what a request knows once it has a row: the token it presents exists (`Presented`),
a locked token is live (`LockedIsLive`) and locked once (`LockedOnce`), and a chain's first token is
issued (`LoginsIssued`), so that a new login starts a chain that nobody has. Each step is classified
(`Started`, `Locks`, `Unlocks`, `Exchanged`, `Ended`); only three of the classes change rows, and the
lock makes the row they change the one live token of its chain.

`BrowserSession_proofs` proves `BrowserTypeCorrect`, that every step of the composition is a step of the server
or none (`TabsAreClients`), and hence `BrowserImplementsChain`. It needs that a logout
under way has a token to send (`LogoutHasToken`). `TokensNeverReused` is about any number of tabs, of which one is
open at a time: `ReuseIInv` says that each answer has one tab waiting for it (`PromiseIsRefresh`,
`LogoutAwaitsLogout`), that every refresh on the server is the promise of the open tab (`Owned`), so that there
is at most one and only it can rotate; that a browser which waits for none holds no rotated token
(`Unused`), and one that waits presented none and will be given none (`Pending`).

`WaitersAreServed` and `CallsAdvance` are what can be proved of `CallsSettle`: behind everyone who waits is
a request in progress or answered, and each step of a call lowers `Remaining`, which is at most
eight. What is left to fairness is that these requests are answered. `SettleIInv` adds to `ReuseIInv` that the
requests waited for are not idle (`Busy`), and per tab that waiting calls have a promise (`TabSettled`);
the steps of a tab's calls are classified once (`AllMove`, `OneCallSettles`, `FailSettles`).

`TelemetryIngestion_proofs` proves `IngestionCorrect`, `IngestionImplementsLog` and
`IngestionStoresAsConfigured`. `IngestionInv` adds to the types what the worker knows: whatever it loaded
was a fact since it took the message (`Seen`, with the rows it is going to insert), these rows are
rows of the message in hand with different indices (`RowsOfMessage`), and a channel belongs to a
definition that exists (`ChannelsDefined`), whose key is its own (`KeysDiffer`), so that an item
names at most one channel. That is what makes one row per key (`OneRowPerKey`) survive an insert: the
rows of one message cannot conflict with each other, and those that conflict with stored ones are not
inserted.

`IngestionDropsNothing` is the converse of `IngestionStoresAsConfigured`: an item whose sensor, channel, definition and
time were acceptable all along has a row when its message is committed. `SteadyInv` says that what is
in `steady` is true now, that it is also in what the SELECTs loaded (`SensorsLoaded`, `ChannelsLoaded`), and that the
loop has made a row for each item it allows (`RowsMade`). The time of an item is one of these facts:
the clock only moves on, so an item that is not too early stays so.

`ReadingHistory_proofs` extends it. The theorems are `HistoryTypeCorrect`, `HistoryNeverRepeats`,
`HistoryNeverSkips`, `HistoryNewestFirst`, `HistoryImplementsLog`, `HistoryStoredAsConfigured`, `HistoryDropsNothing` and `LatestIsNeverOlder`. `IInv` adds
that the table is finite, that the pages shown were counted (`Counted`), and the invariant of a walk
(`Walk`): every row shown is at the cursor or before it in the order, and every matching row owed that
has not been shown is behind it. Each page is the first rows of what remains, so the cursor moves
down (`CursorMoves`, from `CountPreceding`), and a late row is either behind the cursor, and
will be shown, or before it, and is owed to nobody. That a finite set of rows has a first and a
last one (`Extreme`) is proved by well-founded induction on its subsets.

`MqttCredentials_proofs` proves `CredentialsTypeCorrect`, `AlwaysAcceptedAsConfigured` and
`CredentialsImplementLifecycle`. The invariants add that what the client's authentication relies on was seen
(`ClientSeen`), and that a request that is going to rotate or revoke has a row, and one that
provisions a uid (`RequestsRead`). The refinement goes through because the constraints that `Provision` is guarded by
leave a device's row and the usernames alone (`RowsStay`), and although a request writes only the columns that differ from its loaded row: every mixture of a rotation's and a
revocation's columns leaves either no valid password or the newest one.

Assumptions on constants are `ConstantsAssumption`, `ConnectivityAssumption`, `TokenAssumption`,
`BrowserAssumption`, `CatalogueAssumption`, `IngestionAssumption`, `HistoryAssumption` and
`CredentialAssumption`; TLC evaluates them in the runs. `HistoryAssumption` has the row ids injective (UUIDs
do not collide) and finitely many definitions.

Only model-checked: everything temporal beyond `[]`: `DeviceCatchesUp`, `RepublishHeals`, `OfflineDetected`,
`HeartbeatsBringOnline`, `CallsSettle` (liveness under fairness is out of the prover's reach, as are `ENABLED` and
induction over data). For `DeviceCatchesUp` and `CallsSettle` the theorems above prove that the system never gets
into a state from which fairness could not help.

## 6. Not modelled

The components `PROJECT.json` marks `not_modelled`, each with its reason:

* **Simulator telemetry generation**: one thread without shared state that draws waveforms in floating
  point; `TelemetryIngestion` takes any envelope a device may send.
* **Configuration validation**: two pure functions over JSON, of which the server's is a library's
  interpreter; without the wording of both nothing remains that could differ.
* **Sites** and the **browser's pages**: independent rows, and rendering of the API's state.

Of the parts marked `partly`: the simulated device's timing, the identity and schema of a Sensor Type,
role checks and error rendering of the HTTP layer, payloads that fail their schema and change
nothing, reading the environment, seeding the administrator, moving between schema versions,
and the deployment of broker and containers. Of parts marked `modelled`, names, descriptions and log
messages are left out everywhere, and so is the platform's own MQTT account, whose rights
are constant.

That a message's readings are stored eventually, or a connection ended after a revocation, is no property of
this code: it drops what fails, and the broker is not told.
