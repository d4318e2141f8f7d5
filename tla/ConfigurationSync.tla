------------------------- MODULE ConfigurationSync -------------------------
(***************************************************************************)
(* The desired-configuration protocol of one Device: the API accepts       *)
(* versions of each Sensor's configuration, publishes the current versions *)
(* as one retained MQTT snapshot, and the control worker records what the  *)
(* Device acknowledges.  API requests, broker, Device and control worker   *)
(* run concurrently on the same rows; only update_configuration locks.     *)
(*                                                                         *)
(* Code: services/sensor_service.py (create, update_configuration),        *)
(* services/device_configuration_service.py, mqtt/publisher.py,            *)
(* mqtt/control_plane.py (process_configuration_ack), mqtt/worker.py and   *)
(* the simulator's mqtt_client.py.                                         *)
(*                                                                         *)
(* A configuration row is immutable in its payload, so a snapshot names    *)
(* versions and stands for the payloads of those rows.  published_at and   *)
(* applied_at are not kept.                                                *)
(***************************************************************************)
EXTENDS Naturals, Sequences, FiniteSets, OrmSession

CONSTANTS
    Sensors,          \* the sensors that may be registered on the device
    Configurations,   \* payloads that pass the sensor type's JSON schema
    Supported,        \* those the device can apply ({}: force_config_failure)
    Edits,            \* concurrent API requests that create or edit a sensor
    Syncs,            \* concurrent sync-configuration requests
    MaxVersion,       \* bound on config_version
    MaxInbox,         \* bound on the snapshots on their way to the device
    MaxQueue,         \* bound on the control worker's in-memory queue
    NoConfiguration,  \* the payload of a row that does not exist
    NoSensor          \* the sensor of an idle request

ASSUME ConstantsAssumption ==
    /\ Supported \subseteq Configurations
    /\ NoConfiguration \notin Configurations
    /\ NoSensor \notin Sensors
    /\ MaxVersion \in Nat \ {0}
    /\ MaxInbox \in Nat \ {0}
    /\ MaxQueue \in Nat \ {0}

VARIABLES
    rows,        \* sensor_configurations: [sensor][version] -> row
    edits,       \* locals of the create / update_configuration requests
    syncs,       \* locals of the synchronize requests
    retained,    \* the retained snapshot of the config topic
    connected,   \* the device's MQTT client is connected and subscribed
    inbox,       \* snapshots the broker has sent to the device
    running,     \* DeviceState.sensor_configurations: version per sensor
    acks,        \* the control worker's queue of acknowledgements
    txn,         \* process_configuration_ack in progress
    accepted,    \* history: <<sensor, version>> the broker has accepted
    honoured     \* history: <<sensor, version>> of committed APPLIED results

vars == <<rows, edits, syncs, retained, connected, inbox, running, acks, txn,
          accepted, honoured>>
dbVars == <<rows, edits>>
apiVars == <<edits, syncs>>
deviceVars == <<connected, inbox, running>>
workerVars == <<acks, txn>>
historyVars == <<accepted, honoured>>

Versions == 1..MaxVersion
ConfigurationStatus == {"PENDING", "PUBLISHED", "APPLIED", "FAILED", "SUPERSEDED"}

Row == [status : ConfigurationStatus \cup {"ABSENT"},
        isCurrent : BOOLEAN,
        configuration : Configurations \cup {NoConfiguration}]

NoRow == [status |-> "ABSENT", isCurrent |-> FALSE,
          configuration |-> NoConfiguration]

\* Mutant: a status the enumeration does not have.
NewRowDraft(c) == [status |-> "DRAFT", isCurrent |-> TRUE, configuration |-> c]

\* The row create and update_configuration insert.
NewRow(c) == [status |-> "PENDING", isCurrent |-> TRUE, configuration |-> c]

Exists(s, v) == rows[s][v].status # "ABSENT"
Registered(s) == \E v \in Versions : Exists(s, v)

\* Sensor.current_configuration: the row whose is_current is set.
IsCurrent(s, v) == Exists(s, v) /\ rows[s][v].isCurrent

\* max(item.config_version for item in sensor.configurations) + 1
IsNextVersion(s, n) ==
    /\ \A v \in Versions : Exists(s, v) => v < n
    /\ \E v \in Versions : Exists(s, v) /\ n = v + 1

\* A snapshot gives each sensor in it a version; 0 where it has none.
Snapshot == [Sensors -> 0..MaxVersion]
Nothing == [s \in Sensors |-> 0]
Carries(snapshot, s, v) == v # 0 /\ snapshot[s] = v

\* An acknowledgement is a list of results in any order, of any versions: of
\* two results for one version the list's later one counts.
Results == Sensors \X Versions
Ack == [Results -> {"NONE", "APPLIED", "FAILED"}]
NoResults == [p \in Results |-> "NONE"]
ResultsOf(ack) == {p \in Results : ack[p] # "NONE"}

IdleEdit == [op |-> "idle", sensor |-> NoSensor, current |-> 0,
             status |-> "ABSENT", next |-> 0, configuration |-> NoConfiguration]
Edit == [op : {"idle", "creating", "updating", "conflict"},
         sensor : Sensors \cup {NoSensor},
         current : 0..MaxVersion,
         status : ConfigurationStatus \cup {"ABSENT"},
         next : 0..MaxVersion,
         configuration : Configurations \cup {NoConfiguration}]

\* `status' holds the loaded statuses of the rows `snapshot' names.
IdleSync == [pc |-> "idle", snapshot |-> Nothing,
             status |-> [s \in Sensors |-> "ABSENT"]]
Sync == [pc : {"idle", "publishing", "accepted", "abandoned"},
         snapshot : Snapshot,
         status : [Sensors -> ConfigurationStatus \cup {"ABSENT"}]]

\* `loaded' holds the loaded status of each row the loop has assigned to,
\* `locked' the rows the autoflush has already updated.
NoTxn == [active |-> FALSE, ack |-> NoResults, handled |-> {}, locked |-> {},
          loaded |-> [p \in Results |-> "ABSENT"]]
Txn == [active : BOOLEAN, ack : Ack,
        handled : SUBSET Results, locked : SUBSET Results,
        loaded : [Results -> ConfigurationStatus \cup {"ABSENT"}]]

TypeOK ==
    /\ rows \in [Sensors -> [Versions -> Row]]
    /\ edits \in [Edits -> Edit]
    /\ syncs \in [Syncs -> Sync]
    /\ retained \in Snapshot
    /\ connected \in BOOLEAN
    /\ inbox \in Seq(Snapshot)
    /\ running \in Snapshot
    /\ acks \in Seq(Ack)
    /\ txn \in Txn
    /\ accepted \subseteq Sensors \X Versions
    /\ honoured \subseteq Sensors \X Versions

Init ==
    /\ rows = [s \in Sensors |-> [v \in Versions |-> NoRow]]
    /\ edits = [u \in Edits |-> IdleEdit]
    /\ syncs = [r \in Syncs |-> IdleSync]
    /\ retained = Nothing
    /\ connected = FALSE
    /\ inbox = <<>>
    /\ running = Nothing
    /\ acks = <<>>
    /\ txn = NoTxn
    /\ accepted = {}
    /\ honoured = {}

-----------------------------------------------------------------------------
(* Sensor creation and configuration edits (sensor_service.py)             *)

\* create: the uid is looked up before the rows are inserted.
CreateRead(u, s, c) ==
    /\ edits[u].op \in {"idle", "conflict"}
    /\ ~Registered(s)
    /\ edits' = [edits EXCEPT ![u] =
            [op |-> "creating", sensor |-> s, current |-> 0,
             status |-> "ABSENT", next |-> 1, configuration |-> c]]
    /\ UNCHANGED <<rows, syncs, retained, deviceVars, workerVars, historyVars>>

\* Mutant: no UNIQUE(device_id, sensor_uid) behind the lookup.
CreateCommitUnchecked(u) ==
    /\ edits[u].op = "creating"
    /\ edits' = [edits EXCEPT ![u] = IdleEdit]
    /\ rows' = [rows EXCEPT ![edits[u].sensor][1] = NewRow(edits[u].configuration)]
    /\ UNCHANGED <<syncs, retained, deviceVars, workerVars, historyVars>>

\* INSERT and commit; UNIQUE(device_id, sensor_uid) turns a lost race into 409.
CreateCommit(u) ==
    /\ edits[u].op = "creating"
    /\ LET s == edits[u].sensor IN
        IF Registered(s)
        THEN /\ edits' = [edits EXCEPT ![u] = [IdleEdit EXCEPT !.op = "conflict"]]
             /\ rows' = rows
        ELSE /\ edits' = [edits EXCEPT ![u] = IdleEdit]
             /\ rows' = [rows EXCEPT ![s][1] = NewRow(edits[u].configuration)]
    /\ UNCHANGED <<syncs, retained, deviceVars, workerVars, historyVars>>

\* Mutant: the SELECT without FOR UPDATE.
NeverLocked(s) == FALSE

\* SELECT ... FOR UPDATE on the sensor row excludes other updates of it.
SensorLocked(s) ==
    \E u \in Edits : edits[u].op = "updating" /\ edits[u].sensor = s

UpdateRead(u, s, c) ==
    /\ edits[u].op \in {"idle", "conflict"}
    /\ ~SensorLocked(s)
    /\ \E cur, n \in Versions :
        /\ IsCurrent(s, cur)
        /\ IsNextVersion(s, n)
        /\ edits' = [edits EXCEPT ![u] =
                [op |-> "updating", sensor |-> s, current |-> cur,
                 status |-> rows[s][cur].status, next |-> n,
                 configuration |-> c]]
    /\ UNCHANGED <<rows, syncs, retained, deviceVars, workerVars, historyVars>>

\* Mutant: the loaded row is edited in place as well.
EditedInPlaceRow(e) ==
    [rows[e.sensor][e.current] EXCEPT !.status = "SUPERSEDED", !.isCurrent = FALSE,
                                      !.configuration = e.configuration]

\* The superseded row: the columns the session found dirty, on the stored row.
SupersededRow(e) ==
    LET stored == rows[e.sensor][e.current] IN
    [stored EXCEPT !.status = Flush(@, e.status, "SUPERSEDED"),
                   !.isCurrent = Flush(@, TRUE, FALSE)]

\* UNIQUE(sensor_id, config_version) and the partial unique index on is_current.
VersionConflict(e) ==
    \/ Exists(e.sensor, e.next)
    \/ SupersededRow(e).isCurrent
    \/ \E v \in Versions \ {e.current} : IsCurrent(e.sensor, v)

\* Rows the acknowledgement transaction has updated and not yet committed.
RowLocked(s, v) == txn.active /\ <<s, v>> \in txn.locked

\* Flush the superseded row, insert the next version, commit; or 409.
UpdateCommit(u) ==
    /\ edits[u].op = "updating"
    /\ LET e == edits[u] IN
        /\ ~RowLocked(e.sensor, e.current)
        /\ IF VersionConflict(e)
           THEN /\ edits' = [edits EXCEPT ![u] = [IdleEdit EXCEPT !.op = "conflict"]]
                /\ rows' = rows
           ELSE /\ edits' = [edits EXCEPT ![u] = IdleEdit]
                /\ rows' = [rows EXCEPT
                        ![e.sensor] = [@ EXCEPT
                            ![e.current] = SupersededRow(e),
                            ![e.next] = NewRow(e.configuration)]]
    /\ UNCHANGED <<syncs, retained, deviceVars, workerVars, historyVars>>

\* The payload fails validation, the client goes away or the process dies:
\* the transaction is rolled back.
EditAbort(u) ==
    /\ edits[u].op \in {"creating", "updating"}
    /\ edits' = [edits EXCEPT ![u] = IdleEdit]
    /\ UNCHANGED <<rows, syncs, retained, deviceVars, workerVars, historyVars>>

-----------------------------------------------------------------------------
(* Publishing the snapshot (device_configuration_service.py, publisher.py) *)

CurrentVersion(s) ==
    IF \E v \in Versions : IsCurrent(s, v)
    THEN CHOOSE v \in Versions : IsCurrent(s, v)
    ELSE 0

\* build_snapshot reads the current row of every sensor, without a lock.
SyncRead(r) ==
    /\ syncs[r].pc = "idle"
    /\ \E s \in Sensors : Registered(s)
    /\ syncs' = [syncs EXCEPT ![r] =
            [pc |-> "publishing",
             snapshot |-> [s \in Sensors |-> CurrentVersion(s)],
             status |-> [s \in Sensors |->
                IF CurrentVersion(s) = 0 THEN "ABSENT"
                ELSE rows[s][CurrentVersion(s)].status]]]
    /\ UNCHANGED <<dbVars, retained, deviceVars, workerVars, historyVars>>

\* Mutant: published without the retain flag.
SyncPublishNotRetained(r) ==
    /\ syncs[r].pc # "idle"
    /\ accepted' = accepted \cup
            {p \in Sensors \X Versions : Carries(syncs[r].snapshot, p[1], p[2])}
    /\ inbox' = IF connected THEN <<syncs[r].snapshot>> ELSE inbox
    /\ syncs' = [syncs EXCEPT ![r] = [@ EXCEPT !.pc = "accepted"]]
    /\ UNCHANGED <<dbVars, retained, connected, running, workerVars, honoured>>

\* The broker accepts the PUBLISH: it retains it and sends it to a connected
\* device.  A client that loses its connection before the PUBACK reconnects
\* and publishes again; one that gave up may have left it in the socket.
SyncPublish(r) ==
    /\ syncs[r].pc # "idle"
    /\ retained' = syncs[r].snapshot
    /\ accepted' = accepted \cup
            {p \in Sensors \X Versions : Carries(syncs[r].snapshot, p[1], p[2])}
    /\ IF connected
       THEN /\ Len(inbox) < MaxInbox
            /\ inbox' = Append(inbox, syncs[r].snapshot)
       ELSE inbox' = inbox
    /\ syncs' = [syncs EXCEPT ![r] =
            IF @.pc = "abandoned" THEN IdleSync ELSE [@ EXCEPT !.pc = "accepted"]]
    /\ UNCHANGED <<dbVars, connected, running, workerVars, honoured>>

\* Mutant: the whole loaded row is written back, not its dirty columns.
WholeRow(stored, loaded) == [stored EXCEPT !.status = "PUBLISHED", !.isCurrent = TRUE]

\* Mutant: rows loaded APPLIED are marked too.
AlwaysPublishedRow(stored, loaded) == [stored EXCEPT !.status = "PUBLISHED"]

\* The row as the sync's flush leaves it: PUBLISHED unless it was loaded
\* APPLIED, and nothing written where the loaded status was PUBLISHED.
PublishedRow(stored, loaded) ==
    [stored EXCEPT !.status = Flush(@, loaded,
        IF loaded # "APPLIED" THEN "PUBLISHED" ELSE loaded)]

\* Mutant: committed without waiting for the broker's confirmation.
SyncCommitUnconfirmed(r) ==
    /\ syncs[r].pc = "publishing"
    /\ rows' = [s \in Sensors |-> [v \in Versions |->
            IF Carries(syncs[r].snapshot, s, v)
            THEN PublishedRow(rows[s][v], syncs[r].status[s])
            ELSE rows[s][v]]]
    /\ syncs' = [syncs EXCEPT ![r] = IdleSync]
    /\ UNCHANGED <<edits, retained, deviceVars, workerVars, historyVars>>

\* The PUBACK arrived in time: assign the statuses and commit.
SyncCommit(r) ==
    /\ syncs[r].pc = "accepted"
    /\ \A s \in Sensors, v \in Versions :
        Carries(syncs[r].snapshot, s, v) /\ syncs[r].status[s] # "APPLIED"
            => ~RowLocked(s, v)
    /\ rows' = [s \in Sensors |-> [v \in Versions |->
            IF Carries(syncs[r].snapshot, s, v)
            THEN PublishedRow(rows[s][v], syncs[r].status[s])
            ELSE rows[s][v]]]
    /\ syncs' = [syncs EXCEPT ![r] = IdleSync]
    /\ UNCHANGED <<edits, retained, deviceVars, workerVars, historyVars>>

\* No connection or no PUBACK within five seconds, or the process dies:
\* rollback and 503.  What was sent may still reach the broker.
SyncFail(r) ==
    /\ syncs[r].pc \in {"publishing", "accepted"}
    /\ \E late \in BOOLEAN :
        syncs' = [syncs EXCEPT ![r] =
            IF late THEN [@ EXCEPT !.pc = "abandoned"] ELSE IdleSync]
    /\ UNCHANGED <<dbVars, retained, deviceVars, workerVars, historyVars>>

\* What an abandoned publish left behind is dropped.
SyncForget(r) ==
    /\ syncs[r].pc = "abandoned"
    /\ syncs' = [syncs EXCEPT ![r] = IdleSync]
    /\ UNCHANGED <<dbVars, retained, deviceVars, workerVars, historyVars>>

-----------------------------------------------------------------------------
(* The device (simulator/app/mqtt_client.py, config_manager.py)            *)

\* Mutant: the subscription is not renewed on reconnect.
ConnectWithoutRetained ==
    /\ ~connected
    /\ connected' = TRUE
    /\ inbox' = <<>>
    /\ UNCHANGED <<rows, apiVars, retained, running, workerVars, historyVars>>

\* Subscribing on connect: a clean session gets the retained snapshot, if any.
DeviceConnect ==
    /\ ~connected
    /\ connected' = TRUE
    /\ inbox' = IF retained = Nothing THEN <<>> ELSE <<retained>>
    /\ UNCHANGED <<rows, apiVars, retained, running, workerVars, historyVars>>

\* The connection drops with what was in flight; `restart': the process ends
\* too, and the configuration it kept in memory with it.
DeviceDisconnect(restart) ==
    /\ connected
    /\ connected' = FALSE
    /\ inbox' = <<>>
    /\ running' = IF restart THEN Nothing ELSE running
    /\ UNCHANGED <<rows, apiVars, retained, workerVars, historyVars>>

\* apply_sensor_configuration: an unsupported payload leaves the old one.
Applies(s, v) == rows[s][v].configuration \in Supported

\* Mutant: the old configuration is dropped before the new one is validated.
DroppedVersion(snapshot, s) ==
    IF snapshot[s] # 0
    THEN IF Applies(s, snapshot[s]) THEN snapshot[s] ELSE 0
    ELSE running[s]

AppliedVersion(snapshot, s) ==
    IF snapshot[s] # 0 /\ Applies(s, snapshot[s]) THEN snapshot[s] ELSE running[s]

\* Mutant: everything is reported as applied.
ClaimedAck(snapshot) ==
    [p \in Results |-> IF snapshot[p[1]] = p[2] THEN "APPLIED" ELSE "NONE"]

\* One result for each sensor of the snapshot.
DeviceAck(snapshot) ==
    [p \in Results |->
        IF snapshot[p[1]] # p[2] THEN "NONE"
        ELSE IF Applies(p[1], p[2]) THEN "APPLIED" ELSE "FAILED"]

\* _on_message: apply every sensor of the snapshot, then publish one
\* acknowledgement.  The worker may miss it (down, reconnecting) or get it
\* twice (QoS 1).
DeviceReceive(copies) ==
    /\ connected
    /\ inbox # <<>>
    /\ LET snapshot == Head(inbox) IN
        /\ running' = [s \in Sensors |-> AppliedVersion(snapshot, s)]
        /\ Len(acks) + copies <= MaxQueue
        /\ acks' = acks \o [i \in 1..copies |-> DeviceAck(snapshot)]
    /\ inbox' = Tail(inbox)
    /\ UNCHANGED <<rows, apiVars, retained, connected, txn, historyVars>>

\* Any other acknowledgement the device's credentials allow: another firmware,
\* a replay, versions this platform never issued.
StrayAck(ack) ==
    /\ Len(acks) < MaxQueue
    /\ ResultsOf(ack) # {}
    /\ acks' = Append(acks, ack)
    /\ UNCHANGED <<rows, apiVars, retained, deviceVars, txn, historyVars>>

-----------------------------------------------------------------------------
(* The control worker (mqtt/worker.py, process_configuration_ack)          *)

AckTake ==
    /\ ~txn.active
    /\ acks # <<>>
    /\ txn' = [NoTxn EXCEPT !.active = TRUE, !.ack = Head(acks)]
    /\ acks' = Tail(acks)
    /\ UNCHANGED <<rows, apiVars, retained, deviceVars, historyVars>>

\* The rows the loop has loaded and assigned a new status to.
Assigned == {p \in txn.handled : txn.loaded[p] # "ABSENT"}

\* One iteration: the SELECT flushes what the earlier ones assigned, a stale
\* version is skipped, a current one is assigned to.
AckRead(s, v) ==
    /\ txn.active
    /\ <<s, v>> \in ResultsOf(txn.ack) \ txn.handled
    /\ Exists(s, v)
    /\ txn' = [txn EXCEPT
            !.handled = @ \cup {<<s, v>>},
            !.locked = Assigned,
            !.loaded[<<s, v>>] =
                IF rows[s][v].status = "SUPERSEDED" \/ ~rows[s][v].isCurrent
                THEN "ABSENT" ELSE rows[s][v].status]
    /\ UNCHANGED <<rows, apiVars, retained, deviceVars, acks, historyVars>>

\* Mutant: the whole loaded row is written back.
AckedWholeRow(stored, loaded, result) ==
    [stored EXCEPT !.status = result, !.isCurrent = TRUE]

AckedRow(stored, loaded, result) ==
    [stored EXCEPT !.status = Flush(@, loaded, result)]

\* The rows with every status the loop has assigned.
AckedRows ==
    [s \in Sensors |-> [v \in Versions |->
        IF <<s, v>> \in Assigned
        THEN AckedRow(rows[s][v], txn.loaded[<<s, v>>], txn.ack[<<s, v>>])
        ELSE rows[s][v]]]

\* Mutant: the results flushed before the unknown one are committed.
AckRejectPartly(s, v) ==
    /\ txn.active
    /\ <<s, v>> \in ResultsOf(txn.ack) \ txn.handled
    /\ ~Exists(s, v)
    /\ rows' = AckedRows
    /\ txn' = NoTxn
    /\ UNCHANGED <<apiVars, retained, deviceVars, acks, historyVars>>

\* An unknown sensor or version: InvalidControlMessage, rollback of the message.
AckReject(s, v) ==
    /\ txn.active
    /\ <<s, v>> \in ResultsOf(txn.ack) \ txn.handled
    /\ ~Exists(s, v)
    /\ txn' = NoTxn
    /\ UNCHANGED <<rows, apiVars, retained, deviceVars, acks, historyVars>>

AckCommit ==
    /\ txn.active
    /\ txn.handled = ResultsOf(txn.ack)
    /\ rows' = AckedRows
    /\ honoured' = honoured \cup {p \in Assigned : txn.ack[p] = "APPLIED"}
    /\ txn' = NoTxn
    /\ UNCHANGED <<apiVars, retained, deviceVars, acks, accepted>>

\* The worker dies (a database error is not caught) and is restarted: the
\* queue in memory and the open transaction are gone.
WorkerCrash ==
    /\ acks # <<>> \/ txn.active
    /\ acks' = <<>>
    /\ txn' = NoTxn
    /\ UNCHANGED <<rows, apiVars, retained, deviceVars, historyVars>>

-----------------------------------------------------------------------------

EditNext ==
    \E u \in Edits :
        \/ \E s \in Sensors, c \in Configurations :
            CreateRead(u, s, c) \/ UpdateRead(u, s, c)
        \/ CreateCommit(u)
        \/ UpdateCommit(u)
        \/ EditAbort(u)

SyncNext ==
    \E r \in Syncs :
        \/ SyncRead(r)
        \/ SyncPublish(r)
        \/ SyncCommit(r)
        \/ SyncFail(r)
        \/ SyncForget(r)

DeviceNext ==
    \/ DeviceConnect
    \/ \E restart \in BOOLEAN : DeviceDisconnect(restart)
    \/ \E copies \in 0..2 : DeviceReceive(copies)

WorkerNext ==
    \/ AckTake
    \/ \E s \in Sensors, v \in Versions : AckRead(s, v) \/ AckReject(s, v)
    \/ AckCommit
    \/ WorkerCrash

StrayNext == \E ack \in Ack : StrayAck(ack)

Next == EditNext \/ SyncNext \/ DeviceNext \/ WorkerNext \/ StrayNext

Spec == Init /\ [][Next]_vars

\* The backend alone, against every acknowledgement there can be.
BackendSpec == Init /\ [][EditNext \/ SyncNext \/ WorkerNext \/ StrayNext]_vars

\* The backend and a device that acknowledges only the snapshots it received.
HonestNext == EditNext \/ SyncNext \/ DeviceNext \/ WorkerNext
HonestSpec == Init /\ [][HonestNext]_vars

-----------------------------------------------------------------------------
(* Safety                                                                  *)

(***************************************************************************)
(* A registered sensor has exactly one current version and it is the       *)
(* highest, with no gap below it: update_configuration under its row lock  *)
(* and the column-wise flushes of the two writers without one keep it so.  *)
(***************************************************************************)
OneCurrent ==
    \A s \in Sensors : Registered(s) =>
        \E v \in Versions :
            /\ IsCurrent(s, v)
            /\ \A w \in Versions : (w <= v) = Exists(s, w)
            /\ \A w \in Versions \ {v} : ~rows[s][w].isCurrent

(***************************************************************************)
(* The 409 CONFIGURATION_VERSION_CONFLICT branch of update_configuration   *)
(* cannot be reached: what a request read under SELECT ... FOR UPDATE is   *)
(* still so when it commits, and neither unique index is hit.              *)
(***************************************************************************)
UpdateNeverConflicts ==
    \A u \in Edits : edits[u].op = "updating" => ~VersionConflict(edits[u])

(***************************************************************************)
(* A row says APPLIED only if an acknowledgement all of whose results name *)
(* versions the platform knows reported APPLIED for that sensor and that   *)
(* version: process_configuration_ack matches the version and rolls back   *)
(* the results it has already flushed when a later one is unknown.         *)
(***************************************************************************)
AppliedWasAcknowledged ==
    \A s \in Sensors, v \in Versions :
        rows[s][v].status = "APPLIED" => <<s, v>> \in honoured

(***************************************************************************)
(* A row says PUBLISHED only if the broker accepted a snapshot with that   *)
(* version: synchronize marks exactly the rows of the snapshot it sent,    *)
(* and none of them after a failed publish.                                *)
(***************************************************************************)
PublishedWasAccepted ==
    \A s \in Sensors, v \in Versions :
        rows[s][v].status = "PUBLISHED" => <<s, v>> \in accepted

(***************************************************************************)
(* With one synchronization at a time, the snapshot the broker retains     *)
(* carries the current version of every sensor whose current row says that *)
(* it was published (a device that reconnects gets what the rows claim).   *)
(***************************************************************************)
CurrentIsRetained ==
    \A s \in Sensors, v \in Versions :
        IsCurrent(s, v) /\ rows[s][v].status # "PENDING" => retained[s] = v

(***************************************************************************)
(* A connected device has the retained snapshot on its way to it, after    *)
(* everything else that is, or runs what it can apply of it: clean         *)
(* sessions, the retained flag and a new subscription on each connection   *)
(* leave no moment at which a device could miss the latest snapshot.       *)
(***************************************************************************)
DeviceWillKnow ==
    connected =>
        IF inbox # <<>> THEN inbox[Len(inbox)] = retained
        ELSE \A s \in Sensors, v \in Versions :
                retained[s] = v /\ Applies(s, v) => running[s] = v

(***************************************************************************)
(* With one synchronization at a time, what an administrator reads is what *)
(* the device does: when the current version says APPLIED, a connected     *)
(* device that nothing is on its way to runs it, also after it was         *)
(* restarted.                                                              *)
(***************************************************************************)
AppliedIsRunning ==
    \A s \in Sensors, v \in Versions :
        /\ IsCurrent(s, v) /\ rows[s][v].status = "APPLIED"
        /\ connected /\ inbox = <<>>
        => running[s] = v

(***************************************************************************)
(* With one synchronization at a time, a device goes back to an older      *)
(* version of a sensor's configuration only by restarting, never by what   *)
(* it receives.                                                            *)
(***************************************************************************)
NeverDowngrades ==
    [][connected' => \A s \in Sensors : running'[s] >= running[s]]_running

(***************************************************************************)
(* README: "SUPERSEDED: a newer desired version replaced it."  Every row   *)
(* that a newer one replaced says so.                                      *)
(***************************************************************************)
ReplacedIsSuperseded ==
    \A s \in Sensors, v \in Versions :
        Exists(s, v) /\ ~IsCurrent(s, v) => rows[s][v].status = "SUPERSEDED"

(***************************************************************************)
(* README: "PUBLISHED: the retained snapshot was accepted by EMQX and is   *)
(* awaiting the Device."  The snapshot that awaits the device carries the  *)
(* version whose row says PUBLISHED.                                       *)
(***************************************************************************)
PublishedIsRetained ==
    \A s \in Sensors, v \in Versions :
        IsCurrent(s, v) /\ rows[s][v].status = "PUBLISHED" => retained[s] = v

-----------------------------------------------------------------------------
(* Refinement                                                              *)

(***************************************************************************)
(* The rows implement the versioned register: every accepted edit gets the *)
(* next number, no payload changes afterwards, and the current version is  *)
(* the latest, whatever synchronizations and acknowledgements write.       *)
(***************************************************************************)
History == INSTANCE ConfigurationHistory WITH
    current <- [s \in Sensors |-> CurrentVersion(s)],
    history <- [s \in Sensors |-> [v \in Versions |-> rows[s][v].configuration]]

ImplementsHistory == History!HistorySpec

-----------------------------------------------------------------------------
(* Liveness                                                                *)

(***************************************************************************)
(* paho reconnects for ever and both programs run loops, so a step that    *)
(* stays possible is taken.  Connections and workers may fail again and    *)
(* again: strong fairness says that not every attempt fails.  Nothing is   *)
(* assumed of the API's users.                                             *)
(***************************************************************************)
Fairness ==
    /\ WF_vars(DeviceConnect)
    /\ SF_vars(\E copies \in 1..2 : DeviceReceive(copies))
    /\ SF_vars(AckTake)
    /\ \A s \in Sensors, v \in Versions : SF_vars(AckRead(s, v))
    /\ SF_vars(AckCommit)

FairSpec == HonestSpec /\ Fairness

(***************************************************************************)
(* A device runs the version the broker retains for a sensor, unless the   *)
(* retained snapshot changes or the device cannot apply it: reconnecting   *)
(* and the retained message make up for lost deliveries.                   *)
(***************************************************************************)
DeviceCatchesUp ==
    \A s \in Sensors, v \in Versions :
        (retained[s] = v /\ Applies(s, v))
            ~> (running[s] = v \/ retained[s] # v)

(***************************************************************************)
(* The remedy for every lost or overwritten acknowledgement is to publish  *)
(* again: if users keep synchronizing, the version that stays current ends *)
(* up APPLIED for good.                                                    *)
(***************************************************************************)
RepublishHeals ==
    \A s \in Sensors, v \in Versions :
        /\ <>[](IsCurrent(s, v) /\ Applies(s, v))
        /\ []<><<\E r \in Syncs : SyncCommit(r)>>_vars
        => <>[](rows[s][v].status = "APPLIED")

=============================================================================
