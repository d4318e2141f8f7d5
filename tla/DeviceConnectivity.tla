------------------------- MODULE DeviceConnectivity -------------------------
(***************************************************************************)
(* Whether a Device is active and whether it is ONLINE: the API registers, *)
(* deactivates and reactivates Devices, the control worker turns them      *)
(* ONLINE when it processes a heartbeat and OFFLINE when its periodic scan *)
(* finds that it has not done so for too long.  Nobody locks a row: every  *)
(* writer loads it, decides, and flushes the columns it changed.           *)
(*                                                                         *)
(* Code: services/device_service.py, mqtt/control_plane.py                 *)
(* (process_heartbeat, mark_stale_devices_offline), mqtt/worker.py.        *)
(*                                                                         *)
(* Time is kept as ages, which grow with Tick up to the one that is past   *)
(* the timeout: the code only compares them with it.  Editing a Device's   *)
(* other fields (update) writes neither column and is left out.            *)
(***************************************************************************)
EXTENDS Naturals, Sequences, OrmSession

CONSTANTS
    Devices,     \* the devices that may be registered
    Requests,    \* concurrent PATCH /devices/{id}/status requests
    Timeout,     \* DEVICE_OFFLINE_TIMEOUT_SECONDS, in ticks
    Interval,    \* DEVICE_OFFLINE_CHECK_INTERVAL_SECONDS, in ticks
    MaxQueue,    \* bound on the control worker's in-memory queue
    NoDevice     \* the device of an idle request

ASSUME ConnectivityAssumption ==
    /\ Timeout \in Nat \ {0}
    /\ Interval \in Nat \ {0}
    /\ MaxQueue \in Nat \ {0}
    /\ NoDevice \notin Devices

VARIABLES
    devices,     \* the rows of the table: is_active, status, last_seen_at
    requests,    \* locals of the set_active requests
    queue,       \* the worker's queue: devices whose heartbeat waits
    worker,      \* locals of the worker's loop
    sinceCheck,  \* time since last_offline_check
    overtaken,   \* history: requests since whose SELECT another was committed
    settled      \* history: Devices whose last writer of is_active was not

workerVars == <<queue, worker, sinceCheck>>
history == <<overtaken, settled>>
vars == <<devices, requests, workerVars, history>>

Expired == Timeout + 1
Never == Timeout + 2      \* last_seen_at is NULL
Ages == 0..Never
Older(age, limit) == IF age < limit THEN age + 1 ELSE age

DeviceStatus == {"PROVISIONING", "ONLINE", "OFFLINE", "DISABLED"}
Row == [isActive : BOOLEAN, status : DeviceStatus \cup {"ABSENT"}, lastSeen : Ages]
NoRow == [isActive |-> FALSE, status |-> "ABSENT", lastSeen |-> Never]
Registered(d) == devices[d].status # "ABSENT"

IdleRequest == [device |-> NoDevice, target |-> FALSE,
                isActive |-> FALSE, status |-> "ABSENT"]
Request == [device : Devices \cup {NoDevice}, target : BOOLEAN,
            isActive : BOOLEAN, status : DeviceStatus \cup {"ABSENT"}]

\* `pc' is the place in the loop; `loaded' and `lastSeen' belong to the
\* heartbeat being processed, `stale' to the scan.
AtGet == [pc |-> "get", device |-> NoDevice, loaded |-> "ABSENT",
          lastSeen |-> Never, stale |-> {}]
AtCheck == [AtGet EXCEPT !.pc = "check"]
Worker == [pc : {"get", "heartbeat", "check", "scan"},
           device : Devices \cup {NoDevice},
           loaded : DeviceStatus \cup {"ABSENT"},
           lastSeen : Ages, stale : SUBSET Devices]

TypeOK ==
    /\ devices \in [Devices -> Row]
    /\ requests \in [Requests -> Request]
    /\ \A q \in Requests : requests[q] # IdleRequest => requests[q].device \in Devices
    /\ queue \in Seq(Devices)
    /\ worker \in Worker
    /\ sinceCheck \in 0..Interval
    /\ overtaken \subseteq Requests
    /\ settled \subseteq Devices

Init ==
    /\ devices = [d \in Devices |-> NoRow]
    /\ requests = [q \in Requests |-> IdleRequest]
    /\ queue = <<>>
    /\ worker = AtGet
    /\ sinceCheck = Interval
    /\ overtaken = {}
    /\ settled = {}

-----------------------------------------------------------------------------
(* The API (device_service.py)                                             *)

\* create; a lost race for the uid is a 409 and changes nothing.
Register(d) ==
    /\ ~Registered(d)
    /\ devices' = [devices EXCEPT ![d] =
            [isActive |-> TRUE, status |-> "PROVISIONING", lastSeen |-> Never]]
    /\ settled' = settled \cup {d}
    /\ UNCHANGED <<requests, workerVars, overtaken>>

SetActiveRead(q, d, target) ==
    /\ requests[q] = IdleRequest
    /\ Registered(d)
    /\ requests' = [requests EXCEPT ![q] =
            [device |-> d, target |-> target,
             isActive |-> devices[d].isActive, status |-> devices[d].status]]
    /\ UNCHANGED <<devices, workerVars, history>>

\* Mutant: activation leaves the status as it was.
DisabledOnly(request) == IF request.target THEN request.status ELSE "DISABLED"

\* Mutant: a status the enumeration does not have.
InactiveStatus(request) == IF request.target THEN "PROVISIONING" ELSE "INACTIVE"

TargetStatus(request) == IF request.target THEN "PROVISIONING" ELSE "DISABLED"

SwitchedRow(row, request) ==
    [row EXCEPT !.isActive = Flush(@, request.isActive, request.target),
                !.status = Flush(@, request.status, TargetStatus(request))]

\* The other requests for the same Device.
Others(q) == {p \in Requests \ {q} : requests[p].device = requests[q].device}

SetActiveCommit(q) ==
    /\ requests[q] # IdleRequest
    /\ LET r == requests[q] IN
        /\ devices' = [devices EXCEPT ![r.device] = SwitchedRow(devices[r.device], r)]
        /\ overtaken' = (overtaken \cup Others(q)) \ {q}
        /\ settled' = IF q \in overtaken THEN settled \ {r.device}
                                        ELSE settled \cup {r.device}
    /\ requests' = [requests EXCEPT ![q] = IdleRequest]
    /\ UNCHANGED workerVars

\* The client goes away or the process dies before the commit.
SetActiveAbort(q) ==
    /\ requests[q] # IdleRequest
    /\ requests' = [requests EXCEPT ![q] = IdleRequest]
    /\ overtaken' = overtaken \ {q}
    /\ UNCHANGED <<devices, workerVars, settled>>

-----------------------------------------------------------------------------
(* The control worker (mqtt/worker.py, mqtt/control_plane.py)              *)

\* on_message, in paho's thread.
HeartbeatArrive(d) ==
    /\ Len(queue) < MaxQueue
    /\ queue' = Append(queue, d)
    /\ UNCHANGED <<devices, requests, worker, sinceCheck, history>>

\* process_heartbeat up to its assignments; a rejected one ends there.
HeartbeatRead(d) ==
    /\ worker.pc = "get"
    /\ queue # <<>>
    /\ d = Head(queue)
    /\ queue' = Tail(queue)
    /\ worker' =
        IF Registered(d) /\ devices[d].isActive /\ devices[d].status # "DISABLED"
        THEN [pc |-> "heartbeat", device |-> d, loaded |-> devices[d].status,
              lastSeen |-> 0, stale |-> {}]
        ELSE AtCheck
    /\ UNCHANGED <<devices, requests, sinceCheck, history>>

\* Mutant: only a status that is not OFFLINE is set.
SeenRowOnce(row, heartbeat) ==
    [row EXCEPT !.lastSeen = heartbeat.lastSeen,
                !.status = Flush(@, heartbeat.loaded,
                    IF heartbeat.loaded = "OFFLINE" THEN "OFFLINE" ELSE "ONLINE")]

SeenRow(row, heartbeat) ==
    [row EXCEPT !.lastSeen = heartbeat.lastSeen,
                !.status = Flush(@, heartbeat.loaded, "ONLINE")]

HeartbeatCommit(d) ==
    /\ worker.pc = "heartbeat"
    /\ worker.device = d
    /\ devices' = [devices EXCEPT ![d] = SeenRow(devices[d], worker)]
    /\ worker' = AtCheck
    /\ UNCHANGED <<requests, queue, sinceCheck, history>>

\* messages.get(timeout=1) raises queue.Empty.
QueueEmpty ==
    /\ worker.pc = "get"
    /\ queue = <<>>
    /\ worker' = AtCheck
    /\ UNCHANGED <<devices, requests, queue, sinceCheck, history>>

CheckNotDue ==
    /\ worker.pc = "check"
    /\ sinceCheck < Interval
    /\ worker' = AtGet
    /\ UNCHANGED <<devices, requests, queue, sinceCheck, history>>

\* Mutant: every ONLINE device that is active counts as stale.
EveryOnline ==
    {d \in Devices : devices[d].status = "ONLINE" /\ devices[d].isActive}

Stale ==
    {d \in Devices :
        /\ devices[d].status = "ONLINE"
        /\ devices[d].isActive
        /\ devices[d].lastSeen = Expired}

ScanRead ==
    /\ worker.pc = "check"
    /\ sinceCheck = Interval
    /\ IF Stale = {}
       THEN worker' = AtGet /\ sinceCheck' = 0
       ELSE worker' = [AtGet EXCEPT !.pc = "scan", !.stale = Stale]
            /\ sinceCheck' = sinceCheck
    /\ UNCHANGED <<devices, requests, queue, history>>

\* Mutant: the transaction is not committed.
ScanNotCommitted ==
    /\ worker.pc = "scan"
    /\ worker' = AtGet
    /\ sinceCheck' = 0
    /\ UNCHANGED <<devices, requests, queue, history>>

ScanCommit ==
    /\ worker.pc = "scan"
    /\ devices' = [d \in Devices |->
            IF d \in worker.stale
            THEN [devices[d] EXCEPT !.status = Flush(@, "ONLINE", "OFFLINE")]
            ELSE devices[d]]
    /\ worker' = AtGet
    /\ sinceCheck' = 0
    /\ UNCHANGED <<requests, queue, history>>

\* A database error is not caught: the process ends, is restarted and checks
\* at once; the queue and the open transaction are gone.
WorkerCrash ==
    /\ queue' = <<>>
    /\ worker' = AtGet
    /\ sinceCheck' = Interval
    /\ UNCHANGED <<devices, requests, history>>

-----------------------------------------------------------------------------

Tick ==
    /\ devices' = [d \in Devices |->
            [devices[d] EXCEPT !.lastSeen = Older(@, Expired)]]
    /\ worker' = [worker EXCEPT !.lastSeen = Older(@, Expired)]
    /\ sinceCheck' = Older(sinceCheck, Interval)
    /\ UNCHANGED <<requests, queue, history>>

ApiNext ==
    \/ \E d \in Devices : Register(d)
    \/ \E q \in Requests :
        \/ \E d \in Devices, target \in BOOLEAN : SetActiveRead(q, d, target)
        \/ SetActiveCommit(q)
        \/ SetActiveAbort(q)

WorkerNext ==
    \/ \E d \in Devices :
        HeartbeatArrive(d) \/ HeartbeatRead(d) \/ HeartbeatCommit(d)
    \/ QueueEmpty
    \/ CheckNotDue
    \/ ScanRead
    \/ ScanCommit
    \/ WorkerCrash

Next == ApiNext \/ WorkerNext \/ Tick

Spec == Init /\ [][Next]_vars

\* Docker restarts the worker for as long as it fails, and not every attempt
\* fails; time passes.  Nothing is assumed of devices and administrators.
Fairness ==
    /\ WF_vars(Tick)
    /\ \A d \in Devices : SF_vars(HeartbeatRead(d)) /\ SF_vars(HeartbeatCommit(d))
    /\ SF_vars(QueueEmpty)
    /\ SF_vars(CheckNotDue)
    /\ SF_vars(ScanRead)
    /\ SF_vars(ScanCommit)

FairSpec == Spec /\ Fairness

-----------------------------------------------------------------------------

(***************************************************************************)
(* A Device is OFFLINE only while no heartbeat of it has been processed    *)
(* for the whole timeout: nothing is processed between the scan's SELECT   *)
(* and its commit, so the scan decides on nothing that has changed, and    *)
(* the heartbeat that ends the silence always finds the OFFLINE it has to  *)
(* replace, whatever the API writes to the row meanwhile.                  *)
(***************************************************************************)
OfflineMeansSilent ==
    \A d \in Devices : devices[d].status = "OFFLINE" => devices[d].lastSeen = Expired

(***************************************************************************)
(* However many set_active requests overlap: when the last to be committed *)
(* read its row after all others had been, an active Device is not         *)
(* DISABLED, where process_heartbeat would reject it for good, whatever    *)
(* the worker writes to the row in between and whatever was left before.   *)
(***************************************************************************)
ActiveIsNotDisabled ==
    \A d \in settled : devices[d].isActive => devices[d].status # "DISABLED"

(***************************************************************************)
(* test_mqtt.py: "test_disabled_device_is_not_changed_by_offline_detection"*)
(* and the rejection of an inactive Device's heartbeats: a deactivated     *)
(* Device stays DISABLED.                                                  *)
(***************************************************************************)
InactiveIsDisabled ==
    \A d \in Devices :
        Registered(d) /\ ~devices[d].isActive => devices[d].status = "DISABLED"

\* No heartbeat of the device is waiting or being processed.
Silent(d) ==
    /\ \A i \in 1..Len(queue) : queue[i] # d
    /\ worker.device # d

(***************************************************************************)
(* An active Device whose heartbeats stop does not stay ONLINE, however    *)
(* often the worker dies.                                                  *)
(***************************************************************************)
OfflineDetected ==
    \A d \in Devices :
        <>[]Silent(d) => <>[](devices[d].isActive => devices[d].status # "ONLINE")

(***************************************************************************)
(* A Device that ends up active by a request no other overtook, with no    *)
(* request in flight, and whose heartbeats the worker keeps processing is  *)
(* ONLINE again and again, whatever it was before.                         *)
(***************************************************************************)
HeartbeatsBringOnline ==
    \A d \in Devices :
        /\ <>[]/\ devices[d].isActive /\ d \in settled
               /\ \A q \in Requests : requests[q] = IdleRequest
        /\ []<><<HeartbeatRead(d)>>_vars
        => []<>(devices[d].status = "ONLINE")

=============================================================================
