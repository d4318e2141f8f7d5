---------------------- MODULE DeviceConnectivity_proofs ----------------------
(***************************************************************************)
(* Proofs about DeviceConnectivity for every set of devices and requests   *)
(* and every timeout.                                                      *)
(***************************************************************************)
EXTENDS DeviceConnectivity, TLAPS

USE ConnectivityAssumption

LEMMA OlderInAges ==
    ASSUME NEW age \in Ages
    PROVE  /\ Older(age, Expired) \in Ages
           /\ age = Expired => Older(age, Expired) = Expired
  BY DEF Older, Ages, Expired, Never

\* What set_active writes to a row.
LEMMA SwitchedRowFields ==
    ASSUME NEW row \in Row, NEW r \in Request
    PROVE  /\ SwitchedRow(row, r) \in Row
           /\ SwitchedRow(row, r).isActive = Flush(row.isActive, r.isActive, r.target)
           /\ SwitchedRow(row, r).status = Flush(row.status, r.status, TargetStatus(r))
           /\ SwitchedRow(row, r).lastSeen = row.lastSeen
<1> DEFINE active == Flush(row.isActive, r.isActive, r.target)
           status == Flush(row.status, r.status, TargetStatus(r))
<1>1. active \in BOOLEAN
  BY DEF Flush, Row, Request
<1>2. status \in DeviceStatus \cup {"ABSENT"}
  BY DEF Flush, TargetStatus, Row, DeviceStatus
<1>3. SwitchedRow(row, r) = [row EXCEPT !.isActive = active, !.status = status]
  BY DEF SwitchedRow, Row
<1> HIDE DEF active, status
<1>4. /\ SwitchedRow(row, r) \in Row
      /\ SwitchedRow(row, r).isActive = active
      /\ SwitchedRow(row, r).status = status
      /\ SwitchedRow(row, r).lastSeen = row.lastSeen
  BY <1>1, <1>2, <1>3 DEF Row
<1> QED
  BY <1>4 DEF active, status

\* What a heartbeat writes to a row.
LEMMA SeenRowFields ==
    ASSUME NEW row \in Row, NEW w \in Worker
    PROVE  /\ SeenRow(row, w) \in Row
           /\ SeenRow(row, w).isActive = row.isActive
           /\ SeenRow(row, w).status \in {row.status, "ONLINE"}
           /\ SeenRow(row, w).status = Flush(row.status, w.loaded, "ONLINE")
           /\ SeenRow(row, w).lastSeen = w.lastSeen
<1> DEFINE status == Flush(row.status, w.loaded, "ONLINE")
<1>1. status \in DeviceStatus \cup {"ABSENT"} /\ status \in {row.status, "ONLINE"}
  BY DEF Flush, Row, DeviceStatus
<1>2. SeenRow(row, w) = [row EXCEPT !.lastSeen = w.lastSeen, !.status = status]
  BY DEF SeenRow, Row
<1>3. w.lastSeen \in Ages
  BY DEF Worker
<1> HIDE DEF status
<1>4. /\ SeenRow(row, w) \in Row
      /\ SeenRow(row, w).isActive = row.isActive
      /\ SeenRow(row, w).status = status
      /\ SeenRow(row, w).lastSeen = w.lastSeen
  BY <1>1, <1>2, <1>3 DEF Row
<1> QED
  BY <1>1, <1>4 DEF status

LEMMA ConnectivityTypeInit == Init => TypeOK
<1> SUFFICES ASSUME Init PROVE TypeOK
  OBVIOUS
<1>1. NoRow \in Row /\ IdleRequest \in Request
  BY DEF NoRow, Row, Ages, Never, IdleRequest, Request
<1>2. AtGet \in Worker
  BY DEF AtGet, Worker, Ages, Never
<1> QED
  BY <1>1, <1>2 DEF Init, TypeOK

LEMMA ConnectivityTypeApi ==
    ASSUME TypeOK, ApiNext
    PROVE  TypeOK'
<1>0. IdleRequest \in Request
  BY DEF IdleRequest, Request
<1>1. ASSUME NEW d \in Devices, Register(d)
      PROVE  TypeOK'
  <2>1. [isActive |-> TRUE, status |-> "PROVISIONING", lastSeen |-> Never] \in Row
    BY DEF Row, DeviceStatus, Ages, Never
  <2>2. devices' \in [Devices -> Row]
    BY <1>1, <2>1 DEF Register, TypeOK
  <2> QED
    BY <1>1, <2>2 DEF Register, TypeOK, workerVars
<1>2. ASSUME NEW q \in Requests, NEW d \in Devices, NEW target \in BOOLEAN,
             SetActiveRead(q, d, target)
      PROVE  TypeOK'
  <2>1. [device |-> d, target |-> target, isActive |-> devices[d].isActive,
         status |-> devices[d].status] \in Request
    BY DEF TypeOK, Row, Request
  <2>2. requests' \in [Requests -> Request]
    BY <1>2, <2>1 DEF SetActiveRead, TypeOK
  <2> QED
    BY <1>2, <2>2 DEF SetActiveRead, TypeOK, workerVars, history
<1>3. ASSUME NEW q \in Requests, SetActiveCommit(q)
      PROVE  TypeOK'
  <2> DEFINE r == requests[q]
  <2>1. r \in Request
    BY DEF TypeOK
  <2>2. r.device \in Devices => SwitchedRow(devices[r.device], r) \in Row
    BY <2>1, SwitchedRowFields DEF TypeOK
  <2>3. devices' = [devices EXCEPT ![r.device] = SwitchedRow(devices[r.device], r)]
    BY <1>3 DEF SetActiveCommit
  <2>4. devices' \in [Devices -> Row]
    BY <2>2, <2>3 DEF TypeOK
  <2>5. overtaken' \subseteq Requests
    BY <1>3 DEF SetActiveCommit, TypeOK, Others
  <2>6. settled' \subseteq Devices
    BY <1>3 DEF SetActiveCommit, TypeOK
  <2> QED
    BY <1>0, <1>3, <2>4, <2>5, <2>6 DEF SetActiveCommit, TypeOK, workerVars
<1>4. ASSUME NEW q \in Requests, SetActiveAbort(q)
      PROVE  TypeOK'
  BY <1>0, <1>4 DEF SetActiveAbort, TypeOK, workerVars
<1> QED
  BY <1>1, <1>2, <1>3, <1>4 DEF ApiNext

LEMMA ConnectivityTypeWorker ==
    ASSUME TypeOK, WorkerNext \/ Tick
    PROVE  TypeOK'
<1>0. AtGet \in Worker /\ AtCheck \in Worker
  BY DEF AtGet, AtCheck, Worker, Ages, Never
<1>1. ASSUME NEW d \in Devices, HeartbeatArrive(d)
      PROVE  TypeOK'
  <2>1. queue' \in Seq(Devices)
    BY <1>1 DEF HeartbeatArrive, TypeOK, history
  <2> QED
    BY <1>1, <2>1 DEF HeartbeatArrive, TypeOK, history
<1>2. ASSUME NEW d \in Devices, HeartbeatRead(d)
      PROVE  TypeOK'
  <2>1. queue' \in Seq(Devices)
    BY <1>2 DEF HeartbeatRead, TypeOK, history
  <2>2. [pc |-> "heartbeat", device |-> d, loaded |-> devices[d].status,
         lastSeen |-> 0, stale |-> {}] \in Worker
    BY DEF TypeOK, Row, Worker, Ages, Never
  <2>3. worker' \in Worker
    BY <1>0, <1>2, <2>2 DEF HeartbeatRead
  <2> QED
    BY <1>2, <2>1, <2>3 DEF HeartbeatRead, TypeOK, history
<1>3. ASSUME NEW d \in Devices, HeartbeatCommit(d)
      PROVE  TypeOK'
  <2>3. SeenRow(devices[d], worker) \in Row
    BY SeenRowFields DEF TypeOK
  <2>4. devices' = [devices EXCEPT ![d] = SeenRow(devices[d], worker)]
    BY <1>3 DEF HeartbeatCommit
  <2>5. devices' \in [Devices -> Row]
    BY <2>3, <2>4 DEF TypeOK
  <2> QED
    BY <1>0, <1>3, <2>5 DEF HeartbeatCommit, TypeOK, history
<1>4. CASE QueueEmpty \/ CheckNotDue
  BY <1>0, <1>4 DEF QueueEmpty, CheckNotDue, TypeOK, history
<1>5. CASE ScanRead
  <2>1. worker' \in Worker /\ sinceCheck' \in 0..Interval
    <3>1. CASE Stale = {}
      BY <1>0, <1>5, <3>1 DEF ScanRead
    <3>2. CASE Stale # {}
      <4>1. Stale \subseteq Devices
        BY DEF Stale
      <4>2. worker' = [AtGet EXCEPT !.pc = "scan", !.stale = Stale]
        BY <1>5, <3>2 DEF ScanRead
      <4> QED
        BY <1>0, <1>5, <3>2, <4>1, <4>2 DEF ScanRead, TypeOK, Worker
    <3> QED
      BY <3>1, <3>2
  <2> QED
    BY <1>5, <2>1 DEF ScanRead, TypeOK, history
<1>6. CASE ScanCommit
  <2>1. ASSUME NEW d \in Devices
        PROVE  [devices[d] EXCEPT !.status = Flush(@, "ONLINE", "OFFLINE")] \in Row
    BY DEF TypeOK, Row, Flush, DeviceStatus
  <2>2. devices' \in [Devices -> Row]
    BY <1>6, <2>1 DEF ScanCommit, TypeOK, history
  <2> QED
    BY <1>0, <1>6, <2>2 DEF ScanCommit, TypeOK, history
<1>7. CASE WorkerCrash
  <2>1. queue' \in Seq(Devices)
    BY <1>7 DEF WorkerCrash
  <2> QED
    BY <1>0, <1>7, <2>1 DEF WorkerCrash, TypeOK, history
<1>8. CASE Tick
  <2>1. ASSUME NEW d \in Devices
        PROVE  [devices[d] EXCEPT !.lastSeen = Older(@, Expired)] \in Row
    <3>1. devices[d] \in Row
      BY DEF TypeOK
    <3>2. Older(devices[d].lastSeen, Expired) \in Ages
      BY <3>1, OlderInAges DEF Row
    <3> QED
      BY <3>1, <3>2 DEF Row
  <2>2. devices' \in [Devices -> Row]
    BY <1>8, <2>1 DEF Tick, TypeOK, history
  <2>3. worker' \in Worker
    <3>1. Older(worker.lastSeen, Expired) \in Ages
      BY OlderInAges DEF TypeOK, Worker
    <3> QED
      BY <1>8, <3>1 DEF Tick, TypeOK, Worker
  <2>4. sinceCheck' \in 0..Interval
    BY <1>8 DEF Tick, TypeOK, Older
  <2> QED
    BY <1>8, <2>2, <2>3, <2>4 DEF Tick, TypeOK, history
<1> QED
  BY <1>1, <1>2, <1>3, <1>4, <1>5, <1>6, <1>7, <1>8 DEF WorkerNext

LEMMA ConnectivityTypeNext == TypeOK /\ [Next]_vars => TypeOK'
<1> SUFFICES ASSUME TypeOK, [Next]_vars PROVE TypeOK'
  OBVIOUS
<1>1. CASE UNCHANGED vars
  BY <1>1 DEF TypeOK, vars, workerVars, history
<1> QED
  BY <1>1, ConnectivityTypeApi, ConnectivityTypeWorker DEF Next

(***************************************************************************)
(* In every behaviour the variables keep the types TypeOK gives them.      *)
(***************************************************************************)
THEOREM ConnectivityTypeCorrect == Spec => []TypeOK
  BY ConnectivityTypeInit, ConnectivityTypeNext, PTL DEF Spec

-----------------------------------------------------------------------------
(***************************************************************************)
(* The worker is one thread: between a scan's SELECT and its commit no     *)
(* last_seen_at is renewed, so the devices it found stale are still so.    *)
(***************************************************************************)
StaleIsExpired ==
    \A d \in worker.stale : Registered(d) /\ devices[d].lastSeen = Expired
StaleInScan == worker.pc # "scan" => worker.stale = {}

StaleInv == TypeOK /\ StaleIsExpired /\ StaleInScan

LEMMA StaleInit == Init => StaleInv
  BY ConnectivityTypeInit DEF Init, StaleInv, StaleIsExpired, StaleInScan, AtGet

LEMMA StaleNext == StaleInv /\ [Next]_vars => StaleInv'
<1> SUFFICES ASSUME StaleInv, [Next]_vars PROVE StaleInv'
  OBVIOUS
<1>0. TypeOK' /\ TypeOK
  BY ConnectivityTypeNext DEF StaleInv
<1>a. ASSUME worker'.stale = {}
      PROVE  StaleInv'
  BY <1>0, <1>a DEF StaleInv, StaleIsExpired, StaleInScan
<1>b. AtGet.stale = {} /\ AtCheck.stale = {}
  BY DEF AtGet, AtCheck
<1>c. ASSUME worker'.stale = worker.stale, worker'.pc = worker.pc,
             \A d \in worker.stale :
                Registered(d) /\ devices[d].lastSeen = Expired =>
                    Registered(d)' /\ devices'[d].lastSeen = Expired
      PROVE  StaleInv'
  BY <1>0, <1>c DEF StaleInv, StaleIsExpired, StaleInScan
<1>d. worker.stale \subseteq Devices
  BY <1>0 DEF TypeOK, Worker
<1>1. ASSUME NEW d \in Devices, Register(d)
      PROVE  StaleInv'
  BY <1>0, <1>1, <1>c, <1>d DEF Register, workerVars, TypeOK, Registered
<1>2. ASSUME NEW q \in Requests, SetActiveCommit(q)
      PROVE  StaleInv'
  <2> DEFINE r == requests[q]
  <2>0. r \in Request
    BY <1>0 DEF TypeOK
  <2>1. devices' = [devices EXCEPT ![r.device] = SwitchedRow(devices[r.device], r)]
    BY <1>2 DEF SetActiveCommit
  <2>2. ASSUME NEW d \in worker.stale, Registered(d), devices[d].lastSeen = Expired
        PROVE  Registered(d)' /\ devices'[d].lastSeen = Expired
    <3>1. d \in Devices /\ devices[d] \in Row
      BY <1>0, <1>d DEF TypeOK
    <3>2. CASE d = r.device
      <4>1. devices'[d] = SwitchedRow(devices[d], r)
        BY <1>0, <2>1, <3>1, <3>2 DEF TypeOK
      <4>2. /\ devices'[d].status = Flush(devices[d].status, r.status, TargetStatus(r))
            /\ devices'[d].lastSeen = devices[d].lastSeen
        BY <2>0, <3>1, <4>1, SwitchedRowFields
      <4> QED
        BY <2>2, <4>2 DEF Registered, Flush, TargetStatus
    <3>3. CASE d # r.device
      BY <1>0, <2>1, <2>2, <3>1, <3>3 DEF TypeOK, Registered
    <3> QED
      BY <3>2, <3>3
  <2> QED
    BY <1>2, <1>c, <2>2 DEF SetActiveCommit, workerVars
<1>3. CASE ApiNext
  BY <1>1, <1>2, <1>3, <1>c
  DEF ApiNext, SetActiveRead, SetActiveAbort, workerVars, Registered
<1>4. ASSUME NEW d \in Devices, HeartbeatArrive(d)
      PROVE  StaleInv'
  BY <1>4, <1>c DEF HeartbeatArrive, Registered
<1>5. ASSUME NEW d \in Devices, HeartbeatRead(d) \/ HeartbeatCommit(d)
      PROVE  StaleInv'
  BY <1>5, <1>a, <1>b DEF HeartbeatRead, HeartbeatCommit
<1>6. ASSUME QueueEmpty \/ CheckNotDue \/ ScanCommit \/ WorkerCrash
      PROVE  StaleInv'
  BY <1>6, <1>a, <1>b DEF QueueEmpty, CheckNotDue, ScanCommit, WorkerCrash
<1>7. ASSUME ScanRead
      PROVE  StaleInv'
  <2>1. CASE Stale = {}
    BY <1>7, <1>a, <1>b, <2>1 DEF ScanRead
  <2>2. CASE Stale # {}
    <3>1. worker' = [AtGet EXCEPT !.pc = "scan", !.stale = Stale] /\ devices' = devices
      BY <1>7, <2>2 DEF ScanRead
    <3>2. worker'.pc = "scan" /\ worker'.stale = Stale
      BY <3>1 DEF AtGet
    <3> QED
      BY <1>0, <3>1, <3>2 DEF StaleInv, StaleIsExpired, StaleInScan, Stale, Registered
  <2> QED
    BY <2>1, <2>2
<1>8. ASSUME Tick
      PROVE  StaleInv'
  <2>1. worker'.stale = worker.stale /\ worker'.pc = worker.pc
    BY <1>0, <1>8 DEF Tick, TypeOK, Worker
  <2>2. ASSUME NEW d \in worker.stale, Registered(d), devices[d].lastSeen = Expired
        PROVE  Registered(d)' /\ devices'[d].lastSeen = Expired
    <3>1. d \in Devices /\ devices[d] \in Row
      BY <1>0, <1>d DEF TypeOK
    <3>2. devices'[d] = [devices[d] EXCEPT !.lastSeen = Older(Expired, Expired)]
      BY <1>8, <2>2, <3>1 DEF Tick
    <3>3. Older(Expired, Expired) = Expired
      BY DEF Older, Expired
    <3>4. devices'[d].lastSeen = Expired /\ devices'[d].status = devices[d].status
      BY <3>1, <3>2, <3>3 DEF Row
    <3> QED
      BY <2>2, <3>4 DEF Registered
  <2> QED
    BY <1>c, <2>1, <2>2
<1>9. ASSUME UNCHANGED vars
      PROVE  StaleInv'
  BY <1>9, <1>c DEF vars, workerVars, Registered
<1> QED
  BY <1>3, <1>4, <1>5, <1>6, <1>7, <1>8, <1>9 DEF Next, WorkerNext

\* A heartbeat that will be written to an OFFLINE row has read OFFLINE.
LoadedOffline ==
    worker.pc = "heartbeat" /\ devices[worker.device].status = "OFFLINE"
        => worker.loaded = "OFFLINE"
HeartbeatHasDevice == worker.pc = "heartbeat" => worker.device \in Devices

OfflineInv == StaleInv /\ HeartbeatHasDevice /\ LoadedOffline /\ OfflineMeansSilent

\* A row stays as it is for OfflineInv: it is not made OFFLINE, nor seen anew.
Calm(old, new) ==
    new.status = "OFFLINE" => old.status = "OFFLINE" /\ (old.lastSeen = Expired
                                                          => new.lastSeen = Expired)

LEMMA OfflineInit == Init => OfflineInv
  BY StaleInit
  DEF Init, OfflineInv, HeartbeatHasDevice, LoadedOffline, OfflineMeansSilent, AtGet, NoRow

LEMMA ApiIsCalm ==
    ASSUME TypeOK, ApiNext, NEW d \in Devices
    PROVE  Calm(devices[d], devices'[d])
<1>0. devices[d] \in Row
  BY DEF TypeOK
<1>1. ASSUME NEW x \in Devices, Register(x)
      PROVE  Calm(devices[d], devices'[d])
  BY <1>0, <1>1 DEF Register, TypeOK, Calm
<1>2. ASSUME NEW q \in Requests, SetActiveCommit(q)
      PROVE  Calm(devices[d], devices'[d])
  <2> DEFINE r == requests[q]
  <2>0. r \in Request
    BY DEF TypeOK
  <2>1. devices' = [devices EXCEPT ![r.device] = SwitchedRow(devices[r.device], r)]
    BY <1>2 DEF SetActiveCommit
  <2>2. CASE d = r.device
    <3>1. devices'[d] = SwitchedRow(devices[d], r)
      BY <2>1, <2>2 DEF TypeOK
    <3>2. /\ devices'[d].status = Flush(devices[d].status, r.status, TargetStatus(r))
          /\ devices'[d].lastSeen = devices[d].lastSeen
      BY <1>0, <2>0, <3>1, SwitchedRowFields
    <3> QED
      BY <3>2 DEF Flush, TargetStatus, Calm
  <2>3. CASE d # r.device
    BY <2>1, <2>3 DEF TypeOK, Calm
  <2> QED
    BY <2>2, <2>3
<1>3. CASE UNCHANGED devices
  BY <1>3 DEF Calm
<1> QED
  BY <1>1, <1>2, <1>3 DEF ApiNext, SetActiveRead, SetActiveAbort

LEMMA OfflineNext == OfflineInv /\ [Next]_vars => OfflineInv'
<1> SUFFICES ASSUME OfflineInv, [Next]_vars PROVE OfflineInv'
  OBVIOUS
<1>0. TypeOK /\ StaleInv /\ StaleInv'
  BY StaleNext DEF OfflineInv, StaleInv
<1>1. ASSUME \A d \in Devices : Calm(devices[d], devices'[d]) PROVE OfflineMeansSilent'
  BY <1>0, <1>1 DEF OfflineInv, OfflineMeansSilent, Calm
<1>2. ASSUME worker'.pc # "heartbeat" PROVE HeartbeatHasDevice' /\ LoadedOffline'
  BY <1>2 DEF HeartbeatHasDevice, LoadedOffline
<1>3. ASSUME \A d \in Devices : Calm(devices[d], devices'[d]),
             worker'.pc = worker.pc, worker'.device = worker.device,
             worker'.loaded = worker.loaded
      PROVE  OfflineInv'
  <2>1. HeartbeatHasDevice' /\ LoadedOffline'
    BY <1>3 DEF OfflineInv, HeartbeatHasDevice, LoadedOffline, Calm
  <2> QED
    BY <1>0, <1>1, <1>3, <2>1 DEF OfflineInv
<1>4. ASSUME UNCHANGED devices, worker'.pc # "heartbeat" PROVE OfflineInv'
  BY <1>0, <1>1, <1>2, <1>4 DEF OfflineInv, Calm
<1>5. AtGet.pc = "get" /\ AtCheck.pc = "check"
  BY DEF AtGet, AtCheck
<1>6. CASE ApiNext
  <2>1. UNCHANGED worker
    BY <1>6 DEF ApiNext, Register, SetActiveRead, SetActiveCommit, SetActiveAbort, workerVars
  <2> QED
    BY <1>0, <1>3, <1>6, <2>1, ApiIsCalm
<1>7. ASSUME NEW d \in Devices, HeartbeatArrive(d) PROVE OfflineInv'
  BY <1>3, <1>7 DEF HeartbeatArrive, Calm
<1>8. ASSUME NEW d \in Devices, HeartbeatRead(d) PROVE OfflineInv'
  <2>1. UNCHANGED devices
    BY <1>8 DEF HeartbeatRead
  <2>2. CASE worker' = AtCheck
    BY <1>4, <1>5, <2>1, <2>2
  <2>3. CASE worker' = [pc |-> "heartbeat", device |-> d, loaded |-> devices[d].status,
                        lastSeen |-> 0, stale |-> {}]
    <3>1. HeartbeatHasDevice' /\ LoadedOffline'
      BY <2>1, <2>3 DEF HeartbeatHasDevice, LoadedOffline
    <3> QED
      BY <1>0, <1>1, <2>1, <3>1 DEF OfflineInv, Calm
  <2> QED
    BY <1>8, <2>2, <2>3 DEF HeartbeatRead
<1>9. ASSUME NEW d \in Devices, HeartbeatCommit(d) PROVE OfflineInv'
  <2>1. /\ worker.pc = "heartbeat" /\ worker.device = d /\ worker' = AtCheck
        /\ devices' = [devices EXCEPT ![d] = SeenRow(devices[d], worker)]
    BY <1>9 DEF HeartbeatCommit
  <2>2. devices'[d].status = Flush(devices[d].status, worker.loaded, "ONLINE")
    BY <1>0, <2>1, SeenRowFields DEF TypeOK
  <2>3. devices'[d].status # "OFFLINE"
    BY <2>1, <2>2 DEF OfflineInv, LoadedOffline, Flush
  <2>4. ASSUME NEW x \in Devices PROVE Calm(devices[x], devices'[x])
    BY <1>0, <2>1, <2>3 DEF TypeOK, Calm
  <2> QED
    BY <1>0, <1>1, <1>2, <1>5, <2>1, <2>4 DEF OfflineInv
<1>10. ASSUME QueueEmpty \/ CheckNotDue PROVE OfflineInv'
  BY <1>4, <1>5, <1>10 DEF QueueEmpty, CheckNotDue
<1>11. ASSUME ScanRead PROVE OfflineInv'
  <2>1. UNCHANGED devices
    BY <1>11 DEF ScanRead
  <2>2. [AtGet EXCEPT !.pc = "scan", !.stale = Stale].pc = "scan"
    BY DEF AtGet
  <2>3. worker'.pc \in {"get", "scan"}
    BY <1>5, <1>11, <2>2 DEF ScanRead
  <2> QED
    BY <1>4, <2>1, <2>3
<1>12. ASSUME ScanCommit PROVE OfflineInv'
  <2>1. ASSUME NEW d \in Devices, devices'[d].status = "OFFLINE"
        PROVE  devices'[d].lastSeen = Expired
    <3>1. CASE d \in worker.stale
      <4>1. devices[d].lastSeen = Expired
        BY <1>0, <3>1 DEF StaleInv, StaleIsExpired
      <4>2. devices'[d] = [devices[d] EXCEPT !.status = Flush(@, "ONLINE", "OFFLINE")]
        BY <1>12, <3>1 DEF ScanCommit
      <4> QED
        BY <1>0, <4>1, <4>2 DEF Row, TypeOK
    <3>2. CASE d \notin worker.stale
      BY <1>12, <2>1, <3>2 DEF ScanCommit, OfflineInv, OfflineMeansSilent
    <3> QED
      BY <3>1, <3>2
  <2> QED
    BY <1>0, <1>2, <1>5, <1>12, <2>1 DEF OfflineInv, OfflineMeansSilent, ScanCommit
<1>13. ASSUME WorkerCrash PROVE OfflineInv'
  BY <1>4, <1>5, <1>13 DEF WorkerCrash
<1>14. ASSUME Tick PROVE OfflineInv'
  <2>1. /\ worker'.pc = worker.pc /\ worker'.device = worker.device
        /\ worker'.loaded = worker.loaded
    BY <1>0, <1>14 DEF Tick, TypeOK, Worker
  <2>2. ASSUME NEW d \in Devices PROVE Calm(devices[d], devices'[d])
    <3>1. devices'[d] = [devices[d] EXCEPT !.lastSeen = Older(@, Expired)]
      BY <1>14 DEF Tick
    <3>2. devices[d] \in Row
      BY <1>0 DEF TypeOK
    <3>3. /\ devices'[d].status = devices[d].status
          /\ devices'[d].lastSeen = Older(devices[d].lastSeen, Expired)
      BY <3>1, <3>2 DEF Row
    <3> QED
      BY <3>3 DEF Calm, Older, Expired
  <2> QED
    BY <1>3, <2>1, <2>2
<1>15. CASE UNCHANGED vars
  BY <1>3, <1>15 DEF vars, workerVars, Calm
<1> QED
  BY <1>6, <1>7, <1>8, <1>9, <1>10, <1>11, <1>12, <1>13, <1>14, <1>15 DEF Next, WorkerNext

(***************************************************************************)
(* A Device is OFFLINE only while none of its heartbeats has been          *)
(* processed for the whole timeout, and never again OFFLINE because of a   *)
(* decision taken before one was.                                          *)
(***************************************************************************)
THEOREM OfflineOnlyIfSilent == Spec => []OfflineMeansSilent
<1>1. OfflineInv => OfflineMeansSilent
  BY DEF OfflineInv
<1> QED
  BY <1>1, OfflineInit, OfflineNext, PTL DEF Spec

-----------------------------------------------------------------------------
(***************************************************************************)
(* While nobody overtakes a request between its read and its commit,       *)
(* nobody else writes is_active or DISABLED to its Device.                 *)
(***************************************************************************)
RequestOK(q) ==
    LET r == requests[q] IN
    r # IdleRequest =>
        /\ r.device \in Devices
        /\ Registered(r.device)
        /\ q \notin overtaken =>
            /\ devices[r.device].isActive = r.isActive
            /\ devices[r.device].status = "DISABLED" => r.status = "DISABLED"

ActiveInv ==
    /\ TypeOK
    /\ \A q \in Requests : RequestOK(q)
    /\ \A q \in overtaken : requests[q] # IdleRequest
    /\ ActiveIsNotDisabled

LEMMA ActiveInit == Init => ActiveInv
  BY ConnectivityTypeInit
  DEF Init, ActiveInv, RequestOK, ActiveIsNotDisabled, NoRow

\* What the worker and the clock do to the rows.
LEMMA WorkerRows ==
    ASSUME TypeOK, WorkerNext \/ Tick, NEW d \in Devices
    PROVE  /\ devices'[d].isActive = devices[d].isActive
           /\ devices'[d].status = "DISABLED" => devices[d].status = "DISABLED"
           /\ devices[d].status # "ABSENT" => devices'[d].status # "ABSENT"
<1>0. devices[d] \in Row
  BY DEF TypeOK
<1>1. ASSUME NEW x \in Devices, HeartbeatCommit(x)
      PROVE  /\ devices'[d].isActive = devices[d].isActive
             /\ devices'[d].status \in {devices[d].status, "ONLINE"}
  <2>1. devices' = [devices EXCEPT ![x] = SeenRow(devices[x], worker)]
    BY <1>1 DEF HeartbeatCommit
  <2>2. CASE d = x
    <3>1. devices'[d] = SeenRow(devices[d], worker)
      BY <2>1, <2>2 DEF TypeOK
    <3> QED
      BY <1>0, <3>1, SeenRowFields DEF TypeOK
  <2>3. CASE d # x
    BY <2>1, <2>3 DEF TypeOK
  <2> QED
    BY <2>2, <2>3
<1>2. ASSUME ScanCommit
      PROVE  /\ devices'[d].isActive = devices[d].isActive
             /\ devices'[d].status \in {devices[d].status, "OFFLINE"}
  <2>1. \/ devices'[d] = devices[d]
        \/ devices'[d] = [devices[d] EXCEPT !.status = Flush(@, "ONLINE", "OFFLINE")]
    BY <1>2 DEF ScanCommit
  <2> QED
    BY <1>0, <2>1 DEF Row, Flush
<1>3. ASSUME Tick
      PROVE  /\ devices'[d].isActive = devices[d].isActive
             /\ devices'[d].status = devices[d].status
  <2>1. devices'[d] = [devices[d] EXCEPT !.lastSeen = Older(@, Expired)]
    BY <1>3 DEF Tick
  <2> QED
    BY <1>0, <2>1 DEF Row
<1>4. CASE devices' = devices
  BY <1>4
<1> QED
  BY <1>1, <1>2, <1>3, <1>4
  DEF WorkerNext, HeartbeatArrive, HeartbeatRead, QueueEmpty, CheckNotDue,
      ScanRead, WorkerCrash

LEMMA ActiveNext == ActiveInv /\ [Next]_vars => ActiveInv'
<1> SUFFICES ASSUME ActiveInv, [Next]_vars PROVE ActiveInv'
  OBVIOUS
<1>0. TypeOK /\ TypeOK'
  BY ConnectivityTypeNext DEF ActiveInv
<1>1. ASSUME NEW d \in Devices, Register(d)
      PROVE  ActiveInv'
  <2>1. /\ devices' = [devices EXCEPT ![d] =
                [isActive |-> TRUE, status |-> "PROVISIONING", lastSeen |-> Never]]
        /\ requests' = requests /\ overtaken' = overtaken
        /\ settled' = settled \cup {d} /\ ~Registered(d)
    BY <1>1 DEF Register
  <2>2. devices'[d].isActive /\ devices'[d].status = "PROVISIONING"
    BY <1>0, <2>1 DEF TypeOK
  <2>3. \A e \in Devices \ {d} : devices'[e] = devices[e]
    BY <1>0, <2>1 DEF TypeOK
  <2>4. ASSUME NEW q \in Requests
        PROVE  RequestOK(q)'
    <3>1. RequestOK(q)
      BY DEF ActiveInv
    <3>2. requests[q] # IdleRequest => requests[q].device \in Devices \ {d}
      BY <2>1, <3>1 DEF RequestOK
    <3>3. requests[q] # IdleRequest => devices'[requests[q].device] = devices[requests[q].device]
      BY <2>3, <3>2
    <3> QED
      BY <2>1, <3>1, <3>2, <3>3 DEF RequestOK, Registered
  <2>5. ActiveIsNotDisabled'
    BY <1>0, <2>1, <2>2, <2>3 DEF ActiveInv, ActiveIsNotDisabled, TypeOK
  <2> QED
    BY <1>0, <2>1, <2>4, <2>5 DEF ActiveInv
<1>2. ASSUME NEW q \in Requests, NEW d \in Devices, NEW target \in BOOLEAN,
             SetActiveRead(q, d, target)
      PROVE  ActiveInv'
  <2>1. /\ devices' = devices /\ overtaken' = overtaken /\ settled' = settled
        /\ Registered(d) /\ requests[q] = IdleRequest
        /\ requests' = [requests EXCEPT ![q] =
                [device |-> d, target |-> target,
                 isActive |-> devices[d].isActive, status |-> devices[d].status]]
    BY <1>2 DEF SetActiveRead, history
  <2>2. q \notin overtaken
    BY <2>1 DEF ActiveInv
  <2>3. RequestOK(q)'
    BY <1>0, <2>1 DEF RequestOK, TypeOK, Registered
  <2>4. ASSUME NEW p \in Requests \ {q}
        PROVE  RequestOK(p)' /\ requests'[p] = requests[p]
    BY <1>0, <2>1 DEF ActiveInv, RequestOK, TypeOK, Registered
  <2> QED
    BY <1>0, <2>1, <2>2, <2>3, <2>4 DEF ActiveInv, ActiveIsNotDisabled, TypeOK
<1>3. ASSUME NEW q \in Requests, SetActiveCommit(q)
      PROVE  ActiveInv'
  <2>1. PICK r \in Request : r = requests[q]
    BY <1>0 DEF TypeOK
  <2>2. /\ r.device \in Devices /\ Registered(r.device)
        /\ q \notin overtaken =>
            /\ devices[r.device].isActive = r.isActive
            /\ devices[r.device].status = "DISABLED" => r.status = "DISABLED"
    BY <1>3, <2>1 DEF ActiveInv, RequestOK, SetActiveCommit
  <2>3. /\ devices' = [devices EXCEPT ![r.device] = SwitchedRow(devices[r.device], r)]
        /\ overtaken' = (overtaken \cup Others(q)) \ {q}
        /\ settled' = IF q \in overtaken THEN settled \ {r.device}
                                         ELSE settled \cup {r.device}
        /\ requests' = [requests EXCEPT ![q] = IdleRequest]
    BY <1>3, <2>1 DEF SetActiveCommit
  <2>4. devices[r.device] \in Row
    BY <1>0, <2>2 DEF TypeOK
  <2>5. /\ devices'[r.device] = SwitchedRow(devices[r.device], r)
        /\ \A d \in Devices \ {r.device} : devices'[d] = devices[d]
    BY <1>0, <2>2, <2>3 DEF TypeOK
  <2>6. /\ q \notin overtaken /\ devices'[r.device].isActive
                => devices'[r.device].status # "DISABLED"
        /\ Registered(r.device)'
    <3>1. /\ devices'[r.device].isActive
                = Flush(devices[r.device].isActive, r.isActive, r.target)
          /\ devices'[r.device].status
                = Flush(devices[r.device].status, r.status, TargetStatus(r))
      BY <2>4, <2>5, SwitchedRowFields
    <3>2. r.target \in BOOLEAN
      BY DEF Request
    <3> QED
      BY <2>2, <3>1, <3>2 DEF Flush, TargetStatus, Registered
  <2>7. ActiveIsNotDisabled'
    BY <1>0, <2>2, <2>3, <2>5, <2>6 DEF ActiveInv, ActiveIsNotDisabled, TypeOK
  <2>8. ASSUME NEW p \in Requests \ {q}
        PROVE  RequestOK(p)' /\ requests'[p] = requests[p]
    <3>1. requests'[p] = requests[p]
      BY <1>0, <2>3 DEF TypeOK
    <3>2. CASE requests[p].device = r.device
      <4>1. p \in overtaken'
        BY <2>1, <2>3, <3>2 DEF Others
      <4> QED
        BY <2>2, <2>6, <3>1, <3>2, <4>1 DEF RequestOK
    <3>3. CASE requests[p].device # r.device
      <4>1. p \in overtaken' <=> p \in overtaken
        BY <2>1, <2>3, <3>3 DEF Others
      <4>2. RequestOK(p)
        BY DEF ActiveInv
      <4> QED
        BY <2>5, <3>1, <3>3, <4>1, <4>2 DEF RequestOK, Registered
    <3> QED
      BY <3>1, <3>2, <3>3
  <2>9. requests'[q] = IdleRequest
    BY <1>0, <2>3 DEF TypeOK
  <2>10. ASSUME NEW p \in overtaken'
         PROVE  requests'[p] # IdleRequest
    <3>1. p \in Requests \ {q} /\ (p \in overtaken \/ requests[p].device = r.device)
      BY <1>0, <2>1, <2>3 DEF Others, TypeOK
    <3>2. requests[p].device \in Devices => requests[p] # IdleRequest
      BY DEF IdleRequest
    <3> QED
      BY <2>2, <2>8, <3>1, <3>2 DEF ActiveInv
  <2>11. RequestOK(q)'
    BY <2>9 DEF RequestOK
  <2> QED
    BY <1>0, <2>7, <2>8, <2>10, <2>11 DEF ActiveInv
<1>4. ASSUME NEW q \in Requests, SetActiveAbort(q)
      PROVE  ActiveInv'
  <2>1. /\ requests'[q] = IdleRequest
        /\ \A p \in Requests \ {q} : requests'[p] = requests[p]
        /\ devices' = devices /\ settled' = settled /\ overtaken' = overtaken \ {q}
    BY <1>0, <1>4 DEF SetActiveAbort, TypeOK
  <2>2. ASSUME NEW p \in Requests PROVE RequestOK(p)'
    BY <2>1 DEF ActiveInv, RequestOK, Registered
  <2> QED
    BY <1>0, <2>1, <2>2 DEF ActiveInv, ActiveIsNotDisabled, TypeOK
<1>5. CASE WorkerNext \/ Tick
  <2>1. requests' = requests /\ overtaken' = overtaken /\ settled' = settled
    BY <1>5 DEF WorkerNext, Tick, HeartbeatArrive, HeartbeatRead, HeartbeatCommit,
                QueueEmpty, CheckNotDue, ScanRead, ScanCommit, WorkerCrash, history
  <2>2. ASSUME NEW q \in Requests PROVE RequestOK(q)'
    BY <1>0, <1>5, <2>1, WorkerRows DEF ActiveInv, RequestOK, Registered
  <2>3. ActiveIsNotDisabled'
    BY <1>0, <1>5, <2>1, WorkerRows DEF ActiveInv, ActiveIsNotDisabled, TypeOK
  <2> QED
    BY <1>0, <2>1, <2>2, <2>3 DEF ActiveInv
<1>6. CASE UNCHANGED vars
  BY <1>0, <1>6 DEF vars, history, ActiveInv, RequestOK, Registered, ActiveIsNotDisabled
<1> QED
  BY <1>1, <1>2, <1>3, <1>4, <1>5, <1>6 DEF Next, ApiNext

(***************************************************************************)
(* For any number of overlapping set_active requests: a Device whose last  *)
(* writer was not overtaken is not active and DISABLED, whatever the       *)
(* worker writes.                                                          *)
(***************************************************************************)
THEOREM ActiveNeverDisabled == Spec => []ActiveIsNotDisabled
<1>1. ActiveInv => ActiveIsNotDisabled
  BY DEF ActiveInv
<1> QED
  BY <1>1, ActiveInit, ActiveNext, PTL DEF Spec

-----------------------------------------------------------------------------
(***************************************************************************)
(* With one set_active request at a time none is ever overtaken, so no     *)
(* Device at all is active and DISABLED.                                   *)
(***************************************************************************)
SingleRequest == \A p, q \in Requests : p = q

Undisturbed ==
    /\ overtaken = {}
    /\ \A d \in Devices : devices[d].isActive => d \in settled

THEOREM OneAtATime ==
    ASSUME SingleRequest
    PROVE  Spec => [](\A d \in Devices : devices[d].isActive => devices[d].status # "DISABLED")
<1> DEFINE Goal == \A d \in Devices : devices[d].isActive => devices[d].status # "DISABLED"
<1>1. Init => Undisturbed
  BY DEF Init, Undisturbed, NoRow
<1>2. ASSUME ActiveInv, Undisturbed, [Next]_vars
      PROVE  Undisturbed'
  <2>0. TypeOK
    BY <1>2 DEF ActiveInv
  <2>1. ASSUME NEW d \in Devices, Register(d)
        PROVE  Undisturbed'
    BY <1>2, <2>0, <2>1 DEF Register, Undisturbed, TypeOK
  <2>2. ASSUME NEW q \in Requests, SetActiveCommit(q)
        PROVE  Undisturbed'
    <3>1. Others(q) = {}
      BY DEF Others, SingleRequest
    <3>2. overtaken' = {} /\ settled' = settled \cup {requests[q].device}
      BY <1>2, <2>2, <3>1 DEF SetActiveCommit, Undisturbed
    <3>3. \A d \in Devices \ {requests[q].device} : devices'[d] = devices[d]
      BY <2>0, <2>2 DEF SetActiveCommit, TypeOK
    <3> QED
      BY <1>2, <3>2, <3>3 DEF Undisturbed
  <2>3. ASSUME NEW q \in Requests, SetActiveAbort(q)
        PROVE  Undisturbed'
    BY <1>2, <2>3 DEF SetActiveAbort, Undisturbed
  <2>4. ASSUME NEW q \in Requests, NEW d \in Devices, NEW target \in BOOLEAN,
               SetActiveRead(q, d, target)
        PROVE  Undisturbed'
    BY <1>2, <2>4 DEF SetActiveRead, Undisturbed, history
  <2>5. CASE WorkerNext \/ Tick
    <3>1. overtaken' = overtaken /\ settled' = settled
      BY <2>5 DEF WorkerNext, Tick, HeartbeatArrive, HeartbeatRead, HeartbeatCommit,
                  QueueEmpty, CheckNotDue, ScanRead, ScanCommit, WorkerCrash, history
    <3>2. ASSUME NEW d \in Devices PROVE devices'[d].isActive = devices[d].isActive
      BY <2>0, <2>5, WorkerRows
    <3> QED
      BY <1>2, <3>1, <3>2 DEF Undisturbed
  <2>6. CASE UNCHANGED vars
    BY <1>2, <2>6 DEF vars, history, Undisturbed
  <2> QED
    BY <1>2, <2>1, <2>2, <2>3, <2>4, <2>5, <2>6 DEF Next, ApiNext
<1>3. ActiveInv /\ Undisturbed => Goal
  <2> SUFFICES ASSUME ActiveInv, Undisturbed, NEW d \in Devices, devices[d].isActive
               PROVE  devices[d].status # "DISABLED"
    OBVIOUS
  <2>1. d \in settled
    BY DEF Undisturbed
  <2> QED
    BY <2>1 DEF ActiveInv, ActiveIsNotDisabled
<1> HIDE DEF Goal
<1>4. Spec => []Goal
  BY <1>1, <1>2, <1>3, ActiveInit, ActiveNext, PTL DEF Spec
<1> QED
  BY <1>4 DEF Goal

==============================================================================
