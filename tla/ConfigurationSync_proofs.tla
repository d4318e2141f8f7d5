---------------------- MODULE ConfigurationSync_proofs ----------------------
(***************************************************************************)
(* Proofs about ConfigurationSync for every set of sensors, payloads and   *)
(* requests and every bound.                                               *)
(***************************************************************************)
EXTENDS ConfigurationSync, TLAPS

(***************************************************************************)
(* Type correctness: every action keeps TypeOK.                            *)
(***************************************************************************)
LEMMA TypeInit == Init => TypeOK
<1> USE ConstantsAssumption
<1> SUFFICES ASSUME Init PROVE TypeOK
  OBVIOUS
<1>1. NoRow \in Row /\ IdleEdit \in Edit /\ Nothing \in Snapshot
  BY DEF NoRow, Row, IdleEdit, Edit, Nothing, Snapshot
<1>2. IdleSync \in Sync
  BY <1>1 DEF IdleSync, Sync
<1>3. NoTxn \in Txn
  BY DEF NoTxn, Txn, Ack, NoResults
<1>4. rows \in [Sensors -> [Versions -> Row]]
  BY <1>1 DEF Init
<1>5. edits \in [Edits -> Edit] /\ syncs \in [Syncs -> Sync]
  BY <1>1, <1>2 DEF Init
<1>6. inbox \in Seq(Snapshot) /\ acks \in Seq(Ack)
  BY DEF Init
<1> QED
  BY <1>1, <1>3, <1>4, <1>5, <1>6 DEF Init, TypeOK

LEMMA EditTypes ==
    ASSUME TypeOK, EditNext
    PROVE  TypeOK'
<1> USE ConstantsAssumption
<1>0. IdleEdit \in Edit /\ [IdleEdit EXCEPT !.op = "conflict"] \in Edit
  BY DEF IdleEdit, Edit
<1>1. ASSUME NEW u \in Edits, NEW s \in Sensors, NEW c \in Configurations,
             CreateRead(u, s, c)
      PROVE  TypeOK'
  <2>1. [op |-> "creating", sensor |-> s, current |-> 0, status |-> "ABSENT",
         next |-> 1, configuration |-> c] \in Edit
    BY DEF Edit
  <2>2. edits' \in [Edits -> Edit]
    BY <1>1, <2>1 DEF CreateRead, TypeOK
  <2> QED
    BY <1>1, <2>2 DEF CreateRead, TypeOK, deviceVars, workerVars, historyVars
<1>2. ASSUME NEW u \in Edits, NEW s \in Sensors, NEW c \in Configurations,
             UpdateRead(u, s, c)
      PROVE  TypeOK'
  <2>1. PICK cur \in Versions, n \in Versions :
          edits' = [edits EXCEPT ![u] =
                [op |-> "updating", sensor |-> s, current |-> cur,
                 status |-> rows[s][cur].status, next |-> n,
                 configuration |-> c]]
    BY <1>2 DEF UpdateRead
  <2>2. rows[s][cur].status \in ConfigurationStatus \cup {"ABSENT"}
    BY DEF TypeOK, Row
  <2>3. edits' \in [Edits -> Edit]
    BY <2>1, <2>2 DEF Edit, TypeOK, Versions
  <2> QED
    BY <1>2, <2>3 DEF UpdateRead, TypeOK, deviceVars, workerVars, historyVars
<1>3. ASSUME NEW u \in Edits, CreateCommit(u)
      PROVE  TypeOK'
  <2>1. CASE Registered(edits[u].sensor)
    BY <1>0, <1>3, <2>1 DEF CreateCommit, TypeOK, deviceVars, workerVars, historyVars
  <2>2. CASE ~Registered(edits[u].sensor)
    <3>1. NewRow(edits[u].configuration) \in Row
      BY DEF NewRow, Row, TypeOK, Edit, ConfigurationStatus
    <3>2. rows' \in [Sensors -> [Versions -> Row]]
      <4>1. 1 \in Versions
        BY DEF Versions
      <4>2. rows' = [rows EXCEPT ![edits[u].sensor] =
                [@ EXCEPT ![1] = NewRow(edits[u].configuration)]]
        BY <1>3, <2>2 DEF CreateCommit
      <4> QED
        BY <3>1, <4>1, <4>2 DEF TypeOK
    <3> QED
      BY <1>0, <1>3, <2>2, <3>2
      DEF CreateCommit, TypeOK, deviceVars, workerVars, historyVars
  <2> QED
    BY <2>1, <2>2
<1>4. ASSUME NEW u \in Edits, UpdateCommit(u)
      PROVE  TypeOK'
  <2>1. CASE VersionConflict(edits[u])
    BY <1>0, <1>4, <2>1 DEF UpdateCommit, TypeOK, deviceVars, workerVars, historyVars
  <2>2. CASE ~VersionConflict(edits[u])
    <3>1. NewRow(edits[u].configuration) \in Row
      BY DEF NewRow, Row, TypeOK, Edit, ConfigurationStatus
    <3>2. rows' = [rows EXCEPT ![edits[u].sensor] = [@ EXCEPT
                            ![edits[u].current] = SupersededRow(edits[u]),
                            ![edits[u].next] = NewRow(edits[u].configuration)]]
      BY <1>4, <2>2 DEF UpdateCommit
    <3>3. ASSUME edits[u].sensor \in Sensors, edits[u].current \in Versions
          PROVE  SupersededRow(edits[u]) \in Row
      <4> DEFINE stored == rows[edits[u].sensor][edits[u].current]
      <4>1. stored \in Row
        BY <3>3 DEF TypeOK
      <4>2. Flush(stored.status, edits[u].status, "SUPERSEDED")
              \in ConfigurationStatus \cup {"ABSENT"}
        BY <4>1 DEF Flush, Row, ConfigurationStatus
      <4>3. Flush(stored.isCurrent, TRUE, FALSE) \in BOOLEAN
        BY DEF Flush
      <4> QED
        BY <4>1, <4>2, <4>3 DEF SupersededRow, Row
    <3>4. rows' \in [Sensors -> [Versions -> Row]]
      BY <3>1, <3>2, <3>3 DEF TypeOK
    <3> QED
      BY <1>0, <1>4, <2>2, <3>4
      DEF UpdateCommit, TypeOK, deviceVars, workerVars, historyVars
  <2> QED
    BY <2>1, <2>2
<1>5. ASSUME NEW u \in Edits, EditAbort(u)
      PROVE  TypeOK'
  BY <1>0, <1>5 DEF EditAbort, TypeOK, deviceVars, workerVars, historyVars
<1> QED
  BY <1>1, <1>2, <1>3, <1>4, <1>5 DEF EditNext

LEMMA SyncTypes ==
    ASSUME TypeOK, NEW r \in Syncs,
           SyncRead(r) \/ SyncPublish(r) \/ SyncCommit(r) \/ SyncFail(r) \/ SyncForget(r)
    PROVE  TypeOK'
<1> USE ConstantsAssumption
<1>0. IdleSync \in Sync
  BY DEF IdleSync, Sync, Nothing, Snapshot
<1>1. CASE SyncRead(r)
  <2> DEFINE snap == [s \in Sensors |-> CurrentVersion(s)]
             stat == [s \in Sensors |->
                        IF CurrentVersion(s) = 0 THEN "ABSENT"
                        ELSE rows[s][CurrentVersion(s)].status]
  <2>1. \A s \in Sensors : CurrentVersion(s) \in 0..MaxVersion
    BY DEF CurrentVersion, Versions
  <2>2. \A s \in Sensors : stat[s] \in ConfigurationStatus \cup {"ABSENT"}
    BY <2>1 DEF TypeOK, Row, Versions
  <2>3. [pc |-> "publishing", snapshot |-> snap, status |-> stat] \in Sync
    BY <2>1, <2>2 DEF Sync, Snapshot
  <2>4. syncs' = [syncs EXCEPT ![r] =
            [pc |-> "publishing", snapshot |-> snap, status |-> stat]]
    BY <1>1 DEF SyncRead
  <2>5. syncs' \in [Syncs -> Sync]
    BY <2>3, <2>4 DEF TypeOK
  <2> QED
    BY <1>1, <2>5 DEF SyncRead, TypeOK, dbVars, deviceVars, workerVars, historyVars
<1>2. CASE SyncPublish(r)
  <2>1. syncs[r].snapshot \in Snapshot
    BY DEF TypeOK, Sync
  <2>2. inbox' \in Seq(Snapshot)
    <3>1. CASE connected
      <4>1. inbox' = Append(inbox, syncs[r].snapshot)
        BY <1>2, <3>1 DEF SyncPublish
      <4> QED
        BY <2>1, <4>1 DEF TypeOK
    <3>2. CASE ~connected
      BY <1>2, <3>2 DEF SyncPublish, TypeOK
    <3> QED
      BY <3>1, <3>2
  <2>3. [syncs[r] EXCEPT !.pc = "accepted"] \in Sync
    BY DEF TypeOK, Sync
  <2>4. syncs' \in [Syncs -> Sync]
    BY <1>0, <1>2, <2>3 DEF SyncPublish, TypeOK
  <2> QED
    BY <1>2, <2>1, <2>2, <2>4 DEF SyncPublish, TypeOK, dbVars, workerVars
<1>3. CASE SyncCommit(r)
  <2>1. ASSUME NEW s \in Sensors, NEW v \in Versions
        PROVE  PublishedRow(rows[s][v], syncs[r].status[s]) \in Row
    <3>1. rows[s][v] \in Row /\ syncs[r].status[s] \in ConfigurationStatus \cup {"ABSENT"}
      BY DEF TypeOK, Sync
    <3> QED
      BY <3>1 DEF PublishedRow, Row, Flush, ConfigurationStatus
  <2>2. rows' \in [Sensors -> [Versions -> Row]]
    BY <1>3, <2>1 DEF SyncCommit, TypeOK
  <2>3. syncs' \in [Syncs -> Sync]
    BY <1>0, <1>3 DEF SyncCommit, TypeOK
  <2> QED
    BY <1>3, <2>2, <2>3 DEF SyncCommit, TypeOK, deviceVars, workerVars, historyVars
<1>4. CASE SyncFail(r)
  <2>1. [syncs[r] EXCEPT !.pc = "abandoned"] \in Sync
    BY DEF TypeOK, Sync
  <2>2. syncs' \in [Syncs -> Sync]
    BY <1>0, <1>4, <2>1 DEF SyncFail, TypeOK
  <2> QED
    BY <1>4, <2>2 DEF SyncFail, TypeOK, dbVars, deviceVars, workerVars, historyVars
<1>5. CASE SyncForget(r)
  BY <1>0, <1>5 DEF SyncForget, TypeOK, dbVars, deviceVars, workerVars, historyVars
<1> QED
  BY <1>1, <1>2, <1>3, <1>4, <1>5

LEMMA DeviceTypes ==
    ASSUME TypeOK, DeviceNext \/ StrayNext
    PROVE  TypeOK'
<1> USE ConstantsAssumption
<1>0. Nothing \in Snapshot
  BY DEF Nothing, Snapshot
<1>1. CASE DeviceConnect
  <2>1. inbox' \in Seq(Snapshot)
    BY <1>1 DEF DeviceConnect, TypeOK
  <2> QED
    BY <1>1, <2>1 DEF DeviceConnect, TypeOK, apiVars, workerVars, historyVars
<1>2. ASSUME NEW restart \in BOOLEAN, DeviceDisconnect(restart)
      PROVE  TypeOK'
  <2>1. inbox' \in Seq(Snapshot)
    BY <1>2 DEF DeviceDisconnect
  <2> QED
    BY <1>0, <1>2, <2>1 DEF DeviceDisconnect, TypeOK, apiVars, workerVars, historyVars
<1>3. ASSUME NEW copies \in 0..2, DeviceReceive(copies)
      PROVE  TypeOK'
  <2>1. Head(inbox) \in Snapshot /\ Tail(inbox) \in Seq(Snapshot)
    BY <1>3 DEF DeviceReceive, TypeOK
  <2>2. running' \in Snapshot
    BY <1>3, <2>1 DEF DeviceReceive, AppliedVersion, Snapshot, TypeOK
  <2>3. DeviceAck(Head(inbox)) \in Ack
    BY <2>1 DEF DeviceAck, Ack, Results, Snapshot, Applies
  <2>4. [i \in 1..copies |-> DeviceAck(Head(inbox))] \in Seq(Ack)
    BY <2>3
  <2>5. acks' \in Seq(Ack)
    BY <1>3, <2>4 DEF DeviceReceive, TypeOK
  <2> QED
    BY <1>3, <2>1, <2>2, <2>5 DEF DeviceReceive, TypeOK, apiVars, historyVars
<1>4. ASSUME NEW ack \in Ack, StrayAck(ack)
      PROVE  TypeOK'
  <2>1. acks' \in Seq(Ack)
    BY <1>4 DEF StrayAck, TypeOK
  <2> QED
    BY <1>4, <2>1 DEF StrayAck, TypeOK, apiVars, deviceVars, historyVars
<1> QED
  BY <1>1, <1>2, <1>3, <1>4 DEF DeviceNext, StrayNext

\* A row the loop has assigned to has a result in the acknowledgement.
LEMMA AssignedHasResult ==
    ASSUME TypeOK, AckCommit, NEW p \in Assigned
    PROVE  p \in Results /\ txn.ack[p] \in {"APPLIED", "FAILED"}
BY DEF AckCommit, Assigned, ResultsOf, TypeOK, Txn, Ack

LEMMA WorkerTypes ==
    ASSUME TypeOK, WorkerNext
    PROVE  TypeOK'
<1> USE ConstantsAssumption
<1>0. NoTxn \in Txn
  BY DEF NoTxn, Txn, Ack, NoResults
<1>1. CASE AckTake
  <2>1. Head(acks) \in Ack /\ Tail(acks) \in Seq(Ack)
    BY <1>1 DEF AckTake, TypeOK
  <2>2. txn' \in Txn
    BY <1>0, <1>1, <2>1 DEF AckTake, Txn
  <2> QED
    BY <1>1, <2>1, <2>2 DEF AckTake, TypeOK, apiVars, deviceVars, historyVars
<1>2. ASSUME NEW s \in Sensors, NEW v \in Versions, AckRead(s, v)
      PROVE  TypeOK'
  <2>1. <<s, v>> \in Results
    BY DEF Results
  <2>2. rows[s][v].status \in ConfigurationStatus \cup {"ABSENT"}
    BY DEF TypeOK, Row
  <2>3. txn' \in Txn
    BY <1>2, <2>1, <2>2 DEF AckRead, TypeOK, Txn, Assigned
  <2> QED
    BY <1>2, <2>3 DEF AckRead, TypeOK, apiVars, deviceVars, historyVars
<1>3. ASSUME NEW s \in Sensors, NEW v \in Versions, AckReject(s, v)
      PROVE  TypeOK'
  BY <1>0, <1>3 DEF AckReject, TypeOK, apiVars, deviceVars, historyVars
<1>4. CASE AckCommit
  <2>1. ASSUME NEW x \in Sensors, NEW v \in Versions, <<x, v>> \in Assigned
        PROVE  AckedRow(rows[x][v], txn.loaded[<<x, v>>], txn.ack[<<x, v>>]) \in Row
    <3>1. rows[x][v] \in Row
      BY DEF TypeOK
    <3>2. txn.ack[<<x, v>>] \in {"APPLIED", "FAILED"}
      BY <1>4, <2>1, AssignedHasResult
    <3> QED
      BY <3>1, <3>2 DEF AckedRow, Row, Flush, ConfigurationStatus
  <2>2. rows' \in [Sensors -> [Versions -> Row]]
    BY <1>4, <2>1 DEF AckCommit, AckedRows, TypeOK
  <2>3. honoured' \subseteq Sensors \X Versions
    BY <1>4 DEF AckCommit, Assigned, ResultsOf, Results, TypeOK
  <2> QED
    BY <1>0, <1>4, <2>2, <2>3 DEF AckCommit, TypeOK, apiVars, deviceVars
<1>5. CASE WorkerCrash
  <2>1. acks' \in Seq(Ack)
    BY <1>5 DEF WorkerCrash
  <2> QED
    BY <1>0, <1>5, <2>1 DEF WorkerCrash, TypeOK, apiVars, deviceVars, historyVars
<1> QED
  BY <1>1, <1>2, <1>3, <1>4, <1>5 DEF WorkerNext

LEMMA TypeNext == TypeOK /\ [Next]_vars => TypeOK'
<1> SUFFICES ASSUME TypeOK, [Next]_vars PROVE TypeOK'
  OBVIOUS
<1>1. CASE EditNext
  BY <1>1, EditTypes
<1>2. CASE SyncNext
  BY <1>2, SyncTypes, Zenon DEF SyncNext
<1>3. CASE DeviceNext \/ StrayNext
  BY <1>3, DeviceTypes
<1>4. CASE WorkerNext
  BY <1>4, WorkerTypes
<1>5. CASE UNCHANGED vars
  BY <1>5 DEF TypeOK, vars
<1> QED
  BY <1>1, <1>2, <1>3, <1>4, <1>5 DEF Next

(***************************************************************************)
(* In every behaviour the variables keep the types TypeOK gives them.      *)
(***************************************************************************)
THEOREM TypeCorrect == Spec => []TypeOK
  BY TypeInit, TypeNext, PTL DEF Spec

-----------------------------------------------------------------------------
(***************************************************************************)
(* The inductive invariant.  OneCurrent is not inductive alone: a request  *)
(* between its SELECT and its commit relies on what it read (EditLocals),  *)
(* which holds because the row lock has one holder (LockHeldOnce), and the *)
(* two writers that hold no lock write only to rows that exist             *)
(* (SyncLocals, TxnLocals).                                                *)
(***************************************************************************)
AbsentRows ==
    \A s \in Sensors, v \in Versions : ~Exists(s, v) => rows[s][v] = NoRow

\* The locals `e' of a request agree with the rows.
LocalsOK(e) ==
    /\ e.op = "creating" => e.sensor \in Sensors /\ e.configuration \in Configurations
    /\ e.op = "updating" =>
        /\ e.sensor \in Sensors
        /\ e.configuration \in Configurations
        /\ e.current \in Versions
        /\ e.next \in Versions
        /\ e.next = e.current + 1
        /\ IsCurrent(e.sensor, e.current)
        /\ ~Exists(e.sensor, e.next)

EditLocals == \A u \in Edits : LocalsOK(edits[u])

LockHeldOnce ==
    \A u, w \in Edits :
        /\ edits[u].op = "updating"
        /\ edits[w].op = "updating"
        /\ edits[u].sensor = edits[w].sensor
        => u = w

SyncLocals ==
    \A r \in Syncs, s \in Sensors, v \in Versions :
        syncs[r].pc # "idle" /\ Carries(syncs[r].snapshot, s, v) =>
            /\ Exists(s, v)
            /\ syncs[r].pc = "accepted" => <<s, v>> \in accepted

TxnLocals ==
    \A s \in Sensors, v \in Versions : <<s, v>> \in Assigned => Exists(s, v)

IInv ==
    /\ TypeOK
    /\ AbsentRows
    /\ OneCurrent
    /\ EditLocals
    /\ LockHeldOnce
    /\ SyncLocals
    /\ TxnLocals
    /\ AppliedWasAcknowledged
    /\ PublishedWasAccepted

\* A step that writes at most the statuses of rows that stay.
VersionsKept ==
    \A s \in Sensors, v \in Versions :
        /\ Exists(s, v)' = Exists(s, v)
        /\ rows'[s][v].isCurrent = rows[s][v].isCurrent
        /\ rows'[s][v].configuration = rows[s][v].configuration

\* A step that inserts the first version of a sensor.
Inserted(s0, c) ==
    /\ \A v \in Versions : ~Exists(s0, v)
    /\ \A s \in Sensors, v \in Versions :
        rows'[s][v] = IF s = s0 /\ v = 1 THEN NewRow(c) ELSE rows[s][v]

\* A step that replaces the current version of a sensor by the next one and
\* leaves `old' of it.
Replaced(s0, cur, n, c, old) ==
    /\ n = cur + 1
    /\ IsCurrent(s0, cur)
    /\ ~Exists(s0, n)
    /\ old.isCurrent = FALSE
    /\ old.configuration = rows[s0][cur].configuration
    /\ old.status = "SUPERSEDED" \/ old.status = rows[s0][cur].status
    /\ \A s \in Sensors, v \in Versions :
        rows'[s][v] = IF s = s0 /\ v = n THEN NewRow(c)
                      ELSE IF s = s0 /\ v = cur THEN old
                      ELSE rows[s][v]

(***************************************************************************)
(* What one step can do to the rows.                                       *)
(***************************************************************************)
LEMMA SyncKeeps ==
    ASSUME IInv, NEW r \in Syncs, SyncCommit(r)
    PROVE  VersionsKept
<1> USE ConstantsAssumption
<1> SUFFICES ASSUME NEW s \in Sensors, NEW v \in Versions
             PROVE  /\ Exists(s, v)' = Exists(s, v)
                    /\ rows'[s][v].isCurrent = rows[s][v].isCurrent
                    /\ rows'[s][v].configuration = rows[s][v].configuration
  BY DEF VersionsKept
<1>1. rows'[s][v] = IF Carries(syncs[r].snapshot, s, v)
                    THEN PublishedRow(rows[s][v], syncs[r].status[s])
                    ELSE rows[s][v]
  BY DEF SyncCommit
<1>2. rows[s][v] \in Row
  BY DEF IInv, TypeOK
<1>3. CASE Carries(syncs[r].snapshot, s, v)
  <2>1. Exists(s, v)
    BY <1>3 DEF IInv, SyncLocals, SyncCommit
  <2> QED
    BY <1>1, <1>2, <1>3, <2>1 DEF PublishedRow, Flush, Exists, Row
<1>4. CASE ~Carries(syncs[r].snapshot, s, v)
  BY <1>1, <1>4 DEF Exists
<1> QED
  BY <1>3, <1>4

LEMMA AckKeeps ==
    ASSUME IInv, AckCommit
    PROVE  VersionsKept
<1> USE ConstantsAssumption
<1> SUFFICES ASSUME NEW s \in Sensors, NEW v \in Versions
             PROVE  /\ Exists(s, v)' = Exists(s, v)
                    /\ rows'[s][v].isCurrent = rows[s][v].isCurrent
                    /\ rows'[s][v].configuration = rows[s][v].configuration
  BY DEF VersionsKept
<1>1. rows'[s][v] = IF <<s, v>> \in Assigned
                    THEN AckedRow(rows[s][v], txn.loaded[<<s, v>>], txn.ack[<<s, v>>])
                    ELSE rows[s][v]
  BY DEF AckCommit, AckedRows
<1>2. rows[s][v] \in Row
  BY DEF IInv, TypeOK
<1>3. CASE <<s, v>> \in Assigned
  <2>1. Exists(s, v) /\ txn.ack[<<s, v>>] # "ABSENT"
    BY <1>3, AssignedHasResult DEF IInv, TxnLocals
  <2> QED
    BY <1>1, <1>2, <1>3, <2>1 DEF AckedRow, Flush, Exists, Row
<1>4. CASE <<s, v>> \notin Assigned
  BY <1>1, <1>4 DEF Exists
<1> QED
  BY <1>3, <1>4

LEMMA CreateInserts ==
    ASSUME IInv, NEW u \in Edits, CreateCommit(u), rows' # rows
    PROVE  \E s \in Sensors, c \in Configurations : Inserted(s, c)
<1> USE ConstantsAssumption
<1>1. edits[u].op = "creating" /\ ~Registered(edits[u].sensor)
  BY DEF CreateCommit
<1>2. PICK s0 \in Sensors, c \in Configurations :
        s0 = edits[u].sensor /\ c = edits[u].configuration
  BY <1>1 DEF IInv, EditLocals, LocalsOK
<1>3. rows' = [rows EXCEPT ![s0] = [@ EXCEPT ![1] = NewRow(c)]]
  BY <1>1, <1>2 DEF CreateCommit
<1>4. rows \in [Sensors -> [Versions -> Row]]
  BY DEF IInv, TypeOK
<1>5. \A s \in Sensors, v \in Versions :
        rows'[s][v] = IF s = s0 /\ v = 1 THEN NewRow(c) ELSE rows[s][v]
  BY <1>3, <1>4
<1> QED
  BY <1>1, <1>2, <1>5 DEF Registered, Inserted

LEMMA UpdateReplaces ==
    ASSUME IInv, NEW u \in Edits, UpdateCommit(u), rows' # rows
    PROVE  \E s \in Sensors, cur, n \in Versions, c \in Configurations, old \in Row :
              s = edits[u].sensor /\ Replaced(s, cur, n, c, old)
<1> USE ConstantsAssumption
<1>1. edits[u].op = "updating" /\ ~VersionConflict(edits[u])
  BY DEF UpdateCommit
<1>2. PICK s0 \in Sensors, cur \in Versions, n \in Versions, c \in Configurations :
        /\ s0 = edits[u].sensor /\ c = edits[u].configuration
        /\ cur = edits[u].current /\ n = edits[u].next
        /\ n = cur + 1 /\ IsCurrent(s0, cur) /\ ~Exists(s0, n)
  BY <1>1 DEF IInv, EditLocals, LocalsOK
<1>3. rows \in [Sensors -> [Versions -> Row]]
  BY DEF IInv, TypeOK
<1>4. PICK old : old = SupersededRow(edits[u])
  OBVIOUS
<1>5. /\ old.isCurrent = FALSE
      /\ old.configuration = rows[s0][cur].configuration
      /\ old.status = "SUPERSEDED" \/ old.status = rows[s0][cur].status
      /\ old \in Row
  <2>1. rows[s0][cur] \in Row
    BY <1>3
  <2>2. PICK status, isCurrent :
          /\ status = Flush(rows[s0][cur].status, edits[u].status, "SUPERSEDED")
          /\ isCurrent = Flush(rows[s0][cur].isCurrent, TRUE, FALSE)
    OBVIOUS
  <2>3. isCurrent = FALSE
    BY <2>2 DEF Flush
  <2>4. status = "SUPERSEDED" \/ status = rows[s0][cur].status
    BY <2>2 DEF Flush
  <2>5. old = [rows[s0][cur] EXCEPT !.status = status, !.isCurrent = isCurrent]
    BY <1>2, <1>4, <2>2 DEF SupersededRow
  <2> QED
    BY <2>1, <2>3, <2>4, <2>5 DEF Row, ConfigurationStatus
<1>6. rows' = [rows EXCEPT ![s0] = [@ EXCEPT ![cur] = old, ![n] = NewRow(c)]]
  BY <1>1, <1>2, <1>4 DEF UpdateCommit
<1>7. \A s \in Sensors, v \in Versions :
        rows'[s][v] = IF s = s0 /\ v = n THEN NewRow(c)
                      ELSE IF s = s0 /\ v = cur THEN old
                      ELSE rows[s][v]
  BY <1>2, <1>3, <1>6 DEF Versions
<1> QED
  BY <1>2, <1>5, <1>7 DEF Replaced

LEMMA RowSteps ==
    ASSUME IInv, [Next]_vars
    PROVE  \/ VersionsKept
           \/ \E s \in Sensors, c \in Configurations : Inserted(s, c)
           \/ \E s \in Sensors, cur, n \in Versions, c \in Configurations, old \in Row :
                Replaced(s, cur, n, c, old)
<1> USE ConstantsAssumption
<1>1. rows' = rows => VersionsKept
  BY DEF VersionsKept, Exists
<1>2. CASE EditNext
  <2>1. PICK u \in Edits :
            \/ \E s \in Sensors, c \in Configurations :
                CreateRead(u, s, c) \/ UpdateRead(u, s, c)
            \/ CreateCommit(u)
            \/ UpdateCommit(u)
            \/ EditAbort(u)
    BY <1>2 DEF EditNext
  <2>2. CASE CreateCommit(u)
    BY <1>1, <2>2, CreateInserts
  <2>3. CASE UpdateCommit(u)
    BY <1>1, <2>3, UpdateReplaces
  <2>4. CASE \/ \E s \in Sensors, c \in Configurations :
                CreateRead(u, s, c) \/ UpdateRead(u, s, c)
             \/ EditAbort(u)
    BY <1>1, <2>4 DEF CreateRead, UpdateRead, EditAbort
  <2> QED
    BY <2>1, <2>2, <2>3, <2>4
<1>3. CASE SyncNext
  <2>1. ASSUME NEW r \in Syncs,
               SyncRead(r) \/ SyncPublish(r) \/ SyncFail(r) \/ SyncForget(r)
        PROVE  rows' = rows
    BY <2>1 DEF SyncRead, SyncPublish, SyncFail, SyncForget, dbVars
  <2> QED
    BY <1>1, <1>3, <2>1, SyncKeeps DEF SyncNext
<1>4. CASE DeviceNext \/ StrayNext
  BY <1>1, <1>4
  DEF DeviceNext, StrayNext, DeviceConnect, DeviceDisconnect, DeviceReceive, StrayAck
<1>5. CASE WorkerNext
  BY <1>1, <1>5, AckKeeps DEF WorkerNext, AckTake, AckRead, AckReject, WorkerCrash
<1>6. CASE UNCHANGED vars
  BY <1>1, <1>6 DEF vars
<1> QED
  BY <1>2, <1>3, <1>4, <1>5, <1>6 DEF Next

(***************************************************************************)
(* A row that exists keeps existing.                                       *)
(***************************************************************************)
LEMMA RowsStay ==
    ASSUME IInv, [Next]_vars, NEW s \in Sensors, NEW v \in Versions, Exists(s, v)
    PROVE  Exists(s, v)'
<1> USE ConstantsAssumption
<1>1. CASE VersionsKept
  BY <1>1 DEF VersionsKept
<1>2. ASSUME NEW s0 \in Sensors, NEW c \in Configurations, Inserted(s0, c)
      PROVE  Exists(s, v)'
  BY <1>2 DEF Inserted, Exists, NewRow
<1>3. ASSUME NEW s0 \in Sensors, NEW cur \in Versions, NEW n \in Versions,
             NEW c \in Configurations, NEW old \in Row, Replaced(s0, cur, n, c, old)
      PROVE  Exists(s, v)'
  BY <1>3 DEF Replaced, IsCurrent, Exists, NewRow
<1> QED
  BY <1>1, <1>2, <1>3, RowSteps

LEMMA AbsentNext ==
    ASSUME IInv, [Next]_vars
    PROVE  AbsentRows'
<1> USE ConstantsAssumption
<1> SUFFICES ASSUME NEW s \in Sensors, NEW v \in Versions, ~Exists(s, v)'
             PROVE  rows'[s][v] = NoRow
  BY DEF AbsentRows
<1>0. ~Exists(s, v) /\ rows[s][v] = NoRow
  BY RowsStay DEF IInv, AbsentRows
<1>1. CASE VersionsKept
  <2>1. rows'[s][v] \in Row
    BY TypeNext DEF IInv, TypeOK
  <2> QED
    BY <1>0, <1>1, <2>1 DEF VersionsKept, Exists, Row, NoRow
<1>2. ASSUME NEW s0 \in Sensors, NEW c \in Configurations, Inserted(s0, c)
      PROVE  rows'[s][v] = NoRow
  <2>1. rows'[s][v] # NewRow(c)
    BY DEF Exists, NewRow
  <2> QED
    BY <1>0, <1>2, <2>1 DEF Inserted
<1>3. ASSUME NEW s0 \in Sensors, NEW cur \in Versions, NEW n \in Versions,
             NEW c \in Configurations, NEW old \in Row, Replaced(s0, cur, n, c, old)
      PROVE  rows'[s][v] = NoRow
  <2>1. rows'[s][v] # NewRow(c)
    BY DEF Exists, NewRow
  <2>2. rows'[s][v] # old
    BY <1>3 DEF Replaced, IsCurrent, Exists
  <2> QED
    BY <1>0, <1>3, <2>1, <2>2 DEF Replaced
<1> QED
  BY <1>1, <1>2, <1>3, RowSteps

(***************************************************************************)
(* The version after the current one is free.                              *)
(***************************************************************************)
LEMMA NextIsFree ==
    ASSUME IInv, NEW s \in Sensors, NEW cur \in Versions, NEW n \in Versions,
           IsCurrent(s, cur), IsNextVersion(s, n)
    PROVE  n = cur + 1 /\ ~Exists(s, n)
<1> USE ConstantsAssumption
<1>1. PICK v \in Versions :
        /\ IsCurrent(s, v)
        /\ \A w \in Versions : (w <= v) = Exists(s, w)
        /\ \A w \in Versions \ {v} : ~rows[s][w].isCurrent
  BY DEF IInv, OneCurrent, Registered, IsCurrent
<1>2. v = cur
  BY <1>1 DEF IsCurrent
<1> QED
  BY <1>1, <1>2 DEF IsNextVersion, Versions

LEMMA OneCurrentNext ==
    ASSUME IInv, [Next]_vars
    PROVE  OneCurrent'
<1> USE ConstantsAssumption
<1> DEFINE Good(s) ==
        \E v \in Versions :
            /\ IsCurrent(s, v)
            /\ \A w \in Versions : (w <= v) = Exists(s, w)
            /\ \A w \in Versions \ {v} : ~rows[s][w].isCurrent
<1> SUFFICES ASSUME NEW s \in Sensors, Registered(s)'
             PROVE  Good(s)'
  BY DEF OneCurrent
<1>0. ASSUME \A v \in Versions : rows'[s][v] = rows[s][v]
      PROVE  Good(s)'
  <2>1. Registered(s)
    BY <1>0 DEF Registered, Exists
  <2>2. Good(s)
    BY <2>1 DEF IInv, OneCurrent
  <2> QED
    BY <1>0, <2>2 DEF IsCurrent, Exists
<1>1. CASE VersionsKept
  <2>1. Registered(s)
    BY <1>1 DEF VersionsKept, Registered
  <2>2. Good(s)
    BY <2>1 DEF IInv, OneCurrent
  <2>3. ASSUME NEW v \in Versions
        PROVE  IsCurrent(s, v)' = IsCurrent(s, v) /\ Exists(s, v)' = Exists(s, v)
    BY <1>1 DEF VersionsKept, IsCurrent
  <2> QED
    BY <1>1, <2>2, <2>3 DEF VersionsKept
<1>2. ASSUME NEW s0 \in Sensors, NEW c \in Configurations, Inserted(s0, c)
      PROVE  Good(s)'
  <2>1. CASE s = s0
    <3>1. \A v \in Versions : v # 1 => rows'[s][v] = NoRow
      BY <1>2, <2>1 DEF Inserted, IInv, AbsentRows
    <3>2. 1 \in Versions /\ rows'[s][1] = NewRow(c)
      BY <1>2, <2>1 DEF Inserted, Versions
    <3> QED
      BY <3>1, <3>2 DEF IsCurrent, Exists, NoRow, NewRow, Versions
  <2>2. CASE s # s0
    BY <1>0, <1>2, <2>2 DEF Inserted
  <2> QED
    BY <2>1, <2>2
<1>3. ASSUME NEW s0 \in Sensors, NEW cur \in Versions, NEW n \in Versions,
             NEW c \in Configurations, NEW old \in Row, Replaced(s0, cur, n, c, old)
      PROVE  Good(s)'
  <2>1. CASE s = s0
    <3>1. PICK v \in Versions :
            /\ IsCurrent(s, v)
            /\ \A w \in Versions : (w <= v) = Exists(s, w)
            /\ \A w \in Versions \ {v} : ~rows[s][w].isCurrent
      BY <1>3, <2>1 DEF Replaced, IInv, OneCurrent, Registered, IsCurrent
    <3>2. v = cur /\ n = cur + 1 /\ old.isCurrent = FALSE /\ old.status # "ABSENT"
      BY <1>3, <2>1, <3>1 DEF Replaced, IsCurrent, Exists
    <3>3. rows'[s][n] = NewRow(c)
      BY <1>3, <2>1 DEF Replaced
    <3>4. rows'[s][cur] = old
      BY <1>3, <2>1 DEF Replaced, Versions
    <3>5. \A w \in Versions : w # n /\ w # cur => rows'[s][w] = rows[s][w]
      BY <1>3, <2>1 DEF Replaced
    <3>7. IsCurrent(s, n)'
      BY <3>3 DEF IsCurrent, Exists, NewRow
    <3>8. ASSUME NEW w \in Versions PROVE (w <= n) = Exists(s, w)'
      BY <3>1, <3>2, <3>3, <3>4, <3>5 DEF Exists, NewRow, Versions
    <3>9. ASSUME NEW w \in Versions \ {n} PROVE ~rows'[s][w].isCurrent
      BY <3>1, <3>2, <3>4, <3>5
    <3> QED
      BY <3>7, <3>8, <3>9
  <2>2. CASE s # s0
    BY <1>0, <1>3, <2>2 DEF Replaced
  <2> QED
    BY <2>1, <2>2
<1> QED
  BY <1>1, <1>2, <1>3, RowSteps

LEMMA OtherSteps ==
    ASSUME IInv, [SyncNext \/ DeviceNext \/ WorkerNext \/ StrayNext]_vars
    PROVE  VersionsKept /\ edits' = edits
<1>1. rows' = rows => VersionsKept
  BY DEF VersionsKept, Exists
<1>2. CASE SyncNext
  <2>1. PICK r \in Syncs :
          SyncRead(r) \/ SyncPublish(r) \/ SyncCommit(r) \/ SyncFail(r) \/ SyncForget(r)
    BY <1>2 DEF SyncNext
  <2>2. CASE SyncCommit(r)
    BY <2>2, SyncKeeps DEF SyncCommit
  <2>3. CASE SyncRead(r) \/ SyncPublish(r) \/ SyncFail(r) \/ SyncForget(r)
    BY <1>1, <2>3 DEF SyncRead, SyncPublish, SyncFail, SyncForget, dbVars
  <2> QED
    BY <2>1, <2>2, <2>3
<1>3. CASE DeviceNext \/ StrayNext
  BY <1>1, <1>3 DEF DeviceNext, StrayNext, DeviceConnect, DeviceDisconnect,
                    DeviceReceive, StrayAck, apiVars
<1>4. CASE WorkerNext
  BY <1>1, <1>4, AckKeeps
  DEF WorkerNext, AckTake, AckRead, AckReject, AckCommit, WorkerCrash, apiVars
<1>5. CASE UNCHANGED vars
  BY <1>1, <1>5 DEF vars
<1> QED
  BY <1>2, <1>3, <1>4, <1>5

(***************************************************************************)
(* Requests keep what they rely on as long as the versions of their sensor *)
(* and its current one stay the same.                                      *)
(***************************************************************************)
LEMMA LocalsKept ==
    ASSUME NEW e, LocalsOK(e),
           e.op = "updating" =>
              \A v \in Versions :
                /\ Exists(e.sensor, v)' = Exists(e.sensor, v)
                /\ rows'[e.sensor][v].isCurrent = rows[e.sensor][v].isCurrent
    PROVE  LocalsOK(e)'
  BY DEF LocalsOK, IsCurrent

LEMMA EditLocalsNext ==
    ASSUME IInv, [Next]_vars
    PROVE  EditLocals'
<1> USE ConstantsAssumption
<1>0. \A w \in Edits : LocalsOK(edits[w])
  BY DEF IInv, EditLocals
<1>i. LocalsOK(IdleEdit)' /\ LocalsOK([IdleEdit EXCEPT !.op = "conflict"])'
  BY DEF LocalsOK, IdleEdit
<1>1. ASSUME VersionsKept, NEW w \in Edits, edits'[w] = edits[w]
      PROVE  LocalsOK(edits[w])'
  <2>1. PICK e : e = edits[w]
    OBVIOUS
  <2>2. LocalsOK(e)'
    BY <1>0, <1>1, <2>1, LocalsKept DEF VersionsKept, LocalsOK
  <2> QED
    BY <1>1, <2>1, <2>2 DEF LocalsOK, IsCurrent, Exists
<1>2. CASE [SyncNext \/ DeviceNext \/ WorkerNext \/ StrayNext]_vars
  BY <1>1, <1>2, OtherSteps DEF EditLocals
<1>3. CASE EditNext
  <2>k. rows' = rows => VersionsKept
    BY DEF VersionsKept, Exists
  <2>1. ASSUME NEW u \in Edits, NEW e, edits' = [edits EXCEPT ![u] = e],
               LocalsOK(e)', VersionsKept
        PROVE  EditLocals'
    <3>1. \A w \in Edits : edits'[w] = IF w = u THEN e ELSE edits[w]
      BY <2>1 DEF IInv, TypeOK
    <3> SUFFICES ASSUME NEW w \in Edits PROVE LocalsOK(edits[w])'
      BY DEF EditLocals
    <3>2. CASE w = u
      BY <2>1, <3>1, <3>2 DEF LocalsOK, IsCurrent, Exists
    <3>3. CASE w # u
      BY <1>1, <2>1, <3>1, <3>3
    <3> QED
      BY <3>2, <3>3
  <2>2. ASSUME NEW u \in Edits, NEW s \in Sensors, NEW c \in Configurations,
               CreateRead(u, s, c)
        PROVE  EditLocals'
    BY <2>1, <2>2, <2>k DEF CreateRead, LocalsOK
  <2>3. ASSUME NEW u \in Edits, NEW s \in Sensors, NEW c \in Configurations,
               UpdateRead(u, s, c)
        PROVE  EditLocals'
    <3>1. PICK cur \in Versions, n \in Versions :
            /\ IsCurrent(s, cur)
            /\ IsNextVersion(s, n)
            /\ edits' = [edits EXCEPT ![u] =
                    [op |-> "updating", sensor |-> s, current |-> cur,
                     status |-> rows[s][cur].status, next |-> n,
                     configuration |-> c]]
      BY <2>3 DEF UpdateRead
    <3>2. PICK status : status = rows[s][cur].status
      OBVIOUS
    <3>3. PICK e : e = [op |-> "updating", sensor |-> s, current |-> cur,
                        status |-> status, next |-> n, configuration |-> c]
      OBVIOUS
    <3>4. rows' = rows
      BY <2>3 DEF UpdateRead
    <3>5. n = cur + 1 /\ ~Exists(s, n)
      BY <3>1, NextIsFree
    <3>6. LocalsOK(e)'
      BY <3>1, <3>3, <3>4, <3>5 DEF LocalsOK, IsCurrent, Exists
    <3> QED
      BY <2>1, <2>k, <3>1, <3>2, <3>3, <3>4, <3>6
  <2>4. ASSUME NEW u \in Edits, EditAbort(u)
        PROVE  EditLocals'
    BY <1>i, <2>1, <2>4, <2>k DEF EditAbort
  <2>5. ASSUME NEW u \in Edits, NEW e, edits' = [edits EXCEPT ![u] = e], LocalsOK(e)',
               \A w \in Edits \ {u} : edits[w].op = "updating" =>
                  \A v \in Versions : rows'[edits[w].sensor][v] = rows[edits[w].sensor][v]
        PROVE  EditLocals'
    <3>1. \A w \in Edits : edits'[w] = IF w = u THEN e ELSE edits[w]
      BY <2>5 DEF IInv, TypeOK
    <3> SUFFICES ASSUME NEW w \in Edits PROVE LocalsOK(edits[w])'
      BY DEF EditLocals
    <3>2. CASE w = u
      BY <2>5, <3>1, <3>2 DEF LocalsOK, IsCurrent, Exists
    <3>3. CASE w # u
      <4>1. PICK f : f = edits[w]
        OBVIOUS
      <4>2. LocalsOK(f)'
        BY <1>0, <2>5, <3>3, <4>1, LocalsKept DEF Exists
      <4> QED
        BY <3>1, <3>3, <4>1, <4>2 DEF LocalsOK, IsCurrent, Exists
    <3> QED
      BY <3>2, <3>3
  <2>6. ASSUME NEW u \in Edits, CreateCommit(u)
        PROVE  EditLocals'
    <3>1. PICK e \in {IdleEdit, [IdleEdit EXCEPT !.op = "conflict"]} :
            edits' = [edits EXCEPT ![u] = e]
      BY <2>6 DEF CreateCommit
    <3>2. CASE rows' = rows
      BY <1>i, <2>1, <2>k, <3>1, <3>2
    <3>3. CASE rows' # rows
      <4>1. PICK s0 \in Sensors, c \in Configurations : Inserted(s0, c)
        BY <2>6, <3>3, CreateInserts
      <4>2. ASSUME NEW w \in Edits \ {u}, edits[w].op = "updating", NEW v \in Versions
            PROVE  rows'[edits[w].sensor][v] = rows[edits[w].sensor][v]
        <5>1. edits[w].sensor \in Sensors /\ edits[w].sensor # s0
          BY <1>0, <4>1, <4>2 DEF LocalsOK, IsCurrent, Inserted
        <5> QED
          BY <4>1, <5>1 DEF Inserted
      <4> QED
        BY <1>i, <2>5, <3>1, <4>2
    <3> QED
      BY <3>2, <3>3
  <2>7. ASSUME NEW u \in Edits, UpdateCommit(u)
        PROVE  EditLocals'
    <3>1. PICK e \in {IdleEdit, [IdleEdit EXCEPT !.op = "conflict"]} :
            edits' = [edits EXCEPT ![u] = e]
      BY <2>7 DEF UpdateCommit
    <3>2. CASE rows' = rows
      BY <1>i, <2>1, <2>k, <3>1, <3>2
    <3>3. CASE rows' # rows
      <4>1. PICK s0 \in Sensors, cur \in Versions, n \in Versions,
                 c \in Configurations, old \in Row :
              s0 = edits[u].sensor /\ Replaced(s0, cur, n, c, old)
        BY <2>7, <3>3, UpdateReplaces
      <4>2. ASSUME NEW w \in Edits \ {u}, edits[w].op = "updating", NEW v \in Versions
            PROVE  rows'[edits[w].sensor][v] = rows[edits[w].sensor][v]
        <5>1. edits[w].sensor \in Sensors /\ edits[w].sensor # s0
          BY <1>0, <2>7, <4>1, <4>2 DEF LocalsOK, IInv, LockHeldOnce, UpdateCommit
        <5> QED
          BY <4>1, <5>1 DEF Replaced
      <4> QED
        BY <1>i, <2>5, <3>1, <4>2
    <3> QED
      BY <3>2, <3>3
  <2> QED
    BY <1>3, <2>2, <2>3, <2>4, <2>6, <2>7 DEF EditNext
<1> QED
  BY <1>2, <1>3 DEF Next

LEMMA LockHeldOnceNext ==
    ASSUME IInv, [Next]_vars
    PROVE  LockHeldOnce'
<1>0. LockHeldOnce /\ edits \in [Edits -> Edit]
  BY DEF IInv, TypeOK
<1>1. CASE [SyncNext \/ DeviceNext \/ WorkerNext \/ StrayNext]_vars
  BY <1>0, <1>1, OtherSteps DEF LockHeldOnce
<1>2. CASE EditNext
  <2>1. ASSUME NEW u \in Edits, NEW e, edits' = [edits EXCEPT ![u] = e], e.op # "updating"
        PROVE  LockHeldOnce'
    BY <1>0, <2>1 DEF LockHeldOnce
  <2>2. ASSUME NEW u \in Edits, NEW s \in Sensors, NEW c \in Configurations,
               UpdateRead(u, s, c)
        PROVE  LockHeldOnce'
    <3>1. PICK cur \in Versions, n \in Versions :
            edits' = [edits EXCEPT ![u] =
                [op |-> "updating", sensor |-> s, current |-> cur,
                 status |-> rows[s][cur].status, next |-> n,
                 configuration |-> c]]
      BY <2>2 DEF UpdateRead
    <3>2. edits'[u].sensor = s /\ \A w \in Edits \ {u} : edits'[w] = edits[w]
      BY <1>0, <3>1
    <3> QED
      BY <1>0, <2>2, <3>2 DEF LockHeldOnce, UpdateRead, SensorLocked
  <2>3. ASSUME NEW u \in Edits, NEW s \in Sensors, NEW c \in Configurations,
               CreateRead(u, s, c)
        PROVE  LockHeldOnce'
    <3>1. edits'[u].op = "creating" /\ \A w \in Edits \ {u} : edits'[w] = edits[w]
      BY <1>0, <2>3 DEF CreateRead
    <3> QED
      BY <1>0, <3>1 DEF LockHeldOnce
  <2>4. ASSUME NEW u \in Edits, CreateCommit(u) \/ UpdateCommit(u) \/ EditAbort(u)
        PROVE  LockHeldOnce'
    <3>1. PICK e \in {IdleEdit, [IdleEdit EXCEPT !.op = "conflict"]} :
            edits' = [edits EXCEPT ![u] = e]
      BY <2>4 DEF CreateCommit, UpdateCommit, EditAbort
    <3>2. e.op # "updating"
      BY DEF IdleEdit
    <3> QED
      BY <2>1, <3>1, <3>2
  <2> QED
    BY <1>2, <2>2, <2>3, <2>4 DEF EditNext
<1> QED
  BY <1>1, <1>2 DEF Next

LEMMA SyncLocalsNext ==
    ASSUME IInv, [Next]_vars
    PROVE  SyncLocals'
<1> USE ConstantsAssumption
<1>0. SyncLocals /\ syncs \in [Syncs -> Sync]
  BY DEF IInv, TypeOK
<1>1. ASSUME syncs' = syncs, accepted' = accepted
      PROVE  SyncLocals'
  BY <1>0, <1>1, RowsStay DEF SyncLocals
<1>2. CASE SyncNext
  <2>1. PICK r \in Syncs :
          SyncRead(r) \/ SyncPublish(r) \/ SyncCommit(r) \/ SyncFail(r) \/ SyncForget(r)
    BY <1>2 DEF SyncNext
  <2> SUFFICES ASSUME NEW q \in Syncs, NEW s \in Sensors, NEW v \in Versions,
                      syncs'[q].pc # "idle", Carries(syncs'[q].snapshot, s, v)
               PROVE  /\ Exists(s, v)'
                      /\ syncs'[q].pc = "accepted" => <<s, v>> \in accepted'
    BY DEF SyncLocals, Carries
  <2>2. accepted \subseteq accepted'
    BY <2>1 DEF SyncRead, SyncPublish, SyncCommit, SyncFail, SyncForget, historyVars
  <2>3. CASE q # r
    <3>1. syncs'[q] = syncs[q]
      BY <1>0, <2>1, <2>3 DEF SyncRead, SyncPublish, SyncCommit, SyncFail, SyncForget
    <3> QED
      BY <1>0, <2>2, <3>1, RowsStay DEF SyncLocals
  <2>4. CASE q = r /\ SyncRead(r)
    <3>1. syncs'[r].snapshot[s] = CurrentVersion(s) /\ syncs'[r].pc = "publishing"
      BY <1>0, <2>4 DEF SyncRead
    <3>2. CurrentVersion(s) = v /\ v # 0
      BY <2>4, <3>1 DEF Carries
    <3>3. IsCurrent(s, v)
      BY <3>2 DEF CurrentVersion
    <3> QED
      BY <2>4, <3>1, <3>3, RowsStay DEF IsCurrent
  <2>5. CASE q = r /\ SyncPublish(r)
    <3>1. /\ syncs[r].pc # "idle"
          /\ syncs'[r] = IF syncs[r].pc = "abandoned" THEN IdleSync
                         ELSE [syncs[r] EXCEPT !.pc = "accepted"]
      BY <1>0, <2>5 DEF SyncPublish
    <3>2. syncs'[r].snapshot = syncs[r].snapshot
      BY <1>0, <2>5, <3>1 DEF IdleSync, Sync
    <3>3. Carries(syncs[r].snapshot, s, v) /\ <<s, v>> \in accepted'
      BY <2>5, <3>2 DEF SyncPublish
    <3> QED
      BY <1>0, <3>1, <3>3, RowsStay DEF SyncLocals
  <2>6. CASE q = r /\ (SyncCommit(r) \/ SyncForget(r))
    BY <1>0, <2>6 DEF SyncCommit, SyncForget, IdleSync
  <2>7. CASE q = r /\ SyncFail(r)
    <3>1. /\ syncs[r].pc # "idle"
          /\ syncs'[r] = [syncs[r] EXCEPT !.pc = "abandoned"] \/ syncs'[r] = IdleSync
      BY <1>0, <2>7 DEF SyncFail
    <3>2. syncs'[r].snapshot = syncs[r].snapshot /\ syncs'[r].pc = "abandoned"
      BY <1>0, <2>7, <3>1 DEF IdleSync, Sync
    <3> QED
      BY <1>0, <2>7, <3>1, <3>2, RowsStay DEF SyncLocals
  <2> QED
    BY <2>1, <2>3, <2>4, <2>5, <2>6, <2>7
<1>3. CASE EditNext
  BY <1>1, <1>3 DEF EditNext, CreateRead, UpdateRead, CreateCommit, UpdateCommit,
                    EditAbort, historyVars
<1>4. CASE DeviceNext \/ StrayNext
  BY <1>1, <1>4 DEF DeviceNext, StrayNext, DeviceConnect, DeviceDisconnect,
                    DeviceReceive, StrayAck, apiVars, historyVars
<1>5. CASE WorkerNext
  BY <1>1, <1>5 DEF WorkerNext, AckTake, AckRead, AckReject, AckCommit, WorkerCrash,
                    apiVars, historyVars
<1>6. CASE UNCHANGED vars
  BY <1>1, <1>6 DEF vars
<1> QED
  BY <1>2, <1>3, <1>4, <1>5, <1>6 DEF Next

LEMMA TxnLocalsNext ==
    ASSUME IInv, [Next]_vars
    PROVE  TxnLocals'
<1> USE ConstantsAssumption
<1>0. TxnLocals /\ txn \in Txn
  BY DEF IInv, TypeOK
<1> SUFFICES ASSUME NEW x \in Sensors, NEW v \in Versions, <<x, v>> \in Assigned'
             PROVE  Exists(x, v)'
  BY DEF TxnLocals
<1>1. CASE txn' = txn
  BY <1>0, <1>1, RowsStay DEF TxnLocals, Assigned
<1>2. CASE txn'.handled = {}
  BY <1>2 DEF Assigned
<1>3. ASSUME NEW s \in Sensors, NEW w \in Versions, AckRead(s, w)
      PROVE  Exists(x, v)'
  <2>1. /\ txn'.handled = txn.handled \cup {<<s, w>>}
        /\ \A p \in Results \ {<<s, w>>} : txn'.loaded[p] = txn.loaded[p]
    BY <1>0, <1>3 DEF AckRead, Txn
  <2>2. CASE <<x, v>> = <<s, w>>
    BY <1>3, <2>1, <2>2 DEF AckRead, Exists
  <2>3. CASE <<x, v>> # <<s, w>>
    BY <1>0, <2>1, <2>3, RowsStay DEF TxnLocals, Assigned, Results
  <2> QED
    BY <2>2, <2>3
<1>4. CASE EditNext \/ SyncNext \/ DeviceNext \/ StrayNext
  BY <1>1, <1>4
  DEF EditNext, CreateRead, UpdateRead, CreateCommit, UpdateCommit, EditAbort,
      SyncNext, SyncRead, SyncPublish, SyncCommit, SyncFail, SyncForget,
      DeviceNext, DeviceConnect, DeviceDisconnect, DeviceReceive,
      StrayNext, StrayAck, workerVars
<1>5. CASE WorkerNext
  <2>1. NoTxn.handled = {} /\ \A a : [NoTxn EXCEPT !.active = TRUE, !.ack = a].handled = {}
    BY DEF NoTxn
  <2>2. ASSUME AckTake PROVE Exists(x, v)'
    <3>1. txn' = [NoTxn EXCEPT !.active = TRUE, !.ack = Head(acks)]
      BY <2>2 DEF AckTake
    <3> QED
      BY <1>2, <2>1, <3>1
  <2>3. ASSUME txn' = NoTxn PROVE Exists(x, v)'
    BY <1>2, <2>1, <2>3
  <2> QED
    BY <1>3, <1>5, <2>2, <2>3 DEF WorkerNext, AckReject, AckCommit, WorkerCrash
<1>6. CASE UNCHANGED vars
  BY <1>1, <1>6 DEF vars
<1> QED
  BY <1>3, <1>4, <1>5, <1>6 DEF Next

(***************************************************************************)
(* Statuses: who may write PUBLISHED and APPLIED, and after what.          *)
(***************************************************************************)
StatusesOK == AppliedWasAcknowledged /\ PublishedWasAccepted

LEMMA StatusesKept ==
    ASSUME IInv, accepted \subseteq accepted', honoured \subseteq honoured',
           \A s \in Sensors, v \in Versions :
              \/ rows'[s][v].status = rows[s][v].status
              \/ rows'[s][v].status \notin {"APPLIED", "PUBLISHED"}
    PROVE  StatusesOK'
  BY DEF IInv, StatusesOK, AppliedWasAcknowledged, PublishedWasAccepted

LEMMA StatusesNext ==
    ASSUME IInv, [Next]_vars
    PROVE  StatusesOK'
<1> USE ConstantsAssumption
<1>1. CASE EditNext
  <2>1. accepted' = accepted /\ honoured' = honoured
    BY <1>1 DEF EditNext, CreateRead, UpdateRead, CreateCommit, UpdateCommit,
                EditAbort, historyVars
  <2>2. PICK u \in Edits :
            \/ \E s \in Sensors, c \in Configurations :
                CreateRead(u, s, c) \/ UpdateRead(u, s, c)
            \/ CreateCommit(u)
            \/ UpdateCommit(u)
            \/ EditAbort(u)
    BY <1>1 DEF EditNext
  <2>3. CASE rows' = rows
    BY <2>1, <2>3, StatusesKept
  <2>4. CASE CreateCommit(u) /\ rows' # rows
    <3>1. PICK s0 \in Sensors, c \in Configurations : Inserted(s0, c)
      BY <2>4, CreateInserts
    <3> QED
      BY <2>1, <3>1, StatusesKept DEF Inserted, NewRow
  <2>5. CASE UpdateCommit(u) /\ rows' # rows
    <3>1. PICK s0 \in Sensors, cur \in Versions, n \in Versions,
               c \in Configurations, old \in Row : Replaced(s0, cur, n, c, old)
      BY <2>5, UpdateReplaces
    <3> QED
      BY <2>1, <3>1, StatusesKept DEF Replaced, NewRow
  <2> QED
    BY <2>2, <2>3, <2>4, <2>5 DEF CreateRead, UpdateRead, EditAbort
<1>2. ASSUME rows' = rows, accepted \subseteq accepted', honoured \subseteq honoured'
      PROVE  StatusesOK'
  BY <1>2, StatusesKept
<1>3. ASSUME NEW r \in Syncs, SyncCommit(r)
      PROVE  StatusesOK'
  <2> SUFFICES ASSUME NEW s \in Sensors, NEW v \in Versions
               PROVE  /\ rows'[s][v].status = "APPLIED" => <<s, v>> \in honoured'
                      /\ rows'[s][v].status = "PUBLISHED" => <<s, v>> \in accepted'
    BY DEF StatusesOK, AppliedWasAcknowledged, PublishedWasAccepted
  <2>1. honoured' = honoured /\ accepted' = accepted
    BY <1>3 DEF SyncCommit, historyVars
  <2>2. rows'[s][v] = IF Carries(syncs[r].snapshot, s, v)
                      THEN PublishedRow(rows[s][v], syncs[r].status[s])
                      ELSE rows[s][v]
    BY <1>3 DEF SyncCommit
  <2>3. /\ rows[s][v].status = "APPLIED" => <<s, v>> \in honoured
        /\ rows[s][v].status = "PUBLISHED" => <<s, v>> \in accepted
        /\ rows[s][v] \in Row
    BY DEF IInv, TypeOK, AppliedWasAcknowledged, PublishedWasAccepted
  <2>4. CASE Carries(syncs[r].snapshot, s, v)
    <3>1. <<s, v>> \in accepted
      BY <1>3, <2>4 DEF IInv, SyncLocals, SyncCommit
    <3>2. rows'[s][v].status = rows[s][v].status \/ rows'[s][v].status = "PUBLISHED"
      BY <2>2, <2>3, <2>4 DEF PublishedRow, Flush, Row
    <3> QED
      BY <2>1, <2>3, <3>1, <3>2
  <2> QED
    BY <2>1, <2>2, <2>3, <2>4
<1>4. CASE SyncNext
  BY <1>2, <1>3, <1>4
  DEF SyncNext, SyncRead, SyncPublish, SyncFail, SyncForget, dbVars, historyVars
<1>5. CASE DeviceNext \/ StrayNext
  BY <1>2, <1>5 DEF DeviceNext, StrayNext, DeviceConnect, DeviceDisconnect,
                    DeviceReceive, StrayAck, historyVars
<1>6. CASE AckCommit
  <2> SUFFICES ASSUME NEW s \in Sensors, NEW v \in Versions
               PROVE  /\ rows'[s][v].status = "APPLIED" => <<s, v>> \in honoured'
                      /\ rows'[s][v].status = "PUBLISHED" => <<s, v>> \in accepted'
    BY DEF StatusesOK, AppliedWasAcknowledged, PublishedWasAccepted
  <2>1. /\ accepted' = accepted
        /\ honoured' = honoured \cup
            {p \in Assigned : txn.ack[p] = "APPLIED"}
    BY <1>6 DEF AckCommit
  <2>2. rows'[s][v] = IF <<s, v>> \in Assigned
                      THEN AckedRow(rows[s][v], txn.loaded[<<s, v>>], txn.ack[<<s, v>>])
                      ELSE rows[s][v]
    BY <1>6 DEF AckCommit, AckedRows
  <2>3. /\ rows[s][v].status = "APPLIED" => <<s, v>> \in honoured
        /\ rows[s][v].status = "PUBLISHED" => <<s, v>> \in accepted
        /\ rows[s][v] \in Row
    BY DEF IInv, TypeOK, AppliedWasAcknowledged, PublishedWasAccepted
  <2>4. CASE <<s, v>> \in Assigned
    <3>1. /\ txn.ack[<<s, v>>] \in {"APPLIED", "FAILED"}
          /\ \/ rows'[s][v].status = rows[s][v].status
             \/ rows'[s][v].status = txn.ack[<<s, v>>]
      BY <1>6, <2>2, <2>3, <2>4, AssignedHasResult DEF AckedRow, Flush, Row, IInv
    <3>2. txn.ack[<<s, v>>] = "APPLIED" => <<s, v>> \in honoured'
      BY <2>1, <2>4
    <3> QED
      BY <2>1, <2>3, <3>1, <3>2
  <2> QED
    BY <2>1, <2>2, <2>3, <2>4
<1>7. CASE WorkerNext
  BY <1>2, <1>6, <1>7 DEF WorkerNext, AckTake, AckRead, AckReject, WorkerCrash, historyVars
<1>8. CASE UNCHANGED vars
  BY <1>2, <1>8 DEF vars
<1> QED
  BY <1>1, <1>4, <1>5, <1>7, <1>8 DEF Next

-----------------------------------------------------------------------------
LEMMA IInvInit == Init => IInv
<1> USE ConstantsAssumption
<1> SUFFICES ASSUME Init PROVE IInv
  OBVIOUS
<1>1. TypeOK
  BY TypeInit
<1>2. \A s \in Sensors, v \in Versions : rows[s][v] = NoRow
  BY DEF Init
<1>3. AbsentRows /\ OneCurrent /\ AppliedWasAcknowledged /\ PublishedWasAccepted
  <2>1. \A s \in Sensors, v \in Versions : rows[s][v].status = "ABSENT"
    BY <1>2 DEF NoRow
  <2>2. AbsentRows
    BY <1>2 DEF AbsentRows
  <2>3. OneCurrent
    BY <2>1 DEF OneCurrent, Registered, Exists
  <2> QED
    BY <2>1, <2>2, <2>3 DEF AppliedWasAcknowledged, PublishedWasAccepted
<1>4. EditLocals /\ LockHeldOnce
  BY DEF Init, EditLocals, LocalsOK, LockHeldOnce, IdleEdit
<1>5. SyncLocals /\ TxnLocals
  BY DEF Init, SyncLocals, IdleSync, TxnLocals, Assigned, NoTxn
<1> QED
  BY <1>1, <1>3, <1>4, <1>5 DEF IInv

LEMMA IInvNext == IInv /\ [Next]_vars => IInv'
<1> SUFFICES ASSUME IInv, [Next]_vars PROVE IInv'
  OBVIOUS
<1>1. TypeOK'
  BY TypeNext DEF IInv
<1>2. AbsentRows' /\ OneCurrent' /\ EditLocals' /\ LockHeldOnce'
  BY AbsentNext, OneCurrentNext, EditLocalsNext, LockHeldOnceNext
<1>3. SyncLocals' /\ TxnLocals' /\ StatusesOK'
  BY SyncLocalsNext, TxnLocalsNext, StatusesNext
<1> QED
  BY <1>1, <1>2, <1>3 DEF IInv, StatusesOK

(***************************************************************************)
(* The parts of IInv hold together of every state: the rows, what requests *)
(* and acknowledgements in progress rely on, and what the broker and the   *)
(* worker have seen.                                                       *)
(***************************************************************************)
THEOREM Inductive == Spec => []IInv
  BY IInvInit, IInvNext, PTL DEF Spec

(***************************************************************************)
(* Every registered sensor always has exactly one current version, its     *)
(* highest, whatever synchronizations, acknowledgements and concurrent     *)
(* edits write.                                                            *)
(***************************************************************************)
THEOREM AlwaysOneCurrent == Spec => []OneCurrent
<1>1. IInv => OneCurrent
  BY DEF IInv
<1> QED
  BY <1>1, Inductive, PTL

(***************************************************************************)
(* A request that holds the row lock never hits a unique index: the 409    *)
(* CONFIGURATION_VERSION_CONFLICT branch is dead.                          *)
(***************************************************************************)
THEOREM UpdatesNeverConflict == Spec => []UpdateNeverConflicts
<1>1. IInv => UpdateNeverConflicts
  <2> SUFFICES ASSUME IInv, NEW u \in Edits, edits[u].op = "updating"
               PROVE  ~VersionConflict(edits[u])
    BY DEF UpdateNeverConflicts
  <2>1. PICK s \in Sensors, cur \in Versions :
          /\ s = edits[u].sensor /\ cur = edits[u].current
          /\ IsCurrent(s, cur) /\ ~Exists(s, edits[u].next)
    BY DEF IInv, EditLocals, LocalsOK
  <2>2. \A v \in Versions \ {cur} : ~IsCurrent(s, v)
    BY <2>1 DEF IInv, OneCurrent, Registered, IsCurrent
  <2>3. ~SupersededRow(edits[u]).isCurrent
    <3>1. rows[s][cur] \in Row
      BY DEF IInv, TypeOK
    <3>2. PICK status, isCurrent :
            /\ status = Flush(rows[s][cur].status, edits[u].status, "SUPERSEDED")
            /\ isCurrent = Flush(rows[s][cur].isCurrent, TRUE, FALSE)
      OBVIOUS
    <3>3. SupersededRow(edits[u]) =
            [rows[s][cur] EXCEPT !.status = status, !.isCurrent = isCurrent]
      BY <2>1, <3>2 DEF SupersededRow
    <3> QED
      BY <3>1, <3>2, <3>3 DEF Flush, Row
  <2> QED
    BY <2>1, <2>2, <2>3 DEF VersionConflict
<1> QED
  BY <1>1, Inductive, PTL

(***************************************************************************)
(* APPLIED is never written without an acknowledgement of exactly that     *)
(* version whose every result was known.                                   *)
(***************************************************************************)
THEOREM AppliedOnlyIfAcknowledged == Spec => []AppliedWasAcknowledged
<1>1. IInv => AppliedWasAcknowledged
  BY DEF IInv
<1> QED
  BY <1>1, Inductive, PTL

(***************************************************************************)
(* PUBLISHED is never written for a version the broker has not accepted.   *)
(***************************************************************************)
THEOREM PublishedOnlyIfAccepted == Spec => []PublishedWasAccepted
<1>1. IInv => PublishedWasAccepted
  BY DEF IInv
<1> QED
  BY <1>1, Inductive, PTL

-----------------------------------------------------------------------------
(***************************************************************************)
(* Refinement: the rows implement the versioned register.                  *)
(***************************************************************************)
LEMMA CurrentVersionIs ==
    ASSUME OneCurrent, NEW s \in Sensors, NEW v \in Versions, IsCurrent(s, v)
    PROVE  CurrentVersion(s) = v
<1>1. \A w \in Versions : IsCurrent(s, w) => w = v
  BY DEF OneCurrent, Registered, IsCurrent
<1> QED
  BY <1>1 DEF CurrentVersion

LEMMA UnregisteredVersion ==
    ASSUME NEW s \in Sensors, \A v \in Versions : ~Exists(s, v)
    PROVE  CurrentVersion(s) = 0
  BY DEF CurrentVersion, IsCurrent

\* A sensor whose rows keep their current version keeps its number.
LEMMA CurrentVersionKept ==
    ASSUME NEW s \in Sensors,
           \A v \in Versions : IsCurrent(s, v)' = IsCurrent(s, v)
    PROVE  CurrentVersion(s)' = CurrentVersion(s)
  BY DEF CurrentVersion

LEMMA HistoryInitially == Init => History!HistoryInit
<1> USE ConstantsAssumption
<1> SUFFICES ASSUME Init PROVE History!HistoryInit
  OBVIOUS
<1>1. \A s \in Sensors, v \in Versions : rows[s][v] = NoRow
  BY DEF Init
<1>2. \A s \in Sensors : CurrentVersion(s) = 0
  BY <1>1, UnregisteredVersion DEF Exists, NoRow
<1>3. \A s \in Sensors, v \in Versions : rows[s][v].configuration = NoConfiguration
  BY <1>1 DEF NoRow
<1> QED
  BY <1>2, <1>3 DEF History!HistoryInit, Versions

LEMMA HistoryStep ==
    ASSUME IInv, IInv', [Next]_vars
    PROVE  [History!HistoryNext]_(History!abstractVars)
<1> USE ConstantsAssumption
<1> DEFINE cur == [s \in Sensors |-> CurrentVersion(s)]
           hist == [s \in Sensors |-> [v \in Versions |-> rows[s][v].configuration]]
<1>1. CASE VersionsKept
  <2>1. \A s \in Sensors : CurrentVersion(s)' = CurrentVersion(s)
    BY <1>1, CurrentVersionKept DEF VersionsKept, IsCurrent
  <2>2. \A s \in Sensors, v \in Versions : rows'[s][v].configuration = rows[s][v].configuration
    BY <1>1 DEF VersionsKept
  <2>3. cur' = cur /\ hist' = hist
    BY <2>1, <2>2
  <2> QED
    BY <2>3 DEF History!abstractVars
<1>2. ASSUME NEW s0 \in Sensors, NEW c \in Configurations, NEW n \in Versions,
             CurrentVersion(s0) = n - 1, CurrentVersion(s0)' = n,
             \A s \in Sensors \ {s0} : CurrentVersion(s)' = CurrentVersion(s),
             \A s \in Sensors, v \in Versions :
                rows'[s][v].configuration =
                    IF s = s0 /\ v = n THEN c ELSE rows[s][v].configuration
      PROVE  History!HistoryNext
  <2>1. cur[s0] < MaxVersion
    BY <1>2 DEF Versions
  <2>2. cur' = [cur EXCEPT ![s0] = @ + 1]
    <3>1. \A s \in Sensors : cur'[s] = [cur EXCEPT ![s0] = @ + 1][s]
      BY <1>2 DEF Versions
    <3> QED
      BY <3>1
  <2>3. hist' = [hist EXCEPT ![s0][cur[s0] + 1] = c]
    <3>1. cur[s0] + 1 = n
      BY <1>2 DEF Versions
    <3>2. [hist EXCEPT ![s0][n] = c] = [hist EXCEPT ![s0] = [@ EXCEPT ![n] = c]]
      OBVIOUS
    <3>3. \A s \in Sensors, v \in Versions :
            hist'[s][v] = [hist EXCEPT ![s0] = [@ EXCEPT ![n] = c]][s][v]
      BY <1>2
    <3>4. \A s \in Sensors : hist'[s] = [hist EXCEPT ![s0] = [@ EXCEPT ![n] = c]][s]
      BY <3>3
    <3> QED
      BY <3>1, <3>2, <3>4
  <2> QED
    BY <2>1, <2>2, <2>3 DEF History!HistoryNext, History!Accept, Versions
<1>3. ASSUME NEW s0 \in Sensors, NEW c \in Configurations, Inserted(s0, c)
      PROVE  History!HistoryNext
  <2>1. 1 \in Versions /\ CurrentVersion(s0) = 1 - 1
    BY <1>3, UnregisteredVersion DEF Inserted, Versions
  <2>2. IsCurrent(s0, 1)'
    BY <1>3, <2>1 DEF Inserted, IsCurrent, Exists, NewRow
  <2>3. CurrentVersion(s0)' = 1
    <3>1. OneCurrent'
      BY DEF IInv
    <3>2. \A w \in Versions : IsCurrent(s0, w)' => w = 1
      BY <2>1, <2>2, <3>1 DEF OneCurrent, Registered, IsCurrent
    <3> QED
      BY <2>1, <2>2, <3>2 DEF CurrentVersion
  <2>4. \A s \in Sensors \ {s0} : CurrentVersion(s)' = CurrentVersion(s)
    BY <1>3, CurrentVersionKept DEF Inserted, IsCurrent, Exists
  <2>5. \A s \in Sensors, v \in Versions :
          rows'[s][v].configuration =
              IF s = s0 /\ v = 1 THEN c ELSE rows[s][v].configuration
    BY <1>3 DEF Inserted, NewRow
  <2> QED
    BY <1>2, <2>1, <2>3, <2>4, <2>5
<1>4. ASSUME NEW s0 \in Sensors, NEW v0 \in Versions, NEW n \in Versions,
             NEW c \in Configurations, NEW old \in Row, Replaced(s0, v0, n, c, old)
      PROVE  History!HistoryNext
  <2>1. CurrentVersion(s0) = n - 1
    BY <1>4, CurrentVersionIs DEF Replaced, IInv, Versions
  <2>2. IsCurrent(s0, n)'
    BY <1>4 DEF Replaced, IsCurrent, Exists, NewRow
  <2>3. CurrentVersion(s0)' = n
    <3>1. OneCurrent'
      BY DEF IInv
    <3>2. \A w \in Versions : IsCurrent(s0, w)' => w = n
      BY <2>2, <3>1 DEF OneCurrent, Registered, IsCurrent
    <3> QED
      BY <2>2, <3>2 DEF CurrentVersion
  <2>4. \A s \in Sensors \ {s0} : CurrentVersion(s)' = CurrentVersion(s)
    BY <1>4, CurrentVersionKept DEF Replaced, IsCurrent, Exists
  <2>5. \A s \in Sensors, v \in Versions :
          rows'[s][v].configuration =
              IF s = s0 /\ v = n THEN c ELSE rows[s][v].configuration
    BY <1>4 DEF Replaced, NewRow
  <2> QED
    BY <1>2, <2>1, <2>3, <2>4, <2>5
<1> QED
  BY <1>1, <1>3, <1>4, RowSteps

(***************************************************************************)
(* Accepted payloads are numbered from 1, never changed and never lost:    *)
(* the configuration rows implement ConfigurationHistory.                  *)
(***************************************************************************)
THEOREM RowsImplementHistory == Spec => ImplementsHistory
  BY Inductive, HistoryInitially, HistoryStep, PTL
  DEF Spec, ImplementsHistory, History!HistorySpec

-----------------------------------------------------------------------------
(***************************************************************************)
(* Delivery: a connected device knows the retained snapshot or is about    *)
(* to.  What it applied stays applicable because the rows a snapshot names *)
(* exist, and keep their payload.                                          *)
(***************************************************************************)
RetainedExists ==
    \A s \in Sensors, v \in Versions : retained[s] = v => Exists(s, v)

DeliveryIInv == IInv /\ RetainedExists /\ DeviceWillKnow

LEMMA PayloadStays ==
    ASSUME IInv, [Next]_vars, NEW s \in Sensors, NEW v \in Versions, Exists(s, v)
    PROVE  rows'[s][v].configuration = rows[s][v].configuration
<1>1. CASE VersionsKept
  BY <1>1 DEF VersionsKept
<1>2. ASSUME NEW s0 \in Sensors, NEW c \in Configurations, Inserted(s0, c)
      PROVE  rows'[s][v].configuration = rows[s][v].configuration
  BY <1>2 DEF Inserted
<1>3. ASSUME NEW s0 \in Sensors, NEW cur \in Versions, NEW n \in Versions,
             NEW c \in Configurations, NEW old \in Row, Replaced(s0, cur, n, c, old)
      PROVE  rows'[s][v].configuration = rows[s][v].configuration
  BY <1>3 DEF Replaced
<1> QED
  BY <1>1, <1>2, <1>3, RowSteps

LEMMA ApplicableStays ==
    ASSUME IInv, [Next]_vars, NEW s \in Sensors, NEW v \in Versions, Exists(s, v)
    PROVE  Exists(s, v)' /\ Applies(s, v)' = Applies(s, v)
  BY RowsStay, PayloadStays DEF Applies

LEMMA DeliveryInitially == Init => DeliveryIInv
<1> SUFFICES ASSUME Init PROVE RetainedExists /\ DeviceWillKnow
  BY IInvInit DEF DeliveryIInv
<1> QED
  BY ConstantsAssumption DEF Init, RetainedExists, DeviceWillKnow, Nothing, Versions

\* The two ways to know the retained snapshot after a step.
LEMMA OnItsWay ==
    ASSUME inbox' # <<>>, inbox'[Len(inbox')] = retained'
    PROVE  DeviceWillKnow'
  BY Zenon DEF DeviceWillKnow

LEMMA HasApplied ==
    ASSUME inbox' = <<>>,
           \A s \in Sensors, v \in Versions :
              retained'[s] = v /\ Applies(s, v)' => running'[s] = v
    PROVE  DeviceWillKnow'
  BY Zenon DEF DeviceWillKnow

\* Every step that neither publishes nor reaches the device.
LEMMA DeliveryElsewhere ==
    ASSUME DeliveryIInv, [Next]_vars, UNCHANGED <<retained, deviceVars>>
    PROVE  RetainedExists' /\ DeviceWillKnow'
<1> USE DEF DeliveryIInv, deviceVars
<1>1. RetainedExists'
  BY ApplicableStays DEF RetainedExists
<1>2. \A s \in Sensors, v \in Versions :
        retained[s] = v => Applies(s, v)' = Applies(s, v)
  BY ApplicableStays DEF RetainedExists
<1>3. DeviceWillKnow'
  BY <1>2 DEF DeviceWillKnow
<1> QED
  BY <1>1, <1>3

LEMMA DeliveryPublish ==
    ASSUME DeliveryIInv, NEW r \in Syncs, SyncPublish(r)
    PROVE  RetainedExists' /\ DeviceWillKnow'
<1> USE DEF DeliveryIInv
<1>1. /\ syncs[r].pc # "idle" /\ retained' = syncs[r].snapshot
      /\ rows' = rows /\ connected' = connected
      /\ connected => inbox' = Append(inbox, syncs[r].snapshot)
  BY DEF SyncPublish, dbVars
<1>2. RetainedExists'
  <2> SUFFICES ASSUME NEW s \in Sensors, NEW v \in Versions, syncs[r].snapshot[s] = v
               PROVE  Exists(s, v)'
    BY <1>1 DEF RetainedExists
  <2>1. Carries(syncs[r].snapshot, s, v)
    BY ConstantsAssumption DEF Carries, Versions
  <2>2. Exists(s, v)
    BY <1>1, <2>1 DEF IInv, SyncLocals
  <2> QED
    BY <1>1, <2>2 DEF Exists
<1>3. ASSUME connected PROVE inbox' # <<>> /\ inbox'[Len(inbox')] = retained'
  <2>1. inbox \in Seq(Snapshot) /\ syncs[r].snapshot \in Snapshot
    BY DEF IInv, TypeOK, Sync
  <2> QED
    BY <1>1, <1>3, <2>1
<1> QED
  BY <1>1, <1>2, <1>3 DEF DeviceWillKnow

LEMMA DeliveryDevice ==
    ASSUME DeliveryIInv, DeviceNext
    PROVE  RetainedExists' /\ DeviceWillKnow'
<1> USE DEF DeliveryIInv
<1>1. UNCHANGED <<rows, retained>>
  BY DEF DeviceNext, DeviceConnect, DeviceDisconnect, DeviceReceive
<1>2. RetainedExists'
  BY <1>1 DEF RetainedExists, Exists
<1>3. CASE DeviceConnect
  <2>1. CASE retained = Nothing
    <3>1. inbox' = <<>> /\ \A s \in Sensors : retained'[s] \notin Versions
      BY <1>1, <1>3, <2>1, ConstantsAssumption DEF DeviceConnect, Nothing, Versions
    <3> QED
      BY <1>2, <3>1, HasApplied
  <2>2. CASE retained # Nothing
    <3>1. inbox' = <<retained>>
      BY <1>3, <2>2 DEF DeviceConnect
    <3>2. inbox' # <<>> /\ inbox'[Len(inbox')] = retained'
      BY <1>1, <3>1
    <3> QED
      BY <1>2, <3>2, OnItsWay
  <2> QED
    BY <1>2, <2>1, <2>2
<1>4. ASSUME NEW restart \in BOOLEAN, DeviceDisconnect(restart) PROVE DeviceWillKnow'
  BY <1>4 DEF DeviceDisconnect, DeviceWillKnow
<1>5. ASSUME NEW copies \in 0..2, DeviceReceive(copies) PROVE DeviceWillKnow'
  <2>1. /\ connected /\ inbox # <<>> /\ inbox' = Tail(inbox)
        /\ running' = [s \in Sensors |-> AppliedVersion(Head(inbox), s)]
    BY <1>5 DEF DeviceReceive
  <2>2. inbox \in Seq(Snapshot) /\ inbox[Len(inbox)] = retained
    BY <2>1 DEF IInv, TypeOK, DeviceWillKnow
  <2>3. CASE inbox' # <<>>
    <3>1. inbox'[Len(inbox')] = inbox[Len(inbox)]
      BY <2>1, <2>2, <2>3
    <3> QED
      BY <1>1, <2>2, <2>3, <3>1, OnItsWay
  <2>4. CASE inbox' = <<>>
    <3>1. Head(inbox) = retained
      <4>1. Len(inbox) \in Nat \ {0} /\ Len(Tail(inbox)) = Len(inbox) - 1
        BY <2>1, <2>2
      <4>2. Len(inbox) = 1
        BY <2>1, <2>4, <4>1
      <4> QED
        BY <2>2, <4>2
    <3>2. \A s \in Sensors, v \in Versions :
            retained[s] = v /\ Applies(s, v) => running'[s] = v
      BY <2>1, <3>1, ConstantsAssumption DEF AppliedVersion, Versions
    <3> QED
      BY <1>1, <2>4, <3>2, HasApplied DEF Applies
  <2> QED
    BY <2>3, <2>4
<1> QED
  BY <1>2, <1>3, <1>4, <1>5 DEF DeviceNext

LEMMA DeliveryStep == DeliveryIInv /\ [Next]_vars => DeliveryIInv'
<1> SUFFICES ASSUME DeliveryIInv, [Next]_vars PROVE RetainedExists' /\ DeviceWillKnow'
  BY IInvNext DEF DeliveryIInv
<1>1. ASSUME NEW r \in Syncs, SyncRead(r) \/ SyncCommit(r) \/ SyncFail(r) \/ SyncForget(r)
      PROVE  UNCHANGED <<retained, deviceVars>>
  BY <1>1 DEF SyncRead, SyncCommit, SyncFail, SyncForget
<1>2. ASSUME EditNext \/ WorkerNext \/ StrayNext \/ UNCHANGED vars
      PROVE  UNCHANGED <<retained, deviceVars>>
  BY <1>2
  DEF EditNext, CreateRead, UpdateRead, CreateCommit, UpdateCommit, EditAbort,
      WorkerNext, AckTake, AckRead, AckReject, AckCommit, WorkerCrash,
      StrayNext, StrayAck, vars, deviceVars
<1> QED
  BY <1>1, <1>2, DeliveryElsewhere, DeliveryPublish, DeliveryDevice DEF Next, SyncNext

(***************************************************************************)
(* However many synchronizations publish, in whatever order, and whatever  *)
(* is lost with a connection: the retained snapshot is the last thing on   *)
(* its way to a connected device, or the device runs what it can apply of  *)
(* it.                                                                     *)
(***************************************************************************)
THEOREM RetainedReachesDevice == Spec => []DeviceWillKnow
<1>1. DeliveryIInv => DeviceWillKnow
  BY DEF DeliveryIInv
<1> QED
  BY <1>1, DeliveryInitially, DeliveryStep, PTL DEF Spec

=============================================================================
