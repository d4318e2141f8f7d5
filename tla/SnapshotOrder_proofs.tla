----------------------- MODULE SnapshotOrder_proofs -----------------------
(***************************************************************************)
(* Proofs about ConfigurationSync with one synchronization at a time and a *)
(* device that acknowledges what it received, for any sensors, payloads,   *)
(* edits and bounds: snapshots then reach broker, device and control       *)
(* worker in the order of their versions.                                  *)
(***************************************************************************)
EXTENDS ConfigurationSync_proofs

\* One synchronization at a time, an abandoned publish included.
OneSync == \A q, r \in Syncs : q = r

RetainedIsPast == \A s \in Sensors : retained[s] =< CurrentVersion(s)

\* The snapshot being published is between what is retained and what is current.
SyncAhead ==
    \A r \in Syncs : syncs[r].pc # "idle" =>
        /\ \A s \in Sensors : /\ retained[s] =< syncs[r].snapshot[s]
                              /\ syncs[r].snapshot[s] =< CurrentVersion(s)
        /\ syncs[r].pc = "accepted" => retained = syncs[r].snapshot

\* Snapshots on their way lie, in order, between what runs and what is retained.
InboxInOrder ==
    \A s \in Sensors :
        /\ running[s] =< retained[s]
        /\ \A i \in 1..Len(inbox) : /\ running[s] =< inbox[i][s]
                                    /\ inbox[i][s] =< retained[s]
        /\ \A i, j \in 1..Len(inbox) : i =< j => inbox[i][s] =< inbox[j][s]

\* Only what was retained is acknowledged.
AckPast(ack) ==
    \A s \in Sensors, v \in Versions : ack[<<s, v>>] # "NONE" => v =< retained[s]

AcksArePast ==
    /\ \A i \in 1..Len(acks) : AckPast(acks[i])
    /\ AckPast(txn.ack)

OrderIInv ==
    /\ IInv
    /\ RetainedIsPast
    /\ SyncAhead
    /\ InboxInOrder
    /\ AcksArePast
    /\ CurrentIsRetained

OrderOK ==
    RetainedIsPast' /\ SyncAhead' /\ InboxInOrder' /\ AcksArePast' /\ CurrentIsRetained'

LEMMA HonestSteps == [HonestNext]_vars => [Next]_vars
  BY DEF HonestNext, Next

CurrentVersionsOK == \A s \in Sensors : CurrentVersion(s) \in 0..MaxVersion

LEMMA CurrentVersionType == CurrentVersionsOK
  BY ConstantsAssumption DEF CurrentVersionsOK, CurrentVersion, Versions

LEMMA OrderTypes ==
  ASSUME IInv
  PROVE  /\ rows \in [Sensors -> [Versions -> Row]]
         /\ retained \in Snapshot /\ running \in Snapshot
         /\ inbox \in Seq(Snapshot) /\ acks \in Seq(Ack)
         /\ txn \in Txn /\ txn.ack \in Ack
         /\ syncs \in [Syncs -> Sync]
         /\ \A r \in Syncs : syncs[r].snapshot \in Snapshot
         /\ MaxVersion \in Nat
         /\ \A s \in Sensors : CurrentVersion(s) \in 0..MaxVersion
                               /\ retained[s] \in 0..MaxVersion
                               /\ running[s] \in 0..MaxVersion
         /\ Versions = 1..MaxVersion
<1>1. \A s \in Sensors : CurrentVersion(s) \in 0..MaxVersion
  BY CurrentVersionType DEF CurrentVersionsOK
<1>2. /\ rows \in [Sensors -> [Versions -> Row]]
      /\ retained \in Snapshot /\ running \in Snapshot
      /\ inbox \in Seq(Snapshot) /\ acks \in Seq(Ack)
      /\ txn \in Txn /\ syncs \in [Syncs -> Sync]
  BY DEF IInv, TypeOK
<1>3. txn.ack \in Ack
  BY <1>2 DEF Txn
<1>4. \A r \in Syncs : syncs[r].snapshot \in Snapshot
  BY <1>2 DEF Sync
<1>5. \A s \in Sensors : retained[s] \in 0..MaxVersion /\ running[s] \in 0..MaxVersion
  BY <1>2 DEF Snapshot
<1>6. MaxVersion \in Nat /\ Versions = 1..MaxVersion
  BY ConstantsAssumption DEF Versions
<1> QED
  BY <1>1, <1>2, <1>3, <1>4, <1>5, <1>6

\* The current version never goes back.
LEMMA CurrentGrows ==
  ASSUME IInv, IInv', [Next]_vars, NEW s \in Sensors
  PROVE  CurrentVersion(s) =< CurrentVersion(s)'
<1>1. CASE CurrentVersion(s) = 0
  BY <1>1, ConstantsAssumption DEF CurrentVersion, Versions
<1>2. CASE CurrentVersion(s) # 0
  <2>1. PICK v \in Versions : IsCurrent(s, v) /\ CurrentVersion(s) = v
    BY <1>2 DEF CurrentVersion
  <2>2. Exists(s, v)'
    BY <2>1, RowsStay DEF IsCurrent
  <2>3. PICK w \in Versions : IsCurrent(s, w)' /\ v =< w
    BY <2>2 DEF IInv, OneCurrent, Registered
  <2>4. CurrentVersion(s)' = w
    <3>1. \A x \in Versions : IsCurrent(s, x)' => x = w
      BY <2>3 DEF IInv, OneCurrent, Registered, IsCurrent
    <3> QED
      BY <2>3, <3>1 DEF CurrentVersion
  <2> QED
    BY <2>1, <2>3, <2>4
<1> QED
  BY <1>1, <1>2

LEMMA OrderInitially == Init => OrderIInv
<1> SUFFICES ASSUME Init PROVE OrderIInv
  OBVIOUS
<1>1. IInv
  BY IInvInit
<1>2. RetainedIsPast /\ SyncAhead
  BY <1>1, OrderTypes DEF Init, RetainedIsPast, SyncAhead, Nothing, IdleSync
<1>3. InboxInOrder
  BY DEF Init, InboxInOrder, Nothing
<1>4. AcksArePast
  BY DEF Init, AcksArePast, AckPast, NoTxn, NoResults, Results
<1>5. CurrentIsRetained
  BY DEF Init, CurrentIsRetained, NoRow, IsCurrent, Exists
<1> QED
  BY <1>1, <1>2, <1>3, <1>4, <1>5 DEF OrderIInv

LEMMA NoAckPast == AckPast(NoTxn.ack) /\ AckPast(NoTxn.ack)'
  BY DEF AckPast, NoTxn, NoResults, Results

\* Only the rows change: it remains to look at the rows that are now current.
LEMMA RowsKeepOrder ==
  ASSUME OrderIInv, IInv', [Next]_vars,
         UNCHANGED <<retained, running, inbox, acks>>,
         txn'.ack \in {txn.ack, NoTxn.ack},
         \A r \in Syncs : syncs'[r] \in {syncs[r], IdleSync},
         \A s \in Sensors, v \in Versions :
            IsCurrent(s, v)' /\ rows'[s][v].status # "PENDING" => retained[s] = v
  PROVE  OrderOK
<1> USE OrderTypes DEF OrderIInv
<1>1. \A s \in Sensors : CurrentVersion(s) =< CurrentVersion(s)'
                         /\ CurrentVersion(s)' \in Nat
  <2>1. CurrentVersionsOK'
    BY CurrentVersionType, PTL
  <2> QED
    BY <2>1, CurrentGrows DEF CurrentVersionsOK
<1>2. RetainedIsPast'
  BY <1>1 DEF RetainedIsPast
<1>3. SyncAhead'
  <2> SUFFICES ASSUME NEW r \in Syncs, syncs'[r].pc # "idle"
               PROVE  /\ syncs'[r] = syncs[r]
                      /\ \A s \in Sensors : syncs[r].snapshot[s] =< CurrentVersion(s)'
    BY DEF SyncAhead
  <2>1. syncs'[r] = syncs[r]
    BY DEF IdleSync
  <2>2. \A s \in Sensors : syncs[r].snapshot[s] \in Nat
    BY DEF Snapshot
  <2> QED
    BY <1>1, <2>1, <2>2 DEF SyncAhead
<1>4. InboxInOrder'
  BY DEF InboxInOrder
<1>5. AcksArePast'
  BY NoAckPast DEF AcksArePast, AckPast
<1>6. CurrentIsRetained'
  BY DEF CurrentIsRetained
<1> QED
  BY <1>2, <1>3, <1>4, <1>5, <1>6 DEF OrderOK

-----------------------------------------------------------------------------
(* One step per actor                                                      *)

LEMMA EditsKeepOrder ==
  ASSUME OrderIInv, IInv', EditNext
  PROVE  OrderOK
<1> USE OrderTypes DEF OrderIInv
<1>1. [Next]_vars
  BY DEF Next
<1>2. /\ UNCHANGED <<retained, running, inbox, acks, syncs, txn>>
      /\ \/ rows' = rows
         \/ \E s \in Sensors, c \in Configurations : Inserted(s, c)
         \/ \E s \in Sensors, cur, n \in Versions, c \in Configurations, old \in Row :
                Replaced(s, cur, n, c, old)
  <2>1. ASSUME NEW u \in Edits, NEW s \in Sensors, NEW c \in Configurations,
               CreateRead(u, s, c) \/ UpdateRead(u, s, c)
        PROVE  UNCHANGED <<rows, retained, running, inbox, acks, syncs, txn>>
    BY <2>1 DEF CreateRead, UpdateRead, deviceVars, workerVars
  <2>2. ASSUME NEW u \in Edits, EditAbort(u)
        PROVE  UNCHANGED <<rows, retained, running, inbox, acks, syncs, txn>>
    BY <2>2 DEF EditAbort, deviceVars, workerVars
  <2>3. ASSUME NEW u \in Edits, CreateCommit(u) \/ UpdateCommit(u)
        PROVE  UNCHANGED <<retained, running, inbox, acks, syncs, txn>>
    BY <2>3 DEF CreateCommit, UpdateCommit, deviceVars, workerVars
  <2> QED
    BY <2>1, <2>2, <2>3, CreateInserts, UpdateReplaces DEF EditNext
<1>3. ASSUME NEW s \in Sensors, NEW v \in Versions,
             IsCurrent(s, v)', rows'[s][v].status # "PENDING"
      PROVE  retained[s] = v
  <2>1. CASE rows' = rows
    BY <1>3, <2>1 DEF CurrentIsRetained, IsCurrent, Exists
  <2>2. ASSUME NEW s0 \in Sensors, NEW c \in Configurations, Inserted(s0, c)
        PROVE  retained[s] = v
    BY <1>3, <2>2 DEF Inserted, NewRow, CurrentIsRetained, IsCurrent, Exists
  <2>3. ASSUME NEW s0 \in Sensors, NEW cur \in Versions, NEW n \in Versions,
               NEW c \in Configurations, NEW old \in Row, Replaced(s0, cur, n, c, old)
        PROVE  retained[s] = v
    <3>1. CASE s = s0 /\ v \in {cur, n}
      BY <1>3, <2>3, <3>1 DEF Replaced, NewRow, IsCurrent
    <3>2. CASE ~(s = s0 /\ v \in {cur, n})
      <4>1. rows'[s][v] = rows[s][v]
        BY <2>3, <3>2 DEF Replaced
      <4> QED
        BY <1>3, <4>1 DEF CurrentIsRetained, IsCurrent, Exists
    <3> QED
      BY <3>1, <3>2
  <2> QED
    BY <1>2, <2>1, <2>2, <2>3
<1> QED
  BY <1>1, <1>2, <1>3, RowsKeepOrder

LEMMA SyncsKeepOrder ==
  ASSUME OneSync, OrderIInv, IInv', NEW r \in Syncs,
         SyncRead(r) \/ SyncPublish(r) \/ SyncCommit(r) \/ SyncFail(r) \/ SyncForget(r)
  PROVE  OrderOK
<1> USE OrderTypes DEF OrderIInv
<1>0. [Next]_vars
  BY DEF Next, SyncNext
<1>1. \A q \in Syncs : q = r
  BY DEF OneSync
<1>2. ASSUME UNCHANGED <<rows, retained, running, inbox, acks, txn>>, SyncAhead'
      PROVE  OrderOK
  BY <1>2, CurrentVersionKept
  DEF OrderOK, RetainedIsPast, InboxInOrder, AcksArePast, AckPast, CurrentIsRetained, IsCurrent, Exists
<1>3. CASE SyncRead(r)
  <2>1. UNCHANGED <<rows, retained, running, inbox, acks, txn>>
    BY <1>3 DEF SyncRead, dbVars, deviceVars, workerVars
  <2>2. syncs'[r].pc = "publishing"
        /\ \A s \in Sensors : syncs'[r].snapshot[s] = CurrentVersion(s)
    BY <1>3 DEF SyncRead
  <2>3. \A s \in Sensors : CurrentVersion(s)' = CurrentVersion(s)
    BY <2>1 DEF CurrentVersion, IsCurrent, Exists
  <2>4. SyncAhead'
    BY <1>1, <2>1, <2>2, <2>3 DEF SyncAhead, RetainedIsPast
  <2> QED
    BY <1>2, <2>1, <2>4
<1>4. CASE SyncFail(r) \/ SyncForget(r)
  <2>1. UNCHANGED <<rows, retained, running, inbox, acks, txn>>
    BY <1>4 DEF SyncFail, SyncForget, dbVars, deviceVars, workerVars
  <2>2. \/ syncs'[r].pc = "idle"
        \/ /\ syncs[r].pc # "idle" /\ syncs'[r].pc = "abandoned"
           /\ syncs'[r].snapshot = syncs[r].snapshot
    BY <1>4 DEF SyncFail, SyncForget, IdleSync, Sync
  <2>3. \A s \in Sensors : CurrentVersion(s)' = CurrentVersion(s)
    BY <2>1 DEF CurrentVersion, IsCurrent, Exists
  <2>4. SyncAhead'
    BY <1>1, <2>1, <2>2, <2>3 DEF SyncAhead
  <2> QED
    BY <1>2, <2>1, <2>4
<1>5. CASE SyncCommit(r)
  <2>1. /\ syncs[r].pc = "accepted" /\ retained = syncs[r].snapshot
        /\ UNCHANGED <<retained, running, inbox, acks, txn>>
        /\ syncs'[r] = IdleSync
        /\ \A s \in Sensors, v \in Versions :
             rows'[s][v] = rows[s][v] \/ syncs[r].snapshot[s] = v
    BY <1>5 DEF SyncCommit, SyncAhead, Carries, deviceVars, workerVars
  <2>2. VersionsKept
    BY <1>5, SyncKeeps
  <2>3. ASSUME NEW s \in Sensors, NEW v \in Versions,
               IsCurrent(s, v)', rows'[s][v].status # "PENDING"
        PROVE  retained[s] = v
    BY <2>1, <2>2, <2>3 DEF VersionsKept, CurrentIsRetained, IsCurrent
  <2> QED
    BY <1>0, <1>1, <2>1, <2>3, RowsKeepOrder
<1>6. CASE SyncPublish(r)
  <2> DEFINE new == syncs[r].snapshot
  <2>1. /\ retained' = new
        /\ UNCHANGED <<rows, running, acks, txn>>
        /\ inbox' \in {inbox, Append(inbox, new)}
        /\ syncs'[r].pc # "idle" => syncs'[r].snapshot = new
    BY <1>6 DEF SyncPublish, IdleSync, Sync, dbVars, workerVars
  <2>2. \A s \in Sensors : /\ new[s] \in 0..MaxVersion
                            /\ retained[s] =< new[s] /\ new[s] =< CurrentVersion(s)
    BY <1>6 DEF SyncPublish, SyncAhead, Snapshot
  <2>3. \A s \in Sensors : CurrentVersion(s)' = CurrentVersion(s)
    BY <2>1 DEF CurrentVersion, IsCurrent, Exists
  <2>4. RetainedIsPast' /\ SyncAhead'
    BY <1>1, <2>1, <2>2, <2>3 DEF RetainedIsPast, SyncAhead
  <2>5. InboxInOrder'
    <3> SUFFICES ASSUME NEW s \in Sensors
                 PROVE  /\ running[s] =< new[s]
                        /\ \A i \in 1..Len(inbox') : /\ running[s] =< inbox'[i][s]
                                                     /\ inbox'[i][s] =< new[s]
                        /\ \A i, j \in 1..Len(inbox') :
                                i =< j => inbox'[i][s] =< inbox'[j][s]
      BY <2>1 DEF InboxInOrder
    <3>1. \A i \in 1..Len(inbox) : inbox[i][s] \in 0..MaxVersion
      BY DEF Snapshot
    <3>2. running[s] =< new[s] /\ \A i \in 1..Len(inbox) : inbox[i][s] =< new[s]
      <4>1. running[s] =< retained[s] /\ \A i \in 1..Len(inbox) : inbox[i][s] =< retained[s]
        BY DEF InboxInOrder
      <4>2. retained[s] \in Nat /\ running[s] \in Nat /\ new[s] \in Nat
            /\ retained[s] =< new[s]
        BY <2>2
      <4> QED
        BY <3>1, <4>1, <4>2
    <3>3. CASE inbox' = inbox
      BY <3>2, <3>3 DEF InboxInOrder
    <3>4. CASE inbox' = Append(inbox, new)
      <4>1. Len(inbox') = Len(inbox) + 1 /\ Len(inbox) \in Nat
        BY <3>4
      <4>2. \A i \in 1..Len(inbox') :
              inbox'[i] = IF i = Len(inbox) + 1 THEN new ELSE inbox[i]
        BY <3>4
      <4>3. \A i \in 1..Len(inbox') : running[s] =< inbox'[i][s] /\ inbox'[i][s] =< new[s]
        <5> SUFFICES ASSUME NEW i \in 1..Len(inbox')
                     PROVE  running[s] =< inbox'[i][s] /\ inbox'[i][s] =< new[s]
          OBVIOUS
        <5>1. CASE i = Len(inbox) + 1
          BY <2>2, <3>2, <4>2, <5>1
        <5>2. CASE i # Len(inbox) + 1
          <6>1. i \in 1..Len(inbox) /\ inbox'[i] = inbox[i]
            BY <4>1, <4>2, <5>2
          <6>2. running[s] =< inbox[i][s]
            BY <6>1 DEF InboxInOrder
          <6> QED
            BY <3>2, <6>1, <6>2
        <5> QED
          BY <5>1, <5>2
      <4>4. \A i, j \in 1..Len(inbox') : i =< j => inbox'[i][s] =< inbox'[j][s]
        <5> SUFFICES ASSUME NEW i \in 1..Len(inbox'), NEW j \in 1..Len(inbox'), i =< j
                     PROVE  inbox'[i][s] =< inbox'[j][s]
          OBVIOUS
        <5>1. CASE j = Len(inbox) + 1
          BY <4>2, <4>3, <5>1
        <5>2. CASE j # Len(inbox) + 1
          <6>1. i \in 1..Len(inbox) /\ j \in 1..Len(inbox)
                /\ inbox'[i] = inbox[i] /\ inbox'[j] = inbox[j]
            BY <4>1, <4>2, <5>2
          <6>2. inbox[i][s] =< inbox[j][s]
            BY <6>1 DEF InboxInOrder
          <6> QED
            BY <6>1, <6>2
        <5> QED
          BY <5>1, <5>2
      <4> QED
        BY <3>2, <4>3, <4>4
    <3> QED
      BY <2>1, <3>3, <3>4
  <2>6. AcksArePast'
    <3>1. ASSUME NEW ack, AckPast(ack) PROVE AckPast(ack)'
      <4>1. SUFFICES ASSUME NEW s \in Sensors, NEW v \in Versions, ack[<<s, v>>] # "NONE"
                     PROVE  v =< new[s]
        BY <2>1 DEF AckPast
      <4>2. v =< retained[s]
        BY <3>1, <4>1 DEF AckPast
      <4> QED
        BY <2>2, <4>2 DEF Versions
    <3> QED
      BY <2>1, <3>1 DEF AcksArePast
  <2>7. CurrentIsRetained'
    <3> SUFFICES ASSUME NEW s \in Sensors, NEW v \in Versions, IsCurrent(s, v),
                        rows[s][v].status # "PENDING"
                 PROVE  new[s] = v
      BY <2>1 DEF CurrentIsRetained, IsCurrent, Exists
    <3>1. retained[s] = v /\ CurrentVersion(s) = v
      BY CurrentVersionIs DEF CurrentIsRetained, IInv
    <3> QED
      BY <2>2, <3>1
  <2> QED
    BY <2>4, <2>5, <2>6, <2>7 DEF OrderOK
<1> QED
  BY <1>3, <1>4, <1>5, <1>6

\* The rows stay.
LEMMA RowsUnchanged ==
  ASSUME OrderIInv, UNCHANGED <<rows, retained, syncs>>, InboxInOrder', AcksArePast'
  PROVE  OrderOK
<1>1. \A s \in Sensors : CurrentVersion(s)' = CurrentVersion(s)
  BY DEF CurrentVersion, IsCurrent, Exists
<1>2. RetainedIsPast' /\ SyncAhead'
  BY <1>1 DEF OrderIInv, RetainedIsPast, SyncAhead
<1>3. CurrentIsRetained'
  BY DEF OrderIInv, CurrentIsRetained, IsCurrent, Exists
<1> QED
  BY <1>2, <1>3 DEF OrderOK

LEMMA DeviceKeepsOrder ==
  ASSUME OrderIInv, DeviceNext
  PROVE  OrderOK
<1> USE OrderTypes DEF OrderIInv
<1>1. UNCHANGED <<rows, retained, syncs, txn>>
  BY DEF DeviceNext, DeviceConnect, DeviceDisconnect, DeviceReceive, apiVars, workerVars
<1>2. CASE DeviceConnect
  <2>1. inbox' \in {<<>>, <<retained>>} /\ UNCHANGED <<running, acks>>
    BY <1>2 DEF DeviceConnect, workerVars
  <2>2. InboxInOrder'
    BY <1>1, <2>1 DEF InboxInOrder
  <2>3. AcksArePast'
    BY <1>1, <2>1 DEF AcksArePast, AckPast
  <2> QED
    BY <1>1, <2>2, <2>3, RowsUnchanged
<1>3. ASSUME NEW restart \in BOOLEAN, DeviceDisconnect(restart) PROVE OrderOK
  <2>1. inbox' = <<>> /\ acks' = acks /\ running' \in {running, Nothing}
    BY <1>3 DEF DeviceDisconnect, workerVars
  <2>2. InboxInOrder'
    BY <1>1, <2>1 DEF InboxInOrder, Nothing
  <2>3. AcksArePast'
    BY <1>1, <2>1 DEF AcksArePast, AckPast
  <2> QED
    BY <1>1, <2>2, <2>3, RowsUnchanged
<1>4. ASSUME NEW copies \in 0..2, DeviceReceive(copies) PROVE OrderOK
  <2> DEFINE snapshot == Head(inbox)
             new == [i \in 1..copies |-> DeviceAck(snapshot)]
  <2>1. /\ inbox # <<>> /\ inbox' = Tail(inbox) /\ acks' = acks \o new
        /\ \A s \in Sensors : running'[s] \in {running[s], snapshot[s]}
    BY <1>4 DEF DeviceReceive, AppliedVersion
  <2>2. /\ Len(inbox) \in Nat \ {0} /\ snapshot = inbox[1]
        /\ Len(inbox') = Len(inbox) - 1
        /\ \A i \in 1..Len(inbox') : i + 1 \in 1..Len(inbox) /\ inbox'[i] = inbox[i + 1]
    BY <2>1
  <2>3. InboxInOrder'
    <3> SUFFICES ASSUME NEW s \in Sensors
                 PROVE  /\ running'[s] =< retained[s]
                        /\ \A i \in 1..Len(inbox') : /\ running'[s] =< inbox'[i][s]
                                                     /\ inbox'[i][s] =< retained[s]
                        /\ \A i, j \in 1..Len(inbox') :
                                i =< j => inbox'[i][s] =< inbox'[j][s]
      BY <1>1 DEF InboxInOrder
    <3>0. /\ 1 \in 1..Len(inbox) /\ running'[s] \in {running[s], inbox[1][s]}
          /\ running[s] =< retained[s]
          /\ \A i \in 1..Len(inbox) : running[s] =< inbox[i][s] /\ inbox[i][s] =< retained[s]
      BY <2>1, <2>2 DEF InboxInOrder
    <3>1. running'[s] =< retained[s]
      BY <3>0
    <3>2. ASSUME NEW i \in 1..Len(inbox')
          PROVE  running'[s] =< inbox'[i][s] /\ inbox'[i][s] =< retained[s]
      <4>1. i + 1 \in 1..Len(inbox) /\ inbox'[i] = inbox[i + 1] /\ 1 =< i + 1
        BY <2>2
      <4>2. inbox[1][s] =< inbox[i + 1][s]
        BY <3>0, <4>1 DEF InboxInOrder
      <4> QED
        BY <3>0, <4>1, <4>2
    <3>3. ASSUME NEW i \in 1..Len(inbox'), NEW j \in 1..Len(inbox'), i =< j
          PROVE  inbox'[i][s] =< inbox'[j][s]
      <4>1. /\ i + 1 \in 1..Len(inbox) /\ inbox'[i] = inbox[i + 1]
            /\ j + 1 \in 1..Len(inbox) /\ inbox'[j] = inbox[j + 1]
        BY <2>2
      <4>2. i + 1 =< j + 1
        BY <3>3
      <4>3. inbox[i + 1][s] =< inbox[j + 1][s]
        BY <4>1, <4>2 DEF InboxInOrder
      <4> QED
        BY <4>1, <4>3
    <3> QED
      BY <3>1, <3>2, <3>3
  <2>4. AcksArePast'
    <3> SUFFICES ASSUME NEW i \in 1..Len(acks') PROVE AckPast(acks'[i])
      BY <1>1 DEF AcksArePast, AckPast
    <3>1. AckPast(DeviceAck(snapshot))
      BY <2>2 DEF InboxInOrder, AckPast, DeviceAck, Results
    <3>2. new \in Seq({DeviceAck(snapshot)}) /\ Len(new) = copies
      OBVIOUS
    <3>3. acks'[i] = DeviceAck(snapshot) \/ (i \in 1..Len(acks) /\ acks'[i] = acks[i])
      BY <2>1, <3>2
    <3> QED
      BY <3>1, <3>3 DEF AcksArePast
  <2> QED
    BY <1>1, <2>3, <2>4, RowsUnchanged
<1> QED
  BY <1>2, <1>3, <1>4 DEF DeviceNext

LEMMA WorkerKeepsOrder ==
  ASSUME OrderIInv, IInv', WorkerNext
  PROVE  OrderOK
<1> USE OrderTypes DEF OrderIInv
<1>1. /\ UNCHANGED <<retained, running, inbox, syncs>>
      /\ rows' = rows \/ AckCommit
  BY DEF WorkerNext, AckTake, AckRead, AckReject, AckCommit, WorkerCrash, apiVars, deviceVars
<1>2. InboxInOrder'
  BY <1>1 DEF InboxInOrder
<1>3. CASE AckTake
  <2>1. /\ rows' = rows /\ acks # <<>> /\ acks' = Tail(acks) /\ txn'.ack = Head(acks)
    BY <1>3 DEF AckTake, NoTxn
  <2>2. /\ Len(acks) \in Nat \ {0} /\ Head(acks) = acks[1]
        /\ \A i \in 1..Len(acks') : i + 1 \in 1..Len(acks) /\ acks'[i] = acks[i + 1]
    BY <2>1
  <2>3. ASSUME NEW i \in 1..Len(acks') PROVE AckPast(acks'[i])
    BY <2>2 DEF AcksArePast
  <2>4. AckPast(txn'.ack)
    BY <2>1, <2>2 DEF AcksArePast
  <2>5. AcksArePast'
    BY <1>1, <2>3, <2>4 DEF AcksArePast, AckPast
  <2> QED
    BY <1>1, <1>2, <2>1, <2>5, RowsUnchanged
<1>4. ASSUME NEW s \in Sensors, NEW v \in Versions, AckRead(s, v) PROVE OrderOK
  <2>1. rows' = rows /\ acks' = acks /\ txn'.ack = txn.ack
    BY <1>4 DEF AckRead, Txn
  <2>2. AcksArePast'
    BY <1>1, <2>1 DEF AcksArePast, AckPast
  <2> QED
    BY <1>1, <1>2, <2>1, <2>2, RowsUnchanged
<1>5. CASE WorkerCrash \/ \E s \in Sensors, v \in Versions : AckReject(s, v)
  <2>1. rows' = rows /\ acks' \in {acks, <<>>} /\ txn' = NoTxn
    BY <1>5 DEF WorkerCrash, AckReject
  <2>2. AcksArePast'
    BY <1>1, <2>1, NoAckPast DEF AcksArePast, AckPast
  <2> QED
    BY <1>1, <1>2, <2>1, <2>2, RowsUnchanged
<1>6. CASE AckCommit
  <2>1. /\ acks' = acks /\ txn' = NoTxn
        /\ \A s \in Sensors, v \in Versions :
             rows'[s][v] = rows[s][v] \/ txn.ack[<<s, v>>] # "NONE"
    BY <1>6, AssignedHasResult DEF AckCommit, AckedRows, IInv
  <2>2. VersionsKept
    BY <1>6, AckKeeps
  <2>3. ASSUME NEW s \in Sensors, NEW v \in Versions,
               IsCurrent(s, v)', rows'[s][v].status # "PENDING"
        PROVE  retained[s] = v
    <3>1. IsCurrent(s, v) /\ CurrentVersion(s) = v
      BY <2>2, <2>3, CurrentVersionIs DEF VersionsKept, IsCurrent, IInv
    <3>2. CASE rows'[s][v] = rows[s][v]
      BY <2>3, <3>1, <3>2 DEF CurrentIsRetained
    <3>3. CASE txn.ack[<<s, v>>] # "NONE"
      BY <3>1, <3>3 DEF AcksArePast, AckPast, RetainedIsPast
    <3> QED
      BY <2>1, <3>2, <3>3
  <2>4. [Next]_vars
    BY DEF Next
  <2> QED
    BY <1>1, <2>1, <2>3, <2>4, RowsKeepOrder
<1> QED
  BY <1>3, <1>4, <1>5, <1>6 DEF WorkerNext

LEMMA OrderStep ==
  ASSUME OneSync, OrderIInv, [HonestNext]_vars
  PROVE  OrderIInv'
<1>1. IInv'
  BY HonestSteps, IInvNext DEF OrderIInv
<1>2. OrderOK
  <2>1. CASE SyncNext
    BY <1>1, <2>1, SyncsKeepOrder DEF SyncNext
  <2>2. CASE UNCHANGED vars
    BY <2>2, RowsUnchanged DEF vars, OrderIInv, InboxInOrder, AcksArePast, AckPast
  <2> QED
    BY <1>1, <2>1, <2>2, EditsKeepOrder, DeviceKeepsOrder, WorkerKeepsOrder DEF HonestNext
<1> QED
  BY <1>1, <1>2 DEF OrderIInv, OrderOK

LEMMA OrderInductive == OneSync /\ HonestSpec => []OrderIInv
<1>1. ASSUME OneSync PROVE OrderIInv /\ [HonestNext]_vars => OrderIInv'
  BY <1>1, OrderStep
<1> SUFFICES ASSUME OneSync PROVE HonestSpec => []OrderIInv
  OBVIOUS
<1> QED
  BY <1>1, OrderInitially, PTL DEF HonestSpec

(***************************************************************************)
(* With one synchronization at a time, the snapshot the broker retains     *)
(* carries the current version of every sensor whose current row says that *)
(* it was published, however requests, failures and acknowledgements mix.  *)
(***************************************************************************)
THEOREM PublishedIsAlwaysRetained == OneSync /\ HonestSpec => []CurrentIsRetained
<1>1. OrderIInv => CurrentIsRetained
  BY DEF OrderIInv
<1> QED
  BY <1>1, OrderInductive, PTL

(***************************************************************************)
(* With one synchronization at a time, what a device receives never takes  *)
(* it back to an older version: snapshots reach it in the order of their   *)
(* versions, the retained one after a reconnection included.               *)
(***************************************************************************)
THEOREM DevicesNeverDowngrade == OneSync /\ HonestSpec => NeverDowngrades
<1>1. ASSUME OrderIInv, [HonestNext]_vars
      PROVE  [connected' => \A s \in Sensors : running'[s] >= running[s]]_running
  <2> USE <1>1, OrderTypes DEF OrderIInv
  <2>1. ASSUME NEW copies \in 0..2, DeviceReceive(copies), NEW s \in Sensors
        PROVE  running'[s] >= running[s]
    <3>1. running'[s] \in {running[s], Head(inbox)[s]} /\ inbox # <<>>
      BY <2>1 DEF DeviceReceive, AppliedVersion
    <3>2. Head(inbox) = inbox[1] /\ Len(inbox) \in Nat \ {0}
      BY <3>1
    <3>3. 1 \in 1..Len(inbox) /\ inbox[1] \in Snapshot
      BY <3>2
    <3>4. inbox[1][s] \in 0..MaxVersion /\ running[s] =< inbox[1][s]
      BY <3>3 DEF Snapshot, InboxInOrder
    <3> QED
      BY <3>1, <3>2, <3>4
  <2>2. ASSUME NEW restart \in BOOLEAN, DeviceDisconnect(restart) PROVE ~connected'
    BY <2>2 DEF DeviceDisconnect
  <2>3. ASSUME EditNext \/ SyncNext \/ WorkerNext \/ DeviceConnect \/ UNCHANGED vars
        PROVE  UNCHANGED running
    BY <2>3
    DEF EditNext, CreateRead, UpdateRead, CreateCommit, UpdateCommit, EditAbort,
        SyncNext, SyncRead, SyncPublish, SyncCommit, SyncFail, SyncForget,
        WorkerNext, AckTake, AckRead, AckReject, AckCommit, WorkerCrash,
        DeviceConnect, deviceVars, vars
  <2> QED
    BY <2>1, <2>2, <2>3 DEF HonestNext, DeviceNext
<1> QED
  BY <1>1, OrderInductive, PTL DEF HonestSpec, NeverDowngrades
-----------------------------------------------------------------------------
(***************************************************************************)
(* What APPLIED is worth: an honest device reports APPLIED only for what   *)
(* it can apply, and the worker honours nothing else.  No assumption about *)
(* the number of synchronizations is needed for that.                      *)
(***************************************************************************)
AckTruthful(ack) ==
    \A s \in Sensors, v \in Versions :
        ack[<<s, v>>] = "APPLIED" => Exists(s, v) /\ Applies(s, v)

InboxExists ==
    \A i \in 1..Len(inbox), s \in Sensors, v \in Versions :
        inbox[i][s] = v => Exists(s, v)

AcksTruthful ==
    /\ \A i \in 1..Len(acks) : AckTruthful(acks[i])
    /\ AckTruthful(txn.ack)

HonouredApplies ==
    \A s \in Sensors, v \in Versions :
        <<s, v>> \in honoured => Exists(s, v) /\ Applies(s, v)

TruthIInv == DeliveryIInv /\ InboxExists /\ AcksTruthful /\ HonouredApplies

TruthOK == InboxExists' /\ AcksTruthful' /\ HonouredApplies'

LEMMA TruthInitially == Init => TruthIInv
<1> SUFFICES ASSUME Init PROVE InboxExists /\ AcksTruthful /\ HonouredApplies
  BY DeliveryInitially DEF TruthIInv
<1> QED
  BY DEF Init, InboxExists, AcksTruthful, AckTruthful, HonouredApplies,
         NoTxn, NoResults, Results

\* `ack' will be truthful about the rows of the next state.
StillTruthful(ack) ==
    \A s \in Sensors, v \in Versions :
        ack[<<s, v>>] = "APPLIED" => Exists(s, v)' /\ Applies(s, v)'

LEMMA TruthStays ==
  ASSUME IInv, [Next]_vars, NEW ack, AckTruthful(ack)
  PROVE  StillTruthful(ack)
  BY ApplicableStays DEF AckTruthful, StillTruthful

LEMMA NoAckTruthful == StillTruthful(NoTxn.ack)
  BY DEF StillTruthful, NoTxn, NoResults, Results

\* Steps that only pass on, or drop, what is on its way.
LEMMA PassedOn ==
  ASSUME TruthIInv, [Next]_vars, UNCHANGED honoured,
         \A i \in 1..Len(inbox'), s \in Sensors, v \in Versions :
            inbox'[i][s] = v => Exists(s, v),
         \A i \in 1..Len(acks') : StillTruthful(acks'[i]),
         StillTruthful(txn'.ack)
  PROVE  TruthOK
<1> USE DEF TruthIInv, DeliveryIInv
<1>1. InboxExists'
  BY RowsStay DEF InboxExists
<1>2. AcksTruthful'
  BY DEF AcksTruthful, AckTruthful, StillTruthful
<1>3. HonouredApplies'
  BY ApplicableStays DEF HonouredApplies
<1> QED
  BY <1>1, <1>2, <1>3 DEF TruthOK

\* The acknowledgements that wait and the one in progress, after a step.
LEMMA AcksStay ==
  ASSUME TruthIInv, [Next]_vars
  PROVE  /\ \A i \in 1..Len(acks) : StillTruthful(acks[i])
         /\ StillTruthful(txn.ack)
  BY TruthStays DEF TruthIInv, DeliveryIInv, AcksTruthful

LEMMA EditsKeepTruth ==
  ASSUME TruthIInv, EditNext \/ UNCHANGED vars
  PROVE  TruthOK
<1>1. [Next]_vars
  BY DEF Next
<1>2. UNCHANGED <<inbox, acks, txn, honoured>>
  BY DEF EditNext, CreateRead, UpdateRead, CreateCommit, UpdateCommit, EditAbort,
         vars, deviceVars, workerVars, historyVars
<1> QED
  BY <1>1, <1>2, AcksStay, PassedOn DEF TruthIInv, InboxExists

LEMMA SyncsKeepTruth ==
  ASSUME TruthIInv, SyncNext
  PROVE  TruthOK
<1> USE DEF TruthIInv, DeliveryIInv
<1>1. [Next]_vars
  BY DEF Next
<1>2. UNCHANGED <<acks, txn, honoured>>
  BY DEF SyncNext, SyncRead, SyncPublish, SyncCommit, SyncFail, SyncForget,
         workerVars, historyVars
<1>3. ASSUME NEW r \in Syncs, SyncPublish(r),
             NEW i \in 1..Len(inbox'), NEW s \in Sensors, NEW v \in Versions,
             inbox'[i][s] = v
      PROVE  Exists(s, v)
  <2>1. inbox \in Seq(Snapshot) /\ syncs[r].snapshot \in Snapshot
    BY DEF IInv, TypeOK, Sync
  <2>2. inbox' = inbox \/ inbox' = Append(inbox, syncs[r].snapshot)
    BY <1>3 DEF SyncPublish
  <2>3. (i \in 1..Len(inbox) /\ inbox'[i] = inbox[i]) \/ inbox'[i] = syncs[r].snapshot
    BY <1>3, <2>1, <2>2
  <2>4. CASE i \in 1..Len(inbox) /\ inbox'[i] = inbox[i]
    BY <1>3, <2>4 DEF InboxExists
  <2>5. CASE inbox'[i] = syncs[r].snapshot
    <3>1. Carries(syncs[r].snapshot, s, v) /\ syncs[r].pc # "idle"
      BY <1>3, <2>5, ConstantsAssumption DEF Carries, Versions, SyncPublish
    <3> QED
      BY <3>1 DEF IInv, SyncLocals
  <2> QED
    BY <2>3, <2>4, <2>5
<1>4. ASSUME ~ \E r \in Syncs : SyncPublish(r) PROVE inbox' = inbox
  BY <1>4 DEF SyncNext, SyncRead, SyncCommit, SyncFail, SyncForget, deviceVars
<1>5. \A i \in 1..Len(inbox'), s \in Sensors, v \in Versions :
            inbox'[i][s] = v => Exists(s, v)
  <2>1. CASE \E r \in Syncs : SyncPublish(r)
    BY <1>3, <2>1
  <2>2. CASE ~ \E r \in Syncs : SyncPublish(r)
    BY <1>4, <2>2 DEF InboxExists
  <2> QED
    BY <2>1, <2>2
<1> QED
  BY <1>1, <1>2, <1>5, AcksStay, PassedOn

LEMMA DeviceKeepsTruth ==
  ASSUME TruthIInv, DeviceNext
  PROVE  TruthOK
<1> USE DEF TruthIInv, DeliveryIInv
<1>1. [Next]_vars
  BY DEF Next
<1>2. UNCHANGED <<rows, txn, honoured>>
  BY DEF DeviceNext, DeviceConnect, DeviceDisconnect, DeviceReceive, workerVars, historyVars
<1>3. inbox \in Seq(Snapshot) /\ acks \in Seq(Ack)
  BY DEF IInv, TypeOK
<1>4. ASSUME DeviceConnect \/ \E restart \in BOOLEAN : DeviceDisconnect(restart)
      PROVE  TruthOK
  <2>1. inbox' \in {<<>>, <<retained>>} /\ acks' = acks
    BY <1>4 DEF DeviceConnect, DeviceDisconnect, workerVars
  <2>2. \A i \in 1..Len(inbox') : inbox'[i] = retained
    BY <2>1
  <2> QED
    BY <1>1, <1>2, <2>1, <2>2, AcksStay, PassedOn DEF RetainedExists
<1>5. ASSUME NEW copies \in 0..2, DeviceReceive(copies) PROVE TruthOK
  <2> DEFINE snapshot == Head(inbox)
             new == [i \in 1..copies |-> DeviceAck(snapshot)]
  <2>1. inbox # <<>> /\ inbox' = Tail(inbox) /\ acks' = acks \o new
    BY <1>5 DEF DeviceReceive
  <2>2. /\ Len(inbox) \in Nat \ {0} /\ snapshot = inbox[1]
        /\ \A i \in 1..Len(inbox') : i + 1 \in 1..Len(inbox) /\ inbox'[i] = inbox[i + 1]
    BY <1>3, <2>1
  <2>3. \A i \in 1..Len(inbox'), s \in Sensors, v \in Versions :
            inbox'[i][s] = v => Exists(s, v)
    BY <2>2 DEF InboxExists
  <2>4. StillTruthful(DeviceAck(snapshot))
    <3> SUFFICES ASSUME NEW s \in Sensors, NEW v \in Versions,
                        DeviceAck(snapshot)[<<s, v>>] = "APPLIED"
                 PROVE  Exists(s, v)' /\ Applies(s, v)'
      BY DEF StillTruthful
    <3>1. snapshot[s] = v /\ Applies(s, v)
      BY DEF DeviceAck, Results
    <3>2. 1 \in 1..Len(inbox)
      BY <2>2
    <3>3. Exists(s, v)
      BY <2>2, <3>1, <3>2 DEF InboxExists
    <3> QED
      BY <1>2, <3>1, <3>3 DEF Exists, Applies
  <2>5. ASSUME NEW i \in 1..Len(acks') PROVE StillTruthful(acks'[i])
    <3>1. new \in Seq({DeviceAck(snapshot)}) /\ Len(new) = copies
      OBVIOUS
    <3>2. acks'[i] = DeviceAck(snapshot) \/ (i \in 1..Len(acks) /\ acks'[i] = acks[i])
      BY <1>3, <2>1, <3>1
    <3> QED
      BY <1>1, <2>4, <3>2, AcksStay
  <2> QED
    BY <1>1, <1>2, <2>3, <2>5, AcksStay, PassedOn
<1> QED
  BY <1>4, <1>5 DEF DeviceNext

LEMMA WorkerKeepsTruth ==
  ASSUME TruthIInv, WorkerNext
  PROVE  TruthOK
<1> USE DEF TruthIInv, DeliveryIInv
<1>1. [Next]_vars
  BY DEF Next
<1>2. inbox' = inbox
  BY DEF WorkerNext, AckTake, AckRead, AckReject, AckCommit, WorkerCrash, deviceVars
<1>3. acks \in Seq(Ack) /\ txn \in Txn
  BY DEF IInv, TypeOK
<1>4. \A i \in 1..Len(inbox'), s \in Sensors, v \in Versions :
            inbox'[i][s] = v => Exists(s, v)
  BY <1>2 DEF InboxExists
<1>5. \A i \in 1..Len(acks') : StillTruthful(acks'[i])
  <2>1. CASE acks # <<>> /\ acks' = Tail(acks)
    <3>1. \A i \in 1..Len(acks') : i + 1 \in 1..Len(acks) /\ acks'[i] = acks[i + 1]
      BY <1>3, <2>1
    <3> QED
      BY <1>1, <3>1, AcksStay
  <2>2. CASE acks' = acks
    BY <1>1, <2>2, AcksStay
  <2>3. CASE acks' = <<>>
    BY <2>3
  <2> QED
    BY <2>1, <2>2, <2>3 DEF WorkerNext, AckTake, AckRead, AckReject, AckCommit, WorkerCrash
<1>6. StillTruthful(txn'.ack)
  <2>1. CASE AckTake
    <3>1. acks # <<>> /\ txn'.ack = Head(acks)
      BY <2>1 DEF AckTake, NoTxn
    <3>2. 1 \in 1..Len(acks) /\ txn'.ack = acks[1]
      BY <1>3, <3>1
    <3> QED
      BY <1>1, <3>2, AcksStay
  <2>2. ASSUME NEW s \in Sensors, NEW v \in Versions, AckRead(s, v)
        PROVE  StillTruthful(txn'.ack)
    <3>1. txn'.ack = txn.ack
      BY <1>3, <2>2 DEF AckRead, Txn
    <3> QED
      BY <1>1, <3>1, AcksStay
  <2>3. CASE txn' = NoTxn
    BY <2>3, NoAckTruthful
  <2> QED
    BY <2>1, <2>2, <2>3 DEF WorkerNext, AckReject, AckCommit, WorkerCrash
<1>7. CASE AckCommit
  <2>1. InboxExists'
    BY <1>1, <1>4, RowsStay DEF InboxExists
  <2>2. AcksTruthful'
    BY <1>5, <1>6 DEF AcksTruthful, AckTruthful, StillTruthful
  <2>3. ASSUME NEW s \in Sensors, NEW v \in Versions, <<s, v>> \in honoured'
        PROVE  Exists(s, v)' /\ Applies(s, v)'
    <3>1. CASE <<s, v>> \in honoured
      BY <1>1, <3>1, ApplicableStays DEF HonouredApplies
    <3>2. CASE txn.ack[<<s, v>>] = "APPLIED"
      BY <1>1, <3>2, AcksStay DEF StillTruthful
    <3> QED
      BY <1>7, <2>3, <3>1, <3>2 DEF AckCommit
  <2> QED
    BY <2>1, <2>2, <2>3 DEF TruthOK, HonouredApplies
<1>8. CASE ~AckCommit
  <2>1. UNCHANGED honoured
    BY <1>8 DEF WorkerNext, AckTake, AckRead, AckReject, WorkerCrash, historyVars
  <2> QED
    BY <1>1, <1>4, <1>5, <1>6, <2>1, PassedOn
<1> QED
  BY <1>7, <1>8

LEMMA TruthInductive == HonestSpec => []TruthIInv
<1>1. TruthIInv /\ [HonestNext]_vars => TruthIInv'
  BY HonestSteps, DeliveryStep, EditsKeepTruth, SyncsKeepTruth, DeviceKeepsTruth,
     WorkerKeepsTruth
  DEF TruthIInv, TruthOK, HonestNext
<1> QED
  BY <1>1, TruthInitially, PTL DEF HonestSpec

(***************************************************************************)
(* With one synchronization at a time and a device that acknowledges what  *)
(* it did, an APPLIED current version is what a connected device runs once *)
(* nothing is on its way to it: what was honoured is applicable, what is   *)
(* current and APPLIED is retained, and what is retained has reached the   *)
(* device.                                                                 *)
(***************************************************************************)
THEOREM AppliedIsAlwaysRunning == OneSync /\ HonestSpec => []AppliedIsRunning
<1>1. ASSUME OrderIInv, TruthIInv PROVE AppliedIsRunning
  <2> USE <1>1 DEF OrderIInv, TruthIInv, DeliveryIInv
  <2> SUFFICES ASSUME NEW s \in Sensors, NEW v \in Versions,
                      IsCurrent(s, v), rows[s][v].status = "APPLIED",
                      connected, inbox = <<>>
               PROVE  running[s] = v
    BY DEF AppliedIsRunning
  <2>1. Applies(s, v)
    BY DEF IInv, AppliedWasAcknowledged, HonouredApplies
  <2>2. retained[s] = v
    BY DEF CurrentIsRetained
  <2> QED
    BY <2>1, <2>2 DEF DeviceWillKnow
<1> QED
  BY <1>1, OrderInductive, TruthInductive, PTL

(***************************************************************************)
(* However many synchronizations overlap: a device that acknowledges what  *)
(* it did never has a row say APPLIED whose payload it cannot apply.       *)
(***************************************************************************)
THEOREM AppliedIsApplicable ==
  HonestSpec => [](\A s \in Sensors, v \in Versions :
                        rows[s][v].status = "APPLIED" => Applies(s, v))
<1>1. TruthIInv => \A s \in Sensors, v \in Versions :
                        rows[s][v].status = "APPLIED" => Applies(s, v)
  BY DEF TruthIInv, DeliveryIInv, IInv, AppliedWasAcknowledged, HonouredApplies
<1> QED
  BY <1>1, TruthInductive, PTL

====
