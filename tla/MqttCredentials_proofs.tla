------------------------- MODULE MqttCredentials_proofs -------------------------
(***************************************************************************)
(* Proofs about MqttCredentials, for any Devices, uids and overlapping     *)
(* requests.                                                               *)
(*                                                                         *)
(* The argument: rows are inserted once and stay, so a rotation or a       *)
(* revocation still finds the row it loaded; it writes a new password or   *)
(* marks its row revoked, and either ends what was valid; what the two     *)
(* SELECTs of an authentication saw is remembered in `opened' until the    *)
(* client is let in.                                                       *)
(***************************************************************************)
EXTENDS MqttCredentials, TLAPS

\* What a request has read of its Device and its row.
RequestsRead ==
    \A q \in Requests :
        /\ requests[q].kind # "none" => requests[q].uid \in Uids
        /\ requests[q].kind \in {"rotate", "revoke"} => Exists(requests[q].device)

ClientSeen ==
    /\ client.pc \in {"device", "answer"} /\ client.accepts =>
            <<"password", client.device, client.password>> \in opened
    /\ client.pc = "answer" => <<"uid", client.device, client.uid>> \in opened
    /\ client.pc = "answer" /\ client.accepts => <<"active", client.device>> \in opened

IInv == TypeOK /\ RequestsRead /\ ClientSeen

-----------------------------------------------------------------------------
(* Types.                                                                  *)

LEMMA FlushTyped ==
    ASSUME NEW b \in BOOLEAN, NEW old \in BOOLEAN, NEW new \in BOOLEAN
    PROVE  Flush(b, old, new) \in BOOLEAN
BY DEF Flush

\* A row with some columns written anew.
LEMMA CredentialTyped ==
    ASSUME NEW c \in Credential, NEW password \in Passwords,
           NEW isActive \in BOOLEAN, NEW revoked \in BOOLEAN
    PROVE  /\ c.isActive \in BOOLEAN /\ c.revoked \in BOOLEAN
           /\ [c EXCEPT !.password = password, !.isActive = isActive, !.revoked = revoked]
                \in Credential
           /\ [c EXCEPT !.isActive = isActive, !.revoked = revoked] \in Credential
BY DEF Credential

LEMMA RequestTyped ==
    ASSUME NEW r \in Request
    PROVE  r.isActive \in BOOLEAN /\ r.revoked \in BOOLEAN /\ r.uid \in Uids \cup {None}
BY DEF Request

LEMMA NoWorkTyped == NoWork \in Request /\ NoWork.kind = "none"
BY DEF NoWork, Request

LEMMA NoClientTyped ==
    CredentialAssumption => NoClient \in Client /\ NoClient.pc = "idle"
BY DEF NoClient, Client, Passwords, CredentialAssumption

\* A request that ends leaves the others as they were.
LEMMA RequestEnds ==
    ASSUME TypeOK, NEW q \in Requests, requests' = [requests EXCEPT ![q] = NoWork]
    PROVE  /\ requests' \in [Requests -> Request]
           /\ \A p \in Requests : requests'[p].kind # "none" => requests'[p].device \in Devices
BY NoWorkTyped DEF TypeOK

-----------------------------------------------------------------------------
(* What each step changes.                                                 *)

LEMMA EditTyped ==
    ASSUME IInv, EditDevice
    PROVE  TypeOK' /\ RequestsRead'
<1> USE CredentialAssumption DEF IInv, TypeOK
<1>0. RequestsRead'
  BY DEF EditDevice, RequestsRead, Exists
<1>1. edits' \in 0..MaxEdits
  BY DEF EditDevice
<1>2. CASE \E d \in Devices : SetActive(d)
  <2>1. PICK d \in Devices : SetActive(d)
    BY <1>2
  <2>2. devices' = [devices EXCEPT ![d] = [devices[d] EXCEPT !.isActive = ~devices[d].isActive]]
    BY <2>1 DEF SetActive
  <2>3. (~devices[d].isActive) \in BOOLEAN
    OBVIOUS
  <2>4. [devices[d] EXCEPT !.isActive = ~devices[d].isActive] \in Device
    BY <2>3 DEF Device
  <2> QED
    BY <1>0, <1>1, <2>2, <2>4 DEF EditDevice
<1>3. CASE \E d \in Devices, uid \in Uids : Rename(d, uid)
  <2>1. PICK d \in Devices, uid \in Uids : Rename(d, uid)
    BY <1>3
  <2>2. devices' = [devices EXCEPT ![d] = [devices[d] EXCEPT !.uid = uid]]
    BY <2>1 DEF Rename
  <2>3. [devices[d] EXCEPT !.uid = uid] \in Device
    BY DEF Device
  <2> QED
    BY <1>0, <1>1, <2>2, <2>3 DEF EditDevice
<1> QED
  BY <1>2, <1>3 DEF EditDevice

LEMMA AdministerTyped ==
    ASSUME IInv, NEW q \in Requests, Administer(q)
    PROVE  TypeOK' /\ client' = client
<1> USE CredentialAssumption DEF IInv, TypeOK
<1>1. CASE \E kind \in {"provision", "rotate", "revoke"}, d \in Devices : RequestRead(q, kind, d)
  <2>1. PICK kind \in {"provision", "rotate", "revoke"}, d \in Devices : RequestRead(q, kind, d)
    BY <1>1
  <2>2. credentials[d].isActive \in BOOLEAN /\ credentials[d].revoked \in BOOLEAN
        /\ devices[d].uid \in Uids
    BY DEF Credential, Device
  <2>3. [kind |-> kind, device |-> d, uid |-> devices[d].uid,
         isActive |-> credentials[d].isActive, revoked |-> credentials[d].revoked] \in Request
    BY <2>2 DEF Request
  <2> QED
    BY <2>1, <2>3 DEF RequestRead, tables
<1>2. CASE Provision(q)
  <2>1. drawn' \in Passwords
    BY <1>2 DEF Provision, Passwords
  <2>2. [id |-> drawn', username |-> requests[q].uid, password |-> drawn',
         isActive |-> TRUE, revoked |-> FALSE] \in Credential
    BY <2>1, RequestTyped DEF Credential
  <2> QED
    BY <1>2, <2>1, <2>2, RequestEnds DEF Provision
<1>3. CASE Rotate(q)
  <2> DEFINE r == requests[q]
  <2> DEFINE c == credentials[r.device]
  <2>1. drawn' \in Passwords
    BY <1>3 DEF Rotate, Passwords
  <2>2. r.device \in Devices /\ c \in Credential
    BY <1>3 DEF Rotate
  <2>3. /\ Flush(c.isActive, r.isActive, TRUE) \in BOOLEAN
        /\ Flush(c.revoked, r.revoked, FALSE) \in BOOLEAN
    BY <2>2, FlushTyped, RequestTyped, CredentialTyped, <2>1
  <2>4. Rotated(c, r, drawn') \in Credential
    BY <2>1, <2>2, <2>3, CredentialTyped DEF Rotated
  <2>5. credentials' = [credentials EXCEPT ![r.device] = Rotated(c, r, drawn')]
    BY <1>3 DEF Rotate
  <2>6. credentials' \in [Devices -> Credential]
    BY <2>4, <2>5
  <2>7. /\ requests' = [requests EXCEPT ![q] = NoWork]
        /\ UNCHANGED <<devices, edits, client>>
    BY <1>3 DEF Rotate
  <2>8. /\ requests' \in [Requests -> Request]
        /\ \A p \in Requests : requests'[p].kind # "none" => requests'[p].device \in Devices
    BY <2>7, RequestEnds
  <2> QED
    BY <2>1, <2>6, <2>7, <2>8
<1>4. CASE Revoke(q)
  <2> DEFINE r == requests[q]
  <2> DEFINE c == credentials[r.device]
  <2>1. r.device \in Devices /\ c \in Credential
    BY <1>4 DEF Revoke
  <2>2. Flush(c.isActive, r.isActive, FALSE) \in BOOLEAN
    BY <2>1, FlushTyped, RequestTyped, CredentialTyped
  <2>3. Revoked(c, r) \in Credential
    BY <2>1, <2>2, CredentialTyped DEF Revoked
  <2>4. credentials' = [credentials EXCEPT ![r.device] = Revoked(c, r)]
    BY <1>4 DEF Revoke
  <2>5. credentials' \in [Devices -> Credential]
    BY <2>3, <2>4
  <2>6. /\ requests' = [requests EXCEPT ![q] = NoWork]
        /\ UNCHANGED <<devices, drawn, edits, client>>
    BY <1>4 DEF Revoke
  <2>7. /\ requests' \in [Requests -> Request]
        /\ \A p \in Requests : requests'[p].kind # "none" => requests'[p].device \in Devices
    BY <2>6, RequestEnds
  <2> QED
    BY <2>5, <2>6, <2>7
<1>5. CASE RequestFail(q)
  BY <1>5, RequestEnds DEF RequestFail, tables
<1> QED
  BY <1>1, <1>2, <1>3, <1>4, <1>5 DEF Administer, RequestRead, Provision, Rotate, Revoke, RequestFail

\* A row stays, whatever is written to it.
LEMMA RowsStay ==
    ASSUME TypeOK, NEW q \in Requests, Administer(q)
    PROVE  \A d \in Devices :
              Exists(d) => /\ credentials'[d].id = credentials[d].id
                           /\ credentials'[d].username = credentials[d].username
<1> SUFFICES ASSUME NEW d \in Devices, Exists(d)
             PROVE  /\ credentials'[d].id = credentials[d].id
                    /\ credentials'[d].username = credentials[d].username
  OBVIOUS
<1> USE DEF TypeOK
<1> DEFINE r == requests[q]
<1>1. CASE Provision(q)
  BY <1>1 DEF Provision
<1>2. CASE Rotate(q)
  <2>1. credentials' = [credentials EXCEPT ![r.device] = Rotated(credentials[r.device], r, drawn')]
    BY <1>2 DEF Rotate
  <2>2. /\ Rotated(credentials[d], r, drawn').id = credentials[d].id
        /\ Rotated(credentials[d], r, drawn').username = credentials[d].username
    BY DEF Rotated, Credential
  <2> QED
    BY <2>1, <2>2
<1>3. CASE Revoke(q)
  <2>1. credentials' = [credentials EXCEPT ![r.device] = Revoked(credentials[r.device], r)]
    BY <1>3 DEF Revoke
  <2>2. /\ Revoked(credentials[d], r).id = credentials[d].id
        /\ Revoked(credentials[d], r).username = credentials[d].username
    BY DEF Revoked, Credential
  <2> QED
    BY <2>1, <2>2
<1>4. CASE RequestFail(q) \/ \E kind \in {"provision", "rotate", "revoke"}, c \in Devices :
                RequestRead(q, kind, c)
  BY <1>4 DEF RequestFail, RequestRead, tables
<1> QED
  BY <1>1, <1>2, <1>3, <1>4 DEF Administer

LEMMA AdministerReads ==
    ASSUME IInv, NEW q \in Requests, Administer(q)
    PROVE  RequestsRead'
<1> USE DEF IInv, TypeOK
<1>1. \A d \in Devices : Exists(d) => Exists(d)'
  BY RowsStay DEF Exists
<1>2. CASE \E kind \in {"provision", "rotate", "revoke"}, d \in Devices : RequestRead(q, kind, d)
  <2>1. PICK kind \in {"provision", "rotate", "revoke"}, d \in Devices : RequestRead(q, kind, d)
    BY <1>2
  <2>2. devices[d].uid \in Uids
    BY DEF Device
  <2>3. /\ requests'[q].kind = kind /\ requests'[q].uid = devices[d].uid
        /\ requests'[q].device = d
        /\ \A p \in Requests \ {q} : requests'[p] = requests[p]
        /\ Exists(d) = (kind # "provision") /\ credentials' = credentials
    BY <2>1 DEF RequestRead, tables
  <2>4. requests'[q].kind \in {"rotate", "revoke"} => Exists(requests[q].device)'
    <3>1. kind # "provision" => Exists(d)
      BY <2>3
    <3>2. kind # "provision" => credentials'[d].username # None
      BY <2>3, <3>1 DEF Exists
    <3> QED
      BY <2>3, <3>2 DEF Exists
  <2> QED
    BY <1>1, <2>2, <2>3, <2>4 DEF RequestsRead
<1>3. CASE Provision(q) \/ Rotate(q) \/ Revoke(q) \/ RequestFail(q)
  <2>1. requests' = [requests EXCEPT ![q] = NoWork]
    BY <1>3 DEF Provision, Rotate, Revoke, RequestFail
  <2>2. \A p \in Requests : requests'[p] = requests[p] \/ requests'[p].kind = "none"
    BY <2>1, NoWorkTyped
  <2> QED
    BY <1>1, <2>2 DEF RequestsRead
<1> QED
  BY <1>2, <1>3 DEF Administer

LEMMA ConnectTyped ==
    ASSUME IInv, Connect
    PROVE  TypeOK' /\ RequestsRead'
<1> USE CredentialAssumption DEF IInv, TypeOK
<1>1. UNCHANGED <<devices, credentials, drawn, edits, requests>>
  BY DEF Connect, AuthenticateRead, AuthenticateDevice, Accept, Leave, tables
<1>2. client' \in Client /\ (client'.pc # "idle" => client'.device \in Devices)
  <2>1. CASE \E d \in Devices, password \in 1..drawn : AuthenticateRead(d, password)
    <3>1. PICK d \in Devices, password \in 1..drawn : AuthenticateRead(d, password)
      BY <2>1
    <3>2. password \in Passwords
      BY DEF Passwords
    <3>3. (Usable(credentials[d]) /\ password = credentials[d].password) \in BOOLEAN
      OBVIOUS
    <3> QED
      BY <3>1, <3>2, <3>3 DEF AuthenticateRead, Client
  <2>2. CASE AuthenticateDevice
    <3>1. devices[client.device].uid \in Uids
      BY <2>2 DEF AuthenticateDevice, Device
    <3>2. (client.accepts /\ devices[client.device].isActive) \in BOOLEAN
      OBVIOUS
    <3> QED
      BY <2>2, <3>1, <3>2 DEF AuthenticateDevice, Client
  <2>3. CASE Accept
    BY <2>3 DEF Accept, Client
  <2>4. CASE Leave
    BY <2>4, NoClientTyped DEF Leave
  <2> QED
    BY <2>1, <2>2, <2>3, <2>4 DEF Connect
<1> QED
  BY <1>1, <1>2 DEF RequestsRead, Exists

-----------------------------------------------------------------------------
(* What an authentication has seen.                                        *)

LEMMA Remembered ==
    ASSUME Remember, client'.pc \in {"device", "answer"}
    PROVE  opened \subseteq opened' /\ Facts' \subseteq opened'
BY DEF Remember

LEMMA ConnectSees ==
    ASSUME IInv, Connect, Remember
    PROVE  ClientSeen'
<1> USE DEF IInv, TypeOK
<1>1. UNCHANGED <<devices, credentials>>
  BY DEF Connect, AuthenticateRead, AuthenticateDevice, Accept, Leave, tables
<1>2. CASE \E d \in Devices, password \in 1..drawn : AuthenticateRead(d, password)
  <2>1. PICK d \in Devices, password \in 1..drawn : AuthenticateRead(d, password)
    BY <1>2
  <2>2. /\ client'.pc = "device" /\ client'.device = d /\ client'.password = password
        /\ client'.accepts = (Usable(credentials[d]) /\ password = credentials[d].password)
    BY <2>1 DEF AuthenticateRead
  <2>3. Facts' \subseteq opened'
    BY <2>2, Remembered
  <2>4. ASSUME client'.accepts
        PROVE  <<"password", d, password>> \in opened'
    <3>1. Usable(credentials'[d]) /\ password = credentials'[d].password
      BY <1>1, <2>2, <2>4
    <3>2. <<"password", d, password>> \in Facts'
      BY <3>1 DEF Facts
    <3> QED
      BY <2>3, <3>2
  <2> QED
    BY <2>2, <2>4 DEF ClientSeen
<1>3. CASE AuthenticateDevice
  <2> DEFINE d == client.device
  <2>1. /\ client.pc = "device" /\ d \in Devices
        /\ client'.pc = "answer" /\ client'.device = d /\ client'.password = client.password
        /\ client'.uid = devices[d].uid
        /\ client'.accepts = (client.accepts /\ devices[d].isActive)
    BY <1>3 DEF AuthenticateDevice, Client
  <2>2. opened \subseteq opened' /\ Facts' \subseteq opened'
    BY <2>1, Remembered
  <2>3. <<"uid", d, devices[d].uid>> \in Facts'
    BY <1>1, <2>1 DEF Facts
  <2>4. devices[d].isActive => <<"active", d>> \in Facts'
    BY <1>1, <2>1 DEF Facts
  <2>5. client.accepts => <<"password", d, client.password>> \in opened
    BY <2>1 DEF ClientSeen
  <2> HIDE DEF d
  <2> QED
    BY <2>1, <2>2, <2>3, <2>4, <2>5 DEF ClientSeen
<1>4. CASE Accept
  BY <1>4 DEF Accept, Client, ClientSeen
<1>5. CASE Leave
  BY <1>5, NoClientTyped DEF Leave, ClientSeen, NoClient
<1> QED
  BY <1>2, <1>3, <1>4, <1>5 DEF Connect

LEMMA OthersKeepSeen ==
    ASSUME IInv, Remember, client' = client
    PROVE  ClientSeen'
<1>1. client.pc \in {"device", "answer"} => opened \subseteq opened'
  BY Remembered
<1> QED
  BY <1>1 DEF IInv, ClientSeen

-----------------------------------------------------------------------------
(* The invariant.                                                          *)

LEMMA InitKeeps == Init => IInv
<1> SUFFICES ASSUME Init PROVE IInv
  OBVIOUS
<1> USE CredentialAssumption DEF Init
<1>1. devices \in [Devices -> Device]
  BY DEF Device
<1>2. credentials \in [Devices -> Credential]
  BY DEF Credential, NoCredential, Passwords
<1>3. TypeOK
  BY <1>1, <1>2, NoWorkTyped, NoClientTyped DEF TypeOK, Passwords
<1>4. RequestsRead
  BY NoWorkTyped DEF RequestsRead
<1>5. ClientSeen
  BY NoClientTyped DEF ClientSeen, NoClient
<1> QED
  BY <1>3, <1>4, <1>5 DEF IInv

LEMMA StepKeeps == IInv /\ [Next]_vars => IInv'
<1> SUFFICES ASSUME IInv, [Next]_vars PROVE IInv'
  OBVIOUS
<1>1. CASE UNCHANGED vars
  BY <1>1 DEF vars, IInv, TypeOK, RequestsRead, Exists, ClientSeen
<1>2. CASE EditDevice /\ Remember
  BY <1>2, EditTyped, OthersKeepSeen DEF EditDevice, IInv
<1>3. CASE Connect /\ Remember
  BY <1>3, ConnectTyped, ConnectSees DEF IInv
<1>4. CASE (\E q \in Requests : Administer(q)) /\ Remember
  BY <1>4, AdministerTyped, AdministerReads, OthersKeepSeen DEF IInv
<1> QED
  BY <1>1, <1>2, <1>3, <1>4 DEF Next

LEMMA Invariant == Spec => []IInv
<1> QED
  BY InitKeeps, StepKeeps, PTL DEF Spec

\* Every variable keeps its type, whatever requests, renamings and
\* authentications overlap.
THEOREM CredentialsTypeCorrect == Spec => []TypeOK
<1>1. IInv => TypeOK
  BY DEF IInv
<1> QED
  BY <1>1, Invariant, PTL

\* A connection is accepted only with the password, the state and the uid its
\* Device had while it was authenticated.
THEOREM AlwaysAcceptedAsConfigured == Spec => AcceptedAsConfigured
<1>1. IInv /\ [Next]_vars =>
        [client.pc # "connected" /\ client'.pc = "connected" =>
            {<<"password", client'.device, client'.password>>, <<"active", client'.device>>,
             <<"uid", client'.device, client'.uid>>} \subseteq opened]_vars
  <2> SUFFICES ASSUME IInv, Next, client.pc # "connected", client'.pc = "connected"
               PROVE  {<<"password", client'.device, client'.password>>,
                       <<"active", client'.device>>,
                       <<"uid", client'.device, client'.uid>>} \subseteq opened
    OBVIOUS
  <2>1. Accept
    <3>1. ~EditDevice /\ \A q \in Requests : ~Administer(q)
      BY AdministerTyped DEF EditDevice
    <3>2. Connect
      BY <3>1 DEF Next
    <3>3. ~ \E d \in Devices, password \in 1..drawn : AuthenticateRead(d, password)
      BY DEF AuthenticateRead
    <3>4. ~AuthenticateDevice
      BY DEF AuthenticateDevice, IInv, TypeOK, Client
    <3>5. ~Leave
      BY NoClientTyped, CredentialAssumption DEF Leave
    <3> QED
      BY <3>2, <3>3, <3>4, <3>5 DEF Connect
  <2>2. /\ client.pc = "answer" /\ client.accepts /\ client'.device = client.device
        /\ client'.password = client.password /\ client'.uid = client.uid
    BY <2>1 DEF Accept, IInv, TypeOK, Client
  <2> QED
    BY <2>2 DEF IInv, ClientSeen
<1> QED
  BY <1>1, Invariant, PTL DEF Spec, AcceptedAsConfigured

-----------------------------------------------------------------------------
(* The life of a password.                                                 *)

Valid == [d \in Devices |-> IF Usable(credentials[d]) THEN credentials[d].password ELSE 0]

\* A step that writes one Device's row.
LEMMA ValidWritten ==
    ASSUME NEW d \in Devices, NEW c, TypeOK, credentials' = [credentials EXCEPT ![d] = c]
    PROVE  Valid' = [Valid EXCEPT ![d] = IF Usable(c) THEN c.password ELSE 0]
BY DEF Valid, TypeOK

\* The account of each Device.
Account ==
    [d \in Devices |-> IF Exists(d) THEN <<credentials[d].id, credentials[d].username>> ELSE <<>>]

Provisioned(d, uid) ==
    /\ Account[d] = <<>>
    /\ \A c \in Devices : Account[c] # <<>> => Account[c][2] # uid
    /\ drawn' = drawn + 1
    /\ Account' = [Account EXCEPT ![d] = <<drawn', uid>>]
    /\ Valid' = [Valid EXCEPT ![d] = drawn']
Renewed(d) ==
    /\ Account[d] # <<>>
    /\ drawn' = drawn + 1
    /\ \E p \in {0, drawn'} : Valid' = [Valid EXCEPT ![d] = p]
    /\ Account' = Account
Withdrawn(d) ==
    /\ Account[d] # <<>>
    /\ Valid' = [Valid EXCEPT ![d] = 0]
    /\ Account' = Account /\ drawn' = drawn

LEMMA ProvisionStep ==
    ASSUME IInv, NEW q \in Requests, Provision(q)
    PROVE  \E d \in Devices, uid \in Uids : Provisioned(d, uid)
<1> USE CredentialAssumption DEF IInv, TypeOK
<1> DEFINE d == requests[q].device
           uid == requests[q].uid
           c == [id |-> drawn', username |-> uid, password |-> drawn',
                 isActive |-> TRUE, revoked |-> FALSE]
<1>1. /\ d \in Devices /\ uid \in Uids /\ drawn' = drawn + 1 /\ ~Exists(d)
      /\ \A b \in Devices : credentials[b].username # uid
      /\ credentials' = [credentials EXCEPT ![d] = c]
  BY DEF Provision, RequestsRead
<1>2. /\ c.id = drawn' /\ c.username = uid /\ c.username # None
      /\ c.password = drawn' /\ Usable(c)
  BY <1>1 DEF Usable
<1> HIDE DEF d, uid, c
<1>3. Account[d] = <<>> /\ \A b \in Devices : Account[b] # <<>> => Account[b][2] # uid
  BY <1>1 DEF Account
<1>4. Account' = [Account EXCEPT ![d] = <<drawn', uid>>]
  BY <1>1, <1>2 DEF Account, Exists
<1>5. Valid' = [Valid EXCEPT ![d] = drawn']
  BY <1>1, <1>2, ValidWritten
<1> QED
  BY <1>1, <1>3, <1>4, <1>5 DEF Provisioned

\* Whatever is written to a row, the accounts stay.
LEMMA AccountsStay ==
    ASSUME IInv, NEW q \in Requests, Rotate(q) \/ Revoke(q)
    PROVE  /\ Account' = Account
           /\ requests[q].device \in Devices /\ Account[requests[q].device] # <<>>
<1> USE DEF IInv, TypeOK
<1> DEFINE d == requests[q].device
<1>1. /\ d \in Devices /\ Exists(d)
      /\ \A b \in Devices \ {d} : credentials'[b] = credentials[b]
  BY DEF Rotate, Revoke, RequestsRead
<1>2. \A b \in Devices :
        /\ Exists(b)' = Exists(b)
        /\ Exists(b) => /\ credentials'[b].id = credentials[b].id
                        /\ credentials'[b].username = credentials[b].username
  BY <1>1, RowsStay DEF Administer, Exists
<1> QED
  BY <1>1, <1>2 DEF Account

LEMMA RotateStep ==
    ASSUME IInv, NEW q \in Requests, Rotate(q)
    PROVE  \E d \in Devices : Renewed(d)
<1> USE DEF IInv, TypeOK
<1> DEFINE r == requests[q]
           c == Rotated(credentials[r.device], r, drawn')
<1>1. r.device \in Devices /\ drawn' = drawn + 1
  BY DEF Rotate
<1>2. credentials' = [credentials EXCEPT ![r.device] = c]
  BY DEF Rotate
<1>3. c.password = drawn'
  BY <1>1 DEF Rotated, Credential
<1>4. Account' = Account /\ Account[r.device] # <<>>
  BY AccountsStay
<1> HIDE DEF r, c
<1>5. (IF Usable(c) THEN c.password ELSE 0) \in {0, drawn'}
  BY <1>3
<1>6. Valid' = [Valid EXCEPT ![r.device] = IF Usable(c) THEN c.password ELSE 0]
  BY <1>1, <1>2, ValidWritten
<1> QED
  BY <1>1, <1>4, <1>5, <1>6 DEF Renewed

LEMMA RevokeStep ==
    ASSUME IInv, NEW q \in Requests, Revoke(q)
    PROVE  \E d \in Devices : Withdrawn(d)
<1> USE DEF IInv, TypeOK
<1> DEFINE r == requests[q]
           c == Revoked(credentials[r.device], r)
<1>1. r.device \in Devices /\ drawn' = drawn
  BY DEF Revoke
<1>2. credentials' = [credentials EXCEPT ![r.device] = c]
  BY DEF Revoke
<1>3. ~Usable(c)
  BY <1>1 DEF Revoked, Credential, Usable
<1>4. Account' = Account /\ Account[r.device] # <<>>
  BY AccountsStay
<1> HIDE DEF r, c
<1> QED
  BY <1>1, <1>2, <1>3, <1>4, ValidWritten DEF Withdrawn

LEMMA LifecycleStep ==
    ASSUME IInv, Next
    PROVE  \/ \E d \in Devices, uid \in Uids : Provisioned(d, uid)
           \/ \E d \in Devices : Renewed(d) \/ Withdrawn(d)
           \/ UNCHANGED <<Account, Valid, drawn>>
<1>1. CASE EditDevice \/ Connect
  BY <1>1 DEF EditDevice, Connect, AuthenticateRead, AuthenticateDevice, Accept, Leave, tables,
    Account, Exists, Valid
<1>2. ASSUME NEW q \in Requests,
             \/ \E kind \in {"provision", "rotate", "revoke"}, d \in Devices :
                    RequestRead(q, kind, d)
             \/ RequestFail(q)
      PROVE  UNCHANGED <<Account, Valid, drawn>>
  BY <1>2 DEF RequestRead, RequestFail, tables, Account, Exists, Valid
<1> QED
  BY <1>1, <1>2, ProvisionStep, RotateStep, RevokeStep DEF Next, Administer

\* Provisioning, rotation and revocation implement the life of an account: its
\* username stays and is no other's, and a password that was replaced or revoked
\* never authenticates again, for any number of overlapping requests.
THEOREM CredentialsImplementLifecycle == Spec => ImplementsLifecycle
<1>1. Init => Lifecycle!Init
  BY DEF Init, Lifecycle!Init, NoCredential, Usable, Exists
<1>2. IInv /\ [Next]_vars => [Lifecycle!Next]_<<Account, Valid, drawn>>
  <2> SUFFICES ASSUME IInv, [Next]_vars PROVE [Lifecycle!Next]_<<Account, Valid, drawn>>
    OBVIOUS
  <2>1. CASE UNCHANGED vars
    BY <2>1 DEF vars, Account, Exists, Valid
  <2>2. CASE Next
    <3>1. \A d \in Devices, uid \in Uids : Provisioned(d, uid) => Lifecycle!Provision(d, uid)
      BY DEF Provisioned, Lifecycle!Provision, Account, Valid
    <3>2. \A d \in Devices : Renewed(d) => Lifecycle!Rotate(d)
      BY DEF Renewed, Lifecycle!Rotate, Account, Valid
    <3>3. \A d \in Devices : Withdrawn(d) => Lifecycle!Revoke(d)
      BY DEF Withdrawn, Lifecycle!Revoke, Account, Valid
    <3> QED
      BY <2>2, <3>1, <3>2, <3>3, LifecycleStep DEF Lifecycle!Next
  <2> QED
    BY <2>1, <2>2
<1> QED
  BY <1>1, <1>2, Invariant, PTL DEF Spec, ImplementsLifecycle, Lifecycle!Spec, Valid, Account
=============================================================================
