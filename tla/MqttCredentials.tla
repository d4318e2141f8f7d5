---------------------------- MODULE MqttCredentials ----------------------------
(***************************************************************************)
(* The MQTT credentials of Devices: administrators provision, rotate and   *)
(* revoke them while Devices are renamed and deactivated and while the     *)
(* broker asks the mqtt-auth service whether a client may connect.         *)
(*                                                                         *)
(* Code: services/mqtt_credential_service.py, services/mqtt_auth_service.py, *)
(* internal.py, services/device_service.py (update, set_active), the       *)
(* authentication of emqx/base.hocon.                                      *)
(*                                                                         *)
(* A request reads its rows, then flushes the columns it changed and       *)
(* commits (OrmSession); nobody locks a row.  A password is the number of  *)
(* its drawing: it is random, so no two are equal and it does not matter   *)
(* when before the commit it was drawn.  Of a username `device:<uid>' the  *)
(* uid is kept.  The platform's own account has no row and is left out.    *)
(***************************************************************************)
EXTENDS Naturals, OrmSession

CONSTANTS
    Devices, Uids, Requests,
    FirstUid,       \* the uid each Device was created with
    None,           \* no Device, no uid
    MaxDrawn,       \* bound on the passwords drawn
    MaxEdits        \* bound on renamings and (de)activations

ASSUME CredentialAssumption ==
    /\ FirstUid \in [Devices -> Uids]
    /\ \A c, d \in Devices : FirstUid[c] = FirstUid[d] => c = d
    /\ None \notin Devices /\ None \notin Uids
    /\ MaxDrawn \in Nat /\ MaxEdits \in Nat

VARIABLES
    devices,        \* table devices: device_uid, is_active
    credentials,    \* table device_mqtt_credentials, one row per Device
    drawn,          \* how many passwords were drawn
    edits,
    requests,       \* the credential requests of administrators
    client,         \* a client of the broker: its authentication, its connection
    opened          \* history: facts true since the authentication began

vars == <<devices, credentials, drawn, edits, requests, client, opened>>
tables == <<devices, credentials, drawn, edits>>

Device == [uid : Uids, isActive : BOOLEAN]
Passwords == 0..MaxDrawn
\* The primary key `id' is random too: the number of the row's first password.
Credential == [id : Passwords, username : Uids \cup {None}, password : Passwords,
               isActive : BOOLEAN, revoked : BOOLEAN]
NoCredential ==
    [id |-> 0, username |-> None, password |-> 0, isActive |-> FALSE, revoked |-> FALSE]

\* A request with what it loaded: the Device's uid for a provisioning, the two
\* columns that may not change for the others.
Request == [kind : {"none", "provision", "rotate", "revoke"}, device : Devices \cup {None},
            uid : Uids \cup {None}, isActive : BOOLEAN, revoked : BOOLEAN]
NoWork == [kind |-> "none", device |-> None, uid |-> None,
           isActive |-> FALSE, revoked |-> FALSE]

\* `accepts' is what the checks have said so far, `uid' the uid of the topics.
Client == [pc : {"idle", "device", "answer", "connected"}, device : Devices \cup {None},
           password : Passwords, accepts : BOOLEAN, uid : Uids \cup {None}]
NoClient == [pc |-> "idle", device |-> None, password |-> 0, accepts |-> FALSE, uid |-> None]

TypeOK ==
    /\ devices \in [Devices -> Device]
    /\ credentials \in [Devices -> Credential]
    /\ drawn \in Passwords
    /\ edits \in 0..MaxEdits
    /\ requests \in [Requests -> Request]
    /\ \A q \in Requests : requests[q].kind # "none" => requests[q].device \in Devices
    /\ client \in Client
    /\ client.pc # "idle" => client.device \in Devices

Init ==
    /\ devices = [d \in Devices |-> [uid |-> FirstUid[d], isActive |-> TRUE]]
    /\ credentials = [d \in Devices |-> NoCredential]
    /\ drawn = 0
    /\ edits = 0
    /\ requests = [q \in Requests |-> NoWork]
    /\ client = NoClient
    /\ opened = {}

Exists(d) == credentials[d].username # None

\* The row lets a client in, whatever its Device.
Usable(c) == c.username # None /\ c.isActive /\ ~c.revoked

-----------------------------------------------------------------------------
(* Devices (device_service.py): requests write values of their payloads.   *)

\* update; the uid of another Device is refused.
Rename(d, uid) ==
    /\ \A c \in Devices : devices[c].uid # uid
    /\ devices' = [devices EXCEPT ![d].uid = uid]

SetActive(d) == devices' = [devices EXCEPT ![d].isActive = ~@]

EditDevice ==
    /\ edits < MaxEdits
    /\ edits' = edits + 1
    /\ \E d \in Devices : SetActive(d) \/ \E uid \in Uids : Rename(d, uid)
    /\ UNCHANGED <<credentials, drawn, requests, client>>

-----------------------------------------------------------------------------
(* Administrators (mqtt_credential_service.py)                             *)

\* The rows are read; a request for which they are wrong ends there.
RequestRead(q, kind, d) ==
    /\ requests[q].kind = "none"
    /\ Exists(d) = (kind # "provision")
    /\ requests' = [requests EXCEPT ![q] =
            [kind |-> kind, device |-> d, uid |-> devices[d].uid,
             isActive |-> credentials[d].isActive, revoked |-> credentials[d].revoked]]
    /\ UNCHANGED <<tables, client>>

\* The INSERT; the unique constraints on device_id and username refuse it when
\* another request was first, or another Device was provisioned with this uid.
Provision(q) ==
    LET r == requests[q] IN
    /\ r.kind = "provision"
    /\ \A d \in Devices : credentials[d].username # r.uid
    /\ ~Exists(r.device)
    /\ drawn < MaxDrawn
    /\ drawn' = drawn + 1
    /\ credentials' = [credentials EXCEPT ![r.device] =
            [id |-> drawn', username |-> r.uid, password |-> drawn',
             isActive |-> TRUE, revoked |-> FALSE]]
    /\ requests' = [requests EXCEPT ![q] = NoWork]
    /\ UNCHANGED <<devices, edits, client>>

\* Mutant: rotation only restores the credential.
RotatedNot(c, r, password) == [c EXCEPT !.isActive = TRUE, !.revoked = FALSE]

\* password_hash differs from any loaded value, the other columns may not.
Rotated(c, r, password) ==
    [c EXCEPT !.password = password,
              !.isActive = Flush(@, r.isActive, TRUE),
              !.revoked = Flush(@, r.revoked, FALSE)]

Rotate(q) ==
    LET r == requests[q] IN
    /\ r.kind = "rotate"
    /\ drawn < MaxDrawn
    /\ drawn' = drawn + 1
    /\ credentials' = [credentials EXCEPT ![r.device] = Rotated(@, r, drawn')]
    /\ requests' = [requests EXCEPT ![q] = NoWork]
    /\ UNCHANGED <<devices, edits, client>>

\* revoked_at is a new time: it is always written.
Revoked(c, r) == [c EXCEPT !.isActive = Flush(@, r.isActive, FALSE), !.revoked = TRUE]

Revoke(q) ==
    LET r == requests[q] IN
    /\ r.kind = "revoke"
    /\ credentials' = [credentials EXCEPT ![r.device] = Revoked(@, r)]
    /\ requests' = [requests EXCEPT ![q] = NoWork]
    /\ UNCHANGED <<devices, drawn, edits, client>>

\* A unique constraint refuses the row, or the request dies.
RequestFail(q) ==
    /\ requests[q].kind # "none"
    /\ requests' = [requests EXCEPT ![q] = NoWork]
    /\ UNCHANGED <<tables, client>>

-----------------------------------------------------------------------------
(* The broker and mqtt-auth (mqtt_auth_service.py)                         *)

\* The SELECT of the credential by its username; an unknown one is denied.
\* The password is compared at the end, with the hash read here.
AuthenticateRead(d, password) ==
    /\ client.pc = "idle"
    /\ Exists(d)
    /\ client' = [pc |-> "device", device |-> d, password |-> password, uid |-> None,
                  accepts |-> Usable(credentials[d]) /\ password = credentials[d].password]
    /\ UNCHANGED <<tables, requests>>

\* Mutant: the Device's own state is not looked at.
AuthenticateAnyDevice ==
    /\ client.pc = "device"
    /\ client' = [client EXCEPT !.pc = "answer", !.uid = devices[client.device].uid]
    /\ UNCHANGED <<tables, requests>>

\* The SELECT of the credential's Device.
AuthenticateDevice ==
    /\ client.pc = "device"
    /\ client' = [client EXCEPT !.pc = "answer",
                    !.uid = devices[client.device].uid,
                    !.accepts = @ /\ devices[client.device].isActive]
    /\ UNCHANGED <<tables, requests>>

\* The broker lets the client in with the topics of the uid.
Accept ==
    /\ client.pc = "answer"
    /\ client.accepts
    /\ client' = [client EXCEPT !.pc = "connected"]
    /\ UNCHANGED <<tables, requests>>

\* Mutant: the Device is forgotten, the connection is not.
LeaveHalf ==
    /\ client.pc # "idle"
    /\ client' = [client EXCEPT !.device = None]
    /\ UNCHANGED <<tables, requests>>

\* The answer is a denial, or none comes within the broker's timeout; or the
\* client disconnects.  Nothing ends a connection but the client.
Leave ==
    /\ client.pc # "idle"
    /\ client' = NoClient
    /\ UNCHANGED <<tables, requests>>

\* The topics of an accepted connection: who may do what on which topic of
\* the uid.  Everything else is denied.
DeviceAcl(uid) ==
    {<<"publish", kind, uid>> : kind \in {"status", "config/ack", "telemetry"}}
    \cup {<<"subscribe", kind, uid>> : kind \in {"config", "command"}}

-----------------------------------------------------------------------------
Facts ==
    {<<"password", d, credentials[d].password>> : d \in {d \in Devices : Usable(credentials[d])}}
    \cup {<<"active", d>> : d \in {d \in Devices : devices[d].isActive}}
    \cup {<<"uid", d, devices[d].uid>> : d \in Devices}
Remember == opened' = IF client'.pc \in {"idle", "connected"} THEN {} ELSE opened \cup Facts'

Administer(q) ==
    \/ \E kind \in {"provision", "rotate", "revoke"}, d \in Devices : RequestRead(q, kind, d)
    \/ Provision(q) \/ Rotate(q) \/ Revoke(q) \/ RequestFail(q)
Connect ==
    \/ \E d \in Devices, password \in 1..drawn : AuthenticateRead(d, password)
    \/ AuthenticateDevice \/ Accept \/ Leave

Next == (EditDevice \/ Connect \/ \E q \in Requests : Administer(q)) /\ Remember

Spec == Init /\ [][Next]_vars

(***************************************************************************)
(* Properties.                                                             *)
(***************************************************************************)
\* However provisioning, rotations and revocations overlap, and whichever of
\* their columns are written: a Device gets one credential, whose username
\* never changes, is no other's and survives renamings; and a password that was
\* replaced or revoked never authenticates again.
Lifecycle == INSTANCE PasswordLifecycle WITH
    Usernames <- Uids,
    account <- [d \in Devices |->
                IF Exists(d) THEN <<credentials[d].id, credentials[d].username>> ELSE <<>>],
    valid <- [d \in Devices |->
                IF Usable(credentials[d]) THEN credentials[d].password ELSE 0]
ImplementsLifecycle == Lifecycle!Spec

\* A connection is accepted only with the password that authenticated its
\* Device at some moment since the authentication began, for a Device that was
\* active at such a moment, and with the topics of a uid that was then its own.
\* The moments may differ, so it takes a change of the credential and one of the
\* Device within one authentication to be let in by facts never true together.
AcceptedAsConfigured ==
    [][client.pc # "connected" /\ client'.pc = "connected" =>
        {<<"password", client'.device, client'.password>>, <<"active", client'.device>>,
         <<"uid", client'.device, client'.uid>>} \subseteq opened]_vars

\* No connection may use a topic of another Device (README, "Device
\* communication and simulator": a Device may publish only its own heartbeat,
\* acknowledgment and telemetry topic, and subscribe only to its own).
TopicsAreOwn ==
    client.pc = "connected" =>
        \A d \in Devices \ {client.device} :
            DeviceAcl(client.uid) \cap DeviceAcl(devices[d].uid) = {}

===============================================================================
