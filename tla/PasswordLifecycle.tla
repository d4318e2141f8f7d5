--------------------------- MODULE PasswordLifecycle ---------------------------
(***************************************************************************)
(* What provisioning, rotation and revocation promise of a Device's MQTT   *)
(* account (README, "Device communication and simulator"): a Device has    *)
(* one account, whose username is stable and nobody else's; a password is  *)
(* drawn once, and once another has replaced it or it was revoked it never *)
(* authenticates again.                                                    *)
(***************************************************************************)
EXTENDS Naturals

CONSTANTS Devices, Usernames

VARIABLES
    account,    \* the account of each Device, <<>> before it is provisioned
    valid,      \* the password that authenticates each Device; 0 is none
    drawn       \* how many passwords were drawn

Init ==
    /\ account = [d \in Devices |-> <<>>]
    /\ valid = [d \in Devices |-> 0]
    /\ drawn = 0

\* An account is known by its first password and its username; it stays.
Provision(d, username) ==
    /\ account[d] = <<>>
    /\ \A c \in Devices : account[c] # <<>> => account[c][2] # username
    /\ drawn' = drawn + 1
    /\ account' = [account EXCEPT ![d] = <<drawn', username>>]
    /\ valid' = [valid EXCEPT ![d] = drawn']

\* The new password may already have been revoked when it is stored.
Rotate(d) ==
    /\ account[d] # <<>>
    /\ drawn' = drawn + 1
    /\ \E p \in {0, drawn'} : valid' = [valid EXCEPT ![d] = p]
    /\ UNCHANGED account

Revoke(d) ==
    /\ account[d] # <<>>
    /\ valid' = [valid EXCEPT ![d] = 0]
    /\ UNCHANGED <<account, drawn>>

Next ==
    \E d \in Devices :
        Rotate(d) \/ Revoke(d) \/ \E username \in Usernames : Provision(d, username)

Spec == Init /\ [][Next]_<<account, valid, drawn>>
===============================================================================
