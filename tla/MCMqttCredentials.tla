--------------------------- MODULE MCMqttCredentials ---------------------------
(* Instances of MqttCredentials for TLC.                                   *)
EXTENDS MqttCredentials, TLC

CONSTANTS d1, d2, u1, u2, u3

Symmetry == Permutations(Requests)
MCFirstUid == d1 :> u1 @@ d2 :> u2
===============================================================================
