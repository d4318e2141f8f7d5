------------------------------ MODULE ReadingLog ------------------------------
(***************************************************************************)
(* What the table of readings promises its readers: it only grows, it holds *)
(* each reading of a message once, and a commit adds readings of one message *)
(* of one Device (README, "Sensor telemetry ingestion").                   *)
(***************************************************************************)
VARIABLE log

Key(r) == <<r.device, r.message, r.index>>

Init == log = {}

Append ==
    /\ log \subseteq log'
    /\ \A q, r \in log' : Key(q) = Key(r) => q = r
    /\ \A q, r \in log' \ log : q.device = r.device /\ q.message = r.message

Spec == Init /\ [][Append]_log
===============================================================================
