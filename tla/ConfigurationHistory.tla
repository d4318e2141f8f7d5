------------------------ MODULE ConfigurationHistory ------------------------
(***************************************************************************)
(* What the configuration API promises for each sensor, whatever else runs *)
(* at the same time: a register whose accepted values are numbered from 1, *)
(* never changed and never lost, and whose latest number is the current    *)
(* one.  ConfigurationSync implements it.                                  *)
(***************************************************************************)
EXTENDS Naturals

CONSTANTS Sensors, Configurations, NoConfiguration, MaxVersion

VARIABLES
    current,  \* the number of the current version, 0 before registration
    history   \* [sensor][version] -> the payload accepted under that number

abstractVars == <<current, history>>

HistoryInit ==
    /\ current = [s \in Sensors |-> 0]
    /\ history = [s \in Sensors |-> [v \in 1..MaxVersion |-> NoConfiguration]]

\* Registration accepts version 1, an edit the next one.
Accept(s, c) ==
    /\ current[s] < MaxVersion
    /\ current' = [current EXCEPT ![s] = @ + 1]
    /\ history' = [history EXCEPT ![s][current[s] + 1] = c]

HistoryNext == \E s \in Sensors, c \in Configurations : Accept(s, c)

HistorySpec == HistoryInit /\ [][HistoryNext]_abstractVars

=============================================================================
