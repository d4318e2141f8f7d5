--------------------------- MODULE MCReadingHistory ---------------------------
(* Instances of ReadingHistory for TLC.                                    *)
EXTENDS ReadingHistory, TLC

CONSTANTS d1, d2, s1, m1, m2, k1, k2, u1, u2, a1, a2

MCDeviceOf == s1 :> d1
MCSeeded == m1 :> [exists |-> TRUE, key |-> k1, type |-> "NUMERIC", unit |-> u1]
         @@ m2 :> [exists |-> FALSE, key |-> k2, type |-> "TEXT", unit |-> u1]
MCPayloads == {[key |-> k2, type |-> "TEXT", unit |-> u2],
               [key |-> k1, type |-> "BOOLEAN", unit |-> u1]}

It(key, at, value) == [sensor |-> s1, key |-> key, at |-> at, value |-> value]
Sent(d, message, items) == [message |-> message, topic |-> d, device |-> d, items |-> items]
\* Two good batches, one that fails, one of another Device with the id of the
\* first, and one under another Device's topic.
MCEnvelopes == {
    Sent(d1, a1, <<It(k1, 1, "number"), It(k1, 0, "number")>>),
    Sent(d1, a2, <<It(k2, 1, "text"), It(k1, 2, "boolean")>>),
    Sent(d1, a2, <<It(k2, 0, "unstorable"), It(k1, 1, "overflow")>>),
    Sent(d2, a1, <<It(k1, 1, "number")>>),
    [Sent(d1, a1, <<It(k1, 1, "number")>>) EXCEPT !.topic = d2]}

MCRowId == [k \in {d1, d2} \X {a1, a2} \X (1..2) |->
    (IF k[1] = d1 THEN 0 ELSE 4) + (IF k[2] = a1 THEN 5 - 2 * k[3] ELSE 6 - 2 * k[3])]
MCFilters == {[sensor |-> s1, channel |-> AnyChannel, from |-> 0, to |-> 2],
              [sensor |-> s1, channel |-> m1, from |-> 1, to |-> 2]}
===============================================================================
