---------------------------- MODULE ReadingHistory ----------------------------
(***************************************************************************)
(* The readings API while telemetry is being stored: a client walks the    *)
(* history of a Sensor page by page with the cursor of the page before,    *)
(* and reads the latest reading of each enabled Channel.                   *)
(*                                                                         *)
(* Code: services/reading_service.py, repositories/reading_repository.py   *)
(* (latest_for_sensor, history), schemas/telemetry.py (the responses).     *)
(*                                                                         *)
(* Each page is one SELECT; readings older and newer than the cursor are   *)
(* inserted between two of them.                                           *)
(***************************************************************************)
EXTENDS TelemetryIngestion, FiniteSets

CONSTANTS
    RowId,          \* the random UUID of each row, as an arbitrary order
    Filters,        \* what the client may ask for
    AnyChannel, NoCursor,
    Limit           \* readings per page

Filter == [sensor : Sensors, channel : Definitions \cup {AnyChannel}, from : Nat, to : Nat]
Cursor == [at : Nat, id : Nat]
Indices == 1..MaxReadings

ASSUME HistoryAssumption ==
    /\ RowId \in [Devices \X Messages \X Indices -> Nat]
    /\ \A j, k \in DOMAIN RowId : RowId[j] = RowId[k] => j = k
    /\ IsFiniteSet(Definitions)
    /\ Filters # {} /\ \A f \in Filters : f \in Filter /\ f.from <= f.to
    /\ NoCursor \notin Cursor
    /\ Limit \in Nat \ {0}

VARIABLES
    reader,     \* the walk of the client: filter, cursor, rows shown
    owed        \* history: the matching rows when the walk began

vars == <<ingestion, reader, owed>>

Closed == [pc |-> "closed", filter |-> CHOOSE f \in Filters : TRUE,
           cursor |-> NoCursor, shown |-> {}, count |-> 0]

TypeOK ==
    /\ IngestionTypeOK
    /\ reader \in [pc : {"closed", "open", "done"}, filter : Filters,
                   cursor : Cursor \cup {NoCursor}, shown : SUBSET readings, count : Nat]
    /\ owed \subseteq readings

Init == IngestionInit /\ reader = Closed /\ owed = {}

Id(r) == RowId[<<r.device, r.message, r.index>>]

\* Mutant: the latest is the row with the greatest id.
BeforeById(at, id, r) == Id(r) < id

\* ORDER BY recorded_at DESC, id DESC.
Before(at, id, r) == r.at < at \/ (r.at = at /\ Id(r) < id)

Matching(f) ==
    {r \in readings : r.sensor = f.sensor /\ f.channel \in {r.definition, AnyChannel}
                      /\ f.from <= r.at /\ r.at <= f.to}

\* Mutants: the cursor is compared by its timestamp alone.
RemainingFrom ==
    {r \in Matching(reader.filter) : reader.cursor = NoCursor \/ r.at <= reader.cursor.at}
RemainingBelow ==
    {r \in Matching(reader.filter) : reader.cursor = NoCursor \/ r.at < reader.cursor.at}

\* Mutant: no cursor, the rows not shown yet are shown.
RemainingUnshown == Matching(reader.filter) \ reader.shown

\* The rows the next page is taken from, and the first n of a set of rows.
Remaining ==
    {r \in Matching(reader.filter) :
        reader.cursor = NoCursor \/ Before(reader.cursor.at, reader.cursor.id, r)}
First(n, S) == {r \in S : Cardinality({q \in S : Before(q.at, Id(q), r)}) < n}
Last(S) == CHOOSE r \in S : \A q \in S : q = r \/ Before(q.at, Id(q), r)

OpenHistory(f) ==
    /\ reader.pc = "closed"
    /\ reader' = [Closed EXCEPT !.pc = "open", !.filter = f]
    /\ owed' = Matching(f)

\* history: limit + 1 rows are read; the cursor is the last row of the page.
NextPage ==
    LET page == First(Limit, Remaining) IN
    /\ reader.pc = "open"
    /\ reader' = [reader EXCEPT
            !.pc = IF Remaining = page THEN "done" ELSE "open",
            !.cursor = IF Remaining = page THEN NoCursor
                       ELSE [at |-> Last(page).at, id |-> Id(Last(page))],
            !.shown = @ \cup page,
            !.count = @ + Cardinality(page)]
    /\ UNCHANGED owed

CloseHistory ==
    /\ reader.pc # "closed"
    /\ reader' = Closed
    /\ owed' = {}

Read == (\E f \in Filters : OpenHistory(f)) \/ NextPage \/ CloseHistory

Next ==
    \/ IngestionNext /\ UNCHANGED <<reader, owed>>
    \/ Read /\ UNCHANGED ingestion

Spec == Init /\ [][Next]_vars

(***************************************************************************)
(* Properties.                                                             *)
(***************************************************************************)
\* No page shows a row of an earlier page, whatever was inserted in between.
NoRepeat == reader.count = Cardinality(reader.shown)

\* A walk that ended has shown every matching row there was when it began.
NoneSkipped == reader.pc = "done" => owed \subseteq reader.shown

\* A walk goes back in time: no page shows a reading newer than one on an
\* earlier page, though newer ones are stored between two of them.
NewestFirst ==
    [][\A r \in reader'.shown \ reader.shown, q \in reader.shown : r.at <= q.at]_reader

\* latest_for_sensor: one row per enabled Channel.
LatestOf(s) ==
    {r \in readings :
        /\ r.sensor = s
        /\ channels[s][r.definition].enabled
        /\ \A q \in readings : q.sensor = s /\ q.definition = r.definition /\ q # r
                                => Before(r.at, Id(r), q)}

\* The latest reading of a Channel that stays enabled never gives way to an
\* older one and never disappears, though messages arrive out of order.
LatestNeverOlder ==
    [][\A s \in Sensors : \A r \in LatestOf(s) :
        channels'[s][r.definition].enabled =>
            \E q \in LatestOf(s)' : q.definition = r.definition /\ q.at >= r.at]_vars

===============================================================================
