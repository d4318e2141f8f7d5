------------------------- MODULE ReadingHistory_proofs -------------------------
(***************************************************************************)
(* Proofs about ReadingHistory, for any page size, filters, identities of  *)
(* rows and readings.                                                      *)
(*                                                                         *)
(* The argument: rows are totally ordered by time and identity.  After     *)
(* each page, every row shown is at or before the cursor and every row     *)
(* that was owed is shown or still after the cursor; what is inserted      *)
(* meanwhile changes neither.  A page is a set of rows before all others   *)
(* that remain, and its last row is the next cursor.                       *)
(***************************************************************************)
EXTENDS ReadingHistory, TelemetryIngestion_proofs, FiniteSetTheorems,
        FunctionTheorems, WellFoundedInduction

\* q comes before r in a history.
Precedes(q, r) == Before(q.at, Id(q), r)

AfterCursor(r) ==
    reader.cursor = NoCursor \/ Before(reader.cursor.at, reader.cursor.id, r)

Walk ==
    /\ reader.pc = "closed" => reader = Closed /\ owed = {}
    /\ reader.pc # "closed" => owed \subseteq Matching(reader.filter)
    /\ reader.pc = "open" =>
        /\ \A r \in reader.shown : ~AfterCursor(r)
        /\ \A r \in owed : r \in reader.shown \/ AfterCursor(r)
    /\ reader.pc = "done" => owed \subseteq reader.shown

FiniteTables == IsFiniteSet(readings) /\ IsFiniteSet(worker.rows)

Counted == IsFiniteSet(reader.shown) /\ reader.count = Cardinality(reader.shown)

IInv ==
    /\ IngestionInv
    /\ TypeOK
    /\ FiniteTables
    /\ Walk
    /\ Counted

-----------------------------------------------------------------------------
(* Orders on finite sets.                                                  *)

\* A finite set has an element that no other precedes.
LEMMA Extreme ==
    ASSUME NEW S, IsFiniteSet(S), S # {}, NEW R,
           \A x \in S : <<x, x>> \notin R,
           \A x, y, z \in S : <<x, y>> \in R /\ <<y, z>> \in R => <<x, z>> \in R
    PROVE  \E x \in S : \A y \in S : <<y, x>> \notin R
<1> DEFINE Under(x) == {y \in S : <<y, x>> \in R}
<1> DEFINE T == {Under(x) : x \in S}
<1>1. T \subseteq FiniteSubsetsOf(S) /\ T # {}
  <2>1. FiniteSubsetsOf(S) = SUBSET S
    BY FS_FiniteSubsetsOfFinite
  <2>2. \A x \in S : Under(x) \in SUBSET S
    OBVIOUS
  <2>3. PICK x \in S : TRUE
    OBVIOUS
  <2>4. Under(x) \in T
    OBVIOUS
  <2>5. ASSUME NEW U \in T PROVE U \in SUBSET S
    <3>1. PICK y \in S : U = Under(y)
      OBVIOUS
    <3> QED
      BY <2>2, <3>1
  <2> HIDE DEF T, Under
  <2> QED
    BY <2>1, <2>4, <2>5
<1>2. PICK U \in T : \A V \in T : <<V, U>> \notin StrictSubsetOrdering(S)
  <2>1. IsWellFoundedOn(StrictSubsetOrdering(S), FiniteSubsetsOf(S))
    BY FS_StrictSubsetOrderingWellFounded
  <2> HIDE DEF T
  <2> QED
    BY <1>1, <2>1, WFMin
<1>3. PICK x \in S : U = Under(x)
  OBVIOUS
<1>4. ASSUME NEW y \in S, <<y, x>> \in R PROVE FALSE
  <2>1. Under(y) \subseteq Under(x) /\ y \in Under(x) /\ y \notin Under(y)
    BY <1>4
  <2>2. Under(y) # Under(x) /\ Under(y) \in SUBSET S /\ Under(x) \in SUBSET S
    BY <2>1
  <2>3. <<Under(y), Under(x)>> \in StrictSubsetOrdering(S)
    BY <2>1, <2>2 DEF StrictSubsetOrdering
  <2> QED
    BY <1>2, <1>3, <2>3
<1> QED
  BY <1>4

\* Rows have a time and an identity of their own.
LEMMA RowOrdered ==
    ASSUME NEW r \in Row
    PROVE  r.at \in Nat /\ Id(r) \in Nat
BY HistoryAssumption DEF Row, Id, Indices

LEMMA RowsDiffer ==
    ASSUME OneRowPerKey, readings \subseteq Row, NEW q \in readings, NEW r \in readings,
           Id(q) = Id(r)
    PROVE  q = r
<1>1. /\ <<q.device, q.message, q.index>> \in DOMAIN RowId
      /\ <<r.device, r.message, r.index>> \in DOMAIN RowId
  BY HistoryAssumption DEF Row, Indices
<1>2. <<q.device, q.message, q.index>> = <<r.device, r.message, r.index>>
  BY <1>1, HistoryAssumption DEF Id
<1> QED
  BY <1>2 DEF OneRowPerKey, SameKey

\* Precedes is a strict total order of the stored rows.
LEMMA TotalOrder ==
    ASSUME OneRowPerKey, readings \subseteq Row
    PROVE  /\ \A q, r \in readings : q = r \/ Precedes(q, r) \/ Precedes(r, q)
           /\ \A q, r \in readings : ~(Precedes(q, r) /\ Precedes(r, q))
           /\ \A r \in readings : ~Precedes(r, r)
           /\ \A p, q, r \in readings : Precedes(p, q) /\ Precedes(q, r) => Precedes(p, r)
<1>1. \A r \in readings : r.at \in Nat /\ Id(r) \in Nat
  BY RowOrdered
<1>2. \A q, r \in readings : Id(q) = Id(r) => q = r
  BY RowsDiffer
<1>3. ASSUME NEW q \in readings, NEW r \in readings
      PROVE  q = r \/ Precedes(q, r) \/ Precedes(r, q)
  BY <1>1, <1>2 DEF Precedes, Before
<1>4. ASSUME NEW p \in readings, NEW q \in readings, NEW r \in readings,
             Precedes(p, q), Precedes(q, r)
      PROVE  Precedes(p, r)
  BY <1>1, <1>4 DEF Precedes, Before
<1>5. ASSUME NEW q \in readings, NEW r \in readings, Precedes(q, r), Precedes(r, q)
      PROVE  FALSE
  BY <1>1, <1>5 DEF Precedes, Before
<1> QED
  BY <1>3, <1>4, <1>5

\* A finite set of rows has a first one and a last one.
LEMMA FirstExists ==
    ASSUME OneRowPerKey, readings \subseteq Row, NEW S \in SUBSET readings, IsFiniteSet(S), S # {}
    PROVE  \E r \in S : \A q \in S : q = r \/ Precedes(r, q)
<1> DEFINE R == {p \in S \X S : Precedes(p[1], p[2])}
<1>1. \A q, r \in S : <<q, r>> \in R <=> Precedes(q, r)
  OBVIOUS
<1> HIDE DEF R
<1>2. \A r \in S : <<r, r>> \notin R
  BY <1>1, TotalOrder
<1>3. \A p, q, r \in S : <<p, q>> \in R /\ <<q, r>> \in R => <<p, r>> \in R
  BY <1>1, TotalOrder
<1>4. PICK r \in S : \A q \in S : <<q, r>> \notin R
  BY <1>2, <1>3, Extreme
<1> QED
  BY <1>1, <1>4, TotalOrder

LEMMA LastExists ==
    ASSUME OneRowPerKey, readings \subseteq Row, NEW S \in SUBSET readings, IsFiniteSet(S), S # {}
    PROVE  Last(S) \in S /\ \A q \in S : q = Last(S) \/ Precedes(q, Last(S))
<1> DEFINE R == {p \in S \X S : Precedes(p[2], p[1])}
<1>1. \A q, r \in S : <<q, r>> \in R <=> Precedes(r, q)
  OBVIOUS
<1> HIDE DEF R
<1>2. \A r \in S : <<r, r>> \notin R
  BY <1>1, TotalOrder
<1>3. \A p, q, r \in S : <<p, q>> \in R /\ <<q, r>> \in R => <<p, r>> \in R
  BY <1>1, TotalOrder
<1>4. PICK r \in S : \A q \in S : <<q, r>> \notin R
  BY <1>2, <1>3, Extreme
<1>5. \A q \in S : q = r \/ Precedes(q, r)
  BY <1>1, <1>4, TotalOrder
<1> QED
  BY <1>5 DEF Last, Precedes

-----------------------------------------------------------------------------
(* One page.                                                               *)

\* What IInv gives about rows.
LEMMA Rows ==
    ASSUME IInv
    PROVE  /\ OneRowPerKey /\ readings \subseteq Row /\ IsFiniteSet(readings)
           /\ reader.shown \subseteq readings /\ owed \subseteq readings
           /\ Remaining \subseteq Matching(reader.filter)
           /\ Matching(reader.filter) \subseteq readings
BY DEF IInv, IngestionInv, IngestionTypeOK, FiniteTables, TypeOK, Remaining, Matching

LEMMA RemainingAfter == Remaining = {r \in Matching(reader.filter) : AfterCursor(r)}
BY DEF Remaining, AfterCursor

\* What comes before a row, of a finite set of rows.
LEMMA CountPreceding ==
    ASSUME OneRowPerKey, readings \subseteq Row, NEW S \in SUBSET readings, IsFiniteSet(S),
           NEW n \in Nat \ {0}
    PROVE  /\ First(n, S) \subseteq S
           /\ S # {} => First(n, S) # {}
           /\ \A q \in S \ First(n, S), r \in First(n, S) : Precedes(r, q)
<1> DEFINE Preceding(r) == {q \in S : Precedes(q, r)}
<1>1. First(n, S) = {r \in S : Cardinality(Preceding(r)) < n}
  BY DEF First, Precedes
<1>2. \A r \in S : IsFiniteSet(Preceding(r)) /\ Cardinality(Preceding(r)) \in Nat
  BY FS_Subset, FS_CardinalityType
<1>3. ASSUME S # {} PROVE First(n, S) # {}
  <2>1. PICK r \in S : \A q \in S : q = r \/ Precedes(r, q)
    BY <1>3, FirstExists
  <2>2. Preceding(r) = {}
    BY <2>1, TotalOrder
  <2>3. Cardinality(Preceding(r)) = 0
    BY <2>2, FS_EmptySet
  <2> HIDE DEF Preceding
  <2> QED
    BY <1>1, <2>3
<1>4. ASSUME NEW q \in S \ First(n, S), NEW r \in First(n, S), ~Precedes(r, q) PROVE FALSE
  <2>1. q # r /\ r \in S
    BY <1>1, <1>4
  <2>2. Precedes(q, r)
    BY <2>1, <1>4, TotalOrder
  <2>3. Preceding(q) \in SUBSET Preceding(r)
    BY <2>1, <2>2, TotalOrder
  <2> HIDE DEF Preceding
  <2>4. Cardinality(Preceding(q)) <= Cardinality(Preceding(r))
    BY <1>2, <2>1, <2>3, FS_Subset
  <2> QED
    BY <1>1, <1>2, <1>4, <2>1, <2>4
<1> QED
  BY <1>1, <1>3, <1>4

\* A page has no row shown before, and finitely many.
LEMMA PageFresh ==
    ASSUME IInv, reader.pc = "open"
    PROVE  /\ First(Limit, Remaining) \subseteq Remaining
           /\ IsFiniteSet(First(Limit, Remaining))
           /\ First(Limit, Remaining) \cap reader.shown = {}
           /\ Remaining # {} => First(Limit, Remaining) # {}
           /\ \A q \in Remaining \ First(Limit, Remaining), r \in First(Limit, Remaining) :
                Precedes(r, q)
<1>1. Remaining \in SUBSET readings /\ IsFiniteSet(Remaining)
  BY Rows, FS_Subset
<1>2. Limit \in Nat \ {0}
  BY HistoryAssumption
<1>3. /\ First(Limit, Remaining) \subseteq Remaining
      /\ Remaining # {} => First(Limit, Remaining) # {}
      /\ \A q \in Remaining \ First(Limit, Remaining), r \in First(Limit, Remaining) :
            Precedes(r, q)
  BY <1>1, <1>2, Rows, CountPreceding
<1>4. IsFiniteSet(First(Limit, Remaining))
  BY <1>1, <1>3, FS_Subset
<1>5. \A r \in reader.shown : r \notin Remaining
  BY RemainingAfter DEF IInv, Walk
<1> QED
  BY <1>3, <1>4, <1>5

\* When rows remain after a page, its last row separates what was shown from
\* what is still owed.
LEMMA CursorMoves ==
    ASSUME IInv, reader.pc = "open", Remaining # First(Limit, Remaining),
           NEW last, last = Last(First(Limit, Remaining))
    PROVE  /\ last \in Row
           /\ \A r \in reader.shown \cup First(Limit, Remaining) : ~Precedes(last, r)
           /\ \A r \in owed : r \in reader.shown \cup First(Limit, Remaining) \/ Precedes(last, r)
<1> DEFINE page == First(Limit, Remaining)
<1>1. page \subseteq Remaining /\ page # {} /\ IsFiniteSet(page) /\ page \in SUBSET readings
  BY PageFresh, Rows
<1>2. last \in page /\ \A q \in page : q = last \/ Precedes(q, last)
  BY <1>1, Rows, LastExists
<1>3. last \in readings /\ last \in Row /\ AfterCursor(last)
  BY <1>1, <1>2, Rows, RemainingAfter
<1>4. ASSUME NEW r \in page PROVE ~Precedes(last, r)
  BY <1>1, <1>2, <1>3, Rows, TotalOrder
<1>5. ASSUME NEW r \in reader.shown PROVE ~Precedes(last, r)
  <2>1. ~AfterCursor(r) /\ r \in readings /\ r \in Row
    BY Rows DEF IInv, Walk
  <2>2. /\ reader.cursor # NoCursor
        /\ ~Before(reader.cursor.at, reader.cursor.id, r)
        /\ Before(reader.cursor.at, reader.cursor.id, last)
    BY <1>3, <2>1 DEF AfterCursor
  <2>3. reader.cursor \in Cursor
    BY <2>2 DEF IInv, TypeOK
  <2>4. reader.cursor.at \in Nat /\ reader.cursor.id \in Nat
    BY <2>3 DEF Cursor
  <2>5. r.at \in Nat /\ Id(r) \in Nat /\ last.at \in Nat /\ Id(last) \in Nat
    BY <1>3, <2>1, RowOrdered
  <2> QED
    BY <2>2, <2>4, <2>5 DEF Before, Precedes
<1>6. ASSUME NEW r \in owed, r \notin reader.shown, r \notin page PROVE Precedes(last, r)
  <2>1. r \in Remaining
    BY <1>6, RemainingAfter DEF IInv, Walk
  <2> QED
    BY <1>2, <1>6, <2>1, PageFresh
<1> QED
  BY <1>3, <1>4, <1>5, <1>6

-----------------------------------------------------------------------------
(* Steps.                                                                  *)

\* A message yields finitely many rows, and the table stays finite.
LEMMA FiniteStep ==
    ASSUME IInv, [IngestionNext]_ingestion
    PROVE  FiniteTables'
<1> USE DEF IInv, FiniteTables
<1>1. CASE UNCHANGED <<worker, readings>>
  BY <1>1
<1>2. CASE worker'.rows = {} /\ readings' = readings
  BY <1>2, FS_EmptySet
<1>3. CASE Insert
  <2>1. {r \in worker.rows : ~Stored(r)} \in SUBSET worker.rows
    OBVIOUS
  <2>2. IsFiniteSet({r \in worker.rows : ~Stored(r)})
    BY <2>1, FS_Subset
  <2>3. IsFiniteSet(readings')
    BY <1>3, <2>2, FS_Union DEF Insert
  <2> QED
    BY <1>3, <2>3, IdleTyped, FS_EmptySet DEF Insert
<1>4. CASE Judge
  <2> DEFINE domain == {p \in (1..Len(worker.envelope.items)) \X Definitions :
                            Accepted(p[1], p[2])}
  <2> DEFINE rows == {NewRow(p[1], p[2]) : p \in domain}
  <2> DEFINE row == [p \in domain |-> NewRow(p[1], p[2])]
  <2>1. worker'.rows = rows /\ readings' = readings
    BY <1>4 DEF Judge, IngestionInv, IngestionTypeOK
  <2>2. IsFiniteSet((1..Len(worker.envelope.items)) \X Definitions)
    <3>1. worker.envelope \in Envelope
      BY <1>4, IngestionAssumption DEF Judge, IngestionInv, IngestionTypeOK
    <3>2. Len(worker.envelope.items) \in Int
      BY <3>1 DEF Envelope
    <3>3. IsFiniteSet(1..Len(worker.envelope.items)) /\ IsFiniteSet(Definitions)
      BY <3>2, FS_Interval, HistoryAssumption
    <3> QED
      BY <3>3, FS_Product
  <2>3. IsFiniteSet(domain)
    BY <2>2, FS_Subset
  <2>4. row \in Surjection(domain, rows)
    BY DEF Surjection
  <2> HIDE DEF domain, rows, row
  <2>5. IsFiniteSet(rows)
    BY <2>3, <2>4, FS_Surjection
  <2> QED
    BY <2>1, <2>5
<1>5. CASE \E e \in Envelopes : Take(e)
  BY <1>2, <1>5, IdleTyped DEF Take, Idle
<1>6. CASE ReadSensors \/ ReadChannels
  BY <1>6 DEF ReadSensors, ReadChannels, IngestionInv, IngestionTypeOK
<1>7. CASE Fail
  BY <1>2, <1>7, IdleTyped DEF Fail
<1>8. CASE Tick
  BY <1>1, <1>8 DEF Tick
<1> QED
  BY <1>1, <1>3, <1>4, <1>5, <1>6, <1>7, <1>8 DEF IngestionNext, Work, ingestion

LEMMA ReadingsGrow == ASSUME [IngestionNext]_ingestion PROVE readings \subseteq readings'
BY OnlyInsert DEF Insert

\* The walk while telemetry is stored.
LEMMA IngestionKeeps ==
    ASSUME IInv, [IngestionNext]_ingestion, UNCHANGED <<reader, owed>>
    PROVE  IInv'
<1>1. IngestionInv'
  BY IngestionStep DEF IInv
<1>2. readings \subseteq readings'
  BY ReadingsGrow
<1>3. FiniteTables'
  BY FiniteStep
<1>4. TypeOK'
  BY <1>1, <1>2 DEF IInv, TypeOK, IngestionInv
<1>5. Walk'
  <2>1. \A f : Matching(f) \subseteq Matching(f)'
    BY <1>2 DEF Matching
  <2>2. \A r : AfterCursor(r)' <=> AfterCursor(r)
    BY DEF AfterCursor, Before, Id
  <2> QED
    BY <2>1, <2>2 DEF IInv, Walk
<1>6. Counted'
  BY DEF IInv, Counted
<1> QED
  BY <1>1, <1>3, <1>4, <1>5, <1>6 DEF IInv

\* What a step of the client keeps.
LEMMA TablesKept ==
    ASSUME IInv, UNCHANGED ingestion
    PROVE  IngestionInv' /\ FiniteTables' /\ readings' = readings
<1>1. IngestionInv'
  BY IngestionStep DEF IInv
<1> QED
  BY <1>1 DEF IInv, FiniteTables, ingestion

LEMMA ClosedTyped ==
    Closed \in [pc : {"closed", "open", "done"}, filter : Filters,
                cursor : Cursor \cup {NoCursor}, shown : SUBSET readings, count : Nat]
BY HistoryAssumption DEF Closed

LEMMA OpenKeeps ==
    ASSUME IInv, NEW f \in Filters, OpenHistory(f), UNCHANGED ingestion
    PROVE  IInv'
<1>1. IngestionInv' /\ FiniteTables' /\ readings' = readings
  BY TablesKept
<1>2. /\ reader'.pc = "open" /\ reader'.filter = f /\ reader'.cursor = NoCursor
      /\ reader'.shown = {} /\ reader'.count = 0
      /\ owed' = Matching(f)
  BY DEF OpenHistory, Closed
<1>3. TypeOK'
  BY <1>1, <1>2, ClosedTyped DEF OpenHistory, TypeOK, IngestionInv, Matching
<1>4. Walk'
  BY <1>1, <1>2 DEF Walk, AfterCursor, Matching
<1>5. Counted'
  BY <1>2, FS_EmptySet DEF Counted
<1> QED
  BY <1>1, <1>3, <1>4, <1>5 DEF IInv

LEMMA PageKeeps ==
    ASSUME IInv, NextPage, UNCHANGED ingestion
    PROVE  IInv'
<1> DEFINE page == First(Limit, Remaining)
<1> DEFINE last == Last(page)
<1>1. IngestionInv' /\ FiniteTables' /\ readings' = readings
  BY TablesKept
<1>2. /\ reader.pc = "open"
      /\ reader'.pc = IF Remaining = page THEN "done" ELSE "open"
      /\ reader'.filter = reader.filter
      /\ reader'.cursor = IF Remaining = page THEN NoCursor
                          ELSE [at |-> last.at, id |-> Id(last)]
      /\ reader'.shown = reader.shown \cup page
      /\ reader'.count = reader.count + Cardinality(page)
      /\ reader' = [reader EXCEPT !.pc = reader'.pc, !.cursor = reader'.cursor,
                        !.shown = reader'.shown, !.count = reader'.count]
      /\ owed' = owed
  BY DEF NextPage, IInv, TypeOK
<1>3. /\ page \subseteq Remaining /\ IsFiniteSet(page) /\ page \cap reader.shown = {}
      /\ page \subseteq readings
  BY <1>2, PageFresh, Rows
<1>4. ASSUME Remaining # page
      PROVE  /\ last \in Row
             /\ \A r \in reader'.shown : ~Precedes(last, r)
             /\ \A r \in owed : r \in reader'.shown \/ Precedes(last, r)
  BY <1>2, <1>4, CursorMoves
<1> HIDE DEF page, last
<1>5. TypeOK'
  <2>1. reader'.cursor \in Cursor \cup {NoCursor}
    <3>1. CASE Remaining = page
      BY <1>2, <3>1
    <3>2. CASE Remaining # page
      <4>1. last.at \in Nat /\ Id(last) \in Nat
        BY <1>4, <3>2, RowOrdered
      <4> QED
        BY <1>2, <3>2, <4>1 DEF Cursor
    <3> QED
      BY <3>1, <3>2
  <2>2. reader'.count \in Nat
    BY <1>2, <1>3, FS_CardinalityType DEF IInv, TypeOK
  <2>3. reader'.shown \subseteq readings'
    BY <1>1, <1>2, <1>3 DEF IInv, TypeOK
  <2>4. reader'.pc \in {"closed", "open", "done"}
    BY <1>2
  <2>5. owed' \subseteq readings'
    BY <1>1, <1>2 DEF IInv, TypeOK
  <2>6. reader' \in [pc : {"closed", "open", "done"}, filter : Filters,
                     cursor : Cursor \cup {NoCursor}, shown : SUBSET readings', count : Nat]
    BY <1>1, <1>2, <2>1, <2>2, <2>3, <2>4 DEF IInv, TypeOK
  <2> QED
    BY <1>1, <2>5, <2>6 DEF TypeOK, IngestionInv
<1>6. Walk'
  <2>1. owed' \subseteq Matching(reader.filter)'
    BY <1>1, <1>2 DEF IInv, Walk, Matching
  <2>2. CASE Remaining = page
    <3>1. \A r \in owed : r \in reader.shown \/ r \in page
      BY <1>2, <2>2, RemainingAfter DEF IInv, Walk
    <3> QED
      BY <1>2, <2>1, <2>2, <3>1 DEF Walk
  <2>3. CASE Remaining # page
    <3>1. NoCursor # [at |-> last.at, id |-> Id(last)]
      <4>1. last.at \in Nat /\ Id(last) \in Nat
        BY <1>4, <2>3, RowOrdered
      <4> QED
        BY <4>1, HistoryAssumption DEF Cursor
    <3>2. \A r : AfterCursor(r)' <=> Precedes(last, r)
      BY <1>2, <2>3, <3>1 DEF AfterCursor, Precedes, Before, Id
    <3> QED
      BY <1>2, <1>4, <2>1, <2>3, <3>2 DEF Walk
  <2> QED
    BY <2>2, <2>3
<1>7. Counted'
  <2>1. /\ IsFiniteSet(reader.shown \cup page)
        /\ Cardinality(reader.shown \cup page) =
            Cardinality(reader.shown) + Cardinality(page) - Cardinality(reader.shown \cap page)
    BY <1>3, FS_Union DEF IInv, Counted
  <2>2. Cardinality(reader.shown \cap page) = 0
    <3>1. reader.shown \cap page = {}
      BY <1>3
    <3> QED
      BY <3>1, FS_EmptySet
  <2>3. Cardinality(reader.shown) \in Nat /\ Cardinality(page) \in Nat
    BY <1>3, FS_CardinalityType DEF IInv, Counted
  <2> QED
    BY <1>2, <2>1, <2>2, <2>3 DEF IInv, Counted
<1> QED
  BY <1>1, <1>5, <1>6, <1>7 DEF IInv

LEMMA CloseKeeps ==
    ASSUME IInv, CloseHistory, UNCHANGED ingestion
    PROVE  IInv'
<1>1. IngestionInv' /\ FiniteTables' /\ readings' = readings
  BY TablesKept
<1>2. reader' = Closed /\ owed' = {} /\ Closed.pc = "closed" /\ Closed.shown = {}
      /\ Closed.count = 0
  BY DEF CloseHistory, Closed
<1>3. TypeOK'
  BY <1>1, <1>2, ClosedTyped DEF TypeOK, IngestionInv
<1> QED
  BY <1>1, <1>2, <1>3, FS_EmptySet DEF IInv, Walk, Counted

LEMMA StepKeeps == IInv /\ [Next]_vars => IInv'
<1> SUFFICES ASSUME IInv, [Next]_vars PROVE IInv'
  OBVIOUS
<1>1. CASE UNCHANGED vars
  BY <1>1, IngestionKeeps DEF vars
<1>2. CASE IngestionNext /\ UNCHANGED <<reader, owed>>
  BY <1>2, IngestionKeeps
<1>3. CASE Read /\ UNCHANGED ingestion
  <2>1. CASE \E f \in Filters : OpenHistory(f)
    BY <1>3, <2>1, OpenKeeps
  <2>2. CASE NextPage
    BY <1>3, <2>2, PageKeeps
  <2>3. CASE CloseHistory
    BY <1>3, <2>3, CloseKeeps
  <2> QED
    BY <1>3, <2>1, <2>2, <2>3 DEF Read
<1> QED
  BY <1>1, <1>2, <1>3 DEF Next

LEMMA InitKeeps == Init => IInv
<1> SUFFICES ASSUME Init PROVE IInv
  OBVIOUS
<1>1. IngestionInv
  BY InitInv DEF Init
<1>2. readings = {} /\ worker.rows = {} /\ reader = Closed /\ owed = {}
  BY IdleTyped DEF Init, IngestionInit
<1>3. FiniteTables
  BY <1>2, FS_EmptySet DEF FiniteTables
<1>4. TypeOK
  BY <1>1, <1>2, ClosedTyped DEF TypeOK, IngestionInv
<1>5. Walk
  BY <1>2 DEF Walk, Closed
<1>6. Counted
  BY <1>2, FS_EmptySet DEF Counted, Closed
<1> QED
  BY <1>1, <1>3, <1>4, <1>5, <1>6 DEF IInv

LEMMA Invariant == Spec => []IInv
<1> QED
  BY InitKeeps, StepKeeps, PTL DEF Spec

\* The readings API reads what the telemetry worker stores: its steps are
\* stutters of the worker.
LEMMA HistoryIngests == Spec => IngestionSpec
<1>1. Init => IngestionInit
  BY DEF Init
<1>2. [Next]_vars => [IngestionNext]_ingestion
  BY DEF Next, vars
<1> QED
  BY <1>1, <1>2, PTL DEF Spec, IngestionSpec

-----------------------------------------------------------------------------
(* Theorems.                                                               *)

\* Every variable of the readings API and of the telemetry worker keeps its
\* type, whatever is sent, lost, edited or read.
THEOREM HistoryTypeCorrect == Spec => []TypeOK
<1>1. IInv => TypeOK
  BY DEF IInv
<1> QED
  BY <1>1, Invariant, PTL

\* Pages of any size never show a reading twice, whatever is inserted between
\* two of them.
THEOREM HistoryNeverRepeats == Spec => []NoRepeat
<1>1. IInv => NoRepeat
  BY DEF IInv, Counted, NoRepeat
<1> QED
  BY <1>1, Invariant, PTL

\* A walk that ended has shown every reading that matched when it began.
THEOREM HistoryNeverSkips == Spec => []NoneSkipped
<1>1. IInv => NoneSkipped
  BY DEF IInv, Walk, NoneSkipped
<1> QED
  BY <1>1, Invariant, PTL

\* And has shown them newest first, though newer ones are stored meanwhile.
THEOREM HistoryNewestFirst == Spec => NewestFirst
<1> DEFINE Ordered == \A r \in reader'.shown \ reader.shown, q \in reader.shown : r.at <= q.at
<1>1. IInv /\ [Next]_vars => [Ordered]_reader
  <2> SUFFICES ASSUME IInv, [Next]_vars, NEW r \in reader'.shown \ reader.shown,
                      NEW q \in reader.shown
               PROVE  r.at <= q.at
    OBVIOUS
  <2>1. NextPage
    <3>1. Closed.shown = {} /\ \A f : [Closed EXCEPT !.pc = "open", !.filter = f].shown = {}
      BY DEF Closed
    <3>2. reader' # reader /\ reader'.shown # {}
      OBVIOUS
    <3>3. Read
      BY <3>2 DEF Next, vars
    <3>4. ~CloseHistory /\ \A f \in Filters : ~OpenHistory(f)
      BY <3>1, <3>2 DEF OpenHistory, CloseHistory
    <3> QED
      BY <3>3, <3>4 DEF Read
  <2>2. reader.pc = "open" /\ r \in First(Limit, Remaining)
    BY <2>1 DEF NextPage, IInv, TypeOK
  <2>3. r \in readings /\ r \in Row /\ AfterCursor(r)
    BY <2>2, PageFresh, Rows, RemainingAfter
  <2>4. q \in readings /\ q \in Row /\ ~AfterCursor(q)
    BY <2>2, Rows DEF IInv, Walk
  <2>5. reader.cursor # NoCursor /\ reader.cursor \in Cursor
    BY <2>4 DEF AfterCursor, IInv, TypeOK
  <2>6. reader.cursor.at \in Nat /\ reader.cursor.id \in Nat
    BY <2>5 DEF Cursor
  <2>7. r.at \in Nat /\ q.at \in Nat /\ Id(r) \in Nat /\ Id(q) \in Nat
    BY <2>3, <2>4, RowOrdered
  <2> QED
    BY <2>3, <2>4, <2>5, <2>6, <2>7 DEF AfterCursor, Before
<1> HIDE DEF Ordered
<1>2. Spec => [][Ordered]_reader
  BY <1>1, Invariant, PTL DEF Spec
<1> QED
  BY <1>2 DEF NewestFirst, Ordered

\* The table the API reads is the log it is promised to be.
THEOREM HistoryImplementsLog == Spec => ImplementsLog
<1> QED
  BY HistoryIngests, IngestionImplementsLog, PTL

\* And its rows were stored as the catalogue allowed.
THEOREM HistoryStoredAsConfigured == Spec => StoredAsConfigured
<1> QED
  BY HistoryIngests, IngestionStoresAsConfigured, PTL

\* None that it allowed all along was dropped.
THEOREM HistoryDropsNothing == Spec => NothingDropped
<1> QED
  BY HistoryIngests, IngestionDropsNothing, PTL

\* An enabled Channel with a reading has a latest one, no older than any.
Newest ==
    \A s \in Sensors : \A r \in readings :
        r.sensor = s /\ channels[s][r.definition].enabled =>
            \E q \in LatestOf(s) : q.definition = r.definition /\ q.at >= r.at

LEMMA NewestIsLatest == IInv => Newest
<1> SUFFICES ASSUME IInv, NEW s \in Sensors, NEW r \in readings, r.sensor = s,
                    channels[s][r.definition].enabled
             PROVE  \E q \in LatestOf(s) : q.definition = r.definition /\ q.at >= r.at
  BY DEF Newest
<1> DEFINE S == {q \in readings : q.sensor = s /\ q.definition = r.definition}
<1>1. S \in SUBSET readings /\ IsFiniteSet(S) /\ r \in S
  BY Rows, FS_Subset
<1>2. PICK q \in S : \A p \in S : p = q \/ Precedes(q, p)
  BY <1>1, Rows, FirstExists
<1>3. q \in LatestOf(s)
  BY <1>2 DEF LatestOf, Precedes
<1>4. q.at \in Nat /\ r.at \in Nat /\ Id(q) \in Nat /\ Id(r) \in Nat
  BY <1>1, Rows, RowOrdered
<1>5. q.at >= r.at
  BY <1>1, <1>2, <1>4 DEF Precedes, Before
<1> QED
  BY <1>2, <1>3, <1>5

\* The latest reading of a Channel that stays enabled is never replaced by an
\* older one and never disappears.
THEOREM LatestIsNeverOlder == Spec => LatestNeverOlder
<1>1. Newest' /\ [Next]_vars =>
        [\A s \in Sensors : \A r \in LatestOf(s) :
            channels'[s][r.definition].enabled =>
                \E q \in LatestOf(s)' : q.definition = r.definition /\ q.at >= r.at]_vars
  <2> SUFFICES ASSUME Newest', [Next]_vars, NEW s \in Sensors, NEW r \in LatestOf(s),
                      channels'[s][r.definition].enabled
               PROVE  \E q \in LatestOf(s)' : q.definition = r.definition /\ q.at >= r.at
    OBVIOUS
  <2>1. readings \subseteq readings'
    BY ReadingsGrow DEF Next, vars, ingestion
  <2>2. r \in readings' /\ r.sensor = s
    BY <2>1 DEF LatestOf
  <2> QED
    BY <2>2 DEF Newest
<1> QED
  BY <1>1, NewestIsLatest, Invariant, PTL DEF Spec, LatestNeverOlder
=============================================================================
