--------------------------- MODULE TelemetryStore ---------------------------
(***************************************************************************)
(* The store's tables (telemetry/store.py) and the interval bars that are  *)
(* made from its readings (telemetry/transform.py).  Every operation is    *)
(* one transaction; in the file the server keeps, the database puts these  *)
(* one after the other.  A row that is not valid has no counterpart here   *)
(* but a batch may hold one: it is then refused before anything is read.   *)
(***************************************************************************)
EXTENDS Integers, SequencesExt

CONSTANTS ReadingRows,    \* readings: [asset, figure, when, samples]
          IntervalRows,   \* interval bars: [asset, interval, figure, when, samples]
          AssignmentRows, \* assignments: [id, asset, figure, when]
          EquipmentRows,  \* definitions: [asset, name, figure]
          AssetIds,       \* the assets as callers write them -> the upper-case form
          IdOrder,        \* these forms, sorted
          Blank,          \* the form of an identifier without a letter
          Naive,          \* the offset of a time that has none
          LikeForm,       \* texts -> their letters as LIKE compares them
          Casefolded,     \* texts -> their letters as casefold() gives them
          Double,         \* figures -> the nearest binary floats, as places in their order
          Micro,          \* a millionth, counted as figures are
          Width,          \* interval_seconds
          QueryCeiling,   \* MAX_QUERY_LIMIT and MAX_SEARCH_LIMIT
          MaxBatch,       \* bound: the rows of a call
          MaxCalls,       \* bound: the calls that are accepted
          MaxRows         \* bound: the rows in them

ASSUME StoreAssumption ==
  /\ Width \in Nat \ {0} /\ QueryCeiling \in Nat \ {0} /\ MaxBatch \in Nat
  /\ Micro \in Nat \ {0}
  /\ IdOrder \in Seq({AssetIds[a] : a \in DOMAIN AssetIds})

VARIABLES readings,    \* the table in the order of its ids
          intervals,   \* the table in the order of its ids
          assignments, \* the table in the order of its ids
          equipment,   \* asset -> its row, for the assets that have one
          storeClosed,
          accepted     \* history: the calls that returned, with their rows

storeVars == <<readings, intervals, assignments, equipment, storeClosed, accepted>>

StoreInit ==
  /\ readings = <<>> /\ intervals = <<>> /\ assignments = <<>> /\ equipment = <<>>
  /\ storeClosed = FALSE
  /\ accepted = <<>>

-----------------------------------------------------------------------------
\* Rows

\* Decimals, whole numbers and their digits become decimals; binary floats and
\* what is no finite number are refused.
Exact(figure) == figure.kind \in {"decimal", "whole", "digits"}

\* Every time is kept as the instant in UTC; one without an offset is refused.
Aware(when) == when.offset # Naive
InUTC(when) == when.clock - when.offset

AssetId(written) == AssetIds[written]

\* A count of samples is whole and not negative.
Counted(samples) == samples >= 0

Sound(row) ==
  /\ AssetId(row.asset) # Blank /\ Exact(row.figure)
  /\ "when" \in DOMAIN row => Aware(row.when)
  /\ "samples" \in DOMAIN row => Counted(row.samples)

\* A sound reading has a figure, counted in the last decimal place that any has, an
\* instant and a count of samples.
ASSUME ReadingAssumption ==
  \A row \in ReadingRows : Sound(row) =>
    /\ {"asset", "figure", "when", "samples"} \subseteq DOMAIN row
    /\ row.figure.n \in Int /\ row.samples \in Int /\ Double[row.figure.n] \in Int
    /\ row.when.clock \in Int /\ row.when.offset \in Int

\* The row a record of the table has for one that a caller gives
Built(row) ==
  [f \in DOMAIN row |-> CASE f = "asset" -> AssetId(row.asset)
                          [] f = "figure" -> row.figure.n
                          [] f = "when" -> InUTC(row.when)
                          [] OTHER -> row[f]]

BuiltAll(batch) == [i \in DOMAIN batch |-> Built(batch[i])]

-----------------------------------------------------------------------------
\* Operations

Batches(rows) == UNION {[1..n -> rows] : n \in 1..MaxBatch}

\* The rows are built, which refuses an unsound one, and then the session is
\* opened, which a closed store refuses.
Takes(batch) ==
  /\ Len(accepted) < MaxCalls
  /\ Len(batch) + FoldSeq(LAMBDA c, n : n + Len(c.rows), 0, accepted) =< MaxRows
  /\ ~storeClosed /\ \A i \in DOMAIN batch : Sound(batch[i])

Returns(kind, batch) ==
  accepted' = Append(accepted, [kind |-> kind, rows |-> BuiltAll(batch)])

InsertReadings(batch) ==
  /\ Takes(batch)
  /\ readings' = readings \o BuiltAll(batch)
  /\ Returns("readings", batch)
  /\ UNCHANGED <<intervals, assignments, equipment, storeClosed>>

InsertReading(row) == InsertReadings(<<row>>)

InsertIntervals(batch) ==
  /\ Takes(batch)
  /\ intervals' = intervals \o BuiltAll(batch)
  /\ Returns("intervals", batch)
  /\ UNCHANGED <<readings, assignments, equipment, storeClosed>>

InsertInterval(row) == InsertIntervals(<<row>>)

\* assignment_id is unique: a batch with one that is known, or twice the same, is
\* rolled back.
WholeBatch(batch) ==
  LET rows == assignments \o BuiltAll(batch)
  IN  IF \A i, j \in DOMAIN rows : rows[i].id = rows[j].id => i = j THEN batch ELSE <<>>

InsertAssignments(batch) ==
  /\ Takes(batch)
  /\ assignments' = assignments \o BuiltAll(WholeBatch(batch))
  /\ IF WholeBatch(batch) = batch THEN Returns("assignments", batch)
     ELSE UNCHANGED accepted
  /\ UNCHANGED <<readings, intervals, equipment, storeClosed>>

InsertAssignment(row) == InsertAssignments(<<row>>)

\* on_conflict_do_update, row by row
Upserted(table, row) ==
  [a \in DOMAIN table \cup {row.asset} |-> IF a = row.asset THEN row ELSE table[a]]

UpsertEquipments(batch) ==
  /\ Takes(batch)
  /\ equipment' = FoldLeft(Upserted, equipment, BuiltAll(batch))
  /\ Returns("equipment", batch)
  /\ UNCHANGED <<readings, intervals, assignments, storeClosed>>

ClearEquipment ==
  /\ Takes(<<>>) /\ equipment # <<>>
  /\ equipment' = <<>>
  /\ Returns("clear", <<>>)
  /\ UNCHANGED <<readings, intervals, assignments, storeClosed>>

CloseStore ==
  /\ ~storeClosed
  /\ storeClosed' = TRUE
  /\ UNCHANGED <<readings, intervals, assignments, equipment, accepted>>

StoreNext ==
  \/ \E b \in Batches(ReadingRows) : InsertReadings(b)
  \/ \E b \in Batches(IntervalRows) : InsertIntervals(b)
  \/ \E b \in Batches(AssignmentRows) : InsertAssignments(b)
  \/ \E b \in Batches(EquipmentRows) : UpsertEquipments(b)
  \/ \E row \in ReadingRows : InsertReading(row)
  \/ \E row \in IntervalRows : InsertInterval(row)
  \/ \E row \in AssignmentRows : InsertAssignment(row)
  \/ ClearEquipment \/ CloseStore

-----------------------------------------------------------------------------
\* Queries

AtMostCeiling(limit) == IF limit < QueryCeiling THEN limit ELSE QueryCeiling

FirstOf(order, limit) ==
  SubSeq(order, 1, Min({Len(order), AtMostCeiling(limit)}))

\* The elements of a finite set in the order that a set of pairs puts them in
Arranged(S, before) ==
  CHOOSE order \in [1..Cardinality(S) -> S] :
    \A j, k \in 1..Cardinality(S) : j < k => <<order[j], order[k]>> \in before

\* The newest row first, of one instant the one inserted last
Newer(table, found) ==
  {p \in found \X found : \/ table[p[1]].when > table[p[2]].when
                          \/ table[p[1]].when = table[p[2]].when /\ p[1] > p[2]}

\* Of the rows that were found in a table at most limit in this order
Newest(table, found, limit) ==
  LET order == Arranged(found, Newer(table, found))
  IN  FirstOf([k \in 1..Cardinality(found) |-> table[order[k]]], limit)

\* get_readings(), within the inclusive range
Page(asset, from, until, limit) ==
  LET InRange(r) == r.asset = AssetId(asset) /\ from =< r.when /\ r.when =< until
  IN  Newest(readings, {i \in DOMAIN readings : InRange(readings[i])}, limit)

\* get_intervals()
IntervalPage(asset, interval, limit) ==
  LET Matches(r) == r.asset = AssetId(asset) /\ r.interval = interval
  IN  Newest(intervals, {i \in DOMAIN intervals : Matches(intervals[i])}, limit)

\* get_assignments(), of an asset or, without one, of all
AssignmentPage(assets, limit) ==
  Newest(assignments, {i \in DOMAIN assignments : assignments[i].asset \in assets}, limit)

\* Equipment is listed in the order of the asset ids.
ById(rows) ==
  LET places == {k \in DOMAIN IdOrder : \E row \in rows : row.asset = IdOrder[k]}
      order == Arranged(places, {p \in places \X places : p[1] < p[2]})
  IN  [k \in 1..Cardinality(places) |-> CHOOSE row \in rows : row.asset = IdOrder[order[k]]]

Occurs(part, whole) == \E i, j \in 0..Len(whole) : part = SubSeq(whole, i + 1, j)

\* LIKE takes the cases of ASCII letters as equal; casefold() those of all letters, and
\* it makes several letters of some.
Like(term, text) == Occurs(LikeForm[term], LikeForm[text])
Folded(term, text) == Occurs(Casefolded[term], Casefolded[text])

Texts == DOMAIN LikeForm

\* casefold() makes the same of letters that LIKE takes as equal; asset ids and names
\* of equipment are texts.
ASSUME TextAssumption ==
  /\ \A term, text \in Texts : Like(term, text) => Folded(term, text)
  /\ \A row \in EquipmentRows : Sound(row) =>
       /\ {"asset", "name"} \subseteq DOMAIN row
       /\ AssetId(row.asset) \in Texts /\ row.name \in Texts

Listed == {equipment[a] : a \in DOMAIN equipment}

\* search_equipment() of the store, and the scan of the reference data that stands in
\* for it
Search(term, limit) ==
  FirstOf(ById({row \in Listed : Like(term, row.asset) \/ Like(term, row.name)}), limit)

Scanned(items, term) ==
  ById({row \in items : Folded(term, row.asset) \/ Folded(term, row.name)})

SearchInMemory(items, term, limit) ==
  SubSeq(Scanned(items, term), 1, Min({Len(Scanned(items, term)), limit}))

-----------------------------------------------------------------------------
\* What is made of readings

\* For mutation: the readings are taken as they come.
AsGiven(rs) == rs

\* sorted() is stable; readings of one instant and asset stay as they were.  How assets
\* of one instant are ordered is left out: a bar has readings of one asset only.
Earlier(rs) ==
  {p \in (DOMAIN rs) \X (DOMAIN rs) :
     \/ rs[p[1]].when < rs[p[2]].when
     \/ rs[p[1]].when = rs[p[2]].when /\ p[1] < p[2]}

Chronological(rs) ==
  LET order == Arranged(DOMAIN rs, Earlier(rs))
  IN  [k \in DOMAIN rs |-> rs[order[k]]]

\* Bars are made of float(last_reading), which stays finite.
InFloats(rs) == [k \in DOMAIN rs |-> [rs[k] EXCEPT !.figure = Double[@]]]

Bucket(r) == <<r.asset, r.when \div Width>>

\* A reading opens the bar of its bucket or is absorbed by it.
Absorbed(bars, r) ==
  LET key == Bucket(r)
      bar == IF key \in DOMAIN bars
             THEN [open |-> bars[key].open,
                   high |-> Max({bars[key].high, r.figure}),
                   low |-> Min({bars[key].low, r.figure}),
                   close |-> r.figure, samples |-> bars[key].samples + r.samples]
             ELSE [open |-> r.figure, high |-> r.figure, low |-> r.figure,
                   close |-> r.figure, samples |-> r.samples]
  IN  [k \in DOMAIN bars \cup {key} |-> IF k = key THEN bar ELSE bars[k]]

\* readings_to_intervals()
Bars(rs) == FoldLeft(Absorbed, <<>>, Chronological(InFloats(rs)))

\* n / d to the nearest whole number, to the even one of two
HalfEven(n, d) ==
  LET q == n \div d
      rest == 2 * (n % d)
  IN  IF rest < d \/ (rest = d /\ q % 2 = 0) THEN q ELSE q + 1

\* compute_weighted_average() in whole millionths, none without a sample.  Sums and
\* quotients are exact, as long as the 28 digits of the decimal context hold them.
WeightedAverage(rs) ==
  LET sum == SumFunctionOnSet([i \in DOMAIN rs |-> rs[i].figure * rs[i].samples], DOMAIN rs)
      count == SumFunctionOnSet([i \in DOMAIN rs |-> rs[i].samples], DOMAIN rs)
  IN  IF count = 0 THEN {} ELSE {HalfEven(sum, count * Micro)}

-----------------------------------------------------------------------------
\* Properties

Soundly(rows) == {row \in rows : Sound(row)}
LastInstant == Max({InUTC(row.when) : row \in Soundly(ReadingRows)})

\* What the bar of a bucket must say of the readings inside it
Inside(rs, key) == {i \in DOMAIN rs : Bucket(rs[i]) = key}

Describes(bar, rs, inside) ==
  LET first == Min({rs[i].when : i \in inside})
      final == Max({rs[i].when : i \in inside})
  IN  /\ bar.high = Max({rs[i].figure : i \in inside})
      /\ bar.low = Min({rs[i].figure : i \in inside})
      /\ bar.samples = SumFunctionOnSet([i \in DOMAIN rs |-> rs[i].samples], inside)
      /\ bar.open \in {rs[i].figure : i \in {j \in inside : rs[j].when = first}}
      /\ bar.close \in {rs[i].figure : i \in {j \in inside : rs[j].when = final}}

\* The average of readings is between two of them, each in whole millionths.
AverageWithin(rs) ==
  \A average \in WeightedAverage(rs) :
    \E i, j \in DOMAIN rs :
      HalfEven(rs[i].figure, Micro) =< average /\ average =< HalfEven(rs[j].figure, Micro)

\* The rows of the calls of a kind, one after the other; clearing the equipment takes
\* with it what was defined before.
Gathered(kind, rows, call) ==
  CASE call.kind = kind -> rows \o call.rows
    [] kind = "equipment" /\ call.kind = "clear" -> <<>>
    [] OTHER -> rows

RowsOf(kind, calls) == FoldLeft(LAMBDA rows, call : Gathered(kind, rows, call), <<>>, calls)

Defined == RowsOf("equipment", accepted)

\* Of a definition that is repeated the last one counts.
EquipmentIsLast ==
  /\ DOMAIN equipment = {Defined[i].asset : i \in DOMAIN Defined}
  /\ \A i \in DOMAIN Defined :
       \/ equipment[Defined[i].asset] = Defined[i]
       \/ \E j \in (i + 1)..Len(Defined) : Defined[j].asset = Defined[i].asset

\* Pages that hold less are the beginnings of those that hold more.
Beginnings(PageOf(_)) ==
  \A n \in 1..(QueryCeiling - 1) : IsPrefix(PageOf(n), PageOf(n + 1))

\* The readings of an asset, however it is written, read newest first
ReadingsAreRight(a) ==
  LET all == Page(a, 0, LastInstant, QueryCeiling)
      values == InFloats(all)
      bars == Bars(all)
  IN  /\ Beginnings(LAMBDA n : Page(a, 0, LastInstant, n))
      /\ \A w \in {all[i].when : i \in DOMAIN all} :
           LET at == {i \in DOMAIN all : all[i].when = w}
           IN  IsPrefix(SubSeq(all, Min(at), Max(at)), Page(a, w, w, QueryCeiling))
      /\ DOMAIN bars = {Bucket(all[i]) : i \in DOMAIN all}
      /\ \A key \in DOMAIN bars : Describes(bars[key], values, Inside(all, key))
      /\ AverageWithin(all)

\* The texts in which LIKE and casefold() see the same letters
Plain == {text \in Texts : LikeForm[text] = Casefolded[text]}

AllPlain == \A row \in Listed : row.asset \in Plain /\ row.name \in Plain

Assets(rows) == {row.asset : row \in ToSet(rows)}

\* Whatever the letters, the scan that replaces the store's search finds all that this
\* finds; among texts whose letters both see alike the two return the same page.
SearchesAgree ==
  \A term \in Texts :
    /\ Beginnings(LAMBDA n : Search(term, n))
    /\ Assets(Search(term, QueryCeiling)) \subseteq Assets(Scanned(Listed, term))
    /\ term \in Plain /\ AllPlain =>
         \A n \in 1..QueryCeiling : Search(term, n) = SearchInMemory(Listed, term, n)

\* The tables hold what the calls that returned were given, and of the definitions of
\* an asset the last; a refused batch leaves no row behind; a shorter page is where a
\* longer one begins; the bars of a page read newest first are right about every
\* bucket, in whatever order readings of several instants arrived, and their average is
\* between them; and a search finds with the store nothing that it misses without.
HistoryIsExact ==
  /\ readings = RowsOf("readings", accepted) /\ intervals = RowsOf("intervals", accepted)
  /\ assignments = RowsOf("assignments", accepted)
  /\ EquipmentIsLast
  /\ \A a \in {b \in DOMAIN AssetIds : AssetId(b) # Blank} :
       /\ ReadingsAreRight(a)
       /\ \A i \in {r.interval : r \in IntervalRows} : Beginnings(LAMBDA n : IntervalPage(a, i, n))
  /\ \A chosen \in SUBSET {IdOrder[k] : k \in DOMAIN IdOrder} :
       Beginnings(LAMBDA n : AssignmentPage(chosen, n))
  /\ SearchesAgree

=============================================================================
