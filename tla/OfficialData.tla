------------------------------ MODULE OfficialData ------------------------------
(***************************************************************************)
(* The official data of the exchange: index candles and rows on the        *)
(* delivery, circuit and tradability of a security, imported from files    *)
(* in any order, read as they could be known at an instant, and turned     *)
(* into the context of the profile technical_official_v2b.                 *)
(* Instants are counted in hours, closes in paise, delivery in percent.    *)
(***************************************************************************)
EXTENDS TechnicalSignal, SequencesExt

CONSTANTS
  Securities,
  SectorOf,       \* security -> its sector index, or NoIndex
  Benchmark, Volatility, NoIndex,
  IndexFiles,     \* sequences of [index, day, source, close, at]
  MicroFiles,     \* sequences of [security, day, source, values, at]
  BadFiles,       \* files with a row the parser refuses
  ReturnDays,     \* 20 in the code
  LongReturnDays, \* 63 in the code
  DeliveryDays,   \* 20 in the code
  SnapshotSets,   \* functions security -> snapshot of its candles
  Return20,       \* security -> its 20-day return, or NoScore
  DecisionDays,
  MaxImports      \* bound: imports of a behaviour

VARIABLES
  indexRows,   \* official_index_candles by <<index, day, source>>
  microRows,   \* official_security_microstructure by <<security, day, source>>
  imports,     \* the outcome of each import
  snapshots    \* what the candles of each security say, see TechnicalSignal

officialVars == <<indexRows, microRows, imports, snapshots>>

Unstated == NoScore   \* a file that does not say when a row became available
Fields == {"delivery", "status", "hit", "impact", "turnover"}
Absent == [f \in Fields |-> IF f \in {"status", "hit"} THEN "absent" ELSE NoScore]
Says(values, f) == values[f] # Absent[f]

(* What the parsers let through, and a reading of each theme for each      *)
(* security.                                                               *)
ASSUME OfficialAssumption ==
  /\ \A file \in IndexFiles \cup MicroFiles :
       /\ file \in Seq(Range(file))
       /\ \A row \in Range(file) : row.day \in Nat /\ row.at \in Nat \cup {Unstated}
  /\ \A file \in IndexFiles : \A row \in Range(file) : row.close \in Nat
  /\ \A file \in MicroFiles : \A row \in Range(file) :
       /\ DOMAIN row.values = Fields
       /\ row.values.status \in {"absent", "clear", "near", "hit"}
       /\ row.values.hit \in {"absent", "yes", "no"}
  /\ IsFiniteSet(Securities) /\ DecisionDays \subseteq Nat
  /\ \A set \in SnapshotSets :
       set \in [Securities -> [days : Nat, alpha : Int, risk : Int, tradability : Int, stretch : Int]]

Hour(day, hour) == 24 * day + hour
AvailableAt(row) == IF row.at = Unstated THEN Hour(row.day, 18) ELSE row.at
AsOfEvening(day) == Hour(day, 18)
AsOfTime(day) == Hour(day, 0)

OfficialInit ==
  /\ indexRows = << >>
  /\ microRows = << >>
  /\ imports = << >>
  /\ snapshots \in SnapshotSets

(* A stored row: at is when it became available. *)
IndexRow == [close : Nat, at : Nat]
IsMicroRow(row) ==
  /\ DOMAIN row = {"values", "at", "told"} /\ row.at \in Nat
  /\ DOMAIN row.values = Fields /\ row.told \in [Fields -> Nat]
  /\ row.values.status \in {"absent", "clear", "near", "hit"}
  /\ row.values.hit \in {"absent", "yes", "no"}

IndexKey(row) == <<row.index, row.day, row.source>>
MicroKey(row) == <<row.security, row.day, row.source>>

(* Rows are added before they are flushed and the session does not flush   *)
(* on a query: two new rows of one key violate the unique constraint.      *)
InsertsTwice(keys, stored) ==
  \E i, j \in DOMAIN keys : i # j /\ keys[i] = keys[j] /\ keys[i] \notin DOMAIN stored

StoredIndexRow(row) == [close |-> row.close, at |-> AvailableAt(row)]

(* _merge_microstructure_fields keeps what the new row does not say; told  *)
(* remembers for each field when the file it came from was available.      *)
StoredMicroRow(row) ==
  [values |-> row.values, at |-> AvailableAt(row),
   told |-> [f \in Fields |-> AvailableAt(row)]]
MergedMicroRow(old, row) ==
  [values |-> [f \in Fields |-> IF Says(row.values, f) THEN row.values[f] ELSE old.values[f]],
   at |-> AvailableAt(row),
   told |-> [f \in Fields |-> IF Says(row.values, f) THEN AvailableAt(row) ELSE old.told[f]]]

Keep(stored, key, row) ==
  [k \in DOMAIN stored \cup {key} |-> IF k = key THEN row ELSE stored[k]]
UpsertIndexRow(stored, row) == Keep(stored, IndexKey(row), StoredIndexRow(row))
UpsertMicroRow(stored, row) ==
  Keep(stored, MicroKey(row), IF MicroKey(row) \in DOMAIN stored
                              THEN MergedMicroRow(stored[MicroKey(row)], row)
                              ELSE StoredMicroRow(row))

Recorded(outcome) == Len(imports) < MaxImports /\ imports' = Append(imports, outcome)

ImportIndices ==
  \E file \in IndexFiles :
    /\ ~InsertsTwice([i \in DOMAIN file |-> IndexKey(file[i])], indexRows)
    /\ Recorded("stored")
    /\ indexRows' = FoldLeft(UpsertIndexRow, indexRows, file)
    /\ UNCHANGED <<microRows, snapshots>>

ImportMicrostructure ==
  \E file \in MicroFiles :
    /\ ~InsertsTwice([i \in DOMAIN file |-> MicroKey(file[i])], microRows)
    /\ Recorded("stored")
    /\ microRows' = FoldLeft(UpsertMicroRow, microRows, file)
    /\ UNCHANGED <<indexRows, snapshots>>

(* A row the parser refuses, or a key inserted twice, stores nothing.      *)
RefuseFile ==
  /\ \/ BadFiles # {}
     \/ \E file \in IndexFiles : InsertsTwice([i \in DOMAIN file |-> IndexKey(file[i])], indexRows)
     \/ \E file \in MicroFiles : InsertsTwice([i \in DOMAIN file |-> MicroKey(file[i])], microRows)
  /\ Recorded("refused")
  /\ UNCHANGED <<indexRows, microRows, snapshots>>

OfficialNext == ImportIndices \/ ImportMicrostructure \/ RefuseFile
OfficialSpec == OfficialInit /\ [][OfficialNext]_officialVars

(* ---- history_as_of: rows of a name up to a day, known at its first hour *)
Earlier(rows, j, k) ==
  \/ j[2] < k[2]
  \/ j[2] = k[2] /\ (rows[j].at < rows[k].at \/ (rows[j].at = rows[k].at /\ j[3] < k[3]))

KnownAsOf(rows, name, day) ==
  [k \in {j \in DOMAIN rows : j[1] = name /\ j[2] <= day /\ rows[j].at <= AsOfTime(day)} |-> rows[k]]
InOrder(rows) ==
  LET order == SetToSortSeq(DOMAIN rows, LAMBDA j, k : Earlier(rows, j, k))
  IN  [i \in DOMAIN order |-> rows[order[i]]]

HistoryAsOf(rows, name, day) == InOrder(KnownAsOf(rows, name, day))

(* _period_return counts rows, whatever days and sources they are of; no   *)
(* return is taken on a close of zero.                                     *)
PeriodReturn(history, window) ==
  IF Len(history) <= window \/ history[Len(history) - window].close = 0 THEN NoScore
  ELSE RoundSigned(1000 * Last(history).close, history[Len(history) - window].close) - 1000

IndexRegime(change) ==
  IF change = NoScore THEN "unknown" ELSE IF change >= 30 THEN "bullish"
  ELSE IF change <= 0 - 30 THEN "bearish" ELSE "neutral"
VixRegime(level, change) ==
  IF level >= 2200 THEN "stress"
  ELSE IF level <= 1500 /\ (change = NoScore \/ change <= 100) THEN "calm" ELSE "normal"

NoIndexFeature == [change |-> NoScore, regime |-> "none"]
IndexFeature(history) ==
  IF history = << >> THEN NoIndexFeature
  ELSE LET change == PeriodReturn(history, ReturnDays)
           moved == IF change # NoScore THEN change ELSE PeriodReturn(history, LongReturnDays)
       IN  [change |-> change, regime |-> IndexRegime(moved)]
VolatilityFeature(history) ==
  IF history = << >> THEN NoIndexFeature
  ELSE LET change == PeriodReturn(history, ReturnDays)
       IN  [change |-> change, regime |-> VixRegime(Last(history).close, change)]

(* ---- The features of the latest row of a security                       *)
DeliveryZ(history) ==
  LET earlier == SubSeq(history, 1, Len(history) - 1)
      recent == SubSeq(earlier, IF Len(earlier) > DeliveryDays THEN Len(earlier) - DeliveryDays + 1 ELSE 1,
                       Len(earlier))
      told == SelectSeq(recent, LAMBDA row : Says(row.values, "delivery"))
      latest == Last(history).values.delivery
      vs == [i \in 1..(Len(told) + 1) |-> IF i <= Len(told) THEN told[i].values.delivery ELSE latest]
      sum == MapThenSumSet(LAMBDA i : vs[i], 1..Len(told))
      spread == Len(told) * MapThenSumSet(LAMBDA i : vs[i] * vs[i], 1..Len(told)) - sum * sum
  IN  IF latest = NoScore \/ Len(told) < 2 THEN NoScore
      ELSE IF spread = 0 THEN 0
      ELSE RoundSigned((Len(told) * latest - sum) * Unit * 10, Root(100 * spread))

DeliveryScore(z, delivery) ==
  IF z # NoScore THEN Bounded(RoundSigned(z, 2))
  ELSE IF delivery = NoScore THEN NoScore
  ELSE IF delivery >= 50 THEN 4000 ELSE IF delivery <= 20 THEN 0 - 4000 ELSE 1000

(* Impact cost in basis points; without one the turnover (in lakhs) stands *)
(* for it.                                                                 *)
Implementability(values) ==
  IF Says(values, "impact") THEN Bounded(Unit - 400 * values.impact)
  ELSE IF ~Says(values, "turnover") THEN NoScore
  ELSE IF values.turnover >= 500 THEN 8000 ELSE IF values.turnover >= 100 THEN 3000 ELSE 0 - 4000

NoMicro == [delivery |-> NoScore, status |-> "absent", hit |-> "absent", implementability |-> NoScore,
            covered |-> [delivery |-> FALSE, circuit |-> FALSE, tradability |-> FALSE]]
MicroFeature(history) ==
  IF history = << >> THEN NoMicro
  ELSE LET v == Last(history).values
           i == Implementability(v)
       IN  [delivery |-> DeliveryScore(DeliveryZ(history), v.delivery),
            status |-> v.status, hit |-> v.hit, implementability |-> i,
            covered |-> [delivery |-> Says(v, "delivery"),
                         circuit |-> Says(v, "status") \/ Says(v, "hit"),
                         tradability |-> i # NoScore]]

(* _symbol_context and official_context_with_snapshot_returns              *)
OfficialContext(indices, micros, s, day) ==
  LET benchmark == IndexFeature(HistoryAsOf(indices, Benchmark, day))
      volatility == VolatilityFeature(HistoryAsOf(indices, Volatility, day))
      sector == IF SectorOf[s] = NoIndex THEN NoIndexFeature
                ELSE IndexFeature(HistoryAsOf(indices, SectorOf[s], day))
      micro == MicroFeature(HistoryAsOf(micros, s, day))
      families == <<benchmark.change # NoScore, volatility.regime # "none", micro.covered.delivery,
                    micro.covered.circuit, micro.covered.tradability>>
                    \o (IF SectorOf[s] = NoIndex THEN << >> ELSE <<sector.change # NoScore>>)
  IN  [benchmark |-> benchmark, volatility |-> volatility, sector |-> sector,
       status |-> micro.status, hit |-> micro.hit, delivery |-> micro.delivery,
       implementability |-> micro.implementability,
       coverage |-> RoundHalfEven(Unit * Cardinality({i \in DOMAIN families : families[i]}),
                                  Len(families))]

DefaultRules == [minRisk |-> NoScore, breadthMultiple |-> NoScore, penalty |-> 0]

(* What the profile says of a security on the morning of a day.            *)
OfficialScore(indices, micros, s, day) ==
  OfficialV2b(OhlcvScore(snapshots, s, TRUE, "long", DefaultRules, FALSE, 0),
              OfficialContext(indices, micros, s, day), Return20[s])
=============================================================================
