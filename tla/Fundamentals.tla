---------------------------- MODULE Fundamentals ----------------------------
(* Screener fundamentals: a CSV export is resolved row by row to the active
   instruments, scored, and stored under the hash of the file in one
   transaction; the analyst of a symbol reads the newest score. Metrics are
   counted in tenths, scores in steps of 0.0001. *)
EXTENDS Decimals, Sequences, FiniteSets, SequencesExt

CONSTANTS Instruments,  \* active instruments in order: [symbol, name]
          Inside,       \* <<a, b>>: the normalised name a occurs in the name b
          NoName,
          Files,        \* [id, columns: BOOLEAN, rows: Seq(row)]
          Times,        \* times a file may be stamped as available
          MaxFiles      \* bound on the imports tried

(* A file is known by the hash of its bytes. *)
ASSUME FilesAssumption ==
  /\ Instruments \in Seq(ToSet(Instruments)) /\ MaxFiles \in Nat
  /\ \A f, g \in Files : f.id = g.id => f = g
  /\ \A f \in Files : f.rows \in Seq(ToSet(f.rows))
  /\ \A f \in Files : \A r \in ToSet(f.rows) : \A k \in DOMAIN r.metrics :
       r.metrics[k] \in Int

VARIABLES scores,  \* stored score rows
          report,  \* what the analyst said last
          tried    \* imports tried so far

fundamentalsVars == <<scores, report, tried>>

Unmapped == "unmapped"

ListedSymbols == {i.symbol : i \in ToSet(Instruments)}

(* _by_name: of instruments of one name the last. *)
LastNamed(name) ==
  LET named == {n \in DOMAIN Instruments : Instruments[n].name = name}
  IN Instruments[CHOOSE n \in named : \A m \in named : m <= n].symbol

(* _InstrumentResolver.resolve: the symbol itself, else the instrument of
   that name, else that of the first name which contains the row's or is
   contained in it. *)
Resolve(row) ==
  LET Alike(name) == {<<row.name, name>>, <<name, row.name>>} \cap Inside # {}
      alike == {n \in DOMAIN Instruments : Alike(Instruments[n].name)}
  IN CASE row.symbol \in ListedSymbols -> row.symbol
       [] row.symbol \notin ListedSymbols /\ row.name = NoName -> Unmapped
       [] row.symbol \notin ListedSymbols /\ row.name # NoName ->
            IF \E i \in ToSet(Instruments) : i.name = row.name
            THEN LastNamed(row.name)
            ELSE IF alike # {}
            THEN LastNamed(Instruments[CHOOSE n \in alike : \A m \in alike : n <= m].name)
            ELSE Unmapped

-----------------------------------------------------------------------------
(* score_fundamentals. A value that may be missing is a sequence of at most
   one element. *)
Whole == 10000

Within(x) == IF x > Whole THEN Whole ELSE IF x < -Whole THEN -Whole ELSE x

Metric(m, name) == IF name \in DOMAIN m THEN <<m[name]>> ELSE <<>>

Scaled(low, high, value) ==
  [i \in DOMAIN value |->
     Within(RoundSigned(Whole * (2 * (value[i] - low) - (high - low)),
                        high - low))]

\* Mutant: a metric of which less is better is scaled like the others.
NotInverted(low, high, value) == Scaled(low, high, value)

InverseScaled(low, high, value) ==
  LET s == Scaled(low, high, value) IN [i \in DOMAIN s |-> -s[i]]

EpsScore(value) ==
  [i \in DOMAIN value |-> CASE value[i] < 0 -> -8000
                            [] value[i] = 0 -> -2000
                            [] OTHER -> Scaled(0, 1000, value)[i]]

(* Price over book value, from 1.5 to 8; none without a positive book value. *)
PriceToBookScore(price, book) ==
  IF price = <<>> \/ book = <<>> THEN <<>>
  ELSE IF book[1] <= 0 THEN <<>>
  ELSE InverseScaled(30 * book[1], 160 * book[1], <<20 * price[1]>>)

OrZero(value) == IF value = <<>> THEN 0 ELSE value[1]

(* The mean of the values present. *)
Average(values) ==
  LET present == {i \in DOMAIN values : values[i] # <<>>}
      terms == [i \in DOMAIN values |-> OrZero(values[i])]
  IN IF present = {} THEN <<>>
     ELSE <<RoundSigned(MapThenSumSet(LAMBDA i : terms[i], DOMAIN values),
                        Cardinality(present))>>

SumOptional(a, b) ==
  IF a = <<>> /\ b = <<>> THEN <<>> ELSE <<OrZero(a) + OrZero(b)>>

Quality(m) == Average(<<Scaled(50, 250, Metric(m, "roce")),
                        Scaled(50, 220, Metric(m, "roe")),
                        EpsScore(Metric(m, "eps")),
                        Scaled(-50, 200, Metric(m, "sales_growth")),
                        Scaled(-50, 200, Metric(m, "profit_growth"))>>)

Valuation(m) ==
  Average(<<InverseScaled(120, 450, Metric(m, "stock_pe")),
            PriceToBookScore(Metric(m, "current_price"),
                             Metric(m, "book_value")),
            Scaled(0, 40, Metric(m, "dividend_yield"))>>)

LeverageRisk(m) ==
  Average(<<InverseScaled(2, 20, Metric(m, "debt_to_equity")),
            InverseScaled(0, 200, Metric(m, "pledged_percentage"))>>)

Ownership(m) ==
  Average(<<Scaled(250, 600, Metric(m, "promoter_holding")),
            Scaled(50, 350, SumOptional(Metric(m, "fii_holding"),
                                        Metric(m, "dii_holding")))>>)

CompositeOf(m) ==
  OrZero(Average(<<Quality(m), Valuation(m), LeverageRisk(m), Ownership(m)>>))

-----------------------------------------------------------------------------
\* Mutant: a row no instrument was found for is stored as well.
ReadableRows(file) == {n \in DOMAIN file.rows : DOMAIN file.rows[n].metrics # {}}

(* The rows of a file that are stored: mapped to an instrument, with at least
   one metric that could be read. *)
StoredRows(file) ==
  {n \in DOMAIN file.rows : /\ Resolve(file.rows[n]) # Unmapped
                            /\ DOMAIN file.rows[n].metrics # {}}

\* Mutant: no unique constraint, a later row of a symbol is stored as well.
NeverCollides(file) == FALSE

(* Two stored rows of one symbol break the unique constraint of (import_id,
   symbol), and the whole file with it. *)
Collides(file) ==
  \E m, n \in StoredRows(file) :
    m # n /\ Resolve(file.rows[m]) = Resolve(file.rows[n])

ScoreRow(file, n, at) ==
  [file |-> file.id, symbol |-> Resolve(file.rows[n]), row |-> file.rows[n],
   composite |-> CompositeOf(file.rows[n].metrics), at |-> at, made |-> tried]

FundamentalsInit == scores = {} /\ report = [symbol |-> Unmapped] /\ tried = 0

(* import_screener_csv and FundamentalsRepository.replace_import: the rows of
   an earlier import of the same bytes are replaced. *)
ImportScreener(file, at) ==
  /\ tried < MaxFiles
  /\ file.columns /\ ~Collides(file) /\ Instruments # <<>>
  /\ tried' = tried + 1
  /\ scores' = {s \in scores : s.file # file.id}
                 \cup {ScoreRow(file, n, at) : n \in StoredRows(file)}
  /\ UNCHANGED report

(* A required column is missing, or the transaction fails: nothing stays. *)
RefuseScreener(file) ==
  /\ tried < MaxFiles
  /\ ~file.columns \/ Collides(file) \/ Instruments = <<>>
  /\ tried' = tried + 1
  /\ UNCHANGED <<scores, report>>

(* latest_score: by availability, then by the time the row was made. *)
LatestScores(symbol) ==
  LET own == {s \in scores : s.symbol = symbol}
  IN {s \in own : \A t \in own : t.at < s.at \/ (t.at = s.at /\ t.made <= s.made)}

(* FundamentalsAnalystAgent: neutral until an import covers the symbol. *)
ReportOf(symbol, newest) ==
  IF newest = {} THEN [symbol |-> symbol, score |-> 0, confidence |-> 40]
  ELSE LET s == CHOOSE x \in newest : TRUE
       IN [symbol |-> symbol, score |-> s.composite,
           confidence |-> IF Cardinality(DOMAIN s.row.metrics) >= 6
                          THEN 65 ELSE 55]

AnalyseFundamentals(symbol) ==
  /\ report' = ReportOf(symbol, LatestScores(symbol))
  /\ UNCHANGED <<scores, tried>>

FundamentalsNext ==
  \/ \E file \in Files, at \in Times : ImportScreener(file, at)
  \/ \E file \in Files : RefuseScreener(file)
  \/ \E symbol \in ListedSymbols : AnalyseFundamentals(symbol)

FundamentalsSpec ==
  FundamentalsInit /\ [][FundamentalsNext]_fundamentalsVars

-----------------------------------------------------------------------------
FundamentalsTypeOK ==
  /\ tried \in 0 .. MaxFiles
  /\ \A s \in scores : /\ s.symbol \in ListedSymbols
                       /\ s.composite \in -Whole .. Whole /\ s.at \in Times
  /\ report.symbol \in ListedSymbols \cup {Unmapped}

(* A company a file lists under its own symbol, with at least one metric, is
   scored from that row: a row of another company whose name contains its
   name, or is contained in it, never stands in for it, though the resolver
   would map it there (_InstrumentResolver.resolve, import_screener_csv). *)
ListedCompanySpeaksForItself ==
  \A s \in scores, file \in Files : s.file = file.id =>
    \A n \in DOMAIN file.rows :
      /\ file.rows[n].symbol = s.symbol
      /\ DOMAIN file.rows[n].metrics # {}
      => s.row = file.rows[n]

(* Of which metrics more is better and of which less. *)
MoreIsBetter == {"roce", "roe", "sales_growth", "profit_growth",
                 "dividend_yield", "promoter_holding", "fii_holding",
                 "dii_holding", "book_value"}
LessIsBetter == {"stock_pe", "debt_to_equity", "pledged_percentage",
                 "current_price"}

(* Price and book value can be set against each other. *)
Priced(m) == \A k \in DOMAIN m \cap {"current_price", "book_value"} : m[k] > 0

AtLeastAsGood(m, n) ==
  /\ DOMAIN m = DOMAIN n /\ Priced(m) /\ Priced(n)
  /\ \A k \in DOMAIN m : \/ m[k] = n[k]
                         \/ k \in MoreIsBetter /\ m[k] > n[k]
                         \/ k \in LessIsBetter /\ m[k] < n[k]

(* Of two companies with the same metrics the one that is nowhere worse never
   gets the lower composite score; clamping, the missing components and the
   roundings of two averages leave the order alone. Earnings per share are
   held equal, for a small profit scores below a loss, and so is the sign of
   the book value, for without a positive one price over book value is left
   out of the average (score_fundamentals). *)
StrongerNeverScoresLower ==
  \A s, t \in scores : AtLeastAsGood(s.row.metrics, t.row.metrics)
    => s.composite >= t.composite

=============================================================================
