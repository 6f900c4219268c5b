----------------------------- MODULE MarketData -----------------------------
(* Market data from the universe file to the bars a paper run reads: the
   provider loads the file, resolves every enabled symbol in the instrument
   master, and the import writes instruments and daily candles in one
   transaction that any failing symbol undoes; the mapping of a symbol to
   its token is stored by the command that syncs instruments. The paper loop
   resolved its symbols from the file when it started, and keeps them. *)
EXTENDS ShariahUniverse

CONSTANTS Tokens,        \* instrument tokens of the provider
          Masters,       \* instrument masters the provider may answer with:
                         \* functions from some codes to tokens
          LastTradingDay, \* days of the model are 1 .. LastTradingDay
          LookbackDays,  \* days of history an import asks for
          MaxRetries,    \* retries of one provider call
          Answers,       \* what one attempt meets: "rows", "flaky", "refused"
          MaxTries       \* bound on the imports tried

ASSUME MarketAssumption ==
  /\ LastTradingDay \in Nat \ {0} /\ LookbackDays \in Nat /\ MaxTries \in Nat
  /\ \A master \in Masters : \A c \in DOMAIN master : master[c] \in Tokens

VARIABLES day,          \* the trading day it is
          sessionOpen,  \* the day's bar is still moving
          instruments,  \* symbol -> token of its provider mapping, or none
          bars,         \* symbol -> day -> "none", "partial" or "final"
          loop,         \* symbols the running paper loop holds, none if idle
          lastImport,   \* symbols and day of the last completed import
          tries         \* imports tried so far

marketVars ==
  <<day, sessionOpen, instruments, bars, loop, lastImport, tries>>

Days == 1 .. LastTradingDay

(* One candle for a symbol and a day, overwritten as the day goes on. *)
BarStates == {"none", "partial", "final"}

NoToken == "none"

(* _call_with_retries: the operation is tried again after a passing error,
   never after a permanent one, and at most MaxRetries times more. *)
CallSucceeds(attempts) ==
  \E n \in 1 .. MaxRetries + 1 :
    /\ attempts[n] = "rows"
    /\ \A m \in 1 .. n - 1 : attempts[m] = "flaky"

(* load_market_data_universe; the file was validated when it was written, so
   it can only be missing. _resolve_enabled_instruments: one enabled symbol
   the master lacks fails all of them. *)
Resolvable(master) == universe # {} /\ universe \subseteq DOMAIN master

\* Mutant: a candle that is stored already is left as it is.
KeepStored(old, fetched) == IF old = "none" THEN fetched ELSE old

(* CandleRepository.upsert of one candle: the row of the day is overwritten,
   and a day the answer does not hold keeps its row. *)
UpsertBar(old, fetched) == IF fetched = "none" THEN old ELSE fetched

(* get_historical_candles: the bars of the lookback window up to today; the
   bar of a session under way is the part traded so far. *)
Fetched(d) ==
  CASE d > day \/ d + LookbackDays < day -> "none"
    [] d = day /\ sessionOpen -> "partial"
    [] OTHER -> "final"

MarketInit ==
  /\ day = 1
  /\ sessionOpen = TRUE
  /\ instruments = [c \in Codes |-> NoToken]
  /\ bars = [c \in Codes |-> [d \in Days |-> "none"]]
  /\ loop = {}
  /\ lastImport = [symbols |-> {}, day |-> 0]
  /\ tries = 0

(* The environment: the session closes, the next day opens. *)
CloseSession ==
  /\ sessionOpen
  /\ sessionOpen' = FALSE
  /\ UNCHANGED <<day, instruments, bars, loop, lastImport, tries>>

NextDay ==
  /\ ~sessionOpen /\ day < LastTradingDay
  /\ day' = day + 1
  /\ sessionOpen' = TRUE
  /\ UNCHANGED <<instruments, bars, loop, lastImport, tries>>

(* _resolve_symbols_from_env without SYMBOLS, SimplePaperScheduler: the
   symbols are those of the file now, for every iteration of the loop. *)
StartLoop ==
  /\ loop = {} /\ universe # {}
  /\ loop' = universe
  /\ UNCHANGED <<day, sessionOpen, instruments, bars, lastImport, tries>>

(* sync_instruments commits instruments and mappings on their own. *)
SyncInstruments(master) ==
  /\ tries < MaxTries
  /\ Resolvable(master)
  /\ tries' = tries + 1
  /\ instruments' = [c \in Codes |-> IF c \in universe THEN master[c]
                                     ELSE instruments[c]]
  /\ UNCHANGED <<day, sessionOpen, bars, loop, lastImport>>

(* import_market_data, as _load_latest_inputs of a run calls it. *)
Import(master, attempts) ==
  /\ loop # {} /\ tries < MaxTries
  /\ Resolvable(master)
  /\ \A c \in universe : CallSucceeds(attempts[c])
  /\ tries' = tries + 1
  /\ bars' = [c \in Codes |-> IF c \notin universe THEN bars[c]
                ELSE [d \in Days |-> UpsertBar(bars[c][d], Fetched(d))]]
  /\ lastImport' = [symbols |-> universe, day |-> day]
  /\ UNCHANGED <<day, sessionOpen, instruments, loop>>

(* A symbol the master lacks, or a call that stays without rows, fails the
   import and with it the run; SimplePaperScheduler ends at the exception. *)
ImportFails(master, attempts) ==
  /\ loop # {} /\ tries < MaxTries
  /\ \/ ~Resolvable(master)
     \/ \E c \in universe : ~CallSucceeds(attempts[c])
  /\ tries' = tries + 1
  /\ loop' = {}
  /\ UNCHANGED <<day, sessionOpen, instruments, bars, lastImport>>

(* The iterations of the loop are over. *)
EndLoop ==
  /\ loop # {} /\ tries > 0
  /\ loop' = {}
  /\ UNCHANGED <<day, sessionOpen, instruments, bars, lastImport, tries>>

MarketNext ==
  \/ CloseSession
  \/ NextDay
  \/ StartLoop
  \/ \E master \in Masters : SyncInstruments(master)
  \/ \E master \in Masters, attempts \in Answers :
       Import(master, attempts) \/ ImportFails(master, attempts)
  \/ EndLoop

(* The two commands run side by side. *)
ReferenceInit == ShariahInit /\ MarketInit
ReferenceNext == \/ ShariahNext /\ UNCHANGED marketVars
                 \/ MarketNext /\ UNCHANGED shariahVars
ReferenceSpec ==
  ReferenceInit /\ [][ReferenceNext]_<<shariahVars, marketVars>>

-----------------------------------------------------------------------------
ReferenceTypeOK ==
  /\ \A k \in Keys : rows[k].known =>
       rows[k].verdict \in {"halal", "haram"} /\ rows[k].source \in Sources
  /\ universe \subseteq Codes /\ loop \subseteq Codes
  /\ sync.stage \in {"idle", "fetched", "published"}
  /\ day \in Days /\ sessionOpen \in BOOLEAN
  /\ instruments \in [Codes -> Tokens \cup {NoToken}]
  /\ bars \in [Codes -> [Days -> BarStates]]
  /\ lastImport.symbols \subseteq Codes /\ lastImport.day \in 0 .. LastTradingDay
  /\ tries \in 0 .. MaxTries

(* Every symbol of the universe file has a halal line on the page of some
   source the file rests on: a company that was renamed, dropped from its
   list or turned haram under another row does not stay in the file
   (HalalStockComplianceRepository.replace_import, export_halal_nse_universe). *)
SymbolsAreHalalOnAPage ==
  \A c \in universe : \E s \in Sources : \E l \in basis[s] :
    CodeOf[l.key] = c /\ Verdict(l.icon) = "halal"

(* Before its day is over a bar is stored as far as it has traded. Whatever
   a run of the day left behind, the next import makes every bar of an
   earlier day in its window final, for each symbol it covers: a strategy
   that reads the history up to yesterday never reads half a day
   (CandleRepository.upsert, get_historical_candles). *)
ImportedBarsAreFinal ==
  \A c \in lastImport.symbols : \A d \in Days :
    d < lastImport.day /\ d + LookbackDays >= lastImport.day
      => bars[c][d] = "final"

=============================================================================
