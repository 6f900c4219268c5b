-------------------------- MODULE ShariahUniverse --------------------------
(* The compliance sync: the HalalStock page is fetched, parsed as a whole or
   refused, its rows replace the stored ones in one transaction, and the
   universe file the paper loop may take its symbols from is renamed into
   place before that transaction commits. A sync that dies in between leaves
   a file the store knows nothing of. *)
EXTENDS Naturals, Sequences, FiniteSets, SequencesExt

CONSTANTS Sources,    \* source URLs the setting has pointed at
          Keys,       \* identities of the rows: name, BSE code, NSE code, link
          CodeOf,     \* Keys -> NSE code, NoCode when the row has none
          NoCode,
          Pages,      \* [wellFormed: BOOLEAN, lines: Seq([key, icon, named])]
          MinRows,    \* row-count guard
          MaxSyncs    \* bound on the pages fetched

ASSUME PagesAssumption ==
  /\ \A page \in Pages : /\ page.lines \in Seq(ToSet(page.lines))
                        /\ \A l \in ToSet(page.lines) : l.key \in Keys
  /\ MaxSyncs \in Nat

VARIABLES rows,      \* key -> stored row, NoRow before the first sight of it
          syncs,     \* import rows, oldest first
          universe,  \* symbols of the exported file; none before the first
          basis,     \* history: source -> lines the file rests on
          sync       \* the sync under way: stage, source, page, time

shariahVars == <<rows, syncs, universe, basis, sync>>

Codes == {CodeOf[k] : k \in Keys} \ {NoCode}

NoRow == [known |-> FALSE]

Idle == [stage |-> "idle"]

(* _parse_icon_status: the verdict is the basename of the row's icon. *)
Verdict(icon) == IF icon = "yes" THEN "halal" ELSE "haram"

(* parse_halal_stock_rows, _dedupe_rows and the guard of sync_halal_stocks:
   nothing of a page is stored when its table or a column is missing, an icon
   is unknown, a name is empty, two lines of one identity disagree, or it is
   shorter than MinRows. *)
Refused(page) ==
  LET lines == ToSet(page.lines)
  IN \/ ~page.wellFormed
     \/ \E l \in lines : l.icon \notin {"yes", "no"} \/ ~l.named
     \/ \E l, m \in lines : l.key = m.key /\ l # m
     \/ Len(page.lines) < MinRows

Seen(lines) == {l.key : l \in lines}

LineOf(lines, k) == CHOOSE l \in lines : l.key = k

\* Mutant: the rows the page no longer lists stay active.
DropForgotten(old, source, lines, at) == old

(* The rows of the same source the page does not list become inactive. *)
DropUnlisted(old, source, lines, at) ==
  [k \in Keys |->
     IF old[k].known /\ old[k].source = source /\ old[k].active
        /\ k \notin Seen(lines)
     THEN [old[k] EXCEPT !.active = FALSE, !.lastSeen = at]
     ELSE old[k]]

(* HalalStockComplianceRepository.replace_import: a listed row is stored or
   refreshed, the time of its verdict moves only with the verdict. *)
Stored(old, source, lines, at) ==
  LET fresh == [k \in Keys |->
        IF k \notin Seen(lines) THEN old[k]
        ELSE LET v == Verdict(LineOf(lines, k).icon)
             IN [known |-> TRUE, verdict |-> v, source |-> source,
                 active |-> TRUE, lastSeen |-> at,
                 changedAt |-> IF old[k].known /\ old[k].verdict = v
                               THEN old[k].changedAt ELSE at]]
  IN DropUnlisted(fresh, source, lines, at)

(* list_active with a verdict, and export_halal_nse_universe: active halal
   rows that have an NSE code; two of them with one code refuse the export. *)
HalalKeys(stored) ==
  {k \in Keys : /\ stored[k].known /\ stored[k].active
                /\ stored[k].verdict = "halal" /\ CodeOf[k] # NoCode}

Exported(stored) == {CodeOf[k] : k \in HalalKeys(stored)}

Exportable(stored) ==
  /\ \A j, k \in HalalKeys(stored) : CodeOf[j] = CodeOf[k] => j = k
  /\ Exported(stored) # {}   \* load_market_data_universe of the temporary file

ImportRow(s) == [source |-> s.source, at |-> s.at, lines |-> ToSet(s.page.lines)]

(* The rows the transaction of the sync holds. *)
Pending == Stored(rows, sync.source, ToSet(sync.page.lines), sync.at)

LastPage(source) ==
  LET of == {i \in DOMAIN syncs : syncs[i].source = source}
  IN IF of = {} THEN {}
     ELSE syncs[CHOOSE i \in of : \A j \in of : j <= i].lines

ShariahInit ==
  /\ rows = [k \in Keys |-> NoRow]
  /\ syncs = <<>>
  /\ universe = {}
  /\ basis = [s \in Sources |-> {}]
  /\ sync = Idle

(* fetch_halal_stock_page; a failed request changes nothing. *)
FetchPage(source, page) ==
  /\ sync = Idle
  /\ Len(syncs) < MaxSyncs
  /\ sync' = [stage |-> "fetched", source |-> source, page |-> page,
              at |-> Len(syncs) + 1]
  /\ UNCHANGED <<rows, syncs, universe, basis>>

(* A page or an export that is refused leaves rows, import and file alone. *)
RefuseSync ==
  /\ sync.stage = "fetched"
  /\ Refused(sync.page) \/ ~Exportable(Pending)
  /\ sync' = Idle
  /\ UNCHANGED <<rows, syncs, universe, basis>>

(* _atomic_write_validated_universe: the file is complete and replaced at
   once, while the transaction is still open. *)
PublishUniverse ==
  /\ sync.stage = "fetched"
  /\ ~Refused(sync.page) /\ Exportable(Pending)
  /\ universe' = Exported(Pending)
  /\ basis' = [s \in Sources |-> IF s = sync.source
                                 THEN ToSet(sync.page.lines) ELSE LastPage(s)]
  /\ sync' = [sync EXCEPT !.stage = "published"]
  /\ UNCHANGED <<rows, syncs>>

CommitSync ==
  /\ sync.stage = "published"
  /\ rows' = Pending
  /\ syncs' = Append(syncs, ImportRow(sync))
  /\ sync' = Idle
  /\ UNCHANGED <<universe, basis>>

(* The command dies: its transaction is rolled back, its file is not. *)
SyncDies ==
  /\ sync # Idle
  /\ sync' = Idle
  /\ UNCHANGED <<rows, syncs, universe, basis>>

ShariahNext ==
  \/ \E source \in Sources, page \in Pages : FetchPage(source, page)
  \/ RefuseSync
  \/ PublishUniverse
  \/ CommitSync
  \/ SyncDies

=============================================================================
