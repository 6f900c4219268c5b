----------------------------- MODULE StoresProofs -----------------------------
(***************************************************************************)
(* Proofs about the stores that imports fill beside the running loops: the *)
(* market graph and its statistics job, the compliance list and the market *)
(* bars, official data and the technical score, the scores of fundamentals, *)
(* and the profile catalogue; and the types of their composition.          *)
(***************************************************************************)
EXTENDS MCStores, NumberFacts, SequenceTheorems, TLAPS

-----------------------------------------------------------------------------
(* Market graph, for any edges, files and prices, whether the reviewer      *)
(* works while the job runs or not.                                         *)

EdgeRows ==
  [status : {"absent", "active", "candidate", "rejected"},
   provenance : Provenances \cup {"none", "missing"},
   review : {"none", "active", "rejected"},
   by : {"none", "api", "graph_stats_job"}]

(* Whoever reviews an edge sets its status to what the review says, and no  *)
(* import takes that back; without a review an inferred edge is a candidate. *)
ReviewDecides(edge) ==
  /\ HasReview(edge) => edge.status = edge.review
  /\ ~HasReview(edge) /\ edge.provenance = "inferred" => edge.status = "candidate"

EdgesInv ==
  /\ edges \in [Edges -> EdgeRows]
  /\ \A e \in Edges : ReviewDecides(edges[e])

LEMMA UpsertedEdge ==
  ASSUME NEW edge \in EdgeRows, ReviewDecides(edge),
         NEW p \in Provenances \cup {"missing"}
  PROVE  UpsertEdge(edge, p) \in EdgeRows /\ ReviewDecides(UpsertEdge(edge, p))
BY DEF UpsertEdge, EdgeRows, ReviewDecides, HasReview, InitialStatus, Provenances

LEMMA ReviewedEdge ==
  ASSUME NEW edge \in EdgeRows, NEW status \in {"active", "rejected"},
         NEW by \in {"api", "graph_stats_job"}
  PROVE  Reviewed(edge, status, by) \in EdgeRows
         /\ ReviewDecides(Reviewed(edge, status, by))
BY DEF Reviewed, EdgeRows, ReviewDecides, HasReview

LEMMA EdgesStep ==
  ASSUME EdgesInv, [GraphNext]_graphVars
  PROVE  EdgesInv'
<1>1. CASE UNCHANGED edges
  BY <1>1 DEF EdgesInv
<1>2. ASSUME NEW files \in SUBSET Edges,
             NEW named \in [files -> Provenances \cup {"missing"}], ImportGraph(named)
      PROVE  EdgesInv'
  <2>1. edges' = [e \in Edges |-> IF e \in files
                                  THEN UpsertEdge(edges[e], RowProvenance(e, named[e]))
                                  ELSE edges[e]]
    BY <1>2 DEF ImportGraph
  <2>2. \A e \in files : RowProvenance(e, named[e]) \in Provenances \cup {"missing"}
    BY DEF RowProvenance, ClassificationFiles, EvidenceFiles, RiskFiles, FlagFiles,
           Provenances
  <2>3. \A e \in Edges : edges'[e] \in EdgeRows /\ ReviewDecides(edges'[e])
    BY <2>1, <2>2, UpsertedEdge DEF EdgesInv
  <2> QED BY <2>1, <2>3 DEF EdgesInv
<1>3. ASSUME NEW e \in Edges, NEW status \in {"active", "rejected"}, Review(e, status)
      PROVE  EdgesInv'
  <2>1. edges' = [edges EXCEPT ![e] = Reviewed(edges[e], status, "api")]
    BY <1>3 DEF Review
  <2> QED BY <2>1, ReviewedEdge DEF EdgesInv
<1>4. CASE CommitStats
  <2>1. edges' = [e \in Edges |-> IF e \in statsJob.promoted
                                  THEN Reviewed(edges[e], "active", "graph_stats_job")
                                  ELSE edges[e]]
    BY <1>4 DEF CommitStats
  <2>2. \A e \in Edges : edges'[e] \in EdgeRows /\ ReviewDecides(edges'[e])
    BY <2>1, ReviewedEdge DEF EdgesInv
  <2> QED BY <2>1, <2>2 DEF EdgesInv
<1> QED BY <1>1, <1>2, <1>3, <1>4
        DEF GraphNext, NewCandles, StartStats, StatsStep, MeasureEdge, AbortStats, graphVars

(* An edge that was only inferred is used after the job or a reviewer has   *)
(* promoted it, however often the files are imported again                  *)
(* (db/repositories.py, upsert_edge and update_edge_status).                *)
THEOREM PromotionIsNeeded == GraphSpec => []InferredNeedsPromotion
<1>1. GraphInit => EdgesInv
  BY DEF GraphInit, EdgesInv, EdgeRows, NoEdge, ReviewDecides, HasReview, Provenances
<1>2. EdgesInv /\ [GraphNext]_graphVars => EdgesInv'
  BY EdgesStep
<1>3. EdgesInv => InferredNeedsPromotion
  BY DEF EdgesInv, EdgeRows, ReviewDecides, HasReview, InferredNeedsPromotion
<1> QED BY <1>1, <1>2, <1>3, PTL DEF GraphSpec

--------------------------------------------------------------------------------
(* The signals of the past.                                                 *)

Job(d, left, candidates, past, promoted) ==
  [day |-> d, left |-> left, candidates |-> candidates, rows |-> past,
   promoted |-> promoted]

(* The job holds statistics of its own day.                               *)
JobInv ==
  /\ today \in Nat
  /\ \E d, left, candidates, past, promoted :
       /\ d \in Nat
       /\ statsJob = Job(d, left, candidates, past, promoted)
       /\ \A r \in past : r.day = d

LEMMA JobStep ==
  ASSUME JobInv, [GraphNext]_graphVars
  PROVE  JobInv'
<1>1. CASE UNCHANGED statsJob /\ today' \in {today, today + 1}
  BY <1>1 DEF JobInv
<1>2. CASE statsJob' = NoJob /\ today' = today
  <2>1. NoJob = Job(0, {}, {}, {}, {})
    BY DEF NoJob, Job
  <2> QED BY <1>2, <2>1 DEF JobInv
<1>3. ASSUME NEW d \in 1..today, StartStats(d)
      PROVE  JobInv'
  <2>1. statsJob' = Job(d, ListedEdges, {e \in ListedEdges : edges[e].status = "candidate"},
                        {}, {})
        /\ today' = today
    BY <1>3 DEF StartStats, Job
  <2>2. d \in Nat /\ today' \in Nat
    BY <2>1 DEF JobInv
  <2>3. \A r \in {} : r.day = d
    OBVIOUS
  <2>4. \E n, left, candidates, past, promoted :
          /\ n \in Nat
          /\ statsJob' = Job(n, left, candidates, past, promoted)
          /\ \A r \in past : r.day = n
    BY <2>1, <2>2, <2>3
  <2> QED BY <2>2, <2>4 DEF JobInv, Job
<1>4. CASE MeasureEdge
  <2>1. PICK d, left, candidates, past, promoted :
          /\ d \in Nat
          /\ statsJob = Job(d, left, candidates, past, promoted)
          /\ \A r \in past : r.day = d
    BY DEF JobInv
  <2>2. PICK e \in statsJob.left : \E measured, winners :
          /\ measured = {WindowStat(e, w, statsJob.day) : w \in Windows}
          /\ statsJob' = [statsJob EXCEPT !.left = @ \ {e}, !.rows = @ \cup measured,
                                         !.promoted = winners]
    BY <1>4 DEF MeasureEdge
  <2>3. PICK measured, winners :
          /\ measured = {WindowStat(e, w, statsJob.day) : w \in Windows}
          /\ statsJob' = [statsJob EXCEPT !.left = @ \ {e}, !.rows = @ \cup measured,
                                         !.promoted = winners]
    BY <2>2
  <2>4. \A r \in measured : r.day = d
    BY <2>1, <2>3 DEF WindowStat, Job
  <2>5. statsJob' = Job(d, left \ {e}, candidates, past \cup measured, winners)
    BY <2>1, <2>3 DEF Job
  <2>6. today' = today
    BY <1>4 DEF MeasureEdge
  <2> QED BY <2>1, <2>4, <2>5, <2>6 DEF JobInv
<1> QED BY <1>1, <1>2, <1>3, <1>4
        DEF GraphNext, NewCandles, ImportGraph, Review, StatsStep, CommitStats, AbortStats,
            graphVars

(* The statistics the job commits are those of its day: a question about   *)
(* an earlier day finds the rows it found before.                          *)
LEMMA EarlierRowsStand ==
  ASSUME JobInv, CommitStats, NEW e, NEW d \in 1..(statsJob.day - 1)
  PROVE  StatsAvailable(e, d)' = StatsAvailable(e, d)
<1>1. PICK jobDay, left, candidates, past, promoted :
        /\ jobDay \in Nat
        /\ statsJob = Job(jobDay, left, candidates, past, promoted)
        /\ \A r \in past : r.day = jobDay
  BY DEF JobInv
<1>2. statsJob.day = jobDay /\ statsJob.rows = past
  BY <1>1 DEF Job
<1>3. ~(jobDay <= d)
  BY <1>1, <1>2
<1>4. edgeStats' = {r \in edgeStats : ~\E s \in past : SameRow(r, s)} \cup past
  BY <1>2 DEF CommitStats
<1>5. \A r \in past : ~(r.day <= d)
  BY <1>1, <1>3
<1>6. \A r \in edgeStats : r.day <= d => ~\E s \in past : SameRow(r, s)
  BY <1>5 DEF SameRow
<1> QED BY <1>4, <1>5, <1>6 DEF StatsAvailable

LEMMA PastStep ==
  ASSUME JobInv, [GraphNext]_graphVars, statsJob # NoJob, statsJob' = NoJob,
         NEW e \in Edges \ statsJob.promoted, NEW d \in 1..(statsJob.day - 1)
  PROVE  PastScore(e, d)' = PastScore(e, d)
<1>1. CASE CommitStats
  <2>1. StatsAvailable(e, d)' = StatsAvailable(e, d)
    BY <1>1, EarlierRowsStand
  <2>2. edges'[e] = edges[e]
    BY <1>1 DEF CommitStats
  <2>3. EdgeAvailable(e)' = EdgeAvailable(e)
    BY <2>2 DEF EdgeAvailable
  <2> QED BY <2>1, <2>3 DEF PastScore, EvidenceAvailable
<1>2. CASE UNCHANGED <<edges, edgeStats>>
  BY <1>2 DEF PastScore, StatsAvailable, EdgeAvailable, EvidenceAvailable
<1> QED BY <1>1, <1>2
        DEF GraphNext, Running, NewCandles, Review, StartStats, StatsStep, MeasureEdge,
            AbortStats, graphVars

(* The job leaves what a backtest reads for an earlier day as it was, except *)
(* for the edges it promotes (graph/stats.py; backtesting/graph.py).        *)
THEOREM HistoryStands == GraphSpec => PastSignalsStand
<1>1. GraphInit => JobInv
  <2>1. NoJob = Job(0, {}, {}, {}, {})
    BY DEF NoJob, Job
  <2> QED BY <2>1 DEF GraphInit, JobInv
<1>2. JobInv /\ [GraphNext]_graphVars => JobInv'
  BY JobStep
<1>3. JobInv /\ [GraphNext]_graphVars => [JobKeepsPast]_graphVars
  BY PastStep DEF JobKeepsPast
<1> QED BY <1>1, <1>2, <1>3, PTL DEF GraphSpec, PastSignalsStand

-----------------------------------------------------------------------------
(* Market data and the compliance list: the sync and the paper loop side by *)
(* side, whatever the pages and the masters say and wherever a sync dies.   *)

HalalRows ==
  [known : {TRUE}, verdict : {"halal", "haram"}, source : Sources,
   active : BOOLEAN, lastSeen : Nat, changedAt : Nat] \cup {NoRow}
ImportRows ==
  [source : Sources, at : Nat, lines : {ToSet(page.lines) : page \in Pages}]
Syncs ==
  [stage : {"fetched", "published"}, source : Sources, page : Pages, at : Nat]
    \cup {Idle}

(* A line says that the company of key k is halal. *)
SaysHalal(lines, k) == \E l \in lines : l.key = k /\ Verdict(l.icon) = "halal"

(* A halal row that is active has its line on the last page of its source: *)
(* without this the file that is exported next could keep a company its    *)
(* source no longer lists.                                                 *)
RowsOnPages ==
  \A k \in Keys, s \in Sources :
    /\ rows[k].known /\ rows[k].active
    /\ rows[k].verdict = "halal" /\ rows[k].source = s
    => SaysHalal(LastPage(s), k)

ReferenceInv ==
  /\ rows \in [Keys -> HalalRows] /\ syncs \in Seq(ImportRows) /\ sync \in Syncs
  /\ ReferenceTypeOK
  /\ RowsOnPages
  /\ SymbolsAreHalalOnAPage /\ ImportedBarsAreFinal

LEMMA LineOfKey ==
  ASSUME NEW lines, NEW k \in Seen(lines)
  PROVE  LineOf(lines, k) \in lines /\ LineOf(lines, k).key = k
BY DEF Seen, LineOf

(* A stored halal row is on the page just read, or it is of another source  *)
(* and as it was.                                                           *)
LEMMA StoredRow ==
  ASSUME NEW old \in [Keys -> HalalRows], NEW source \in Sources, NEW lines,
         NEW at \in Nat, NEW k \in Keys
  PROVE  LET r == Stored(old, source, lines, at)[k] IN
         /\ r \in HalalRows
         /\ r.known /\ r.active /\ r.verdict = "halal" =>
              \/ r.source = source /\ SaysHalal(lines, k)
              \/ r.source # source /\ r = old[k]
<1> DEFINE v == Verdict(LineOf(lines, k).icon)
           listed == [known |-> TRUE, verdict |-> v, source |-> source,
                      active |-> TRUE, lastSeen |-> at,
                      changedAt |-> IF old[k].known /\ old[k].verdict = v
                                    THEN old[k].changedAt ELSE at]
           unlisted == IF old[k].known /\ old[k].source = source /\ old[k].active
                       THEN [old[k] EXCEPT !.active = FALSE, !.lastSeen = at]
                       ELSE old[k]
<1>1. v \in {"halal", "haram"}
  BY DEF Verdict
<1>2. old[k] \in HalalRows /\ NoRow.known = FALSE
  BY DEF NoRow
<1>3. CASE k \in Seen(lines)
  <2>1. Stored(old, source, lines, at)[k] = listed
    BY <1>3 DEF Stored, DropUnlisted
  <2>2. listed \in HalalRows
    <3>1. listed.changedAt \in Nat
      BY <1>2 DEF HalalRows, NoRow
    <3> QED BY <1>1, <3>1 DEF HalalRows
  <2>3. v = "halal" => SaysHalal(lines, k)
    BY <1>3, LineOfKey DEF SaysHalal
  <2> QED BY <2>1, <2>2, <2>3
<1>4. CASE k \notin Seen(lines)
  <2>1. Stored(old, source, lines, at)[k] = unlisted
    BY <1>4 DEF Stored, DropUnlisted
  <2>2. unlisted \in HalalRows
    BY <1>2 DEF HalalRows, NoRow
  <2>3. unlisted.known /\ unlisted.active => unlisted.source # source /\ unlisted = old[k]
    BY <1>2 DEF HalalRows, NoRow
  <2> QED BY <2>1, <2>2, <2>3
<1> QED BY <1>3, <1>4

(* The page committed last is the last page of its source. *)
LEMMA LastPageAfter ==
  ASSUME syncs \in Seq(ImportRows), NEW row \in ImportRows,
         syncs' = Append(syncs, row), NEW s
  PROVE  LastPage(s)' = IF s = row.source THEN row.lines ELSE LastPage(s)
<1> DEFINE n == Len(syncs)
           of == {i \in DOMAIN syncs : syncs[i].source = s}
           now == {i \in DOMAIN syncs' : syncs'[i].source = s}
<1>1. /\ n \in Nat /\ DOMAIN syncs = 1..n /\ DOMAIN syncs' = 1..(n + 1)
      /\ \A i \in 1..n : syncs'[i] = syncs[i]
      /\ syncs'[n + 1] = row
  BY AppendProperties
<1>2. CASE s = row.source
  <2>1. n + 1 \in now /\ \A j \in now : j <= n + 1 /\ j \in Nat
    BY <1>1, <1>2
  <2>2. (CHOOSE i \in now : \A j \in now : j <= i) = n + 1
    <3> HIDE DEF now
    <3> QED BY <1>1, <2>1
  <2> QED BY <1>1, <1>2, <2>1, <2>2 DEF LastPage
<1>3. CASE s # row.source
  <2>1. now = of
    BY <1>1, <1>3
  <2>2. CASE of = {}
    BY <1>3, <2>1, <2>2 DEF LastPage
  <2>3. CASE of # {}
    <3> DEFINE c == CHOOSE i \in of : \A j \in of : j <= i
    <3>1. c \in of
      <4>1. of \subseteq 1..n
        BY <1>1
      <4>2. \E i \in of : \A j \in of : j <= i
        BY <1>1, <2>3, <4>1, LargestOf
      <4> QED BY <4>2
    <3>2. LastPage(s) = syncs[c].lines /\ LastPage(s)' = syncs'[c].lines
      BY <2>1, <2>3 DEF LastPage
    <3>3. syncs'[c] = syncs[c]
      BY <1>1, <3>1
    <3> QED BY <1>3, <3>2, <3>3
  <2> QED BY <2>2, <2>3
<1> QED BY <1>2, <1>3

(* Without a commit the rows and the pages they rest on stay. *)
LEMMA RowsKept ==
  ASSUME RowsOnPages, UNCHANGED <<rows, syncs>> PROVE RowsOnPages'
<1>1. \A s \in Sources : LastPage(s)' = LastPage(s)
  BY DEF LastPage
<1> QED BY <1>1 DEF RowsOnPages

(* Without an export the file and what it rests on stay. *)
LEMMA FileKept ==
  ASSUME SymbolsAreHalalOnAPage, UNCHANGED <<universe, basis>>
  PROVE  SymbolsAreHalalOnAPage'
BY DEF SymbolsAreHalalOnAPage

(* What the transaction of a sync holds. *)
LEMMA PendingRows ==
  ASSUME ReferenceInv, sync # Idle
  PROVE  /\ sync \in [stage : {"fetched", "published"}, source : Sources,
                      page : Pages, at : Nat]
         /\ Pending \in [Keys -> HalalRows]
         /\ \A k \in Keys :
              Pending[k].known /\ Pending[k].active /\ Pending[k].verdict = "halal" =>
                \/ Pending[k].source = sync.source
                   /\ SaysHalal(ToSet(sync.page.lines), k)
                \/ Pending[k].source # sync.source /\ Pending[k] = rows[k]
<1>1. sync \in [stage : {"fetched", "published"}, source : Sources,
                page : Pages, at : Nat]
  BY DEF ReferenceInv, Syncs
<1>2. rows \in [Keys -> HalalRows] /\ sync.source \in Sources /\ sync.at \in Nat
  BY <1>1 DEF ReferenceInv
<1> DEFINE lines == ToSet(sync.page.lines)
<1>3. Pending = [k \in Keys |-> Pending[k]]
  BY DEF Pending, Stored, DropUnlisted
<1>4. Pending = Stored(rows, sync.source, lines, sync.at)
  BY DEF Pending
<1> HIDE DEF lines
<1>5. \A k \in Keys :
        /\ Pending[k] \in HalalRows
        /\ Pending[k].known /\ Pending[k].active /\ Pending[k].verdict = "halal" =>
             \/ Pending[k].source = sync.source /\ SaysHalal(lines, k)
             \/ Pending[k].source # sync.source /\ Pending[k] = rows[k]
  BY <1>2, <1>4, StoredRow
<1>6. Pending \in [Keys -> HalalRows]
  BY <1>3, <1>5
<1> QED BY <1>1, <1>5, <1>6 DEF lines

(* A row that is known is of a source and halal or haram. *)
LEMMA HalalRowFacts ==
  ASSUME NEW r \in HalalRows, r.known
  PROVE  r.source \in Sources /\ r.verdict \in {"halal", "haram"}
<1>1. ~NoRow.known
  BY DEF NoRow
<1>2. r # NoRow
  BY <1>1
<1> QED BY <1>2 DEF HalalRows

(* The file is exported from the rows the transaction will commit. *)
LEMMA PublishStep ==
  ASSUME ReferenceInv, PublishUniverse, UNCHANGED marketVars PROVE ReferenceInv'
<1>1. sync # Idle /\ sync' = [sync EXCEPT !.stage = "published"] /\ UNCHANGED <<rows, syncs>>
  BY DEF PublishUniverse, Idle
<1>2. sync' \in Syncs
  BY <1>1, PendingRows DEF Syncs
<1>3. universe' = Exported(Pending) /\ universe' \subseteq Codes
  BY DEF PublishUniverse, Exported, HalalKeys, Codes
<1>4. basis' = [s \in Sources |-> IF s = sync.source
                                  THEN ToSet(sync.page.lines) ELSE LastPage(s)]
  BY DEF PublishUniverse
<1>5. SymbolsAreHalalOnAPage'
  <2> SUFFICES ASSUME NEW c \in universe'
               PROVE  \E s \in Sources : \E l \in basis'[s] :
                        CodeOf[l.key] = c /\ Verdict(l.icon) = "halal"
    BY DEF SymbolsAreHalalOnAPage
  <2>1. PICK k \in HalalKeys(Pending) : c = CodeOf[k]
    BY <1>3 DEF Exported
  <2>2. /\ k \in Keys /\ Pending[k].known /\ Pending[k].active
        /\ Pending[k].verdict = "halal"
    BY <2>1 DEF HalalKeys
  <2>3. Pending[k].source \in Sources
    BY <1>1, <2>2, PendingRows, HalalRowFacts
  <2>4. CASE Pending[k].source = sync.source
    <3>1. SaysHalal(basis'[sync.source], k)
      BY <1>1, <1>4, <2>2, <2>3, <2>4, PendingRows
    <3> QED BY <2>1, <2>3, <2>4, <3>1 DEF SaysHalal
  <2>5. CASE Pending[k].source # sync.source
    <3>1. Pending[k] = rows[k]
      BY <1>1, <2>2, <2>5, PendingRows
    <3>2. SaysHalal(LastPage(Pending[k].source), k)
      BY <2>2, <2>3, <3>1 DEF ReferenceInv, RowsOnPages
    <3>3. SaysHalal(basis'[Pending[k].source], k)
      BY <1>4, <2>3, <2>5, <3>2
    <3> QED BY <2>1, <2>3, <3>3 DEF SaysHalal
  <2> QED BY <2>4, <2>5
<1>6. RowsOnPages'
  BY <1>1, RowsKept DEF ReferenceInv
<1>7. sync'.stage = "published"
  BY <1>1, PendingRows
<1>8. ReferenceTypeOK' /\ ImportedBarsAreFinal'
  BY <1>1, <1>3, <1>7 DEF ReferenceInv, ReferenceTypeOK, ImportedBarsAreFinal, marketVars
<1> QED BY <1>1, <1>2, <1>5, <1>6, <1>8 DEF ReferenceInv

LEMMA CommitStep ==
  ASSUME ReferenceInv, CommitSync, UNCHANGED marketVars PROVE ReferenceInv'
<1>1. /\ sync # Idle /\ sync' = Idle /\ rows' = Pending
      /\ syncs' = Append(syncs, ImportRow(sync)) /\ UNCHANGED <<universe, basis>>
  BY DEF CommitSync, Idle
<1>2. ImportRow(sync) \in ImportRows
  BY <1>1, PendingRows DEF ImportRow, ImportRows
<1>3. syncs' \in Seq(ImportRows)
  BY <1>1, <1>2, AppendProperties DEF ReferenceInv
<1>4. ImportRow(sync).source = sync.source
      /\ ImportRow(sync).lines = ToSet(sync.page.lines)
  BY DEF ImportRow
<1>5. \A s : LastPage(s)' = IF s = sync.source THEN ToSet(sync.page.lines)
                            ELSE LastPage(s)
  BY <1>1, <1>2, <1>4, LastPageAfter DEF ReferenceInv
<1>6. RowsOnPages'
  <2> SUFFICES ASSUME NEW k \in Keys, NEW s \in Sources, rows'[k].known,
                      rows'[k].active, rows'[k].verdict = "halal",
                      rows'[k].source = s
               PROVE  SaysHalal(LastPage(s)', k)
    BY DEF RowsOnPages
  <2>1. \/ rows'[k].source = sync.source /\ SaysHalal(ToSet(sync.page.lines), k)
        \/ rows'[k].source # sync.source /\ rows'[k] = rows[k]
    BY <1>1, PendingRows
  <2>2. CASE rows'[k].source = sync.source /\ SaysHalal(ToSet(sync.page.lines), k)
    <3>1. LastPage(s)' = ToSet(sync.page.lines)
      BY <1>5, <2>2
    <3> QED BY <2>2, <3>1
  <2>3. CASE rows'[k].source # sync.source /\ rows'[k] = rows[k]
    <3>1. SaysHalal(LastPage(s), k)
      BY <2>3 DEF ReferenceInv, RowsOnPages
    <3>2. LastPage(s)' = LastPage(s)
      BY <1>5, <2>3
    <3> QED BY <3>1, <3>2
  <2> QED BY <2>1, <2>2, <2>3
<1>7. rows' \in [Keys -> HalalRows]
  BY <1>1, PendingRows
<1>8. \A k \in Keys : rows'[k].known =>
        rows'[k].verdict \in {"halal", "haram"} /\ rows'[k].source \in Sources
  BY <1>7, HalalRowFacts
<1>9. /\ ReferenceTypeOK' /\ ImportedBarsAreFinal' /\ SymbolsAreHalalOnAPage'
  BY <1>1, <1>8 DEF ReferenceInv, ReferenceTypeOK, ImportedBarsAreFinal,
     SymbolsAreHalalOnAPage, marketVars, Idle
<1> QED BY <1>1, <1>3, <1>6, <1>7, <1>9 DEF ReferenceInv, Syncs

LEMMA SyncStep ==
  ASSUME ReferenceInv, ShariahNext, UNCHANGED marketVars PROVE ReferenceInv'
<1>1. ASSUME sync' \in Syncs, UNCHANGED <<rows, syncs, universe, basis>>
      PROVE  ReferenceInv'
  <2>1. sync'.stage \in {"idle", "fetched", "published"}
    BY <1>1 DEF Syncs, Idle
  <2>2. ReferenceTypeOK' /\ ImportedBarsAreFinal'
    BY <1>1, <2>1 DEF ReferenceInv, ReferenceTypeOK, ImportedBarsAreFinal, marketVars
  <2> QED BY <1>1, <2>2, RowsKept, FileKept DEF ReferenceInv
<1>2. ASSUME NEW source \in Sources, NEW page \in Pages, FetchPage(source, page)
      PROVE  ReferenceInv'
  <2>1. Len(syncs) + 1 \in Nat
    BY DEF ReferenceInv
  <2>2. sync' \in Syncs
    BY <1>2, <2>1 DEF FetchPage, Syncs
  <2> QED BY <1>1, <1>2, <2>2 DEF FetchPage
<1>3. CASE RefuseSync \/ SyncDies
  BY <1>1, <1>3 DEF RefuseSync, SyncDies, Syncs
<1> QED BY <1>2, <1>3, PublishStep, CommitStep DEF ShariahNext

(* What a whole import of the universe stores is final before its day. *)
LEMMA ImportStep ==
  ASSUME ReferenceInv, NEW master \in Masters, NEW attempts \in Answers,
         Import(master, attempts)
  PROVE  bars' \in [Codes -> [Days -> BarStates]] /\ ImportedBarsAreFinal'
<1>1. /\ day \in Nat /\ day \in Days /\ universe \subseteq Codes
      /\ bars \in [Codes -> [Days -> BarStates]]
  BY MarketAssumption DEF ReferenceInv, ReferenceTypeOK, Days
<1>2. bars' = [c \in Codes |-> IF c \notin universe THEN bars[c]
                 ELSE [d \in Days |-> UpsertBar(bars[c][d], Fetched(d))]]
  BY DEF Import
<1>3. \A d \in Days : Fetched(d) \in BarStates
  BY DEF Fetched, BarStates
<1>4. \A c \in Codes, d \in Days : UpsertBar(bars[c][d], Fetched(d)) \in BarStates
  BY <1>1, <1>3 DEF UpsertBar
<1>5. bars' \in [Codes -> [Days -> BarStates]]
  BY <1>1, <1>2, <1>4
<1>6. ImportedBarsAreFinal'
  <2>1. lastImport'.symbols = universe /\ lastImport'.day = day
    BY DEF Import
  <2>2. ASSUME NEW d \in Days, d < day, d + LookbackDays >= day PROVE Fetched(d) = "final"
    <3>1. d \in Nat
      BY MarketAssumption DEF Days
    <3>2. ~(d > day \/ d + LookbackDays < day) /\ ~(d = day /\ sessionOpen)
      BY <1>1, <2>2, <3>1, MarketAssumption
    <3> QED BY <3>2 DEF Fetched
  <2>3. \A old : UpsertBar(old, "final") = "final"
    BY DEF UpsertBar
  <2> QED BY <1>1, <1>2, <2>1, <2>2, <2>3 DEF ImportedBarsAreFinal
<1> QED BY <1>5, <1>6

LEMMA MarketStep ==
  ASSUME ReferenceInv, MarketNext, UNCHANGED shariahVars PROVE ReferenceInv'
<1>1. /\ rows' = rows /\ syncs' = syncs /\ sync' = sync /\ universe' = universe
      /\ basis' = basis
  BY DEF shariahVars
<1>2. RowsOnPages' /\ SymbolsAreHalalOnAPage'
  BY <1>1, RowsKept, FileKept DEF ReferenceInv
<1>3. /\ day \in Days /\ tries \in 0..MaxTries /\ loop \subseteq Codes
      /\ universe \subseteq Codes /\ sessionOpen \in BOOLEAN
      /\ instruments \in [Codes -> Tokens \cup {NoToken}]
      /\ bars \in [Codes -> [Days -> BarStates]]
      /\ lastImport.symbols \subseteq Codes /\ lastImport.day \in 0..LastTradingDay
  BY DEF ReferenceInv, ReferenceTypeOK
<1>4. ASSUME day' \in Days, tries' \in 0..MaxTries, loop' \subseteq Codes,
             sessionOpen' \in BOOLEAN, instruments' \in [Codes -> Tokens \cup {NoToken}],
             bars' \in [Codes -> [Days -> BarStates]],
             lastImport'.symbols \subseteq Codes, lastImport'.day \in 0..LastTradingDay,
             ImportedBarsAreFinal'
      PROVE  ReferenceInv'
  BY <1>1, <1>2, <1>4 DEF ReferenceInv, ReferenceTypeOK
<1>5. ASSUME UNCHANGED <<bars, lastImport>> PROVE ImportedBarsAreFinal'
  BY <1>5 DEF ReferenceInv, ImportedBarsAreFinal
<1>6. tries < MaxTries => tries + 1 \in 0..MaxTries
  BY <1>3, MarketAssumption
<1>7. CASE CloseSession
  BY <1>3, <1>4, <1>5, <1>7 DEF CloseSession
<1>8. CASE NextDay
  <2>1. day + 1 \in Days
    BY <1>3, <1>8, MarketAssumption DEF NextDay, Days
  <2> QED BY <1>3, <1>4, <1>5, <1>8, <2>1 DEF NextDay
<1>9. CASE StartLoop
  BY <1>3, <1>4, <1>5, <1>9 DEF StartLoop
<1>10. ASSUME NEW master \in Masters, SyncInstruments(master) PROVE ReferenceInv'
  <2>1. \A c \in universe : master[c] \in Tokens
    BY <1>10, MarketAssumption DEF SyncInstruments, Resolvable
  <2>2. instruments' \in [Codes -> Tokens \cup {NoToken}]
    BY <1>3, <1>10, <2>1 DEF SyncInstruments
  <2> QED BY <1>3, <1>4, <1>5, <1>6, <1>10, <2>2 DEF SyncInstruments
<1>11. ASSUME NEW master \in Masters, NEW attempts \in Answers, Import(master, attempts)
       PROVE  ReferenceInv'
  <2>1. day' = day /\ sessionOpen' = sessionOpen /\ loop' = loop
        /\ tries < MaxTries /\ tries' = tries + 1
        /\ instruments' = instruments
        /\ lastImport'.symbols = universe /\ lastImport'.day = day
    BY <1>11 DEF Import
  <2>2. day \in 0..LastTradingDay
    BY <1>3, MarketAssumption DEF Days
  <2> QED BY <1>3, <1>4, <1>6, <1>11, <2>1, <2>2, ImportStep
<1>12. ASSUME NEW master \in Masters, NEW attempts \in Answers,
              ImportFails(master, attempts)
       PROVE  ReferenceInv'
  BY <1>3, <1>4, <1>5, <1>6, <1>12 DEF ImportFails
<1>13. CASE EndLoop
  BY <1>3, <1>4, <1>5, <1>13 DEF EndLoop
<1> QED BY <1>7, <1>8, <1>9, <1>10, <1>11, <1>12, <1>13 DEF MarketNext

LEMMA ReferenceInvariance == ReferenceSpec => []ReferenceInv
<1>1. ReferenceInit => ReferenceInv
  <2> SUFFICES ASSUME ReferenceInit PROVE ReferenceInv
    OBVIOUS
  <2>1. rows \in [Keys -> HalalRows] /\ \A k \in Keys : ~rows[k].known
    BY DEF ReferenceInit, ShariahInit, HalalRows, NoRow
  <2>2. syncs \in Seq(ImportRows) /\ sync \in Syncs /\ sync.stage = "idle"
    BY DEF ReferenceInit, ShariahInit, Syncs, Idle
  <2>3. 1 \in Days /\ 0 \in 0..LastTradingDay /\ 0 \in 0..MaxTries
    BY MarketAssumption DEF Days
  <2>4. ReferenceTypeOK
    BY <2>1, <2>2, <2>3 DEF ReferenceInit, ShariahInit, MarketInit, ReferenceTypeOK, BarStates
  <2>5. RowsOnPages /\ SymbolsAreHalalOnAPage /\ ImportedBarsAreFinal
    BY <2>1 DEF ReferenceInit, ShariahInit, MarketInit, RowsOnPages,
       SymbolsAreHalalOnAPage, ImportedBarsAreFinal
  <2> QED BY <2>1, <2>2, <2>4, <2>5 DEF ReferenceInv
<1>2. ReferenceInv /\ [ReferenceNext]_<<shariahVars, marketVars>> => ReferenceInv'
  <2> SUFFICES ASSUME ReferenceInv, [ReferenceNext]_<<shariahVars, marketVars>>
               PROVE  ReferenceInv'
    OBVIOUS
  <2>1. CASE UNCHANGED <<shariahVars, marketVars>>
    <3>1. ReferenceTypeOK' /\ ImportedBarsAreFinal'
      BY <2>1 DEF ReferenceInv, ReferenceTypeOK, ImportedBarsAreFinal, shariahVars,
         marketVars
    <3>2. UNCHANGED <<rows, syncs, sync, universe, basis>>
      BY <2>1 DEF shariahVars
    <3> QED BY <3>1, <3>2, RowsKept, FileKept DEF ReferenceInv
  <2> QED BY <2>1, SyncStep, MarketStep DEF ReferenceNext
<1> QED BY <1>1, <1>2, PTL DEF ReferenceSpec

(* Both stores keep their types (ShariahUniverse.tla, MarketData.tla). *)
THEOREM ReferenceTyped == ReferenceSpec => []ReferenceTypeOK
<1>1. ReferenceInv => ReferenceTypeOK
  BY DEF ReferenceInv
<1> QED BY <1>1, ReferenceInvariance, PTL

(* Every symbol of the universe file is halal on a page it rests on, though a *)
(* sync may die between the file and its commit                              *)
(* (HalalStockComplianceRepository.replace_import, export_halal_nse_universe). *)
THEOREM UniverseIsHalal == ReferenceSpec => []SymbolsAreHalalOnAPage
<1>1. ReferenceInv => SymbolsAreHalalOnAPage
  BY DEF ReferenceInv
<1> QED BY <1>1, ReferenceInvariance, PTL

(* The bars before the day of the last import are whole, for each symbol and *)
(* each day it covers (CandleRepository.upsert, get_historical_candles).     *)
THEOREM ImportsFinishBars == ReferenceSpec => []ImportedBarsAreFinal
<1>1. ReferenceInv => ImportedBarsAreFinal
  BY DEF ReferenceInv
<1> QED BY <1>1, ReferenceInvariance, PTL

-----------------------------------------------------------------------------
(* Fundamentals: scores.  A value that may be missing is a sequence of at  *)
(* most one element.                                                       *)

Optional(T) == {<<>>} \cup {<<x>> : x \in T}
Scores == -Whole .. Whole

(* u and v are both missing, or u is at least v. *)
NoLess(u, v) == (u = <<>> <=> v = <<>>) /\ (u # <<>> => v[1] <= u[1])

LEMMA OptionalFacts ==
  ASSUME NEW T, NEW u \in Optional(T)
  PROVE  \/ u = <<>> /\ DOMAIN u = {}
         \/ u # <<>> /\ DOMAIN u = {1} /\ u[1] \in T /\ u = <<u[1]>>
BY DEF Optional

LEMMA ScoreFacts ==
  ASSUME NEW x \in Scores
  PROVE  x \in Int /\ -Whole <= x /\ x <= Whole /\ -x \in Scores
BY DEF Scores, Whole

LEMMA OrZeroFacts ==
  ASSUME NEW u \in Optional(Scores)
  PROVE  /\ OrZero(u) \in Int /\ -Whole <= OrZero(u) /\ OrZero(u) <= Whole
         /\ u = <<>> => OrZero(u) = 0
         /\ u # <<>> => OrZero(u) = u[1]
<1>1. CASE u = <<>>
  BY <1>1 DEF OrZero, Whole
<1>2. CASE u # <<>>
  <2>1. u[1] \in Scores
    BY <1>2, OptionalFacts
  <2> QED BY <1>2, <2>1, ScoreFacts DEF OrZero
<1> QED BY <1>1, <1>2

LEMMA OrZeroNoLess ==
  ASSUME NEW u \in Optional(Scores), NEW v \in Optional(Scores), NoLess(u, v)
  PROVE  OrZero(v) <= OrZero(u)
<1>1. CASE u = <<>>
  BY <1>1, OrZeroFacts DEF NoLess
<1>2. CASE u # <<>>
  BY <1>2, OrZeroFacts DEF NoLess
<1> QED BY <1>1, <1>2

LEMMA WithinScores ==
  ASSUME NEW x \in Int
  PROVE  Within(x) \in Scores /\ \A y \in Int : x <= y => Within(x) <= Within(y)
<1>1. Within(x) \in Int /\ -Whole <= Within(x) /\ Within(x) <= Whole
  BY DEF Within, Whole
<1>2. \A y \in Int : x <= y => Within(x) <= Within(y)
  BY DEF Within, Whole
<1>3. Whole \in Int
  BY DEF Whole
<1> QED BY <1>1, <1>2, <1>3 DEF Scores

(* One element per element of an optional value. *)
LEMMA OptionalMap ==
  ASSUME NEW T, NEW u \in Optional(T), NEW e
  PROVE  [i \in DOMAIN u |-> e[i]] = IF u = <<>> THEN <<>> ELSE <<e[1]>>
<1>1. CASE u = <<>>
  BY <1>1
<1>2. CASE u # <<>>
  <2>1. DOMAIN u = 1..1
    BY <1>2, OptionalFacts
  <2>2. [i \in 1..1 |-> e[i]] = <<e[1]>>
    OBVIOUS
  <2> QED BY <1>2, <2>1, <2>2
<1> QED BY <1>1, <1>2

ScaleOf(low, high, x) ==
  Within(RoundSigned(Whole * (2 * (x - low) - (high - low)), high - low))

LEMMA ScaleScores ==
  ASSUME NEW low \in Int, NEW high \in Int, low < high, NEW x \in Int
  PROVE  ScaleOf(low, high, x) \in Scores /\ -ScaleOf(low, high, x) \in Scores
<1> DEFINE d == high - low
           n == Whole * (2 * (x - low) - d)
<1>1. n \in Int /\ d \in Nat \ {0}
  BY DEF Whole
<1>2. ScaleOf(low, high, x) = Within(RoundSigned(n, d))
  BY DEF ScaleOf
<1> HIDE DEF n, d
<1>3. RoundSigned(n, d) \in Int
  BY <1>1, SignedIsNearest DEF Nearest
<1>4. ScaleOf(low, high, x) \in Scores
  BY <1>2, <1>3, WithinScores
<1> QED BY <1>4, ScoreFacts

LEMMA ScaledIs ==
  ASSUME NEW low \in Int, NEW high \in Int, low < high, NEW u \in Optional(Int)
  PROVE  /\ Scaled(low, high, u) = IF u = <<>> THEN <<>> ELSE <<ScaleOf(low, high, u[1])>>
         /\ Scaled(low, high, u) \in Optional(Scores)
<1> DEFINE e == [i \in {1} |-> ScaleOf(low, high, u[i])]
<1>1. Scaled(low, high, u) = [i \in DOMAIN u |-> e[i]]
  BY OptionalFacts DEF Scaled, ScaleOf
<1>2. [i \in DOMAIN u |-> e[i]] = IF u = <<>> THEN <<>> ELSE <<e[1]>>
  <2> HIDE DEF e
  <2> QED BY OptionalMap
<1>3. u # <<>> => ScaleOf(low, high, u[1]) \in Scores
  BY OptionalFacts, ScaleScores
<1>4. e[1] = ScaleOf(low, high, u[1])
  OBVIOUS
<1> HIDE DEF e
<1> QED BY <1>1, <1>2, <1>3, <1>4 DEF Optional

LEMMA ScaleMonotone ==
  ASSUME NEW low \in Int, NEW high \in Int, low < high,
         NEW x \in Int, NEW y \in Int, x <= y
  PROVE  ScaleOf(low, high, x) <= ScaleOf(low, high, y)
<1> DEFINE d == high - low
           m == Whole * (2 * (x - low) - d)
           n == Whole * (2 * (y - low) - d)
<1>1. m \in Int /\ n \in Int /\ d \in Nat \ {0} /\ m <= n
  BY DEF Whole
<1>2. ScaleOf(low, high, x) = Within(RoundSigned(m, d))
      /\ ScaleOf(low, high, y) = Within(RoundSigned(n, d))
  BY DEF ScaleOf
<1> HIDE DEF m, n, d
<1>3. Nearest(m, d, RoundSigned(m, d)) /\ Nearest(n, d, RoundSigned(n, d)) /\ m * d <= n * d
  BY <1>1, SignedIsNearest
<1>4. /\ RoundSigned(m, d) <= RoundSigned(n, d)
      /\ RoundSigned(m, d) \in Int /\ RoundSigned(n, d) \in Int
  BY <1>1, <1>3, NearestMonotone DEF Nearest
<1> QED BY <1>2, <1>4, WithinScores

LEMMA ScaledNoLess ==
  ASSUME NEW low \in Int, NEW high \in Int, low < high,
         NEW u \in Optional(Int), NEW v \in Optional(Int), NoLess(u, v)
  PROVE  NoLess(Scaled(low, high, u), Scaled(low, high, v))
<1>1. CASE u = <<>>
  BY <1>1, ScaledIs DEF NoLess
<1>2. CASE u # <<>>
  <2>1. v # <<>> /\ v[1] <= u[1] /\ u[1] \in Int /\ v[1] \in Int
    BY <1>2, OptionalFacts DEF NoLess
  <2>2. /\ Scaled(low, high, u) = <<ScaleOf(low, high, u[1])>>
        /\ Scaled(low, high, v) = <<ScaleOf(low, high, v[1])>>
    BY <1>2, <2>1, ScaledIs
  <2>3. ScaleOf(low, high, v[1]) <= ScaleOf(low, high, u[1])
    BY <2>1, ScaleMonotone
  <2> QED BY <2>2, <2>3 DEF NoLess
<1> QED BY <1>1, <1>2

(* Less is better. *)
LEMMA InverseIs ==
  ASSUME NEW low \in Int, NEW high \in Int, low < high, NEW u \in Optional(Int)
  PROVE  /\ InverseScaled(low, high, u)
              = IF u = <<>> THEN <<>> ELSE <<-ScaleOf(low, high, u[1])>>
         /\ InverseScaled(low, high, u) \in Optional(Scores)
<1> DEFINE s == Scaled(low, high, u)
           e == [i \in {1} |-> -s[i]]
<1>1. s \in Optional(Scores)
      /\ s = IF u = <<>> THEN <<>> ELSE <<ScaleOf(low, high, u[1])>>
  BY ScaledIs
<1>2. InverseScaled(low, high, u) = [i \in DOMAIN s |-> e[i]]
  <2>1. InverseScaled(low, high, u) = [i \in DOMAIN s |-> -s[i]]
    BY DEF InverseScaled
  <2>2. DOMAIN s \subseteq {1}
    <3> HIDE DEF s
    <3> QED BY <1>1, OptionalFacts
  <2> HIDE DEF s
  <2> QED BY <2>1, <2>2
<1>3. [i \in DOMAIN s |-> e[i]] = IF s = <<>> THEN <<>> ELSE <<e[1]>>
  <2> HIDE DEF s, e
  <2> QED BY <1>1, OptionalMap
<1>4. e[1] = -s[1]
  OBVIOUS
<1>5. u # <<>> => s # <<>> /\ s[1] = ScaleOf(low, high, u[1]) /\ -s[1] \in Scores
  BY <1>1, OptionalFacts, ScaleScores
<1> HIDE DEF s, e
<1> QED BY <1>1, <1>2, <1>3, <1>4, <1>5 DEF Optional

LEMMA InverseNoLess ==
  ASSUME NEW low \in Int, NEW high \in Int, low < high,
         NEW u \in Optional(Int), NEW v \in Optional(Int), NoLess(v, u)
  PROVE  NoLess(InverseScaled(low, high, u), InverseScaled(low, high, v))
<1>1. CASE u = <<>>
  BY <1>1, InverseIs DEF NoLess
<1>2. CASE u # <<>>
  <2>1. v # <<>> /\ u[1] <= v[1] /\ u[1] \in Int /\ v[1] \in Int
    BY <1>2, OptionalFacts DEF NoLess
  <2> DEFINE a == ScaleOf(low, high, u[1])
             b == ScaleOf(low, high, v[1])
  <2>2. InverseScaled(low, high, u) = <<-a>> /\ InverseScaled(low, high, v) = <<-b>>
    BY <1>2, <2>1, InverseIs
  <2>3. a <= b
    BY <2>1, ScaleMonotone
  <2>4. a \in Scores /\ b \in Scores
    BY <2>1, ScaleScores
  <2> HIDE DEF a, b
  <2>5. a \in Int /\ b \in Int
    BY <2>4 DEF Scores, Whole
  <2>6. -b <= -a
    BY <2>3, <2>5
  <2> QED BY <2>2, <2>6 DEF NoLess
<1> QED BY <1>1, <1>2

LEMMA AverageIs ==
  ASSUME NEW us, NEW D, DOMAIN us = D, NEW P, P = {i \in D : us[i] # <<>>}
  PROVE  Average(us) =
           IF P = {} THEN <<>>
           ELSE <<RoundSigned(SumOver([i \in D |-> OrZero(us[i])], D), Cardinality(P))>>
BY DEF Average, SumOver

(* An average of optional scores is one. *)
LEMMA AverageScores ==
  ASSUME NEW D, IsFiniteSet(D), NEW us, DOMAIN us = D,
         \A i \in D : us[i] \in Optional(Scores)
  PROVE  Average(us) \in Optional(Scores)
<1> DEFINE P == {i \in D : us[i] # <<>>}
           f == [i \in D |-> OrZero(us[i])]
           zero == [i \in D |-> 0]
           top == [i \in P |-> Whole]
           bottom == [i \in P |-> -Whole]
           c == Cardinality(P)
<1>1. Average(us) = IF P = {} THEN <<>> ELSE <<RoundSigned(SumOver(f, D), c)>>
  BY DEF Average, SumOver
<1>2. CASE P = {}
  BY <1>1, <1>2 DEF Optional
<1>3. CASE P # {}
  <2>1. IsFiniteSet(P) /\ c \in Nat \ {0}
    <3>1. IsFiniteSet(P)
      BY FS_Subset
    <3> QED BY <1>3, <3>1, FS_CardinalityType, FS_EmptySet
  <2>2. \A i \in D : f[i] \in Int /\ (i \in P => -Whole <= f[i] /\ f[i] <= Whole)
                     /\ (i \notin P => f[i] = 0)
    BY OrZeroFacts
  <2>3. SumOver(f, D) = SumOver(f, P)
    <3>1. NewOn(P, zero, f, D)
      <4> HIDE DEF f, P
      <4> QED BY <2>2 DEF NewOn
    <3>2. SumOver(f, D) = SumOver(zero, D) + SumOver(f, D \cap P)
      <4> HIDE DEF f, P, zero
      <4> QED BY <3>1, SumChange
    <3>3. SumOver(zero, D) = 0
      BY SumZero
    <3>4. D \cap P = P
      OBVIOUS
    <3>5. SumOver(f, D \cap P) = SumOver(f, P)
      BY <3>4, Zenon
    <3>6. SumOver(f, P) \in Int
      <4> HIDE DEF f, P
      <4>1. \A i \in P : f[i] \in Int
        BY <2>2, <3>4
      <4> QED BY <2>1, <4>1, SumFacts
    <3> HIDE DEF f, P, zero
    <3> QED BY <3>2, <3>3, <3>5, <3>6
  <2>4. /\ SumOver(f, P) \in Int
        /\ SumOver(bottom, P) <= SumOver(f, P) /\ SumOver(f, P) <= SumOver(top, P)
    <3>1. \A i \in P : /\ f[i] \in Int /\ top[i] \in Int /\ bottom[i] \in Int
                       /\ bottom[i] <= f[i] /\ f[i] <= top[i]
      BY <2>2 DEF Whole
    <3> HIDE DEF f, P, top, bottom
    <3> QED BY <2>1, <3>1, SumMonotone
  <2>5. SumOver(top, P) = Whole * c /\ SumOver(bottom, P) = (-Whole) * c
    <3>1. /\ \A i \in P : top[i] = Whole /\ bottom[i] = -Whole
          /\ Whole \in Int /\ -Whole \in Int
      BY DEF Whole
    <3> HIDE DEF P, top, bottom
    <3> QED BY <2>1, <3>1, SumConstant
  <2> DEFINE n == SumOver(f, D)
             r == RoundSigned(n, c)
  <2>6. n \in Int /\ -(Whole * c) <= n /\ n <= Whole * c
    <3> HIDE DEF f, P, top, bottom, c
    <3>1. (-Whole) * c = -(Whole * c)
      BY <2>1 DEF Whole
    <3> QED BY <2>3, <2>4, <2>5, <3>1
  <2>7. r \in -Whole .. Whole
    <3>1. Whole \in Nat
      BY DEF Whole
    <3> HIDE DEF n, c
    <3>2. Nearest(n, c, r)
      BY <2>1, <2>6, SignedIsNearest
    <3> HIDE DEF r
    <3> QED BY <2>1, <2>6, <3>1, <3>2, NearestBounded
  <2>8. Average(us) = <<r>>
    BY <1>1, <1>3
  <2> HIDE DEF r
  <2> QED BY <2>7, <2>8 DEF Optional, Scores
<1> QED BY <1>2, <1>3

(* Values that are nowhere less, and missing together, average no less. *)
LEMMA AverageNoLess ==
  ASSUME NEW D, IsFiniteSet(D), NEW us, NEW vs, DOMAIN us = D, DOMAIN vs = D,
         \A i \in D : /\ us[i] \in Optional(Scores) /\ vs[i] \in Optional(Scores)
                      /\ NoLess(us[i], vs[i])
  PROVE  NoLess(Average(us), Average(vs))
<1> DEFINE P == {i \in D : us[i] # <<>>}
           f == [i \in D |-> OrZero(us[i])]
           g == [i \in D |-> OrZero(vs[i])]
           c == Cardinality(P)
           m == SumOver(g, D)
           n == SumOver(f, D)
<1>1. P = {i \in D : vs[i] # <<>>}
  BY DEF NoLess
<1>2. /\ Average(us) = IF P = {} THEN <<>> ELSE <<RoundSigned(n, c)>>
      /\ Average(vs) = IF P = {} THEN <<>> ELSE <<RoundSigned(m, c)>>
  <2>1. Average(us) = IF P = {} THEN <<>> ELSE <<RoundSigned(n, c)>>
    BY AverageIs
  <2>2. Average(vs) = IF P = {} THEN <<>> ELSE <<RoundSigned(m, c)>>
    <3> HIDE DEF P
    <3> QED BY <1>1, AverageIs
  <2> QED BY <2>1, <2>2
<1>3. CASE P = {}
  BY <1>2, <1>3 DEF NoLess
<1>4. CASE P # {}
  <2>1. c \in Nat \ {0}
    <3>1. IsFiniteSet(P)
      BY FS_Subset
    <3> QED BY <1>4, <3>1, FS_CardinalityType, FS_EmptySet
  <2>2. \A i \in D : f[i] \in Int /\ g[i] \in Int /\ g[i] <= f[i]
    BY OrZeroFacts, OrZeroNoLess
  <2>3. m \in Int /\ n \in Int /\ m <= n
    <3> HIDE DEF f, g
    <3> QED BY <2>2, SumMonotone
  <2> HIDE DEF m, n, c
  <2>4. Nearest(m, c, RoundSigned(m, c)) /\ Nearest(n, c, RoundSigned(n, c))
        /\ m * c <= n * c
    BY <2>1, <2>3, SignedIsNearest
  <2>5. RoundSigned(m, c) <= RoundSigned(n, c)
    BY <2>1, <2>3, <2>4, NearestMonotone
  <2> HIDE DEF P
  <2> QED BY <1>2, <1>4, <2>5 DEF NoLess
<1> QED BY <1>3, <1>4

-----------------------------------------------------------------------------
(* The score of a company.                                                 *)

Metrics(m) == \A k \in DOMAIN m : m[k] \in Int

LEMMA MetricType ==
  ASSUME NEW m, Metrics(m), NEW name
  PROVE  Metric(m, name) \in Optional(Int)
BY DEF Metrics, Metric, Optional

LEMMA MetricNoLess ==
  ASSUME NEW m, NEW n, Metrics(m), Metrics(n), AtLeastAsGood(m, n), NEW name
  PROVE  /\ name \notin LessIsBetter => NoLess(Metric(m, name), Metric(n, name))
         /\ name \notin MoreIsBetter => NoLess(Metric(n, name), Metric(m, name))
         /\ name \notin LessIsBetter \cup MoreIsBetter => Metric(m, name) = Metric(n, name)
<1>1. DOMAIN m = DOMAIN n
  BY DEF AtLeastAsGood
<1>2. CASE name \notin DOMAIN m
  BY <1>1, <1>2 DEF Metric, NoLess
<1>3. CASE name \in DOMAIN m
  <2> DEFINE x == m[name]
             y == n[name]
  <2>1. Metric(m, name) = <<x>> /\ Metric(n, name) = <<y>>
    BY <1>1, <1>3 DEF Metric
  <2>2. /\ x \in Int /\ y \in Int
        /\ x = y \/ (name \in MoreIsBetter /\ x > y) \/ (name \in LessIsBetter /\ x < y)
    BY <1>1, <1>3 DEF Metrics, AtLeastAsGood
  <2> HIDE DEF x, y
  <2>3. /\ name \notin LessIsBetter => y <= x
        /\ name \notin MoreIsBetter => x <= y
        /\ name \notin LessIsBetter \cup MoreIsBetter => x = y
    BY <2>2
  <2>4. <<x>> # <<>> /\ <<y>> # <<>> /\ <<x>>[1] = x /\ <<y>>[1] = y
    OBVIOUS
  <2> QED BY <2>1, <2>3, <2>4 DEF NoLess
<1> QED BY <1>2, <1>3

LEMMA EpsType ==
  ASSUME NEW u \in Optional(Int) PROVE EpsScore(u) \in Optional(Scores)
<1> DEFINE e == [i \in {1} |-> CASE u[i] < 0 -> -8000 [] u[i] = 0 -> -2000
                                 [] OTHER -> Scaled(0, 1000, u)[i]]
<1>1. EpsScore(u) = [i \in DOMAIN u |-> e[i]]
  BY OptionalFacts DEF EpsScore
<1>2. [i \in DOMAIN u |-> e[i]] = IF u = <<>> THEN <<>> ELSE <<e[1]>>
  <2> HIDE DEF e
  <2> QED BY OptionalMap
<1>3. u # <<>> => e[1] \in Scores
  <2> SUFFICES ASSUME u # <<>> PROVE e[1] \in Scores
    OBVIOUS
  <2>1. u[1] \in Int
    BY OptionalFacts
  <2>2. Scaled(0, 1000, u)[1] \in Scores
    BY <2>1, ScaledIs, ScaleScores
  <2>3. -8000 \in Scores /\ -2000 \in Scores
    BY DEF Scores, Whole
  <2> QED BY <2>2, <2>3
<1> HIDE DEF e
<1> QED BY <1>1, <1>2, <1>3 DEF Optional

(* Price over book value is scaled between fractions, each with a          *)
(* denominator of its own.                                                 *)
LEMMA PriceToBookType ==
  ASSUME NEW p \in Optional(Int), NEW b \in Optional(Int)
  PROVE  PriceToBookScore(p, b) \in Optional(Scores)
<1>1. CASE p = <<>> \/ b = <<>> \/ b[1] <= 0
  BY <1>1 DEF PriceToBookScore, Optional
<1>2. CASE ~(p = <<>> \/ b = <<>> \/ b[1] <= 0)
  <2>1. p[1] \in Int /\ b[1] \in Int /\ b[1] > 0
    BY <1>2, OptionalFacts
  <2>2. /\ PriceToBookScore(p, b) = InverseScaled(30 * b[1], 160 * b[1], <<20 * p[1]>>)
        /\ 30 * b[1] \in Int /\ 160 * b[1] \in Int /\ 30 * b[1] < 160 * b[1]
        /\ <<20 * p[1]>> \in Optional(Int)
    BY <1>2, <2>1 DEF PriceToBookScore, Optional
  <2> QED BY <2>2, InverseIs
<1> QED BY <1>1, <1>2

LEMMA PriceToBookMonotone ==
  ASSUME NEW p \in Int, NEW b \in Int, NEW q \in Int, NEW c \in Int,
         0 < p, p <= q, 0 < c, c <= b
  PROVE  ScaleOf(30 * b, 160 * b, 20 * p) <= ScaleOf(30 * c, 160 * c, 20 * q)
<1> DEFINE m == Whole * (2 * (20 * p - 30 * b) - (160 * b - 30 * b))
           n == Whole * (2 * (20 * q - 30 * c) - (160 * c - 30 * c))
           d == 160 * b - 30 * b
           e == 160 * c - 30 * c
<1>1. /\ m \in Int /\ n \in Int /\ d \in Nat \ {0} /\ e \in Nat \ {0}
      /\ m = 400000 * p - 1900000 * b /\ n = 400000 * q - 1900000 * c
      /\ d = 130 * b /\ e = 130 * c
  BY DEF Whole
<1>2. p * c <= q * b
  <2>1. p * c <= q * c /\ q * c <= q * b
    BY SMT
  <2>2. p * c \in Int /\ q * c \in Int /\ q * b \in Int
    OBVIOUS
  <2> QED BY <2>1, <2>2
<1>3. m * e <= n * d
  <2> DEFINE x == p * c
             y == q * b
             z == b * c
  <2>1. x \in Int /\ y \in Int /\ z \in Int /\ x <= y
    BY <1>2
  <2>2. m * e = 52000000 * x - 247000000 * z
    <3>1. (400000 * p - 1900000 * b) * (130 * c) = 52000000 * (p * c) - 247000000 * (b * c)
      BY SMT
    <3> QED BY <1>1, <3>1
  <2>3. n * d = 52000000 * y - 247000000 * z
    <3>1. (400000 * q - 1900000 * c) * (130 * b) = 52000000 * (q * b) - 247000000 * (b * c)
      BY SMT
    <3> QED BY <1>1, <3>1
  <2> HIDE DEF x, y, z, m, n, d, e
  <2> QED BY <2>1, <2>2, <2>3
<1>4. /\ ScaleOf(30 * b, 160 * b, 20 * p) = Within(RoundSigned(m, d))
      /\ ScaleOf(30 * c, 160 * c, 20 * q) = Within(RoundSigned(n, e))
  BY DEF ScaleOf
<1> HIDE DEF m, n, d, e
<1>5. Nearest(m, d, RoundSigned(m, d)) /\ Nearest(n, e, RoundSigned(n, e))
  BY <1>1, SignedIsNearest
<1>6. /\ RoundSigned(m, d) <= RoundSigned(n, e)
      /\ RoundSigned(m, d) \in Int /\ RoundSigned(n, e) \in Int
  BY <1>1, <1>3, <1>5, NearestMonotone DEF Nearest
<1> QED BY <1>4, <1>6, WithinScores

(* A lower price and a higher book value never score lower. *)
LEMMA PriceToBookNoLess ==
  ASSUME NEW p \in Optional(Int), NEW b \in Optional(Int),
         NEW q \in Optional(Int), NEW c \in Optional(Int),
         NoLess(q, p), NoLess(b, c),
         p # <<>> => p[1] > 0, c # <<>> => c[1] > 0
  PROVE  NoLess(PriceToBookScore(p, b), PriceToBookScore(q, c))
<1>1. CASE p = <<>> \/ b = <<>>
  BY <1>1 DEF PriceToBookScore, NoLess
<1>2. CASE ~(p = <<>> \/ b = <<>>)
  <2>1. /\ q # <<>> /\ c # <<>> /\ p[1] \in Int /\ q[1] \in Int /\ b[1] \in Int
        /\ c[1] \in Int /\ 0 < p[1] /\ p[1] <= q[1] /\ 0 < c[1] /\ c[1] <= b[1]
    BY <1>2, OptionalFacts DEF NoLess
  <2>2. /\ PriceToBookScore(p, b) = InverseScaled(30 * b[1], 160 * b[1], <<20 * p[1]>>)
        /\ PriceToBookScore(q, c) = InverseScaled(30 * c[1], 160 * c[1], <<20 * q[1]>>)
    BY <1>2, <2>1 DEF PriceToBookScore
  <2> DEFINE s == ScaleOf(30 * b[1], 160 * b[1], 20 * p[1])
             t == ScaleOf(30 * c[1], 160 * c[1], 20 * q[1])
  <2>3. s <= t /\ s \in Scores /\ t \in Scores
    <3>1. /\ 30 * b[1] \in Int /\ 160 * b[1] \in Int /\ 30 * b[1] < 160 * b[1]
          /\ 30 * c[1] \in Int /\ 160 * c[1] \in Int /\ 30 * c[1] < 160 * c[1]
          /\ 20 * p[1] \in Int /\ 20 * q[1] \in Int
      BY <2>1
    <3>2. s \in Scores /\ t \in Scores
      BY <3>1, ScaleScores
    <3>3. s <= t
      BY <2>1, PriceToBookMonotone
    <3> QED BY <3>2, <3>3
  <2>4. InverseScaled(30 * b[1], 160 * b[1], <<20 * p[1]>>) = <<-s>>
    <3>1. <<20 * p[1]>> \in Optional(Int) /\ <<20 * p[1]>> # <<>>
      BY <2>1 DEF Optional
    <3> QED BY <2>1, <3>1, InverseIs
  <2>5. InverseScaled(30 * c[1], 160 * c[1], <<20 * q[1]>>) = <<-t>>
    <3>1. <<20 * q[1]>> \in Optional(Int) /\ <<20 * q[1]>> # <<>>
      BY <2>1 DEF Optional
    <3> QED BY <2>1, <3>1, InverseIs
  <2> HIDE DEF s, t
  <2>6. -t <= -s
    BY <2>3, ScoreFacts
  <2> QED BY <2>2, <2>4, <2>5, <2>6 DEF NoLess
<1> QED BY <1>1, <1>2

LEMMA SumOptionalNoLess ==
  ASSUME NEW u \in Optional(Int), NEW v \in Optional(Int), NEW x \in Optional(Int),
         NEW y \in Optional(Int), NoLess(u, x), NoLess(v, y)
  PROVE  /\ SumOptional(u, v) \in Optional(Int) /\ SumOptional(x, y) \in Optional(Int)
         /\ NoLess(SumOptional(u, v), SumOptional(x, y))
<1>1. \A w \in Optional(Int) : OrZero(w) \in Int
  BY OptionalFacts DEF OrZero
<1>2. OrZero(x) <= OrZero(u) /\ OrZero(y) <= OrZero(v)
  BY OptionalFacts DEF OrZero, NoLess
<1>3. (u = <<>> /\ v = <<>>) <=> (x = <<>> /\ y = <<>>)
  BY DEF NoLess
<1>4. CASE u = <<>> /\ v = <<>>
  BY <1>3, <1>4 DEF SumOptional, NoLess, Optional
<1>5. CASE ~(u = <<>> /\ v = <<>>)
  <2> DEFINE s == OrZero(u) + OrZero(v)
             t == OrZero(x) + OrZero(y)
  <2>1. SumOptional(u, v) = <<s>> /\ SumOptional(x, y) = <<t>>
    BY <1>3, <1>5 DEF SumOptional
  <2>2. s \in Int /\ t \in Int /\ t <= s
    BY <1>1, <1>2
  <2> HIDE DEF s, t
  <2> QED BY <2>1, <2>2 DEF NoLess, Optional
<1> QED BY <1>4, <1>5

(* Two scores of companies with the metrics m and n, where m may be the     *)
(* better ones.                                                             *)
Fits(m, n, u, v) ==
  /\ u \in Optional(Scores) /\ v \in Optional(Scores)
  /\ AtLeastAsGood(m, n) => NoLess(u, v)

LEMMA AverageFits ==
  ASSUME NEW m, NEW n, NEW k \in Nat, NEW us, NEW vs, DOMAIN us = 1..k,
         DOMAIN vs = 1..k, \A i \in 1..k : Fits(m, n, us[i], vs[i])
  PROVE  Fits(m, n, Average(us), Average(vs))
<1>1. IsFiniteSet(1..k)
  BY FS_Interval
<1>2. Average(us) \in Optional(Scores) /\ Average(vs) \in Optional(Scores)
  BY <1>1, AverageScores DEF Fits
<1>3. ASSUME AtLeastAsGood(m, n) PROVE NoLess(Average(us), Average(vs))
  <2>1. \A i \in 1..k : us[i] \in Optional(Scores) /\ vs[i] \in Optional(Scores)
                        /\ NoLess(us[i], vs[i])
    BY <1>3 DEF Fits
  <2> QED BY <1>1, <2>1, AverageNoLess
<1> QED BY <1>2, <1>3 DEF Fits

LEMMA ScaledFits ==
  ASSUME NEW m, NEW n, Metrics(m), Metrics(n), NEW name,
         NEW low \in Int, NEW high \in Int, low < high
  PROVE  /\ name \notin LessIsBetter =>
              Fits(m, n, Scaled(low, high, Metric(m, name)), Scaled(low, high, Metric(n, name)))
         /\ name \notin MoreIsBetter =>
              Fits(m, n, InverseScaled(low, high, Metric(m, name)),
                         InverseScaled(low, high, Metric(n, name)))
<1>1. Metric(m, name) \in Optional(Int) /\ Metric(n, name) \in Optional(Int)
  BY MetricType
<1>2. AtLeastAsGood(m, n) =>
        /\ name \notin LessIsBetter => NoLess(Metric(m, name), Metric(n, name))
        /\ name \notin MoreIsBetter => NoLess(Metric(n, name), Metric(m, name))
  BY MetricNoLess
<1>3. name \notin LessIsBetter =>
        Fits(m, n, Scaled(low, high, Metric(m, name)), Scaled(low, high, Metric(n, name)))
  BY <1>1, <1>2, ScaledIs, ScaledNoLess DEF Fits
<1>4. name \notin MoreIsBetter =>
        Fits(m, n, InverseScaled(low, high, Metric(m, name)),
                   InverseScaled(low, high, Metric(n, name)))
  BY <1>1, <1>2, InverseIs, InverseNoLess DEF Fits
<1> QED BY <1>3, <1>4

LEMMA QualityFits ==
  ASSUME NEW m, NEW n, Metrics(m), Metrics(n)
  PROVE  Fits(m, n, Quality(m), Quality(n))
<1> DEFINE us == <<Scaled(50, 250, Metric(m, "roce")),
                   Scaled(50, 220, Metric(m, "roe")),
                   EpsScore(Metric(m, "eps")),
                   Scaled(-50, 200, Metric(m, "sales_growth")),
                   Scaled(-50, 200, Metric(m, "profit_growth"))>>
           vs == <<Scaled(50, 250, Metric(n, "roce")),
                   Scaled(50, 220, Metric(n, "roe")),
                   EpsScore(Metric(n, "eps")),
                   Scaled(-50, 200, Metric(n, "sales_growth")),
                   Scaled(-50, 200, Metric(n, "profit_growth"))>>
<1>1. /\ 50 \in Int /\ 250 \in Int /\ 220 \in Int /\ -50 \in Int /\ 200 \in Int
      /\ 50 < 250 /\ 50 < 220 /\ -50 < 200
  OBVIOUS
<1>2. "roce" \notin LessIsBetter /\ "roe" \notin LessIsBetter
      /\ "sales_growth" \notin LessIsBetter /\ "profit_growth" \notin LessIsBetter
  BY DEF LessIsBetter
<1>3. Fits(m, n, us[1], vs[1]) /\ Fits(m, n, us[2], vs[2])
      /\ Fits(m, n, us[4], vs[4]) /\ Fits(m, n, us[5], vs[5])
  BY <1>1, <1>2, ScaledFits
<1>4. Fits(m, n, us[3], vs[3])
  <2>1. AtLeastAsGood(m, n) => Metric(m, "eps") = Metric(n, "eps")
    BY MetricNoLess DEF LessIsBetter, MoreIsBetter
  <2>2. /\ EpsScore(Metric(m, "eps")) \in Optional(Scores)
        /\ EpsScore(Metric(n, "eps")) \in Optional(Scores)
    BY MetricType, EpsType
  <2>3. \A u \in Optional(Scores) : NoLess(u, u)
    BY OptionalFacts, ScoreFacts DEF NoLess
  <2> QED BY <2>1, <2>2, <2>3 DEF Fits
<1>5. \A i \in 1..5 : Fits(m, n, us[i], vs[i])
  <2> HIDE DEF us, vs
  <2> QED BY <1>3, <1>4
<1>6. DOMAIN us = 1..5 /\ DOMAIN vs = 1..5
  OBVIOUS
<1>7. Quality(m) = Average(us) /\ Quality(n) = Average(vs)
  BY DEF Quality
<1> HIDE DEF us, vs
<1> QED BY <1>5, <1>6, <1>7, AverageFits

LEMMA ValuationFits ==
  ASSUME NEW m, NEW n, Metrics(m), Metrics(n)
  PROVE  Fits(m, n, Valuation(m), Valuation(n))
<1> DEFINE us == <<InverseScaled(120, 450, Metric(m, "stock_pe")),
                   PriceToBookScore(Metric(m, "current_price"), Metric(m, "book_value")),
                   Scaled(0, 40, Metric(m, "dividend_yield"))>>
           vs == <<InverseScaled(120, 450, Metric(n, "stock_pe")),
                   PriceToBookScore(Metric(n, "current_price"), Metric(n, "book_value")),
                   Scaled(0, 40, Metric(n, "dividend_yield"))>>
<1>1. 120 \in Int /\ 450 \in Int /\ 0 \in Int /\ 40 \in Int /\ 120 < 450 /\ 0 < 40
      /\ "stock_pe" \notin MoreIsBetter /\ "dividend_yield" \notin LessIsBetter
  BY DEF LessIsBetter, MoreIsBetter
<1>2. Fits(m, n, us[1], vs[1]) /\ Fits(m, n, us[3], vs[3])
  BY <1>1, ScaledFits
<1>3. Fits(m, n, us[2], vs[2])
  <2> DEFINE p == Metric(m, "current_price")
             q == Metric(n, "current_price")
             b == Metric(m, "book_value")
             c == Metric(n, "book_value")
  <2>1. p \in Optional(Int) /\ q \in Optional(Int) /\ b \in Optional(Int) /\ c \in Optional(Int)
    BY MetricType
  <2>2. AtLeastAsGood(m, n) => NoLess(q, p) /\ NoLess(b, c)
    BY MetricNoLess DEF LessIsBetter, MoreIsBetter
  <2>3. AtLeastAsGood(m, n) => (p # <<>> => p[1] > 0) /\ (c # <<>> => c[1] > 0)
    BY DEF AtLeastAsGood, Priced, Metric
  <2>4. PriceToBookScore(p, b) \in Optional(Scores) /\ PriceToBookScore(q, c) \in Optional(Scores)
    <3> HIDE DEF p, q, b, c
    <3> QED BY <2>1, PriceToBookType
  <2>5. AtLeastAsGood(m, n) => NoLess(PriceToBookScore(p, b), PriceToBookScore(q, c))
    <3> HIDE DEF p, q, b, c
    <3> QED BY <2>1, <2>2, <2>3, PriceToBookNoLess
  <2>6. us[2] = PriceToBookScore(p, b) /\ vs[2] = PriceToBookScore(q, c)
    OBVIOUS
  <2> HIDE DEF us, vs, p, q, b, c
  <2> QED BY <2>4, <2>5, <2>6 DEF Fits
<1>4. \A i \in 1..3 : Fits(m, n, us[i], vs[i])
  <2> HIDE DEF us, vs
  <2> QED BY <1>2, <1>3
<1>5. DOMAIN us = 1..3 /\ DOMAIN vs = 1..3
  OBVIOUS
<1>6. Valuation(m) = Average(us) /\ Valuation(n) = Average(vs)
  BY DEF Valuation
<1> HIDE DEF us, vs
<1> QED BY <1>4, <1>5, <1>6, AverageFits

LEMMA LeverageFits ==
  ASSUME NEW m, NEW n, Metrics(m), Metrics(n)
  PROVE  Fits(m, n, LeverageRisk(m), LeverageRisk(n))
<1> DEFINE us == <<InverseScaled(2, 20, Metric(m, "debt_to_equity")),
                   InverseScaled(0, 200, Metric(m, "pledged_percentage"))>>
           vs == <<InverseScaled(2, 20, Metric(n, "debt_to_equity")),
                   InverseScaled(0, 200, Metric(n, "pledged_percentage"))>>
<1>1. 2 \in Int /\ 20 \in Int /\ 0 \in Int /\ 200 \in Int /\ 2 < 20 /\ 0 < 200
      /\ "debt_to_equity" \notin MoreIsBetter /\ "pledged_percentage" \notin MoreIsBetter
  BY DEF MoreIsBetter
<1>2. Fits(m, n, us[1], vs[1]) /\ Fits(m, n, us[2], vs[2])
  BY <1>1, ScaledFits
<1>3. \A i \in 1..2 : Fits(m, n, us[i], vs[i])
  <2> HIDE DEF us, vs
  <2> QED BY <1>2
<1>4. DOMAIN us = 1..2 /\ DOMAIN vs = 1..2
  OBVIOUS
<1>5. LeverageRisk(m) = Average(us) /\ LeverageRisk(n) = Average(vs)
  BY DEF LeverageRisk
<1> HIDE DEF us, vs
<1> QED BY <1>3, <1>4, <1>5, AverageFits

LEMMA OwnershipFits ==
  ASSUME NEW m, NEW n, Metrics(m), Metrics(n)
  PROVE  Fits(m, n, Ownership(m), Ownership(n))
<1> DEFINE u == SumOptional(Metric(m, "fii_holding"), Metric(m, "dii_holding"))
           v == SumOptional(Metric(n, "fii_holding"), Metric(n, "dii_holding"))
           us == <<Scaled(250, 600, Metric(m, "promoter_holding")), Scaled(50, 350, u)>>
           vs == <<Scaled(250, 600, Metric(n, "promoter_holding")), Scaled(50, 350, v)>>
<1>1. 250 \in Int /\ 600 \in Int /\ 50 \in Int /\ 350 \in Int /\ 250 < 600 /\ 50 < 350
      /\ "promoter_holding" \notin LessIsBetter
  BY DEF LessIsBetter
<1>2. Fits(m, n, us[1], vs[1])
  BY <1>1, ScaledFits
<1>3. Fits(m, n, us[2], vs[2])
  <2>1. \A name : Metric(m, name) \in Optional(Int) /\ Metric(n, name) \in Optional(Int)
    BY MetricType
  <2>2. AtLeastAsGood(m, n) => /\ NoLess(Metric(m, "fii_holding"), Metric(n, "fii_holding"))
                               /\ NoLess(Metric(m, "dii_holding"), Metric(n, "dii_holding"))
    BY MetricNoLess DEF LessIsBetter
  <2>3. u \in Optional(Int) /\ v \in Optional(Int)
    <3>1. \A w \in Optional(Int) : NoLess(w, w)
      BY OptionalFacts DEF NoLess
    <3> QED BY <2>1, <3>1, SumOptionalNoLess
  <2>4. AtLeastAsGood(m, n) => NoLess(u, v)
    BY <2>1, <2>2, SumOptionalNoLess
  <2>5. us[2] = Scaled(50, 350, u) /\ vs[2] = Scaled(50, 350, v)
    OBVIOUS
  <2> HIDE DEF us, vs, u, v
  <2> QED BY <1>1, <2>3, <2>4, <2>5, ScaledIs, ScaledNoLess DEF Fits
<1>4. \A i \in 1..2 : Fits(m, n, us[i], vs[i])
  <2> HIDE DEF us, vs
  <2> QED BY <1>2, <1>3
<1>5. DOMAIN us = 1..2 /\ DOMAIN vs = 1..2
  OBVIOUS
<1>6. Ownership(m) = Average(us) /\ Ownership(n) = Average(vs)
  BY DEF Ownership
<1> HIDE DEF us, vs
<1> QED BY <1>4, <1>5, <1>6, AverageFits

(* The composite is a score, and no less for metrics that are nowhere worse. *)
LEMMA CompositeFits ==
  ASSUME NEW m, NEW n, Metrics(m), Metrics(n)
  PROVE  /\ CompositeOf(m) \in Scores
         /\ AtLeastAsGood(m, n) => CompositeOf(n) <= CompositeOf(m)
<1> DEFINE us == <<Quality(m), Valuation(m), LeverageRisk(m), Ownership(m)>>
           vs == <<Quality(n), Valuation(n), LeverageRisk(n), Ownership(n)>>
<1>1. /\ Fits(m, n, us[1], vs[1]) /\ Fits(m, n, us[2], vs[2])
      /\ Fits(m, n, us[3], vs[3]) /\ Fits(m, n, us[4], vs[4])
  BY QualityFits, ValuationFits, LeverageFits, OwnershipFits
<1>2. \A i \in 1..4 : Fits(m, n, us[i], vs[i])
  <2> HIDE DEF us, vs
  <2> QED BY <1>1
<1>3. DOMAIN us = 1..4 /\ DOMAIN vs = 1..4
  OBVIOUS
<1>4. CompositeOf(m) = OrZero(Average(us)) /\ CompositeOf(n) = OrZero(Average(vs))
  BY DEF CompositeOf
<1> HIDE DEF us, vs
<1>5. Fits(m, n, Average(us), Average(vs))
  BY <1>2, <1>3, AverageFits
<1>6. OrZero(Average(us)) \in Scores
  BY <1>5, OrZeroFacts DEF Fits, Scores
<1>7. AtLeastAsGood(m, n) => OrZero(Average(vs)) <= OrZero(Average(us))
  BY <1>5, OrZeroNoLess DEF Fits
<1> QED BY <1>4, <1>6, <1>7

-----------------------------------------------------------------------------
(* Imports.                                                                *)

(* A score was made from a row of one of the files, none of whose rows      *)
(* share a symbol.                                                          *)
ComesFrom(s, f, n) ==
  /\ f \in Files /\ n \in StoredRows(f) /\ ~Collides(f)
  /\ s.file = f.id /\ s.row = f.rows[n] /\ s.symbol = Resolve(f.rows[n])
  /\ s.composite = CompositeOf(f.rows[n].metrics)

FundamentalsInv ==
  /\ FundamentalsTypeOK
  /\ \A s \in scores : \E f, n : ComesFrom(s, f, n)

(* The resolver answers with a symbol of the instruments, or with none. *)
LEMMA ResolveListed ==
  ASSUME NEW row
  PROVE  /\ Resolve(row) \in ListedSymbols \cup {Unmapped}
         /\ row.symbol \in ListedSymbols => Resolve(row) = row.symbol
<1> DEFINE N == DOMAIN Instruments
           Alike(name) == {<<row.name, name>>, <<name, row.name>>} \cap Inside # {}
           alike == {n \in N : Alike(Instruments[n].name)}
           first == CHOOSE n \in alike : \A m \in alike : n <= m
<1>1. N = 1..Len(Instruments) /\ Len(Instruments) \in Nat
      /\ \A n \in N : Instruments[n] \in ToSet(Instruments)
  BY FilesAssumption DEF ToSet
<1>2. \A S \in SUBSET N : S # {} =>
        /\ \E i \in S : \A j \in S : j <= i
        /\ \E i \in S : \A j \in S : i <= j
  <2> HIDE DEF N
  <2> QED BY <1>1, LargestOf
<1>3. ASSUME NEW name, \E n \in N : Instruments[n].name = name
      PROVE  LastNamed(name) \in ListedSymbols
  <2> DEFINE named == {n \in N : Instruments[n].name = name}
             last == CHOOSE n \in named : \A m \in named : m <= n
  <2>1. last \in named
    <3>1. \E i \in named : \A j \in named : j <= i
      BY <1>2, <1>3
    <3> HIDE DEF named
    <3> QED BY <3>1
  <2>2. LastNamed(name) = Instruments[last].symbol
    BY DEF LastNamed
  <2> HIDE DEF last
  <2> QED BY <1>1, <2>1, <2>2 DEF ListedSymbols
<1>4. alike # {} => first \in N
  <2>1. alike # {} => \E i \in alike : \A j \in alike : i <= j
    BY <1>2
  <2> HIDE DEF N
  <2> QED BY <2>1
<1>5. alike # {} => LastNamed(Instruments[first].name) \in ListedSymbols
  <2> HIDE DEF alike, first, N
  <2> QED BY <1>3, <1>4
<1>6. (\E i \in ToSet(Instruments) : i.name = row.name) =>
        LastNamed(row.name) \in ListedSymbols
  <2>1. (\E i \in ToSet(Instruments) : i.name = row.name) =>
          \E n \in N : Instruments[n].name = row.name
    BY DEF ToSet
  <2> HIDE DEF N
  <2> QED BY <1>3, <2>1
<1>7. Resolve(row) = CASE row.symbol \in ListedSymbols -> row.symbol
       [] row.symbol \notin ListedSymbols /\ row.name = NoName -> Unmapped
       [] row.symbol \notin ListedSymbols /\ row.name # NoName ->
            IF \E i \in ToSet(Instruments) : i.name = row.name
            THEN LastNamed(row.name)
            ELSE IF alike # {} THEN LastNamed(Instruments[first].name) ELSE Unmapped
  BY DEF Resolve
<1> HIDE DEF alike, first, N
<1> QED BY <1>5, <1>6, <1>7

LEMMA ImportedScores ==
  ASSUME FundamentalsInv, NEW file \in Files, NEW at \in Times, ImportScreener(file, at)
  PROVE  FundamentalsInv'
<1>1. /\ tried \in Nat /\ tried + 1 \in 0..MaxFiles /\ ~Collides(file)
      /\ tried' = tried + 1 /\ report' = report
      /\ scores' = {s \in scores : s.file # file.id}
                     \cup {ScoreRow(file, n, at) : n \in StoredRows(file)}
  BY FilesAssumption DEF FundamentalsInv, FundamentalsTypeOK, ImportScreener
<1>2. ASSUME NEW n \in StoredRows(file)
      PROVE  LET s == ScoreRow(file, n, at) IN
             /\ ComesFrom(s, file, n)
             /\ s.symbol \in ListedSymbols /\ s.composite \in -Whole..Whole /\ s.at \in Times
  <2>1. n \in DOMAIN file.rows /\ Resolve(file.rows[n]) # Unmapped
    BY <1>2 DEF StoredRows
  <2>2. file.rows[n] \in ToSet(file.rows)
    BY <2>1 DEF ToSet
  <2>3. Metrics(file.rows[n].metrics)
    BY <2>2, FilesAssumption DEF Metrics
  <2>4. CompositeOf(file.rows[n].metrics) \in Scores
    BY <2>3, CompositeFits
  <2>5. Resolve(file.rows[n]) \in ListedSymbols
    BY <2>1, ResolveListed
  <2> QED BY <1>1, <1>2, <2>4, <2>5 DEF ScoreRow, ComesFrom, Scores
<1>3. \A s \in scores' : \E f, n : ComesFrom(s, f, n)
  BY <1>1, <1>2 DEF FundamentalsInv
<1>4. \A s \in scores' : s.symbol \in ListedSymbols
                         /\ s.composite \in -Whole..Whole /\ s.at \in Times
  BY <1>1, <1>2 DEF FundamentalsInv, FundamentalsTypeOK
<1>5. report'.symbol \in ListedSymbols \cup {Unmapped} /\ tried' \in 0..MaxFiles
  BY <1>1 DEF FundamentalsInv, FundamentalsTypeOK
<1> QED BY <1>3, <1>4, <1>5 DEF FundamentalsInv, FundamentalsTypeOK

LEMMA FundamentalsStep ==
  ASSUME FundamentalsInv, [FundamentalsNext]_fundamentalsVars PROVE FundamentalsInv'
<1>1. ASSUME UNCHANGED scores, report'.symbol \in ListedSymbols \cup {Unmapped},
             tried' \in 0..MaxFiles
      PROVE  FundamentalsInv'
  BY <1>1 DEF FundamentalsInv, FundamentalsTypeOK
<1>2. CASE UNCHANGED fundamentalsVars
  BY <1>1, <1>2 DEF fundamentalsVars, FundamentalsInv, FundamentalsTypeOK
<1>3. ASSUME NEW file \in Files, RefuseScreener(file) PROVE FundamentalsInv'
  <2>1. tried' \in 0..MaxFiles
    BY <1>3, FilesAssumption DEF RefuseScreener, FundamentalsInv, FundamentalsTypeOK
  <2> QED BY <1>1, <1>3, <2>1 DEF RefuseScreener, FundamentalsInv, FundamentalsTypeOK
<1>4. ASSUME NEW symbol \in ListedSymbols, AnalyseFundamentals(symbol) PROVE FundamentalsInv'
  <2>1. report'.symbol = symbol
    BY <1>4 DEF AnalyseFundamentals, ReportOf
  <2> QED BY <1>1, <1>4, <2>1 DEF AnalyseFundamentals, FundamentalsInv, FundamentalsTypeOK
<1> QED BY <1>2, <1>3, <1>4, ImportedScores DEF FundamentalsNext

LEMMA FundamentalsInvariance == FundamentalsSpec => []FundamentalsInv
<1>1. FundamentalsInit => FundamentalsInv
  BY FilesAssumption DEF FundamentalsInit, FundamentalsInv, FundamentalsTypeOK
<1>2. FundamentalsInv /\ [FundamentalsNext]_fundamentalsVars => FundamentalsInv'
  BY FundamentalsStep
<1> QED BY <1>1, <1>2, PTL DEF FundamentalsSpec

(* Every stored score lies between -1 and 1 (score_fundamentals). *)
THEOREM FundamentalsTyped == FundamentalsSpec => []FundamentalsTypeOK
<1>1. FundamentalsInv => FundamentalsTypeOK
  BY DEF FundamentalsInv
<1> QED BY <1>1, FundamentalsInvariance, PTL

(* No other row is scored for a company its file lists                      *)
(* (_InstrumentResolver.resolve, import_screener_csv).                      *)
THEOREM ListedRowIsScored == FundamentalsSpec => []ListedCompanySpeaksForItself
<1>1. FundamentalsInv => ListedCompanySpeaksForItself
  <2> SUFFICES ASSUME FundamentalsInv, NEW s \in scores, NEW file \in Files,
                      s.file = file.id, NEW k \in DOMAIN file.rows,
                      file.rows[k].symbol = s.symbol,
                      DOMAIN file.rows[k].metrics # {}
               PROVE  s.row = file.rows[k]
    BY DEF ListedCompanySpeaksForItself
  <2>1. PICK f, n : ComesFrom(s, f, n)
    BY DEF FundamentalsInv
  <2>2. f = file
    BY <2>1, FilesAssumption DEF ComesFrom
  <2>3. /\ n \in StoredRows(file) /\ ~Collides(file) /\ s.row = file.rows[n]
        /\ s.symbol = Resolve(file.rows[n])
    BY <2>1, <2>2 DEF ComesFrom
  <2>4. s.symbol \in ListedSymbols /\ s.symbol # Unmapped
    <3>1. s.symbol # Unmapped
      BY <2>3 DEF StoredRows
    <3> QED BY <2>3, <3>1, ResolveListed
  <2>5. Resolve(file.rows[k]) = s.symbol
    BY <2>4, ResolveListed
  <2>6. k \in StoredRows(file)
    BY <2>4, <2>5 DEF StoredRows
  <2>7. k = n
    BY <2>3, <2>5, <2>6 DEF Collides
  <2> QED BY <2>3, <2>7
<1> QED BY <1>1, FundamentalsInvariance, PTL

(* Clamping, rounding and averaging never turn the order of two companies   *)
(* round, whatever their metrics (score_fundamentals).                      *)
THEOREM BetterIsScoredNoLess == FundamentalsSpec => []StrongerNeverScoresLower
<1>1. FundamentalsInv => StrongerNeverScoresLower
  <2> SUFFICES ASSUME FundamentalsInv, NEW s \in scores, NEW t \in scores,
                      AtLeastAsGood(s.row.metrics, t.row.metrics)
               PROVE  t.composite <= s.composite /\ s.composite \in Int /\ t.composite \in Int
    BY DEF StrongerNeverScoresLower
  <2>1. ASSUME NEW u \in scores
        PROVE  Metrics(u.row.metrics) /\ u.composite = CompositeOf(u.row.metrics)
    <3>1. PICK f, n : ComesFrom(u, f, n)
      BY <2>1 DEF FundamentalsInv
    <3>2. f \in Files /\ n \in DOMAIN f.rows /\ u.row = f.rows[n]
          /\ u.composite = CompositeOf(f.rows[n].metrics)
      BY <3>1 DEF ComesFrom, StoredRows
    <3>3. u.row \in ToSet(f.rows)
      BY <3>2 DEF ToSet
    <3> QED BY <3>2, <3>3, FilesAssumption DEF Metrics
  <2>2. t.composite <= s.composite /\ s.composite \in Scores /\ t.composite \in Scores
    BY <2>1, CompositeFits
  <2> QED BY <2>2, ScoreFacts
<1> QED BY <1>1, FundamentalsInvariance, PTL

-----------------------------------------------------------------------------
(* The profile catalogue, for every set of profiles, corpora and orders,    *)
(* when an edit of the corpus and a transaction of the broker do not        *)
(* overlap.                                                                 *)

AllCorpora == Corpora \cup {DefaultCorpus}
KnownProfile ==
  [known : {TRUE}, status : {"ACTIVE", "ARCHIVED"}, corpus : AllCorpora]
OrderStatuses == {"rejected", "queued", "filled"}
OrderRow == [profile : Ids, corpus : AllCorpora, order : Nat, status : OrderStatuses]
AccountRows == [profile : Ids, order : Nat, starting : AllCorpora,
                available : Int, equity : AllCorpora, exposure : Nat]

(* The catalogue: a profile that is known is a whole row. *)
CatalogueInv ==
  /\ profiles \in [Ids -> KnownProfile \cup {Unknown}]
  /\ \A p \in Ids : profiles[p].known => profiles[p] \in KnownProfile

(* An order belongs to a known profile and was placed on the corpus it has. *)
OrdersInv ==
  /\ orders \subseteq OrderRow
  /\ IsFiniteSet(orders)
  /\ \A o \in orders : /\ profiles[o.profile].known
                       /\ o.corpus = profiles[o.profile].corpus

(* Order numbers are never given twice. *)
NumbersInv ==
  /\ \A o \in orders : o.order \in 1 .. Cardinality(orders)
  /\ \A o1, o2 \in orders : o1.order = o2.order => o1 = o2
  /\ Cardinality(orders) <= MaxOrders

(* An account row was written with an order of its profile. *)
AccountsInv ==
  /\ accounts \subseteq AccountRows
  /\ \A a \in accounts : /\ \E o \in orders : o.profile = a.profile
                         /\ a.starting = profiles[a.profile].corpus
                         /\ a.available + a.exposure = a.starting

(* While an edit waits to commit, nothing is traded on its profile. *)
EditInv ==
  edit # Nobody =>
    /\ edit \in [profile : Ids, corpus : Corpora]
    /\ profiles[edit.profile].known
    /\ \A o \in orders : o.profile # edit.profile
    /\ placing = Nobody

(* While the broker's transaction is open, the corpus it read stands, and it  *)
(* stores either the next order or the one it has in hand.                    *)
PlacingInv ==
  placing # Nobody =>
    /\ placing \in OrderRow
    /\ profiles[placing.profile].known
    /\ placing.corpus = profiles[placing.profile].corpus
    /\ edit = Nobody
    /\ \/ placing.order = Cardinality(orders) + 1 /\ Cardinality(orders) < MaxOrders
       \/ \E o \in orders : o.order = placing.order /\ o.profile = placing.profile

ProfilesInv ==
  /\ CatalogueInv /\ OrdersInv /\ NumbersInv
  /\ AccountsInv /\ EditInv /\ PlacingInv

-----------------------------------------------------------------------------
(* The rows an order leaves behind when the broker commits it.               *)
WithPlacing == {o \in orders : o.order # placing.order} \cup {placing}

(* What the commit of an order stores is a finite set of orders of known     *)
(* profiles, the new one among them, and no profile loses its orders.        *)
LEMMA OrderRowsStand ==
  ASSUME ProfilesInv, placing # Nobody
  PROVE  /\ WithPlacing \subseteq OrderRow
         /\ IsFiniteSet(WithPlacing)
         /\ placing \in WithPlacing
         /\ \A o \in WithPlacing : profiles[o.profile].known
                              /\ o.corpus = profiles[o.profile].corpus
         /\ \A o \in orders : \E s \in WithPlacing : s.profile = o.profile
<1>1. placing \in OrderRow /\ orders \subseteq OrderRow
  BY DEF ProfilesInv, OrdersInv, PlacingInv
<1>2. IsFiniteSet({o \in orders : o.order # placing.order})
  BY FS_Subset DEF ProfilesInv, OrdersInv
<1>3. IsFiniteSet(WithPlacing)
  BY <1>2, FS_AddElement DEF WithPlacing
<1>4. \A o \in WithPlacing : profiles[o.profile].known
                        /\ o.corpus = profiles[o.profile].corpus
  BY DEF ProfilesInv, OrdersInv, PlacingInv, WithPlacing
<1>5. \A o \in orders : \E s \in WithPlacing : s.profile = o.profile
  <2> SUFFICES ASSUME NEW o \in orders PROVE \E s \in WithPlacing : s.profile = o.profile
    OBVIOUS
  <2>1. CASE o.order # placing.order
    BY <2>1 DEF WithPlacing
  <2>2. CASE o.order = placing.order
    <3>1. o.order \in 1 .. Cardinality(orders) /\ Cardinality(orders) \in Nat
      BY FS_CardinalityType DEF ProfilesInv, NumbersInv, OrdersInv
    <3>2. placing.order # Cardinality(orders) + 1
      BY <2>2, <3>1
    <3>3. PICK other \in orders : other.order = placing.order
                                  /\ other.profile = placing.profile
      BY <3>2 DEF ProfilesInv, PlacingInv
    <3>4. other = o
      BY <2>2, <3>3 DEF ProfilesInv, NumbersInv
    <3>5. QED
      BY <3>3, <3>4 DEF WithPlacing
  <2>3. QED
    BY <2>1, <2>2
<1>6. QED
  BY <1>1, <1>3, <1>4, <1>5 DEF WithPlacing

(* The numbers of the stored orders stay distinct and without gaps.          *)
LEMMA OrderNumbersStand ==
  ASSUME ProfilesInv, placing # Nobody
  PROVE  /\ \A o \in WithPlacing : o.order \in 1 .. Cardinality(WithPlacing)
         /\ \A o1, o2 \in WithPlacing : o1.order = o2.order => o1 = o2
         /\ Cardinality(WithPlacing) <= MaxOrders
<1> DEFINE n == Cardinality(orders)
           others == {o \in orders : o.order # placing.order}
<1>1. n \in Nat /\ IsFiniteSet(orders) /\ placing \in OrderRow /\ MaxOrders \in Nat
  BY FS_CardinalityType, ProfilesAssumption DEF ProfilesInv, OrdersInv, PlacingInv
<1>2. \A o1, o2 \in WithPlacing : o1.order = o2.order => o1 = o2
  BY DEF ProfilesInv, NumbersInv, WithPlacing
<1>3. \A o \in orders : o.order \in 1 .. n
  BY DEF ProfilesInv, NumbersInv
<1>4. IsFiniteSet(others) /\ placing \notin others
  BY <1>1, FS_Subset
<1>5. Cardinality(WithPlacing) = Cardinality(others) + 1
  BY <1>4, FS_AddElement DEF WithPlacing
<1>6. CASE placing.order = n + 1 /\ n < MaxOrders
  <2>1. others = orders
    BY <1>1, <1>3, <1>6
  <2>2. Cardinality(WithPlacing) = n + 1
    BY <1>5, <2>1
  <2> HIDE DEF n
  <2>3. \A o \in orders : o.order \in 1 .. n + 1
    BY <1>1, <1>3
  <2>4. placing.order \in 1 .. n + 1
    BY <1>1, <1>6
  <2>5. n + 1 <= MaxOrders
    BY <1>1, <1>6
  <2>6. \A o \in WithPlacing : o.order \in 1 .. n + 1
    BY <2>3, <2>4 DEF WithPlacing
  <2>7. QED
    BY <1>2, <2>2, <2>5, <2>6
<1>7. ASSUME NEW row \in orders, row.order = placing.order
      PROVE  /\ \A o \in WithPlacing : o.order \in 1 .. Cardinality(WithPlacing)
             /\ Cardinality(WithPlacing) <= MaxOrders
  <2>1. others = orders \ {row}
    BY <1>7 DEF ProfilesInv, NumbersInv
  <2>2. Cardinality(others) = n - 1
    BY <1>1, <1>7, <2>1, FS_RemoveElement
  <2>3. Cardinality(WithPlacing) = n
    BY <1>1, <1>5, <2>2
  <2>4. placing.order \in 1 .. n
    BY <1>3, <1>7
  <2>5. n <= MaxOrders
    BY DEF ProfilesInv, NumbersInv
  <2>6. QED
    BY <1>3, <2>3, <2>4, <2>5 DEF WithPlacing
<1>8. QED
  BY <1>2, <1>6, <1>7 DEF ProfilesInv, PlacingInv

(* The account row a commit leads to balances.                               *)
LEMMA RowBalances ==
  ASSUME NEW p \in Ids, NEW corpus \in AllCorpora, NEW n \in Nat,
         NEW of, IsFiniteSet(of)
  PROVE  /\ AccountRow(p, corpus, of, n) \in AccountRows
         /\ AccountRow(p, corpus, of, n).profile = p
         /\ AccountRow(p, corpus, of, n).starting = corpus
         /\ AccountRow(p, corpus, of, n).available
              + AccountRow(p, corpus, of, n).exposure = corpus
<1> DEFINE spent == Cost * Cardinality(Filled(of, p))
<1>1. Cardinality(Filled(of, p)) \in Nat
  BY FS_Subset, FS_CardinalityType DEF Filled
<1>2. spent \in Nat /\ corpus \in Nat
  BY <1>1, ProfilesAssumption DEF AllCorpora
<1> HIDE DEF spent
<1>3. corpus - spent \in Int /\ (corpus - spent) + spent = corpus
  BY <1>2
<1>4. AccountRow(p, corpus, of, n) =
        [profile |-> p, order |-> n, starting |-> corpus,
         available |-> corpus - spent, equity |-> corpus, exposure |-> spent]
  BY DEF AccountRow, spent
<1>5. QED
  BY <1>2, <1>3, <1>4 DEF AccountRows

-----------------------------------------------------------------------------
LEMMA InitProfilesInv == ProfilesInit => ProfilesInv
<1> SUFFICES ASSUME ProfilesInit PROVE ProfilesInv
  OBVIOUS
<1>1. CatalogueInv
  BY ProfilesAssumption
     DEF ProfilesInit, CatalogueInv, KnownProfile, AllCorpora, Unknown
<1>2. IsFiniteSet(orders) /\ Cardinality(orders) = 0
  BY FS_EmptySet DEF ProfilesInit
<1>3. OrdersInv /\ NumbersInv
  BY <1>2, ProfilesAssumption DEF ProfilesInit, OrdersInv, NumbersInv
<1>4. QED
  BY <1>1, <1>3 DEF ProfilesInit, ProfilesInv, AccountsInv, EditInv, PlacingInv

(* A change of one profile that keeps its corpus, or gives one to a profile  *)
(* nobody knows, disturbs nothing that was traded.                           *)
LEMMA CatalogueChange ==
  ASSUME ProfilesInv, NEW p \in Ids, NEW row \in KnownProfile,
         profiles' = [profiles EXCEPT ![p] = row],
         profiles[p].known => row.corpus = profiles[p].corpus,
         UNCHANGED <<orders, accounts, edit, placing>>
  PROVE  ProfilesInv'
<1>1. profiles \in [Ids -> KnownProfile \cup {Unknown}]
  BY DEF ProfilesInv, CatalogueInv
<1>2. \A q \in Ids : profiles'[q] = IF q = p THEN row ELSE profiles[q]
  BY <1>1
<1>3. row.known = TRUE
  BY DEF KnownProfile
<1>4. CatalogueInv'
  BY <1>1, <1>2 DEF ProfilesInv, CatalogueInv
<1>5. \A q \in Ids : profiles[q].known =>
        profiles'[q].known /\ profiles'[q].corpus = profiles[q].corpus
  BY <1>2, <1>3
<1>6. \A o \in orders : o.profile \in Ids
  BY DEF ProfilesInv, OrdersInv, OrderRow
<1>7. OrdersInv' /\ NumbersInv'
  BY <1>5, <1>6 DEF ProfilesInv, OrdersInv, NumbersInv
<1>8. AccountsInv'
  <2>1. \A a \in accounts : profiles[a.profile].known /\ a.profile \in Ids
    BY <1>6 DEF ProfilesInv, AccountsInv, OrdersInv
  <2>2. QED
    BY <1>5, <2>1 DEF ProfilesInv, AccountsInv
<1>9. EditInv'
  <2>1. edit # Nobody => edit.profile \in Ids
    BY DEF ProfilesInv, EditInv
  <2>2. QED
    BY <1>5, <2>1 DEF ProfilesInv, EditInv
<1>10. PlacingInv'
  <2>1. placing # Nobody => placing.profile \in Ids
    BY DEF ProfilesInv, PlacingInv, OrderRow
  <2>2. QED
    BY <1>5, <2>1 DEF ProfilesInv, PlacingInv
<1>11. QED
  BY <1>4, <1>7, <1>8, <1>9, <1>10 DEF ProfilesInv

LEMMA CreateStep ==
  ASSUME ProfilesInv, NEW p \in Ids, NEW corpus \in Corpora,
         CreateProfile(p, corpus)
  PROVE  ProfilesInv'
<1> DEFINE row == [known |-> TRUE, status |-> "ACTIVE", corpus |-> corpus]
<1>1. row \in KnownProfile
  BY DEF KnownProfile, AllCorpora
<1>2. profiles' = [profiles EXCEPT ![p] = row] /\ ~profiles[p].known
  BY DEF CreateProfile
<1>3. UNCHANGED <<orders, accounts, edit, placing>>
  BY DEF CreateProfile
<1> HIDE DEF row
<1>4. QED
  BY <1>1, <1>2, <1>3, CatalogueChange

LEMMA StatusStep ==
  ASSUME ProfilesInv, NEW p \in Ids, NEW status \in {"ACTIVE", "ARCHIVED"},
         SetStatus(p, status)
  PROVE  ProfilesInv'
<1> DEFINE row == [profiles[p] EXCEPT !.status = status]
<1>1. profiles[p] \in KnownProfile
  BY DEF SetStatus, ProfilesInv, CatalogueInv
<1>2. row \in KnownProfile /\ row.corpus = profiles[p].corpus
  BY <1>1 DEF KnownProfile
<1>3. profiles' = [profiles EXCEPT ![p] = row]
  BY DEF SetStatus
<1>4. UNCHANGED <<orders, accounts, edit, placing>>
  BY DEF SetStatus
<1> HIDE DEF row
<1>5. QED
  BY <1>2, <1>3, <1>4, CatalogueChange

(* The check of an edit finds no order of the profile, and no transaction of *)
(* the broker is open.                                                       *)
LEMMA CheckStep ==
  ASSUME ProfilesInv, ~Overlap, NEW p \in Ids, NEW corpus \in Corpora,
         CheckCorpusEdit(p, corpus)
  PROVE  ProfilesInv'
<1>1. placing = Nobody /\ profiles[p].known /\ \A o \in orders : o.profile # p
  BY DEF CheckCorpusEdit, CorpusUpdateAllowed
<1>2. edit' = [profile |-> p, corpus |-> corpus]
  BY DEF CheckCorpusEdit
<1>3. UNCHANGED <<profiles, orders, accounts, placing>>
  BY DEF CheckCorpusEdit
<1>4. EditInv'
  BY <1>1, <1>2, <1>3 DEF EditInv
<1>5. CatalogueInv' /\ OrdersInv' /\ NumbersInv' /\ AccountsInv'
  BY <1>3 DEF ProfilesInv, CatalogueInv, OrdersInv, NumbersInv, AccountsInv
<1>6. PlacingInv'
  BY <1>1, <1>3 DEF PlacingInv
<1>7. QED
  BY <1>4, <1>5, <1>6 DEF ProfilesInv

(* The edit finds no account row to rewrite: none was written without an     *)
(* order.                                                                    *)
LEMMA EditStep ==
  ASSUME ProfilesInv, CommitCorpusEdit
  PROVE  ProfilesInv'
<1> DEFINE p == edit.profile
<1>1. /\ edit # Nobody /\ edit' = Nobody
      /\ profiles' = [profiles EXCEPT ![p].corpus = edit.corpus]
      /\ UNCHANGED <<orders, placing>>
  BY DEF CommitCorpusEdit
<1>2. /\ p \in Ids /\ edit.corpus \in AllCorpora /\ profiles[p].known
      /\ placing = Nobody
      /\ \A o \in orders : o.profile # p
  BY <1>1 DEF ProfilesInv, EditInv, AllCorpora
<1>3. \A a \in accounts : a.profile # p
  BY <1>2 DEF ProfilesInv, AccountsInv
<1>4. accounts' = accounts
  BY <1>3 DEF CommitCorpusEdit
<1>5. profiles \in [Ids -> KnownProfile \cup {Unknown}] /\ profiles[p] \in KnownProfile
  BY <1>2 DEF ProfilesInv, CatalogueInv
<1>6. \A q \in Ids : q # p => profiles'[q] = profiles[q]
  BY <1>1, <1>2, <1>5
<1>7. profiles'[p] \in KnownProfile
  BY <1>1, <1>2, <1>5 DEF KnownProfile
<1>8. CatalogueInv'
  <2>1. profiles' \in [Ids -> KnownProfile \cup {Unknown}]
    BY <1>1, <1>2, <1>5, <1>7
  <2>2. \A q \in Ids : profiles'[q].known => profiles'[q] \in KnownProfile
    BY <1>6, <1>7 DEF ProfilesInv, CatalogueInv
  <2>3. QED
    BY <2>1, <2>2 DEF CatalogueInv
<1>9. \A o \in orders : o.profile \in Ids
  BY DEF ProfilesInv, OrdersInv, OrderRow
<1>10. OrdersInv' /\ NumbersInv'
  BY <1>1, <1>2, <1>6, <1>9 DEF ProfilesInv, OrdersInv, NumbersInv
<1>11. AccountsInv'
  <2>1. \A a \in accounts : profiles'[a.profile] = profiles[a.profile]
    BY <1>3, <1>6, <1>9 DEF ProfilesInv, AccountsInv
  <2>2. QED
    BY <1>1, <1>4, <2>1 DEF ProfilesInv, AccountsInv
<1>12. EditInv' /\ PlacingInv'
  BY <1>1, <1>2 DEF EditInv, PlacingInv
<1>13. QED
  BY <1>8, <1>10, <1>11, <1>12 DEF ProfilesInv

LEMMA BeginOrderStep ==
  ASSUME ProfilesInv, ~Overlap, NEW p \in Ids, NEW status \in OrderStatuses,
         BeginOrder(p, status)
  PROVE  ProfilesInv'
<1>1. /\ edit = Nobody /\ profiles[p].known
      /\ Cardinality(orders) < MaxOrders
      /\ placing' = [profile |-> p, corpus |-> profiles[p].corpus,
                     order |-> Cardinality(orders) + 1, status |-> status]
      /\ UNCHANGED <<profiles, orders, accounts, edit>>
  BY DEF BeginOrder
<1>2. profiles[p].corpus \in AllCorpora
  BY <1>1 DEF ProfilesInv, CatalogueInv, KnownProfile
<1>3. Cardinality(orders) + 1 \in Nat
  BY FS_CardinalityType DEF ProfilesInv, OrdersInv
<1>4. placing' \in OrderRow
  BY <1>1, <1>2, <1>3 DEF OrderRow
<1>5. PlacingInv'
  BY <1>1, <1>4 DEF PlacingInv
<1>6. CatalogueInv' /\ OrdersInv' /\ NumbersInv' /\ AccountsInv'
  BY <1>1 DEF ProfilesInv, CatalogueInv, OrdersInv, NumbersInv, AccountsInv
<1>7. EditInv'
  BY <1>1 DEF EditInv
<1>8. QED
  BY <1>5, <1>6, <1>7 DEF ProfilesInv

LEMMA BeginSettlementStep ==
  ASSUME ProfilesInv, ~Overlap, NEW o \in orders,
         NEW status \in {"rejected", "filled"}, BeginSettlement(o, status)
  PROVE  ProfilesInv'
<1>1. /\ edit = Nobody
      /\ placing' = [profile |-> o.profile, corpus |-> profiles[o.profile].corpus,
                     order |-> o.order, status |-> status]
      /\ UNCHANGED <<profiles, orders, accounts, edit>>
  BY DEF BeginSettlement
<1>2. o \in OrderRow /\ profiles[o.profile].known
      /\ o.corpus = profiles[o.profile].corpus
  BY DEF ProfilesInv, OrdersInv
<1>3. placing' \in OrderRow
  BY <1>1, <1>2 DEF OrderRow, OrderStatuses
<1>4. PlacingInv'
  BY <1>1, <1>2, <1>3 DEF PlacingInv
<1>5. CatalogueInv' /\ OrdersInv' /\ NumbersInv' /\ AccountsInv'
  BY <1>1 DEF ProfilesInv, CatalogueInv, OrdersInv, NumbersInv, AccountsInv
<1>6. EditInv'
  BY <1>1 DEF EditInv
<1>7. QED
  BY <1>4, <1>5, <1>6 DEF ProfilesInv

(* The commit of an order: its account row starts from the corpus the        *)
(* profile still has.                                                        *)
LEMMA CommitPlacingStep ==
  ASSUME ProfilesInv, CommitPlacing
  PROVE  ProfilesInv'
<1> DEFINE new == AccountRow(placing.profile, placing.corpus, WithPlacing, placing.order)
<1>1. /\ placing # Nobody /\ placing' = Nobody
      /\ orders' = WithPlacing
      /\ accounts' \in {accounts, accounts \cup {new}}
      /\ UNCHANGED <<profiles, edit>>
  BY DEF CommitPlacing, WithPlacing
<1>2. placing \in OrderRow /\ edit = Nobody
      /\ placing.corpus = profiles[placing.profile].corpus
  BY <1>1 DEF ProfilesInv, PlacingInv
<1>3. /\ IsFiniteSet(WithPlacing) /\ placing \in WithPlacing /\ WithPlacing \subseteq OrderRow
      /\ \A o \in WithPlacing : profiles[o.profile].known
                            /\ o.corpus = profiles[o.profile].corpus
      /\ \A o \in orders : \E s \in WithPlacing : s.profile = o.profile
  BY <1>1, OrderRowsStand
<1>4. /\ \A o \in WithPlacing : o.order \in 1 .. Cardinality(WithPlacing)
      /\ \A o1, o2 \in WithPlacing : o1.order = o2.order => o1 = o2
      /\ Cardinality(WithPlacing) <= MaxOrders
  BY <1>1, OrderNumbersStand
<1>5. OrdersInv' /\ NumbersInv'
  BY <1>1, <1>3, <1>4 DEF OrdersInv, NumbersInv
<1>6. /\ new \in AccountRows /\ new.profile = placing.profile
      /\ new.starting = placing.corpus
      /\ new.available + new.exposure = placing.corpus
  BY <1>2, <1>3, RowBalances DEF OrderRow
<1> HIDE DEF new
<1>7. AccountsInv'
  <2>1. \A a \in accounts : \E o \in WithPlacing : o.profile = a.profile
    BY <1>3 DEF ProfilesInv, AccountsInv
  <2>2. QED
    BY <1>1, <1>2, <1>3, <1>6, <2>1 DEF ProfilesInv, AccountsInv
<1>8. CatalogueInv'
  BY <1>1 DEF ProfilesInv, CatalogueInv
<1>9. EditInv' /\ PlacingInv'
  BY <1>1, <1>2 DEF EditInv, PlacingInv
<1>10. QED
  BY <1>5, <1>7, <1>8, <1>9 DEF ProfilesInv

LEMMA NextProfilesInv ==
  ASSUME ProfilesInv, ~Overlap, [ProfilesNext]_profilesVars
  PROVE  ProfilesInv'
<1>1. ASSUME NEW p \in Ids, NEW corpus \in Corpora,
             CreateProfile(p, corpus) \/ CheckCorpusEdit(p, corpus)
      PROVE  ProfilesInv'
  BY <1>1, CreateStep, CheckStep
<1>2. ASSUME NEW p \in Ids, NEW status \in {"ACTIVE", "ARCHIVED"},
             SetStatus(p, status)
      PROVE  ProfilesInv'
  BY <1>2, StatusStep
<1>3. CASE CommitCorpusEdit
  BY <1>3, EditStep
<1>4. ASSUME NEW p \in Ids, NEW status \in {"rejected", "queued", "filled"},
             BeginOrder(p, status)
      PROVE  ProfilesInv'
  BY <1>4, BeginOrderStep DEF OrderStatuses
<1>5. ASSUME NEW o \in orders, NEW status \in {"rejected", "filled"},
             BeginSettlement(o, status)
      PROVE  ProfilesInv'
  BY <1>5, BeginSettlementStep
<1>6. CASE CommitPlacing
  BY <1>6, CommitPlacingStep
<1>7. CASE AbandonPlacing
  <2>1. placing' = Nobody /\ UNCHANGED <<profiles, orders, accounts, edit>>
    BY <1>7 DEF AbandonPlacing
  <2>2. CatalogueInv' /\ OrdersInv' /\ NumbersInv' /\ AccountsInv'
    BY <2>1 DEF ProfilesInv, CatalogueInv, OrdersInv, NumbersInv, AccountsInv
  <2>3. EditInv' /\ PlacingInv'
    BY <2>1 DEF ProfilesInv, EditInv, PlacingInv
  <2>4. QED
    BY <2>2, <2>3 DEF ProfilesInv
<1>8. CASE UNCHANGED profilesVars
  <2>1. UNCHANGED <<profiles, orders, accounts, edit, placing>>
    BY <1>8 DEF profilesVars
  <2>2. CatalogueInv' /\ OrdersInv' /\ NumbersInv' /\ AccountsInv'
    BY <2>1 DEF ProfilesInv, CatalogueInv, OrdersInv, NumbersInv, AccountsInv
  <2>3. EditInv' /\ PlacingInv'
    BY <2>1 DEF ProfilesInv, EditInv, PlacingInv
  <2>4. QED
    BY <2>2, <2>3 DEF ProfilesInv
<1>9. QED
  BY <1>1, <1>2, <1>3, <1>4, <1>5, <1>6, <1>7, <1>8 DEF ProfilesNext

(* The inductive invariant of the catalogue without overlap: what an edit    *)
(* and the broker read is still true when they commit.                       *)
LEMMA ProfilesInvariant ==
  ASSUME ~Overlap
  PROVE  ProfilesSpec => []ProfilesInv
<1>1. ProfilesInit => ProfilesInv
  BY InitProfilesInv
<1>2. ProfilesInv /\ [ProfilesNext]_profilesVars => ProfilesInv'
  BY NextProfilesInv
<1>3. QED
  BY <1>1, <1>2, PTL DEF ProfilesSpec

-----------------------------------------------------------------------------
(* Rows of the catalogue, of orders and of accounts keep their shape.        *)
THEOREM ProfilesTyped ==
  ASSUME ~Overlap
  PROVE  ProfilesSpec => []ProfilesTypeOK
<1>1. ProfilesInv => ProfilesTypeOK
  <2> SUFFICES ASSUME ProfilesInv PROVE ProfilesTypeOK
    OBVIOUS
  <2>1. \A p \in Ids : profiles[p].known =>
          /\ profiles[p].status \in {"ACTIVE", "ARCHIVED"}
          /\ profiles[p].corpus \in Corpora \cup {DefaultCorpus}
    BY DEF ProfilesInv, CatalogueInv, KnownProfile, AllCorpora
  <2>2. \A o \in orders : o.profile \in Ids /\ o.status \in OrderStatuses
    BY DEF ProfilesInv, OrdersInv, OrderRow
  <2>3. \A o \in orders : o.order \in 1 .. MaxOrders
    <3>1. Cardinality(orders) \in Nat /\ MaxOrders \in Nat
      BY FS_CardinalityType, ProfilesAssumption DEF ProfilesInv, OrdersInv
    <3>2. Cardinality(orders) <= MaxOrders
          /\ \A o \in orders : o.order \in 1 .. Cardinality(orders)
      BY DEF ProfilesInv, NumbersInv
    <3> QED BY <3>1, <3>2
  <2>4. \A a \in accounts : a.profile \in Ids /\ a.exposure \in Nat
    BY DEF ProfilesInv, AccountsInv, AccountRows
  <2>5. edit = Nobody \/ (edit.profile \in Ids /\ edit.corpus \in Corpora)
    BY DEF ProfilesInv, EditInv
  <2>6. placing = Nobody \/ placing.profile \in Ids
    BY DEF ProfilesInv, PlacingInv, OrderRow
  <2> QED BY <2>1, <2>2, <2>3, <2>4, <2>5, <2>6 DEF ProfilesTypeOK, OrderStatuses
<1>2. QED
  BY <1>1, ProfilesInvariant, PTL

(* Without overlap, whatever was traded rests on the corpus the profile has: *)
(* every order was placed on it and every account row starts from it and     *)
(* adds up (db/repositories.py, update_profile_corpus; brokers/              *)
(* paper_broker.py, place_order).                                            *)
THEOREM TradingStands ==
  ASSUME ~Overlap
  PROVE  ProfilesSpec => []TradingRestsOnCorpus
<1>1. ProfilesInv => TradingRestsOnCorpus
  BY DEF ProfilesInv, OrdersInv, AccountsInv, TradingRestsOnCorpus
<1>2. QED
  BY <1>1, ProfilesInvariant, PTL

LEMMA CorpusStep ==
  ASSUME ProfilesInv, [ProfilesNext]_profilesVars, NEW p \in Ids,
         profiles[p].known, profiles'[p].corpus # profiles[p].corpus
  PROVE  {o \in orders : o.profile = p} = {}
<1>1. profiles \in [Ids -> KnownProfile \cup {Unknown}]
      /\ \A q \in Ids : profiles[q].known => profiles[q] \in KnownProfile
  BY DEF ProfilesInv, CatalogueInv
<1>2. ASSUME NEW q \in Ids, NEW corpus \in Corpora,
             CreateProfile(q, corpus) \/ CheckCorpusEdit(q, corpus)
      PROVE  FALSE
  <2>1. profiles'[p] = profiles[p]
    BY <1>1, <1>2 DEF CreateProfile, CheckCorpusEdit
  <2>2. QED
    BY <2>1
<1>3. ASSUME NEW q \in Ids, NEW status \in {"ACTIVE", "ARCHIVED"},
             SetStatus(q, status)
      PROVE  FALSE
  <2>1. profiles' = [profiles EXCEPT ![q] = [profiles[q] EXCEPT !.status = status]]
        /\ profiles[q] \in KnownProfile
    BY <1>1, <1>3 DEF SetStatus
  <2>2. [profiles[q] EXCEPT !.status = status].corpus = profiles[q].corpus
    BY <2>1 DEF KnownProfile
  <2>3. profiles'[p].corpus = profiles[p].corpus
    BY <1>1, <2>1, <2>2
  <2>4. QED
    BY <2>3
<1>4. CASE CommitCorpusEdit
  <2>1. edit # Nobody
        /\ profiles' = [profiles EXCEPT ![edit.profile].corpus = edit.corpus]
    BY <1>4 DEF CommitCorpusEdit
  <2>2. edit.profile \in Ids /\ \A o \in orders : o.profile # edit.profile
    BY <2>1 DEF ProfilesInv, EditInv
  <2>3. p = edit.profile
    BY <1>1, <2>1, <2>2
  <2>4. QED
    BY <2>2, <2>3
<1>5. CASE UNCHANGED profiles
  BY <1>5
<1>6. QED
  BY <1>2, <1>3, <1>4, <1>5
     DEF ProfilesNext, BeginOrder, BeginSettlement, CommitPlacing,
         AbandonPlacing, profilesVars

(* Without overlap, the corpus of a profile changes only while it has no     *)
(* order at all (db/repositories.py, _ensure_corpus_update_allowed).         *)
THEOREM CorpusFollowsTheRule ==
  ASSUME ~Overlap
  PROVE  ProfilesSpec => CorpusChangesPrecedeTrading
<1>1. ProfilesInv /\ [ProfilesNext]_profilesVars =>
        [\A p \in Ids : profiles[p].known /\ profiles'[p].corpus # profiles[p].corpus
           => {o \in orders : o.profile = p} = {}]_profilesVars
  BY CorpusStep
<1>2. QED
  BY <1>1, ProfilesInvariant, PTL DEF ProfilesSpec, CorpusChangesPrecedeTrading
-----------------------------------------------------------------------------
(* Official data: what an import stores is of a day and was not available   *)
(* before it, so a query as of a day reads no row of that day or later, and *)
(* the score made of those queries is the one of the days before.           *)

LEMMA HistoryStops ==
  ASSUME NEW table, NEW name, NEW morning \in Nat,
         \A k \in DOMAIN table :
           k[2] \in Nat /\ table[k].at \in Nat /\ table[k].at > AsOfTime(k[2])
  PROVE  HistoryAsOf(table, name, morning)
           = HistoryAsOf(BeforeDay(table, morning), name, morning)
<1> DEFINE before == BeforeDay(table, morning)
           kept == {j \in DOMAIN table :
                      j[1] = name /\ j[2] <= morning /\ table[j].at <= AsOfTime(morning)}
           left == {j \in DOMAIN before :
                      j[1] = name /\ j[2] <= morning /\ before[j].at <= AsOfTime(morning)}
<1>1. /\ DOMAIN before = {j \in DOMAIN table : j[2] < morning}
      /\ \A k \in DOMAIN before : before[k] = table[k]
  BY DEF BeforeDay
<1>2. \A k \in DOMAIN table : table[k].at <= AsOfTime(morning) => k[2] < morning
  BY DEF AsOfTime, Hour
<1>3. kept = left
  <2> HIDE DEF before
  <2> QED BY <1>1, <1>2
<1>4. [k \in kept |-> table[k]] = [k \in left |-> before[k]]
  <2>1. \A k \in left : before[k] = table[k]
    <3> HIDE DEF before
    <3> QED BY <1>1
  <2> HIDE DEF before, kept, left
  <2> QED BY <1>3, <2>1
<1>5. KnownAsOf(table, name, morning) = KnownAsOf(before, name, morning)
  <2>1. KnownAsOf(table, name, morning) = [k \in kept |-> table[k]]
    BY DEF KnownAsOf
  <2>2. KnownAsOf(before, name, morning) = [k \in left |-> before[k]]
    BY DEF KnownAsOf
  <2> HIDE DEF before, kept, left
  <2> QED BY <1>4, <2>1, <2>2
<1> HIDE DEF before
<1>6. HistoryAsOf(table, name, morning) = HistoryAsOf(before, name, morning)
  BY <1>5, Zenon DEF HistoryAsOf
<1> QED BY <1>6 DEF before

(* The context a symbol gets from the four histories it is made of.          *)
ContextFrom(bench, vix, own, table, s) ==
  LET benchmark == IndexFeature(bench)
      volatility == VolatilityFeature(vix)
      sector == IF SectorOf[s] = NoIndex THEN NoIndexFeature ELSE IndexFeature(own)
      micro == MicroFeature(table)
      families == <<benchmark.change # NoScore, volatility.regime # "none", micro.covered.delivery,
                    micro.covered.circuit, micro.covered.tradability>>
                    \o (IF SectorOf[s] = NoIndex THEN << >> ELSE <<sector.change # NoScore>>)
  IN  [benchmark |-> benchmark, volatility |-> volatility, sector |-> sector,
       status |-> micro.status, hit |-> micro.hit, delivery |-> micro.delivery,
       implementability |-> micro.implementability,
       coverage |-> RoundHalfEven(Unit * Cardinality({i \in DOMAIN families : families[i]}),
                                  Len(families))]

LEMMA ContextReadsHistories ==
  ASSUME NEW indices, NEW micros, NEW s, NEW morning
  PROVE  OfficialContext(indices, micros, s, morning)
           = ContextFrom(HistoryAsOf(indices, Benchmark, morning),
                         HistoryAsOf(indices, Volatility, morning),
                         HistoryAsOf(indices, SectorOf[s], morning),
                         HistoryAsOf(micros, s, morning), s)
BY Zenon DEF OfficialContext, ContextFrom

LEMMA ScoreStops ==
  ASSUME NEW indices, NEW micros, NEW s, NEW morning \in Nat,
         \A k \in DOMAIN indices :
           k[2] \in Nat /\ indices[k].at \in Nat /\ indices[k].at > AsOfTime(k[2]),
         \A k \in DOMAIN micros :
           k[2] \in Nat /\ micros[k].at \in Nat /\ micros[k].at > AsOfTime(k[2])
  PROVE  OfficialScore(indices, micros, s, morning)
           = OfficialScore(BeforeDay(indices, morning), BeforeDay(micros, morning), s, morning)
<1>1. \A name : HistoryAsOf(indices, name, morning)
                   = HistoryAsOf(BeforeDay(indices, morning), name, morning)
  BY HistoryStops
<1>2. \A name : HistoryAsOf(micros, name, morning)
                   = HistoryAsOf(BeforeDay(micros, morning), name, morning)
  BY HistoryStops
<1>3. OfficialContext(indices, micros, s, morning)
        = OfficialContext(BeforeDay(indices, morning), BeforeDay(micros, morning), s, morning)
  BY <1>1, <1>2, ContextReadsHistories, Zenon
<1> QED BY <1>3, Zenon DEF OfficialScore

(* A held of official rows: each is of a day and, when the files say truly *)
(* when their rows became available, was not before that day had begun.     *)
LaterThanDay(key, row) ==
  key[2] \in Nat /\ (AvailabilityIsPopulated => row.at > AsOfTime(key[2]))
IndexStoreOK(held) ==
  /\ held = [k \in DOMAIN held |-> held[k]]
  /\ \A k \in DOMAIN held : held[k] \in IndexRow /\ LaterThanDay(k, held[k])
MicroStoreOK(held) ==
  /\ held = [k \in DOMAIN held |-> held[k]]
  /\ \A k \in DOMAIN held : IsMicroRow(held[k]) /\ LaterThanDay(k, held[k])

LEMMA RowAvailable ==
  ASSUME NEW file \in IndexFiles \cup MicroFiles, NEW row \in Range(file)
  PROVE  /\ row.day \in Nat /\ AvailableAt(row) \in Nat
         /\ AvailabilityIsPopulated => AvailableAt(row) > AsOfTime(row.day)
<1>1. row.day \in Nat /\ row.at \in Nat \cup {Unstated}
  BY OfficialAssumption
<1>2. AvailabilityIsPopulated => row.at = Unstated \/ row.at > AsOfTime(row.day)
  BY DEF AvailabilityIsPopulated
<1>3. row.day \in Nat /\ AvailableAt(row) \in Nat
  BY <1>1 DEF AvailableAt, Hour
<1>4. ASSUME AvailabilityIsPopulated PROVE AvailableAt(row) > AsOfTime(row.day)
  BY <1>1, <1>2, <1>4 DEF AvailableAt, AsOfTime, Hour
<1> QED BY <1>3, <1>4

LEMMA IndexUpserted ==
  ASSUME NEW held, IndexStoreOK(held), NEW file \in IndexFiles, NEW row \in Range(file)
  PROVE  /\ IndexStoreOK(UpsertIndexRow(held, row))
         /\ DOMAIN UpsertIndexRow(held, row) = DOMAIN held \cup {IndexKey(row)}
<1> DEFINE key == IndexKey(row)
           new == StoredIndexRow(row)
           after == [k \in DOMAIN held \cup {key} |-> IF k = key THEN new ELSE held[k]]
<1>1. UpsertIndexRow(held, row) = after
  BY DEF UpsertIndexRow, Keep
<1>2. key[2] = row.day
  BY DEF IndexKey
<1>3. new \in IndexRow /\ new.at = AvailableAt(row)
  <2>1. row.close \in Nat /\ AvailableAt(row) \in Nat
    BY OfficialAssumption, RowAvailable
  <2> QED BY <2>1 DEF StoredIndexRow, IndexRow
<1>4. LaterThanDay(key, new)
  <2>1. /\ row.day \in Nat
        /\ AvailabilityIsPopulated => AvailableAt(row) > AsOfTime(row.day)
    BY RowAvailable
  <2> HIDE DEF key, new
  <2> QED BY <1>2, <1>3, <2>1 DEF LaterThanDay
<1> HIDE DEF key, new
<1>5. DOMAIN after = DOMAIN held \cup {key} /\ after = [k \in DOMAIN after |-> after[k]]
  OBVIOUS
<1>6. \A k \in DOMAIN after : after[k] \in IndexRow /\ LaterThanDay(k, after[k])
  <2>1. \A k \in DOMAIN held : held[k] \in IndexRow /\ LaterThanDay(k, held[k])
    BY DEF IndexStoreOK
  <2> TAKE k \in DOMAIN after
  <2>2. CASE k = key
    BY <1>3, <1>4, <2>2
  <2>3. CASE k # key
    <3>1. k \in DOMAIN held /\ after[k] = held[k]
      BY <2>3
    <3> HIDE DEF after
    <3> QED BY <2>1, <3>1
  <2> QED BY <2>2, <2>3
<1> HIDE DEF after
<1> QED BY <1>1, <1>5, <1>6 DEF IndexStoreOK, key

LEMMA IndexImported ==
  ASSUME NEW stored, IndexStoreOK(stored), NEW file \in IndexFiles
  PROVE  IndexStoreOK(FoldLeft(UpsertIndexRow, stored, file))
<1> DEFINE S == DOMAIN file
           last(s) == CHOOSE x \in s : \A y \in s : x >= y
           Run(iter) ==
             iter = [s \in SUBSET S |->
                       IF s = {} THEN stored
                       ELSE UpsertIndexRow(iter[s \ {last(s)}], file[last(s)])]
           run == CHOOSE iter : Run(iter)
           K == DOMAIN stored \cup {IndexKey(file[i]) : i \in S}
           T == {g \in UNION {[D -> IndexRow] : D \in SUBSET K} : IndexStoreOK(g)}
           pick == [s \in SUBSET S |-> last(s)]
           step == [p \in S \X T |-> UpsertIndexRow(p[2], file[p[1]])]
<1>1. FoldLeft(UpsertIndexRow, stored, file) = run[S]
  BY DEF FoldLeft, MapThenFoldSet, Max
<1>2. /\ file \in Seq(Range(file)) /\ S = 1..Len(file) /\ Len(file) \in Nat
      /\ \A i \in S : file[i] \in Range(file)
  BY OfficialAssumption, LenProperties DEF Range
<1>3. IsFiniteSet(S)
  BY <1>2, FS_Interval
<1>4. ASSUME NEW s \in SUBSET S, s # {} PROVE last(s) \in s
  <2>1. s \in SUBSET (1..Len(file))
    BY <1>2
  <2> HIDE DEF S
  <2>2. PICK i \in s : \A j \in s : j <= i
    BY <1>2, <1>4, <2>1, LargestOf
  <2>3. \A j \in s : i >= j
    BY <1>2, <2>1, <2>2
  <2> QED BY <2>2, <2>3
<1>5. stored \in T
  <2>1. stored \in [DOMAIN stored -> IndexRow]
    BY DEF IndexStoreOK
  <2>2. DOMAIN stored \in SUBSET K
    OBVIOUS
  <2> HIDE DEF K
  <2> QED BY <2>1, <2>2
<1>6. ASSUME NEW i \in S, NEW g \in T PROVE UpsertIndexRow(g, file[i]) \in T
  <2>1. IndexStoreOK(g) /\ DOMAIN g \in SUBSET K
    <3> HIDE DEF K
    <3> QED OBVIOUS
  <2> DEFINE h == UpsertIndexRow(g, file[i])
  <2>2. IndexStoreOK(h) /\ DOMAIN h = DOMAIN g \cup {IndexKey(file[i])}
    BY <1>2, <2>1, IndexUpserted
  <2>3. DOMAIN h \in SUBSET K
    <3> HIDE DEF h
    <3> QED BY <2>1, <2>2
  <2> HIDE DEF h, K, S
  <2>4. h \in [DOMAIN h -> IndexRow]
    BY <2>2 DEF IndexStoreOK
  <2>5. h \in T
    BY <2>2, <2>3, <2>4
  <2> QED BY <2>5 DEF h
<1>7. step \in [S \X T -> T]
  <2> HIDE DEF S, T
  <2>1. \A p \in S \X T : UpsertIndexRow(p[2], file[p[1]]) \in T
    BY <1>6
  <2> QED BY <2>1
<1>8. PICK iter \in [SUBSET S -> T] : Folds(iter, S, stored, pick, step)
  <2>1. \A s \in SUBSET S : s # {} => pick[s] \in s
    <3> HIDE DEF S, last
    <3> QED BY <1>4
  <2> HIDE DEF pick, step, S, T
  <2> QED BY <1>3, <1>5, <1>7, <2>1, FoldExists, Zenon
<1>9. ASSUME NEW s \in SUBSET S, s # {}
      PROVE  step[<<pick[s], iter[s \ {pick[s]}]>>]
               = UpsertIndexRow(iter[s \ {last(s)}], file[last(s)])
  <2>1. pick[s] = last(s) /\ last(s) \in S /\ s \ {last(s)} \in SUBSET S
    BY <1>4, <1>9
  <2>2. iter[s \ {last(s)}] \in T
    <3> HIDE DEF T, last, S
    <3> QED BY <2>1
  <2> HIDE DEF pick, last, S, T
  <2> QED BY <2>1, <2>2
<1>10. Run(iter)
  <2> HIDE DEF pick, last, step, S, T
  <2> QED BY <1>8, <1>9 DEF Folds
<1>11. Run(run)
  <2> HIDE DEF Run
  <2> QED BY <1>10
<1>12. /\ run[{}] = stored
       /\ \A s \in SUBSET S : s # {} =>
            run[s] = UpsertIndexRow(run[s \ {last(s)}], file[last(s)])
  <2> HIDE DEF run, last, S
  <2> QED BY <1>11
<1> DEFINE G == {s \in SUBSET S : run[s] \in T}
<1>13. {} \in G
  <2> HIDE DEF run, T, S
  <2> QED BY <1>5, <1>12
<1>14. ASSUME NEW s \in SUBSET S, s # {}, \A x \in s : s \ {x} \in G PROVE s \in G
  <2>1. last(s) \in s /\ last(s) \in S
    BY <1>4, <1>14
  <2>2. run[s \ {last(s)}] \in T
    <3> HIDE DEF run, T, S, last
    <3> QED BY <1>14, <2>1
  <2>3. run[s] = UpsertIndexRow(run[s \ {last(s)}], file[last(s)])
    <3> HIDE DEF run, S, last
    <3> QED BY <1>12, <1>14
  <2> HIDE DEF run, T, S, last
  <2>4. run[s] \in T
    BY <1>6, <2>1, <2>2, <2>3
  <2> QED BY <2>4
<1>15. G = SUBSET S
  <2>1. G \in SUBSET (SUBSET S)
    OBVIOUS
  <2> HIDE DEF G, S
  <2> QED BY <1>3, <1>13, <1>14, <2>1, SubsetInduction
<1>16. run[S] \in T
  <2> HIDE DEF run, T, S
  <2> QED BY <1>15
<1>17. IndexStoreOK(run[S])
  <2> HIDE DEF run, S, K
  <2> QED BY <1>16
<1> QED BY <1>1, <1>17

LEMMA MicroUpserted ==
  ASSUME NEW held, MicroStoreOK(held), NEW file \in MicroFiles, NEW row \in Range(file)
  PROVE  /\ MicroStoreOK(UpsertMicroRow(held, row))
         /\ DOMAIN UpsertMicroRow(held, row) = DOMAIN held \cup {MicroKey(row)}
<1> DEFINE key == MicroKey(row)
           new == IF key \in DOMAIN held THEN MergedMicroRow(held[key], row)
                  ELSE StoredMicroRow(row)
           after == [k \in DOMAIN held \cup {key} |-> IF k = key THEN new ELSE held[k]]
<1>1. UpsertMicroRow(held, row) = after
  BY DEF UpsertMicroRow, Keep
<1>2. key[2] = row.day
  BY DEF MicroKey
<1>3. /\ row.day \in Nat /\ AvailableAt(row) \in Nat
      /\ AvailabilityIsPopulated => AvailableAt(row) > AsOfTime(row.day)
  BY RowAvailable
<1>4. /\ DOMAIN row.values = Fields
      /\ row.values.status \in {"absent", "clear", "near", "hit"}
      /\ row.values.hit \in {"absent", "yes", "no"}
  BY OfficialAssumption
<1>5. IsMicroRow(StoredMicroRow(row)) /\ StoredMicroRow(row).at = AvailableAt(row)
  BY <1>3, <1>4 DEF StoredMicroRow, IsMicroRow
<1>6. ASSUME key \in DOMAIN held
      PROVE  /\ IsMicroRow(MergedMicroRow(held[key], row))
             /\ MergedMicroRow(held[key], row).at = AvailableAt(row)
  <2> DEFINE old == held[key]
             merged == MergedMicroRow(old, row)
  <2>1. IsMicroRow(old)
    BY <1>6 DEF MicroStoreOK
  <2> HIDE DEF old, key
  <2>2. DOMAIN merged = {"values", "at", "told"} /\ merged.at = AvailableAt(row)
    BY DEF MergedMicroRow
  <2>3. DOMAIN merged.values = Fields
    BY DEF MergedMicroRow
  <2>4. merged.told \in [Fields -> Nat]
    BY <1>3, <2>1 DEF MergedMicroRow, IsMicroRow
  <2>5. \A f \in Fields : merged.values[f] \in {row.values[f], old.values[f]}
    BY DEF MergedMicroRow
  <2>6. "status" \in Fields /\ "hit" \in Fields
    BY DEF Fields
  <2> HIDE DEF merged
  <2>7. /\ merged.values.status \in {"absent", "clear", "near", "hit"}
        /\ merged.values.hit \in {"absent", "yes", "no"}
    BY <1>4, <2>1, <2>5, <2>6 DEF IsMicroRow
  <2>8. IsMicroRow(merged)
    BY <1>3, <2>2, <2>3, <2>4, <2>7 DEF IsMicroRow
  <2> QED BY <2>2, <2>8 DEF merged, old
<1>7. IsMicroRow(new) /\ new.at = AvailableAt(row)
  <2> HIDE DEF key
  <2> QED BY <1>5, <1>6
<1> HIDE DEF key, new
<1>8. LaterThanDay(key, new)
  BY <1>2, <1>3, <1>7 DEF LaterThanDay
<1>9. DOMAIN after = DOMAIN held \cup {key} /\ after = [k \in DOMAIN after |-> after[k]]
  OBVIOUS
<1>10. \A k \in DOMAIN after : IsMicroRow(after[k]) /\ LaterThanDay(k, after[k])
  <2>1. \A k \in DOMAIN held : IsMicroRow(held[k]) /\ LaterThanDay(k, held[k])
    BY DEF MicroStoreOK
  <2> TAKE k \in DOMAIN after
  <2>2. CASE k = key
    BY <1>7, <1>8, <2>2
  <2>3. CASE k # key
    <3>1. k \in DOMAIN held /\ after[k] = held[k]
      BY <2>3
    <3> HIDE DEF after
    <3> QED BY <2>1, <3>1
  <2> QED BY <2>2, <2>3
<1> HIDE DEF after
<1> QED BY <1>1, <1>9, <1>10 DEF MicroStoreOK, key

LEMMA MicroImported ==
  ASSUME NEW stored, MicroStoreOK(stored), NEW file \in MicroFiles
  PROVE  MicroStoreOK(FoldLeft(UpsertMicroRow, stored, file))
<1> DEFINE S == DOMAIN file
           last(s) == CHOOSE x \in s : \A y \in s : x >= y
           Run(iter) ==
             iter = [s \in SUBSET S |->
                       IF s = {} THEN stored
                       ELSE UpsertMicroRow(iter[s \ {last(s)}], file[last(s)])]
           run == CHOOSE iter : Run(iter)
           K == DOMAIN stored \cup {MicroKey(file[i]) : i \in S}
           V == {file[i].values[f] : i \in S, f \in Fields}
                  \cup {stored[k].values[f] : k \in DOMAIN stored, f \in Fields}
           Rows == [values : [Fields -> V], at : Nat, told : [Fields -> Nat]]
           R == {stored[k] : k \in DOMAIN stored} \cup {StoredMicroRow(file[i]) : i \in S}
                  \cup Rows
           T == {g \in UNION {[D -> R] : D \in SUBSET K} : MicroStoreOK(g)}
           pick == [s \in SUBSET S |-> last(s)]
           step == [p \in S \X T |-> UpsertMicroRow(p[2], file[p[1]])]
<1> HIDE DEF Rows
<1>17. /\ \A k \in DOMAIN stored : stored[k] \in R
       /\ \A i \in S : StoredMicroRow(file[i]) \in R
       /\ \A x \in Rows : x \in R
  BY Zenon
<1>18. ASSUME NEW x \in R
       PROVE  \/ \E k \in DOMAIN stored : x = stored[k]
              \/ \E i \in S : x = StoredMicroRow(file[i])
              \/ x \in Rows
  BY <1>18, Zenon
<1>19. /\ \A i \in S, f \in Fields : file[i].values[f] \in V
       /\ \A k \in DOMAIN stored, f \in Fields : stored[k].values[f] \in V
  <2>1. \A i \in S, f \in Fields : file[i].values[f] \in V
    <3> TAKE i \in S, f \in Fields
    <3> QED OBVIOUS
  <2>2. \A k \in DOMAIN stored, f \in Fields : stored[k].values[f] \in V
    <3> TAKE k \in DOMAIN stored, f \in Fields
    <3> QED OBVIOUS
  <2> QED BY <2>1, <2>2
<1> HIDE DEF R, V
<1>1. FoldLeft(UpsertMicroRow, stored, file) = run[S]
  BY DEF FoldLeft, MapThenFoldSet, Max
<1>2. /\ file \in Seq(Range(file)) /\ S = 1..Len(file) /\ Len(file) \in Nat
      /\ \A i \in S : file[i] \in Range(file)
  BY OfficialAssumption, LenProperties DEF Range
<1>3. IsFiniteSet(S)
  BY <1>2, FS_Interval
<1>4. ASSUME NEW s \in SUBSET S, s # {} PROVE last(s) \in s
  <2>1. s \in SUBSET (1..Len(file))
    BY <1>2
  <2> HIDE DEF S
  <2>2. PICK i \in s : \A j \in s : j <= i
    BY <1>2, <1>4, <2>1, LargestOf
  <2>3. \A j \in s : i >= j
    BY <1>2, <2>1, <2>2
  <2> QED BY <2>2, <2>3
<1>5. stored \in T
  <2>1. stored \in [DOMAIN stored -> R]
    <3> HIDE DEF S
    <3> QED BY <1>17 DEF MicroStoreOK
  <2>2. DOMAIN stored \in SUBSET K
    OBVIOUS
  <2> HIDE DEF K, R
  <2> QED BY <2>1, <2>2
<1>6. ASSUME NEW i \in S, NEW g \in T PROVE UpsertMicroRow(g, file[i]) \in T
  <2> DEFINE row == file[i]
             key == MicroKey(row)
             h == UpsertMicroRow(g, row)
  <2>1. MicroStoreOK(g) /\ DOMAIN g \in SUBSET K /\ \A k \in DOMAIN g : g[k] \in R
    <3> HIDE DEF K, R
    <3> QED OBVIOUS
  <2>2. MicroStoreOK(h) /\ DOMAIN h = DOMAIN g \cup {key}
    BY <1>2, <2>1, MicroUpserted
  <2>3. DOMAIN h \in SUBSET K
    <3>1. key \in K
      OBVIOUS
    <3> HIDE DEF h, K, key
    <3> QED BY <2>1, <2>2, <3>1
  <2>4. ASSUME key \in DOMAIN g PROVE MergedMicroRow(g[key], row) \in R
    <3> DEFINE old == g[key]
    <3>1. IsMicroRow(old) /\ old \in R
      BY <2>1, <2>4 DEF MicroStoreOK
    <3>2. \A f \in Fields : old.values[f] \in V
      <4> HIDE DEF old, S
      <4>1. CASE \E k \in DOMAIN stored : old = stored[k]
        BY <1>19, <4>1
      <4>2. CASE \E j \in S : old = StoredMicroRow(file[j])
        BY <1>19, <4>2 DEF StoredMicroRow
      <4>3. CASE old \in Rows
        BY <4>3 DEF Rows
      <4> QED BY <1>18, <3>1, <4>1, <4>2, <4>3
    <3>3. \A f \in Fields : row.values[f] \in V
      <4> HIDE DEF S
      <4> QED BY <1>19
    <3>4. AvailableAt(row) \in Nat
      BY <1>2, RowAvailable
    <3>5. MergedMicroRow(old, row) \in Rows
      <4> HIDE DEF old, row, S
      <4> QED BY <3>1, <3>2, <3>3, <3>4 DEF MergedMicroRow, IsMicroRow, Rows
    <3> QED BY <1>17, <3>5
  <2>5. \A k \in DOMAIN h : h[k] \in R
    <3>1. h = [k \in DOMAIN g \cup {key} |->
                 IF k = key THEN IF key \in DOMAIN g THEN MergedMicroRow(g[key], row)
                                 ELSE StoredMicroRow(row)
                 ELSE g[k]]
      BY DEF UpsertMicroRow, Keep
    <3>2. StoredMicroRow(row) \in R
      BY <1>17
    <3> HIDE DEF h, R, key, row
    <3> QED BY <2>1, <2>4, <3>1, <3>2
  <2> HIDE DEF h, K, R, S
  <2>6. h \in [DOMAIN h -> R]
    BY <2>2, <2>5 DEF MicroStoreOK
  <2>7. h \in T
    BY <2>2, <2>3, <2>6
  <2> QED BY <2>7 DEF h, row
<1>7. step \in [S \X T -> T]
  <2> HIDE DEF S, T
  <2>1. \A p \in S \X T : UpsertMicroRow(p[2], file[p[1]]) \in T
    BY <1>6
  <2> QED BY <2>1
<1>8. PICK iter \in [SUBSET S -> T] : Folds(iter, S, stored, pick, step)
  <2>1. \A s \in SUBSET S : s # {} => pick[s] \in s
    <3> HIDE DEF S, last
    <3> QED BY <1>4
  <2> HIDE DEF pick, step, S, T
  <2> QED BY <1>3, <1>5, <1>7, <2>1, FoldExists, Zenon
<1>9. ASSUME NEW s \in SUBSET S, s # {}
      PROVE  step[<<pick[s], iter[s \ {pick[s]}]>>]
               = UpsertMicroRow(iter[s \ {last(s)}], file[last(s)])
  <2>1. pick[s] = last(s) /\ last(s) \in S /\ s \ {last(s)} \in SUBSET S
    BY <1>4, <1>9
  <2>2. iter[s \ {last(s)}] \in T
    <3> HIDE DEF T, last, S
    <3> QED BY <2>1
  <2> HIDE DEF pick, last, S, T
  <2> QED BY <2>1, <2>2
<1>10. Run(iter)
  <2> HIDE DEF pick, last, step, S, T
  <2> QED BY <1>8, <1>9 DEF Folds
<1>11. Run(run)
  <2> HIDE DEF Run
  <2> QED BY <1>10
<1>12. /\ run[{}] = stored
       /\ \A s \in SUBSET S : s # {} =>
            run[s] = UpsertMicroRow(run[s \ {last(s)}], file[last(s)])
  <2> HIDE DEF run, last, S
  <2> QED BY <1>11
<1> DEFINE G == {s \in SUBSET S : run[s] \in T}
<1>13. {} \in G
  <2> HIDE DEF run, T, S
  <2> QED BY <1>5, <1>12
<1>14. ASSUME NEW s \in SUBSET S, s # {}, \A x \in s : s \ {x} \in G PROVE s \in G
  <2>1. last(s) \in s /\ last(s) \in S
    BY <1>4, <1>14
  <2>2. run[s \ {last(s)}] \in T
    <3> HIDE DEF run, T, S, last
    <3> QED BY <1>14, <2>1
  <2>3. run[s] = UpsertMicroRow(run[s \ {last(s)}], file[last(s)])
    <3> HIDE DEF run, S, last
    <3> QED BY <1>12, <1>14
  <2> HIDE DEF run, T, S, last
  <2>4. run[s] \in T
    BY <1>6, <2>1, <2>2, <2>3
  <2> QED BY <2>4
<1>15. G = SUBSET S
  <2>1. G \in SUBSET (SUBSET S)
    OBVIOUS
  <2> HIDE DEF G, S
  <2> QED BY <1>3, <1>13, <1>14, <2>1, SubsetInduction
<1>16. run[S] \in T
  <2> HIDE DEF run, T, S
  <2> QED BY <1>15
<1>20. MicroStoreOK(run[S])
  <2> HIDE DEF run, S, K, R
  <2> QED BY <1>16
<1> QED BY <1>1, <1>20

OfficialInv ==
  /\ IndexStoreOK(indexRows) /\ MicroStoreOK(microRows)
  /\ imports \in Seq({"stored", "refused"})
  /\ snapshots \in SnapshotSets

LEMMA OfficialStarts == ASSUME OfficialInit PROVE OfficialInv
<1>1. IndexStoreOK(<< >>) /\ MicroStoreOK(<< >>)
  <2>1. DOMAIN << >> = {} /\ << >> = [k \in {} |-> << >>[k]]
    OBVIOUS
  <2> QED BY <2>1 DEF IndexStoreOK, MicroStoreOK
<1>2. << >> \in Seq({"stored", "refused"})
  BY EmptySeq
<1> QED BY <1>1, <1>2 DEF OfficialInit, OfficialInv

LEMMA OfficialStep ==
  ASSUME OfficialInv, [OfficialNext]_officialVars
  PROVE  OfficialInv'
<1>1. ASSUME NEW outcome \in {"stored", "refused"}, Recorded(outcome)
      PROVE  imports' \in Seq({"stored", "refused"})
  BY <1>1, AppendProperties DEF Recorded, OfficialInv
<1>2. CASE UNCHANGED officialVars
  BY <1>2 DEF OfficialInv, officialVars
<1>3. CASE ImportIndices
  <2>1. PICK file \in IndexFiles :
          /\ indexRows' = FoldLeft(UpsertIndexRow, indexRows, file)
          /\ Recorded("stored") /\ UNCHANGED <<microRows, snapshots>>
    BY <1>3 DEF ImportIndices
  <2>2. IndexStoreOK(FoldLeft(UpsertIndexRow, indexRows, file))
    BY IndexImported, Zenon DEF OfficialInv
  <2>3. IndexStoreOK(indexRows')
    BY <2>1, <2>2, Zenon
  <2>4. imports' \in Seq({"stored", "refused"})
    BY <1>1, <2>1
  <2> QED BY <2>1, <2>3, <2>4 DEF OfficialInv
<1>4. CASE ImportMicrostructure
  <2>1. PICK file \in MicroFiles :
          /\ microRows' = FoldLeft(UpsertMicroRow, microRows, file)
          /\ Recorded("stored") /\ UNCHANGED <<indexRows, snapshots>>
    BY <1>4 DEF ImportMicrostructure
  <2>2. MicroStoreOK(FoldLeft(UpsertMicroRow, microRows, file))
    BY MicroImported, Zenon DEF OfficialInv
  <2>3. MicroStoreOK(microRows')
    BY <2>1, <2>2, Zenon
  <2>4. imports' \in Seq({"stored", "refused"})
    BY <1>1, <2>1
  <2> QED BY <2>1, <2>3, <2>4 DEF OfficialInv
<1>5. CASE RefuseFile
  <2>1. Recorded("refused") /\ UNCHANGED <<indexRows, microRows, snapshots>>
    BY <1>5 DEF RefuseFile
  <2> QED BY <1>1, <2>1 DEF OfficialInv
<1> QED BY <1>2, <1>3, <1>4, <1>5 DEF OfficialNext

(* Whatever files are imported in whatever order, the rows of the official  *)
(* data keep their types (db/repositories.py, upsert of index candles and   *)
(* microstructure rows).                                                    *)
THEOREM OfficialTyped == OfficialSpec => []OfficialTypeOK
<1>1. OfficialInv => OfficialTypeOK
  BY DEF OfficialInv, OfficialTypeOK, IndexStoreOK, MicroStoreOK
<1> QED BY <1>1, OfficialStarts, OfficialStep, PTL DEF OfficialSpec

(* When the files say truly when their rows became available, the official  *)
(* profile of a morning is a function of the rows of earlier days alone,    *)
(* for any files in any order (db/repositories.py, history_as_of;           *)
(* features/official_context.py).                                            *)
THEOREM TodayIsNotRead ==
  ASSUME AvailabilityIsPopulated
  PROVE  OfficialSpec => []OfficialScoreIgnoresToday
<1>1. OfficialInv => OfficialScoreIgnoresToday
  <2> SUFFICES ASSUME OfficialInv, NEW s \in Securities, NEW morning \in DecisionDays
               PROVE  OfficialScore(indexRows, microRows, s, morning)
                        = OfficialScore(BeforeDay(indexRows, morning),
                                        BeforeDay(microRows, morning), s, morning)
    BY Zenon DEF OfficialScoreIgnoresToday
  <2>1. morning \in Nat
    BY OfficialAssumption
  <2>2. \A k \in DOMAIN indexRows :
          k[2] \in Nat /\ indexRows[k].at \in Nat /\ indexRows[k].at > AsOfTime(k[2])
    BY DEF OfficialInv, IndexStoreOK, LaterThanDay, IndexRow
  <2>3. \A k \in DOMAIN microRows :
          k[2] \in Nat /\ microRows[k].at \in Nat /\ microRows[k].at > AsOfTime(k[2])
    BY DEF OfficialInv, MicroStoreOK, LaterThanDay, IsMicroRow
  <2> QED BY <2>1, <2>2, <2>3, ScoreStops, Zenon
<1> QED BY <1>1, OfficialStarts, OfficialStep, PTL DEF OfficialSpec

-----------------------------------------------------------------------------
(* The technical score: the better reading never scores lower.  Rounding,   *)
(* clamping, weighing, ranking and standardising keep the order of their    *)
(* readings; the variance they divide by is never negative, and its root    *)
(* is positive when it is.                                                   *)

LEMMA RoundedKeepsOrder ==
  ASSUME NEW m \in Int, NEW n \in Int, m <= n, NEW d \in Nat \ {0}
  PROVE  /\ RoundSigned(m, d) \in Int /\ RoundSigned(n, d) \in Int
         /\ RoundSigned(m, d) <= RoundSigned(n, d)
<1>1. Nearest(m, d, RoundSigned(m, d)) /\ Nearest(n, d, RoundSigned(n, d))
  BY SignedIsNearest
<1>2. m * d <= n * d
  BY TimesGrows
<1>3. RoundSigned(m, d) \in Int /\ RoundSigned(n, d) \in Int
  BY <1>1, Zenon DEF Nearest
<1>4. RoundSigned(m, d) <= RoundSigned(n, d)
  BY <1>1, <1>2, NearestMonotone, Zenon
<1> QED BY <1>3, <1>4

LEMMA HalvedKeepsOrder ==
  ASSUME NEW m \in Nat, NEW n \in Nat, m <= n, NEW d \in Nat \ {0}
  PROVE  /\ RoundHalfEven(m, d) \in Nat /\ RoundHalfEven(n, d) \in Nat
         /\ RoundHalfEven(m, d) <= RoundHalfEven(n, d)
<1>1. /\ Nearest(m, d, RoundHalfEven(m, d)) /\ RoundHalfEven(m, d) \in Nat
      /\ Nearest(n, d, RoundHalfEven(n, d)) /\ RoundHalfEven(n, d) \in Nat
  BY HalfEvenIsNearest
<1>2. m * d <= n * d /\ m \in Int /\ n \in Int
  BY TimesGrows
<1>3. RoundHalfEven(m, d) <= RoundHalfEven(n, d)
  BY <1>1, <1>2, NearestMonotone, Zenon
<1> QED BY <1>1, <1>3

LEMMA BoundedKeepsOrder ==
  ASSUME NEW m \in Int, NEW n \in Int, m <= n
  PROVE  Bounded(m) \in Int /\ Bounded(n) \in Int /\ Bounded(m) <= Bounded(n)
BY DEF Bounded, Unit

LEMMA WeightedKeepsOrder ==
  ASSUME NEW m \in Int, NEW n \in Int, m <= n, NEW percent \in Nat
  PROVE  /\ Weighted(m, percent) \in Int /\ Weighted(n, percent) \in Int
         /\ Weighted(m, percent) <= Weighted(n, percent)
<1>1. m * percent \in Int /\ n * percent \in Int /\ m * percent <= n * percent
  BY TimesGrows
<1>2. 100 \in Nat \ {0}
  OBVIOUS
<1> HIDE <1>1
<1> QED BY <1>1, <1>2, RoundedKeepsOrder DEF Weighted

-----------------------------------------------------------------------------
LEMMA PercentileKeepsOrder ==
  ASSUME NEW vs, IsFiniteSet(DOMAIN vs), \A x \in DOMAIN vs : vs[x] \in Int,
         NEW s \in DOMAIN vs, NEW t \in DOMAIN vs, vs[t] <= vs[s]
  PROVE  /\ Percentile(vs, t) \in Int /\ Percentile(vs, s) \in Int
         /\ Percentile(vs, t) <= Percentile(vs, s)
<1> DEFINE D == DOMAIN vs
           n == Cardinality(D)
           above(x) == {y \in D : vs[y] > vs[x]}
           level(x) == {y \in D : vs[y] = vs[x]}
           a(x) == Cardinality(above(x))
           e(x) == Cardinality(level(x))
           count(x) == 2 * a(x) + e(x) - 1
<1>1. n \in Nat \ {0}
  BY FS_CardinalityType, FS_EmptySet
<1>2. ASSUME NEW x \in D
      PROVE  /\ IsFiniteSet(above(x)) /\ IsFiniteSet(level(x))
             /\ a(x) \in Nat /\ e(x) \in Nat \ {0}
  <2>1. above(x) \in SUBSET D /\ level(x) \in SUBSET D /\ x \in level(x)
    OBVIOUS
  <2>0. IsFiniteSet(D)
    OBVIOUS
  <2> HIDE DEF D, above, level
  <2>2. IsFiniteSet(above(x)) /\ IsFiniteSet(level(x))
    BY <2>0, <2>1, FS_Subset
  <2>3. a(x) \in Nat /\ e(x) \in Nat
    BY <2>2, FS_CardinalityType
  <2>4. e(x) # 0
    BY <2>1, <2>2, FS_EmptySet
  <2> QED BY <2>2, <2>3, <2>4
<1>3. count(s) \in Nat /\ count(t) \in Nat /\ count(s) <= count(t)
  <2>1. CASE vs[s] = vs[t]
    <3>1. above(s) = above(t) /\ level(s) = level(t)
      BY <2>1
    <3>2. count(s) = count(t)
      BY <3>1
    <3>3. s \in D /\ t \in D
      OBVIOUS
    <3> HIDE DEF D, above, level
    <3>4. a(t) \in Nat /\ e(t) \in Nat \ {0}
      BY <1>2, <3>3
    <3>5. count(t) \in Nat
      BY <3>4
    <3> HIDE DEF count
    <3> QED BY <3>2, <3>5
  <2>2. CASE vs[s] # vs[t]
    <3>1. above(s) \cup level(s) \subseteq above(t) /\ above(s) \cap level(s) = {}
      BY <2>2
    <3>2. s \in D /\ t \in D
      OBVIOUS
    <3> HIDE DEF D, above, level
    <3>3. /\ IsFiniteSet(above(s)) /\ IsFiniteSet(level(s)) /\ IsFiniteSet(above(t))
          /\ a(s) \in Nat /\ e(s) \in Nat \ {0} /\ a(t) \in Nat /\ e(t) \in Nat \ {0}
      BY <1>2, <3>2
    <3>4. Cardinality(above(s) \cup level(s)) = a(s) + e(s)
      BY <3>1, <3>3, FS_Union, FS_EmptySet
    <3>5. Cardinality(above(s) \cup level(s)) <= a(t)
      BY <3>1, <3>3, FS_Subset
    <3> HIDE DEF a, e
    <3> QED BY <3>3, <3>4, <3>5
  <2> QED BY <2>1, <2>2
<1>4. CASE n = 1
  BY <1>4 DEF Percentile, Unit
<1>5. CASE n # 1
  <2> DEFINE d == 2 * (n - 1)
             p(x) == RoundHalfEven(Unit * count(x), d)
  <2>1. Percentile(vs, s) = Unit - p(s) /\ Percentile(vs, t) = Unit - p(t)
    BY <1>5 DEF Percentile
  <2> HIDE DEF count, n
  <2>2. d \in Nat \ {0}
    BY <1>1, <1>5
  <2>3. Unit * count(s) \in Nat /\ Unit * count(t) \in Nat /\ Unit * count(s) <= Unit * count(t)
    BY <1>3 DEF Unit
  <2> HIDE DEF d
  <2>4. p(s) \in Nat /\ p(t) \in Nat /\ p(s) <= p(t)
    BY <2>2, <2>3, HalvedKeepsOrder
  <2> HIDE DEF p
  <2> QED BY <2>1, <2>4 DEF Unit
<1> QED BY <1>4, <1>5

-----------------------------------------------------------------------------
LEMMA RootExists ==
  ASSUME NEW n \in Nat
  PROVE  Root(n) \in Nat /\ (n > 0 => Root(n) > 0)
<1> DEFINE B == {r \in 0..n : r * r <= n}
<1>1. \E r \in B : \A q \in B : q <= r
  <2>1. 0 \in B /\ B \in SUBSET (0..n)
    OBVIOUS
  <2>2. B \in SUBSET Nat /\ IsFiniteSet(B) /\ B # {}
    <3> HIDE DEF B
    <3>1. IsFiniteSet(0..n)
      BY FS_Interval
    <3>2. IsFiniteSet(B)
      BY <2>1, <3>1, FS_Subset, Zenon
    <3>3. \A r \in 0..n : r \in Nat
      OBVIOUS
    <3>4. B \in SUBSET Nat /\ B # {}
      BY <2>1, <3>3, Zenon
    <3> QED BY <3>2, <3>4
  <2> HIDE DEF B
  <2>3. \E r \in B : \A q \in B : q <= r
    <3>1. \A x \in B : [y \in B |-> y][x] \in Int
      BY <2>2
    <3>2. \E x \in B : \A y \in B : [z \in B |-> z][y] <= [z \in B |-> z][x]
      BY <2>2, <3>1, GreatestOfFinite
    <3> QED BY <3>2
  <2> QED BY <2>3
<1>2. PICK r \in B : \A q \in B : q <= r
  BY <1>1
<1>3. r \in 0..n /\ r * r <= n
  OBVIOUS
<1>4. n < (r + 1) * (r + 1)
  <2>1. CASE r = n
    <3>1. (n + 1) * (n + 1) = n * n + 2 * n + 1
      OBVIOUS
    <3>2. n * n >= 0
      OBVIOUS
    <3> QED BY <2>1, <3>1, <3>2
  <2>2. CASE r # n
    <3>1. r + 1 \in 0..n /\ r + 1 \notin B
      BY <1>2, <1>3, <2>2
    <3>2. ~((r + 1) * (r + 1) <= n)
      BY <3>1
    <3>3. (r + 1) * (r + 1) \in Int
      BY <1>3
    <3> QED BY <3>2, <3>3
  <2> QED BY <2>1, <2>2
<1>5. Root(n) \in 0..n /\ Root(n) * Root(n) <= n /\ n < (Root(n) + 1) * (Root(n) + 1)
  BY <1>3, <1>4 DEF Root
<1>6. n > 0 => Root(n) # 0
  BY <1>5
<1> QED BY <1>5, <1>6

(* The sum of squared distances from the mean, times what keeps it whole:    *)
(* n * (n * q - sum * sum) is a sum of squares.                              *)
LEMMA SpreadIsNatural ==
  ASSUME NEW vs, IsFiniteSet(DOMAIN vs), \A x \in DOMAIN vs : vs[x] \in Int, DOMAIN vs # {}
  PROVE  LET D == DOMAIN vs
             n == Cardinality(D)
             sum == SumOver(vs, D)
         IN  /\ n \in Nat \ {0} /\ sum \in Int
             /\ n * SumOver([x \in D |-> vs[x] * vs[x]], D) - sum * sum \in Nat
<1> DEFINE D == DOMAIN vs
           n == Cardinality(D)
           sum == SumOver(vs, D)
           sq == [x \in D |-> vs[x] * vs[x]]
           q == SumOver(sq, D)
           a == [x \in D |-> (n * n) * sq[x]]
           b == [x \in D |-> (0 - 2 * n * sum) * vs[x]]
           c == [x \in D |-> sum * sum]
           ab == [x \in D |-> a[x] + b[x]]
           dev == [x \in D |-> ab[x] + c[x]]
<1>0. IsFiniteSet(D)
  OBVIOUS
<1>1. n \in Nat \ {0}
  BY FS_CardinalityType, FS_EmptySet
<1>2. sum \in Int
  BY SumFacts
<1>3. \A x \in D : vs[x] \in Int /\ sq[x] \in Int /\ sq[x] = vs[x] * vs[x]
  OBVIOUS
<1> HIDE DEF n, sum, D
<1>4. q \in Int
  <2> HIDE DEF sq
  <2> QED BY <1>0, <1>3, SumFacts
<1>5. n * n \in Int /\ 0 - 2 * n * sum \in Int /\ sum * sum \in Int
  BY <1>1, <1>2
<1>6. SumOver(a, D) = (n * n) * q /\ \A x \in D : a[x] \in Int
  <2> DEFINE w == n * n
  <2>1. \A x \in D : a[x] = w * sq[x]
    BY Zenon
  <2>2. w \in Int
    BY <1>5
  <2> HIDE DEF w, sq, a
  <2>3. SumOver(a, D) = w * q
    BY <1>0, <1>3, <2>1, <2>2, SumScaled
  <2>4. \A x \in D : a[x] \in Int
    BY <1>3, <2>1, <2>2
  <2> QED BY <2>3, <2>4 DEF w
<1>7. SumOver(b, D) = (0 - 2 * n * sum) * sum /\ \A x \in D : b[x] \in Int
  <2> DEFINE w == 0 - 2 * n * sum
  <2>1. \A x \in D : b[x] = w * vs[x]
    BY Zenon
  <2>2. w \in Int
    BY <1>5
  <2> HIDE DEF w, b
  <2>3. SumOver(b, D) = w * SumOver(vs, D)
    BY <1>0, <1>3, <2>1, <2>2, SumScaled
  <2>4. \A x \in D : b[x] \in Int
    BY <1>3, <2>1, <2>2
  <2> QED BY <2>3, <2>4 DEF w, sum
<1>8. SumOver(c, D) = (sum * sum) * n /\ \A x \in D : c[x] \in Int
  <2> DEFINE w == sum * sum
  <2>1. \A x \in D : c[x] = w
    BY Zenon
  <2>2. w \in Int
    BY <1>5
  <2> HIDE DEF w, c
  <2>3. SumOver(c, D) = w * n
    BY <1>0, <2>1, <2>2, SumConstant DEF n
  <2> QED BY <2>1, <2>2, <2>3 DEF w
<1>9. \A x \in D : ab[x] = a[x] + b[x] /\ dev[x] = ab[x] + c[x]
  BY Zenon
<1>10. \A x \in D : dev[x] \in Nat
  <2> TAKE x \in D
  <2> DEFINE v == vs[x]
             m == n * v - sum
  <2>1. dev[x] = ((n * n) * (v * v) + (0 - 2 * n * sum) * v) + sum * sum
    BY Zenon
  <2>2. v \in Int
    BY <1>3
  <2> HIDE DEF v, dev
  <2>3. dev[x] = m * m /\ m \in Int
    BY <1>1, <1>2, <2>1, <2>2
  <2> HIDE DEF m
  <2>4. m * m >= 0 /\ m * m \in Int
    BY <2>3
  <2> QED BY <2>3, <2>4
<1> HIDE DEF a, b, c, ab, dev, sq, q
<1>11. SumOver(ab, D) = SumOver(a, D) + SumOver(b, D) /\ \A x \in D : ab[x] \in Int
  <2>1. \A x \in D : ab[x] \in Int
    BY <1>6, <1>7, <1>9
  <2>2. SumOver(ab, D) = SumOver(a, D) + SumOver(b, D)
    BY <1>0, <1>6, <1>7, <1>9, SumAdds
  <2> QED BY <2>1, <2>2
<1>12. SumOver(dev, D) = SumOver(ab, D) + SumOver(c, D)
  BY <1>0, <1>8, <1>9, <1>11, SumAdds
<1>13. SumOver(dev, D) \in Nat
  BY <1>0, <1>10, SumNatural
<1> DEFINE spread == n * q - sum * sum
<1>14. spread \in Int
  BY <1>1, <1>4, <1>5
<1>15. SumOver(dev, D) = n * spread
  <2>1. SumOver(dev, D) = ((n * n) * q + (0 - 2 * n * sum) * sum) + (sum * sum) * n
    BY <1>6, <1>7, <1>8, <1>11, <1>12
  <2> QED BY <1>1, <1>2, <1>4, <2>1
<1>16. spread \in Nat
  <2> HIDE DEF spread
  <2>1. n * 0 <= n * spread
    BY <1>1, <1>13, <1>14, <1>15
  <2>2. 0 <= spread
    BY <1>1, <1>14, <2>1, FactorCancels
  <2> QED BY <1>14, <2>2
<1> QED BY <1>1, <1>2, <1>16 DEF D, n, sum, sq, q

LEMMA ZScoreKeepsOrder ==
  ASSUME NEW vs, IsFiniteSet(DOMAIN vs), \A x \in DOMAIN vs : vs[x] \in Int,
         NEW s \in DOMAIN vs, NEW t \in DOMAIN vs, vs[t] <= vs[s]
  PROVE  /\ ZScore(vs, t) \in Int /\ ZScore(vs, s) \in Int
         /\ ZScore(vs, t) <= ZScore(vs, s)
<1> DEFINE D == DOMAIN vs
           n == Cardinality(D)
           sum == SumOver(vs, D)
           spread == n * SumOver([x \in D |-> vs[x] * vs[x]], D) - sum * sum
           far(x) == (n * vs[x] - sum) * Unit * 10
           root == Root(100 * spread)
<1>1. n \in Nat \ {0} /\ sum \in Int /\ spread \in Nat
  BY SpreadIsNatural
<1>2. \A x \in {s, t} : ZScore(vs, x) = IF spread = 0 THEN 0 ELSE RoundSigned(far(x), root)
  BY DEF ZScore
<1> HIDE DEF spread
<1>3. CASE spread = 0
  BY <1>2, <1>3
<1>4. CASE spread # 0
  <2>1. root \in Nat \ {0}
    <3>1. 100 * spread \in Nat /\ 100 * spread > 0
      BY <1>1, <1>4
    <3> DEFINE m == 100 * spread
    <3> HIDE DEF m
    <3>2. m \in Nat /\ m > 0
      BY <3>1 DEF m
    <3>3. Root(m) \in Nat /\ Root(m) > 0
      BY <3>2, RootExists
    <3> QED BY <3>3 DEF m
  <2>2. far(t) \in Int /\ far(s) \in Int /\ far(t) <= far(s)
    <3> HIDE DEF n, sum
    <3>1. vs[t] \in Int /\ vs[s] \in Int
      OBVIOUS
    <3>2. n * vs[t] \in Int /\ n * vs[s] \in Int /\ n * vs[t] <= n * vs[s]
      BY <1>1, <3>1
    <3> QED BY <1>1, <3>2 DEF Unit
  <2> HIDE DEF far, root
  <2>3. /\ RoundSigned(far(t), root) \in Int /\ RoundSigned(far(s), root) \in Int
        /\ RoundSigned(far(t), root) <= RoundSigned(far(s), root)
    BY <2>1, <2>2, RoundedKeepsOrder
  <2> QED BY <1>2, <1>4, <2>3
<1> QED BY <1>3, <1>4

LEMMA ContextKeepsOrder ==
  ASSUME NEW vs, IsFiniteSet(DOMAIN vs), \A x \in DOMAIN vs : vs[x] \in Int,
         NEW s \in DOMAIN vs, NEW t \in DOMAIN vs, vs[t] <= vs[s]
  PROVE  /\ ContextScore(vs, t) \in Int /\ ContextScore(vs, s) \in Int
         /\ ContextScore(vs, t) <= ContextScore(vs, s)
<1> DEFINE half(x) == RoundSigned(ZScore(vs, x), 2)
           far(x) == Weighted(Bounded(half(x)), 60)
           place(x) == 2 * Percentile(vs, x) - Unit
           rank(x) == Weighted(place(x), 40)
<1>1. ZScore(vs, t) \in Int /\ ZScore(vs, s) \in Int /\ ZScore(vs, t) <= ZScore(vs, s)
  BY ZScoreKeepsOrder
<1>2. half(t) \in Int /\ half(s) \in Int /\ half(t) <= half(s)
  <2>1. 2 \in Nat \ {0}
    OBVIOUS
  <2> QED BY <1>1, <2>1, RoundedKeepsOrder
<1>3. far(t) \in Int /\ far(s) \in Int /\ far(t) <= far(s)
  <2> HIDE DEF half
  <2>1. /\ Bounded(half(t)) \in Int /\ Bounded(half(s)) \in Int
        /\ Bounded(half(t)) <= Bounded(half(s))
    BY <1>2, BoundedKeepsOrder
  <2> QED BY <2>1, WeightedKeepsOrder
<1>4. /\ Percentile(vs, t) \in Int /\ Percentile(vs, s) \in Int
      /\ Percentile(vs, t) <= Percentile(vs, s)
  BY PercentileKeepsOrder
<1>5. place(t) \in Int /\ place(s) \in Int /\ place(t) <= place(s)
  BY <1>4 DEF Unit
<1>6. rank(t) \in Int /\ rank(s) \in Int /\ rank(t) <= rank(s)
  <2> HIDE DEF place
  <2> QED BY <1>5, WeightedKeepsOrder
<1>7. \A x : ContextScore(vs, x) = Bounded(far(x) + rank(x))
  BY DEF ContextScore
<1> HIDE DEF far, rank
<1>8. /\ far(t) + rank(t) \in Int /\ far(s) + rank(s) \in Int
      /\ far(t) + rank(t) <= far(s) + rank(s)
  BY <1>3, <1>6
<1>9. /\ Bounded(far(t) + rank(t)) \in Int /\ Bounded(far(s) + rank(s)) \in Int
      /\ Bounded(far(t) + rank(t)) <= Bounded(far(s) + rank(s))
  BY <1>8, BoundedKeepsOrder
<1> QED BY <1>7, <1>9

Reading == [days : Nat, alpha : Int, risk : Int, tradability : Int, stretch : Int]

(* A feature of a family: weights that are not negative, and a form that    *)
(* falls with the reading in the family of risk and rises in the others.     *)
Falling == {"lower", "extension"}
Rising == {"scaled", "from_high", "ignored"}
FeatureRow(forms) ==
  [needs : Nat, long : Nat, short : Nat, form : forms, ranked : BOOLEAN]

LEMMA AlphaRows ==
  /\ IsFiniteSet(DOMAIN AlphaFeatures)
  /\ \A f \in DOMAIN AlphaFeatures : AlphaFeatures[f] \in FeatureRow(Rising)
<1> DEFINE names == <<"return_20d", "return_63d", "return_126d", "return_252d",
                      "vol_adjusted_return_63d", "vol_adjusted_return_126d",
                      "vol_adjusted_return_252d", "macd_histogram_12_26_9",
                      "ema_spread_12_26", "adx_directional_strength_14",
                      "breakout_high_distance_20d", "breakout_high_distance_50d",
                      "distance_from_52w_high", "rsi_14">>
           forms == Rising
<1>1. names \in Seq(DOMAIN AlphaFeatures) /\ Len(names) = 14
  BY DEF AlphaFeatures
<1>2. \A f \in DOMAIN AlphaFeatures : \E i \in 1..14 : names[i] = f
  BY DEF AlphaFeatures
<1>3. \A f \in DOMAIN AlphaFeatures : AlphaFeatures[f] \in FeatureRow(forms)
  <2>1. "scaled" \in forms /\ "from_high" \in forms /\ "ignored" \in forms
    BY DEF Falling, Rising
  <2> HIDE DEF forms
  <2>2. /\ AlphaFeatures["return_20d"] = Feature(21, 0, 18, "scaled", TRUE)
       /\ AlphaFeatures["return_63d"] = Feature(64, 10, 14, "scaled", TRUE)
       /\ AlphaFeatures["return_126d"] = Feature(127, 11, 0, "scaled", TRUE)
       /\ AlphaFeatures["return_252d"] = Feature(253, 8, 0, "scaled", TRUE)
       /\ AlphaFeatures["vol_adjusted_return_63d"] = Feature(64, 0, 16, "scaled", TRUE)
       /\ AlphaFeatures["vol_adjusted_return_126d"] = Feature(127, 16, 0, "scaled", TRUE)
       /\ AlphaFeatures["vol_adjusted_return_252d"] = Feature(253, 14, 0, "scaled", TRUE)
       /\ AlphaFeatures["macd_histogram_12_26_9"] = Feature(34, 9, 13, "scaled", TRUE)
       /\ AlphaFeatures["ema_spread_12_26"] = Feature(26, 8, 12, "scaled", FALSE)
       /\ AlphaFeatures["adx_directional_strength_14"] = Feature(28, 8, 0, "scaled", FALSE)
       /\ AlphaFeatures["breakout_high_distance_20d"] = Feature(21, 0, 10, "scaled", TRUE)
       /\ AlphaFeatures["breakout_high_distance_50d"] = Feature(51, 6, 7, "scaled", TRUE)
       /\ AlphaFeatures["distance_from_52w_high"] = Feature(252, 5, 0, "from_high", TRUE)
       /\ AlphaFeatures["rsi_14"] = Feature(15, 5, 10, "scaled", TRUE)
    BY DEF AlphaFeatures
  <2>3. /\ AlphaFeatures["return_20d"] \in FeatureRow(forms)
       /\ AlphaFeatures["return_63d"] \in FeatureRow(forms)
       /\ AlphaFeatures["return_126d"] \in FeatureRow(forms)
       /\ AlphaFeatures["return_252d"] \in FeatureRow(forms)
       /\ AlphaFeatures["vol_adjusted_return_63d"] \in FeatureRow(forms)
       /\ AlphaFeatures["vol_adjusted_return_126d"] \in FeatureRow(forms)
       /\ AlphaFeatures["vol_adjusted_return_252d"] \in FeatureRow(forms)
       /\ AlphaFeatures["macd_histogram_12_26_9"] \in FeatureRow(forms)
       /\ AlphaFeatures["ema_spread_12_26"] \in FeatureRow(forms)
       /\ AlphaFeatures["adx_directional_strength_14"] \in FeatureRow(forms)
       /\ AlphaFeatures["breakout_high_distance_20d"] \in FeatureRow(forms)
       /\ AlphaFeatures["breakout_high_distance_50d"] \in FeatureRow(forms)
       /\ AlphaFeatures["distance_from_52w_high"] \in FeatureRow(forms)
       /\ AlphaFeatures["rsi_14"] \in FeatureRow(forms)
    BY <2>1, <2>2 DEF Feature, FeatureRow
  <2>4. DOMAIN AlphaFeatures =
         {"return_20d", "return_63d", "return_126d", "return_252d",
         "vol_adjusted_return_63d", "vol_adjusted_return_126d",
         "vol_adjusted_return_252d", "macd_histogram_12_26_9", "ema_spread_12_26",
         "adx_directional_strength_14", "breakout_high_distance_20d",
         "breakout_high_distance_50d", "distance_from_52w_high", "rsi_14"}
    BY DEF AlphaFeatures
  <2> QED BY <2>3, <2>4, Zenon
<1> QED BY <1>1, <1>2, <1>3 DEF IsFiniteSet

LEMMA RiskRows ==
  /\ IsFiniteSet(DOMAIN RiskFeatures)
  /\ \A f \in DOMAIN RiskFeatures : RiskFeatures[f] \in FeatureRow(Falling)
<1> DEFINE names == <<"atr_percent_14", "volatility_20", "volatility_63",
                      "volatility_126", "volatility_252", "bollinger_bandwidth_20",
                      "minus_di_14", "bollinger_percent_b_extension",
                      "return_20d_instability">>
           forms == Falling
<1>1. names \in Seq(DOMAIN RiskFeatures) /\ Len(names) = 9
  BY DEF RiskFeatures
<1>2. \A f \in DOMAIN RiskFeatures : \E i \in 1..9 : names[i] = f
  BY DEF RiskFeatures
<1>3. \A f \in DOMAIN RiskFeatures : RiskFeatures[f] \in FeatureRow(forms)
  <2>1. "lower" \in forms /\ "extension" \in forms
    BY DEF Falling, Rising
  <2> HIDE DEF forms
  <2>2. /\ RiskFeatures["atr_percent_14"] = Feature(14, 18, 50, "lower", TRUE)
       /\ RiskFeatures["volatility_20"] = Feature(21, 16, 50, "lower", TRUE)
       /\ RiskFeatures["volatility_63"] = Feature(64, 14, 0, "lower", TRUE)
       /\ RiskFeatures["volatility_126"] = Feature(127, 10, 0, "lower", TRUE)
       /\ RiskFeatures["volatility_252"] = Feature(253, 8, 0, "lower", TRUE)
       /\ RiskFeatures["bollinger_bandwidth_20"] = Feature(20, 10, 0, "lower", TRUE)
       /\ RiskFeatures["minus_di_14"] = Feature(15, 8, 0, "lower", TRUE)
       /\ RiskFeatures["bollinger_percent_b_extension"] = Feature(20, 8, 0, "extension", FALSE)
       /\ RiskFeatures["return_20d_instability"] = Feature(21, 8, 0, "extension", FALSE)
    BY DEF RiskFeatures
  <2>3. /\ RiskFeatures["atr_percent_14"] \in FeatureRow(forms)
       /\ RiskFeatures["volatility_20"] \in FeatureRow(forms)
       /\ RiskFeatures["volatility_63"] \in FeatureRow(forms)
       /\ RiskFeatures["volatility_126"] \in FeatureRow(forms)
       /\ RiskFeatures["volatility_252"] \in FeatureRow(forms)
       /\ RiskFeatures["bollinger_bandwidth_20"] \in FeatureRow(forms)
       /\ RiskFeatures["minus_di_14"] \in FeatureRow(forms)
       /\ RiskFeatures["bollinger_percent_b_extension"] \in FeatureRow(forms)
       /\ RiskFeatures["return_20d_instability"] \in FeatureRow(forms)
    BY <2>1, <2>2 DEF Feature, FeatureRow
  <2>4. DOMAIN RiskFeatures =
         {"atr_percent_14", "volatility_20", "volatility_63", "volatility_126",
         "volatility_252", "bollinger_bandwidth_20", "minus_di_14",
         "bollinger_percent_b_extension", "return_20d_instability"}
    BY DEF RiskFeatures
  <2> QED BY <2>3, <2>4, Zenon
<1> QED BY <1>1, <1>2, <1>3 DEF IsFiniteSet

LEMMA TradabilityRows ==
  /\ IsFiniteSet(DOMAIN TradabilityFeatures)
  /\ \A f \in DOMAIN TradabilityFeatures : TradabilityFeatures[f] \in FeatureRow(Rising)
<1> DEFINE names == <<"turnover", "avg_traded_value_20", "avg_traded_value_63",
                      "turnover_z_score_20", "volume_z_score_20">>
           forms == Rising
<1>1. names \in Seq(DOMAIN TradabilityFeatures) /\ Len(names) = 5
  BY DEF TradabilityFeatures
<1>2. \A f \in DOMAIN TradabilityFeatures : \E i \in 1..5 : names[i] = f
  BY DEF TradabilityFeatures
<1>3. \A f \in DOMAIN TradabilityFeatures : TradabilityFeatures[f] \in FeatureRow(forms)
  <2>1. "scaled" \in forms /\ "from_high" \in forms /\ "ignored" \in forms
    BY DEF Falling, Rising
  <2> HIDE DEF forms
  <2>2. /\ TradabilityFeatures["turnover"] = Feature(1, 24, 15, "ignored", TRUE)
       /\ TradabilityFeatures["avg_traded_value_20"] = Feature(20, 24, 25, "ignored", TRUE)
       /\ TradabilityFeatures["avg_traded_value_63"] = Feature(63, 20, 15, "ignored", TRUE)
       /\ TradabilityFeatures["turnover_z_score_20"] = Feature(21, 17, 20, "scaled", TRUE)
       /\ TradabilityFeatures["volume_z_score_20"] = Feature(21, 15, 25, "scaled", TRUE)
    BY DEF TradabilityFeatures
  <2>3. /\ TradabilityFeatures["turnover"] \in FeatureRow(forms)
       /\ TradabilityFeatures["avg_traded_value_20"] \in FeatureRow(forms)
       /\ TradabilityFeatures["avg_traded_value_63"] \in FeatureRow(forms)
       /\ TradabilityFeatures["turnover_z_score_20"] \in FeatureRow(forms)
       /\ TradabilityFeatures["volume_z_score_20"] \in FeatureRow(forms)
    BY <2>1, <2>2 DEF Feature, FeatureRow
  <2>4. DOMAIN TradabilityFeatures =
         {"turnover", "avg_traded_value_20", "avg_traded_value_63",
         "turnover_z_score_20", "volume_z_score_20"}
    BY DEF TradabilityFeatures
  <2> QED BY <2>3, <2>4, Zenon
<1> QED BY <1>1, <1>2, <1>3 DEF IsFiniteSet


LEMMA FamilyRows ==
  ASSUME NEW family \in DOMAIN Families
  PROVE  /\ family \in {"alpha", "risk", "tradability"}
         /\ IsFiniteSet(DOMAIN Families[family])
         /\ \A f \in DOMAIN Families[family] :
              Families[family][f] \in FeatureRow(IF family = "risk" THEN Falling ELSE Rising)
<1>1. family \in {"alpha", "risk", "tradability"}
  BY DEF Families
<1>2. CASE family = "alpha"
  <2>1. Families[family] = AlphaFeatures
    BY <1>2 DEF Families
  <2> QED BY <1>1, <1>2, <2>1, AlphaRows DEF Rising
<1>3. CASE family = "risk"
  <2>1. Families[family] = RiskFeatures
    BY <1>3 DEF Families
  <2> QED BY <1>1, <1>3, <2>1, RiskRows DEF Falling
<1>4. CASE family = "tradability"
  <2>1. Families[family] = TradabilityFeatures
    BY <1>4 DEF Families
  <2> QED BY <1>1, <1>4, <2>1, TradabilityRows DEF Rising
<1> QED BY <1>1, <1>2, <1>3, <1>4

(* A reading that is no worse gives a raw score that is no lower.           *)
LEMMA RisingScore ==
  ASSUME NEW form \in Rising, NEW v \in Int, NEW w \in Int, w <= v
  PROVE  /\ RawScore(form, w) \in Int /\ RawScore(form, v) \in Int
         /\ RawScore(form, w) <= RawScore(form, v)
<1>1. CASE form = "scaled"
  <2>1. RawScore(form, w) = Bounded(1000 * w) /\ RawScore(form, v) = Bounded(1000 * v)
    BY <1>1 DEF RawScore
  <2>2. 1000 * w \in Int /\ 1000 * v \in Int /\ 1000 * w <= 1000 * v
    OBVIOUS
  <2> QED BY <2>1, <2>2, BoundedKeepsOrder
<1>2. CASE form = "from_high"
  <2>1. RawScore(form, w) = Bounded(Unit + 1000 * w) /\ RawScore(form, v) = Bounded(Unit + 1000 * v)
    BY <1>2 DEF RawScore
  <2>2. Unit + 1000 * w \in Int /\ Unit + 1000 * v \in Int /\ Unit + 1000 * w <= Unit + 1000 * v
    BY DEF Unit
  <2> QED BY <2>1, <2>2, BoundedKeepsOrder
<1>3. CASE form = "ignored"
  BY <1>3 DEF RawScore
<1> QED BY <1>1, <1>2, <1>3 DEF Rising

LEMMA FallingScore ==
  ASSUME NEW form \in Falling, NEW v \in Int, NEW w \in Int, v <= w
  PROVE  /\ RawScore(form, w) \in Int /\ RawScore(form, v) \in Int
         /\ RawScore(form, w) <= RawScore(form, v)
<1>1. RawScore(form, w) = Bounded(Unit - 2000 * w) /\ RawScore(form, v) = Bounded(Unit - 2000 * v)
  BY DEF RawScore, Falling
<1>2. Unit - 2000 * w \in Int /\ Unit - 2000 * v \in Int /\ Unit - 2000 * w <= Unit - 2000 * v
  BY DEF Unit
<1> QED BY <1>1, <1>2, BoundedKeepsOrder

(* A security of a set of snapshots reads no worse than another in a family. *)
ReadsNoWorse(set, s, t, family) ==
  /\ IF family = "risk" THEN set[s].risk <= set[t].risk ELSE set[s][family] >= set[t][family]
  /\ set[s].stretch <= set[t].stretch

LEMMA FeatureKeepsOrder ==
  ASSUME NEW S, IsFiniteSet(S), NEW set \in [S -> Reading], NEW s \in S, NEW t \in S,
         NEW family \in DOMAIN Families, NEW f \in DOMAIN Families[family],
         ReadsNoWorse(set, s, t, family), NEW inUniverse \in BOOLEAN,
         Families[family][f].needs <= set[s].days, Families[family][f].needs <= set[t].days
  PROVE  LET score(x) == FeatureScore(family, Families[family][f], set, x, inUniverse)
         IN  score(t) \in Int /\ score(s) \in Int /\ score(t) <= score(s)
<1> DEFINE feature == Families[family][f]
           forms == IF family = "risk" THEN Falling ELSE Rising
           theme == ThemeOf(family, feature)
           U == {u \in S : feature.needs <= set[u].days}
           vs == UniverseReadings(family, feature, set)
           score(x) == FeatureScore(family, feature, set, x, inUniverse)
<1>1. feature \in FeatureRow(forms) /\ family \in {"alpha", "risk", "tradability"}
  BY FamilyRows
<1> HIDE DEF feature
<1>2. feature.form \in forms
  BY <1>1 DEF FeatureRow
<1>3. \A x \in S : /\ set[x].days \in Nat /\ set[x].alpha \in Int /\ set[x].risk \in Int
                   /\ set[x].tradability \in Int /\ set[x].stretch \in Int
  BY DEF Reading
<1>4. theme \in {family, "stretch"} /\ (family # "risk" => theme = family)
  <2>1. family # "risk" => feature.form # "extension"
    BY <1>2 DEF Rising
  <2> QED BY <2>1 DEF ThemeOf
<1>5. \A x \in S : set[x][theme] \in Int
  <2> HIDE DEF theme
  <2> QED BY <1>1, <1>3, <1>4
<1>6. IF family = "risk" THEN set[s][theme] <= set[t][theme] ELSE set[s][theme] >= set[t][theme]
  <2> HIDE DEF theme
  <2> QED BY <1>4 DEF ReadsNoWorse
<1> HIDE DEF theme
<1>7. CASE inUniverse /\ feature.ranked
  <2>1. vs = [x \in U |-> Directed(family, set[x][theme])]
    BY DEF UniverseReadings, theme
  <2>2. DOMAIN vs = U /\ s \in U /\ t \in U
    BY <2>1 DEF feature
  <2>3. IsFiniteSet(U)
    <3>1. U \in SUBSET S
      OBVIOUS
    <3> HIDE DEF U
    <3> QED BY <3>1, FS_Subset
  <2> HIDE DEF vs
  <2>4. \A x \in U : vs[x] \in Int
    BY <1>5, <2>1 DEF Directed
  <2>5. vs[t] <= vs[s]
    <3>1. vs[t] = Directed(family, set[t][theme]) /\ vs[s] = Directed(family, set[s][theme])
      <4> HIDE DEF U
      <4> QED BY <2>1, <2>2
    <3>2. set[t][theme] \in Int /\ set[s][theme] \in Int
      BY <1>5
    <3> QED BY <1>6, <3>1, <3>2 DEF Directed
  <2>6. /\ ContextScore(vs, t) \in Int /\ ContextScore(vs, s) \in Int
        /\ ContextScore(vs, t) <= ContextScore(vs, s)
    <3> HIDE DEF U
    <3> QED BY <2>2, <2>3, <2>4, <2>5, ContextKeepsOrder
  <2>7. score(t) = ContextScore(vs, t) /\ score(s) = ContextScore(vs, s)
    BY <1>7 DEF FeatureScore, vs
  <2> HIDE DEF score
  <2>8. score(t) \in Int /\ score(s) \in Int /\ score(t) <= score(s)
    BY <2>6, <2>7
  <2> QED BY <2>8 DEF score, feature
<1>8. CASE ~(inUniverse /\ feature.ranked)
  <2> DEFINE raw(x) == RawScore(feature.form, set[x][theme])
  <2>1. score(t) = raw(t) /\ score(s) = raw(s)
    BY <1>8 DEF FeatureScore, theme
  <2>2. set[t][theme] \in Int /\ set[s][theme] \in Int
    BY <1>5
  <2>3. raw(t) \in Int /\ raw(s) \in Int /\ raw(t) <= raw(s)
    BY <1>2, <1>6, <2>2, RisingScore, FallingScore
  <2> HIDE DEF score, raw
  <2>4. score(t) \in Int /\ score(s) \in Int /\ score(t) <= score(s)
    BY <2>1, <2>3
  <2> QED BY <2>4 DEF score, feature
<1> QED BY <1>7, <1>8

(* A family in which every feature there is scores no lower scores no lower. *)
LEMMA FamilyKeepsOrder ==
  ASSUME NEW D, IsFiniteSet(D), NEW low, NEW high, NEW weights, DOMAIN weights = D,
         \A f \in D : /\ low[f] \in Int /\ high[f] \in Int /\ low[f] <= high[f]
                      /\ weights[f] \in Nat
  PROVE  FamilyScore(low, weights) <= FamilyScore(high, weights)
<1> DEFINE total == SumOver(weights, D)
           wlow == [f \in D |-> low[f] * weights[f]]
           whigh == [f \in D |-> high[f] * weights[f]]
<1>1. total \in Nat
  BY SumNatural
<1>2. \A f \in D : wlow[f] \in Int /\ whigh[f] \in Int /\ wlow[f] <= whigh[f]
  <2> TAKE f \in D
  <2>1. /\ low[f] * weights[f] \in Int /\ high[f] * weights[f] \in Int
        /\ low[f] * weights[f] <= high[f] * weights[f]
    BY TimesGrows
  <2> QED BY <2>1, Zenon
<1>3. /\ FamilyScore(low, weights)
           = IF total = 0 THEN 0 ELSE RoundSigned(SumOver(wlow, D), total)
      /\ FamilyScore(high, weights)
           = IF total = 0 THEN 0 ELSE RoundSigned(SumOver(whigh, D), total)
  BY Zenon DEF FamilyScore
<1> HIDE DEF total, wlow, whigh
<1>4. /\ SumOver(wlow, D) \in Int /\ SumOver(whigh, D) \in Int
      /\ SumOver(wlow, D) <= SumOver(whigh, D)
  BY <1>2, SumMonotone
<1>5. CASE total = 0
  BY <1>3, <1>5
<1>6. CASE total # 0
  <2>1. total \in Nat \ {0}
    BY <1>1, <1>6
  <2>2. RoundSigned(SumOver(wlow, D), total) <= RoundSigned(SumOver(whigh, D), total)
    BY <1>4, <2>1, RoundedKeepsOrder
  <2> QED BY <1>3, <1>6, <2>2
<1> QED BY <1>5, <1>6

LEMMA BetterScoresNoLower ==
  ASSUME NEW S, IsFiniteSet(S), NEW set \in [S -> Reading], NEW s \in S, NEW t \in S,
         NEW family \in DOMAIN Families, ReadsNoWorse(set, s, t, family),
         NEW inUniverse \in BOOLEAN, NEW profile \in {"long", "short"},
         set[s].days = set[t].days
  PROVE  FamilyScoreOf(family, set, t, inUniverse, profile)
           <= FamilyScoreOf(family, set, s, inUniverse, profile)
<1> DEFINE features == Families[family]
           D == Available(features, set[s].days)
           score(x) == [f \in D |-> FeatureScore(family, features[f], set, x, inUniverse)]
           weights == [f \in D |-> features[f][profile]]
<1>1. /\ FamilyScoreOf(family, set, t, inUniverse, profile) = FamilyScore(score(t), weights)
      /\ FamilyScoreOf(family, set, s, inUniverse, profile) = FamilyScore(score(s), weights)
  <2>1. Available(features, set[t].days) = D
    OBVIOUS
  <2> QED BY <2>1, Zenon DEF FamilyScoreOf
<1>2. IsFiniteSet(DOMAIN features)
  BY FamilyRows
<1>3. D \in SUBSET DOMAIN features /\ \A f \in D : features[f].needs <= set[s].days
  BY DEF Available
<1>4. IsFiniteSet(D)
  <2> HIDE DEF D, features
  <2> QED BY <1>2, <1>3, FS_Subset
<1>5. \A f \in D : features[f][profile] \in Nat
  <2> TAKE f \in D
  <2>1. features[f] \in FeatureRow(IF family = "risk" THEN Falling ELSE Rising)
    BY <1>3, FamilyRows
  <2> HIDE DEF features
  <2> QED BY <2>1 DEF FeatureRow
<1>6. \A f \in D : LET low == FeatureScore(family, features[f], set, t, inUniverse)
                       high == FeatureScore(family, features[f], set, s, inUniverse)
                   IN  low \in Int /\ high \in Int /\ low <= high
  <2> TAKE f \in D
  <2>1. f \in DOMAIN Families[family] /\ Families[family][f].needs <= set[s].days
    BY <1>3
  <2>2. Families[family][f].needs <= set[t].days
    BY <2>1
  <2> QED BY <2>1, <2>2, FeatureKeepsOrder
<1>7. \A f \in D : /\ score(t)[f] \in Int /\ score(s)[f] \in Int /\ score(t)[f] <= score(s)[f]
                   /\ weights[f] \in Nat
  <2> HIDE DEF D, features
  <2> QED BY <1>5, <1>6
<1>8. DOMAIN weights = D
  OBVIOUS
<1> DEFINE low == score(t)
           high == score(s)
<1>9. FamilyScore(low, weights) <= FamilyScore(high, weights)
  <2>1. \A f \in D : /\ low[f] \in Int /\ high[f] \in Int /\ low[f] <= high[f]
                     /\ weights[f] \in Nat
    BY <1>7
  <2> HIDE DEF low, high, weights, D
  <2> QED BY <1>4, <1>8, <2>1, FamilyKeepsOrder
<1> QED BY <1>1, <1>9

(* For any snapshots, any features a history is long enough for and either  *)
(* profile, a security that reads no worse in a family never scores lower   *)
(* in it (features/technical_signal.py, features/technical_context.py).     *)
THEOREM BetterIsNoLower == OfficialSpec => []BetterNeverScoresLower
<1> DEFINE Inv == snapshots \in SnapshotSets
<1>1. OfficialInit => Inv
  BY DEF OfficialInit
<1>2. Inv /\ [OfficialNext]_officialVars => Inv'
  BY DEF OfficialNext, ImportIndices, ImportMicrostructure, RefuseFile, officialVars
<1>3. Inv => BetterNeverScoresLower
  <2> SUFFICES ASSUME Inv, NEW s \in Securities, NEW t \in Securities,
                      NEW family \in DOMAIN Families, NEW inUniverse \in BOOLEAN,
                      NEW profile \in {"long", "short"},
                      snapshots[s].days = snapshots[t].days, NoWorse(s, t, family)
               PROVE  FamilyScoreOf(family, snapshots, s, inUniverse, profile)
                        >= FamilyScoreOf(family, snapshots, t, inUniverse, profile)
    BY DEF BetterNeverScoresLower
  <2>1. snapshots \in [Securities -> Reading] /\ IsFiniteSet(Securities)
    BY OfficialAssumption DEF Reading
  <2>2. ReadsNoWorse(snapshots, s, t, family)
    BY DEF NoWorse, ReadsNoWorse
  <2>3. FamilyScoreOf(family, snapshots, t, inUniverse, profile)
          <= FamilyScoreOf(family, snapshots, s, inUniverse, profile)
    BY <2>1, <2>2, BetterScoresNoLower
  <2> QED BY <2>3
<1> QED BY <1>1, <1>2, <1>3, PTL DEF OfficialSpec

-----------------------------------------------------------------------------
(* Types of the market graph, and of all the stores together.               *)

(* What the job holds is of edges there are, and of one day once it has     *)
(* begun; the statistics are those of a window and a day.                   *)
JobRows ==
  [day : 0..LastDay, left : SUBSET Edges, candidates : SUBSET Edges,
   rows : SUBSET {WindowStat(e, w, d) : e \in Edges, w \in Windows, d \in 1..LastDay},
   promoted : SUBSET Edges]
GraphInv ==
  /\ EdgesInv /\ statsJob \in JobRows
  /\ statsJob.left # {} => statsJob.day # 0
  /\ statsJob.promoted \subseteq statsJob.candidates
  /\ edgeStats \in SUBSET {WindowStat(e, w, d) : e \in Edges, w \in Windows, d \in 1..LastDay}
  /\ today \in 1..LastDay

LEMMA GraphInvariance == GraphSpec => []GraphInv
<1> DEFINE Stats == {WindowStat(e, w, d) : e \in Edges, w \in Windows, d \in 1..LastDay}
<1>1. GraphInit => GraphInv
  <2> SUFFICES ASSUME GraphInit PROVE GraphInv
    OBVIOUS
  <2>1. EdgesInv
    BY DEF GraphInit, EdgesInv, EdgeRows, NoEdge, ReviewDecides, HasReview, Provenances
  <2>2. NoJob \in JobRows /\ today \in 1..LastDay
    BY GraphAssumption DEF GraphInit, NoJob, JobRows
  <2> QED BY <2>1, <2>2 DEF GraphInit, GraphInv, NoJob
<1>2. GraphInv /\ [GraphNext]_graphVars => GraphInv'
  <2> SUFFICES ASSUME GraphInv, [GraphNext]_graphVars PROVE GraphInv'
    OBVIOUS
  <2>1. EdgesInv'
    BY EdgesStep DEF GraphInv
  <2>2. CASE UNCHANGED <<edgeStats, statsJob, today>>
    BY <2>1, <2>2 DEF GraphInv
  <2>3. CASE NewCandles
    BY <2>1, <2>3, GraphAssumption DEF GraphInv, NewCandles
  <2>4. ASSUME NEW d \in 1..today, StartStats(d) PROVE GraphInv'
    <3> DEFINE some == {e \in ListedEdges : edges[e].status = "candidate"}
    <3>1. /\ statsJob' = [day |-> d, left |-> ListedEdges, rows |-> {}, promoted |-> {},
                          candidates |-> some]
          /\ UNCHANGED <<edgeStats, today>>
      BY <2>4 DEF StartStats
    <3>2. d \in 0..LastDay /\ d # 0
      BY GraphAssumption DEF GraphInv
    <3>3. ListedEdges \in SUBSET Edges /\ some \in SUBSET Edges
      BY DEF ListedEdges
    <3>4. statsJob' \in JobRows
      <4> HIDE DEF some
      <4> QED BY <3>1, <3>2, <3>3 DEF JobRows
    <3> QED BY <2>1, <3>1, <3>2, <3>4 DEF GraphInv
  <2>5. CASE MeasureEdge
    <3> DEFINE j == statsJob
    <3>1. PICK e \in j.left : \E measured, won :
            /\ measured = {WindowStat(e, w, j.day) : w \in Windows}
            /\ statsJob' = [j EXCEPT !.left = @ \ {e}, !.rows = @ \cup measured, !.promoted = won]
            /\ won = j.promoted \/ (won = j.promoted \cup {e} /\ e \in j.candidates)
            /\ UNCHANGED <<edgeStats, today>>
      BY <2>5 DEF MeasureEdge
    <3>2. PICK measured, won :
            /\ measured = {WindowStat(e, w, j.day) : w \in Windows}
            /\ statsJob' = [j EXCEPT !.left = @ \ {e}, !.rows = @ \cup measured, !.promoted = won]
            /\ won = j.promoted \/ (won = j.promoted \cup {e} /\ e \in j.candidates)
            /\ UNCHANGED <<edgeStats, today>>
      BY <3>1
    <3>3. /\ j.day \in 0..LastDay /\ j.day # 0 /\ j.left \in SUBSET Edges
          /\ j.candidates \in SUBSET Edges /\ j.rows \in SUBSET Stats
          /\ j.promoted \in SUBSET Edges /\ j.promoted \subseteq j.candidates
      <4> HIDE DEF Stats
      <4> QED BY DEF GraphInv, JobRows, Stats
    <3>4. measured \in SUBSET Stats
      <4>1. e \in Edges /\ j.day \in 1..LastDay
        BY <3>3, GraphAssumption
      <4> QED BY <3>2, <4>1
    <3>5. j \in [day : 0..LastDay, left : SUBSET Edges, candidates : SUBSET Edges,
                 rows : SUBSET Stats, promoted : SUBSET Edges]
      BY DEF GraphInv, JobRows
    <3>6. statsJob' = [day |-> j.day, left |-> j.left \ {e}, candidates |-> j.candidates,
                       rows |-> j.rows \cup measured, promoted |-> won]
      <4> HIDE DEF Stats, j
      <4> QED BY <3>2, <3>5
    <3> HIDE DEF Stats, j
    <3>7. won \in SUBSET Edges /\ won \subseteq j.candidates
      BY <3>2, <3>3
    <3>8. statsJob' \in JobRows
      BY <3>3, <3>4, <3>6, <3>7 DEF JobRows, Stats
    <3>9. /\ statsJob'.left # {} => statsJob'.day # 0
          /\ statsJob'.promoted \subseteq statsJob'.candidates
      BY <3>3, <3>6, <3>7
    <3>10. /\ edgeStats' \in SUBSET Stats /\ today' \in 1..LastDay
      BY <3>2 DEF GraphInv, Stats
    <3> QED BY <2>1, <3>8, <3>9, <3>10 DEF GraphInv, Stats
  <2>6. CASE CommitStats
    <3>1. /\ statsJob' = NoJob /\ today' = today
          /\ edgeStats' = {r \in edgeStats : ~\E s \in statsJob.rows : SameRow(r, s)}
                            \cup statsJob.rows
      BY <2>6 DEF CommitStats
    <3>2. NoJob \in JobRows /\ NoJob.left = {} /\ NoJob.promoted \subseteq NoJob.candidates
      BY GraphAssumption DEF NoJob, JobRows
    <3>3. statsJob.rows \in SUBSET Stats /\ edgeStats \in SUBSET Stats
      <4> HIDE DEF Stats
      <4> QED BY DEF GraphInv, JobRows, Stats
    <3> HIDE DEF Stats
    <3>4. edgeStats' \in SUBSET Stats
      BY <3>1, <3>3
    <3> QED BY <2>1, <3>1, <3>2, <3>4 DEF GraphInv, Stats
  <2>7. CASE AbortStats
    <3>1. statsJob' = NoJob /\ UNCHANGED <<edgeStats, today>>
      BY <2>7 DEF AbortStats
    <3>2. NoJob \in JobRows /\ NoJob.left = {} /\ NoJob.promoted \subseteq NoJob.candidates
      BY GraphAssumption DEF NoJob, JobRows
    <3> QED BY <2>1, <3>1, <3>2 DEF GraphInv
  <2> QED BY <2>2, <2>3, <2>4, <2>5, <2>6, <2>7
          DEF GraphNext, ImportGraph, Review, StatsStep, graphVars
<1> QED BY <1>1, <1>2, PTL DEF GraphSpec

(* Edges, statistics and the job keep their types, and the job promotes     *)
(* candidates only, for any edges, files and prices (graph/stats.py).       *)
THEOREM GraphTyped == GraphSpec => []GraphTypeOK
<1>1. GraphInv => GraphTypeOK
  <2> SUFFICES ASSUME GraphInv PROVE GraphTypeOK
    OBVIOUS
  <2>1. \A e \in Edges : edges[e].status \in {"absent", "active", "candidate", "rejected"}
    BY DEF GraphInv, EdgesInv, EdgeRows
  <2>2. \A r \in edgeStats : r.edge \in Edges /\ r.window \in Windows /\ r.day \in 1..LastDay
    BY DEF GraphInv, WindowStat
  <2> QED BY <2>1, <2>2 DEF GraphInv, GraphTypeOK
<1> QED BY <1>1, GraphInvariance, PTL

(* The stores side by side are each of them at work, so all of them keep    *)
(* their types whatever the files, pages, masters and edits are, as long as *)
(* no edit of a profile overlaps a transaction of the broker.               *)
THEOREM StoresTyped ==
  ASSUME ~Overlap
  PROVE  StoresSpec => []StoresTypeOK
<1>1. StoresSpec => ReferenceSpec
  <2>1. StoresInit => ReferenceInit
    BY DEF StoresInit
  <2>2. [StoresNext]_storesVars => [ReferenceNext]_<<shariahVars, marketVars>>
    BY DEF StoresNext, storesVars, referenceVars
  <2> QED BY <2>1, <2>2, PTL DEF StoresSpec, ReferenceSpec
<1>2. StoresSpec => FundamentalsSpec
  <2>1. StoresInit => FundamentalsInit
    BY DEF StoresInit
  <2>2. [StoresNext]_storesVars => [FundamentalsNext]_fundamentalsVars
    BY DEF StoresNext, storesVars
  <2> QED BY <2>1, <2>2, PTL DEF StoresSpec, FundamentalsSpec
<1>3. StoresSpec => OfficialSpec
  <2>1. StoresInit => OfficialInit
    BY DEF StoresInit
  <2>2. [StoresNext]_storesVars => [OfficialNext]_officialVars
    BY DEF StoresNext, storesVars
  <2> QED BY <2>1, <2>2, PTL DEF StoresSpec, OfficialSpec
<1>4. StoresSpec => GraphSpec
  <2>1. StoresInit => GraphInit
    BY DEF StoresInit
  <2>2. [StoresNext]_storesVars => [GraphNext]_graphVars
    BY DEF StoresNext, storesVars
  <2> QED BY <2>1, <2>2, PTL DEF StoresSpec, GraphSpec
<1>5. StoresSpec => ProfilesSpec
  <2>1. StoresInit => ProfilesInit
    BY DEF StoresInit
  <2>2. [StoresNext]_storesVars => [ProfilesNext]_profilesVars
    BY DEF StoresNext, storesVars
  <2> QED BY <2>1, <2>2, PTL DEF StoresSpec, ProfilesSpec
<1>6. ProfilesSpec => []ProfilesTypeOK
  BY ProfilesTyped
<1>7. /\ ReferenceTypeOK /\ FundamentalsTypeOK /\ OfficialTypeOK /\ GraphTypeOK /\ ProfilesTypeOK
      => StoresTypeOK
  BY DEF StoresTypeOK
<1> QED BY <1>1, <1>2, <1>3, <1>4, <1>5, <1>6, <1>7, ReferenceTyped, FundamentalsTyped,
           OfficialTyped, GraphTyped, PTL
===============================================================================
