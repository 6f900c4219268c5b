------------------------------- MODULE MarketGraph -------------------------------
(***************************************************************************)
(* The relations between companies.  An import upserts edges from CSV      *)
(* files, a job measures how the prices of both ends move together and may *)
(* promote candidates, a reviewer promotes or rejects through the API, and *)
(* a backtest reads the edges as of a day in the past.  Each of the three  *)
(* writers has a session of its own; the job reads the edges when it       *)
(* begins and commits when it is done.                                     *)
(***************************************************************************)
EXTENDS Integers, FiniteSets, FiniteSetsExt

CONSTANTS
  Edges,          \* edges the files may name
  FileOf,         \* FileOf[e]: the kind of file that names e
  ExpectedSign,   \* ExpectedSign[e]: 1, -1, or 0 for unknown
  SourceDays,     \* SourceDays[e]: dates of the evidence rows of e
  LastDay,        \* bound: trading days with candles
  Windows,        \* graph_stats_windows
  MinSample,      \* taurus_graph_min_edge_sample_size
  Comovement,     \* Comovement[e][w][d]: correlation over the window before d, 0 if
                  \*  the returns have no variance
  StrongAt,       \* correlation (and stability) that lets the job promote
  AutoPromote,    \* taurus_graph_auto_promote_edges
  ReviewsDuringJob \* the reviewer works while the job runs

ASSUME GraphAssumption == LastDay \in Nat \ {0}

VARIABLES
  edges,          \* [status, provenance, review, by]
  edgeStats,      \* stored statistics: [edge, window, day, sample, corr, valid]
  statsJob,       \* what the job holds in its session
  today           \* day of the latest candle

graphVars == <<edges, edgeStats, statsJob, today>>

Provenances == {"deterministic", "derived", "inferred"}
NoEdge == [status |-> "absent", provenance |-> "none", review |-> "none", by |-> "none"]
NoJob == [day |-> 0, left |-> {}, candidates |-> {}, rows |-> {}, promoted |-> {}]

GraphInit ==
  /\ edges = [e \in Edges |-> NoEdge] /\ edgeStats = {} /\ statsJob = NoJob /\ today = 1

Running == statsJob # NoJob

NewCandles == today < LastDay /\ today' = today + 1 /\ UNCHANGED <<edges, edgeStats, statsJob>>

-----------------------------------------------------------------------------
(* The files.  What an edge rests on is fixed by the kind of file for       *)
(* classifications, evidence and risks, follows from the column "inferred"  *)
(* for segments and products, and is stated by the row of a dependency, a   *)
(* company edge or a candidate, which must not leave it out.                *)
ClassificationFiles == {"company_industry_classifications"}
EvidenceFiles == {"source_evidence"}
RiskFiles == {"company_risks"}
FlagFiles == {"company_segments", "company_products"}
DependencyFiles == {"company_dependencies"}
CompanyEdgeFiles == {"company_edges"}
CandidateFiles == {"edge_candidates"}
StatedFiles == DependencyFiles \cup CompanyEdgeFiles \cup CandidateFiles

RowProvenance(e, column) ==
  CASE FileOf[e] \in ClassificationFiles \cup EvidenceFiles -> "deterministic"
    [] FileOf[e] \in RiskFiles -> "inferred"
    [] FileOf[e] \in FlagFiles -> IF column = "inferred" THEN "inferred" ELSE "deterministic"
    [] OTHER -> column

InitialStatus(provenance) == IF provenance = "inferred" THEN "candidate" ELSE "active"
HasReview(edge) == edge.review # "none"

(* Mutant: an edge keeps its status once it is known. *)
UpsertKeepsStatus(edge, provenance) ==
  [edge EXCEPT !.provenance = provenance,
               !.status = IF edge # NoEdge THEN edge.status ELSE InitialStatus(provenance)]

(* upsert_edge: the row decides everything but a status that was reviewed.  *)
UpsertEdge(edge, provenance) ==
  [edge EXCEPT !.provenance = provenance,
               !.status = IF HasReview(edge) THEN edge.status ELSE InitialStatus(provenance)]

(* One import, committed as a whole: named maps the edges of the files that *)
(* are there to the column of their rows.  A stated provenance that is      *)
(* missing or unknown fails the import and nothing is stored.               *)
ImportGraph(named) ==
  /\ \A e \in DOMAIN named : FileOf[e] \in StatedFiles => named[e] \in Provenances
  /\ edges' = [e \in Edges |-> IF e \in DOMAIN named
                               THEN UpsertEdge(edges[e], RowProvenance(e, named[e]))
                               ELSE edges[e]]
  /\ UNCHANGED <<edgeStats, statsJob, today>>

-----------------------------------------------------------------------------
(* update_edge_status, through the API or by the job.                       *)
Reviewed(edge, status, by) == [edge EXCEPT !.status = status, !.review = status, !.by = by]

(* The API has a route that promotes and one that rejects; nothing calls    *)
(* update_edge_status with "candidate".  A row the job has changed is       *)
(* locked until it commits.                                                 *)
Review(e, status) ==
  /\ edges[e] # NoEdge
  /\ e \notin statsJob.promoted
  /\ edges' = [edges EXCEPT ![e] = Reviewed(edges[e], status, "api")]
  /\ UNCHANGED <<edgeStats, statsJob, today>>

-----------------------------------------------------------------------------
(* _compute_window_stats.  Returns lead from one day's close to the next:   *)
(* up to a day there is one fewer than there are days.                      *)
SampleSize(w, day) == Min({w, day - 1})
WindowStat(e, w, day) ==
  LET sample == SampleSize(w, day)
      corr == IF sample < MinSample THEN 0 ELSE Comovement[e][w][day]
  IN  [edge |-> e, window |-> w, day |-> day, sample |-> sample, corr |-> corr,
       valid |-> corr # 0]

Strong(stat) == stat.valid /\ (stat.corr >= StrongAt \/ 0 - stat.corr >= StrongAt)

ListedEdges == {e \in Edges : edges[e].status \in {"active", "candidate"}}

StartStats(day) ==
  /\ statsJob' = [day |-> day, left |-> ListedEdges, rows |-> {}, promoted |-> {},
                  candidates |-> {e \in ListedEdges : edges[e].status = "candidate"}]
  /\ UNCHANGED <<edges, edgeStats, today>>

(* One edge over all windows.  Whether it is a candidate is what the        *)
(* session read at the start.                                               *)
MeasureEdge ==
  \E e \in statsJob.left :
    LET rows == {WindowStat(e, w, statsJob.day) : w \in Windows} IN
    /\ statsJob' = [statsJob EXCEPT
         !.left = @ \ {e},
         !.rows = @ \cup rows,
         !.promoted = IF AutoPromote /\ e \in statsJob.candidates /\ \E r \in rows : Strong(r)
                      THEN @ \cup {e} ELSE @]
    /\ UNCHANGED <<edges, edgeStats, today>>

SameRow(r, s) == r.edge = s.edge /\ r.window = s.window /\ r.day = s.day

CommitStats ==
  /\ Running /\ statsJob.left = {}
  /\ edgeStats' = {r \in edgeStats : ~\E s \in statsJob.rows : SameRow(r, s)} \cup statsJob.rows
  /\ edges' = [e \in Edges |-> IF e \in statsJob.promoted
                               THEN Reviewed(edges[e], "active", "graph_stats_job") ELSE edges[e]]
  /\ statsJob' = NoJob
  /\ UNCHANGED today

(* An exception or the end of the process rolls everything back.            *)
AbortStats ==
  /\ Running
  /\ statsJob' = NoJob
  /\ UNCHANGED <<edges, edgeStats, today>>

-----------------------------------------------------------------------------
(* What a backtest reads for a day: GraphBacktestSignalLoader.              *)
EdgeAvailable(e) == edges[e].status = "active"
EvidenceAvailable(e, day) ==
  SourceDays[e] = {} \/ \E d \in SourceDays[e] : d <= day

Later(r, s) ==
  \/ r.day > s.day
  \/ r.day = s.day /\ r.sample > s.sample
  \/ r.day = s.day /\ r.sample = s.sample /\ r.window >= s.window

(* Mutant: the latest statistic, as the live analyst takes it. *)
StatsEver(e, day) == {r \in edgeStats : r.edge = e /\ r.valid}

StatsAvailable(e, day) == {r \in edgeStats : r.edge = e /\ r.valid /\ r.day <= day}

SignOf(n) == CASE n > 0 -> 1 [] n < 0 -> 0 - 1 [] OTHER -> 0

(* Weights lie in (0, 1]: the sign is what the edge says. *)
DirectionalScore(e, stat) ==
  (IF ExpectedSign[e] = 0 THEN SignOf(stat.corr) ELSE ExpectedSign[e]) * SignOf(stat.corr)

PastScore(e, day) ==
  LET rows == StatsAvailable(e, day) IN
  IF EdgeAvailable(e) /\ EvidenceAvailable(e, day) /\ rows # {}
  THEN DirectionalScore(e, CHOOSE r \in rows : \A s \in rows : Later(r, s))
  ELSE 0

-----------------------------------------------------------------------------
StatsStep == Running /\ (MeasureEdge \/ CommitStats \/ AbortStats)

GraphNext ==
  \/ NewCandles
  \/ /\ ~Running
     /\ \E files \in SUBSET Edges : \E named \in [files -> Provenances \cup {"missing"}] :
          ImportGraph(named)
  \/ /\ ~Running \/ ReviewsDuringJob
     /\ \E e \in Edges, status \in {"active", "rejected"} : Review(e, status)
  \/ ~Running /\ \E day \in 1..today : StartStats(day)
  \/ StatsStep

GraphSpec == GraphInit /\ [][GraphNext]_graphVars

-----------------------------------------------------------------------------
GraphTypeOK ==
  /\ \A e \in Edges : edges[e].status \in {"absent", "active", "candidate", "rejected"}
  /\ \A r \in edgeStats : r.edge \in Edges /\ r.window \in Windows /\ r.day \in 1..LastDay
  /\ statsJob.promoted \subseteq statsJob.candidates
  /\ today \in 1..LastDay

(* An edge that was only inferred takes part in scores, risk groups and     *)
(* backtests after somebody or the job has promoted it, however its row     *)
(* changed between imports.                                                 *)
InferredNeedsPromotion ==
  \A e \in Edges : edges[e].status = "active" /\ edges[e].provenance = "inferred" =>
    edges[e].review = "active"

(* Statistics of a later day leave what a backtest reads for an earlier     *)
(* day as it was, except for the edges the job promotes: those become       *)
(* active for all days, also the days before the prices that promoted them. *)
JobKeepsPast ==
  statsJob # NoJob /\ statsJob' = NoJob =>
    \A e \in Edges \ statsJob.promoted : \A day \in 1..(statsJob.day - 1) :
      PastScore(e, day)' = PastScore(e, day)

PastSignalsStand == [][JobKeepsPast]_graphVars
=============================================================================
