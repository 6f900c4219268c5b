-------------------------- MODULE OfficialDataProperties --------------------------
(* What readers of the official data rely on.                              *)
EXTENDS OfficialData

(* Every variable has its type. *)
OfficialTypeOK ==
  /\ \A k \in DOMAIN indexRows : indexRows[k] \in IndexRow
  /\ \A k \in DOMAIN microRows : IsMicroRow(microRows[k])
  /\ imports \in Seq({"stored", "refused"})

(* "As long as data_available_time is populated correctly"                 *)
(* (TAURUS_V2B_DATA_INGESTION_HANDOFF.md): no file says that a row was     *)
(* available before the day it is of had begun.                            *)
AvailabilityIsPopulated ==
  \A file \in IndexFiles \cup MicroFiles : \A row \in Range(file) :
    row.at = Unstated \/ row.at > AsOfTime(row.day)

BeforeDay(rows, day) == [k \in {j \in DOMAIN rows : j[2] < day} |-> rows[k]]

(* The official profile scores a security on the morning of a day as if    *)
(* the rows of that day and of later days were not there, in whatever      *)
(* order the files were imported (official_context.py, history_as_of).     *)
OfficialScoreIgnoresToday ==
  imports # << >> => \A s \in Securities, day \in DecisionDays :
    OfficialScore(indexRows, microRows, s, day)
      = OfficialScore(BeforeDay(indexRows, day), BeforeDay(microRows, day), s, day)

(* Among the symbols of a run, with histories of one length, the one whose *)
(* candles read no worse in a family never scores lower in it, ranked by   *)
(* the universe or on its own: the directions of technical_context.py and  *)
(* the transforms of technical_signal.py agree on what is good.  (Files of *)
(* official data do not change it: it is evaluated after the first.)       *)
NoWorse(s, t, family) ==
  /\ IF family = "risk" THEN snapshots[s].risk <= snapshots[t].risk
                        ELSE snapshots[s][family] >= snapshots[t][family]
  /\ snapshots[s].stretch <= snapshots[t].stretch
BetterNeverScoresLower ==
  Len(imports) = 1 =>
    \A s, t \in Securities, family \in DOMAIN Families, inUniverse \in BOOLEAN,
       profile \in {"long", "short"} :
      snapshots[s].days = snapshots[t].days /\ NoWorse(s, t, family) =>
        FamilyScoreOf(family, snapshots, s, inUniverse, profile)
          >= FamilyScoreOf(family, snapshots, t, inUniverse, profile)

(* "Future official rows should not leak into historical validation as     *)
(* long as data_available_time is populated correctly": each value an      *)
(* as-of query returns comes from a file that was available by then.       *)
AsOfSeesOnlyPublished ==
  \A day \in DecisionDays, k \in DOMAIN microRows :
    microRows[k].at <= AsOfTime(day) =>
      \A f \in Fields : Says(microRows[k].values, f) => microRows[k].told[f] <= AsOfTime(day)
=============================================================================
