----------------------------- MODULE MCOfficialData -----------------------------
(* Three securities, one of them with a sector index, and files of three  *)
(* days: corrections, two files on one security and day, a repeated key.  *)
EXTENDS OfficialDataProperties

MCSectorOf == [s \in Securities |-> IF s = "A" THEN "sector" ELSE NoIndex]
Snapshot(days, alpha, risk, tradability, stretch) ==
  [days |-> days, alpha |-> alpha, risk |-> risk, tradability |-> tradability, stretch |-> stretch]
MCSnapshotSets == {
  ("A" :> Snapshot(70, 4, 3, 2, 2)) @@ ("B" :> Snapshot(22, 0 - 3, 8, 5, 1)) @@ ("C" :> Snapshot(70, 4, 6, 9, 1)),
  ("A" :> Snapshot(260, 0 - 2, 5, 0, 4)) @@ ("B" :> Snapshot(260, 6, 2, 0 - 5, 2)) @@ ("C" :> Snapshot(260, 6, 5, 1, 0)),
  ("A" :> Snapshot(1, 0, 0, 3, 0)) @@ ("B" :> Snapshot(16, 7, 9, 0, 3)) @@ ("C" :> Snapshot(30, 1, 1, 1, 1))}
MCReturn20 == [s \in Securities |-> IF s = "A" THEN 50 ELSE 0 - 20]

Candle(index, day, close, at) == [index |-> index, day |-> day, source |-> "nse", close |-> close, at |-> at]
MCIndexFiles == {
  <<Candle("bench", 1, 1000, Unstated), Candle("vix", 1, 1400, Unstated), Candle("sector", 1, 500, Unstated)>>,
  <<Candle("bench", 2, 1040, Unstated), Candle("vix", 2, 2300, Unstated), Candle("sector", 2, 480, Unstated)>>,
  <<Candle("bench", 3, 900, Unstated), Candle("vix", 3, 1450, Hour(4, 9))>>,
  <<Candle("bench", 2, 1010, Hour(3, 20))>>}

Blank == Absent
MicroRow(s, day, at, values) ==
  [security |-> s, day |-> day, source |-> "nse", at |-> at, values |-> values]
DeliveryRow(s, day, at, percent) == MicroRow(s, day, at, [Blank EXCEPT !.delivery = percent, !.turnover = 200])
CircuitRow(s, day, at, status, hit) == MicroRow(s, day, at, [Blank EXCEPT !.status = status, !.hit = hit])
MCMicroFiles == {
  <<DeliveryRow("A", 1, Unstated, 30), DeliveryRow("B", 1, Unstated, 15)>>,
  <<DeliveryRow("A", 2, Unstated, 60), MicroRow("B", 2, Unstated, [Blank EXCEPT !.impact = 12])>>,
  <<DeliveryRow("A", 3, Unstated, 45)>>,
  <<CircuitRow("A", 2, Hour(3, 8), "near", "absent"), CircuitRow("B", 2, Hour(3, 8), "hit", "yes")>>,
  <<DeliveryRow("A", 2, Unstated, 55), CircuitRow("A", 2, Unstated, "clear", "no")>>}
=============================================================================
