--------------------------------- MODULE MCStores ---------------------------------
(* The stores the runs read and the commands beside the runs maintain, each  *)
(* on an instance of its own: the market data and the compliance list, the   *)
(* fundamentals, the official data, the market graph and the profiles.  They *)
(* share no rows, so a behaviour is one of them at work.                     *)
EXTENDS MarketData, Fundamentals, MCOfficialData, MarketGraph, Profiles

(* Market data and compliance: two companies; one is renamed, which gives it *)
(* a second identity with the same NSE code; the other keeps its identity.   *)
MCCodeOf == [alpha |-> "A", alphaNew |-> "A", beta |-> "B", gamma |-> NoCode]

MCLine(k, icon) == [key |-> k, icon |-> icon, named |-> TRUE]
MCPage(lines) == [wellFormed |-> TRUE, lines |-> lines]

MCPages ==
  {MCPage(<<MCLine("alpha", "yes"), MCLine("beta", "yes")>>),
   MCPage(<<MCLine("alphaNew", "no"), MCLine("beta", "yes")>>),
   MCPage(<<MCLine("alphaNew", "yes"), MCLine("beta", "no"),
            MCLine("gamma", "yes")>>),
   MCPage(<<MCLine("alpha", "yes"), MCLine("alpha", "no"),
            MCLine("beta", "new")>>)}

MCMasters == {[A |-> "t1", B |-> "t2"], [B |-> "t3"]}

MCAnswers ==
  LET good == <<"rows", "rows">>
      late == <<"flaky", "rows">>
      bad  == <<"refused", "rows">>
  IN {[A |-> good, B |-> late], [A |-> bad, B |-> good]}

-----------------------------------------------------------------------------
(* Fundamentals: three instruments, one whose name is the start of another   *)
(* company's; files that list both, only the other, a company twice, and     *)
(* four companies on either side of every clamp.                             *)
MCInstruments == <<[symbol |-> "ITC", name |-> "itc"],
                   [symbol |-> "SUN", name |-> "sun"],
                   [symbol |-> "TCS", name |-> "tcs"]>>

MCInside == {<<"itc", "itc hotels">>}

MCRow(s, n, m) == [symbol |-> s, name |-> n, metrics |-> m]

MCStrong == [roce |-> 260, eps |-> 300, stock_pe |-> 100, book_value |-> 900,
             current_price |-> 1200, debt_to_equity |-> 1,
             pledged_percentage |-> 0, promoter_holding |-> 700]
MCFair == [roce |-> 123, eps |-> 300, stock_pe |-> 237, book_value |-> 900,
           current_price |-> 2500, debt_to_equity |-> 7,
           pledged_percentage |-> 13, promoter_holding |-> 417]
MCWeak == [roce |-> 40, eps |-> 300, stock_pe |-> 600, book_value |-> 300,
           current_price |-> 2600, debt_to_equity |-> 21,
           pledged_percentage |-> 250, promoter_holding |-> 120]
MCHeld == [roe |-> 131, fii_holding |-> 100, dividend_yield |-> 11]
MCLessHeld == [roe |-> 131, fii_holding |-> 99, dividend_yield |-> 10]

MCFile(id, list) == [id |-> id, columns |-> TRUE, rows |-> list]

MCFiles ==
  {MCFile("both", <<MCRow("ITCHOTELS", "itc hotels", MCWeak),
                    MCRow("ITC", "itc", MCStrong)>>),
   MCFile("quarter", <<MCRow("ITC", "itc", MCFair), MCRow("SUN", "sun", MCWeak),
                       MCRow("XYZ", NoName, MCFair)>>),
   MCFile("hotels", <<MCRow("ITCHOTELS", "itc hotels", MCHeld),
                      MCRow("-", "sun", MCFair), MCRow("TCS", "tcs", MCLessHeld)>>),
   MCFile("later", <<MCRow("TCS", "tcs", MCStrong), MCRow("SUN", "sun", MCLessHeld),
                     MCRow("ITC", "itc", [x \in {} |-> 0])>>),
   [id |-> "prices", columns |-> FALSE, rows |-> <<>>]}

-----------------------------------------------------------------------------
(* The market graph: a peer edge of no expected sign and an exposure.        *)
MCFileOf == [e \in Edges |-> IF e = "peer" THEN "edge_candidates" ELSE "company_segments"]
MCExpectedSign == [e \in Edges |-> IF e = "peer" THEN 0 ELSE 1]
MCSourceDays == [e \in Edges |-> IF e = "peer" THEN {} ELSE {2}]
(* The relation turns round on the last day. *)
MCComovement ==
  [e \in Edges |-> [w \in Windows |-> [d \in 1..LastDay |->
     CASE d = 4 -> 0 - 2 [] d # 4 /\ e = "peer" /\ w = 3 -> 1 [] OTHER -> 2]]]

-----------------------------------------------------------------------------
VARIABLE store     \* the store at work

referenceVars == <<shariahVars, marketVars>>
storesVars ==
  <<store, referenceVars, fundamentalsVars, officialVars, graphVars, profilesVars>>

SomeSnapshots == CHOOSE set \in SnapshotSets : TRUE

StoresInit ==
  /\ store \in {"reference", "fundamentals", "official", "graph", "profiles"}
  /\ ReferenceInit /\ FundamentalsInit /\ OfficialInit /\ GraphInit /\ ProfilesInit
  /\ store # "official" => snapshots = SomeSnapshots

StoresNext ==
  \/ /\ store = "reference" /\ ReferenceNext
     /\ UNCHANGED <<store, fundamentalsVars, officialVars, graphVars, profilesVars>>
  \/ /\ store = "fundamentals" /\ FundamentalsNext
     /\ UNCHANGED <<store, referenceVars, officialVars, graphVars, profilesVars>>
  \/ /\ store = "official" /\ OfficialNext
     /\ UNCHANGED <<store, referenceVars, fundamentalsVars, graphVars, profilesVars>>
  \/ /\ store = "graph" /\ GraphNext
     /\ UNCHANGED <<store, referenceVars, fundamentalsVars, officialVars, profilesVars>>
  \/ /\ store = "profiles" /\ ProfilesNext
     /\ UNCHANGED <<store, referenceVars, fundamentalsVars, officialVars, graphVars>>

StoresSpec == StoresInit /\ [][StoresNext]_storesVars

(* Every variable has its type. *)
StoresTypeOK ==
  /\ ReferenceTypeOK /\ FundamentalsTypeOK /\ OfficialTypeOK /\ GraphTypeOK
  /\ ProfilesTypeOK
===================================================================================
