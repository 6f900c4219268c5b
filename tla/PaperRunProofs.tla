--------------------------- MODULE PaperRunProofs ---------------------------
(***************************************************************************)
(* Proofs about the daily run and the rows it leaves, for any number of    *)
(* symbols and runs and for both ways of executing.                        *)
(***************************************************************************)
EXTENDS PaperRunProperties, FiniteSetTheorems, WellFoundedInduction, TLAPS

(* Stages before the run places its first order. *)
EarlyStages == {"data", "settle", "select", "analyse", "allocate", "finalise"}

-----------------------------------------------------------------------------
(* The inductive invariant.                                                *)

(* Only a filled order has fills, made by a run that began. *)
FillsHaveOrders ==
  \A d \in Decisions : fills[d].by # NoRun => orders[d].status = "FILLED"

(* Nothing is stored for a run that has not begun. *)
NothingFromTheFuture ==
  /\ \A d \in Decisions : fills[d].by <= run
  /\ \A d \in Decisions : RunOf(d) > run => orders[d].status = "NONE"
  /\ \A r \in Runs : r > run => accounts[r].at = 0

(* The account row of a run accounts for the fills made up to that run. *)
BooksAreComplete ==
  \A r \in Runs : accounts[r].at # 0 =>
    accounts[r].book = {d \in Decisions : fills[d].by \in 1..r}

(* A run that made fills has an account row. *)
FillsAreAccounted ==
  \A d \in Decisions : fills[d].by # NoRun => accounts[fills[d].by].at # 0

(* Account rows are updated in the order of their runs. *)
AccountsInOrder ==
  /\ \A r \in Runs : accounts[r].at <= clock
  /\ \A q, r \in Runs :
       q < r /\ accounts[q].at # 0 /\ accounts[r].at # 0 => accounts[q].at < accounts[r].at

LedgerInv ==
  FillsHaveOrders /\ NothingFromTheFuture /\ BooksAreComplete /\ FillsAreAccounted
  /\ AccountsInOrder

(* The run in progress has no order of its own yet, and the fills it made  *)
(* are those of orders it found in the queue.                              *)
OnlySettled ==
  /\ \A d \in Decisions : RunOf(d) = run => orders[d].status = "NONE"
  /\ \A d \in Decisions : fills[d].by = run => orders[d].queued

StageInv ==
  /\ stage # "idle" => run \in Runs
  /\ stage \in EarlyStages => OnlySettled
  /\ stage = "route" => \A s \in todo : orders[<<run, s>>].status = "NONE"
  /\ stage \notin {"finalise", "route", "complete"} => approved = {}
  /\ stage = "route" => todo \subseteq approved
  /\ \A s \in approved : proposed[s] # "NONE"

IInv == TypeOK /\ LedgerInv /\ StageInv
-----------------------------------------------------------------------------
(* Operations on the rows.                                                 *)

LEMMA DecisionParts ==
  /\ Decisions = Runs \X Symbols
  /\ \A d \in Decisions : RunOf(d) \in Runs /\ SymbolOf(d) \in Symbols
  /\ \A r \in Runs, s \in Symbols : <<r, s>> \in Decisions /\ RunOf(<<r, s>>) = r
BY DEF Decisions, RunOf, SymbolOf

(* The clean-up for a run that has placed no order yet removes no fill: its *)
(* own decisions have none, and what it settled is protected.              *)
LEMMA CleanUpKeepsFills ==
  ASSUME TypeOK, LedgerInv, OnlySettled, run \in Runs,
         NEW S \in SUBSET Symbols, CleanUp(run, S)
  PROVE  /\ \A d \in Decisions : fills'[d].by = fills[d].by
         /\ \A d \in Decisions : orders'[d].status = orders[d].status
         /\ \A d \in Decisions : fills[d].by # NoRun => orders'[d] = orders[d]
<1>1. \A d \in {run} \X S : d \in Decisions /\ RunOf(d) = run
  BY DEF Decisions, RunOf
<1>2. \A d \in {run} \X S : orders[d].status = "NONE"
  BY <1>1 DEF OnlySettled
<1>3. \A d \in {run} \X S : fills[d].by = NoRun
  BY <1>1, <1>2 DEF LedgerInv, FillsHaveOrders
<1>4. ASSUME NEW d \in Decisions, fills[d].by = run, SymbolOf(d) \in S
      PROVE  d \in Protected(run, SymbolOf(d))
  <2>1. fills[d].by # NoRun
    BY <1>4 DEF NoRun, Runs
  <2>2. orders[d].status = "FILLED" /\ orders[d].queued
    BY <1>4, <2>1 DEF LedgerInv, FillsHaveOrders, OnlySettled
  <2> QED BY <1>4, <2>2 DEF Protected
<1>5. FillsCleaned(run, S) \subseteq {run} \X S
  BY <1>4 DEF FillsCleaned
<1>6. \A d \in Decisions : fills'[d].by = fills[d].by
  <2> SUFFICES ASSUME NEW d \in Decisions PROVE fills'[d].by = fills[d].by
    OBVIOUS
  <2>1. fills'[d] = IF d \in FillsCleaned(run, S) THEN NoFill ELSE fills[d]
    BY DEF CleanUp
  <2> QED BY <2>1, <1>5, <1>3 DEF NoFill
<1>7. \A d \in Decisions : orders'[d] = IF d \in {run} \X S THEN NoOrder ELSE orders[d]
  BY DEF CleanUp
<1> QED BY <1>2, <1>3, <1>6, <1>7 DEF NoOrder

(* The clean-up keeps the invariant of the ledger.                         *)
LEMMA CleanUpPreserves ==
  ASSUME TypeOK, LedgerInv, OnlySettled, run \in Runs, run' = run,
         NEW S \in SUBSET Symbols, CleanUp(run, S)
  PROVE  StoreTypeOK' /\ LedgerInv' /\ OnlySettled'
<1> USE DEF NoRun
<1>1. /\ \A d \in Decisions : fills'[d].by = fills[d].by
      /\ \A d \in Decisions : orders'[d].status = orders[d].status
      /\ \A d \in Decisions : fills[d].by # NoRun => orders'[d] = orders[d]
  BY CleanUpKeepsFills
<1>2. StoreTypeOK'
  <2>1. NoOrder \in [status : OrderStatuses, side : {"BUY", "SELL"}, queued : BOOLEAN,
                     ripe : BOOLEAN, settled : BOOLEAN, at : Nat]
    BY DEF NoOrder, OrderStatuses
  <2>2. NoFill \in [by : 0..MaxRuns, at : Nat, closes : BOOLEAN]
    BY RunsAssumption DEF NoFill
  <2>3. NoAccount \in [at : Nat, book : SUBSET Decisions]
    BY DEF NoAccount
  <2>4. orders' \in [Decisions -> [status : OrderStatuses, side : {"BUY", "SELL"},
                     queued : BOOLEAN, ripe : BOOLEAN, settled : BOOLEAN, at : Nat]]
    BY <2>1 DEF CleanUp, TypeOK, StoreTypeOK
  <2>5. fills' \in [Decisions -> [by : 0..MaxRuns, at : Nat, closes : BOOLEAN]]
    BY <2>2 DEF CleanUp, TypeOK, StoreTypeOK
  <2>6. accounts' \in [Runs -> [at : Nat, book : SUBSET Decisions]]
    BY <2>3 DEF CleanUp, TypeOK, StoreTypeOK
  <2>7. positions' \in [Runs -> SUBSET Symbols]
    BY DEF CleanUp, TypeOK, StoreTypeOK
  <2> QED BY <2>4, <2>5, <2>6, <2>7 DEF CleanUp, TypeOK, StoreTypeOK
<1>3. \A r \in Runs :
        accounts'[r] = IF r = run /\ AccountCleaned(run, S) THEN NoAccount ELSE accounts[r]
  BY DEF CleanUp, TypeOK, StoreTypeOK
<1>4. \A r \in Runs : accounts'[r] = accounts[r] \/ accounts'[r].at = 0
  BY <1>3 DEF NoAccount
<1>5. FillsHaveOrders'
  BY <1>1 DEF LedgerInv, FillsHaveOrders
<1>6. NothingFromTheFuture'
  BY <1>1, <1>4 DEF LedgerInv, NothingFromTheFuture
<1>7. BooksAreComplete'
  <2> SUFFICES ASSUME NEW r \in Runs, accounts'[r].at # 0
               PROVE  accounts'[r].book = {d \in Decisions : fills'[d].by \in 1..r}
    BY DEF BooksAreComplete
  <2>1. accounts'[r].book = {d \in Decisions : fills[d].by \in 1..r}
    BY <1>4 DEF LedgerInv, BooksAreComplete
  <2> QED BY <2>1, <1>1
<1>8. FillsAreAccounted'
  <2> SUFFICES ASSUME NEW d \in Decisions, fills'[d].by # NoRun
               PROVE  accounts'[fills'[d].by].at # 0
    BY DEF FillsAreAccounted
  <2>1. fills[d].by \in Runs /\ accounts[fills[d].by].at # 0 /\ fills'[d].by = fills[d].by
    BY <1>1 DEF LedgerInv, FillsAreAccounted, TypeOK, StoreTypeOK, Runs
  <2>2. CASE fills[d].by = run /\ AccountCleaned(run, S)
    <3>1. d \in FillsCleaned(run, S)
      BY <2>2 DEF AccountCleaned
    <3>2. fills'[d] = NoFill
      BY <3>1 DEF CleanUp
    <3> QED BY <3>2, <2>1 DEF NoFill
  <2> QED BY <2>1, <2>2, <1>3
<1>9. AccountsInOrder'
  <2>1. clock' = clock /\ clock \in Nat
    BY DEF CleanUp, TypeOK, StoreTypeOK
  <2> QED BY <1>4, <2>1 DEF LedgerInv, AccountsInOrder
<1>10. OnlySettled'
  BY <1>1 DEF OnlySettled, Runs
<1> QED BY <1>2, <1>5, <1>6, <1>7, <1>8, <1>9, <1>10 DEF LedgerInv

(* Storing the account after the run has filled some orders.               *)
LEMMA StoreAccountPreserves ==
  ASSUME TypeOK, LedgerInv, run \in Runs, run' = run,
         NEW os \in [Decisions -> [status : OrderStatuses, side : {"BUY", "SELL"},
                       queued : BOOLEAN, ripe : BOOLEAN, settled : BOOLEAN, at : Nat]],
         NEW fs \in [Decisions -> [by : 0..MaxRuns, at : Nat, closes : BOOLEAN]],
         NEW stamp \in Nat, stamp > clock,
         StoreAccount(run, os, fs, stamp),
         \A d \in Decisions : fs[d].by = fills[d].by \/ (fills[d].by = NoRun /\ fs[d].by = run),
         \A d \in Decisions : fs[d].by # NoRun => os[d].status = "FILLED",
         \A d \in Decisions : RunOf(d) > run => os[d].status = "NONE"
  PROVE  StoreTypeOK' /\ LedgerInv'
<1> USE DEF NoRun
<1>1. orders' = os /\ fills' = fs /\ clock' = stamp /\ started' = started
  BY DEF StoreAccount, TypeOK, StoreTypeOK
<1>2. \A r \in Runs : accounts'[r] = IF r = run THEN [at |-> stamp, book |-> Filled(fs)]
                                                ELSE accounts[r]
  BY DEF StoreAccount, TypeOK, StoreTypeOK
<1>3. \A d \in Decisions : fs[d].by <= run /\ fills[d].by <= run
  BY DEF LedgerInv, NothingFromTheFuture, Runs
<1>4. StoreTypeOK'
  <2>1. Filled(fs) \in SUBSET Decisions
    BY DEF Filled
  <2>2. accounts' \in [Runs -> [at : Nat, book : SUBSET Decisions]]
    BY <2>1 DEF StoreAccount, TypeOK, StoreTypeOK
  <2>3. positions' \in [Runs -> SUBSET Symbols]
    <3>1. \A time : PositionRows(run, os, fs, time) \in SUBSET Symbols
      BY DEF PositionRows, HeldAt
    <3> QED BY <3>1 DEF StoreAccount, TypeOK, StoreTypeOK
  <2> QED BY <1>1, <2>2, <2>3 DEF TypeOK, StoreTypeOK
<1>5. FillsHaveOrders' /\ NothingFromTheFuture'
  <2>1. \A r \in Runs : r > run => accounts'[r].at = 0
    BY <1>2 DEF LedgerInv, NothingFromTheFuture, Runs
  <2> QED BY <1>1, <1>3, <2>1 DEF FillsHaveOrders, NothingFromTheFuture
<1>6. BooksAreComplete'
  <2> SUFFICES ASSUME NEW r \in Runs, accounts'[r].at # 0
               PROVE  accounts'[r].book = {d \in Decisions : fs[d].by \in 1..r}
    BY <1>1 DEF BooksAreComplete
  <2>1. CASE r = run
    <3>1. accounts'[r].book = Filled(fs)
      BY <2>1, <1>2
    <3>2. \A d \in Decisions : fs[d].by # NoRun <=> fs[d].by \in 1..r
      BY <2>1, <1>3 DEF Runs
    <3> QED BY <3>1, <3>2 DEF Filled
  <2>2. CASE r # run
    <3>1. r < run
      BY <2>2, <1>2 DEF LedgerInv, NothingFromTheFuture, Runs
    <3>2. accounts'[r].book = {d \in Decisions : fills[d].by \in 1..r}
      BY <2>2, <1>2 DEF LedgerInv, BooksAreComplete
    <3>3. \A d \in Decisions : fs[d].by \in 1..r <=> fills[d].by \in 1..r
      BY <3>1 DEF Runs
    <3> QED BY <3>2, <3>3
  <2> QED BY <2>1, <2>2
<1>7. FillsAreAccounted'
  <2> SUFFICES ASSUME NEW d \in Decisions, fs[d].by # NoRun
               PROVE  accounts'[fs[d].by].at # 0
    BY <1>1 DEF FillsAreAccounted
  <2>1. accounts'[run].at # 0
    BY <1>2 DEF TypeOK, StoreTypeOK
  <2>2. CASE fs[d].by # run
    <3>1. fs[d].by = fills[d].by /\ fs[d].by \in Runs
      BY <2>2 DEF Runs
    <3> QED BY <3>1, <2>2, <1>2 DEF LedgerInv, FillsAreAccounted
  <2> QED BY <2>1, <2>2
<1>8. AccountsInOrder'
  <2>1. \A r \in Runs : accounts[r].at \in Nat /\ clock \in Nat /\ accounts[r].at <= clock
    BY DEF TypeOK, StoreTypeOK, LedgerInv, AccountsInOrder
  <2>2. \A r \in Runs : accounts'[r].at <= clock'
    BY <1>1, <1>2, <2>1
  <2>3. ASSUME NEW q \in Runs, NEW r \in Runs, q < r,
               accounts'[q].at # 0, accounts'[r].at # 0
        PROVE  accounts'[q].at < accounts'[r].at
    <3>1. q # run
      BY <2>3, <1>2 DEF LedgerInv, NothingFromTheFuture, Runs
    <3>2. accounts'[q] = accounts[q]
      BY <3>1, <1>2
    <3>3. CASE r = run
      BY <3>2, <3>3, <1>2, <2>1
    <3>4. CASE r # run
      BY <3>2, <3>4, <1>2, <2>3 DEF LedgerInv, AccountsInOrder
    <3> QED BY <3>3, <3>4
  <2> QED BY <2>2, <2>3 DEF AccountsInOrder
<1> QED BY <1>4, <1>5, <1>6, <1>7, <1>8 DEF LedgerInv

(* Settlement fills orders found in the queue, none of them of this run.   *)
LEMMA SettleQueuePreserves ==
  ASSUME TypeOK, LedgerInv, OnlySettled, run \in Runs, run' = run, SettleQueue(run)
  PROVE  /\ StoreTypeOK' /\ LedgerInv' /\ OnlySettled'
         /\ Filled(fills) \subseteq Filled(fills')
<1> USE DEF NoRun
<1> DEFINE batch == SettlementBatch
           now == clock + 1
           turn(d) == now + Cardinality({e \in batch : orders[e].at <= orders[d].at})
           stamp == now + Cardinality(batch)
           settled(filled) ==
             [d \in Decisions |->
                IF d \in batch
                THEN OrderRow(IF d \in filled THEN "FILLED" ELSE "REJECTED",
                              orders[d].side, TRUE, TRUE, turn(d))
                ELSE orders[d]]
           withFills(filled, closing) ==
             [d \in Decisions |->
                IF d \in filled THEN Fill(run, turn(d), d \in closing) ELSE fills[d]]
<1>1. /\ batch \in SUBSET Decisions
      /\ \A d \in batch : orders[d].status = "PENDING_NEXT_OPEN"
  BY DEF SettlementBatch, Pending
<1>2. \A T \in SUBSET Decisions : Cardinality(T) \in Nat
  <2>1. IsFiniteSet(Runs)
    BY FS_Interval, RunsAssumption DEF Runs
  <2>2. IsFiniteSet(Decisions)
    BY <2>1, SymbolsAssumption, FS_Product DEF Decisions
  <2> QED BY <2>2, FS_Subset, FS_CardinalityType
<1>3. clock \in Nat /\ now \in Nat
  BY DEF TypeOK, StoreTypeOK
<1>4. \A d \in Decisions : turn(d) \in Nat
  BY <1>1, <1>2, <1>3
<1>5. stamp \in Nat /\ stamp > clock
  BY <1>1, <1>2, <1>3
<1>6. PICK filled \in SUBSET batch : \E closing \in SUBSET filled :
        StoreAccount(run, settled(filled), withFills(filled, closing), stamp)
  BY DEF SettleQueue
<1>61. PICK closing \in SUBSET filled :
        StoreAccount(run, settled(filled), withFills(filled, closing), stamp)
  BY <1>6
<1> DEFINE os == settled(filled)
           fs == withFills(filled, closing)
<1> HIDE DEF batch, now, turn, stamp
<1>7. os \in [Decisions -> [status : OrderStatuses, side : {"BUY", "SELL"},
                queued : BOOLEAN, ripe : BOOLEAN, settled : BOOLEAN, at : Nat]]
  BY <1>4 DEF OrderRow, OrderStatuses, TypeOK, StoreTypeOK
<1>8. fs \in [Decisions -> [by : 0..MaxRuns, at : Nat, closes : BOOLEAN]]
  BY <1>4 DEF Fill, TypeOK, StoreTypeOK, Runs
<1>9. \A d \in batch : fills[d].by = NoRun
  BY <1>1 DEF LedgerInv, FillsHaveOrders
<1>10. \A d \in Decisions : fs[d].by = fills[d].by \/ (fills[d].by = NoRun /\ fs[d].by = run)
  BY <1>6, <1>9 DEF Fill
<1>11. \A d \in Decisions : fs[d].by # NoRun => os[d].status = "FILLED"
  BY <1>1, <1>6, <1>9 DEF OrderRow, Fill, LedgerInv, FillsHaveOrders
<1>12. \A d \in batch : RunOf(d) < run
  <2>1. \A d \in batch : RunOf(d) \in Runs /\ ~(RunOf(d) > run) /\ RunOf(d) # run
    BY <1>1, DecisionParts DEF LedgerInv, NothingFromTheFuture, OnlySettled
  <2> QED BY <2>1 DEF Runs
<1>13. \A d \in Decisions : RunOf(d) >= run => os[d] = orders[d]
  <2>1. \A d \in Decisions \ batch : os[d] = orders[d]
    OBVIOUS
  <2>2. \A d \in Decisions : RunOf(d) >= run => d \notin batch
    BY <1>12, DecisionParts DEF Runs
  <2> HIDE DEF os
  <2> QED BY <2>1, <2>2
<1>14. \A d \in Decisions : RunOf(d) > run => os[d].status = "NONE"
  <2> HIDE DEF os
  <2> QED BY <1>13, DecisionParts DEF LedgerInv, NothingFromTheFuture, Runs
<1>15. orders' = os /\ fills' = fs
  BY <1>61 DEF StoreAccount
<1>16. \A d \in Decisions : fs[d].by = run => os[d].queued
  BY <1>6, <1>9 DEF OrderRow, Fill, OnlySettled, Runs
<1>17. \A d \in Decisions : RunOf(d) = run => os[d].status = "NONE"
  <2> HIDE DEF os
  <2> QED BY <1>13 DEF OnlySettled, Runs
<1>18. StoreTypeOK' /\ LedgerInv'
  <2> HIDE DEF os, fs
  <2> QED BY <1>5, <1>61, <1>7, <1>8, <1>10, <1>11, <1>14, StoreAccountPreserves DEF os, fs
<1>19. OnlySettled' /\ Filled(fills) \subseteq Filled(fills')
  <2> HIDE DEF os, fs
  <2> QED BY <1>10, <1>15, <1>16, <1>17 DEF OnlySettled, Filled, Runs
<1> QED BY <1>18, <1>19

(* An order placed for the first time takes no fill away.                  *)
LEMMA PlaceOrderPreserves ==
  ASSUME TypeOK, LedgerInv, run \in Runs, run' = run,
         NEW s \in Symbols, NEW side \in {"BUY", "SELL"}, NEW queued \in BOOLEAN,
         orders[<<run, s>>].status = "NONE",
         PlaceOrder(run, s, side, queued, clock + 1)
  PROVE  /\ StoreTypeOK' /\ LedgerInv'
         /\ Filled(fills) \subseteq Filled(fills')
         /\ \A t \in Symbols \ {s} : orders'[<<run, t>>] = orders[<<run, t>>]
<1> USE DEF NoRun
<1> DEFINE d == <<run, s>>
           stamp == clock + 1
           earlier == [fills EXCEPT ![d] = NoFill]
           put(status, fs) ==
             StoreAccount(run, [orders EXCEPT ![d] = OrderRow(status, side, queued, FALSE, stamp)],
                          fs, stamp)
<1>1. d \in Decisions /\ RunOf(d) = run /\ fills[d].by = NoRun
  BY DecisionParts DEF LedgerInv, FillsHaveOrders
<1>2. stamp \in Nat /\ stamp > clock
  BY DEF TypeOK, StoreTypeOK
<1>3. /\ earlier \in [Decisions -> [by : 0..MaxRuns, at : Nat, closes : BOOLEAN]]
      /\ earlier[d].by = NoRun
      /\ \A e \in Decisions \ {d} : earlier[e] = fills[e]
  BY <1>1, RunsAssumption DEF NoFill, TypeOK, StoreTypeOK
<1>4. PICK status \in {"REJECTED", "PENDING_NEXT_OPEN", "FILLED"}, closes \in BOOLEAN :
        put(status, IF status = "FILLED"
                    THEN [earlier EXCEPT ![d] = Fill(run, stamp, closes)] ELSE earlier)
  <2>1. \/ put("REJECTED", earlier)
        \/ put("PENDING_NEXT_OPEN", earlier)
        \/ \E closes \in BOOLEAN : put("FILLED", [earlier EXCEPT ![d] = Fill(run, stamp, closes)])
    <3> HIDE DEF put, earlier, stamp, d
    <3> QED BY DEF PlaceOrder, put, earlier, stamp, d
  <2> HIDE DEF put, earlier
  <2> QED BY <2>1
<1> DEFINE os == [orders EXCEPT ![d] = OrderRow(status, side, queued, FALSE, stamp)]
           fs == IF status = "FILLED"
                 THEN [earlier EXCEPT ![d] = Fill(run, stamp, closes)] ELSE earlier
<1>5. StoreAccount(run, os, fs, stamp)
  BY <1>4
<1>6. /\ os \in [Decisions -> [status : OrderStatuses, side : {"BUY", "SELL"},
                   queued : BOOLEAN, ripe : BOOLEAN, settled : BOOLEAN, at : Nat]]
      /\ os[d].status = status
      /\ \A e \in Decisions \ {d} : os[e] = orders[e]
  BY <1>1, <1>2 DEF OrderRow, OrderStatuses, TypeOK, StoreTypeOK
<1> HIDE DEF earlier, stamp
<1>7. /\ fs \in [Decisions -> [by : 0..MaxRuns, at : Nat, closes : BOOLEAN]]
      /\ fs[d].by = IF status = "FILLED" THEN run ELSE NoRun
      /\ \A e \in Decisions \ {d} : fs[e] = fills[e]
  <2>1. Fill(run, stamp, closes) \in [by : 0..MaxRuns, at : Nat, closes : BOOLEAN]
    BY <1>2 DEF Fill, Runs
  <2> QED BY <1>1, <1>3, <2>1 DEF Fill
<1> HIDE DEF os, fs, d
<1>8. /\ \A e \in Decisions : fs[e].by = fills[e].by \/ (fills[e].by = NoRun /\ fs[e].by = run)
      /\ \A e \in Decisions : fs[e].by # NoRun => os[e].status = "FILLED"
  BY <1>1, <1>6, <1>7 DEF LedgerInv, FillsHaveOrders
<1>9. \A e \in Decisions : RunOf(e) > run => os[e].status = "NONE"
  BY <1>1, <1>6 DEF LedgerInv, NothingFromTheFuture, Runs
<1>10. StoreTypeOK' /\ LedgerInv'
  BY <1>2, <1>5, <1>6, <1>7, <1>8, <1>9, StoreAccountPreserves
<1>11. orders' = os /\ fills' = fs
  BY <1>5 DEF StoreAccount
<1>12. Filled(fills) \subseteq Filled(fills')
  BY <1>8, <1>11 DEF Filled, Runs
<1>13. \A t \in Symbols \ {s} : orders'[<<run, t>>] = orders[<<run, t>>]
  BY <1>6, <1>11, DecisionParts DEF d
<1> QED BY <1>10, <1>12, <1>13

(* Importing bars touches nothing but the ripeness of queued orders.       *)
LEMMA ImportBarsPreserves ==
  ASSUME TypeOK, LedgerInv, OnlySettled, run' = run, NEW S, ImportBars(S)
  PROVE  StoreTypeOK' /\ LedgerInv' /\ OnlySettled'
<1>1. /\ fills' = fills /\ accounts' = accounts /\ positions' = positions
      /\ started' = started /\ clock' = clock
  BY DEF ImportBars
<1>2. /\ orders' \in [Decisions -> [status : OrderStatuses, side : {"BUY", "SELL"},
                 queued : BOOLEAN, ripe : BOOLEAN, settled : BOOLEAN, at : Nat]]
      /\ \A d \in Decisions : /\ orders'[d].status = orders[d].status
                              /\ orders'[d].queued = orders[d].queued
  <2> DEFINE Row == [status : OrderStatuses, side : {"BUY", "SELL"}, queued : BOOLEAN,
                     ripe : BOOLEAN, settled : BOOLEAN, at : Nat]
  <2>1. ASSUME NEW d \in Decisions
        PROVE  /\ [orders[d] EXCEPT !.ripe = TRUE] \in Row
               /\ [orders[d] EXCEPT !.ripe = TRUE].status = orders[d].status
               /\ [orders[d] EXCEPT !.ripe = TRUE].queued = orders[d].queued
    BY DEF TypeOK, StoreTypeOK
  <2>2. \A d \in Decisions : orders[d] \in Row
    BY DEF TypeOK, StoreTypeOK
  <2>3. \A d \in Decisions : orders'[d] \in {orders[d], [orders[d] EXCEPT !.ripe = TRUE]}
    BY DEF ImportBars
  <2>4. orders' = [d \in Decisions |-> orders'[d]]
    BY DEF ImportBars
  <2> HIDE DEF Row
  <2>5. orders' \in [Decisions -> Row]
    BY <2>1, <2>2, <2>3, <2>4
  <2> QED BY <2>1, <2>3, <2>5 DEF Row
<1>3. StoreTypeOK'
  BY <1>1, <1>2 DEF TypeOK, StoreTypeOK
<1>4. FillsHaveOrders' /\ NothingFromTheFuture' /\ OnlySettled'
  BY <1>1, <1>2 DEF LedgerInv, FillsHaveOrders, NothingFromTheFuture, OnlySettled
<1>5. BooksAreComplete' /\ FillsAreAccounted' /\ AccountsInOrder'
  BY <1>1 DEF LedgerInv, BooksAreComplete, FillsAreAccounted, AccountsInOrder
<1> QED BY <1>3, <1>4, <1>5 DEF LedgerInv

(* A step that stores nothing but the run row.                             *)
LEMMA StoreUnchangedPreserves ==
  ASSUME TypeOK, LedgerInv, UNCHANGED store, run' = run
  PROVE  /\ StoreTypeOK' /\ LedgerInv' /\ orders' = orders
         /\ Filled(fills) \subseteq Filled(fills')
         /\ OnlySettled => OnlySettled'
<1>1. /\ orders' = orders /\ fills' = fills /\ accounts' = accounts
      /\ positions' = positions /\ started' = started /\ clock' = clock
  BY DEF store
<1>2. StoreTypeOK'
  BY <1>1 DEF TypeOK, StoreTypeOK
<1>3. LedgerInv'
  BY <1>1 DEF LedgerInv, FillsHaveOrders, NothingFromTheFuture, BooksAreComplete,
              FillsAreAccounted, AccountsInOrder
<1>4. OnlySettled => OnlySettled'
  BY <1>1 DEF OnlySettled
<1> QED BY <1>1, <1>2, <1>3, <1>4 DEF Filled

-----------------------------------------------------------------------------
(* The run row and the lists of the process.                               *)

LEMMA StatusForType ==
  ASSUME NEW good, NEW failed
  PROVE  StatusFor(good, failed) \in RunStatuses
BY DEF StatusFor, RunStatuses

(* What an ended run leaves satisfies what is asked of a process without a *)
(* run in progress.                                                        *)
LEMMA EndRunPreserves ==
  ASSUME RunTypeOK, EndRun, run' = run,
         row' \in [status : RunStatuses, ok : SUBSET Symbols, bad : SUBSET Symbols,
                   scope : SUBSET Symbols, finished : BOOLEAN]
  PROVE  RunTypeOK' /\ StageInv'
<1>1. NoProposals \in [Symbols -> ProposedActions]
  BY DEF NoProposals, ProposedActions
<1>2. RunTypeOK'
  BY <1>1 DEF RunTypeOK, EndRun, Stages
<1>3. StageInv'
  BY DEF EndRun, StageInv, EarlyStages
<1> QED BY <1>2, <1>3

-----------------------------------------------------------------------------
(* The invariant is inductive.                                             *)

LEMMA InitEstablishes == Init => IInv
<1> SUFFICES ASSUME Init PROVE IInv
  OBVIOUS
<1>1. StoreTypeOK
  <2>1. NoOrder \in [status : OrderStatuses, side : {"BUY", "SELL"}, queued : BOOLEAN,
                     ripe : BOOLEAN, settled : BOOLEAN, at : Nat]
    BY DEF NoOrder, OrderStatuses
  <2>2. NoFill \in [by : 0..MaxRuns, at : Nat, closes : BOOLEAN]
    BY RunsAssumption DEF NoFill, NoRun
  <2>3. NoAccount \in [at : Nat, book : SUBSET Decisions]
    BY DEF NoAccount
  <2> QED BY <2>1, <2>2, <2>3 DEF Init, InitStore, StoreTypeOK
<1>2. RunTypeOK
  BY RunsAssumption DEF Init, RunTypeOK, Stages, NoRun, NoProposals, ProposedActions,
                        NoRow, RunStatuses
<1>3. LedgerInv
  BY DEF Init, InitStore, NoOrder, NoFill, NoAccount, NoRun, LedgerInv, FillsHaveOrders,
         NothingFromTheFuture, BooksAreComplete, FillsAreAccounted, AccountsInOrder, Runs
<1>4. StageInv
  BY DEF Init, StageInv, EarlyStages
<1> QED BY <1>1, <1>2, <1>3, <1>4 DEF IInv, TypeOK

(* A run that begins finds the rows of earlier runs only. *)
LEMMA BeginRunPreserves ==
  ASSUME IInv, BeginRun
  PROVE  IInv' /\ Filled(fills) \subseteq Filled(fills')
<1>1. /\ orders' = orders /\ fills' = fills /\ accounts' = accounts
      /\ positions' = positions /\ clock' = clock + 1 /\ run' = run + 1
      /\ stage' = "data" /\ stage = "idle" /\ run < MaxRuns
  BY DEF BeginRun
<1>2. run \in Nat /\ run' \in Runs /\ clock \in Nat
  BY <1>1, RunsAssumption DEF IInv, TypeOK, StoreTypeOK, RunTypeOK, Runs
<1>3. StoreTypeOK'
  <2>1. started' \in [Runs -> Nat]
    BY <1>2 DEF BeginRun, IInv, TypeOK, StoreTypeOK
  <2> QED BY <1>1, <1>2, <2>1 DEF IInv, TypeOK, StoreTypeOK
<1>4. RunTypeOK'
  <2>1. PICK requested \in SUBSET Symbols :
          LET symbols == requested \cup VisiblePositions \cup PendingSymbols IN
          scope' = symbols /\ StoreRow("RUNNING", {}, {}, symbols, FALSE)
    BY DEF BeginRun
  <2>2. VisiblePositions \subseteq Symbols
    BY DEF VisiblePositions, LatestAccount, IInv, TypeOK, StoreTypeOK
  <2>3. PendingSymbols \subseteq Symbols
    BY DecisionParts DEF PendingSymbols, Pending
  <2>4. scope' \subseteq Symbols
    BY <2>1, <2>2, <2>3
  <2>5. row' = [status |-> "RUNNING", ok |-> {}, bad |-> {}, scope |-> scope',
                finished |-> FALSE]
    BY <2>1 DEF StoreRow
  <2>6. /\ todo' = todo /\ midway' = midway /\ proposed' = proposed /\ approved' = approved
        /\ funded' = funded /\ ok' = ok /\ bad' = bad
    BY DEF BeginRun
  <2> QED BY <1>1, <1>2, <2>4, <2>5, <2>6
          DEF IInv, TypeOK, RunTypeOK, Stages, RunStatuses, Runs
<1>5. LedgerInv'
  <2>1. FillsHaveOrders' /\ BooksAreComplete' /\ FillsAreAccounted'
    BY <1>1 DEF IInv, LedgerInv, FillsHaveOrders, BooksAreComplete, FillsAreAccounted
  <2>2. NothingFromTheFuture'
    BY <1>1, <1>2, DecisionParts
    DEF IInv, LedgerInv, NothingFromTheFuture, TypeOK, StoreTypeOK, Runs
  <2>3. AccountsInOrder'
    BY <1>1, <1>2 DEF IInv, LedgerInv, AccountsInOrder, TypeOK, StoreTypeOK
  <2> QED BY <2>1, <2>2, <2>3 DEF LedgerInv
<1>6. StageInv'
  <2>1. OnlySettled'
    <3>1. \A d \in Decisions : RunOf(d) = run' => orders[d].status = "NONE"
      BY <1>1, <1>2 DEF IInv, LedgerInv, NothingFromTheFuture
    <3>2. \A d \in Decisions : fills[d].by # run'
      BY <1>1, <1>2 DEF IInv, LedgerInv, NothingFromTheFuture, TypeOK, StoreTypeOK
    <3> QED BY <1>1, <3>1, <3>2 DEF OnlySettled
  <2>2. approved' = approved /\ approved = {}
    BY <1>1 DEF BeginRun, IInv, StageInv
  <2> QED BY <1>1, <1>2, <2>1, <2>2 DEF StageInv
<1>7. Filled(fills) \subseteq Filled(fills')
  BY <1>1 DEF Filled
<1> QED BY <1>3, <1>4, <1>5, <1>6, <1>7 DEF IInv, TypeOK

(* Before the analysis. *)
LEMMA SetupPreserves ==
  ASSUME IInv, Setup
  PROVE  IInv' /\ Filled(fills) \subseteq Filled(fills')
<1> USE DEF IInv, TypeOK
<1>1. CASE LoadLatestInputs
  <2>1. PICK S \in SUBSET Symbols : ImportBars(S)
    BY <1>1 DEF LoadLatestInputs
  <2>2. /\ run' = run /\ row' = row /\ UNCHANGED local
        /\ stage = "data" /\ stage' = "settle"
    BY <1>1 DEF LoadLatestInputs
  <2>3. OnlySettled
    BY <2>2 DEF StageInv, EarlyStages
  <2>4. StoreTypeOK' /\ LedgerInv' /\ OnlySettled'
    BY <2>1, <2>2, <2>3, ImportBarsPreserves
  <2>5. RunTypeOK' /\ StageInv'
    BY <2>2, <2>4 DEF RunTypeOK, StageInv, local, Stages
  <2>6. Filled(fills) \subseteq Filled(fills')
    BY <2>1 DEF ImportBars, Filled
  <2> QED BY <2>4, <2>5, <2>6
<1>2. CASE SettlePending
  <2>1. /\ run' = run /\ row' = row /\ UNCHANGED local /\ SettleQueue(run)
        /\ stage = "settle" /\ stage' = "select"
    BY <1>2 DEF SettlePending
  <2>2. OnlySettled /\ run \in Runs
    BY <2>1 DEF StageInv, EarlyStages
  <2>3. StoreTypeOK' /\ LedgerInv' /\ OnlySettled' /\ Filled(fills) \subseteq Filled(fills')
    BY <2>1, <2>2, SettleQueuePreserves
  <2>4. RunTypeOK' /\ StageInv'
    BY <2>1, <2>3 DEF RunTypeOK, StageInv, local, Stages
  <2> QED BY <2>3, <2>4
<1>3. CASE SelectSymbols
  <2>1. /\ run' = run /\ UNCHANGED store /\ approved' = approved /\ proposed' = proposed
        /\ stage = "select" /\ stage' = "analyse"
        /\ midway' = midway /\ funded' = funded /\ ok' = ok /\ bad' = bad
    BY <1>3 DEF SelectSymbols
  <2>2. StoreTypeOK' /\ LedgerInv' /\ Filled(fills) \subseteq Filled(fills') /\ OnlySettled'
    BY <2>1, StoreUnchangedPreserves DEF StageInv, EarlyStages
  <2>3. /\ scope' \subseteq Symbols /\ todo' = scope'
        /\ row' = [status |-> "RUNNING", ok |-> {}, bad |-> {}, scope |-> scope',
                   finished |-> FALSE]
    <3>1. PendingSymbols \subseteq Symbols
      BY DecisionParts DEF PendingSymbols, Pending
    <3>2. VisiblePositions \subseteq Symbols
      BY DEF VisiblePositions, LatestAccount, StoreTypeOK
    <3>3. \A e \in Decisions : SymbolOf(e) \in Symbols
      BY DecisionParts
    <3> QED BY <1>3, <3>1, <3>2, <3>3 DEF SelectSymbols, StoreRow
  <2>4. RunTypeOK' /\ StageInv'
    BY <2>1, <2>2, <2>3 DEF RunTypeOK, StageInv, Stages, RunStatuses
  <2> QED BY <2>2, <2>4
<1>4. CASE SetupFails
  <2>1. run' = run /\ UNCHANGED store /\ EndRun
    BY <1>4 DEF SetupFails
  <2>2. row' \in [status : RunStatuses, ok : SUBSET Symbols, bad : SUBSET Symbols,
                   scope : SUBSET Symbols, finished : BOOLEAN]
    BY <1>4 DEF SetupFails, StoreRow, RunStatuses, RunTypeOK
  <2> QED BY <2>1, <2>2, StoreUnchangedPreserves, EndRunPreserves
<1> QED BY <1>1, <1>2, <1>3, <1>4 DEF Setup

(* A symbol that fails, in the analysis or in the finalisation. *)
LEMMA SymbolFailsPreserves ==
  ASSUME IInv, SymbolFails \/ SymbolAborts
  PROVE  IInv' /\ Filled(fills) \subseteq Filled(fills')
<1> USE DEF IInv, TypeOK
<1>1. Failing \subseteq Symbols
  BY DEF Failing, RunTypeOK
<1>2. CASE SymbolFails
  <2>1. /\ run' = run /\ UNCHANGED store /\ stage' = stage
        /\ scope' = scope /\ proposed' = proposed /\ approved' = approved
        /\ funded' = funded /\ ok' = ok /\ midway' = {}
        /\ stage \in {"analyse", "finalise"}
    BY <1>2 DEF SymbolFails
  <2>2. PICK s \in Failing : /\ bad' = bad \cup {s} /\ todo' = todo \ {s}
                              /\ StoreProgress(ok, bad \cup {s})
    BY <1>2 DEF SymbolFails, LeftAfterFailure
  <2>3. row' \in [status : RunStatuses, ok : SUBSET Symbols, bad : SUBSET Symbols,
                   scope : SUBSET Symbols, finished : BOOLEAN]
    BY <1>1, <2>2, StatusForType DEF StoreProgress, StoreRow, RunTypeOK
  <2>4. StoreTypeOK' /\ LedgerInv' /\ Filled(fills) \subseteq Filled(fills') /\ OnlySettled'
    BY <2>1, StoreUnchangedPreserves DEF StageInv, EarlyStages
  <2>5. RunTypeOK'
    BY <1>1, <2>1, <2>2, <2>3 DEF RunTypeOK
  <2>6. StageInv'
    BY <2>1, <2>4 DEF StageInv
  <2> QED BY <2>4, <2>5, <2>6
<1>3. CASE SymbolAborts
  <2>1. run' = run /\ UNCHANGED store /\ EndRun
    BY <1>3 DEF SymbolAborts
  <2>2. row' \in [status : RunStatuses, ok : SUBSET Symbols, bad : SUBSET Symbols,
                   scope : SUBSET Symbols, finished : BOOLEAN]
    BY <1>1, <1>3 DEF SymbolAborts, StoreRow, RunStatuses, RunTypeOK
  <2> QED BY <2>1, <2>2, StoreUnchangedPreserves, EndRunPreserves
<1> QED BY <1>2, <1>3

LEMMA AnalysePreserves ==
  ASSUME IInv, Analyse
  PROVE  IInv' /\ Filled(fills) \subseteq Filled(fills')
<1> USE DEF IInv, TypeOK
<1>1. CASE StoreDebate
  <2>1. PICK s \in todo : CleanUp(run, {s}) /\ midway' = {s}
    BY <1>1 DEF StoreDebate
  <2>2. /\ run' = run /\ stage' = stage /\ stage = "analyse" /\ row' = row
        /\ scope' = scope /\ todo' = todo /\ proposed' = proposed /\ approved' = approved
        /\ funded' = funded /\ ok' = ok /\ bad' = bad
    BY <1>1 DEF StoreDebate
  <2>3. OnlySettled /\ run \in Runs /\ s \in Symbols
    BY <2>2 DEF StageInv, EarlyStages, RunTypeOK
  <2>4. StoreTypeOK' /\ LedgerInv' /\ OnlySettled' /\ Filled(fills) \subseteq Filled(fills')
    BY <2>1, <2>2, <2>3, CleanUpPreserves, CleanUpKeepsFills DEF Filled
  <2>5. RunTypeOK' /\ StageInv'
    BY <2>1, <2>2, <2>3, <2>4 DEF RunTypeOK, StageInv
  <2> QED BY <2>4, <2>5
<1>2. CASE StoreProposal
  <2>1. PICK s \in midway : /\ \E action \in AllowedActions(s) :
                                  proposed' = [proposed EXCEPT ![s] = action]
                             /\ CleanUp(run, {s}) /\ todo' = todo \ {s}
    BY <1>2 DEF StoreProposal
  <2>2. /\ run' = run /\ stage' = stage /\ stage = "analyse" /\ midway' = {}
        /\ scope' = scope /\ approved' = approved /\ StoreProgress(ok, bad)
        /\ funded' = funded /\ ok' = ok /\ bad' = bad
    BY <1>2 DEF StoreProposal
  <2>3. OnlySettled /\ run \in Runs /\ s \in Symbols /\ approved = {}
    BY <2>2 DEF StageInv, EarlyStages, RunTypeOK
  <2>4. StoreTypeOK' /\ LedgerInv' /\ OnlySettled' /\ Filled(fills) \subseteq Filled(fills')
    BY <2>1, <2>2, <2>3, CleanUpPreserves, CleanUpKeepsFills DEF Filled
  <2>5. AllowedActions(s) \subseteq ProposedActions
    BY DEF AllowedActions, ProposedActions
  <2>6. row' \in [status : RunStatuses, ok : SUBSET Symbols, bad : SUBSET Symbols,
                   scope : SUBSET Symbols, finished : BOOLEAN]
    BY <2>2, StatusForType DEF StoreProgress, StoreRow, RunTypeOK
  <2>7. RunTypeOK'
    BY <2>1, <2>2, <2>3, <2>5, <2>6 DEF RunTypeOK
  <2>8. StageInv'
    BY <2>2, <2>3, <2>4 DEF StageInv
  <2> QED BY <2>4, <2>7, <2>8
<1>3. CASE AnalysisDone
  <2>1. /\ run' = run /\ UNCHANGED store /\ UNCHANGED local /\ row' = row
        /\ stage = "analyse" /\ stage' \in {"complete", "allocate"}
    BY <1>3 DEF AnalysisDone
  <2>2. StoreTypeOK' /\ LedgerInv' /\ Filled(fills) \subseteq Filled(fills') /\ OnlySettled'
    BY <2>1, StoreUnchangedPreserves DEF StageInv, EarlyStages
  <2>3. RunTypeOK' /\ StageInv'
    BY <2>1, <2>2 DEF RunTypeOK, StageInv, local, Stages
  <2> QED BY <2>2, <2>3
<1>4. CASE SymbolFails \/ SymbolAborts
  BY <1>4, SymbolFailsPreserves
<1> QED BY <1>1, <1>2, <1>3, <1>4 DEF Analyse

LEMMA FinalisePreserves ==
  ASSUME IInv, Finalise
  PROVE  IInv' /\ Filled(fills) \subseteq Filled(fills')
<1> USE DEF IInv, TypeOK
<1>1. CASE Allocate
  <2>1. PICK buys \in SUBSET Symbols : \E sales \in SUBSET (VisiblePositions \ buys) :
          LET symbols == scope \cup buys \cup sales IN
          /\ CleanUp(run, (scope \ bad) \cup buys \cup sales)
          /\ proposed' = [s \in Symbols |-> IF s \in buys THEN "BUY"
                                             ELSE IF s \in sales THEN "SELL" ELSE proposed[s]]
          /\ scope' = symbols /\ todo' = symbols \ bad
          /\ funded' \in SUBSET (symbols \ bad)
          /\ StoreRow(row.status, ok, bad, symbols, FALSE)
    BY <1>1 DEF Allocate
  <2>2. PICK sales \in SUBSET (VisiblePositions \ buys) :
          LET symbols == scope \cup buys \cup sales IN
          /\ CleanUp(run, (scope \ bad) \cup buys \cup sales)
          /\ proposed' = [s \in Symbols |-> IF s \in buys THEN "BUY"
                                             ELSE IF s \in sales THEN "SELL" ELSE proposed[s]]
          /\ scope' = symbols /\ todo' = symbols \ bad
          /\ funded' \in SUBSET (symbols \ bad)
          /\ StoreRow(row.status, ok, bad, symbols, FALSE)
    BY <2>1
  <2>3. /\ run' = run /\ stage = "allocate" /\ stage' = "finalise"
        /\ midway' = midway /\ approved' = approved /\ ok' = ok /\ bad' = bad
    BY <1>1 DEF Allocate
  <2>4. OnlySettled /\ run \in Runs /\ approved = {}
    BY <2>3 DEF StageInv, EarlyStages
  <2>5. VisiblePositions \subseteq Symbols
    BY DEF VisiblePositions, LatestAccount, StoreTypeOK
  <2>6. (scope \ bad) \cup buys \cup sales \in SUBSET Symbols
    BY <2>5 DEF RunTypeOK
  <2>7. StoreTypeOK' /\ LedgerInv' /\ OnlySettled' /\ Filled(fills) \subseteq Filled(fills')
    BY <2>2, <2>3, <2>4, <2>6, CleanUpPreserves, CleanUpKeepsFills DEF Filled
  <2>8. RunTypeOK'
    <3>1. proposed' \in [Symbols -> ProposedActions]
      BY <2>2 DEF RunTypeOK, ProposedActions
    <3>2. scope' \subseteq Symbols /\ todo' \subseteq Symbols /\ funded' \subseteq Symbols
      BY <2>2, <2>5 DEF RunTypeOK
    <3>3. row' \in [status : RunStatuses, ok : SUBSET Symbols, bad : SUBSET Symbols,
                   scope : SUBSET Symbols, finished : BOOLEAN]
      BY <2>2, <2>5 DEF StoreRow, RunTypeOK
    <3> QED BY <2>3, <3>1, <3>2, <3>3 DEF RunTypeOK, Stages
  <2>9. StageInv'
    BY <2>3, <2>4, <2>7 DEF StageInv
  <2> QED BY <2>7, <2>8, <2>9
<1>2. CASE AllocationFails
  <2>1. /\ run' = run /\ UNCHANGED store /\ stage = "allocate" /\ stage' = "complete"
        /\ bad' = bad \cup FailedByAllocation /\ StoreProgress(ok, bad')
        /\ scope' = scope /\ todo' = todo /\ midway' = midway /\ proposed' = proposed
        /\ approved' = approved /\ funded' = funded /\ ok' = ok
    BY <1>2 DEF AllocationFails
  <2>2. StoreTypeOK' /\ LedgerInv' /\ Filled(fills) \subseteq Filled(fills')
    BY <2>1, StoreUnchangedPreserves
  <2>3. bad' \subseteq Symbols
    BY <2>1 DEF FailedByAllocation, RunTypeOK
  <2>4. row' \in [status : RunStatuses, ok : SUBSET Symbols, bad : SUBSET Symbols,
                   scope : SUBSET Symbols, finished : BOOLEAN]
    BY <2>1, <2>3, StatusForType DEF StoreProgress, StoreRow, RunTypeOK
  <2>5. RunTypeOK' /\ StageInv'
    BY <2>1, <2>3, <2>4 DEF RunTypeOK, StageInv, EarlyStages, Stages
  <2> QED BY <2>2, <2>5
<1>3. CASE AllocationAborts
  <2>1. run' = run /\ UNCHANGED store /\ EndRun
    BY <1>3 DEF AllocationAborts
  <2>2. row' \in [status : RunStatuses, ok : SUBSET Symbols, bad : SUBSET Symbols,
                   scope : SUBSET Symbols, finished : BOOLEAN]
    BY <1>3 DEF AllocationAborts, StoreRow, RunStatuses, RunTypeOK, FailedByAllocation
  <2> QED BY <2>1, <2>2, StoreUnchangedPreserves, EndRunPreserves
<1>4. CASE StoreReview
  <2>1. PICK s \in todo : CleanUp(run, {s}) /\ midway' = {s}
    BY <1>4 DEF StoreReview
  <2>2. /\ run' = run /\ stage' = stage /\ stage = "finalise" /\ row' = row
        /\ scope' = scope /\ todo' = todo /\ proposed' = proposed /\ approved' = approved
        /\ funded' = funded /\ ok' = ok /\ bad' = bad
    BY <1>4 DEF StoreReview
  <2>3. OnlySettled /\ run \in Runs /\ s \in Symbols
    BY <2>2 DEF StageInv, EarlyStages, RunTypeOK
  <2>4. StoreTypeOK' /\ LedgerInv' /\ OnlySettled' /\ Filled(fills) \subseteq Filled(fills')
    BY <2>1, <2>2, <2>3, CleanUpPreserves, CleanUpKeepsFills DEF Filled
  <2>5. RunTypeOK' /\ StageInv'
    BY <2>1, <2>2, <2>3, <2>4 DEF RunTypeOK, StageInv
  <2> QED BY <2>4, <2>5
<1>5. CASE StoreDecision
  <2>1. PICK s \in midway :
          /\ CleanUp(run, {s}) /\ todo' = todo \ {s} /\ ok' = ok \cup {s}
          /\ approved' \in {approved} \cup
               (IF proposed[s] = "NONE" THEN {} ELSE {approved \cup {s}})
          /\ StoreProgress(ok', bad)
    BY <1>5 DEF StoreDecision
  <2>2. /\ run' = run /\ stage' = stage /\ stage = "finalise" /\ midway' = {}
        /\ scope' = scope /\ proposed' = proposed /\ funded' = funded /\ bad' = bad
    BY <1>5 DEF StoreDecision
  <2>3. OnlySettled /\ run \in Runs /\ s \in Symbols
    BY <2>2 DEF StageInv, EarlyStages, RunTypeOK
  <2>4. StoreTypeOK' /\ LedgerInv' /\ OnlySettled' /\ Filled(fills) \subseteq Filled(fills')
    BY <2>1, <2>2, <2>3, CleanUpPreserves, CleanUpKeepsFills DEF Filled
  <2>5. approved' \subseteq approved \cup {s} /\ \A t \in approved' : proposed[t] # "NONE"
    BY <2>1 DEF StageInv
  <2>6. row' \in [status : RunStatuses, ok : SUBSET Symbols, bad : SUBSET Symbols,
                   scope : SUBSET Symbols, finished : BOOLEAN]
    BY <2>1, <2>3, StatusForType DEF StoreProgress, StoreRow, RunTypeOK
  <2>7. RunTypeOK'
    BY <2>1, <2>2, <2>3, <2>5, <2>6 DEF RunTypeOK
  <2>8. StageInv'
    BY <2>2, <2>3, <2>4, <2>5 DEF StageInv
  <2> QED BY <2>4, <2>7, <2>8
<1>6. CASE FinalisationDone
  <2>1. /\ run' = run /\ UNCHANGED store /\ row' = row /\ todo' = ok \cap funded \cap approved
        /\ stage = "finalise" /\ stage' \in {"complete", "route"}
        /\ scope' = scope /\ midway' = midway /\ proposed' = proposed
        /\ approved' = approved /\ funded' = funded /\ ok' = ok /\ bad' = bad
    BY <1>6 DEF FinalisationDone
  <2>2. StoreTypeOK' /\ LedgerInv' /\ Filled(fills) \subseteq Filled(fills') /\ orders' = orders
    BY <2>1, StoreUnchangedPreserves
  <2>3. OnlySettled /\ run \in Runs
    BY <2>1 DEF StageInv, EarlyStages
  <2>4. \A s \in todo' : orders'[<<run, s>>].status = "NONE"
    BY <2>1, <2>2, <2>3, DecisionParts DEF OnlySettled, RunTypeOK
  <2>5. RunTypeOK'
    BY <2>1 DEF RunTypeOK, Stages
  <2>6. StageInv'
    BY <2>1, <2>3, <2>4 DEF StageInv, EarlyStages
  <2> QED BY <2>2, <2>5, <2>6
<1>7. CASE SymbolFails \/ SymbolAborts
  BY <1>7, SymbolFailsPreserves
<1> QED BY <1>1, <1>2, <1>3, <1>4, <1>5, <1>6, <1>7 DEF Finalise

LEMMA ExecutePreserves ==
  ASSUME IInv, Execute
  PROVE  IInv' /\ Filled(fills) \subseteq Filled(fills')
<1> USE DEF IInv, TypeOK
<1>1. CASE Route
  <2>1. PICK s \in todo : /\ PlaceOrder(run, s, proposed[s], run \in AfterClose, clock + 1)
                           /\ todo' = todo \ {s}
                           /\ bad' \in {bad, bad \cup FailedByRouting(s)}
    BY <1>1 DEF Route
  <2>2. /\ run' = run /\ stage = "route" /\ stage' = stage /\ row' = row
        /\ scope' = scope /\ midway' = midway /\ proposed' = proposed
        /\ approved' = approved /\ funded' = funded /\ ok' = ok
    BY <1>1 DEF Route
  <2>3. /\ s \in Symbols /\ run \in Runs /\ orders[<<run, s>>].status = "NONE"
        /\ proposed[s] \in {"BUY", "SELL"}
    BY <2>2 DEF StageInv, RunTypeOK, ProposedActions
  <2>4. /\ StoreTypeOK' /\ LedgerInv' /\ Filled(fills) \subseteq Filled(fills')
        /\ \A t \in Symbols \ {s} : orders'[<<run, t>>] = orders[<<run, t>>]
    <3> DEFINE queued == run \in AfterClose
    <3>1. queued \in BOOLEAN
      OBVIOUS
    <3>2. PlaceOrder(run, s, proposed[s], queued, clock + 1)
      BY <2>1
    <3> HIDE DEF queued
    <3> QED BY <2>2, <2>3, <3>1, <3>2, PlaceOrderPreserves
  <2>5. RunTypeOK'
    BY <2>1, <2>2, <2>3 DEF RunTypeOK, FailedByRouting
  <2>6. StageInv'
    BY <2>1, <2>2, <2>4 DEF StageInv, EarlyStages, RunTypeOK
  <2> QED BY <2>4, <2>5, <2>6
<1>2. CASE RouteFails
  <2>1. PICK s \in todo : todo' = todo \ {s} /\ bad' = bad \cup FailedByRouting(s)
    BY <1>2 DEF RouteFails
  <2>2. /\ run' = run /\ stage = "route" /\ stage' = stage /\ row' = row /\ UNCHANGED store
        /\ scope' = scope /\ midway' = midway /\ proposed' = proposed
        /\ approved' = approved /\ funded' = funded /\ ok' = ok
    BY <1>2 DEF RouteFails
  <2>3. StoreTypeOK' /\ LedgerInv' /\ Filled(fills) \subseteq Filled(fills') /\ orders' = orders
    BY <2>2, StoreUnchangedPreserves
  <2>4. RunTypeOK'
    BY <2>1, <2>2 DEF RunTypeOK, FailedByRouting
  <2>5. StageInv'
    BY <2>1, <2>2, <2>3 DEF StageInv, EarlyStages
  <2> QED BY <2>3, <2>4, <2>5
<1>3. CASE RoutingDone
  <2>1. /\ run' = run /\ UNCHANGED store /\ UNCHANGED local /\ StoreProgress(ok, bad)
        /\ stage = "route" /\ stage' = "complete"
    BY <1>3 DEF RoutingDone
  <2>2. StoreTypeOK' /\ LedgerInv' /\ Filled(fills) \subseteq Filled(fills')
    BY <2>1, StoreUnchangedPreserves
  <2>3. row' \in [status : RunStatuses, ok : SUBSET Symbols, bad : SUBSET Symbols,
                   scope : SUBSET Symbols, finished : BOOLEAN]
    BY <2>1, StatusForType DEF StoreProgress, StoreRow, RunTypeOK
  <2>4. RunTypeOK' /\ StageInv'
    BY <2>1, <2>3 DEF RunTypeOK, StageInv, EarlyStages, local, Stages
  <2> QED BY <2>2, <2>4
<1>4. CASE Complete
  <2>1. run' = run /\ UNCHANGED store /\ EndRun
    BY <1>4 DEF Complete
  <2>2. row' \in [status : RunStatuses, ok : SUBSET Symbols, bad : SUBSET Symbols,
                   scope : SUBSET Symbols, finished : BOOLEAN]
    BY <1>4, StatusForType DEF Complete, StoreRow, RunTypeOK
  <2> QED BY <2>1, <2>2, StoreUnchangedPreserves, EndRunPreserves
<1> QED BY <1>1, <1>2, <1>3, <1>4 DEF Execute

LEMMA StepPreserves ==
  ASSUME IInv, [Next]_vars
  PROVE  IInv' /\ Filled(fills) \subseteq Filled(fills')
<1> USE DEF IInv, TypeOK
<1>1. CASE BeginRun
  BY <1>1, BeginRunPreserves
<1>2. CASE RunStep
  BY <1>2, SetupPreserves, AnalysePreserves, FinalisePreserves, ExecutePreserves DEF RunStep
<1>3. CASE Crash
  <2>1. run' = run /\ UNCHANGED store /\ EndRun /\ row' = row
    BY <1>3 DEF Crash
  <2> QED BY <2>1, StoreUnchangedPreserves, EndRunPreserves DEF RunTypeOK
<1>4. CASE UNCHANGED vars
  <2>1. /\ run' = run /\ UNCHANGED store /\ stage' = stage /\ row' = row /\ UNCHANGED local
    BY <1>4 DEF vars
  <2>2. /\ StoreTypeOK' /\ LedgerInv' /\ Filled(fills) \subseteq Filled(fills')
        /\ orders' = orders /\ (OnlySettled => OnlySettled')
    BY <2>1, StoreUnchangedPreserves
  <2>3. RunTypeOK' /\ StageInv'
    BY <2>1, <2>2 DEF RunTypeOK, StageInv, local
  <2> QED BY <2>2, <2>3
<1> QED BY <1>1, <1>2, <1>3, <1>4 DEF Next

LEMMA InvariantHolds == Spec => []IInv
<1>1. Init => IInv
  BY InitEstablishes
<1>2. IInv /\ [Next]_vars => IInv'
  BY StepPreserves
<1> QED BY <1>1, <1>2, PTL DEF Spec

-----------------------------------------------------------------------------
(* The theorems.                                                           *)

(* Every row and every list of the daily run stays well-formed. *)
THEOREM RunTypesHold == Spec => []TypeOK
<1>1. IInv => TypeOK
  BY DEF IInv
<1> QED BY <1>1, InvariantHolds, PTL

(* The clean-up before each artefact, which deletes the orders and fills of *)
(* the run and symbol it is for, never takes a fill out of the ledger, nor *)
(* does a crash or a settlement.                                           *)
THEOREM FillsSurviveCleanUp == Spec => LedgerIsAppendOnly
<1>1. IInv /\ [Next]_vars => [Filled(fills) \subseteq Filled(fills')]_vars
  BY StepPreserves
<1> QED BY <1>1, InvariantHolds, PTL DEF Spec, LedgerIsAppendOnly

(* Of the runs with an account row one is the last. *)
LEMMA LastAccountExists ==
  ASSUME TypeOK, NEW q \in Runs, accounts[q].at # 0
  PROVE  \E r \in Runs : /\ accounts[r].at # 0
                         /\ \A t \in Runs : accounts[t].at # 0 => t <= r
<1> DEFINE R == {p \in Nat \X Nat : p[1] < p[2]}
           S == {n \in Nat : \E r \in Runs : accounts[r].at # 0 /\ n = MaxRuns - r}
<1>1. IsWellFoundedOn(R, Nat)
  BY NatLessThanWellFounded DEF OpToRel
<1>2. MaxRuns - q \in S
  BY RunsAssumption DEF Runs
<1>3. PICK n \in S : \A m \in S : ~(<<m, n>> \in R)
  <2>1. S \in SUBSET Nat /\ S # {}
    BY <1>2
  <2> HIDE DEF R, S
  <2> QED BY <1>1, <2>1, WFMin
<1>4. PICK r \in Runs : accounts[r].at # 0 /\ n = MaxRuns - r
  OBVIOUS
<1>5. ASSUME NEW t \in Runs, accounts[t].at # 0
      PROVE  t <= r
  <2>1. MaxRuns - t \in S
    BY <1>5, RunsAssumption DEF Runs
  <2>2. ~(MaxRuns - t < n)
    BY <1>3, <2>1
  <2> QED BY <1>4, <2>2, RunsAssumption DEF Runs
<1> QED BY <1>4, <1>5

(* Accounts are updated run by run, so the row updated last is that of the *)
(* last run that has one, whose book is complete.                          *)
LEMMA LastAccountIsComplete ==
  ASSUME IInv
  PROVE  LatestAccountShowsAllFills
<1> USE DEF IInv, NoRun
<1>0. /\ \A r \in Runs : r \in Nat /\ accounts[r].at \in Nat
      /\ \A q, r \in Runs :
           q < r /\ accounts[q].at # 0 /\ accounts[r].at # 0 => accounts[q].at < accounts[r].at
  <2>1. \A r \in Runs : r \in Nat /\ accounts[r].at \in Nat
    <3>1. \A r \in Runs : accounts[r].at \in Nat
      BY DEF TypeOK, StoreTypeOK
    <3> QED BY <3>1, RunsAssumption DEF Runs
  <2>2. AccountsInOrder
    BY DEF LedgerInv
  <2> QED BY <2>1, <2>2 DEF AccountsInOrder
<1>1. ASSUME NEW d \in Decisions, fills[d].by # NoRun
      PROVE  fills[d].by \in Runs /\ accounts[fills[d].by].at # 0
  BY <1>1 DEF LedgerInv, FillsAreAccounted, TypeOK, StoreTypeOK, Runs
<1>2. ASSUME NEW q \in Runs, accounts[q].at # 0
      PROVE  LatestAccount # {}
  <2>1. PICK r \in Runs : accounts[r].at # 0 /\ \A t \in Runs : accounts[t].at # 0 => t <= r
    BY <1>2, LastAccountExists
  <2>2. \A t \in Runs : accounts[t].at <= accounts[r].at
    BY <1>0, <2>1
  <2> QED BY <2>1, <2>2 DEF LatestAccount
<1>3. ASSUME NEW r \in LatestAccount
      PROVE  accounts[r].book = Filled(fills)
  <2>1. /\ r \in Runs /\ accounts[r].at # 0
        /\ \A t \in Runs : accounts[t].at <= accounts[r].at
    BY DEF LatestAccount
  <2>2. \A t \in Runs : accounts[t].at # 0 => t <= r
    BY <1>0, <2>1
  <2>3. \A d \in Decisions : fills[d].by # NoRun <=> fills[d].by \in 1..r
    BY <1>1, <2>1, <2>2 DEF Runs
  <2>4. accounts[r].book = {d \in Decisions : fills[d].by \in 1..r}
    BY <2>1 DEF LedgerInv, BooksAreComplete
  <2> QED BY <2>3, <2>4 DEF Filled
<1>4. LatestAccount = {} => Filled(fills) = {}
  BY <1>1, <1>2 DEF Filled
<1> QED BY <1>3, <1>4 DEF LatestAccountShowsAllFills

(* The account row every reader takes for the portfolio's accounts for     *)
(* every fill there is.                                                    *)
THEOREM AccountShowsAllFills == Spec => []LatestAccountShowsAllFills
<1>1. IInv => LatestAccountShowsAllFills
  BY LastAccountIsComplete
<1> QED BY <1>1, InvariantHolds, PTL

-----------------------------------------------------------------------------
(* The outcome of a run.                                                   *)

Started == {"analyse", "allocate", "finalise", "route", "complete"}

(* The lists of the process sort the symbols of the run: those of a stage  *)
(* are done, failed or still to do.                                        *)
ListsInv ==
  /\ ok \subseteq scope /\ bad \subseteq scope /\ todo \subseteq scope
  /\ midway \subseteq todo
  /\ stage \notin Started => todo = {} /\ bad = {}
  /\ stage \notin {"analyse", "finalise"} => midway = {}
  /\ stage \notin {"finalise", "route", "complete"} => ok = {}
  /\ stage \in Started => scope # {}
  /\ stage = "finalise" => todo \cup ok \cup bad = scope
  /\ stage \in {"route", "complete"} => ok \cup bad = scope

OutcomeInv == ListsInv /\ OutcomeAccountsForAll

(* A run that ends with nothing left behind keeps the lists sorted.        *)
LEMMA EndRunKeepsLists ==
  ASSUME EndRun
  PROVE  ListsInv'
BY DEF EndRun, ListsInv, Started

LEMMA SetupKeepsOutcome ==
  ASSUME OutcomeInv, BeginRun \/ Setup
  PROVE  OutcomeInv'
<1> USE DEF OutcomeInv
<1>1. CASE BeginRun
  BY <1>1 DEF BeginRun, StoreRow, ListsInv, Started, OutcomeAccountsForAll
<1>2. CASE LoadLatestInputs \/ SettlePending
  BY <1>2 DEF LoadLatestInputs, SettlePending, local, ListsInv, Started, OutcomeAccountsForAll
<1>3. CASE SelectSymbols
  BY <1>3 DEF SelectSymbols, StoreRow, ListsInv, Started, OutcomeAccountsForAll
<1>4. CASE SetupFails
  BY <1>4, EndRunKeepsLists DEF SetupFails, StoreRow, OutcomeAccountsForAll
<1> QED BY <1>1, <1>2, <1>3, <1>4 DEF Setup

LEMMA AnalyseKeepsOutcome ==
  ASSUME OutcomeInv, Analyse
  PROVE  OutcomeInv'
<1> USE DEF OutcomeInv
<1>1. CASE StoreDebate
  BY <1>1 DEF StoreDebate, ListsInv, Started, OutcomeAccountsForAll
<1>2. CASE StoreProposal
  BY <1>2 DEF StoreProposal, StoreProgress, StoreRow, ListsInv, Started,
              OutcomeAccountsForAll
<1>3. CASE SymbolFails
  <2>1. PICK s \in Failing :
          bad' = bad \cup {s} /\ todo' = todo \ {s} /\ ~row'.finished
    BY <1>3 DEF SymbolFails, LeftAfterFailure, StoreProgress, StoreRow
  <2>2. s \in todo
    BY DEF Failing, ListsInv
  <2>3. /\ stage \in {"analyse", "finalise"} /\ midway' = {}
        /\ UNCHANGED <<stage, scope, ok>>
    BY <1>3 DEF SymbolFails
  <2> QED BY <2>1, <2>2, <2>3 DEF ListsInv, Started, OutcomeAccountsForAll
<1>4. CASE SymbolAborts
  BY <1>4, EndRunKeepsLists DEF SymbolAborts, StoreRow, OutcomeAccountsForAll
<1>5. CASE AnalysisDone
  BY <1>5 DEF AnalysisDone, local, ListsInv, Started, OutcomeAccountsForAll
<1> QED BY <1>1, <1>2, <1>3, <1>4, <1>5 DEF Analyse

LEMMA FinaliseKeepsOutcome ==
  ASSUME OutcomeInv, Finalise
  PROVE  OutcomeInv'
<1> USE DEF OutcomeInv
<1>1. CASE Allocate
  <2>1. PICK buys \in SUBSET Symbols : \E sales \in SUBSET (VisiblePositions \ buys) :
          /\ scope' = scope \cup buys \cup sales
          /\ todo' = scope' \ bad /\ ~row'.finished
    BY <1>1 DEF Allocate, StoreRow
  <2>2. /\ stage = "allocate" /\ stage' = "finalise"
        /\ UNCHANGED <<midway, ok, bad>>
    BY <1>1 DEF Allocate
  <2> QED BY <2>1, <2>2 DEF ListsInv, Started, OutcomeAccountsForAll
<1>2. CASE AllocationFails
  BY <1>2 DEF AllocationFails, FailedByAllocation, StoreProgress, StoreRow, ListsInv,
              Started, OutcomeAccountsForAll
<1>3. CASE AllocationAborts
  BY <1>3, EndRunKeepsLists DEF AllocationAborts, StoreRow, OutcomeAccountsForAll
<1>4. CASE StoreReview
  BY <1>4 DEF StoreReview, ListsInv, Started, OutcomeAccountsForAll
<1>5. CASE StoreDecision
  <2>1. PICK s \in midway : todo' = todo \ {s} /\ ok' = ok \cup {s} /\ ~row'.finished
    BY <1>5 DEF StoreDecision, StoreProgress, StoreRow
  <2>2. /\ stage = "finalise" /\ midway' = {} /\ UNCHANGED <<stage, scope, bad>>
    BY <1>5 DEF StoreDecision
  <2> QED BY <2>1, <2>2 DEF ListsInv, Started, OutcomeAccountsForAll
<1>6. CASE FinalisationDone
  BY <1>6 DEF FinalisationDone, ListsInv, Started, OutcomeAccountsForAll
<1> QED BY <1>1, <1>2, <1>3, <1>4, <1>5, <1>6 DEF Finalise

LEMMA ExecuteKeepsOutcome ==
  ASSUME OutcomeInv, Execute
  PROVE  OutcomeInv'
<1> USE DEF OutcomeInv
<1>1. CASE Route \/ RouteFails
  <2>1. PICK s \in todo : todo' = todo \ {s} /\ bad' \in {bad, bad \cup {s}}
    BY <1>1 DEF Route, RouteFails, FailedByRouting
  <2>2. /\ stage = "route" /\ UNCHANGED <<stage, scope, midway, ok, row>>
    BY <1>1 DEF Route, RouteFails
  <2> QED BY <2>1, <2>2 DEF ListsInv, Started, OutcomeAccountsForAll
<1>2. CASE RoutingDone
  BY <1>2 DEF RoutingDone, StoreProgress, StoreRow, local, ListsInv, Started,
              OutcomeAccountsForAll
<1>3. CASE Complete
  <2>1. ok \cup bad = scope /\ scope # {}
    BY <1>3 DEF Complete, ListsInv, Started
  <2>2. /\ StatusFor(ok, bad) # "RUNNING"
        /\ StatusFor(ok, bad) = "COMPLETED" => bad = {}
    BY <2>1 DEF StatusFor
  <2>3. OutcomeAccountsForAll'
    BY <1>3, <2>1, <2>2 DEF Complete, StoreRow, OutcomeAccountsForAll
  <2> QED BY <1>3, <2>3, EndRunKeepsLists DEF Complete
<1> QED BY <1>1, <1>2, <1>3 DEF Execute

(* A run row that is finished accounts for every symbol of the run, and     *)
(* COMPLETED means that none failed (paper_trading/service.py, run_once).  *)
THEOREM OutcomeIsComplete == Spec => []OutcomeAccountsForAll
<1>1. Init => OutcomeInv
  BY DEF Init, NoRow, OutcomeInv, ListsInv, Started, OutcomeAccountsForAll
<1>2. OutcomeInv /\ [Next]_vars => OutcomeInv'
  <2> SUFFICES ASSUME OutcomeInv, [Next]_vars PROVE OutcomeInv'
    OBVIOUS
  <2>1. CASE Crash
    BY <2>1, EndRunKeepsLists DEF Crash, OutcomeInv, OutcomeAccountsForAll
  <2>2. CASE UNCHANGED vars
    BY <2>2 DEF vars, local, OutcomeInv, ListsInv, OutcomeAccountsForAll
  <2> QED BY <2>1, <2>2, SetupKeepsOutcome, AnalyseKeepsOutcome, FinaliseKeepsOutcome,
             ExecuteKeepsOutcome DEF Next, RunStep
<1>3. OutcomeInv => OutcomeAccountsForAll
  BY DEF OutcomeInv
<1> QED BY <1>1, <1>2, <1>3, PTL DEF Spec

-----------------------------------------------------------------------------
(* The queue and the orders of a run.                                      *)

(* While the run routes, the decisions it has taken up have their order or *)
(* are reported.                                                           *)
RoutedInv ==
  stage = "route" =>
    \A s \in (ok \cap funded \cap approved) \ todo :
      s \in bad \/ orders[<<run, s>>].status # "NONE"

QueueInv == NothingRipeAfterSettlement /\ RoutedInv /\ ExecutedOrReported

NoneRipe == \A d \in Pending : ~orders[d].ripe

LEMMA CleanUpRipensNothing ==
  ASSUME NoneRipe, NEW S, CleanUp(run, S)
  PROVE  NoneRipe'
<1>1. \A d \in Decisions : orders'[d] \in {NoOrder, orders[d]}
  BY DEF CleanUp
<1> QED BY <1>1 DEF NoneRipe, Pending, NoOrder

(* Settlement takes every order that has a bar to fill at.                 *)
LEMMA SettlementLeavesNoneRipe ==
  ASSUME NEW r, SettleQueue(r)
  PROVE  NoneRipe'
<1>1. \A d \in Decisions :
        \/ d \notin SettlementBatch /\ orders'[d] = orders[d]
        \/ orders'[d].status \in {"FILLED", "REJECTED"}
  BY DEF SettleQueue, StoreAccount, OrderRow
<1>2. \A d \in Decisions \ SettlementBatch :
        orders[d].status = "PENDING_NEXT_OPEN" => ~orders[d].ripe
  BY DEF SettlementBatch, Pending
<1> QED BY <1>1, <1>2 DEF NoneRipe, Pending

(* Placing an order stores its row, ripe or not, and touches no other.     *)
LEMMA PlacedOrder ==
  ASSUME TypeOK, NEW r \in Runs, NEW s \in Symbols, NEW side, NEW queued, NEW stamp,
         PlaceOrder(r, s, side, queued, stamp)
  PROVE  /\ orders'[<<r, s>>].status # "NONE" /\ ~orders'[<<r, s>>].ripe
         /\ \A d \in Decisions : d # <<r, s>> => orders'[d] = orders[d]
<1>1. <<r, s>> \in Decisions
  BY DecisionParts
<1>2. PICK status \in {"REJECTED", "PENDING_NEXT_OPEN", "FILLED"} :
        orders' = [orders EXCEPT ![<<r, s>>] = OrderRow(status, side, queued, FALSE, stamp)]
  BY DEF PlaceOrder, StoreAccount
<1>3. DOMAIN orders = Decisions
  BY DEF TypeOK, StoreTypeOK
<1> QED BY <1>1, <1>2, <1>3 DEF OrderRow

LEMMA QueueStep ==
  ASSUME IInv, QueueInv, [Next]_vars
  PROVE  QueueInv'
<1> USE DEF QueueInv, NothingRipeAfterSettlement, NoneRipe
<1>1. CASE BeginRun
  BY <1>1 DEF BeginRun, RoutedInv, ExecutedOrReported
<1>2. CASE LoadLatestInputs
  BY <1>2 DEF LoadLatestInputs, RoutedInv, ExecutedOrReported
<1>3. CASE SettlePending
  BY <1>3, SettlementLeavesNoneRipe DEF SettlePending, RoutedInv, ExecutedOrReported
<1>4. CASE SelectSymbols
  BY <1>4 DEF SelectSymbols, store, Pending, RoutedInv, ExecutedOrReported
<1>5. CASE SetupFails \/ SymbolAborts \/ AllocationAborts \/ Complete \/ Crash
  BY <1>5 DEF SetupFails, SymbolAborts, AllocationAborts, Complete, Crash, EndRun,
              RoutedInv, ExecutedOrReported
<1>6. CASE StoreDebate \/ StoreProposal \/ StoreReview \/ StoreDecision
  <2>1. (\E S : CleanUp(run, S)) /\ stage' = stage /\ stage \in {"analyse", "finalise"}
    BY <1>6 DEF StoreDebate, StoreProposal, StoreReview, StoreDecision
  <2>2. NoneRipe'
    BY <2>1, CleanUpRipensNothing
  <2> QED BY <2>1, <2>2 DEF RoutedInv, ExecutedOrReported
<1>7. CASE Allocate
  <2>1. (\E S : CleanUp(run, S)) /\ stage = "allocate" /\ stage' = "finalise"
    BY <1>7 DEF Allocate
  <2>2. NoneRipe'
    BY <2>1, CleanUpRipensNothing
  <2> QED BY <2>1, <2>2 DEF RoutedInv, ExecutedOrReported
<1>8. CASE SymbolFails
  BY <1>8 DEF SymbolFails, store, Pending, RoutedInv, ExecutedOrReported
<1>9. CASE AnalysisDone \/ AllocationFails \/ FinalisationDone
  <2>1. /\ stage \in {"analyse", "allocate", "finalise"} /\ orders' = orders
        /\ run' = run /\ UNCHANGED <<ok, funded, approved>>
    BY <1>9 DEF AnalysisDone, AllocationFails, FinalisationDone, store, local
  <2>2. stage' = "route" => todo' = ok \cap funded \cap approved
    BY <1>9 DEF AnalysisDone, AllocationFails, FinalisationDone
  <2>3. stage' = "complete" => ok \cap approved = {}
    BY <1>9 DEF AnalysisDone, AllocationFails, FinalisationDone, IInv, StageInv
  <2>4. NoneRipe'
    BY <2>1 DEF Pending
  <2> QED BY <2>1, <2>2, <2>3, <2>4 DEF RoutedInv, ExecutedOrReported
<1>10. CASE Route
  <2>1. PICK s \in todo : /\ PlaceOrder(run, s, proposed[s], run \in AfterClose, clock + 1)
                          /\ todo' = todo \ {s}
                          /\ bad' \in {bad, bad \cup {s}}
    BY <1>10 DEF Route, FailedByRouting
  <2>2. /\ stage = "route" /\ stage' = "route" /\ run' = run
        /\ UNCHANGED <<ok, funded, approved>>
    BY <1>10 DEF Route
  <2>3. TypeOK /\ run \in Runs /\ s \in Symbols /\ approved \subseteq Symbols
    BY <2>2 DEF IInv, TypeOK, RunTypeOK, StageInv
  <2>4. /\ orders'[<<run, s>>].status # "NONE" /\ ~orders'[<<run, s>>].ripe
        /\ \A d \in Decisions : d # <<run, s>> => orders'[d] = orders[d]
    BY <2>1, <2>3, PlacedOrder
  <2>5. NoneRipe'
    BY <2>2, <2>4 DEF Pending
  <2>6. RoutedInv'
    <3>1. ASSUME NEW q \in (ok \cap funded \cap approved) \ todo'
          PROVE  q \in bad' \/ orders'[<<run, q>>].status # "NONE"
      <4>1. <<run, q>> \in Decisions
        BY <2>3, DecisionParts
      <4>2. CASE q = s
        BY <2>4, <4>2
      <4>3. CASE q # s
        <5>1. orders'[<<run, q>>] = orders[<<run, q>>]
          BY <2>4, <4>1, <4>3
        <5> QED BY <2>1, <2>2, <4>3, <5>1 DEF RoutedInv
      <4> QED BY <4>2, <4>3
    <3> QED BY <2>2, <3>1 DEF RoutedInv
  <2> QED BY <2>2, <2>5, <2>6 DEF ExecutedOrReported
<1>11. CASE RouteFails
  BY <1>11 DEF RouteFails, FailedByRouting, store, Pending, RoutedInv, ExecutedOrReported
<1>12. CASE RoutingDone
  BY <1>12 DEF RoutingDone, store, local, Pending, RoutedInv, ExecutedOrReported
<1>13. CASE UNCHANGED vars
  BY <1>13 DEF vars, store, local, Pending, RoutedInv, ExecutedOrReported
<1> QED BY <1>1, <1>2, <1>3, <1>4, <1>5, <1>6, <1>7, <1>8, <1>9, <1>10, <1>11, <1>12, <1>13
        DEF Next, RunStep, Setup, Analyse, Finalise, Execute

LEMMA QueueInvariant == Spec => []QueueInv
<1>1. Init => QueueInv
  BY DEF Init, QueueInv, NothingRipeAfterSettlement, RoutedInv, ExecutedOrReported
<1>2. IInv /\ QueueInv /\ [Next]_vars => QueueInv'
  BY QueueStep
<1> QED BY <1>1, <1>2, InvariantHolds, PTL DEF Spec

(* Once a run has settled, no order with a bar to fill at waits on          *)
(* (brokers/paper_broker.py, settle_pending_next_open_orders).             *)
THEOREM SettlementIsExhaustive == Spec => []NothingRipeAfterSettlement
<1>1. QueueInv => NothingRipeAfterSettlement
  BY DEF QueueInv
<1> QED BY <1>1, QueueInvariant, PTL

(* A decision the run was to execute has its order row, or its symbol is    *)
(* reported as failed (paper_trading/service.py, _route_run_execution).    *)
THEOREM NoDecisionIsLost == Spec => []ExecutedOrReported
<1>1. QueueInv => ExecutedOrReported
  BY DEF QueueInv
<1> QED BY <1>1, QueueInvariant, PTL

-----------------------------------------------------------------------------
(* Position rows.                                                          *)

(* No fill is later than the clock. *)
FillsInPast == \A d \in Decisions : fills[d].at <= clock

(* Of the fills that the runs up to q made, a BUY of s is the last word. *)
Open(os, fs, q, s) ==
  \E d \in Decisions :
    /\ SymbolOf(d) = s /\ fs[d].by \in 1..q /\ os[d].side = "BUY"
    /\ \A e \in Decisions :
         SymbolOf(e) = s /\ fs[e].by \in 1..q /\ fs[e].closes => fs[e].at < fs[d].at

(* The position rows of a run are backed by the fills its account row      *)
(* accounts for, also while that row is not the latest: the clean-up may   *)
(* delete the latest one and bring an older one to the fore.               *)
PositionsBacked ==
  \A q \in Runs : accounts[q].at # 0 => \A s \in positions[q] : Open(orders, fills, q, s)

HoldingInv == FillsInPast /\ PositionsBacked

(* Fills that stand keep a holding open. *)
LEMMA OpenStands ==
  ASSUME NEW os, NEW fs, NEW os2, NEW fs2, NEW q, NEW s, Open(os, fs, q, s),
         \A d \in Decisions : fs2[d].by \in 1..q => fs[d].by \in 1..q,
         \A d \in Decisions : fs[d].by \in 1..q =>
           fs2[d] = fs[d] /\ os2[d].side = os[d].side
  PROVE  Open(os2, fs2, q, s)
<1>1. PICK d \in Decisions :
        /\ SymbolOf(d) = s /\ fs[d].by \in 1..q /\ os[d].side = "BUY"
        /\ \A e \in Decisions :
             SymbolOf(e) = s /\ fs[e].by \in 1..q /\ fs[e].closes => fs[e].at < fs[d].at
  BY DEF Open
<1>2. SymbolOf(d) = s /\ fs2[d].by \in 1..q /\ os2[d].side = "BUY" /\ fs2[d].at = fs[d].at
  BY <1>1
<1>3. ASSUME NEW e \in Decisions, SymbolOf(e) = s, fs2[e].by \in 1..q, fs2[e].closes
      PROVE  fs2[e].at < fs2[d].at
  BY <1>1, <1>2, <1>3
<1> QED BY <1>2, <1>3 DEF Open

(* A step that adds no fill and no position row keeps what is open. *)
LEMMA NothingAdded ==
  ASSUME TypeOK, HoldingInv, clock' \in Nat, clock <= clock',
         \A d \in Decisions : \/ fills'[d] = fills[d] /\ orders'[d].side = orders[d].side
                              \/ fills[d].by = NoRun /\ fills'[d] = NoFill,
         \A q \in Runs : accounts'[q].at # 0 => accounts[q].at # 0,
         \A q \in Runs : positions'[q] \subseteq positions[q]
  PROVE  HoldingInv'
<1>1. clock \in Nat /\ \A d \in Decisions : fills[d].at \in Nat
  BY DEF TypeOK, StoreTypeOK
<1>2. FillsInPast'
  BY <1>1 DEF HoldingInv, FillsInPast, NoFill
<1>3. ASSUME NEW q \in Runs, accounts'[q].at # 0, NEW s \in positions'[q]
      PROVE  Open(orders', fills', q, s)
  <2>1. Open(orders, fills, q, s)
    BY <1>3 DEF HoldingInv, PositionsBacked
  <2>2. q \in Nat /\ NoRun \notin 1..q
    BY DEF Runs, NoRun
  <2>3. \A d \in Decisions : fills'[d].by \in 1..q => fills[d].by \in 1..q
    BY <2>2 DEF NoFill
  <2>4. \A d \in Decisions : fills[d].by \in 1..q =>
          fills'[d] = fills[d] /\ orders'[d].side = orders[d].side
    BY <2>2
  <2> QED BY <2>1, <2>3, <2>4, OpenStands
<1>4. PositionsBacked'
  BY <1>3 DEF PositionsBacked
<1> QED BY <1>2, <1>4 DEF HoldingInv

LEMMA CleanUpKeepsHoldings ==
  ASSUME TypeOK, LedgerInv, HoldingInv, OnlySettled, run \in Runs,
         NEW S \in SUBSET Symbols, CleanUp(run, S)
  PROVE  HoldingInv'
<1>1. /\ \A d \in Decisions : fills'[d].by = fills[d].by
      /\ \A d \in Decisions : fills[d].by # NoRun => orders'[d] = orders[d]
  BY CleanUpKeepsFills
<1>2. \A d \in Decisions : fills'[d] \in {fills[d], NoFill}
  BY DEF CleanUp
<1>3. ASSUME NEW d \in Decisions
      PROVE  \/ fills'[d] = fills[d] /\ orders'[d].side = orders[d].side
             \/ fills[d].by = NoRun /\ fills'[d] = NoFill
  <2>1. CASE fills[d].by # NoRun
    <3>1. fills'[d] = fills[d]
      BY <1>1, <1>2, <2>1 DEF NoFill
    <3> QED BY <1>1, <2>1, <3>1
  <2>2. CASE fills[d].by = NoRun /\ fills'[d] = NoFill
    BY <2>2
  <2>3. CASE fills[d].by = NoRun /\ fills'[d] # NoFill
    <3>1. fills'[d] = fills[d] /\ d \notin FillsCleaned(run, S)
      BY <2>3 DEF CleanUp
    <3>2. d \notin {run} \X S
      BY <3>1 DEF FillsCleaned
    <3> QED BY <3>1, <3>2 DEF CleanUp
  <2> QED BY <2>1, <2>2, <2>3
<1>4. clock' = clock /\ clock \in Nat
  BY DEF CleanUp, TypeOK, StoreTypeOK
<1>5. \A q \in Runs : accounts'[q] \in {accounts[q], NoAccount}
  BY DEF CleanUp, TypeOK, StoreTypeOK
<1>6. \A q \in Runs : accounts'[q].at # 0 => accounts[q].at # 0
  BY <1>5 DEF NoAccount
<1>7. \A q \in Runs : positions'[q] \subseteq positions[q]
  BY DEF CleanUp, TypeOK, StoreTypeOK
<1> QED BY <1>3, <1>4, <1>6, <1>7, NothingAdded

(* Storing the account of a run rewrites its position rows from all fills. *)
LEMMA StoreAccountKeepsHoldings ==
  ASSUME TypeOK, LedgerInv, HoldingInv, run \in Runs,
         NEW os, NEW fs, NEW stamp \in Nat, stamp > clock,
         StoreAccount(run, os, fs, stamp),
         \A d \in Decisions : \/ fs[d] = fills[d] /\ os[d].side = orders[d].side
                              \/ fills[d].by = NoRun /\ fs[d].by \in {NoRun, run},
         \A d \in Decisions : fs[d].at \in Nat /\ fs[d].at <= stamp
  PROVE  HoldingInv'
<1>1. orders' = os /\ fills' = fs /\ clock' = stamp
  BY DEF StoreAccount, TypeOK, StoreTypeOK
<1>2. \A q \in Runs : q # run => accounts'[q] = accounts[q] /\ positions'[q] = positions[q]
  BY DEF StoreAccount, TypeOK, StoreTypeOK
<1>3. positions'[run] = HeldAt(os, fs, stamp)
  BY DEF StoreAccount, PositionRows, TypeOK, StoreTypeOK
<1>4. FillsInPast'
  BY <1>1 DEF FillsInPast
<1>5. \A d \in Decisions : fills[d].by \in Nat /\ fills[d].by <= run /\ fs[d].by \in 0..run
  <2>1. \A d \in Decisions : fills[d].by \in Nat /\ fills[d].by <= run
    BY DEF LedgerInv, NothingFromTheFuture, TypeOK, StoreTypeOK
  <2> QED BY <2>1 DEF NoRun, Runs
<1>6. ASSUME NEW q \in Runs, accounts'[q].at # 0, NEW s \in positions'[q]
      PROVE  Open(os, fs, q, s)
  <2>1. CASE q = run
    <3>1. PICK d \in Decisions :
            /\ d \in Filled(fs) /\ SymbolOf(d) = s /\ os[d].side = "BUY"
            /\ \A e \in Decisions :
                 e \in Filled(fs) /\ SymbolOf(e) = s /\ fs[e].at <= stamp /\ fs[e].closes =>
                   fs[e].at < fs[d].at
      BY <1>3, <1>6, <2>1 DEF HeldAt, Filled
    <3>2. \A e \in Decisions : e \in Filled(fs) <=> fs[e].by \in 1..run
      BY <1>5 DEF Filled, NoRun, Runs
    <3>3. \A e \in Decisions :
            SymbolOf(e) = s /\ fs[e].by \in 1..q /\ fs[e].closes => fs[e].at < fs[d].at
      BY <3>1, <3>2, <2>1
    <3> QED BY <3>1, <3>2, <3>3, <2>1 DEF Open
  <2>2. CASE q # run
    <3>1. accounts[q].at # 0 /\ s \in positions[q]
      BY <1>2, <1>6, <2>2
    <3>2. Open(orders, fills, q, s) /\ q < run
      BY <3>1, <2>2 DEF HoldingInv, PositionsBacked, LedgerInv, NothingFromTheFuture, Runs
    <3>3. \A d \in Decisions : fs[d].by \in 1..q => fills[d].by \in 1..q
      BY <3>2 DEF NoRun, Runs
    <3>4. \A d \in Decisions : fills[d].by \in 1..q =>
            fs[d] = fills[d] /\ os[d].side = orders[d].side
      BY DEF NoRun, Runs
    <3> QED BY <3>2, <3>3, <3>4, OpenStands
  <2> QED BY <2>1, <2>2
<1>7. PositionsBacked'
  BY <1>1, <1>6 DEF PositionsBacked
<1> QED BY <1>4, <1>7 DEF HoldingInv

LEMMA SettlementKeepsHoldings ==
  ASSUME TypeOK, LedgerInv, HoldingInv, run \in Runs, SettleQueue(run)
  PROVE  HoldingInv'
<1> DEFINE batch == SettlementBatch
           now == clock + 1
           turn(d) == now + Cardinality({e \in batch : orders[e].at <= orders[d].at})
           stamp == now + Cardinality(batch)
           settled(filled) ==
             [d \in Decisions |->
                IF d \in batch
                THEN OrderRow(IF d \in filled THEN "FILLED" ELSE "REJECTED",
                              orders[d].side, TRUE, TRUE, turn(d))
                ELSE orders[d]]
           withFills(filled, closing) ==
             [d \in Decisions |->
                IF d \in filled THEN Fill(run, turn(d), d \in closing) ELSE fills[d]]
<1>1. /\ batch \in SUBSET Decisions
      /\ \A d \in batch : orders[d].status = "PENDING_NEXT_OPEN"
  BY DEF SettlementBatch, Pending
<1>2. IsFiniteSet(batch)
  <2>1. IsFiniteSet(Runs)
    BY FS_Interval, RunsAssumption DEF Runs
  <2>2. IsFiniteSet(Decisions)
    BY <2>1, SymbolsAssumption, FS_Product DEF Decisions
  <2> QED BY <1>1, <2>2, FS_Subset
<1>3. clock \in Nat /\ Cardinality(batch) \in Nat
  BY <1>2, FS_CardinalityType DEF TypeOK, StoreTypeOK
<1>4. \A d \in Decisions : turn(d) \in Nat /\ turn(d) <= stamp
  <2> SUFFICES ASSUME NEW d \in Decisions PROVE turn(d) \in Nat /\ turn(d) <= stamp
    OBVIOUS
  <2> DEFINE before == {e \in batch : orders[e].at <= orders[d].at}
  <2>1. before \in SUBSET batch
    OBVIOUS
  <2>2. Cardinality(before) \in Nat /\ Cardinality(before) <= Cardinality(batch)
    <3> HIDE DEF before, batch
    <3> QED BY <1>2, <2>1, FS_Subset, FS_CardinalityType
  <2> QED BY <1>3, <2>2
<1>5. PICK filled \in SUBSET batch : \E closing \in SUBSET filled :
        StoreAccount(run, settled(filled), withFills(filled, closing), stamp)
  BY DEF SettleQueue
<1>6. PICK closing \in SUBSET filled :
        StoreAccount(run, settled(filled), withFills(filled, closing), stamp)
  BY <1>5
<1> DEFINE os == settled(filled)
           fs == withFills(filled, closing)
<1> HIDE DEF turn, stamp
<1>7. \A d \in Decisions : os[d].side = orders[d].side
  BY DEF OrderRow
<1>8. \A d \in batch : fills[d].by = NoRun
  BY <1>1 DEF LedgerInv, FillsHaveOrders
<1>9. \A d \in Decisions : \/ fs[d] = fills[d] /\ os[d].side = orders[d].side
                           \/ fills[d].by = NoRun /\ fs[d].by \in {NoRun, run}
  BY <1>7, <1>8 DEF Fill
<1>10. stamp \in Nat /\ stamp > clock
  BY <1>3 DEF stamp
<1>11. ASSUME NEW d \in Decisions PROVE fs[d].at \in Nat /\ fs[d].at <= stamp
  <2>1. CASE d \in filled
    BY <1>4, <2>1 DEF Fill
  <2>2. CASE d \notin filled
    <3>1. fs[d] = fills[d]
      BY <2>2
    <3>2. fills[d].at \in Nat /\ fills[d].at <= clock
      BY DEF HoldingInv, FillsInPast, TypeOK, StoreTypeOK
    <3> HIDE DEF fs
    <3> QED BY <1>3, <1>10, <3>1, <3>2
  <2> QED BY <2>1, <2>2
<1> HIDE DEF os, fs
<1>12. StoreAccount(run, os, fs, stamp)
  BY <1>6 DEF os, fs
<1> QED BY <1>9, <1>10, <1>11, <1>12, StoreAccountKeepsHoldings

LEMMA PlacementKeepsHoldings ==
  ASSUME TypeOK, LedgerInv, HoldingInv, run \in Runs,
         NEW s \in Symbols, NEW side, NEW queued,
         orders[<<run, s>>].status = "NONE",
         PlaceOrder(run, s, side, queued, clock + 1)
  PROVE  HoldingInv'
<1> DEFINE d == <<run, s>>
           stamp == clock + 1
           earlier == [fills EXCEPT ![d] = NoFill]
<1>1. d \in Decisions /\ fills[d].by = NoRun
  BY DecisionParts DEF LedgerInv, FillsHaveOrders
<1> DEFINE entry(status) == OrderRow(status, side, queued, FALSE, stamp)
           put(status, fs) == StoreAccount(run, [orders EXCEPT ![d] = entry(status)], fs, stamp)
<1>2. PICK status \in {"REJECTED", "PENDING_NEXT_OPEN", "FILLED"}, closes \in BOOLEAN :
        \/ put(status, earlier)
        \/ put(status, [earlier EXCEPT ![d] = Fill(run, stamp, closes)])
  <2>1. \/ put("REJECTED", earlier)
        \/ put("PENDING_NEXT_OPEN", earlier)
        \/ \E closes \in BOOLEAN : put("FILLED", [earlier EXCEPT ![d] = Fill(run, stamp, closes)])
    <3> HIDE DEF put, earlier, stamp, d
    <3> QED BY DEF PlaceOrder, put, earlier, stamp, d
  <2> HIDE DEF put, earlier
  <2> QED BY <2>1
<1> DEFINE os == [orders EXCEPT ![d] = entry(status)]
<1>21. PICK fs \in {earlier, [earlier EXCEPT ![d] = Fill(run, stamp, closes)]} :
         StoreAccount(run, os, fs, stamp)
  <2> HIDE DEF entry, earlier, stamp, d
  <2> QED BY <1>2
<1>3. /\ clock \in Nat /\ stamp \in Nat /\ stamp > clock
      /\ DOMAIN orders = Decisions /\ DOMAIN fills = Decisions
  BY DEF TypeOK, StoreTypeOK
<1>4. /\ \A e \in Decisions : e # d => fs[e] = fills[e] /\ os[e] = orders[e]
      /\ fs[d] \in {NoFill, Fill(run, stamp, closes)}
  BY <1>1, <1>21, <1>3
<1>5. \A e \in Decisions : fills[e].at \in Nat /\ fills[e].at <= clock
  BY DEF HoldingInv, FillsInPast, TypeOK, StoreTypeOK
<1> HIDE DEF d, stamp, os, entry
<1>6. \A e \in Decisions : \/ fs[e] = fills[e] /\ os[e].side = orders[e].side
                           \/ fills[e].by = NoRun /\ fs[e].by \in {NoRun, run}
  BY <1>1, <1>4 DEF NoFill, Fill
<1>7. \A e \in Decisions : fs[e].at \in Nat /\ fs[e].at <= stamp
  BY <1>3, <1>4, <1>5 DEF NoFill, Fill
<1> QED BY <1>21, <1>3, <1>6, <1>7, StoreAccountKeepsHoldings

LEMMA HoldingStep ==
  ASSUME IInv, HoldingInv, [Next]_vars
  PROVE  HoldingInv'
<1>1. /\ TypeOK /\ LedgerInv /\ (stage # "idle" => run \in Runs)
      /\ (stage \in EarlyStages => OnlySettled) /\ clock \in Nat
  BY DEF IInv, StageInv, TypeOK, StoreTypeOK
<1>2. ASSUME UNCHANGED <<fills, accounts, positions>>, clock' \in {clock, clock + 1},
             \A d \in Decisions : orders'[d].side = orders[d].side
      PROVE  HoldingInv'
  <2>1. clock' \in Nat /\ clock <= clock'
    BY <1>1, <1>2
  <2> QED BY <1>1, <1>2, <2>1, NothingAdded
<1>3. CASE UNCHANGED store
  BY <1>2, <1>3 DEF store
<1>4. CASE BeginRun
  BY <1>2, <1>4 DEF BeginRun
<1>5. CASE LoadLatestInputs
  <2>1. PICK S \in SUBSET Symbols : ImportBars(S)
    BY <1>5 DEF LoadLatestInputs
  <2>2. ASSUME NEW d \in Decisions PROVE orders'[d].side = orders[d].side
    <3>1. orders'[d] \in {orders[d], [orders[d] EXCEPT !.ripe = TRUE]}
      BY <2>1 DEF ImportBars
    <3>2. [orders[d] EXCEPT !.ripe = TRUE].side = orders[d].side
      BY <1>1 DEF TypeOK, StoreTypeOK
    <3> QED BY <3>1, <3>2
  <2> QED BY <1>2, <2>1, <2>2 DEF ImportBars
<1>6. CASE SettlePending
  BY <1>1, <1>6, SettlementKeepsHoldings DEF SettlePending
<1>7. CASE StoreDebate \/ StoreProposal \/ StoreReview \/ StoreDecision \/ Allocate
  <2>1. stage \in EarlyStages /\ run \in Runs
    BY <1>1, <1>7 DEF StoreDebate, StoreProposal, StoreReview, StoreDecision, Allocate,
                      EarlyStages
  <2>2. scope \subseteq Symbols /\ todo \subseteq Symbols /\ midway \subseteq Symbols
        /\ VisiblePositions \subseteq Symbols
    <3>1. positions \in [Runs -> SUBSET Symbols]
      BY <1>1 DEF TypeOK, StoreTypeOK
    <3> QED BY <1>1, <3>1 DEF TypeOK, RunTypeOK, VisiblePositions, LatestAccount
  <2>3. \E S \in SUBSET Symbols : CleanUp(run, S)
    <3>1. CASE Allocate
      <4>1. PICK buys \in SUBSET Symbols, sales \in SUBSET VisiblePositions :
              CleanUp(run, (scope \ bad) \cup buys \cup sales)
        BY <3>1 DEF Allocate
      <4>2. (scope \ bad) \cup buys \cup sales \in SUBSET Symbols
        BY <2>2, <4>1
      <4> QED BY <4>1, <4>2
    <3>2. CASE StoreDebate \/ StoreProposal \/ StoreReview \/ StoreDecision
      <4>1. PICK s \in todo \cup midway : CleanUp(run, {s})
        BY <3>2 DEF StoreDebate, StoreProposal, StoreReview, StoreDecision
      <4>2. {s} \in SUBSET Symbols
        BY <2>2, <4>1
      <4> QED BY <4>1, <4>2
    <3> QED BY <1>7, <3>1, <3>2
  <2> QED BY <1>1, <2>1, <2>3, CleanUpKeepsHoldings
<1>8. CASE Route
  <2>1. PICK s \in todo : PlaceOrder(run, s, proposed[s], run \in AfterClose, clock + 1)
    BY <1>8 DEF Route
  <2>2. run \in Runs /\ s \in Symbols /\ orders[<<run, s>>].status = "NONE"
    BY <1>1, <1>8, <2>1 DEF Route, IInv, StageInv, TypeOK, RunTypeOK
  <2> QED BY <1>1, <2>1, <2>2, PlacementKeepsHoldings
<1>9. CASE \/ SelectSymbols \/ SetupFails \/ SymbolFails \/ SymbolAborts \/ AnalysisDone
           \/ AllocationFails \/ AllocationAborts \/ FinalisationDone \/ RouteFails
           \/ RoutingDone \/ Complete \/ Crash \/ UNCHANGED vars
  BY <1>3, <1>9 DEF SelectSymbols, SetupFails, SymbolFails, SymbolAborts, AnalysisDone,
       AllocationFails, AllocationAborts, FinalisationDone, RouteFails, RoutingDone,
       Complete, Crash, vars
<1> QED BY <1>4, <1>5, <1>6, <1>7, <1>8, <1>9
        DEF Next, RunStep, Setup, Analyse, Finalise, Execute

LEMMA VisibleIsHeld ==
  ASSUME IInv, HoldingInv
  PROVE  VisiblePositionsAreHeld
<1>1. LatestAccountShowsAllFills
  BY LastAccountIsComplete
<1>2. ASSUME NEW r \in LatestAccount, NEW s \in positions[r]
      PROVE  s \in Held
  <2>1. r \in Runs /\ accounts[r].at # 0 /\ accounts[r].book = Filled(fills)
    BY <1>1 DEF LatestAccount, LatestAccountShowsAllFills
  <2>2. Filled(fills) = {d \in Decisions : fills[d].by \in 1..r}
    BY <2>1 DEF IInv, LedgerInv, BooksAreComplete
  <2>3. PICK d \in Decisions :
          /\ SymbolOf(d) = s /\ fills[d].by \in 1..r /\ orders[d].side = "BUY"
          /\ \A e \in Decisions :
               SymbolOf(e) = s /\ fills[e].by \in 1..r /\ fills[e].closes =>
                 fills[e].at < fills[d].at
    BY <2>1 DEF HoldingInv, PositionsBacked, Open
  <2>4. d \in Filled(fills) /\ fills[d].at <= clock /\ s \in Symbols
    BY <2>2, <2>3, DecisionParts DEF HoldingInv, FillsInPast
  <2> QED BY <2>2, <2>3, <2>4 DEF Held, HeldAt
<1> QED BY <1>2 DEF VisiblePositionsAreHeld, VisiblePositions

(* A position row that readers see is backed by a holding, whichever run's  *)
(* row it is and whatever the clean-up has deleted: a symbol sold out is    *)
(* not offered for another sale (db/repositories.py, replace_account_state *)
(* and _delete_paper_artifacts_for_run_symbol).                            *)
THEOREM ShownIsHeld == Spec => []VisiblePositionsAreHeld
<1>1. Init => HoldingInv
  BY DEF Init, InitStore, HoldingInv, FillsInPast, PositionsBacked, NoFill, NoAccount
<1>2. IInv /\ HoldingInv /\ [Next]_vars => HoldingInv'
  BY HoldingStep
<1>3. IInv /\ HoldingInv => VisiblePositionsAreHeld
  BY VisibleIsHeld
<1> QED BY <1>1, <1>2, <1>3, InvariantHolds, PTL DEF Spec
=============================================================================
