-------------------------- MODULE PortfolioLedger --------------------------
(***************************************************************************)
(* What the paper broker promises of a portfolio, without prices, bars,    *)
(* accounts or sessions: each approved decision is queued, executed or     *)
(* refused; a queued one is later settled in a batch or cancelled; nothing *)
(* is executed beyond what was asked; and the holding of a symbol is what  *)
(* its executed decisions bought less what they sold, and never negative.  *)
(***************************************************************************)
EXTENDS Integers, FiniteSetsExt

CONSTANTS Symbols, Decisions, SymbolOf, Side

VARIABLES
  phase,   \* of a decision
  asked,   \* quantity of its order
  done,    \* quantity executed
  held     \* holding of a symbol
vars == <<phase, asked, done, held>>

Init ==
  /\ phase = [d \in Decisions |-> "new"]
  /\ asked = [d \in Decisions |-> 0]
  /\ done = [d \in Decisions |-> 0]
  /\ held = [s \in Symbols |-> 0]

Traded(S, side, s) ==
  MapThenSumSet(LAMBDA d : done'[d],
                {d \in S : Side[d] = side /\ SymbolOf[d] = s})

(* The decisions of S are finished together: each executed in part or in   *)
(* whole, or refused.                                                      *)
Finish(S) ==
  /\ \A d \in S :
       \/ phase'[d] = "executed" /\ done'[d] \in 1..asked'[d]
       \/ phase'[d] = "refused" /\ done'[d] = 0
  /\ \A d \in Decisions \ S :
       phase'[d] = phase[d] /\ asked'[d] = asked[d] /\ done'[d] = done[d]
  /\ held' = [s \in Symbols |->
                held[s] + Traded(S, "BUY", s) - Traded(S, "SELL", s)]
  /\ \A s \in Symbols : held'[s] >= 0

PlaceNow(d) == phase[d] = "new" /\ Finish({d})

Queue(d) ==
  /\ phase[d] = "new"
  /\ phase' = [phase EXCEPT ![d] = "queued"]
  /\ asked'[d] > 0 /\ asked' = [asked EXCEPT ![d] = asked'[d]]
  /\ UNCHANGED <<done, held>>

SettleBatch(S) ==
  /\ S # {} /\ \A d \in S : phase[d] = "queued" /\ asked'[d] = asked[d]
  /\ Finish(S)

(* A partly executed order may be cancelled for what is left of it. *)
Cancel(d) ==
  /\ phase[d] = "queued" \/ (phase[d] = "executed" /\ done[d] < asked[d])
  /\ phase' = [phase EXCEPT ![d] = "cancelled"]
  /\ UNCHANGED <<asked, done, held>>

Next ==
  \/ \E d \in Decisions : PlaceNow(d) \/ Queue(d) \/ Cancel(d)
  \/ \E S \in SUBSET Decisions : SettleBatch(S)

Spec == Init /\ [][Next]_vars
=============================================================================
