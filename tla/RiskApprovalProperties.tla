------------------------- MODULE RiskApprovalProperties -------------------------
(* What the risk review and the final approval must guarantee.              *)
EXTENDS RiskApproval

(* Every variable has its type. *)
RiskTypeOK ==
  /\ riskStage \in {"idle", "finalising"}
  /\ held \in [Names -> Nat] /\ seen \in [Names -> Nat] /\ money \in Nat
  /\ \A s \in Names : /\ review[s].status \in {"none", "APPROVED", "APPROVED_WITH_REDUCTION",
                                               "REJECTED", "BLOCKED"}
                      /\ decision[s].status \in {"none", "APPROVED_FOR_PAPER", "NO_ACTION",
                                                 "REJECTED", "BLOCKED"}
                      /\ review[s].approved \in Nat /\ decision[s].quantity \in Nat

(* No rule meant for new exposure keeps a position from being given up:     *)
(* unless the kill switch is on or the symbol or its data are not usable,   *)
(* every EXIT of a position goes to the broker with all of it.              *)
ExitsPass ==
  \A s \in Finalised :
    (/\ Proposal(s).action = "EXIT" /\ seen[s] > 0 /\ ~runInput.kill
     /\ s \notin runInput.inactive \cup runInput.stale) =>
      decision[s].status = "APPROVED_FOR_PAPER" /\ decision[s].quantity = seen[s]

(* A BUY that is approved leads to a position within the cap of a stock and *)
(* within the limit of every group it is exposed to, on top of what the     *)
(* other members of the group are worth when it is decided, whatever the    *)
(* monitor sold since the proposal.                                         *)
ApprovedBuyFitsLimits ==
  \A s \in Finalised :
    (riskStage = "finalising" /\ Buying(s) /\ decision[s].quantity > 0) =>
      LET after == ShareOf(s, held[s] + decision[s].quantity)
          others(S) == SumOver(Exposures, S \ {s})
      IN  /\ after <= RiskPolicy.maxPosition
          /\ \A c \in DOMAIN ExposureKeys : \A key \in KeysOf(c, s) :
               others(Sharing(c, key)) + after <= LimitOf(c)
          /\ CorrelatedWith(s) # {} =>
               others(CorrelatedWith(s)) + after <= LimitOf("correlated_cluster")

(* The approval holds back what must not be bought and nothing that has to  *)
(* be sold (risk/engine.py, agents/portfolio_manager.py).                   *)
ApprovalsFollowLimits == ExitsPass /\ ApprovedBuyFitsLimits
=============================================================================
