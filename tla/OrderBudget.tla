---------------------------- MODULE OrderBudget ----------------------------
(***************************************************************************)
(* The money of one order under the domain package's arithmetic: a budget  *)
(* estimated from a target weight, the escrow it funds, lots that are      *)
(* weighed, compared with the evidence, quoted and paid, and the rest that *)
(* returns to the buyer, next to what the order's row shows of it.  The    *)
(* contract's rules about weights and payments are kept as guards;         *)
(* AlpactoCore is their full model.  Which session a deposit, its booking  *)
(* or its failure belongs to is not followed here, so that they come in    *)
(* any order; Funding follows them.                                        *)
(***************************************************************************)
EXTENDS PricingMath, Totals

CONSTANTS
  Policies,        \* pricing policies a campaign may have
  Categories,      \* category codes
  FundingCategory, \* the category budgets are estimated with ("FINE")
  Targets,         \* target weights, in grams
  Lots,            \* lots of the order
  Weights,         \* declared weights
  Readings,        \* what vision may read off the scale
  Documents,       \* what vision may read off the classification document
  MaxFunding,      \* the demo's cap on a budget, in USDC units
  MaxDeposits      \* bound on the sessions of the order that are deposited

ASSUME BudgetAssumption ==
  /\ FundingCategory \in Categories /\ IsFiniteSet(Lots)
  /\ Targets \cup Weights \subseteq Nat \ {0}
  /\ Policies \subseteq
       [price : [Categories -> Nat], bonus : [Categories -> Nat],
        associationBps : Nat, platformBps : Nat, rate : Nat, tolerance : Nat]
  /\ \A r \in Readings : r.seen => r.grams \in Nat
  /\ MaxFunding \in Nat /\ MaxDeposits \in Nat

\* createPricingPolicySchema: a USDC costs 20 soles at most, so that a unit of it
\* is worth far less than half a centavo.
ASSUME RateAssumption ==
  \A p \in Policies : 2 * Rate(p) * CentavosPerSol <= UsdcScale * MicrosScale

VARIABLES
  policy,   \* the campaign's policy: never updated once it is inserted
  order,    \* status, target, budget in USD cents, USDC deposited so far
  escrow,   \* USDC the contract holds for the order
  lot,      \* the lots of the order, with their current inspection
  books,    \* the order's row: its status and the remaining USDC it shows
  settling, \* the request that settles each lot, and the remaining it has read
  withdrawal, \* where the buyer's request for the remainder is
  short     \* history: a settlement has read a row that missed a deposit

vars == <<policy, order, escrow, lot, books, settling, withdrawal, short>>
app  == <<books, settling, withdrawal, short>>

NotSettling == [pc |-> "idle", read |-> 0]

NoLot == [status |-> "registered", grams |-> 0, category |-> FundingCategory,
          observed |-> 0, result |-> "none",
          split |-> [net |-> 0, producer |-> 0, association |-> 0, platform |-> 0]]

Init ==
  /\ policy \in Policies
  /\ order = [status |-> "none", target |-> 0, budget |-> 0, funded |-> 0]
  /\ escrow = 0
  /\ lot = [l \in Lots |-> NoLot]
  /\ books = [status |-> "open", remaining |-> 0]
  /\ settling = [l \in Lots |-> NotSettling]
  /\ withdrawal = "idle" /\ short = FALSE

\* Grams that lots hold or delivered: the contract's reserved and fulfilled.
Holding == {"ready", "accepted", "settled"}
UsedGrams ==
  Total([l \in Lots |-> IF lot[l].status \in Holding THEN lot[l].grams ELSE 0], Lots)

-----------------------------------------------------------------------------

\* POST /orders with a target weight.
CreateOrder(target) ==
  /\ order.status = "none"
  /\ FeesValid(policy)
  /\ LET cents == BudgetCents(policy, FundingCategory, target)
     IN  /\ UsdCentsToUnits(cents) <= MaxFunding
         /\ order' = [status |-> "draft", target |-> target, budget |-> cents,
                       funded |-> 0]
  /\ UNCHANGED <<policy, escrow, lot, app>>

Budget == UsdCentsToUnits(order.budget)

\* A paid session's deposit is mined.  Every session of the order is over its
\* budget; the contract takes deposits until it has paid for a lot.
Deposit ==
  /\ order.status \in {"draft", "funded"}
  /\ \A l \in Lots : lot[l].status # "settled"
  /\ Budget > 0 /\ order.funded < MaxDeposits * Budget
  /\ order' = [order EXCEPT !.status = "funded", !.funded = @ + Budget]
  /\ escrow' = escrow + Budget
  /\ short' = (short \/ \E l \in Lots : settling[l].pc = "pay")
  /\ UNCHANGED <<policy, lot, books, settling, withdrawal>>

\* The worker books a deposit: the row shows that one, whatever it showed.
BookDeposit ==
  /\ order.funded > 0
  /\ books' = [status |-> "open", remaining |-> Budget]
  /\ UNCHANGED <<policy, order, escrow, lot, settling, withdrawal, short>>

\* A checkout, a payment or a job of one more session writes its progress.
FundingGoesOn ==
  /\ order.status # "none"
  /\ books' = [books EXCEPT !.status = "open"]
  /\ UNCHANGED <<policy, order, escrow, lot, settling, withdrawal, short>>

\* The last attempt of a job threw, whether its deposit was mined or not.
FundingFails ==
  /\ order.status # "none"
  /\ books' = [books EXCEPT !.status = "funding_failed"]
  /\ UNCHANGED <<policy, order, escrow, lot, settling, withdrawal, short>>

\* POST /orders/:id/funding-session starts over after a failure.
ResetOrder ==
  /\ books.status = "funding_failed"
  /\ books' = [status |-> "open", remaining |-> 0]
  /\ UNCHANGED <<policy, order, escrow, lot, settling, withdrawal, short>>

\* apply_audit_attestation refuses a weight the order has no room for.
Fits(grams) == UsedGrams + grams <= order.target

\* An inspection and its audit.  One that passes reserves the weight.
Audit(l, grams, category, reading, document) ==
  /\ order.status = "funded"
  /\ lot[l].status = "registered"
  /\ LET result  == CompareAuditValues(grams, reading, category, document,
                                       policy.tolerance)
         allowed == IsSettlementAllowed(result)
     IN  /\ allowed => Fits(grams)
         /\ lot' = [lot EXCEPT ![l] =
              [NoLot EXCEPT !.status = IF allowed THEN "ready" ELSE "review",
                            !.grams = grams, !.category = category,
                            !.observed = IF reading.seen THEN reading.grams ELSE 0,
                            !.result = result]]
  /\ UNCHANGED <<policy, order, escrow, app>>

\* The producer asks for another weighing; what the lot held is released.
RequestReweigh(l) ==
  /\ lot[l].status \in {"ready", "review"}
  /\ lot' = [lot EXCEPT ![l] = NoLot]
  /\ UNCHANGED <<policy, order, escrow, app>>

Quote(l) == Preview(policy, lot[l].category, lot[l].grams)

\* POST /lots/:id/settlement/accept and the contract's accept_settlement, which
\* refuses a quote of nothing and one the order cannot pay at the moment.
AcceptSettlement(l) ==
  /\ lot[l].status = "ready"
  /\ IsSettlementAllowed(lot[l].result)
  /\ FeesValid(policy)
  /\ Shares(Quote(l)) > 0 /\ Shares(Quote(l)) <= escrow
  /\ lot' = [lot EXCEPT ![l] = [@ EXCEPT !.status = "accepted", !.split = Quote(l)]]
  /\ UNCHANGED <<policy, order, escrow, app>>

\* Mutant: the order is not asked for the money.
PayableAlways(l) == TRUE

Payable(l) == Shares(lot[l].split) <= escrow

\* executeSettlementOnchain reads the lot and the order's row.
ReadOrder(l) ==
  /\ lot[l].status = "accepted"
  /\ settling[l] = NotSettling
  /\ settling' = [settling EXCEPT ![l] = [pc |-> "pay", read |-> books.remaining]]
  /\ short' = (short \/ books.remaining < escrow)
  /\ UNCHANGED <<policy, order, escrow, lot, books, withdrawal>>

\* settle_lot pays the split out of what is left, or reverts; its answer may not
\* come back.
SettleLot(l) ==
  /\ lot[l].status = "accepted" /\ settling[l].pc = "pay"
  /\ Payable(l)
  /\ escrow' = escrow - Shares(lot[l].split)
  /\ lot' = [lot EXCEPT ![l] = [@ EXCEPT !.status = "settled"]]
  /\ settling' \in {[settling EXCEPT ![l].pc = "book"],
                   [settling EXCEPT ![l] = NotSettling]}
  /\ UNCHANGED <<policy, order, books, withdrawal, short>>

\* What remains is computed from the row as it was read before the payment.
BookSettledOrder(l) ==
  /\ settling[l].pc = "book"
  /\ LET released == Shares(lot[l].split)
         left == IF settling[l].read >= released THEN settling[l].read - released ELSE 0
     IN  books' = [status |-> IF left = 0 THEN "completed" ELSE "open", remaining |-> left]
  /\ settling' = [settling EXCEPT ![l] = NotSettling]
  /\ UNCHANGED <<policy, order, escrow, lot, withdrawal, short>>

\* The payment reverts or is not mined, or the process stops before or after it.
SettlingStops(l) ==
  /\ settling[l] # NotSettling
  /\ settling' = [settling EXCEPT ![l] = NotSettling]
  /\ UNCHANGED <<policy, order, escrow, lot, books, withdrawal, short>>

SettledGrams ==
  Total([l \in Lots |-> IF lot[l].status = "settled" THEN lot[l].grams ELSE 0], Lots)

\* withdraw_remainder: the target is met, nothing is reserved, money is left.
Withdrawable ==
  /\ order.status = "funded" /\ SettledGrams >= order.target
  /\ \A l \in Lots : lot[l].status \notin {"ready", "accepted"}
  /\ escrow > 0

\* POST /orders/:id/withdraw-remainder asks the row, and then the contract.
ReadRemainder ==
  /\ withdrawal = "idle"
  /\ books.status # "completed" /\ Withdrawable
  /\ withdrawal' = "send"
  /\ UNCHANGED <<policy, order, escrow, lot, books, settling, short>>

WithdrawRemainder ==
  /\ withdrawal = "send" /\ Withdrawable
  /\ escrow' = 0
  /\ order' = [order EXCEPT !.status = "completed"]
  /\ withdrawal' \in {"book", "idle"}
  /\ UNCHANGED <<policy, lot, books, settling, short>>

\* Mutant: an operation that was not mined is booked all the same.
WithdrawFailsBooked ==
  /\ withdrawal \in {"send", "book"}
  /\ withdrawal' = IF withdrawal = "send" THEN "book" ELSE "idle"
  /\ UNCHANGED <<policy, order, escrow, lot, books, settling, short>>

\* The operation reverts or is not mined, or the process stops.
WithdrawFails ==
  /\ withdrawal \in {"send", "book"}
  /\ withdrawal' = "idle"
  /\ UNCHANGED <<policy, order, escrow, lot, books, settling, short>>

BookWithdrawal ==
  /\ withdrawal = "book"
  /\ books' = [status |-> "completed", remaining |-> 0]
  /\ withdrawal' = "idle"
  /\ UNCHANGED <<policy, order, escrow, lot, settling, short>>

Next ==
  \/ \E t \in Targets : CreateOrder(t)
  \/ Deposit \/ BookDeposit \/ FundingGoesOn \/ FundingFails \/ ResetOrder
  \/ \E l \in Lots :
       \/ \E g \in Weights, c \in Categories, r \in Readings, d \in Documents :
            Audit(l, g, c, r, d)
       \/ RequestReweigh(l) \/ AcceptSettlement(l)
       \/ ReadOrder(l) \/ SettleLot(l) \/ BookSettledOrder(l) \/ SettlingStops(l)
  \/ ReadRemainder \/ WithdrawRemainder \/ WithdrawFails \/ BookWithdrawal

Spec == Init /\ [][Next]_vars
-----------------------------------------------------------------------------
(* Properties *)

\* The row of a lot: what the domain package and the contract keep of it.
TypeOK ==
  /\ policy \in Policies
  /\ order \in [status : {"none", "draft", "funded", "completed"},
                target : Targets \cup {0}, budget : Nat, funded : Nat]
  /\ escrow \in Nat
  /\ \A l \in Lots :
       /\ lot[l].status \in {"registered", "review"} \cup Holding
       /\ lot[l].grams \in Weights \cup {0}
       /\ lot[l].category \in Categories
       /\ lot[l].observed \in Nat
       /\ lot[l].result \in {"none", "pass", "warning", "review_required", "unreadable"}
       /\ lot[l].split \in [net : Nat, producer : Nat, association : Nat, platform : Nat]
  /\ books \in [status : {"open", "funding_failed", "completed"}, remaining : Nat]
  /\ settling \in [Lots -> [pc : {"idle", "pay", "book"}, read : Nat]]
  /\ withdrawal \in {"idle", "send", "book"} /\ short \in BOOLEAN

\* A category for which a kilo costs no more than the one budgets assume.
PricedWithin(c) ==
  /\ policy.price[c] <= policy.price[FundingCategory]
  /\ policy.bonus[c] <= policy.bonus[FundingCategory]

\* "Escrow estimate covers all three": however the target is divided among
\* lots, with every rounding on the way, the escrow pays the producer's, the
\* association's and the platform's shares of all lots that passed their audit,
\* in any order, as long as none is of a category dearer than the budget's.
BudgetCoversQuotes ==
  (\A l \in Lots : lot[l].status \in Holding => PricedWithin(lot[l].category)) =>
     Total([l \in Lots |-> IF lot[l].status \in {"ready", "accepted"}
                           THEN Shares(Quote(l)) ELSE 0], Lots) <= escrow

\* Nor is the buyer charged more than roundings: once lots of the budget's
\* category met the target, what is left of one budget, beyond deposits of other
\* sessions, is less than a cent, a unit per lot and two centavos for each lot
\* after the first.
OnlyDustRemains ==
  LET settled == {l \in Lots : lot[l].status = "settled"}
      n       == Cardinality(settled)
  IN  /\ order.status = "funded" /\ SettledGrams >= order.target
      /\ \A l \in settled : lot[l].category = FundingCategory
      => escrow + Budget < order.funded
                             + UnitsPerUsdCent + n + PenToUsdc(2 * (n - 1), Rate(policy))

\* The app refuses to withdraw from an order it shows as completed.  Settlements
\* that overlap all compute the rest from the row each has read, and payments,
\* withdrawals and answers get lost: none of this hides money from the buyer.
\* Only a row that missed a deposit does, when a settlement has read it.
OnlyShortRowsHideMoney == books.status = "completed" /\ escrow > 0 => short

\* The USDC a producer is paid is worth what the quote said in soles: never
\* more, and at most three centavos less.
PaidAsQuoted ==
  \A l \in Lots : lot[l].status \in {"accepted", "settled"} =>
    LET worth == UsdcToPen(lot[l].split.producer, Rate(policy))
    IN  worth <= lot[l].split.net /\ lot[l].split.net <= worth + 3

Discrepancy(l) ==
  IF lot[l].observed > lot[l].grams THEN lot[l].observed - lot[l].grams
                                    ELSE lot[l].grams - lot[l].observed

\* Nothing is paid for a weight the scale's picture does not show, up to the
\* tolerance and the basis point its rounding leaves, whatever was weighed and
\* audited before.
EvidenceBacksPayment ==
  \A l \in Lots : lot[l].status = "settled" =>
    Discrepancy(l) * BpsDenom < (policy.tolerance + 1) * lot[l].grams

\* "Diferencia de peso mayor al 1 %: REVIEW_REQUIRED": a lot ready for review
\* differs from the evidence by no more than the tolerance.
DiscrepancyReviewed ==
  \A l \in Lots : lot[l].status = "ready" =>
    Discrepancy(l) * BpsDenom <= policy.tolerance * lot[l].grams
=============================================================================
