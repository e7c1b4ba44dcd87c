------------------------ MODULE AlpactoLedgerProofs ------------------------
(***************************************************************************)
(* Every deposit is accounted for, order by order, and the contract        *)
(* implements the escrow ledger: a call is a deposit before the first      *)
(* payout, one payment for one lot, a refund of everything that is left,   *)
(* or a step that the ledger does not see.                                 *)
(***************************************************************************)
EXTENDS AlpactoEscrowProofs

LedgerInv == StatusOfMoney /\ FundsConserved

\* Everything that is invariant.
CoreInv == TypeOK /\ LotInv /\ Origins /\ WeightInv /\ MoneyInv /\ LedgerInv

-----------------------------------------------------------------------------
(* What lots were paid *)

LEMMA PaidTerms ==
  ASSUME TypeOK, NEW o, NEW l \in Lots
  PROVE  PaidFor(o)[l] \in Nat
<1>1. SplitTotal(lot[l].split) \in Nat
  BY SplitTotalType DEF TypeOK, LotType
<1>. QED  BY <1>1 DEF PaidFor

LEMMA PaidTermsAfter ==
  ASSUME TypeOK', NEW o, NEW l \in Lots
  PROVE  PaidFor(o)'[l] \in Nat
<1>1. lot'[l].split \in SplitType
  BY DEF TypeOK, LotType
<1>2. SplitTotal(lot'[l].split) \in Nat
  BY <1>1, SplitTotalType
<1>. QED  BY <1>2 DEF PaidFor, SplitTotal

LEMMA OneLotPaid ==
  ASSUME TypeOK, TypeOK', NEW l \in Lots, NEW o,
         \A k \in Lots \ {l} : lot'[k] = lot[k]
  PROVE  Total(PaidFor(o)', Lots)
           = Total(PaidFor(o), Lots) - PaidFor(o)[l] + PaidFor(o)'[l]
<1>1. \A k \in Lots : PaidFor(o)[k] \in Nat
  BY PaidTerms
<1>2. \A k \in Lots : PaidFor(o)'[k] \in Nat
  BY PaidTermsAfter
<1>3. \A k \in Lots : k # l => PaidFor(o)'[k] = PaidFor(o)[k]
  BY DEF PaidFor, SplitTotal
<1>4. IsFiniteSet(Lots)
  BY CoreAssumption
<1>. QED  BY <1>1, <1>2, <1>3, <1>4, TotalUpdate

LEMMA PaidTotalType ==
  ASSUME TypeOK, NEW o
  PROVE  Total(PaidFor(o), Lots) \in Nat
<1>1. \A l \in Lots : PaidFor(o)[l] \in Nat
  BY PaidTerms
<1>2. IsFiniteSet(Lots)
  BY CoreAssumption
<1>. QED  BY <1>1, <1>2, TotalType

\* A step that settles no lot pays for none.
LEMMA NoLotPaid ==
  ASSUME NEW l \in Lots, \A k \in Lots \ {l} : lot'[k] = lot[k],
         lot[l].status # "SETTLED", lot'[l].status # "SETTLED", NEW o
  PROVE  PaidFor(o)' = PaidFor(o)
BY DEF PaidFor, SplitTotal

-----------------------------------------------------------------------------
(* The accounts of the orders *)

\* The money of an order is what the ledger sees of it.
SameMoney(o) ==
  /\ order'[o].funded = order[o].funded
  /\ order'[o].remaining = order[o].remaining
  /\ order'[o].status = order[o].status
  /\ order'[o].fulfilled = order[o].fulfilled
  /\ order'[o].target = order[o].target

LEMMA LedgerKept ==
  ASSUME LedgerInv, \A o \in Orders : SameMoney(o),
         \A o \in Orders : PaidFor(o)' = PaidFor(o),
         \A l \in Lots : \/ lot'[l] = lot[l]
                         \/ lot'[l].status # "SETTLED"
  PROVE  LedgerInv'
<1>1. StatusOfMoney'
  BY DEF LedgerInv, StatusOfMoney, SameMoney
<1>2. FundsConserved'
  BY DEF LedgerInv, FundsConserved, SameMoney
<1>. QED  BY <1>1, <1>2 DEF LedgerInv

\* A step on one order's money that settles no lot.
LEMMA LedgerOrder ==
  ASSUME LedgerInv, UNCHANGED lot, NEW o \in Orders,
         \A p \in Orders \ {o} : order'[p] = order[p],
         order'[o].status \notin {"FUNDED", "CANCELLED"},
         order'[o].status = "DRAFT" => order'[o].remaining = 0,
         order'[o].status \in {"ABSENT", "DRAFT", "FUNDED", "ACCEPTING_LOTS"} =>
           order[o].status \in {"ABSENT", "DRAFT", "FUNDED", "ACCEPTING_LOTS"},
         order'[o].status \in {"PARTIALLY_SETTLED", "ACCEPTING_LOTS"} =>
           order'[o].remaining > 0,
         order'[o].status = "COMPLETED" => order'[o].remaining = 0,
         \/ order'[o].funded = order'[o].remaining + Total(PaidFor(o), Lots)
         \/ /\ order'[o].status = "COMPLETED"
            /\ order'[o].remaining = 0
            /\ order'[o].fulfilled = order'[o].target
            /\ order'[o].funded > Total(PaidFor(o), Lots)
  PROVE  LedgerInv'
<1>1. StatusOfMoney'
  BY DEF LedgerInv, StatusOfMoney
<1>2. \A p \in Orders : PaidFor(p)' = PaidFor(p)
  BY DEF PaidFor, SplitTotal
<1>3. FundsConserved'
  BY <1>2 DEF LedgerInv, FundsConserved
<1>. QED  BY <1>1, <1>3 DEF LedgerInv

LEMMA CreateOrderLedger ==
  ASSUME TypeOK, Origins, LedgerInv, NEW sender \in Accounts, NEW o \in Orders,
         NEW association \in Associations, NEW target \in Targets,
         CreateOrder(sender, o, association, target)
  PROVE  LedgerInv'
<1>1. order[o] = EmptyOrder
  BY DEF CreateOrder, Origins, OrderOrigin
<1>2. /\ order[o].status = "ABSENT" /\ order[o].funded = 0 /\ order[o].remaining = 0
  BY <1>1 DEF EmptyOrder
<1>3. Total(PaidFor(o), Lots) = 0
  <2>1. \A l \in Lots : PaidFor(o)[l] = 0
    BY <1>2 DEF LedgerInv, StatusOfMoney, PaidFor
  <2>. QED  BY <2>1, TotalZero
<1>4. /\ order'[o].status = "DRAFT" /\ order'[o].funded = 0 /\ order'[o].remaining = 0
      /\ \A p \in Orders \ {o} : order'[p] = order[p]
  BY DEF CreateOrder, EmptyOrder, TypeOK
<1>. QED  BY <1>2, <1>3, <1>4, LedgerOrder DEF CreateOrder

LEMMA ApplyFundOrderLedger ==
  ASSUME TypeOK, LedgerInv, NEW sender \in Accounts, NEW o \in Orders,
         NEW amount \in Amounts, NEW ref \in PaymentRefs,
         ApplyFundOrder(sender, o, amount, ref)
  PROVE  LedgerInv'
<1>1. /\ order'[o].status = "ACCEPTING_LOTS"
      /\ order'[o].funded = order[o].funded + amount
      /\ order'[o].remaining = order[o].remaining + amount
      /\ \A p \in Orders \ {o} : order'[p] = order[p]
  BY DEF ApplyFundOrder, TypeOK, OrderType
<1>2. /\ amount \in Nat /\ amount > 0
      /\ order[o].funded \in Nat /\ order[o].remaining \in Nat
  BY CoreAssumption DEF ApplyFundOrder, TypeOK, OrderType
<1>3. order[o].status \in {"DRAFT", "FUNDED", "ACCEPTING_LOTS"}
  BY DEF ApplyFundOrder, FundableStatus
<1>4. order[o].funded = order[o].remaining + Total(PaidFor(o), Lots)
  BY <1>3 DEF LedgerInv, FundsConserved
<1>5. Total(PaidFor(o), Lots) \in Nat
  BY PaidTotalType
<1>6. order'[o].funded = order'[o].remaining + Total(PaidFor(o), Lots)
  BY <1>1, <1>2, <1>4, <1>5
<1>7. order'[o].remaining > 0
  BY <1>1, <1>2
<1>8. UNCHANGED lot
  BY DEF ApplyFundOrder
<1>. QED  BY <1>1, <1>3, <1>6, <1>7, <1>8, LedgerOrder

LEMMA WithdrawLedger ==
  ASSUME TypeOK, WeightInv, LedgerInv, NEW sender \in Accounts, NEW o \in Orders,
         WithdrawRemainder(sender, o)
  PROVE  LedgerInv'
<1>1. /\ order'[o].status = "COMPLETED"
      /\ order'[o].remaining = 0
      /\ order'[o].funded = order[o].funded
      /\ order'[o].fulfilled = order[o].fulfilled
      /\ order'[o].target = order[o].target
      /\ \A p \in Orders \ {o} : order'[p] = order[p]
  BY DEF WithdrawRemainder, CanWithdraw, TypeOK, OrderType
<1>2. /\ order[o].reserved = 0
      /\ order[o].fulfilled >= order[o].target
      /\ order[o].remaining > 0
      /\ order[o].status # "COMPLETED"
      /\ UNCHANGED lot
  BY DEF WithdrawRemainder, CanWithdraw, TargetMet, OpenStatus, TypeOK, OrderType
<1>3. order[o].fulfilled = order[o].target
  <2>1. order[o].reserved + order[o].fulfilled <= order[o].target
    BY DEF WeightInv, WithinTarget
  <2>2. order[o].fulfilled \in Nat /\ order[o].target \in Nat
    BY DEF TypeOK, OrderType
  <2>. QED  BY <1>2, <2>1, <2>2
<1>4. order[o].funded = order[o].remaining + Total(PaidFor(o), Lots)
  BY <1>2 DEF LedgerInv, FundsConserved
<1>5. Total(PaidFor(o), Lots) \in Nat /\ order[o].remaining \in Nat
  BY PaidTotalType DEF TypeOK, OrderType
<1>6. order'[o].funded > Total(PaidFor(o), Lots)
  BY <1>1, <1>2, <1>4, <1>5
<1>. QED  BY <1>1, <1>2, <1>3, <1>6, LedgerOrder

\* What a settlement pays for the lot leaves what the order holds.
LEMMA SettleLotPaid ==
  ASSUME TypeOK, TypeOK', LotInv, NEW sender \in Accounts, NEW l \in Lots,
         SettleLot(sender, l), NEW o \in Orders, o = lot[l].order
  PROVE  /\ PaidFor(o)' = [PaidFor(o) EXCEPT ![l] = SplitTotal(lot[l].split)]
         /\ \A p \in Orders \ {o} : PaidFor(p)' = PaidFor(p)
         /\ \A p \in Orders : PaidFor(p)[l] = 0
         /\ Total(PaidFor(o)', Lots)
              = Total(PaidFor(o), Lots) + SplitTotal(lot[l].split)
         /\ SplitTotal(lot[l].split) \in Nat \ {0}
         /\ SplitTotal(lot[l].split) <= order[o].remaining
<1>1. lot' = [lot EXCEPT ![l] = [lot[l] EXCEPT !.reserved = 0, !.status = "SETTLED"]]
  BY DEF SettleLot, CanSettle
<1>2. /\ lot'[l].status = "SETTLED" /\ lot'[l].order = o
      /\ lot'[l].split = lot[l].split
      /\ \A k \in Lots \ {l} : lot'[k] = lot[k]
  BY <1>1 DEF TypeOK, LotType
<1>3. /\ lot[l].status = "PRODUCER_ACCEPTED"
      /\ SplitTotal(lot[l].split) <= order[o].remaining
  BY SplitTotalType DEF SettleLot, CanSettle, TypeOK, LotType, OrderType
<1>4. SplitTotal(lot[l].split) \in Nat \ {0}
  BY <1>3, SplitTotalType DEF TypeOK, LotType, LotInv, AcceptedTerms
<1>5. PaidFor(o)' = [PaidFor(o) EXCEPT ![l] = SplitTotal(lot[l].split)]
  BY <1>2 DEF PaidFor, SplitTotal
<1>6. \A p \in Orders \ {o} : PaidFor(p)' = PaidFor(p)
  BY <1>2, <1>3 DEF PaidFor, SplitTotal
<1>7. \A p \in Orders : PaidFor(p)[l] = 0
  BY <1>3 DEF PaidFor
<1>8. PaidFor(o)'[l] = SplitTotal(lot[l].split)
  BY <1>5 DEF PaidFor
<1>9. Total(PaidFor(o)', Lots) = Total(PaidFor(o), Lots) + SplitTotal(lot[l].split)
  BY <1>2, <1>4, <1>7, <1>8, OneLotPaid, PaidTotalType
<1>. QED  BY <1>3, <1>4, <1>5, <1>6, <1>7, <1>9

LEMMA SettleLotLedger ==
  ASSUME TypeOK, TypeOK', LotInv, Origins, LedgerInv, NEW sender \in Accounts,
         NEW l \in Lots, SettleLot(sender, l)
  PROVE  LedgerInv'
<1>a. PICK o \in Orders : o = lot[l].order
  BY DEF TypeOK, LotType
<1>. DEFINE t == SplitTotal(lot[l].split)
<1>1. /\ \A p \in Orders \ {o} : PaidFor(p)' = PaidFor(p)
      /\ Total(PaidFor(o)', Lots) = Total(PaidFor(o), Lots) + t
      /\ t \in Nat \ {0} /\ t <= order[o].remaining
  BY <1>a, SettleLotPaid
<1>2. /\ order'[o].remaining = order[o].remaining - t
      /\ order'[o].status = IF order'[o].remaining = 0
                            THEN "COMPLETED" ELSE "PARTIALLY_SETTLED"
      /\ \A p \in Orders \ {o} : order'[p] = order[p]
  BY <1>a, SettleLotRemaining
<1>3. order'[o].funded = order[o].funded
  BY <1>a, SettleLotFrame DEF LotFrame
<1>4. \A k \in Lots \ {l} : lot'[k] = lot[k]
  BY SettleLotFrame DEF LotFrame
<1>5. lot'[l].order = o
  BY <1>a, SettleLotFrame DEF LotFrame
<1>. HIDE DEF t
<1>6. /\ order[o].remaining \in Nat /\ Total(PaidFor(o), Lots) \in Nat
      /\ order[o].funded \in Nat
  BY PaidTotalType DEF TypeOK, OrderType
<1>7. order[o].funded = order[o].remaining + Total(PaidFor(o), Lots)
  BY <1>1, <1>6 DEF LedgerInv, FundsConserved
<1>8. order'[o].funded = order'[o].remaining + Total(PaidFor(o)', Lots)
  BY <1>1, <1>2, <1>3, <1>6, <1>7
<1>9. order'[o].remaining \in Nat
  BY <1>1, <1>2, <1>6
<1>10. FundsConserved'
  BY <1>1, <1>2, <1>8 DEF LedgerInv, FundsConserved
<1>11. StatusOfMoney'
  BY <1>2, <1>4, <1>5, <1>9 DEF LedgerInv, StatusOfMoney
<1>. QED  BY <1>10, <1>11 DEF LedgerInv

-----------------------------------------------------------------------------
(* Every call *)

\* A call that touches neither orders nor lots.
LEMMA LedgerUntouched ==
  ASSUME LedgerInv, UNCHANGED <<order, lot>>
  PROVE  LedgerInv' /\ \A o \in Orders : SameMoney(o) /\ PaidFor(o)' = PaidFor(o)
<1>1. \A o \in Orders : SameMoney(o) /\ PaidFor(o)' = PaidFor(o)
  BY DEF SameMoney, PaidFor, SplitTotal
<1>. QED  BY <1>1, LedgerKept

\* A call on a lot other than its settlement: no money moves for any order.
LEMMA LotCallSameMoney ==
  ASSUME TypeOK, NEW sender \in Accounts, NEW l \in Lots,
         \/ \E v \in Versions, weight \in Weights :
              SubmitInspectionReference(sender, l, v, weight)
         \/ \E v \in Versions, result \in AuditResult :
              SubmitAuditAttestation(sender, l, v, result)
         \/ RequestReweighing(sender, l)
         \/ \E v \in Versions, split \in Splits :
              AcceptSettlement(sender, l, v, split)
  PROVE  /\ \A k \in Lots \ {l} : lot'[k] = lot[k]
         /\ lot[l].status # "SETTLED" /\ lot'[l].status # "SETTLED"
         /\ \A o \in Orders : /\ order'[o].funded = order[o].funded
                             /\ order'[o].remaining = order[o].remaining
                             /\ order'[o].status = order[o].status
                             /\ order'[o].fulfilled = order[o].fulfilled
                             /\ order'[o].target = order[o].target
<1>a. lot[l].order \in Orders /\ lot[l] \in LotType
  BY DEF TypeOK, LotType
<1>1. ASSUME NEW v \in Versions, NEW weight \in Weights,
             SubmitInspectionReference(sender, l, v, weight)
      PROVE  /\ UNCHANGED order
             /\ \A k \in Lots \ {l} : lot'[k] = lot[k]
             /\ lot[l].status # "SETTLED" /\ lot'[l].status # "SETTLED"
  <2>1. /\ lot' = [lot EXCEPT ![l] = [lot[l] EXCEPT !.version = v,
                                                    !.status = "AUDITING"]]
        /\ UNCHANGED order
        /\ lot[l].status \in InspectableStatus
    BY <1>1 DEF SubmitInspectionReference
  <2>2. lot'[l].status = "AUDITING" /\ \A k \in Lots \ {l} : lot'[k] = lot[k]
    BY <1>a, <2>1 DEF TypeOK, LotType
  <2>. QED  BY <2>1, <2>2 DEF InspectableStatus
<1>2. ASSUME NEW v \in Versions, NEW split \in Splits,
             AcceptSettlement(sender, l, v, split)
      PROVE  /\ UNCHANGED order
             /\ \A k \in Lots \ {l} : lot'[k] = lot[k]
             /\ lot[l].status # "SETTLED" /\ lot'[l].status # "SETTLED"
  <2>1. /\ lot' = [lot EXCEPT ![l] =
              [lot[l] EXCEPT !.acceptedVersion = v, !.split = split,
                             !.status = "PRODUCER_ACCEPTED"]]
        /\ UNCHANGED order
        /\ lot[l].status = "READY_FOR_REVIEW"
    BY <1>2 DEF AcceptSettlement
  <2>2. /\ lot'[l].status = "PRODUCER_ACCEPTED"
        /\ \A k \in Lots \ {l} : lot'[k] = lot[k]
    BY <1>a, <2>1 DEF TypeOK, LotType
  <2>. QED  BY <2>1, <2>2
<1>3. ASSUME NEW v \in Versions, NEW result \in AuditResult,
             SubmitAuditAttestation(sender, l, v, result)
      PROVE  /\ \E n : order' = [order EXCEPT ![lot[l].order] =
                          [order[lot[l].order] EXCEPT !.reserved = n]]
             /\ \A k \in Lots \ {l} : lot'[k] = lot[k]
             /\ lot[l].status # "SETTLED" /\ lot'[l].status # "SETTLED"
  <2>1. CASE result \in AcceptableResult
    <3>1. /\ lot' = [lot EXCEPT ![l] = [lot[l] EXCEPT !.reserved = inspections[l][v],
                                                      !.status = "READY_FOR_REVIEW"]]
          /\ order' = [order EXCEPT ![lot[l].order] =
                [order[lot[l].order] EXCEPT
                   !.reserved = order[lot[l].order].reserved + inspections[l][v]]]
      BY <1>3, <2>1 DEF SubmitAuditAttestation, ReserveWeight
    <3>2. lot'[l].status = "READY_FOR_REVIEW" /\ \A k \in Lots \ {l} : lot'[k] = lot[k]
      BY <1>a, <3>1 DEF TypeOK, LotType
    <3>. QED  BY <1>3, <3>1, <3>2 DEF SubmitAuditAttestation
  <2>2. CASE result \notin AcceptableResult
    <3>1. /\ lot' = [lot EXCEPT ![l] = [lot[l] EXCEPT !.status = "REVIEW_REQUIRED"]]
          /\ order' = order
      BY <1>3, <2>2 DEF SubmitAuditAttestation
    <3>2. lot'[l].status = "REVIEW_REQUIRED" /\ \A k \in Lots \ {l} : lot'[k] = lot[k]
      BY <1>a, <3>1 DEF TypeOK, LotType
    <3>3. order' = [order EXCEPT ![lot[l].order] =
              [order[lot[l].order] EXCEPT !.reserved = order[lot[l].order].reserved]]
      BY <1>a, <3>1 DEF TypeOK, OrderType
    <3>. QED  BY <1>3, <3>2, <3>3 DEF SubmitAuditAttestation
  <2>. QED  BY <2>1, <2>2
<1>4. ASSUME RequestReweighing(sender, l)
      PROVE  /\ \E n : order' = [order EXCEPT ![lot[l].order] =
                          [order[lot[l].order] EXCEPT !.reserved = n]]
             /\ \A k \in Lots \ {l} : lot'[k] = lot[k]
             /\ lot[l].status # "SETTLED" /\ lot'[l].status # "SETTLED"
  BY <1>4 DEF RequestReweighing, ReleasedWeight, ReviewedStatus, TypeOK, LotType
<1>5. ASSUME NEW n, order' = [order EXCEPT ![lot[l].order] =
                        [order[lot[l].order] EXCEPT !.reserved = n]]
      PROVE  \A o \in Orders : /\ order'[o].funded = order[o].funded
                              /\ order'[o].remaining = order[o].remaining
                              /\ order'[o].status = order[o].status
                              /\ order'[o].fulfilled = order[o].fulfilled
                              /\ order'[o].target = order[o].target
  BY <1>a, <1>5 DEF TypeOK, OrderType
<1>. QED  BY <1>1, <1>2, <1>3, <1>4, <1>5

\* What a step does to the money, seen from the orders: nothing, a deposit, a
\* settlement or a withdrawal.
LEMMA MoneySteps ==
  ASSUME TypeOK, Origins, LedgerInv, [Next]_vars
  PROVE  \/ /\ \A o \in Orders : SameMoney(o) /\ PaidFor(o)' = PaidFor(o)
            /\ \A l \in Lots : lot'[l] = lot[l] \/ lot'[l].status # "SETTLED"
         \/ \E sender \in Accounts, o \in Orders :
              \/ \E association \in Associations, target \in Targets :
                   CreateOrder(sender, o, association, target)
              \/ \E amount \in Amounts, ref \in PaymentRefs :
                   ApplyFundOrder(sender, o, amount, ref)
              \/ WithdrawRemainder(sender, o)
         \/ \E sender \in Accounts, l \in Lots : SettleLot(sender, l)
<1>. DEFINE Quiet == /\ \A o \in Orders : SameMoney(o) /\ PaidFor(o)' = PaidFor(o)
                     /\ \A l \in Lots : lot'[l] = lot[l] \/ lot'[l].status # "SETTLED"
<1>1. CASE UNCHANGED <<order, lot>>
  <2>1. Quiet
    BY <1>1, LedgerUntouched
  <2>. QED  BY <2>1
<1>2. CASE AdminCall
  BY <1>1, <1>2
  DEF AdminCall, GrantRole, RevokeRole, RenounceRole, SetPlatformTreasury
<1>3. CASE OrderCall
  <2>. SUFFICES ASSUME NEW sender \in Accounts, NEW o \in Orders,
                       NEW l \in Lots, NEW producer \in Producers,
                       RegisterLot(sender, o, l, producer)
                PROVE  Quiet
    BY <1>3 DEF OrderCall, FundOrder, BuyerFundOrder
  <2>1. /\ \A k \in Lots \ {l} : lot'[k] = lot[k]
        /\ lot[l].status # "SETTLED" /\ lot'[l].status # "SETTLED"
    BY DEF RegisterLot, EmptyLot, TypeOK
  <2>2. \A p \in Orders : PaidFor(p)' = PaidFor(p)
    BY <2>1, NoLotPaid
  <2>3. \A p \in Orders : SameMoney(p)
    BY DEF RegisterLot, SameMoney
  <2>. QED  BY <2>1, <2>2, <2>3
<1>4. CASE LotCall
  <2>. SUFFICES ASSUME NEW sender \in Accounts, NEW l \in Lots,
                       \/ \E v \in Versions, weight \in Weights :
                            SubmitInspectionReference(sender, l, v, weight)
                       \/ \E v \in Versions, result \in AuditResult :
                            SubmitAuditAttestation(sender, l, v, result)
                       \/ RequestReweighing(sender, l)
                       \/ \E v \in Versions, split \in Splits :
                            AcceptSettlement(sender, l, v, split)
                PROVE  Quiet
    BY <1>4 DEF LotCall
  <2>1. /\ \A k \in Lots \ {l} : lot'[k] = lot[k]
        /\ lot[l].status # "SETTLED" /\ lot'[l].status # "SETTLED"
        /\ \A p \in Orders : SameMoney(p)
    BY LotCallSameMoney DEF SameMoney
  <2>2. \A p \in Orders : PaidFor(p)' = PaidFor(p)
    BY <2>1, NoLotPaid
  <2>. QED  BY <2>1, <2>2
<1>5. CASE TokenCall
  BY <1>1, <1>5 DEF TokenCall, TransferUsdc
<1>6. CASE UNCHANGED vars
  BY <1>1, <1>6 DEF vars
<1>. QED  BY <1>2, <1>3, <1>4, <1>5, <1>6 DEF Next

LEMMA NextLedger ==
  TypeOK /\ TypeOK' /\ LotInv /\ Origins /\ WeightInv /\ LedgerInv /\ [Next]_vars
    => LedgerInv'
BY MoneySteps, LedgerKept, CreateOrderLedger, ApplyFundOrderLedger, WithdrawLedger,
   SettleLotLedger

LEMMA InitLedger == Init => LedgerInv
<1>. SUFFICES ASSUME Init PROVE LedgerInv
  OBVIOUS
<1>1. \A o \in Orders : /\ order[o].status = "ABSENT" /\ order[o].funded = 0
                        /\ order[o].remaining = 0
  BY DEF Init, EmptyOrder
<1>2. \A l \in Lots : lot[l].status = "ABSENT"
  BY DEF Init, EmptyLot
<1>3. \A o \in Orders : Total(PaidFor(o), Lots) = 0
  <2>1. \A o \in Orders : \A l \in Lots : PaidFor(o)[l] = 0
    BY <1>2 DEF PaidFor
  <2>. QED  BY <2>1, TotalZero
<1>. QED  BY <1>1, <1>2, <1>3 DEF LedgerInv, StatusOfMoney, FundsConserved

LEMMA CoreInvariant == Spec => []CoreInv
<1>1. Init => CoreInv
  BY InitType, InitLots, InitOrigins, InitWeights, InitMoney, InitLedger DEF CoreInv
<1>2. CoreInv /\ [Next]_vars => CoreInv'
  BY NextType, NextLots, NextOrigins, NextWeights, NextMoney, NextLedger DEF CoreInv
<1>. QED  BY <1>1, <1>2, PTL DEF Spec

\* Every USDC deposited for an order is held, was paid for one of its settled
\* lots or went back to the buyer of a completed order whose target was met.
THEOREM FundsConservedCorrect == Spec => []FundsConserved
<1>1. CoreInv => FundsConserved
  BY DEF CoreInv, LedgerInv
<1>. QED  BY <1>1, CoreInvariant, PTL

-----------------------------------------------------------------------------
(* The escrow ledger *)

\* What the ledger sees when the money of every order stays as it is.
LEMMA LedgerStutter ==
  ASSUME \A o \in Orders : SameMoney(o) /\ PaidFor(o)' = PaidFor(o)
  PROVE  UNCHANGED Ledger!ledger
BY DEF Ledger!ledger, RefundedFrom, SameMoney

\* Nothing is refunded before an order completes.
LEMMA NothingRefunded ==
  ASSUME TypeOK, FundsConserved, NEW o \in Orders, order[o].status # "COMPLETED"
  PROVE  RefundedFrom(o) = 0
<1>1. order[o].funded = order[o].remaining + Total(PaidFor(o), Lots)
  BY DEF FundsConserved
<1>2. order[o].remaining \in Nat /\ Total(PaidFor(o), Lots) \in Nat
  BY PaidTotalType DEF TypeOK, OrderType
<1>. QED  BY <1>1, <1>2 DEF RefundedFrom

LEMMA InitImplementsLedger == Init => Ledger!Init
<1>. SUFFICES ASSUME Init PROVE Ledger!Init
  OBVIOUS
<1>1. \A o \in Orders : /\ order[o].status = "ABSENT" /\ order[o].funded = 0
                        /\ order[o].remaining = 0
  BY DEF Init, EmptyOrder
<1>2. \A o \in Orders : PaidFor(o) = [l \in Lots |-> 0]
  BY DEF Init, EmptyLot, PaidFor
<1>3. \A o \in Orders : Total(PaidFor(o), Lots) = 0
  BY <1>2, TotalZero
<1>4. \A o \in Orders : RefundedFrom(o) = 0
  BY <1>1, <1>3 DEF RefundedFrom
<1>. QED  BY <1>1, <1>2, <1>4 DEF Ledger!Init

LEMMA CreateOrderStutters ==
  ASSUME TypeOK, Origins, NEW sender \in Accounts, NEW o \in Orders,
         NEW association \in Associations, NEW target \in Targets,
         CreateOrder(sender, o, association, target)
  PROVE  UNCHANGED Ledger!ledger
<1>1. order[o] = EmptyOrder
  BY DEF CreateOrder, Origins, OrderOrigin
<1>2. /\ order[o].status = "ABSENT" /\ order[o].funded = 0 /\ order[o].remaining = 0
      /\ order'[o].status = "DRAFT" /\ order'[o].funded = 0 /\ order'[o].remaining = 0
      /\ \A p \in Orders \ {o} : order'[p] = order[p]
  BY <1>1 DEF CreateOrder, EmptyOrder, TypeOK
<1>3. \A p \in Orders : PaidFor(p)' = PaidFor(p)
  BY DEF CreateOrder, PaidFor, SplitTotal
<1>4. \A p \in Orders : /\ order'[p].funded = order[p].funded
                        /\ order'[p].remaining = order[p].remaining
                        /\ order'[p].status = "COMPLETED" <=> order[p].status = "COMPLETED"
  BY <1>2
<1>. QED  BY <1>3, <1>4 DEF Ledger!ledger, RefundedFrom

\* A deposit is the ledger's Deposit: no lot of the order has been paid.
LEMMA DepositImplements ==
  ASSUME TypeOK, TypeOK', LedgerInv, LedgerInv', NEW sender \in Accounts,
         NEW o \in Orders, NEW amount \in Amounts, NEW ref \in PaymentRefs,
         ApplyFundOrder(sender, o, amount, ref)
  PROVE  Ledger!Deposit(o, amount)
<1>1. /\ order'[o].status = "ACCEPTING_LOTS"
      /\ order'[o].funded = order[o].funded + amount
      /\ order'[o].remaining = order[o].remaining + amount
      /\ \A p \in Orders \ {o} : order'[p] = order[p]
  BY DEF ApplyFundOrder, TypeOK, OrderType
<1>2. order[o].status \in {"DRAFT", "FUNDED", "ACCEPTING_LOTS"}
  BY DEF ApplyFundOrder, FundableStatus
<1>3. amount > 0
  BY CoreAssumption DEF ApplyFundOrder
<1>4. \A l \in Lots : PaidFor(o)[l] = 0
  BY <1>2 DEF LedgerInv, StatusOfMoney, PaidFor
<1>5. \A p \in Orders : PaidFor(p)' = PaidFor(p)
  BY DEF ApplyFundOrder, PaidFor, SplitTotal
<1>6. RefundedFrom(o) = 0 /\ RefundedFrom(o)' = 0
  <2>1. RefundedFrom(o) = 0
    BY <1>2, NothingRefunded DEF LedgerInv
  <2>2. /\ order[o].funded \in Nat /\ order[o].remaining \in Nat /\ amount \in Nat
        /\ Total(PaidFor(o), Lots) \in Nat
    BY PaidTotalType, CoreAssumption DEF TypeOK, OrderType
  <2>. QED  BY <1>1, <1>5, <2>1, <2>2 DEF RefundedFrom
<1>7. \A p \in Orders : RefundedFrom(p)' = RefundedFrom(p)
  BY <1>1, <1>5, <1>6 DEF RefundedFrom
<1>8. \A p \in Orders : order'[p].status = "COMPLETED" <=> order[p].status = "COMPLETED"
  BY <1>1, <1>2
<1>9. /\ [p \in Orders |-> order'[p].funded]
           = [[p \in Orders |-> order[p].funded] EXCEPT ![o] = order[o].funded + amount]
      /\ [p \in Orders |-> order'[p].remaining]
           = [[p \in Orders |-> order[p].remaining] EXCEPT ![o] = order[o].remaining + amount]
  BY <1>1
<1>. QED
  BY <1>2, <1>3, <1>4, <1>5, <1>7, <1>8, <1>9 DEF Ledger!Deposit

\* A settlement is the ledger's Pay of the accepted total.
LEMMA PayImplements ==
  ASSUME TypeOK, TypeOK', LotInv, Origins, LedgerInv, LedgerInv',
         NEW sender \in Accounts, NEW l \in Lots, SettleLot(sender, l)
  PROVE  Ledger!Next
<1>a. PICK o \in Orders : o = lot[l].order
  BY DEF TypeOK, LotType
<1>b. PICK t \in Nat : t = SplitTotal(lot[l].split)
  BY SplitTotalType DEF TypeOK, LotType
<1>1. /\ PaidFor(o)' = [PaidFor(o) EXCEPT ![l] = t]
      /\ \A p \in Orders \ {o} : PaidFor(p)' = PaidFor(p)
      /\ \A p \in Orders : PaidFor(p)[l] = 0
      /\ Total(PaidFor(o)', Lots) = Total(PaidFor(o), Lots) + t
      /\ t \in Nat \ {0} /\ t <= order[o].remaining
  BY <1>a, <1>b, SettleLotPaid
<1>2. /\ order'[o].remaining = order[o].remaining - t
      /\ order'[o].status = IF order'[o].remaining = 0
                            THEN "COMPLETED" ELSE "PARTIALLY_SETTLED"
      /\ \A p \in Orders \ {o} : order'[p] = order[p]
  BY <1>a, <1>b, SettleLotRemaining
<1>3. order'[o].funded = order[o].funded
  BY <1>a, SettleLotFrame DEF LotFrame
<1>4. /\ order[o].remaining \in Nat /\ order[o].funded \in Nat
      /\ Total(PaidFor(o), Lots) \in Nat
  BY PaidTotalType DEF TypeOK, OrderType
<1>5. order[o].status # "COMPLETED"
  BY <1>1, <1>4 DEF LedgerInv, StatusOfMoney
<1>6. \A p \in Orders : RefundedFrom(p)' = RefundedFrom(p)
  <2>1. RefundedFrom(o)' = RefundedFrom(o)
    BY <1>1, <1>2, <1>3, <1>4 DEF RefundedFrom
  <2>. QED  BY <1>1, <1>2, <2>1 DEF RefundedFrom
<1>7. t \in 1 .. order[o].remaining
  BY <1>1, <1>4
<1>8. [p \in Orders |-> order'[p].remaining]
        = [[p \in Orders |-> order[p].remaining] EXCEPT ![o] = order[o].remaining - t]
  BY <1>2
<1>9. [p \in Orders |-> PaidFor(p)']
        = [[p \in Orders |-> PaidFor(p)] EXCEPT ![o][l] = t]
  BY <1>1
<1>10. [p \in Orders |-> order'[p].status = "COMPLETED"]
         = [[p \in Orders |-> order[p].status = "COMPLETED"]
              EXCEPT ![o] = (t = order[o].remaining)]
  <2>1. order'[o].status = "COMPLETED" <=> t = order[o].remaining
    BY <1>1, <1>2, <1>4
  <2>2. \A p \in Orders \ {o} : order'[p].status = order[p].status
    BY <1>2
  <2>. QED  BY <2>1, <2>2
<1>11. \A p \in Orders : order'[p].funded = order[p].funded
  BY <1>2, <1>3
<1>12. Ledger!Pay(o, l, t)
  <2>1. ~[p \in Orders |-> order[p].status = "COMPLETED"][o]
    BY <1>5
  <2>2. \A p \in Orders : [q \in Orders |-> PaidFor(q)][p][l] = 0
    BY <1>1
  <2>3. t \in 1 .. [p \in Orders |-> order[p].remaining][o]
    BY <1>7
  <2>4. [p \in Orders |-> order'[p].remaining]
          = [[p \in Orders |-> order[p].remaining]
               EXCEPT ![o] = [p \in Orders |-> order[p].remaining][o] - t]
    BY <1>8
  <2>5. [p \in Orders |-> order'[p].status = "COMPLETED"]
          = [[p \in Orders |-> order[p].status = "COMPLETED"]
               EXCEPT ![o] = (t = [p \in Orders |-> order[p].remaining][o])]
    BY <1>10
  <2>6. /\ [p \in Orders |-> order'[p].funded] = [p \in Orders |-> order[p].funded]
        /\ [p \in Orders |-> RefundedFrom(p)'] = [p \in Orders |-> RefundedFrom(p)]
    BY <1>6, <1>11
  <2>. QED  BY <1>9, <2>1, <2>2, <2>3, <2>4, <2>5, <2>6 DEF Ledger!Pay
<1>13. \E n \in 1 .. [p \in Orders |-> order[p].remaining][o] : Ledger!Pay(o, l, n)
  <2>1. t \in 1 .. [p \in Orders |-> order[p].remaining][o]
    BY <1>7
  <2>. WITNESS t \in 1 .. [p \in Orders |-> order[p].remaining][o]
  <2>. QED  BY <1>12
<1>. QED  BY <1>13 DEF Ledger!Next

\* A withdrawal is the ledger's Refund: the target is met, so a lot was paid.
LEMMA RefundImplements ==
  ASSUME TypeOK, TypeOK', LotInv, Origins, WeightInv, LedgerInv, LedgerInv',
         NEW sender \in Accounts, NEW o \in Orders, WithdrawRemainder(sender, o)
  PROVE  Ledger!Refund(o)
<1>1. /\ order'[o].status = "COMPLETED"
      /\ order'[o].remaining = 0
      /\ order'[o].funded = order[o].funded
      /\ \A p \in Orders \ {o} : order'[p] = order[p]
  BY DEF WithdrawRemainder, CanWithdraw, TypeOK, OrderType
<1>2. /\ order[o].fulfilled >= order[o].target
      /\ order[o].remaining > 0
      /\ order[o].status \notin {"COMPLETED", "ABSENT"}
      /\ UNCHANGED lot
  BY DEF WithdrawRemainder, CanWithdraw, TargetMet, OpenStatus, TypeOK, OrderType
<1>3. \E l \in Lots : PaidFor(o)[l] > 0
  <2>1. order[o].target > 0 /\ order[o].fulfilled = Total(DeliveredFor(o), Lots)
    BY <1>2 DEF Origins, OrderOrigin, WeightInv, WeightAccounting
  <2>2. Total(DeliveredFor(o), Lots) # 0
    BY <1>2, <2>1 DEF TypeOK, OrderType
  <2>3. PICK l \in Lots : DeliveredFor(o)[l] # 0
    BY <2>2, TotalZero
  <2>4. lot[l].order = o /\ lot[l].status = "SETTLED"
    BY <2>3 DEF DeliveredFor
  <2>5. SplitTotal(lot[l].split) > 0
    BY <2>4 DEF LotInv, AcceptedTerms
  <2>. QED  BY <2>4, <2>5 DEF PaidFor
<1>4. \A p \in Orders : PaidFor(p)' = PaidFor(p)
  BY <1>2 DEF PaidFor, SplitTotal
<1>5. RefundedFrom(o)' = order[o].remaining
  <2>1. order[o].funded = order[o].remaining + Total(PaidFor(o), Lots)
    BY <1>2 DEF LedgerInv, FundsConserved
  <2>2. order[o].remaining \in Nat /\ Total(PaidFor(o), Lots) \in Nat
    BY PaidTotalType DEF TypeOK, OrderType
  <2>. QED  BY <1>1, <1>4, <2>1, <2>2 DEF RefundedFrom
<1>6. \A p \in Orders \ {o} : RefundedFrom(p)' = RefundedFrom(p)
  BY <1>1, <1>4 DEF RefundedFrom
<1>7. [p \in Orders |-> RefundedFrom(p)']
        = [[p \in Orders |-> RefundedFrom(p)] EXCEPT ![o] = order[o].remaining]
  BY <1>5, <1>6
<1>8. [p \in Orders |-> order'[p].remaining]
        = [[p \in Orders |-> order[p].remaining] EXCEPT ![o] = 0]
  BY <1>1
<1>9. [p \in Orders |-> order'[p].status = "COMPLETED"]
        = [[p \in Orders |-> order[p].status = "COMPLETED"] EXCEPT ![o] = TRUE]
  BY <1>1
<1>10. \A p \in Orders : order'[p].funded = order[p].funded
  BY <1>1
<1>. QED
  BY <1>2, <1>3, <1>4, <1>7, <1>8, <1>9, <1>10 DEF Ledger!Refund

LEMMA StepImplementsLedger ==
  CoreInv /\ CoreInv' /\ [Next]_vars => [Ledger!Next]_(Ledger!ledger)
<1>. SUFFICES ASSUME CoreInv, CoreInv', [Next]_vars
              PROVE  Ledger!Next \/ UNCHANGED Ledger!ledger
  OBVIOUS
<1>1. CASE \A o \in Orders : SameMoney(o) /\ PaidFor(o)' = PaidFor(o)
  BY <1>1, LedgerStutter
<1>2. ASSUME NEW sender \in Accounts, NEW o \in Orders,
             NEW association \in Associations, NEW target \in Targets,
             CreateOrder(sender, o, association, target)
      PROVE  UNCHANGED Ledger!ledger
  BY <1>2, CreateOrderStutters DEF CoreInv
<1>3. ASSUME NEW sender \in Accounts, NEW o \in Orders,
             NEW amount \in Amounts, NEW ref \in PaymentRefs,
             ApplyFundOrder(sender, o, amount, ref)
      PROVE  Ledger!Next
  BY <1>3, DepositImplements DEF CoreInv, Ledger!Next
<1>4. ASSUME NEW sender \in Accounts, NEW o \in Orders, WithdrawRemainder(sender, o)
      PROVE  Ledger!Next
  BY <1>4, RefundImplements DEF CoreInv, Ledger!Next
<1>5. ASSUME NEW sender \in Accounts, NEW l \in Lots, SettleLot(sender, l)
      PROVE  Ledger!Next
  BY <1>5, PayImplements DEF CoreInv
<1>. QED  BY <1>1, <1>2, <1>3, <1>4, <1>5, MoneySteps DEF CoreInv

\* The contract implements the escrow ledger.
THEOREM ImplementsEscrowLedgerCorrect == Spec => ImplementsEscrowLedger
<1>. SUFFICES Spec => Ledger!Spec
  BY DEF ImplementsEscrowLedger
<1>1. Init => Ledger!Init
  BY InitImplementsLedger
<1>2. CoreInv /\ CoreInv' /\ [Next]_vars => [Ledger!Next]_(Ledger!ledger)
  BY StepImplementsLedger
<1>. QED  BY <1>1, <1>2, CoreInvariant, PTL DEF Spec, Ledger!Spec

-----------------------------------------------------------------------------
(* What was accepted is what is paid *)

\* What AcceptedTermsFrozen says of one lot and one step.
Frozen(l) ==
  /\ lot[l].status = "PRODUCER_ACCEPTED" =>
       \/ lot'[l] = lot[l]
       \/ lot'[l] = [lot[l] EXCEPT !.status = "SETTLED", !.reserved = 0]
  /\ lot[l].status = "SETTLED" => lot'[l] = lot[l]
  /\ lot[l].status \in {"PRODUCER_ACCEPTED", "SETTLED"} =>
       /\ inspections'[l] = inspections[l]
       /\ attestations'[l] = attestations[l]

\* A step on a lot that was not accepted yet.
LEMMA FrozenUnaccepted ==
  ASSUME NEW l \in Lots, lot[l].status \notin {"PRODUCER_ACCEPTED", "SETTLED"},
         \A k \in Lots \ {l} : /\ lot'[k] = lot[k]
                               /\ inspections'[k] = inspections[k]
                               /\ attestations'[k] = attestations[k]
  PROVE  \A k \in Lots : Frozen(k)
BY DEF Frozen

LEMMA LotCallFrozen ==
  ASSUME TypeOK, LotCall
  PROVE  \A k \in Lots : Frozen(k)
<1>. SUFFICES ASSUME NEW sender \in Accounts, NEW l \in Lots,
       \/ \E v \in Versions, weight \in Weights :
            SubmitInspectionReference(sender, l, v, weight)
       \/ \E v \in Versions, result \in AuditResult :
            SubmitAuditAttestation(sender, l, v, result)
       \/ RequestReweighing(sender, l)
       \/ \E v \in Versions, split \in Splits : AcceptSettlement(sender, l, v, split)
       \/ SettleLot(sender, l)
              PROVE  \A k \in Lots : Frozen(k)
  BY DEF LotCall
<1>1. ASSUME NEW v \in Versions, NEW weight \in Weights,
             SubmitInspectionReference(sender, l, v, weight)
      PROVE  \A k \in Lots : Frozen(k)
  <2>1. lot[l].status \notin {"PRODUCER_ACCEPTED", "SETTLED"}
    BY <1>1 DEF SubmitInspectionReference, InspectableStatus
  <2>2. UNCHANGED attestations
    BY <1>1 DEF SubmitInspectionReference
  <2>. QED  BY <1>1, <2>1, <2>2, SubmitInspectionFrame, FrozenUnaccepted DEF LotFrame
<1>2. ASSUME NEW v \in Versions, NEW result \in AuditResult,
             SubmitAuditAttestation(sender, l, v, result)
      PROVE  \A k \in Lots : Frozen(k)
  <2>1. lot[l].status = "AUDITING"
    BY <1>2 DEF SubmitAuditAttestation
  <2>2. \A k \in Lots \ {l} : attestations'[k] = attestations[k]
    BY <1>2 DEF SubmitAuditAttestation, TypeOK
  <2>. QED  BY <1>2, <2>1, <2>2, SubmitAttestationFrame, FrozenUnaccepted DEF LotFrame
<1>3. ASSUME RequestReweighing(sender, l)
      PROVE  \A k \in Lots : Frozen(k)
  <2>1. lot[l].status \notin {"PRODUCER_ACCEPTED", "SETTLED"}
    BY <1>3 DEF RequestReweighing, ReviewedStatus
  <2>2. UNCHANGED attestations
    BY <1>3 DEF RequestReweighing
  <2>. QED  BY <1>3, <2>1, <2>2, RequestReweighingFrame, FrozenUnaccepted DEF LotFrame
<1>4. ASSUME NEW v \in Versions, NEW split \in Splits,
             AcceptSettlement(sender, l, v, split)
      PROVE  \A k \in Lots : Frozen(k)
  <2>1. lot[l].status = "READY_FOR_REVIEW" /\ UNCHANGED attestations
    BY <1>4 DEF AcceptSettlement
  <2>. QED  BY <1>4, <2>1, AcceptSettlementFrame, FrozenUnaccepted DEF LotFrame
<1>5. ASSUME SettleLot(sender, l)
      PROVE  \A k \in Lots : Frozen(k)
  <2>1. /\ lot' = [lot EXCEPT ![l] = [lot[l] EXCEPT !.reserved = 0, !.status = "SETTLED"]]
        /\ lot[l].status = "PRODUCER_ACCEPTED"
        /\ UNCHANGED <<inspections, attestations>>
    BY <1>5 DEF SettleLot, CanSettle
  <2>2. /\ lot'[l] = [lot[l] EXCEPT !.status = "SETTLED", !.reserved = 0]
        /\ \A k \in Lots \ {l} : lot'[k] = lot[k]
    BY <2>1 DEF TypeOK, LotType
  <2>. QED  BY <2>1, <2>2 DEF Frozen
<1>. QED  BY <1>1, <1>2, <1>3, <1>4, <1>5

LEMMA NextFrozen == TypeOK /\ [Next]_vars => \A k \in Lots : Frozen(k)
<1>. SUFFICES ASSUME TypeOK, [Next]_vars PROVE \A k \in Lots : Frozen(k)
  OBVIOUS
<1>1. CASE UNCHANGED <<lot, inspections, attestations>>
  BY <1>1 DEF Frozen
<1>2. CASE AdminCall
  BY <1>1, <1>2
  DEF AdminCall, GrantRole, RevokeRole, RenounceRole, SetPlatformTreasury
<1>3. CASE OrderCall
  <2>1. CASE \E sender \in Accounts, o \in Orders, l \in Lots, producer \in Producers :
               RegisterLot(sender, o, l, producer)
    <3>1. PICK l \in Lots :
            /\ lot[l].status = "ABSENT"
            /\ \A k \in Lots \ {l} : lot'[k] = lot[k]
            /\ UNCHANGED <<inspections, attestations>>
      BY <2>1 DEF RegisterLot, TypeOK
    <3>. QED  BY <3>1, FrozenUnaccepted
  <2>2. ASSUME NEW sender \in Accounts, NEW o \in Orders,
               NEW association \in Associations, NEW target \in Targets,
               CreateOrder(sender, o, association, target)
        PROVE  UNCHANGED <<lot, inspections, attestations>>
    BY <2>2 DEF CreateOrder
  <2>3. ASSUME NEW sender \in Accounts, NEW o \in Orders, NEW amount \in Amounts,
               NEW ref \in PaymentRefs,
               FundOrder(sender, o, amount, ref) \/ BuyerFundOrder(sender, o, amount, ref)
        PROVE  UNCHANGED <<lot, inspections, attestations>>
    BY <2>3 DEF FundOrder, BuyerFundOrder, ApplyFundOrder
  <2>4. ASSUME NEW sender \in Accounts, NEW o \in Orders, WithdrawRemainder(sender, o)
        PROVE  UNCHANGED <<lot, inspections, attestations>>
    BY <2>4 DEF WithdrawRemainder
  <2>. QED  BY <1>1, <1>3, <2>1, <2>2, <2>3, <2>4 DEF OrderCall
<1>4. CASE LotCall
  BY <1>4, LotCallFrozen
<1>5. CASE TokenCall
  BY <1>1, <1>5 DEF TokenCall, TransferUsdc
<1>6. CASE UNCHANGED vars
  BY <1>1, <1>6 DEF vars
<1>. QED  BY <1>2, <1>3, <1>4, <1>5, <1>6 DEF Next

\* From acceptance on a lot changes only by its one payment: the terms that
\* were accepted are the terms that are paid.
THEOREM AcceptedTermsFrozenCorrect == Spec => AcceptedTermsFrozen
<1>1. TypeOK /\ [Next]_vars
        => [\A l \in Lots :
              /\ lot[l].status = "PRODUCER_ACCEPTED" =>
                   \/ lot'[l] = lot[l]
                   \/ lot'[l] = [lot[l] EXCEPT !.status = "SETTLED", !.reserved = 0]
              /\ lot[l].status = "SETTLED" => lot'[l] = lot[l]
              /\ lot[l].status \in {"PRODUCER_ACCEPTED", "SETTLED"} =>
                   /\ inspections'[l] = inspections[l]
                   /\ attestations'[l] = attestations[l]]_vars
  BY NextFrozen DEF Frozen
<1>. QED  BY <1>1, TypeCorrect, PTL DEF Spec, AcceptedTermsFrozen

-----------------------------------------------------------------------------
(* Guards that never refuse *)

LEMMA RemainingFunded ==
  ASSUME CoreInv, NEW o \in Orders
  PROVE  usdc[Core] >= order[o].remaining
<1>1. /\ usdc[Core] \in Nat /\ Total(Remaining, Orders) \in Nat
      /\ order[o].remaining \in Nat /\ order[o].remaining <= Total(Remaining, Orders)
  BY HoldersFinite, RemainingType DEF CoreInv, TypeOK
<1>2. usdc[Core] >= Total(Remaining, Orders)
  BY SolventRemaining DEF CoreInv, MoneyInv
<1>. QED  BY <1>1, <1>2

LEMMA WithdrawalNeverRefused == CoreInv => RemainderRecoverable
<1>. SUFFICES ASSUME CoreInv, NEW o \in Orders, TargetMet(o), order[o].remaining > 0
              PROVE  order[o].buyer \in Accounts /\ CanWithdraw(order[o].buyer, o)
  BY DEF RemainderRecoverable
<1>1. order[o].status \notin {"ABSENT", "DRAFT", "FUNDED", "CANCELLED", "COMPLETED"}
  BY DEF CoreInv, LedgerInv, StatusOfMoney, Origins, OrderOrigin, EmptyOrder
<1>2. order[o].buyer \in Accounts
  BY <1>1 DEF CoreInv, Origins, OrderOrigin
<1>3. order[o].status \in OpenStatus
  BY <1>1 DEF CoreInv, TypeOK, OrderType, OrderStatus, OpenStatus
<1>. QED  BY <1>2, <1>3, RemainingFunded DEF CanWithdraw

\* Once an order's target is met and USDC is left, nothing can stand in the
\* way of its buyer's withdrawal.
THEOREM RemainderRecoverableCorrect == Spec => []RemainderRecoverable
BY CoreInvariant, WithdrawalNeverRefused, PTL

\* The transfers of a split that the order can pay all find their money.
LEMMA SplitPayable ==
  ASSUME CoreInv, NEW l \in Lots, lot[l].status = "PRODUCER_ACCEPTED",
         lot[l].split.producer + lot[l].split.association + lot[l].split.platform
           <= order[lot[l].order].remaining
  PROVE  CanPaySplit(l)
<1>. DEFINE split == lot[l].split
            association == order[lot[l].order].association
<1>1. /\ split.producer \in Nat /\ split.association \in Nat /\ split.platform \in Nat
      /\ usdc \in [Holders -> Nat] /\ lot[l].order \in Orders
      /\ order[lot[l].order].remaining \in Nat
  BY CoreAssumption DEF CoreInv, TypeOK, LotType, SplitType, OrderType
<1>2. lot[l].producer \in Holders /\ lot[l].producer # Core
  BY HoldersFinite, CoreAssumption DEF CoreInv, LotInv, AcceptedTerms
<1>3. association \in Holders
  <2>1. order[lot[l].order].status # "ABSENT"
    BY AcceptedOrderExists DEF CoreInv
  <2>. QED
    BY <1>1, <2>1
    DEF CoreInv, TypeOK, OrderType, Origins, OrderOrigin, Addresses, Holders
<1>4. usdc[Core] >= order[lot[l].order].remaining /\ usdc[Core] \in Nat
  BY <1>1, HoldersFinite, RemainingFunded
<1>5. split.producer + split.association + split.platform <= usdc[Core]
  BY <1>1, <1>4
<1>. HIDE DEF split, association
<1>6. /\ AfterProducer(l) \in [Holders -> Nat]
      /\ AfterProducer(l)[Core] = usdc[Core] - split.producer
  <2>1. AfterProducer(l) = Paid(usdc, lot[l].producer, split.producer)
    BY DEF AfterProducer, split
  <2>2. usdc[Core] >= split.producer
    BY <1>1, <1>4, <1>5
  <2>. QED  BY <1>1, <1>2, <2>1, <2>2, PaidEffect
<1>7. AfterProducer(l)[Core] >= split.association
  BY <1>1, <1>4, <1>5, <1>6
<1>8. AfterAssociation(l)[Core] >= AfterProducer(l)[Core] - split.association
  <2>1. AfterAssociation(l) = Paid(AfterProducer(l), association, split.association)
    BY DEF AfterAssociation, split, association
  <2>. QED  BY <1>1, <1>3, <1>6, <1>7, <2>1, PaidEffect
<1>9. AfterAssociation(l)[Core] \in Nat
  <2>1. AfterAssociation(l) \in [Holders -> Nat]
    BY <1>1, <1>3, <1>6, <1>7, PaidEffect DEF AfterAssociation, split, association
  <2>. QED  BY <2>1, HoldersFinite
<1>10. AfterAssociation(l)[Core] >= split.platform
  BY <1>1, <1>4, <1>5, <1>6, <1>8, <1>9
<1>. QED  BY <1>1, <1>4, <1>5, <1>7, <1>10 DEF CanPaySplit, split

LEMMA SettlementNeverRefused == CoreInv => PayableLotSettles
<1>. SUFFICES ASSUME CoreInv, NEW l \in Lots, lot[l].status = "PRODUCER_ACCEPTED",
                     lot[l].split.producer + lot[l].split.association
                       + lot[l].split.platform <= order[lot[l].order].remaining
              PROVE  lot[l].producer \in Accounts /\ CanSettle(lot[l].producer, l)
  BY DEF PayableLotSettles
<1>1. PICK o \in Orders : o = lot[l].order
  BY DEF CoreInv, TypeOK, LotType
<1>2. lot[l].producer \in Accounts /\ TreasuryReady(lot[l].split)
  BY DEF CoreInv, LotInv, AcceptedTerms
<1>3. lot[l].reserved \in Nat /\ lot[l].reserved # 0
  BY DEF CoreInv, LotInv, HoldsCurrentWeight, TypeOK, LotType
<1>4. order[o].reserved >= lot[l].reserved
  <2>1. \A k \in Lots : HeldFor(o)[k] \in Nat
    BY DEF HeldFor, CoreInv, TypeOK, LotType
  <2>2. HeldFor(o)[l] <= Total(HeldFor(o), Lots) /\ Total(HeldFor(o), Lots) \in Nat
    BY <2>1, CoreAssumption, TotalTerm, TotalType
  <2>3. HeldFor(o)[l] = lot[l].reserved
    BY <1>1 DEF HeldFor
  <2>4. order[o].reserved = Total(HeldFor(o), Lots)
    BY DEF CoreInv, WeightInv, WeightAccounting
  <2>. QED  BY <1>3, <2>2, <2>3, <2>4
<1>5. order[o].remaining >= SplitTotal(lot[l].split)
  <2>1. /\ lot[l].split \in SplitType /\ order[o].remaining \in Nat
        /\ usdc[Core] \in Nat /\ UintMod \in Nat
    BY HoldersFinite, CoreAssumption DEF CoreInv, TypeOK, LotType, OrderType
  <2>2. 2 * usdc[Core] < UintMod /\ usdc[Core] >= order[o].remaining
    BY CoreWithinSupply, RemainingFunded DEF CoreInv
  <2>3. order[o].remaining < UintMod
    BY <2>1, <2>2
  <2>4. /\ lot[l].split.producer \in Nat /\ lot[l].split.association \in Nat
        /\ lot[l].split.platform \in Nat
    BY <2>1, CoreAssumption DEF SplitType
  <2>5. lot[l].split.producer + lot[l].split.association + lot[l].split.platform
          < UintMod
    BY <1>1, <2>1, <2>3, <2>4
  <2>. QED  BY <1>1, <2>1, <2>5, SplitTotalPlain
<1>. QED  BY <1>1, <1>2, <1>3, <1>4, <1>5, SplitPayable DEF CanSettle, MaySettle

\* Nothing but the order's money can refuse an accepted settlement: neither its
\* weight guards, nor the treasury, nor the roles, nor the contract's balance.
THEOREM PayableLotSettlesCorrect == Spec => []PayableLotSettles
BY CoreInvariant, SettlementNeverRefused, PTL

=============================================================================
