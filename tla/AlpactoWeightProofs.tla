------------------------ MODULE AlpactoWeightProofs ------------------------
(***************************************************************************)
(* Type correctness of the contract, and its weight accounting: what a lot *)
(* holds, what an order has reserved and fulfilled, and what a producer    *)
(* can have accepted; for every set of orders, lots and accounts, every    *)
(* amount, weight, split and modulus the assumptions allow.                *)
(*                                                                         *)
(* The argument has three layers.  Types come first.  Then the lots:       *)
(* LotInv says of each lot alone what it holds and what was accepted, and  *)
(* needs nothing of the orders.  The orders' counters follow: an action    *)
(* changes one lot, so it changes a sum over the lots by that lot's term.  *)
(***************************************************************************)
EXTENDS AlpactoCore, TotalsProofs

\* The storage of what does not exist is well typed.
LEMMA EmptyType == EmptyOrder \in OrderType /\ EmptyLot \in LotType
<1>1. (CHOOSE o \in Orders : TRUE) \in Orders
  BY CoreAssumption
<1>2. NoSplit \in SplitType
  BY CoreAssumption DEF NoSplit, SplitType
<1>. QED
  BY <1>1, <1>2, CoreAssumption
  DEF EmptyOrder, EmptyLot, OrderType, LotType, OrderStatus, LotStatus, Addresses

\* A total is a natural number, so an order never owes less than it keeps.
LEMMA SplitTotalType ==
  ASSUME NEW split \in SplitType
  PROVE  SplitTotal(split) \in 0 .. UintMod - 1
BY CoreAssumption DEF SplitTotal, SplitType

LEMMA SplitsTyped == Splits \subseteq SplitType
BY CoreAssumption DEF SplitType

\* Moving no more than the sender has keeps balances natural.
LEMMA MovedType ==
  ASSUME NEW balances \in [Holders -> Nat], NEW from \in Holders, NEW to,
         NEW amount \in Nat, balances[from] >= amount
  PROVE  Moved(balances, from, to, amount) \in [Holders -> Nat]
<1>. DEFINE debited == [balances EXCEPT ![from] = @ - amount]
<1>1. debited \in [Holders -> Nat]
  OBVIOUS
<1>. HIDE DEF debited
<1>2. [debited EXCEPT ![to] = debited[to] + amount] \in [Holders -> Nat]
  <2>1. CASE to \in Holders
    BY <1>1, <2>1
  <2>2. CASE to \notin Holders
    BY <1>1, <2>2
  <2>. QED  BY <2>1, <2>2
<1>. QED  BY <1>2 DEF Moved, debited

LEMMA PaidType ==
  ASSUME NEW balances \in [Holders -> Nat], NEW to,
         NEW amount \in Nat, balances[Core] >= amount
  PROVE  Paid(balances, to, amount) \in [Holders -> Nat]
BY MovedType DEF Paid, Holders

-----------------------------------------------------------------------------
(* Type correctness *)

LEMMA InitType == Init => TypeOK
<1>. SUFFICES ASSUME Init PROVE TypeOK
  OBVIOUS
<1>1. order \in [Orders -> OrderType] /\ lot \in [Lots -> LotType]
  BY EmptyType DEF Init
<1>2. inspections \in [Lots -> [Versions -> Nat]]
  BY DEF Init
<1>3. attestations \in [Lots -> [Versions -> AuditResult \cup {"NONE"}]]
  BY DEF Init
<1>4. usedPaymentRefs \subseteq PaymentRefs
  BY DEF Init
<1>5. roles \subseteq Roles \X Accounts
  BY CoreAssumption DEF Init, Roles
<1>6. platformTreasury \in Addresses
  BY CoreAssumption DEF Init
<1>7. usdc \in [Holders -> Nat]
  BY CoreAssumption DEF Init
<1>. QED  BY <1>1, <1>2, <1>3, <1>4, <1>5, <1>6, <1>7 DEF TypeOK

LEMMA AdminCallType == TypeOK /\ AdminCall => TypeOK'
BY CoreAssumption
DEF TypeOK, AdminCall, GrantRole, RevokeRole, RenounceRole, SetPlatformTreasury

LEMMA ApplyFundOrderType ==
  ASSUME TypeOK, NEW sender \in Accounts, NEW o \in Orders,
         NEW amount \in Amounts, NEW ref \in PaymentRefs,
         ApplyFundOrder(sender, o, amount, ref)
  PROVE  TypeOK'
<1>1. amount \in Nat
  BY CoreAssumption
<1>2. usdc' \in [Holders -> Nat]
  BY <1>1, MovedType DEF TypeOK, ApplyFundOrder, PullUsdc, Holders
<1>3. order[o] \in OrderType
  BY DEF TypeOK
<1>4. order[o].funded + amount \in Nat /\ order[o].remaining + amount \in Nat
  BY <1>1, <1>3 DEF OrderType
<1>5. [order[o] EXCEPT !.funded = order[o].funded + amount,
                       !.remaining = order[o].remaining + amount,
                       !.status = "ACCEPTING_LOTS"] \in OrderType
  BY <1>3, <1>4 DEF OrderType, OrderStatus
<1>6. order' \in [Orders -> OrderType]
  BY <1>5 DEF TypeOK, ApplyFundOrder
<1>. QED  BY <1>2, <1>6 DEF TypeOK, ApplyFundOrder

LEMMA OrderCallType == TypeOK /\ OrderCall => TypeOK'
<1>. SUFFICES ASSUME TypeOK, NEW sender \in Accounts, NEW o \in Orders,
                     \/ \E association \in Associations, target \in Targets :
                          CreateOrder(sender, o, association, target)
                     \/ \E amount \in Amounts, ref \in PaymentRefs :
                          \/ FundOrder(sender, o, amount, ref)
                          \/ BuyerFundOrder(sender, o, amount, ref)
                     \/ \E l \in Lots, producer \in Producers :
                          RegisterLot(sender, o, l, producer)
                     \/ WithdrawRemainder(sender, o)
              PROVE  TypeOK'
  BY DEF OrderCall
<1>1. ASSUME NEW association \in Associations, NEW target \in Targets,
             CreateOrder(sender, o, association, target)
      PROVE  TypeOK'
  <2>1. sender \in Addresses /\ association \in Addresses /\ target \in Nat
    BY CoreAssumption DEF Addresses
  <2>2. [EmptyOrder EXCEPT !.status = "DRAFT", !.buyer = sender,
                           !.association = association, !.target = target]
          \in OrderType
    BY <2>1, EmptyType DEF OrderType, OrderStatus
  <2>3. order' \in [Orders -> OrderType]
    BY <1>1, <2>2 DEF TypeOK, CreateOrder
  <2>. QED  BY <1>1, <2>3 DEF TypeOK, CreateOrder
<1>2. ASSUME NEW amount \in Amounts, NEW ref \in PaymentRefs,
             FundOrder(sender, o, amount, ref) \/ BuyerFundOrder(sender, o, amount, ref)
      PROVE  TypeOK'
  BY <1>2, ApplyFundOrderType DEF FundOrder, BuyerFundOrder
<1>3. ASSUME NEW l \in Lots, NEW producer \in Producers,
             RegisterLot(sender, o, l, producer)
      PROVE  TypeOK'
  <2>1. producer \in Addresses
    BY CoreAssumption
  <2>2. [EmptyLot EXCEPT !.status = "REGISTERED", !.order = o,
                         !.producer = producer] \in LotType
    BY <2>1, EmptyType DEF LotType, LotStatus
  <2>3. lot' \in [Lots -> LotType]
    BY <1>3, <2>2 DEF TypeOK, RegisterLot
  <2>. QED  BY <1>3, <2>3 DEF TypeOK, RegisterLot
<1>4. ASSUME WithdrawRemainder(sender, o)
      PROVE  TypeOK'
  <2>1. order[o].remaining \in Nat
    BY DEF TypeOK, OrderType
  <2>2. usdc' \in [Holders -> Nat]
    BY <1>4, <2>1, PaidType DEF TypeOK, WithdrawRemainder, CanWithdraw
  <2>3. [order[o] EXCEPT !.remaining = 0, !.status = "COMPLETED"] \in OrderType
    BY DEF TypeOK, OrderType, OrderStatus
  <2>4. order' \in [Orders -> OrderType]
    BY <1>4, <2>3 DEF TypeOK, WithdrawRemainder, CanWithdraw
  <2>. QED  BY <1>4, <2>2, <2>4 DEF TypeOK, WithdrawRemainder, CanWithdraw
<1>. QED  BY <1>1, <1>2, <1>3, <1>4

LEMMA SubmitInspectionType ==
  ASSUME TypeOK, NEW sender \in Accounts, NEW l \in Lots, NEW v \in Versions,
         NEW weight \in Weights, SubmitInspectionReference(sender, l, v, weight)
  PROVE  TypeOK'
<1>1. weight \in Nat /\ v \in 0 .. MaxVersion
  BY CoreAssumption DEF Versions
<1>2. lot' \in [Lots -> LotType]
  <2>1. [lot[l] EXCEPT !.version = v, !.status = "AUDITING"] \in LotType
    BY <1>1 DEF TypeOK, LotType, LotStatus
  <2>. QED  BY <2>1 DEF TypeOK, SubmitInspectionReference
<1>3. inspections' \in [Lots -> [Versions -> Nat]]
  BY <1>1 DEF TypeOK, SubmitInspectionReference
<1>. QED  BY <1>2, <1>3 DEF TypeOK, SubmitInspectionReference

LEMMA SubmitAttestationType ==
  ASSUME TypeOK, NEW sender \in Accounts, NEW l \in Lots, NEW v \in Versions,
         NEW result \in AuditResult, SubmitAuditAttestation(sender, l, v, result)
  PROVE  TypeOK'
<1>1. attestations' \in [Lots -> [Versions -> AuditResult \cup {"NONE"}]]
  BY DEF TypeOK, SubmitAuditAttestation
<1>2. CASE result \in AcceptableResult
  <2>. DEFINE o == lot[l].order
              w == inspections[l][v]
  <2>1. /\ o \in Orders /\ w \in Nat
        /\ order[o] \in OrderType /\ order[o].reserved + w \in Nat
    BY DEF TypeOK, LotType, OrderType
  <2>2. [order[o] EXCEPT !.reserved = order[o].reserved + w] \in OrderType
    BY <2>1 DEF OrderType
  <2>3. [lot[l] EXCEPT !.reserved = w, !.status = "READY_FOR_REVIEW"] \in LotType
    BY <2>1 DEF TypeOK, LotType, LotStatus
  <2>4. /\ order' = [order EXCEPT ![o] = [order[o] EXCEPT !.reserved = order[o].reserved + w]]
        /\ lot' = [lot EXCEPT ![l] = [lot[l] EXCEPT !.reserved = w, !.status = "READY_FOR_REVIEW"]]
    BY <1>2 DEF SubmitAuditAttestation, ReserveWeight
  <2>5. order' \in [Orders -> OrderType] /\ lot' \in [Lots -> LotType]
    BY <2>2, <2>3, <2>4 DEF TypeOK
  <2>. QED  BY <1>1, <2>5 DEF TypeOK, SubmitAuditAttestation
<1>3. CASE result \notin AcceptableResult
  <2>1. [lot[l] EXCEPT !.status = "REVIEW_REQUIRED"] \in LotType
    BY DEF TypeOK, LotType, LotStatus
  <2>2. /\ order' = order
        /\ lot' = [lot EXCEPT ![l] = [lot[l] EXCEPT !.status = "REVIEW_REQUIRED"]]
    BY <1>3 DEF SubmitAuditAttestation
  <2>3. lot' \in [Lots -> LotType]
    BY <2>1, <2>2 DEF TypeOK
  <2>. QED  BY <1>1, <2>2, <2>3 DEF TypeOK, SubmitAuditAttestation
<1>. QED  BY <1>2, <1>3

LEMMA RequestReweighingType ==
  ASSUME TypeOK, NEW sender \in Accounts, NEW l \in Lots,
         RequestReweighing(sender, l)
  PROVE  TypeOK'
<1>1. /\ lot[l].order \in Orders
      /\ lot[l].reserved \in Nat
      /\ order[lot[l].order].reserved \in Nat
  BY DEF TypeOK, LotType, OrderType
<1>2. order[lot[l].order].reserved - lot[l].reserved \in Nat
  BY <1>1 DEF RequestReweighing
<1>3. order' \in [Orders -> OrderType]
  <2>. DEFINE o == lot[l].order
  <2>1. [order[o] EXCEPT !.reserved = order[o].reserved - lot[l].reserved]
          \in OrderType
    BY <1>1, <1>2 DEF TypeOK, OrderType
  <2>. QED  BY <2>1 DEF TypeOK, RequestReweighing, ReleasedWeight
<1>4. lot' \in [Lots -> LotType]
  <2>1. [lot[l] EXCEPT !.reserved = 0, !.status = "REWEIGHING_REQUESTED"]
          \in LotType
    BY DEF TypeOK, LotType, LotStatus
  <2>. QED  BY <2>1 DEF TypeOK, RequestReweighing
<1>. QED  BY <1>3, <1>4 DEF TypeOK, RequestReweighing

LEMMA AcceptSettlementType ==
  ASSUME TypeOK, NEW sender \in Accounts, NEW l \in Lots, NEW v \in Versions,
         NEW split \in Splits, AcceptSettlement(sender, l, v, split)
  PROVE  TypeOK'
<1>1. split \in SplitType /\ v \in 0 .. MaxVersion
  BY SplitsTyped DEF Versions
<1>2. lot' \in [Lots -> LotType]
  <2>1. [lot[l] EXCEPT !.acceptedVersion = v, !.split = split,
                       !.status = "PRODUCER_ACCEPTED"] \in LotType
    BY <1>1 DEF TypeOK, LotType, LotStatus
  <2>. QED  BY <2>1 DEF TypeOK, AcceptSettlement
<1>. QED  BY <1>2 DEF TypeOK, AcceptSettlement

LEMMA SettleLotType ==
  ASSUME TypeOK, NEW sender \in Accounts, NEW l \in Lots, SettleLot(sender, l)
  PROVE  TypeOK'
<1>. DEFINE o == lot[l].order
            split == lot[l].split
            afterProducer == Paid(usdc, lot[l].producer, split.producer)
            afterAssociation == Paid(afterProducer, order[o].association,
                                     split.association)
<1>1. /\ o \in Orders /\ split \in SplitType
      /\ lot[l].reserved \in Nat
      /\ order[o].reserved \in Nat /\ order[o].fulfilled \in Nat
      /\ order[o].remaining \in Nat
  BY DEF TypeOK, LotType, OrderType
<1>2. split.producer \in Nat /\ split.association \in Nat /\ split.platform \in Nat
  BY <1>1 DEF SplitType
<1>3. SplitTotal(split) \in Nat
  BY <1>1, SplitTotalType
<1>4. usdc' \in [Holders -> Nat]
  <2>1. afterProducer \in [Holders -> Nat]
    BY <1>2, PaidType DEF TypeOK, SettleLot, CanSettle, CanPaySplit, AfterProducer, AfterAssociation
  <2>2. afterAssociation \in [Holders -> Nat]
    BY <1>2, <2>1, PaidType DEF SettleLot, CanSettle, CanPaySplit, AfterProducer, AfterAssociation
  <2>. QED  BY <1>2, <2>2, PaidType DEF SettleLot, CanSettle, CanPaySplit, AfterProducer, AfterAssociation
<1>5. order' \in [Orders -> OrderType]
  <2>1. order[o].remaining - SplitTotal(split) \in Nat
    BY <1>1, <1>3 DEF SettleLot, CanSettle
  <2>2. order[o].reserved - lot[l].reserved \in Nat
    BY <1>1 DEF SettleLot, CanSettle
  <2>3. order[o].fulfilled + lot[l].reserved \in Nat
    BY <1>1
  <2>. DEFINE left == order[o].remaining - SplitTotal(split)
              status == IF left = 0 THEN "COMPLETED" ELSE "PARTIALLY_SETTLED"
  <2>4. status \in OrderStatus
    BY DEF OrderStatus
  <2>. HIDE DEF left, status
  <2>5. [order[o] EXCEPT !.remaining = left,
                         !.reserved = order[o].reserved - lot[l].reserved,
                         !.fulfilled = order[o].fulfilled + lot[l].reserved,
                         !.status = status] \in OrderType
    BY <1>1, <2>1, <2>2, <2>3, <2>4 DEF TypeOK, OrderType, left
  <2>. QED  BY <1>1, <2>5 DEF TypeOK, SettleLot, CanSettle, SettledOrder, left, status
<1>6. lot' \in [Lots -> LotType]
  <2>1. [lot[l] EXCEPT !.reserved = 0, !.status = "SETTLED"] \in LotType
    BY DEF TypeOK, LotType, LotStatus
  <2>. QED  BY <2>1 DEF TypeOK, SettleLot, CanSettle
<1>. QED  BY <1>4, <1>5, <1>6 DEF TypeOK, SettleLot, CanSettle

LEMMA LotCallType == TypeOK /\ LotCall => TypeOK'
BY SubmitInspectionType, SubmitAttestationType, RequestReweighingType,
   AcceptSettlementType, SettleLotType
DEF LotCall

LEMMA TokenCallType == TypeOK /\ TokenCall => TypeOK'
<1>. SUFFICES ASSUME TypeOK, NEW sender \in Accounts, NEW to \in Holders,
                     NEW amount \in TransferAmounts,
                     TransferUsdc(sender, to, amount)
              PROVE  TypeOK'
  BY DEF TokenCall
<1>1. usdc' \in [Holders -> Nat]
  BY MovedType, CoreAssumption DEF TypeOK, TransferUsdc, Holders
<1>. QED  BY <1>1 DEF TypeOK, TransferUsdc

LEMMA NextType == TypeOK /\ [Next]_vars => TypeOK'
<1>. SUFFICES ASSUME TypeOK, [Next]_vars PROVE TypeOK'
  OBVIOUS
<1>1. CASE AdminCall
  BY <1>1, AdminCallType
<1>2. CASE OrderCall
  BY <1>2, OrderCallType
<1>3. CASE LotCall
  BY <1>3, LotCallType
<1>4. CASE TokenCall
  BY <1>4, TokenCallType
<1>5. CASE UNCHANGED vars
  BY <1>5 DEF TypeOK, vars
<1>. QED  BY <1>1, <1>2, <1>3, <1>4, <1>5 DEF Next

\* No counter, balance or version of the contract ever leaves its type: the
\* unsigned subtractions of lib.rs never go below zero.
THEOREM TypeCorrect == Spec => []TypeOK
BY InitType, NextType, PTL DEF Spec

-----------------------------------------------------------------------------
(* The invariant of the lots *)

\* What each lot alone satisfies.
LotInv == HoldsCurrentWeight /\ AcceptedIsAudited /\ AcceptedTerms

-----------------------------------------------------------------------------
(* The lots *)

\* An action of the administrators, of the token or on an order that touches
\* no lot leaves every lot as it was.
LEMMA LotsKept ==
  ASSUME LotInv, UNCHANGED <<lot, inspections, attestations>>,
         \A l \in Lots : TreasuryReady(lot[l].split) => TreasuryReady(lot[l].split)'
  PROVE  LotInv'
BY DEF LotInv, HoldsCurrentWeight, AcceptedIsAudited, AcceptedTerms, SplitTotal

\* Once set, the treasury stays set.
LEMMA AdminCallLots == TypeOK /\ LotInv /\ AdminCall => LotInv'
<1>. SUFFICES ASSUME TypeOK, LotInv, AdminCall PROVE LotInv'
  OBVIOUS
<1>1. UNCHANGED <<lot, inspections, attestations>>
  BY DEF AdminCall, GrantRole, RevokeRole, RenounceRole, SetPlatformTreasury
<1>2. platformTreasury' = platformTreasury \/ platformTreasury' # ZeroAddress
  BY DEF AdminCall, GrantRole, RevokeRole, RenounceRole, SetPlatformTreasury
<1>3. \A l \in Lots : TreasuryReady(lot[l].split) => TreasuryReady(lot[l].split)'
  BY <1>1, <1>2 DEF TreasuryReady
<1>. QED  BY <1>1, <1>3, LotsKept

LEMMA TokenCallLots == LotInv /\ TokenCall => LotInv'
BY LotsKept DEF TokenCall, TransferUsdc, TreasuryReady

\* The lots an action leaves alone keep what LotInv says of them.
LEMMA OtherLots ==
  ASSUME TypeOK, LotInv, NEW l \in Lots,
         UNCHANGED platformTreasury,
         \A k \in Lots \ {l} : /\ lot'[k] = lot[k]
                               /\ inspections'[k] = inspections[k]
                               /\ attestations'[k] = attestations[k],
         IF lot'[l].status \in {"READY_FOR_REVIEW", "PRODUCER_ACCEPTED"}
           THEN /\ lot'[l].version # 0
                /\ lot'[l].reserved = inspections'[l][lot'[l].version]
                /\ lot'[l].reserved > 0
           ELSE lot'[l].reserved = 0,
         lot'[l].status \in {"PRODUCER_ACCEPTED", "SETTLED"} =>
           /\ lot'[l].acceptedVersion = lot'[l].version
           /\ lot'[l].version # 0
           /\ attestations'[l][lot'[l].version] \in {"PASS", "WARNING"}
           /\ lot'[l].producer \in Accounts
           /\ SplitTotal(lot'[l].split) > 0
           /\ TreasuryReady(lot'[l].split)
  PROVE  LotInv'
<1>1. HoldsCurrentWeight'
  <2>. SUFFICES ASSUME NEW k \in Lots
                PROVE  IF lot'[k].status \in {"READY_FOR_REVIEW", "PRODUCER_ACCEPTED"}
                       THEN /\ lot'[k].version # 0
                            /\ lot'[k].reserved = inspections'[k][lot'[k].version]
                            /\ lot'[k].reserved > 0
                       ELSE lot'[k].reserved = 0
    BY DEF HoldsCurrentWeight
  <2>. QED  BY DEF LotInv, HoldsCurrentWeight
<1>2. AcceptedIsAudited'
  BY DEF LotInv, AcceptedIsAudited
<1>3. AcceptedTerms'
  BY DEF LotInv, AcceptedTerms, TreasuryReady, SplitTotal
<1>. QED  BY <1>1, <1>2, <1>3 DEF LotInv

LEMMA RegisterLotLots ==
  ASSUME TypeOK, LotInv, NEW sender \in Accounts, NEW o \in Orders,
         NEW l \in Lots, NEW producer \in Producers,
         RegisterLot(sender, o, l, producer)
  PROVE  LotInv'
<1>1. lot'[l] = [EmptyLot EXCEPT !.status = "REGISTERED", !.order = o,
                                 !.producer = producer]
  BY DEF RegisterLot, TypeOK
<1>2. lot'[l].status = "REGISTERED" /\ lot'[l].reserved = 0
  BY <1>1 DEF EmptyLot
<1>3. \A k \in Lots \ {l} : lot'[k] = lot[k]
  BY DEF RegisterLot, TypeOK
<1>. QED  BY <1>2, <1>3, OtherLots DEF RegisterLot

LEMMA SubmitInspectionLots ==
  ASSUME TypeOK, LotInv, NEW sender \in Accounts, NEW l \in Lots,
         NEW v \in Versions, NEW weight \in Weights,
         SubmitInspectionReference(sender, l, v, weight)
  PROVE  LotInv'
<1>1. lot'[l].status = "AUDITING" /\ lot'[l].reserved = lot[l].reserved
  BY DEF SubmitInspectionReference, TypeOK, LotType
<1>2. lot[l].reserved = 0
  BY DEF LotInv, HoldsCurrentWeight, SubmitInspectionReference, InspectableStatus
<1>3. \A k \in Lots \ {l} : lot'[k] = lot[k] /\ inspections'[k] = inspections[k]
  BY DEF SubmitInspectionReference, TypeOK
<1>. QED  BY <1>1, <1>2, <1>3, OtherLots DEF SubmitInspectionReference

LEMMA SubmitAttestationLots ==
  ASSUME TypeOK, LotInv, NEW sender \in Accounts, NEW l \in Lots,
         NEW v \in Versions, NEW result \in AuditResult,
         SubmitAuditAttestation(sender, l, v, result)
  PROVE  LotInv'
<1>1. \A k \in Lots \ {l} : attestations'[k] = attestations[k]
  BY DEF SubmitAuditAttestation, TypeOK
<1>2. CASE result \in AcceptableResult
  <2>1. lot' = [lot EXCEPT ![l] = [lot[l] EXCEPT !.reserved = inspections[l][v],
                                                 !.status = "READY_FOR_REVIEW"]]
    BY <1>2 DEF SubmitAuditAttestation, ReserveWeight
  <2>2. /\ lot'[l].status = "READY_FOR_REVIEW"
        /\ lot'[l].version = v
        /\ lot'[l].reserved = inspections[l][v]
    BY <2>1 DEF TypeOK, LotType, SubmitAuditAttestation
  <2>3. v # 0 /\ inspections[l][v] > 0
    <3>1. inspections[l][v] \in Nat
      BY DEF TypeOK
    <3>2. v # 0
      BY CoreAssumption DEF Versions
    <3>. QED  BY <3>1, <3>2 DEF SubmitAuditAttestation
  <2>4. \A k \in Lots \ {l} : lot'[k] = lot[k]
    BY <2>1 DEF TypeOK
  <2>. QED  BY <1>1, <2>2, <2>3, <2>4, OtherLots DEF SubmitAuditAttestation
<1>3. CASE result \notin AcceptableResult
  <2>1. lot' = [lot EXCEPT ![l] = [lot[l] EXCEPT !.status = "REVIEW_REQUIRED"]]
    BY <1>3 DEF SubmitAuditAttestation
  <2>2. lot'[l].status = "REVIEW_REQUIRED" /\ lot'[l].reserved = lot[l].reserved
    BY <2>1 DEF TypeOK, LotType
  <2>3. lot[l].reserved = 0
    BY DEF LotInv, HoldsCurrentWeight, SubmitAuditAttestation
  <2>4. \A k \in Lots \ {l} : lot'[k] = lot[k]
    BY <2>1 DEF TypeOK
  <2>. QED  BY <1>1, <2>2, <2>3, <2>4, OtherLots DEF SubmitAuditAttestation
<1>. QED  BY <1>2, <1>3

LEMMA RequestReweighingLots ==
  ASSUME TypeOK, LotInv, NEW sender \in Accounts, NEW l \in Lots,
         RequestReweighing(sender, l)
  PROVE  LotInv'
<1>1. lot'[l].status = "REWEIGHING_REQUESTED" /\ lot'[l].reserved = 0
  BY DEF RequestReweighing, TypeOK, LotType
<1>2. \A k \in Lots \ {l} : lot'[k] = lot[k]
  BY DEF RequestReweighing, TypeOK
<1>. QED  BY <1>1, <1>2, OtherLots DEF RequestReweighing

LEMMA AcceptSettlementLots ==
  ASSUME TypeOK, LotInv, NEW sender \in Accounts, NEW l \in Lots,
         NEW v \in Versions, NEW split \in Splits,
         AcceptSettlement(sender, l, v, split)
  PROVE  LotInv'
<1>1. /\ lot'[l].status = "PRODUCER_ACCEPTED"
      /\ lot'[l].acceptedVersion = v
      /\ lot'[l].split = split
      /\ lot'[l].version = lot[l].version
      /\ lot'[l].reserved = lot[l].reserved
      /\ lot'[l].producer = lot[l].producer
  BY DEF AcceptSettlement, TypeOK, LotType
<1>2. /\ lot[l].version # 0
      /\ lot[l].reserved = inspections[l][lot[l].version]
      /\ lot[l].reserved > 0
  BY DEF LotInv, HoldsCurrentWeight, AcceptSettlement
<1>3. SplitTotal(split) > 0
  BY SplitsTyped, SplitTotalType DEF AcceptSettlement
<1>4. \A k \in Lots \ {l} : lot'[k] = lot[k]
  BY DEF AcceptSettlement, TypeOK
<1>. QED
  BY <1>1, <1>2, <1>3, <1>4, OtherLots DEF AcceptSettlement, AcceptableResult

LEMMA SettleLotLots ==
  ASSUME TypeOK, LotInv, NEW sender \in Accounts, NEW l \in Lots,
         SettleLot(sender, l)
  PROVE  LotInv'
<1>1. lot' = [lot EXCEPT ![l] = [lot[l] EXCEPT !.reserved = 0, !.status = "SETTLED"]]
  BY DEF SettleLot, CanSettle
<1>2. /\ lot'[l].status = "SETTLED"
      /\ lot'[l].reserved = 0
      /\ lot'[l].version = lot[l].version
      /\ lot'[l].acceptedVersion = lot[l].acceptedVersion
      /\ lot'[l].producer = lot[l].producer
      /\ lot'[l].split = lot[l].split
  BY <1>1 DEF TypeOK, LotType
<1>3. /\ lot[l].acceptedVersion = lot[l].version
      /\ lot[l].version # 0
      /\ attestations[l][lot[l].version] \in {"PASS", "WARNING"}
      /\ lot[l].producer \in Accounts
      /\ SplitTotal(lot[l].split) > 0
      /\ TreasuryReady(lot[l].split)
  BY DEF LotInv, AcceptedIsAudited, AcceptedTerms, SettleLot, CanSettle
<1>4. \A k \in Lots \ {l} : lot'[k] = lot[k]
  BY <1>1 DEF TypeOK
<1>. QED  BY <1>2, <1>3, <1>4, OtherLots DEF SettleLot, CanSettle

LEMMA OrderCallLots == TypeOK /\ LotInv /\ OrderCall => LotInv'
<1>. SUFFICES ASSUME TypeOK, LotInv, NEW sender \in Accounts, NEW o \in Orders,
                     \/ \E association \in Associations, target \in Targets :
                          CreateOrder(sender, o, association, target)
                     \/ \E amount \in Amounts, ref \in PaymentRefs :
                          \/ FundOrder(sender, o, amount, ref)
                          \/ BuyerFundOrder(sender, o, amount, ref)
                     \/ \E l \in Lots, producer \in Producers :
                          RegisterLot(sender, o, l, producer)
                     \/ WithdrawRemainder(sender, o)
              PROVE  LotInv'
  BY DEF OrderCall
<1>1. CASE \E association \in Associations, target \in Targets :
             CreateOrder(sender, o, association, target)
  BY <1>1, LotsKept DEF CreateOrder, TreasuryReady
<1>2. CASE \E amount \in Amounts, ref \in PaymentRefs :
             \/ FundOrder(sender, o, amount, ref)
             \/ BuyerFundOrder(sender, o, amount, ref)
  BY <1>2, LotsKept DEF FundOrder, BuyerFundOrder, ApplyFundOrder, TreasuryReady
<1>3. CASE \E l \in Lots, producer \in Producers :
             RegisterLot(sender, o, l, producer)
  BY <1>3, RegisterLotLots
<1>4. CASE WithdrawRemainder(sender, o)
  BY <1>4, LotsKept DEF WithdrawRemainder, CanWithdraw, TreasuryReady
<1>. QED  BY <1>1, <1>2, <1>3, <1>4

LEMMA NextLots == TypeOK /\ LotInv /\ [Next]_vars => LotInv'
<1>. SUFFICES ASSUME TypeOK, LotInv, [Next]_vars PROVE LotInv'
  OBVIOUS
<1>1. CASE AdminCall
  BY <1>1, AdminCallLots
<1>2. CASE OrderCall
  BY <1>2, OrderCallLots
<1>3. CASE LotCall
  BY <1>3, SubmitInspectionLots, SubmitAttestationLots, RequestReweighingLots,
     AcceptSettlementLots, SettleLotLots DEF LotCall
<1>4. CASE TokenCall
  BY <1>4, TokenCallLots
<1>5. CASE UNCHANGED vars
  BY <1>5, LotsKept DEF vars, TreasuryReady
<1>. QED  BY <1>1, <1>2, <1>3, <1>4, <1>5 DEF Next

LEMMA InitLots == Init => LotInv
BY DEF Init, EmptyLot, LotInv, HoldsCurrentWeight, AcceptedIsAudited, AcceptedTerms

\* A lot holds the weight of its current inspection while it is under review or
\* accepted and nothing otherwise: no reservation survives a reweighing.
THEOREM HoldsCurrentWeightCorrect == Spec => []HoldsCurrentWeight
<1>1. TypeOK /\ LotInv /\ [Next]_vars => LotInv'
  BY NextLots
<1>2. LotInv => HoldsCurrentWeight
  BY DEF LotInv
<1>. QED  BY <1>1, <1>2, InitLots, TypeCorrect, PTL DEF Spec

\* Whatever was accepted or paid is the current inspection, attested PASS or
\* WARNING.
THEOREM AcceptedIsAuditedCorrect == Spec => []AcceptedIsAudited
<1>1. TypeOK /\ LotInv /\ [Next]_vars => LotInv'
  BY NextLots
<1>2. LotInv => AcceptedIsAudited
  BY DEF LotInv
<1>. QED  BY <1>1, <1>2, InitLots, TypeCorrect, PTL DEF Spec

-----------------------------------------------------------------------------
(* Where orders and lots come from *)

Origins == OrderOrigin /\ LotOrigin

\* A step that changes no order, and no lot but one of an open order.
LEMMA OrdersKept ==
  ASSUME Origins, UNCHANGED order,
         \A l \in Lots : \/ /\ lot'[l].status # "ABSENT" => lot[l].status # "ABSENT"
                           /\ lot'[l].order = lot[l].order
                        \/ order[lot'[l].order].status \in OpenStatus
  PROVE  Origins'
BY DEF Origins, OrderOrigin, LotOrigin, OpenStatus

\* A step that changes one order, which exists and has been funded.
LEMMA OneOrder ==
  ASSUME TypeOK, Origins, NEW o \in Orders,
         \A p \in Orders \ {o} : order'[p] = order[p],
         order[o].status # "ABSENT",
         order'[o].status \in {"ACCEPTING_LOTS", "PARTIALLY_SETTLED", "COMPLETED"},
         order'[o].target = order[o].target, order'[o].buyer = order[o].buyer,
         order'[o].association = order[o].association,
         \A l \in Lots : /\ lot'[l].status # "ABSENT" => lot[l].status # "ABSENT"
                         /\ lot'[l].order = lot[l].order
  PROVE  Origins'
<1>1. OrderOrigin'
  BY DEF Origins, OrderOrigin, EmptyOrder
<1>2. LotOrigin'
  <2>. SUFFICES ASSUME NEW l \in Lots, lot'[l].status # "ABSENT"
                PROVE  order'[lot'[l].order].status \notin {"ABSENT", "DRAFT", "FUNDED"}
    BY DEF LotOrigin
  <2>1. lot[l].status # "ABSENT" /\ lot'[l].order = lot[l].order
    OBVIOUS
  <2>2. lot[l].order \in Orders
    BY DEF TypeOK, LotType
  <2>3. order[lot[l].order].status \notin {"ABSENT", "DRAFT", "FUNDED"}
    BY <2>1 DEF Origins, LotOrigin
  <2>. QED  BY <2>1, <2>2, <2>3
<1>. QED  BY <1>1, <1>2 DEF Origins

LEMMA CreateOrderOrigins ==
  ASSUME TypeOK, Origins, NEW sender \in Accounts, NEW o \in Orders,
         NEW association \in Associations, NEW target \in Targets,
         CreateOrder(sender, o, association, target)
  PROVE  Origins'
<1>1. /\ order'[o].status = "DRAFT"
      /\ order'[o].target = target
      /\ order'[o].buyer = sender
      /\ order'[o].association = association
  BY DEF CreateOrder, EmptyOrder, TypeOK
<1>2. target > 0
  BY CoreAssumption DEF CreateOrder
<1>3. \A p \in Orders \ {o} : order'[p] = order[p]
  BY DEF CreateOrder, TypeOK
<1>4. OrderOrigin'
  BY <1>1, <1>2, <1>3 DEF Origins, OrderOrigin, EmptyOrder, CreateOrder
<1>5. \A l \in Lots : lot[l].status # "ABSENT" => lot[l].order # o
  BY DEF CreateOrder, Origins, LotOrigin
<1>6. LotOrigin'
  BY <1>3, <1>5 DEF Origins, LotOrigin, CreateOrder, TypeOK, LotType
<1>. QED  BY <1>4, <1>6 DEF Origins

LEMMA OrderCallOrigins == TypeOK /\ Origins /\ OrderCall => Origins'
<1>. SUFFICES ASSUME TypeOK, Origins, NEW sender \in Accounts, NEW o \in Orders,
                     \/ \E association \in Associations, target \in Targets :
                          CreateOrder(sender, o, association, target)
                     \/ \E amount \in Amounts, ref \in PaymentRefs :
                          \/ FundOrder(sender, o, amount, ref)
                          \/ BuyerFundOrder(sender, o, amount, ref)
                     \/ \E l \in Lots, producer \in Producers :
                          RegisterLot(sender, o, l, producer)
                     \/ WithdrawRemainder(sender, o)
              PROVE  Origins'
  BY DEF OrderCall
<1>1. CASE \E association \in Associations, target \in Targets :
             CreateOrder(sender, o, association, target)
  BY <1>1, CreateOrderOrigins
<1>2. ASSUME NEW amount \in Amounts, NEW ref \in PaymentRefs,
             FundOrder(sender, o, amount, ref) \/ BuyerFundOrder(sender, o, amount, ref)
      PROVE  Origins'
  <2>1. ApplyFundOrder(sender, o, amount, ref)
    BY <1>2 DEF FundOrder, BuyerFundOrder
  <2>2. /\ order'[o].status = "ACCEPTING_LOTS"
        /\ order'[o].target = order[o].target /\ order'[o].buyer = order[o].buyer
        /\ order'[o].association = order[o].association
        /\ \A p \in Orders \ {o} : order'[p] = order[p]
    BY <2>1 DEF ApplyFundOrder, TypeOK, OrderType
  <2>. QED  BY <2>1, <2>2, OneOrder DEF ApplyFundOrder, FundableStatus
<1>3. ASSUME NEW l \in Lots, NEW producer \in Producers,
             RegisterLot(sender, o, l, producer)
      PROVE  Origins'
  <2>1. lot'[l].order = o
    BY <1>3 DEF RegisterLot, TypeOK, EmptyLot
  <2>2. \A k \in Lots \ {l} : lot'[k] = lot[k]
    BY <1>3 DEF RegisterLot, TypeOK
  <2>. QED  BY <1>3, <2>1, <2>2, OrdersKept DEF RegisterLot
<1>4. ASSUME WithdrawRemainder(sender, o)
      PROVE  Origins'
  <2>1. /\ order'[o].status = "COMPLETED"
        /\ order'[o].target = order[o].target /\ order'[o].buyer = order[o].buyer
        /\ order'[o].association = order[o].association
        /\ \A p \in Orders \ {o} : order'[p] = order[p]
    BY <1>4 DEF WithdrawRemainder, CanWithdraw, TypeOK, OrderType
  <2>. QED  BY <1>4, <2>1, OneOrder DEF WithdrawRemainder, CanWithdraw, OpenStatus
<1>. QED  BY <1>1, <1>2, <1>3, <1>4

\* What a call on a lot leaves alone: the other lots, the orders other than the
\* lot's, where each lot belongs, and the order's target, buyer and association.
LotFrame(l) ==
  /\ lot[l].status # "ABSENT"
  /\ lot'[l].order = lot[l].order
  /\ \A k \in Lots \ {l} : lot'[k] = lot[k] /\ inspections'[k] = inspections[k]
  /\ \A p \in Orders \ {lot[l].order} : order'[p] = order[p]
  /\ order'[lot[l].order].target = order[lot[l].order].target
  /\ order'[lot[l].order].buyer = order[lot[l].order].buyer
  /\ order'[lot[l].order].association = order[lot[l].order].association
  /\ order'[lot[l].order].funded = order[lot[l].order].funded

LEMMA SubmitInspectionFrame ==
  ASSUME TypeOK, NEW sender \in Accounts, NEW l \in Lots, NEW v \in Versions,
         NEW weight \in Weights, SubmitInspectionReference(sender, l, v, weight)
  PROVE  LotFrame(l) /\ UNCHANGED order
BY DEF SubmitInspectionReference, InspectableStatus, LotFrame, TypeOK, LotType

LEMMA SubmitAttestationFrame ==
  ASSUME TypeOK, NEW sender \in Accounts, NEW l \in Lots, NEW v \in Versions,
         NEW result \in AuditResult, SubmitAuditAttestation(sender, l, v, result)
  PROVE  LotFrame(l) /\ order'[lot[l].order].status = order[lot[l].order].status
<1>1. CASE result \in AcceptableResult
  <2>1. /\ lot' = [lot EXCEPT ![l] = [lot[l] EXCEPT !.reserved = inspections[l][v],
                                                    !.status = "READY_FOR_REVIEW"]]
        /\ order' = [order EXCEPT ![lot[l].order] =
              [order[lot[l].order] EXCEPT
                 !.reserved = order[lot[l].order].reserved + inspections[l][v]]]
    BY <1>1 DEF SubmitAuditAttestation, ReserveWeight
  <2>2. /\ order[lot[l].order] \in OrderType /\ lot[l] \in LotType
        /\ lot[l].order \in Orders
    BY DEF TypeOK, LotType
  <2>3. lot'[l].order = lot[l].order /\ \A k \in Lots \ {l} : lot'[k] = lot[k]
    BY <2>1, <2>2 DEF TypeOK, LotType
  <2>4. \A p \in Orders \ {lot[l].order} : order'[p] = order[p]
    BY <2>1 DEF TypeOK
  <2>5. /\ order'[lot[l].order].target = order[lot[l].order].target
        /\ order'[lot[l].order].buyer = order[lot[l].order].buyer
        /\ order'[lot[l].order].association = order[lot[l].order].association
  /\ order'[lot[l].order].association = order[lot[l].order].association
        /\ order'[lot[l].order].funded = order[lot[l].order].funded
        /\ order'[lot[l].order].status = order[lot[l].order].status
    BY <2>1, <2>2 DEF TypeOK, OrderType
  <2>. QED  BY <2>3, <2>4, <2>5 DEF SubmitAuditAttestation, LotFrame
<1>2. CASE result \notin AcceptableResult
  BY <1>2 DEF SubmitAuditAttestation, LotFrame, TypeOK, LotType
<1>. QED  BY <1>1, <1>2

LEMMA RequestReweighingFrame ==
  ASSUME TypeOK, NEW sender \in Accounts, NEW l \in Lots,
         RequestReweighing(sender, l)
  PROVE  LotFrame(l) /\ order'[lot[l].order].status = order[lot[l].order].status
BY DEF RequestReweighing, ReleasedWeight, ReviewedStatus, LotFrame, TypeOK,
       LotType, OrderType

LEMMA AcceptSettlementFrame ==
  ASSUME TypeOK, NEW sender \in Accounts, NEW l \in Lots, NEW v \in Versions,
         NEW split \in Splits, AcceptSettlement(sender, l, v, split)
  PROVE  LotFrame(l) /\ UNCHANGED order
BY DEF AcceptSettlement, LotFrame, TypeOK, LotType

LEMMA SettleLotFrame ==
  ASSUME TypeOK, NEW sender \in Accounts, NEW l \in Lots, SettleLot(sender, l)
  PROVE  /\ LotFrame(l)
         /\ order'[lot[l].order].status \in {"PARTIALLY_SETTLED", "COMPLETED"}
BY DEF SettleLot, CanSettle, SettledOrder, LotFrame, TypeOK, LotType, OrderType

LEMMA LotCallOrigins == TypeOK /\ Origins /\ LotCall => Origins'
<1>. SUFFICES ASSUME TypeOK, Origins, LotCall PROVE Origins'
  OBVIOUS
<1>1. PICK l \in Lots :
        /\ LotFrame(l)
        /\ \/ order'[lot[l].order].status = order[lot[l].order].status
           \/ order'[lot[l].order].status \in {"PARTIALLY_SETTLED", "COMPLETED"}
  BY SubmitInspectionFrame, SubmitAttestationFrame, RequestReweighingFrame,
     AcceptSettlementFrame, SettleLotFrame DEF LotCall
<1>2. lot[l].order \in Orders /\ order[lot[l].order] \in OrderType
  BY DEF TypeOK, LotType
<1>3. order[lot[l].order].status \in {"ACCEPTING_LOTS", "PARTIALLY_SETTLED",
                                     "COMPLETED", "CANCELLED"}
  BY <1>1, <1>2 DEF Origins, LotOrigin, LotFrame, OrderType, OrderStatus
<1>4. order'[lot[l].order].status \notin {"ABSENT", "DRAFT", "FUNDED"}
  BY <1>1, <1>3
<1>5. \A k \in Lots : /\ lot'[k].status # "ABSENT" => lot[k].status # "ABSENT"
                      /\ lot'[k].order = lot[k].order
  BY <1>1 DEF LotFrame
<1>6. OrderOrigin'
  BY <1>1, <1>3, <1>4 DEF Origins, OrderOrigin, LotFrame
<1>7. LotOrigin'
  <2>. SUFFICES ASSUME NEW k \in Lots, lot'[k].status # "ABSENT"
                PROVE  order'[lot'[k].order].status \notin {"ABSENT", "DRAFT", "FUNDED"}
    BY DEF LotOrigin
  <2>1. lot[k].status # "ABSENT" /\ lot'[k].order = lot[k].order
    BY <1>5
  <2>2. lot[k].order \in Orders
    BY DEF TypeOK, LotType
  <2>3. CASE lot[k].order = lot[l].order
    BY <1>4, <2>1, <2>3
  <2>4. CASE lot[k].order # lot[l].order
    BY <1>1, <2>1, <2>2, <2>4 DEF LotFrame, Origins, LotOrigin
  <2>. QED  BY <2>3, <2>4
<1>. QED  BY <1>6, <1>7 DEF Origins

LEMMA NextOrigins == TypeOK /\ Origins /\ [Next]_vars => Origins'
<1>. SUFFICES ASSUME TypeOK, Origins, [Next]_vars PROVE Origins'
  OBVIOUS
<1>1. CASE AdminCall
  BY <1>1, OrdersKept
  DEF AdminCall, GrantRole, RevokeRole, RenounceRole, SetPlatformTreasury
<1>2. CASE OrderCall
  BY <1>2, OrderCallOrigins
<1>3. CASE LotCall
  BY <1>3, LotCallOrigins
<1>4. CASE TokenCall
  BY <1>4, OrdersKept DEF TokenCall, TransferUsdc
<1>5. CASE UNCHANGED vars
  BY <1>5, OrdersKept DEF vars
<1>. QED  BY <1>1, <1>2, <1>3, <1>4, <1>5 DEF Next

LEMMA InitOrigins == Init => Origins
BY DEF Init, Origins, OrderOrigin, LotOrigin, EmptyOrder, EmptyLot

-----------------------------------------------------------------------------
(* The orders *)

\* The orders' counters.
WeightInv == WeightAccounting /\ WithinTarget

\* The terms of the sums are natural numbers, before a step and after it.
LEMMA WeightTerms ==
  ASSUME TypeOK, LotInv, NEW o, NEW l \in Lots
  PROVE  HeldFor(o)[l] \in Nat /\ DeliveredFor(o)[l] \in Nat
<1>1. lot[l].reserved \in Nat
  BY DEF TypeOK, LotType
<1>2. ASSUME lot[l].status = "SETTLED"
      PROVE  inspections[l][lot[l].acceptedVersion] \in Nat
  <2>1. lot[l].version \in Versions /\ lot[l].acceptedVersion = lot[l].version
    BY <1>2, CoreAssumption
    DEF TypeOK, LotType, LotInv, AcceptedIsAudited, Versions
  <2>. QED  BY <2>1 DEF TypeOK
<1>. QED  BY <1>1, <1>2 DEF HeldFor, DeliveredFor

LEMMA WeightTermsAfter ==
  ASSUME TypeOK', LotInv', NEW o, NEW l \in Lots
  PROVE  HeldFor(o)'[l] \in Nat /\ DeliveredFor(o)'[l] \in Nat
<1>1. lot'[l].reserved \in Nat
  BY DEF TypeOK, LotType
<1>2. ASSUME lot'[l].status = "SETTLED"
      PROVE  inspections'[l][lot'[l].acceptedVersion] \in Nat
  <2>1. lot'[l].version \in Versions /\ lot'[l].acceptedVersion = lot'[l].version
    BY <1>2, CoreAssumption
    DEF TypeOK, LotType, LotInv, AcceptedIsAudited, Versions
  <2>. QED  BY <2>1 DEF TypeOK
<1>. QED  BY <1>1, <1>2 DEF HeldFor, DeliveredFor

\* A step that changes one lot changes each sum by that lot's term.
LEMMA OneLotWeight ==
  ASSUME TypeOK, TypeOK', LotInv, LotInv', NEW l \in Lots, NEW o,
         \A k \in Lots \ {l} : lot'[k] = lot[k] /\ inspections'[k] = inspections[k]
  PROVE  /\ Total(HeldFor(o)', Lots)
               = Total(HeldFor(o), Lots) - HeldFor(o)[l] + HeldFor(o)'[l]
         /\ Total(DeliveredFor(o)', Lots)
               = Total(DeliveredFor(o), Lots) - DeliveredFor(o)[l] + DeliveredFor(o)'[l]
<1>1. \A k \in Lots : HeldFor(o)[k] \in Nat /\ DeliveredFor(o)[k] \in Nat
  BY WeightTerms
<1>2. \A k \in Lots : HeldFor(o)'[k] \in Nat /\ DeliveredFor(o)'[k] \in Nat
  BY WeightTermsAfter
<1>3. \A k \in Lots : k # l => /\ HeldFor(o)'[k] = HeldFor(o)[k]
                               /\ DeliveredFor(o)'[k] = DeliveredFor(o)[k]
  BY DEF HeldFor, DeliveredFor
<1>4. IsFiniteSet(Lots)
  BY CoreAssumption
<1>5. Total(HeldFor(o)', Lots)
        = Total(HeldFor(o), Lots) - HeldFor(o)[l] + HeldFor(o)'[l]
  BY <1>1, <1>2, <1>3, <1>4, TotalUpdate
<1>6. Total(DeliveredFor(o)', Lots)
        = Total(DeliveredFor(o), Lots) - DeliveredFor(o)[l] + DeliveredFor(o)'[l]
  BY <1>1, <1>2, <1>3, <1>4, TotalUpdate
<1>. QED  BY <1>5, <1>6

\* A step that changes no lot changes no sum.
LEMMA NoLotWeight ==
  ASSUME UNCHANGED <<lot, inspections>>, NEW o
  PROVE  /\ Total(HeldFor(o)', Lots) = Total(HeldFor(o), Lots)
         /\ Total(DeliveredFor(o)', Lots) = Total(DeliveredFor(o), Lots)
<1>1. HeldFor(o)' = HeldFor(o) /\ DeliveredFor(o)' = DeliveredFor(o)
  BY DEF HeldFor, DeliveredFor
<1>. QED  BY <1>1

\* A step that keeps the lots and every order's weights keeps the invariant; a
\* target changes only where the order has no weight yet.
LEMMA WeightsKept ==
  ASSUME WeightInv, UNCHANGED <<lot, inspections>>,
         \A o \in Orders : /\ order'[o].reserved = order[o].reserved
                           /\ order'[o].fulfilled = order[o].fulfilled
                           /\ \/ order'[o].target = order[o].target
                              \/ /\ order[o].reserved = 0 /\ order[o].fulfilled = 0
                                 /\ order'[o].target \in Nat
  PROVE  WeightInv'
<1>1. WeightAccounting'
  BY NoLotWeight DEF WeightInv, WeightAccounting
<1>2. WithinTarget'
  BY DEF WeightInv, WithinTarget
<1>. QED  BY <1>1, <1>2 DEF WeightInv

\* A call on a lot moves the counters of the lot's order by the lot's terms.
LEMMA WeightStep ==
  ASSUME TypeOK, TypeOK', LotInv, LotInv', WeightInv, NEW l \in Lots, LotFrame(l),
         NEW o \in Orders, o = lot[l].order,
         order'[o].reserved = order[o].reserved - lot[l].reserved + lot'[l].reserved,
         order'[o].fulfilled
           = order[o].fulfilled - DeliveredFor(o)[l] + DeliveredFor(o)'[l],
         order'[o].reserved + order'[o].fulfilled <= order[o].target
  PROVE  WeightInv'
<1>0. lot'[l].order = o
  BY DEF LotFrame
<1>1. WithinTarget'
  BY DEF WithinTarget, WeightInv, LotFrame
<1>2. ASSUME NEW p \in Orders
      PROVE  /\ order'[p].reserved = Total(HeldFor(p)', Lots)
             /\ order'[p].fulfilled = Total(DeliveredFor(p)', Lots)
  <2>1. /\ Total(HeldFor(p)', Lots)
             = Total(HeldFor(p), Lots) - HeldFor(p)[l] + HeldFor(p)'[l]
        /\ Total(DeliveredFor(p)', Lots)
             = Total(DeliveredFor(p), Lots) - DeliveredFor(p)[l] + DeliveredFor(p)'[l]
    BY OneLotWeight DEF LotFrame
  <2>2. /\ order[p].reserved = Total(HeldFor(p), Lots)
        /\ order[p].fulfilled = Total(DeliveredFor(p), Lots)
    BY DEF WeightInv, WeightAccounting
  <2>3. CASE p = o
    <3>1. HeldFor(p)[l] = lot[l].reserved /\ HeldFor(p)'[l] = lot'[l].reserved
      BY <1>0, <2>3 DEF HeldFor
    <3>. QED  BY <2>1, <2>2, <2>3, <3>1
  <2>4. CASE p # o
    <3>1. /\ HeldFor(p)[l] = 0 /\ HeldFor(p)'[l] = 0
          /\ DeliveredFor(p)[l] = 0 /\ DeliveredFor(p)'[l] = 0
      BY <1>0, <2>4 DEF HeldFor, DeliveredFor
    <3>2. order'[p] = order[p]
      BY <2>4 DEF LotFrame
    <3>3. order[p].reserved \in Nat /\ order[p].fulfilled \in Nat
      BY DEF TypeOK, OrderType
    <3>. QED  BY <2>1, <2>2, <3>1, <3>2, <3>3
  <2>. QED  BY <2>3, <2>4
<1>. QED  BY <1>1, <1>2 DEF WeightInv, WeightAccounting

\* The lot of a call that neither pays nor has paid has no delivered weight.
LEMMA NotDelivered ==
  ASSUME NEW l \in Lots, NEW o,
         lot[l].status # "SETTLED", lot'[l].status # "SETTLED"
  PROVE  DeliveredFor(o)[l] = 0 /\ DeliveredFor(o)'[l] = 0
BY DEF DeliveredFor

LEMMA RegisterLotWeights ==
  ASSUME TypeOK, TypeOK', LotInv, LotInv', WeightInv, NEW sender \in Accounts,
         NEW o \in Orders, NEW l \in Lots, NEW producer \in Producers,
         RegisterLot(sender, o, l, producer)
  PROVE  WeightInv'
<1>1. /\ lot[l].status = "ABSENT" /\ lot[l].reserved = 0
      /\ lot'[l].status = "REGISTERED" /\ lot'[l].reserved = 0
      /\ \A k \in Lots \ {l} : lot'[k] = lot[k] /\ inspections'[k] = inspections[k]
  BY DEF RegisterLot, EmptyLot, TypeOK, LotInv, HoldsCurrentWeight
<1>2. ASSUME NEW p \in Orders
      PROVE  /\ order[p].reserved = Total(HeldFor(p)', Lots)
             /\ order[p].fulfilled = Total(DeliveredFor(p)', Lots)
  <2>1. /\ Total(HeldFor(p)', Lots)
             = Total(HeldFor(p), Lots) - HeldFor(p)[l] + HeldFor(p)'[l]
        /\ Total(DeliveredFor(p)', Lots)
             = Total(DeliveredFor(p), Lots) - DeliveredFor(p)[l] + DeliveredFor(p)'[l]
    BY <1>1, OneLotWeight
  <2>2. HeldFor(p)[l] = 0 /\ HeldFor(p)'[l] = 0
    BY <1>1 DEF HeldFor
  <2>3. DeliveredFor(p)[l] = 0 /\ DeliveredFor(p)'[l] = 0
    BY <1>1, NotDelivered
  <2>4. /\ order[p].reserved = Total(HeldFor(p), Lots)
        /\ order[p].fulfilled = Total(DeliveredFor(p), Lots)
        /\ order[p].reserved \in Nat /\ order[p].fulfilled \in Nat
    BY DEF WeightInv, WeightAccounting, TypeOK, OrderType
  <2>. QED  BY <2>1, <2>2, <2>3, <2>4
<1>3. UNCHANGED order
  BY DEF RegisterLot
<1>. QED  BY <1>2, <1>3 DEF WeightInv, WeightAccounting, WithinTarget

LEMMA OrderCallWeights ==
  ASSUME TypeOK, TypeOK', LotInv, LotInv', Origins, WeightInv, OrderCall
  PROVE  WeightInv'
<1>. SUFFICES ASSUME NEW sender \in Accounts, NEW o \in Orders,
                     \/ \E association \in Associations, target \in Targets :
                          CreateOrder(sender, o, association, target)
                     \/ \E amount \in Amounts, ref \in PaymentRefs :
                          \/ FundOrder(sender, o, amount, ref)
                          \/ BuyerFundOrder(sender, o, amount, ref)
                     \/ \E l \in Lots, producer \in Producers :
                          RegisterLot(sender, o, l, producer)
                     \/ WithdrawRemainder(sender, o)
              PROVE  WeightInv'
  BY DEF OrderCall
<1>1. ASSUME NEW association \in Associations, NEW target \in Targets,
             CreateOrder(sender, o, association, target)
      PROVE  WeightInv'
  <2>1. /\ order'[o].reserved = 0 /\ order'[o].fulfilled = 0
        /\ order'[o].target = target
        /\ \A p \in Orders \ {o} : order'[p] = order[p]
    BY <1>1 DEF CreateOrder, EmptyOrder, TypeOK
  <2>2. order[o].reserved = 0 /\ order[o].fulfilled = 0
    <3>1. order[o] = EmptyOrder
      BY <1>1 DEF CreateOrder, Origins, OrderOrigin
    <3>. QED  BY <3>1 DEF EmptyOrder
  <2>3. target \in Nat
    BY CoreAssumption
  <2>. QED  BY <1>1, <2>1, <2>2, <2>3, WeightsKept DEF CreateOrder
<1>2. ASSUME NEW amount \in Amounts, NEW ref \in PaymentRefs,
             FundOrder(sender, o, amount, ref) \/ BuyerFundOrder(sender, o, amount, ref)
      PROVE  WeightInv'
  <2>1. ApplyFundOrder(sender, o, amount, ref)
    BY <1>2 DEF FundOrder, BuyerFundOrder
  <2>2. \A p \in Orders : /\ order'[p].reserved = order[p].reserved
                          /\ order'[p].fulfilled = order[p].fulfilled
                          /\ order'[p].target = order[p].target
    BY <2>1 DEF ApplyFundOrder, TypeOK, OrderType
  <2>. QED  BY <2>1, <2>2, WeightsKept DEF ApplyFundOrder
<1>3. CASE \E l \in Lots, producer \in Producers :
             RegisterLot(sender, o, l, producer)
  BY <1>3, RegisterLotWeights
<1>4. ASSUME WithdrawRemainder(sender, o)
      PROVE  WeightInv'
  <2>1. \A p \in Orders : /\ order'[p].reserved = order[p].reserved
                          /\ order'[p].fulfilled = order[p].fulfilled
                          /\ order'[p].target = order[p].target
    BY <1>4 DEF WithdrawRemainder, CanWithdraw, TypeOK, OrderType
  <2>. QED  BY <1>4, <2>1, WeightsKept DEF WithdrawRemainder, CanWithdraw
<1>. QED  BY <1>1, <1>2, <1>3, <1>4

\* A call that keeps the order and the lot's weight keeps the counters.
LEMMA SameWeights ==
  ASSUME TypeOK, TypeOK', LotInv, LotInv', WeightInv, NEW l \in Lots, LotFrame(l),
         UNCHANGED order, lot'[l].reserved = lot[l].reserved,
         lot[l].status # "SETTLED", lot'[l].status # "SETTLED"
  PROVE  WeightInv'
<1>a. PICK o \in Orders : o = lot[l].order
  BY DEF TypeOK, LotType
<1>1. DeliveredFor(o)[l] = 0 /\ DeliveredFor(o)'[l] = 0
  BY NotDelivered
<1>2. /\ o \in Orders /\ lot[l].reserved \in Nat
      /\ order[o].reserved \in Nat /\ order[o].fulfilled \in Nat
  BY <1>a DEF TypeOK, LotType, OrderType
<1>3. order[o].reserved + order[o].fulfilled <= order[o].target
  BY <1>a, <1>2 DEF WeightInv, WithinTarget
<1>. QED  BY <1>a, <1>1, <1>2, <1>3, WeightStep

LEMMA SubmitAttestationWeights ==
  ASSUME TypeOK, TypeOK', LotInv, LotInv', WeightInv, NEW sender \in Accounts,
         NEW l \in Lots, NEW v \in Versions, NEW result \in AuditResult,
         SubmitAuditAttestation(sender, l, v, result)
  PROVE  WeightInv'
<1>a. PICK o \in Orders : o = lot[l].order
  BY DEF TypeOK, LotType
<1>. DEFINE w == inspections[l][v]
<1>0. LotFrame(l)
  BY SubmitAttestationFrame
<1>1. /\ o \in Orders /\ order[o] \in OrderType /\ lot[l] \in LotType
      /\ order[o].reserved \in Nat /\ order[o].fulfilled \in Nat
      /\ order[o].target \in Nat /\ w \in Nat
  BY <1>a DEF TypeOK, LotType, OrderType
<1>2. CASE result \in AcceptableResult
  <2>1. /\ lot' = [lot EXCEPT ![l] = [lot[l] EXCEPT !.reserved = w,
                                                    !.status = "READY_FOR_REVIEW"]]
        /\ order' = [order EXCEPT ![o] =
                        [order[o] EXCEPT !.reserved = order[o].reserved + w]]
        /\ w # 0 /\ w <= AvailableWeight(o)
    BY <1>a, <1>2 DEF SubmitAuditAttestation, ReserveWeight
  <2>2. /\ lot'[l].reserved = w /\ lot'[l].status = "READY_FOR_REVIEW"
        /\ order'[o].reserved = order[o].reserved + w
        /\ order'[o].fulfilled = order[o].fulfilled
    BY <1>a, <1>1, <2>1 DEF TypeOK, LotType, OrderType
  <2>3. lot[l].reserved = 0 /\ lot[l].status # "SETTLED"
    BY DEF LotInv, HoldsCurrentWeight, SubmitAuditAttestation
  <2>4. order[o].reserved + order[o].fulfilled + w <= order[o].target
    BY <1>a, <1>1, <2>1 DEF AvailableWeight, UsedWeight
  <2>5. DeliveredFor(o)[l] = 0 /\ DeliveredFor(o)'[l] = 0
    BY <1>a, <2>2, <2>3, NotDelivered
  <2>. HIDE DEF w
  <2>. QED  BY <1>a, <1>0, <1>1, <2>2, <2>3, <2>4, <2>5, WeightStep
<1>3. CASE result \notin AcceptableResult
  <2>1. /\ lot' = [lot EXCEPT ![l] = [lot[l] EXCEPT !.status = "REVIEW_REQUIRED"]]
        /\ UNCHANGED order
        /\ lot[l].status = "AUDITING"
    BY <1>a, <1>3 DEF SubmitAuditAttestation
  <2>2. lot'[l].reserved = lot[l].reserved /\ lot'[l].status = "REVIEW_REQUIRED"
    BY <1>a, <1>1, <2>1 DEF TypeOK, LotType
  <2>. QED  BY <1>a, <1>0, <2>1, <2>2, SameWeights
<1>. QED  BY <1>a, <1>2, <1>3

LEMMA RequestReweighingWeights ==
  ASSUME TypeOK, TypeOK', LotInv, LotInv', WeightInv, NEW sender \in Accounts,
         NEW l \in Lots, RequestReweighing(sender, l)
  PROVE  WeightInv'
<1>a. PICK o \in Orders : o = lot[l].order
  BY DEF TypeOK, LotType
<1>0. LotFrame(l)
  BY RequestReweighingFrame
<1>1. /\ o \in Orders /\ order[o] \in OrderType /\ lot[l] \in LotType
      /\ order[o].reserved \in Nat /\ order[o].fulfilled \in Nat
      /\ order[o].target \in Nat /\ lot[l].reserved \in Nat
  BY <1>a DEF TypeOK, LotType, OrderType
<1>2. /\ lot'[l].reserved = 0 /\ lot'[l].status = "REWEIGHING_REQUESTED"
      /\ lot[l].status # "SETTLED"
  BY <1>a, <1>1 DEF RequestReweighing, ReviewedStatus, TypeOK, LotType
<1>3. /\ order'[o].reserved = order[o].reserved - lot[l].reserved
      /\ order'[o].fulfilled = order[o].fulfilled
  BY <1>a, <1>1 DEF RequestReweighing, ReleasedWeight, TypeOK, OrderType
<1>4. DeliveredFor(o)[l] = 0 /\ DeliveredFor(o)'[l] = 0
  BY <1>a, <1>2, NotDelivered
<1>5. order[o].reserved + order[o].fulfilled <= order[o].target
  BY <1>a, <1>1 DEF WeightInv, WithinTarget
<1>. QED  BY <1>a, <1>0, <1>1, <1>2, <1>3, <1>4, <1>5, WeightStep

\* A settled lot's reserved grams become its delivered grams: they are the
\* weight of the inspection that was accepted.
LEMMA SettleLotWeights ==
  ASSUME TypeOK, TypeOK', LotInv, LotInv', WeightInv, NEW sender \in Accounts,
         NEW l \in Lots, SettleLot(sender, l)
  PROVE  WeightInv'
<1>a. PICK o \in Orders : o = lot[l].order
  BY DEF TypeOK, LotType
<1>0. LotFrame(l)
  BY SettleLotFrame
<1>1. /\ o \in Orders /\ order[o] \in OrderType /\ lot[l] \in LotType
      /\ order[o].reserved \in Nat /\ order[o].fulfilled \in Nat
      /\ order[o].target \in Nat /\ lot[l].reserved \in Nat
  BY <1>a DEF TypeOK, LotType, OrderType
<1>2. lot' = [lot EXCEPT ![l] = [lot[l] EXCEPT !.reserved = 0, !.status = "SETTLED"]]
  BY DEF SettleLot, CanSettle
<1>3. /\ lot'[l].reserved = 0 /\ lot'[l].status = "SETTLED"
      /\ lot'[l].acceptedVersion = lot[l].acceptedVersion
      /\ lot'[l].order = o
  BY <1>a, <1>1, <1>2 DEF TypeOK, LotType
<1>4. /\ order'[o].reserved = order[o].reserved - lot[l].reserved
      /\ order'[o].fulfilled = order[o].fulfilled + lot[l].reserved
  BY <1>a, <1>1 DEF SettleLot, CanSettle, SettledOrder, TypeOK, OrderType
<1>5. lot[l].reserved = inspections[l][lot[l].acceptedVersion]
  BY DEF SettleLot, CanSettle, LotInv, HoldsCurrentWeight, AcceptedIsAudited
<1>6. DeliveredFor(o)[l] = 0
  BY DEF DeliveredFor, SettleLot, CanSettle
<1>7. DeliveredFor(o)'[l] = lot[l].reserved
  BY <1>a, <1>3, <1>5 DEF DeliveredFor, SettleLot, CanSettle
<1>8. order[o].reserved + order[o].fulfilled <= order[o].target
  BY <1>a, <1>1 DEF WeightInv, WithinTarget
<1>. QED  BY <1>a, <1>0, <1>1, <1>3, <1>4, <1>6, <1>7, <1>8, WeightStep

LEMMA LotCallWeights ==
  ASSUME TypeOK, TypeOK', LotInv, LotInv', WeightInv, LotCall
  PROVE  WeightInv'
<1>. SUFFICES ASSUME NEW sender \in Accounts, NEW l \in Lots,
       \/ \E v \in Versions, weight \in Weights :
            SubmitInspectionReference(sender, l, v, weight)
       \/ \E v \in Versions, result \in AuditResult :
            SubmitAuditAttestation(sender, l, v, result)
       \/ RequestReweighing(sender, l)
       \/ \E v \in Versions, split \in Splits : AcceptSettlement(sender, l, v, split)
       \/ SettleLot(sender, l)
              PROVE  WeightInv'
  BY DEF LotCall
<1>1. ASSUME NEW v \in Versions, NEW weight \in Weights,
             SubmitInspectionReference(sender, l, v, weight)
      PROVE  WeightInv'
  <2>1. /\ lot[l].status \in InspectableStatus
        /\ lot'[l].reserved = lot[l].reserved /\ lot'[l].status = "AUDITING"
    BY <1>1 DEF SubmitInspectionReference, TypeOK, LotType
  <2>2. lot[l].status # "SETTLED"
    BY <2>1 DEF InspectableStatus
  <2>. QED  BY <1>1, <2>1, <2>2, SubmitInspectionFrame, SameWeights
<1>2. CASE \E v \in Versions, result \in AuditResult :
             SubmitAuditAttestation(sender, l, v, result)
  BY <1>2, SubmitAttestationWeights
<1>3. CASE RequestReweighing(sender, l)
  BY <1>3, RequestReweighingWeights
<1>4. ASSUME NEW v \in Versions, NEW split \in Splits,
             AcceptSettlement(sender, l, v, split)
      PROVE  WeightInv'
  <2>1. /\ lot[l].status # "SETTLED"
        /\ lot'[l].reserved = lot[l].reserved
        /\ lot'[l].status = "PRODUCER_ACCEPTED"
    BY <1>4 DEF AcceptSettlement, TypeOK, LotType
  <2>. QED  BY <1>4, <2>1, AcceptSettlementFrame, SameWeights
<1>5. CASE SettleLot(sender, l)
  BY <1>5, SettleLotWeights
<1>. QED  BY <1>1, <1>2, <1>3, <1>4, <1>5

LEMMA NextWeights ==
  TypeOK /\ TypeOK' /\ LotInv /\ LotInv' /\ Origins /\ WeightInv /\ [Next]_vars
    => WeightInv'
<1>. SUFFICES ASSUME TypeOK, TypeOK', LotInv, LotInv', Origins, WeightInv, [Next]_vars
              PROVE  WeightInv'
  OBVIOUS
<1>1. CASE UNCHANGED <<order, lot, inspections>>
  BY <1>1, WeightsKept
<1>2. CASE AdminCall
  BY <1>1, <1>2
  DEF AdminCall, GrantRole, RevokeRole, RenounceRole, SetPlatformTreasury
<1>3. CASE OrderCall
  BY <1>3, OrderCallWeights
<1>4. CASE LotCall
  BY <1>4, LotCallWeights
<1>5. CASE TokenCall
  BY <1>1, <1>5 DEF TokenCall, TransferUsdc
<1>6. CASE UNCHANGED vars
  BY <1>1, <1>6 DEF vars
<1>. QED  BY <1>2, <1>3, <1>4, <1>5, <1>6 DEF Next

LEMMA InitWeights == Init => WeightInv
<1>. SUFFICES ASSUME Init, NEW o \in Orders
              PROVE  /\ order[o].reserved = Total(HeldFor(o), Lots)
                     /\ order[o].fulfilled = Total(DeliveredFor(o), Lots)
                     /\ order[o].reserved + order[o].fulfilled <= order[o].target
  BY DEF WeightInv, WeightAccounting, WithinTarget
<1>1. order[o].reserved = 0 /\ order[o].fulfilled = 0 /\ order[o].target = 0
  BY DEF Init, EmptyOrder
<1>2. \A l \in Lots : HeldFor(o)[l] = 0 /\ DeliveredFor(o)[l] = 0
  BY DEF Init, EmptyLot, HeldFor, DeliveredFor
<1>3. Total(HeldFor(o), Lots) = 0 /\ Total(DeliveredFor(o), Lots) = 0
  BY <1>2, TotalZero
<1>. QED  BY <1>1, <1>3

\* The four layers together are inductive.
LEMMA WeightsInvariant == Spec => [](TypeOK /\ LotInv /\ Origins /\ WeightInv)
<1>1. Init => TypeOK /\ LotInv /\ Origins /\ WeightInv
  BY InitType, InitLots, InitOrigins, InitWeights
<1>2. TypeOK /\ LotInv /\ Origins /\ WeightInv /\ [Next]_vars
        => (TypeOK /\ LotInv /\ Origins /\ WeightInv)'
  BY NextType, NextLots, NextOrigins, NextWeights
<1>. QED  BY <1>1, <1>2, PTL DEF Spec

\* An order's reserved and fulfilled grams are what its lots hold and have
\* delivered, through every audit, reweighing and settlement.
THEOREM WeightAccountingCorrect == Spec => []WeightAccounting
<1>1. WeightInv => WeightAccounting
  BY DEF WeightInv
<1>. QED  BY <1>1, WeightsInvariant, PTL

\* No order ever takes more fibre than its target.
THEOREM WithinTargetCorrect == Spec => []WithinTarget
<1>1. WeightInv => WithinTarget
  BY DEF WeightInv
<1>. QED  BY <1>1, WeightsInvariant, PTL

=============================================================================
