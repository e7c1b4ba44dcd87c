------------------------ MODULE AlpactoEscrowProofs ------------------------
(***************************************************************************)
(* The money of the contract: it holds what it owes, every deposit is      *)
(* accounted for, and it implements the escrow ledger.                     *)
(*                                                                         *)
(* Solvency rests on the supply.  Tokens are neither minted nor burnt, so  *)
(* what the three transfers of a settlement take out is below the modulus  *)
(* and the split's total, computed modulo 2^256, is the true total: if it  *)
(* had wrapped, one of the transfers would have failed.                    *)
(***************************************************************************)
EXTENDS AlpactoWeightProofs

\* What each order still holds, as terms of a sum.
Remaining == [o \in Orders |-> order[o].remaining]

MoneyInv == SupplyConserved /\ Solvent

-----------------------------------------------------------------------------
(* Tokens *)

LEMMA HoldersFinite == IsFiniteSet(Holders) /\ Accounts \subseteq Holders /\ Core \in Holders
<1>1. IsFiniteSet(Accounts)
  BY SupplyAssumption
<1>2. IsFiniteSet(Accounts \cup {Core})
  BY <1>1, FS_AddElement
<1>. QED  BY <1>2 DEF Holders

\* A transfer between two holders moves no token out of the supply.
LEMMA MovedTotal ==
  ASSUME NEW balances \in [Holders -> Nat], NEW from \in Holders, NEW to \in Holders,
         NEW amount \in Nat, balances[from] >= amount
  PROVE  /\ Moved(balances, from, to, amount) \in [Holders -> Nat]
         /\ Total(Moved(balances, from, to, amount), Holders) = Total(balances, Holders)
<1>. DEFINE debited == [balances EXCEPT ![from] = @ - amount]
            moved   == [debited EXCEPT ![to] = @ + amount]
<1>1. debited \in [Holders -> Nat] /\ debited[from] = balances[from] - amount
  OBVIOUS
<1>2. \A h \in Holders : h # from => debited[h] = balances[h]
  OBVIOUS
<1>3. moved = Moved(balances, from, to, amount)
  BY DEF Moved
<1>. HIDE DEF debited
<1>4. moved \in [Holders -> Nat] /\ moved[to] = debited[to] + amount
  BY <1>1
<1>5. \A h \in Holders : h # to => moved[h] = debited[h]
  BY <1>1
<1>. HIDE DEF moved
<1>6. Total(debited, Holders)
        = Total(balances, Holders) - balances[from] + debited[from]
  BY <1>1, <1>2, HoldersFinite, TotalUpdate
<1>7. Total(moved, Holders) = Total(debited, Holders) - debited[to] + moved[to]
  BY <1>1, <1>4, <1>5, HoldersFinite, TotalUpdate
<1>8. Total(balances, Holders) \in Nat
  BY HoldersFinite, TotalType
<1>. QED  BY <1>1, <1>3, <1>4, <1>6, <1>7, <1>8

\* What a payout does to the contract's own balance and to the supply.
LEMMA PaidEffect ==
  ASSUME NEW balances \in [Holders -> Nat], NEW to, NEW amount \in Nat,
         balances[Core] >= amount, amount # 0 => to \in Holders
  PROVE  /\ Paid(balances, to, amount) \in [Holders -> Nat]
         /\ Total(Paid(balances, to, amount), Holders) = Total(balances, Holders)
         /\ Paid(balances, to, amount)[Core] >= balances[Core] - amount
         /\ Paid(balances, to, amount)[Core] <= balances[Core]
         /\ to # Core => Paid(balances, to, amount)[Core] = balances[Core] - amount
<1>1. CASE amount = 0
  BY <1>1, HoldersFinite DEF Paid
<1>2. CASE amount # 0
  <2>1. /\ Moved(balances, Core, to, amount) \in [Holders -> Nat]
        /\ Total(Moved(balances, Core, to, amount), Holders) = Total(balances, Holders)
    BY <1>2, HoldersFinite, MovedTotal
  <2>2. Moved(balances, Core, to, amount)[Core]
          = IF to = Core THEN balances[Core] ELSE balances[Core] - amount
    BY <1>2, HoldersFinite DEF Moved
  <2>. QED  BY <1>2, <2>1, <2>2, HoldersFinite DEF Paid
<1>. QED  BY <1>1, <1>2

-----------------------------------------------------------------------------
(* What the orders hold *)

LEMMA OrdersFinite == IsFiniteSet(Orders)
BY CoreAssumption

\* A step that changes one order changes the sum by that order's remainder.
LEMMA OneOrderRemaining ==
  ASSUME TypeOK, TypeOK', NEW o \in Orders,
         \A p \in Orders \ {o} : order'[p].remaining = order[p].remaining
  PROVE  Total(Remaining', Orders)
           = Total(Remaining, Orders) - order[o].remaining + order'[o].remaining
<1>1. \A p \in Orders : Remaining[p] \in Nat
  BY DEF Remaining, TypeOK, OrderType
<1>2. \A p \in Orders : Remaining'[p] \in Nat
  BY DEF Remaining, TypeOK, OrderType
<1>3. \A p \in Orders : p # o => Remaining'[p] = Remaining[p]
  BY DEF Remaining
<1>4. Total(Remaining', Orders)
        = Total(Remaining, Orders) - Remaining[o] + Remaining'[o]
  BY <1>1, <1>2, <1>3, OrdersFinite, TotalUpdate
<1>. QED  BY <1>4 DEF Remaining

LEMMA RemainingType ==
  ASSUME TypeOK
  PROVE  /\ Total(Remaining, Orders) \in Nat
         /\ \A o \in Orders : order[o].remaining \in Nat
                                /\ order[o].remaining <= Total(Remaining, Orders)
<1>1. \A p \in Orders : Remaining[p] \in Nat
  BY DEF Remaining, TypeOK, OrderType
<1>2. Total(Remaining, Orders) \in Nat
  BY <1>1, OrdersFinite, TotalType
<1>3. \A p \in Orders : Remaining[p] <= Total(Remaining, Orders)
  BY <1>1, OrdersFinite, TotalTerm
<1>. QED  BY <1>1, <1>2, <1>3 DEF Remaining

LEMMA SolventRemaining == Solvent <=> usdc[Core] >= Total(Remaining, Orders)
BY DEF Solvent, Remaining

LEMMA SolventRemainingAfter == Solvent' <=> usdc'[Core] >= Total(Remaining', Orders)
BY DEF Solvent, Remaining

\* A step that keeps every remainder and takes nothing from the contract.
LEMMA MoneyKept ==
  ASSUME TypeOK, TypeOK', MoneyInv,
         \A o \in Orders : order'[o].remaining = order[o].remaining,
         Total(usdc', Holders) = Total(usdc, Holders),
         usdc'[Core] >= usdc[Core]
  PROVE  MoneyInv'
<1>1. Remaining' = Remaining
  BY DEF Remaining
<1>2. usdc[Core] \in Nat /\ usdc'[Core] \in Nat /\ Total(Remaining, Orders) \in Nat
  BY HoldersFinite, RemainingType DEF TypeOK
<1>3. Solvent'
  BY <1>1, <1>2, SolventRemaining, SolventRemainingAfter DEF MoneyInv
<1>4. SupplyConserved'
  BY DEF MoneyInv, SupplyConserved
<1>. QED  BY <1>3, <1>4 DEF MoneyInv

LEMMA MoneyUntouched ==
  ASSUME MoneyInv, UNCHANGED <<order, usdc>>
  PROVE  MoneyInv'
BY DEF MoneyInv, Solvent, SupplyConserved

\* A step that takes no more from the contract than from one order.
LEMMA MoneyStep ==
  ASSUME TypeOK, TypeOK', MoneyInv, NEW o \in Orders,
         \A p \in Orders \ {o} : order'[p].remaining = order[p].remaining,
         Total(usdc', Holders) = Total(usdc, Holders),
         usdc'[Core] - usdc[Core] >= order'[o].remaining - order[o].remaining
  PROVE  MoneyInv'
<1>1. /\ usdc[Core] \in Nat /\ usdc'[Core] \in Nat /\ Total(Remaining, Orders) \in Nat
      /\ order[o].remaining \in Nat /\ order'[o].remaining \in Nat
  BY HoldersFinite, RemainingType DEF TypeOK, OrderType
<1>2. Total(Remaining', Orders)
        = Total(Remaining, Orders) - order[o].remaining + order'[o].remaining
  BY OneOrderRemaining
<1>3. usdc[Core] >= Total(Remaining, Orders)
  BY SolventRemaining DEF MoneyInv
<1>4. usdc'[Core] >= Total(Remaining', Orders)
  BY <1>1, <1>2, <1>3
<1>5. Solvent'
  BY <1>4, SolventRemainingAfter
<1>6. SupplyConserved'
  BY DEF MoneyInv, SupplyConserved
<1>. QED  BY <1>5, <1>6 DEF MoneyInv

-----------------------------------------------------------------------------
(* Deposits and withdrawals *)

LEMMA ApplyFundOrderMoney ==
  ASSUME TypeOK, TypeOK', MoneyInv, NEW sender \in Accounts, NEW o \in Orders,
         NEW amount \in Amounts, NEW ref \in PaymentRefs,
         ApplyFundOrder(sender, o, amount, ref)
  PROVE  MoneyInv'
<1>1. amount \in Nat /\ sender \in Holders /\ sender # Core
  BY CoreAssumption, HoldersFinite
<1>2. usdc[sender] >= amount /\ usdc' = Moved(usdc, sender, Core, amount)
  BY DEF ApplyFundOrder, PullUsdc
<1>3. Total(usdc', Holders) = Total(usdc, Holders)
  BY <1>1, <1>2, HoldersFinite, MovedTotal DEF TypeOK
<1>4. usdc'[Core] = usdc[Core] + amount
  BY <1>1, <1>2, HoldersFinite DEF Moved, TypeOK
<1>5. /\ order'[o].remaining = order[o].remaining + amount
      /\ \A p \in Orders \ {o} : order'[p].remaining = order[p].remaining
  BY DEF ApplyFundOrder, TypeOK, OrderType
<1>6. order[o].remaining \in Nat /\ usdc[Core] \in Nat
  BY HoldersFinite DEF TypeOK, OrderType
<1>. QED  BY <1>1, <1>3, <1>4, <1>5, <1>6, MoneyStep

LEMMA WithdrawMoney ==
  ASSUME TypeOK, TypeOK', Origins, MoneyInv, NEW sender \in Accounts,
         NEW o \in Orders, WithdrawRemainder(sender, o)
  PROVE  MoneyInv'
<1>. DEFINE amount == order[o].remaining
<1>1. amount \in Nat /\ usdc \in [Holders -> Nat]
  BY DEF TypeOK, OrderType
<1>2. /\ order'[o].remaining = 0
      /\ \A p \in Orders \ {o} : order'[p].remaining = order[p].remaining
  BY DEF WithdrawRemainder, CanWithdraw, TypeOK, OrderType
<1>3. usdc[Core] >= amount /\ usdc' = Paid(usdc, sender, amount)
  BY DEF WithdrawRemainder, CanWithdraw
<1>. HIDE DEF amount
<1>4. /\ Total(usdc', Holders) = Total(usdc, Holders)
      /\ usdc'[Core] >= usdc[Core] - amount
      /\ usdc' \in [Holders -> Nat]
  BY <1>1, <1>3, HoldersFinite, PaidEffect
<1>5. usdc[Core] \in Nat /\ usdc'[Core] \in Nat
  BY <1>1, <1>4, HoldersFinite
<1>6. usdc'[Core] - usdc[Core] >= order'[o].remaining - order[o].remaining
  BY <1>1, <1>2, <1>4, <1>5 DEF amount
<1>. QED  BY <1>2, <1>4, <1>6, MoneyStep

-----------------------------------------------------------------------------
(* Settlement *)

\* The contract never holds more than the supply.
LEMMA CoreWithinSupply ==
  ASSUME TypeOK, MoneyInv
  PROVE  2 * usdc[Core] < UintMod
<1>1. \A h \in Holders : usdc[h] \in Nat
  BY DEF TypeOK
<1>2. usdc[Core] <= Total(usdc, Holders)
  BY <1>1, HoldersFinite, TotalTerm
<1>3. Total(usdc, Holders) \in Nat
  BY <1>1, HoldersFinite, TotalType
<1>. QED
  BY <1>1, <1>2, <1>3, HoldersFinite, SupplyAssumption, CoreAssumption
  DEF MoneyInv, SupplyConserved

\* A total below the modulus is the plain sum.
LEMMA SplitTotalPlain ==
  ASSUME NEW split \in SplitType,
         split.producer + split.association + split.platform < UintMod
  PROVE  SplitTotal(split) = split.producer + split.association + split.platform
<1>1. \A x, m \in Nat : x < m => x % m = x
  OBVIOUS
<1>2. /\ split.producer \in Nat /\ split.association \in Nat /\ split.platform \in Nat
      /\ UintMod \in Nat
  BY CoreAssumption DEF SplitType
<1>. DEFINE sum == split.producer + split.association + split.platform
<1>3. sum \in Nat /\ sum < UintMod
  BY <1>2
<1>4. sum % UintMod = sum
  <2>. HIDE DEF sum
  <2>. QED  BY <1>1, <1>2, <1>3
<1>. QED  BY <1>4 DEF SplitTotal

\* The three transfers of a settlement succeed only if the split's total did
\* not wrap, and they take exactly that total or less from the contract.
LEMMA PaySplitMoney ==
  ASSUME TypeOK, LotInv, Origins, MoneyInv, NEW l \in Lots,
         lot[l].status = "PRODUCER_ACCEPTED",
         order[lot[l].order].status # "ABSENT",
         CanPaySplit(l),
         usdc' = Paid(AfterAssociation(l), platformTreasury, lot[l].split.platform)
  PROVE  /\ usdc' \in [Holders -> Nat]
         /\ Total(usdc', Holders) = Total(usdc, Holders)
         /\ SplitTotal(lot[l].split)
              = lot[l].split.producer + lot[l].split.association + lot[l].split.platform
         /\ usdc'[Core] >= usdc[Core] - SplitTotal(lot[l].split)
<1>. DEFINE split == lot[l].split
            association == order[lot[l].order].association
            afterProducer == Paid(usdc, lot[l].producer, split.producer)
            afterAssociation == Paid(afterProducer, association, split.association)
<1>0. split \in SplitType
  BY DEF TypeOK, LotType
<1>1. /\ split.producer \in Nat /\ split.association \in Nat /\ split.platform \in Nat
      /\ usdc \in [Holders -> Nat]
  BY CoreAssumption DEF TypeOK, LotType, SplitType
<1>2. lot[l].producer \in Holders /\ lot[l].producer # Core
  BY HoldersFinite, CoreAssumption DEF LotInv, AcceptedTerms
<1>3. association \in Holders
  BY DEF TypeOK, LotType, OrderType, Origins, OrderOrigin, Addresses, Holders
<1>4. split.platform # 0 => platformTreasury \in Holders
  BY DEF TypeOK, LotInv, AcceptedTerms, TreasuryReady, Addresses, Holders
<1>5. /\ usdc[Core] >= split.producer
      /\ afterProducer[Core] >= split.association
      /\ afterAssociation[Core] >= split.platform
      /\ usdc' = Paid(afterAssociation, platformTreasury, split.platform)
  BY DEF CanPaySplit, AfterProducer, AfterAssociation
<1>. HIDE DEF split, association
<1>6. /\ afterProducer \in [Holders -> Nat]
      /\ Total(afterProducer, Holders) = Total(usdc, Holders)
      /\ afterProducer[Core] = usdc[Core] - split.producer
  BY <1>1, <1>2, <1>5, PaidEffect
<1>. HIDE DEF afterProducer
<1>7. /\ afterAssociation \in [Holders -> Nat]
      /\ Total(afterAssociation, Holders) = Total(afterProducer, Holders)
      /\ afterAssociation[Core] >= afterProducer[Core] - split.association
      /\ afterAssociation[Core] <= afterProducer[Core]
  BY <1>1, <1>3, <1>5, <1>6, PaidEffect
<1>. HIDE DEF afterAssociation
<1>8. /\ usdc' \in [Holders -> Nat]
      /\ Total(usdc', Holders) = Total(afterAssociation, Holders)
      /\ usdc'[Core] >= afterAssociation[Core] - split.platform
  BY <1>1, <1>4, <1>5, <1>7, PaidEffect
<1>9. /\ usdc[Core] \in Nat /\ afterProducer[Core] \in Nat
      /\ afterAssociation[Core] \in Nat /\ usdc'[Core] \in Nat
  BY <1>1, <1>6, <1>7, <1>8, HoldersFinite
<1>10. split.producer + split.association + split.platform <= 2 * usdc[Core]
  BY <1>1, <1>5, <1>6, <1>7, <1>9
<1>11. split.producer + split.association + split.platform < UintMod
  BY <1>1, <1>9, <1>10, CoreWithinSupply, CoreAssumption
<1>12. SplitTotal(split) = split.producer + split.association + split.platform
  BY <1>0, <1>11, SplitTotalPlain
<1>13. usdc'[Core] >= usdc[Core] - SplitTotal(split)
  BY <1>1, <1>6, <1>7, <1>8, <1>9, <1>12
<1>. QED  BY <1>6, <1>7, <1>8, <1>12, <1>13 DEF split

\* A lot that was accepted belongs to an order that exists.
LEMMA AcceptedOrderExists ==
  ASSUME Origins, NEW l \in Lots, lot[l].status # "ABSENT"
  PROVE  order[lot[l].order].status \notin {"ABSENT", "DRAFT", "FUNDED"}
BY DEF Origins, LotOrigin

LEMMA SettleLotRemaining ==
  ASSUME TypeOK, NEW sender \in Accounts, NEW l \in Lots, SettleLot(sender, l)
  PROVE  /\ order'[lot[l].order].remaining
               = order[lot[l].order].remaining - SplitTotal(lot[l].split)
         /\ order'[lot[l].order].status
               = IF order'[lot[l].order].remaining = 0
                 THEN "COMPLETED" ELSE "PARTIALLY_SETTLED"
         /\ \A p \in Orders \ {lot[l].order} : order'[p] = order[p]
BY DEF SettleLot, CanSettle, SettledOrder, TypeOK, LotType, OrderType

LEMMA SettleLotMoney ==
  ASSUME TypeOK, TypeOK', LotInv, Origins, MoneyInv, NEW sender \in Accounts,
         NEW l \in Lots, SettleLot(sender, l)
  PROVE  MoneyInv'
<1>a. PICK o \in Orders : o = lot[l].order
  BY DEF TypeOK, LotType
<1>1. /\ Total(usdc', Holders) = Total(usdc, Holders)
      /\ usdc'[Core] >= usdc[Core] - SplitTotal(lot[l].split)
  BY PaySplitMoney, AcceptedOrderExists DEF SettleLot, CanSettle
<1>2. /\ order'[o].remaining = order[o].remaining - SplitTotal(lot[l].split)
      /\ \A p \in Orders \ {o} : order'[p].remaining = order[p].remaining
  BY <1>a, SettleLotRemaining
<1>3. SplitTotal(lot[l].split) \in Nat
  BY SplitTotalType DEF TypeOK, LotType
<1>4. /\ order[o].remaining \in Nat /\ usdc[Core] \in Nat /\ usdc'[Core] \in Nat
  BY HoldersFinite DEF TypeOK, OrderType
<1>5. usdc'[Core] - usdc[Core] >= order'[o].remaining - order[o].remaining
  BY <1>1, <1>2, <1>3, <1>4
<1>. QED  BY <1>1, <1>2, <1>5, MoneyStep

-----------------------------------------------------------------------------
(* Every call *)

\* A call on a lot other than its settlement moves no money.
LEMMA LotCallMoney ==
  ASSUME TypeOK, TypeOK', LotInv, Origins, MoneyInv, LotCall
  PROVE  MoneyInv'
<1>. SUFFICES ASSUME NEW sender \in Accounts, NEW l \in Lots,
       \/ \E v \in Versions, weight \in Weights :
            SubmitInspectionReference(sender, l, v, weight)
       \/ \E v \in Versions, result \in AuditResult :
            SubmitAuditAttestation(sender, l, v, result)
       \/ RequestReweighing(sender, l)
       \/ \E v \in Versions, split \in Splits : AcceptSettlement(sender, l, v, split)
       \/ SettleLot(sender, l)
              PROVE  MoneyInv'
  BY DEF LotCall
<1>1. usdc[Core] \in Nat
  BY HoldersFinite DEF TypeOK
<1>2. CASE \E v \in Versions, weight \in Weights :
             SubmitInspectionReference(sender, l, v, weight)
  BY <1>2, MoneyUntouched DEF SubmitInspectionReference
<1>3. ASSUME NEW v \in Versions, NEW result \in AuditResult,
             SubmitAuditAttestation(sender, l, v, result)
      PROVE  MoneyInv'
  <2>1. \A o \in Orders : order'[o].remaining = order[o].remaining
    <3>1. CASE result \in AcceptableResult
      <4>1. order' = [order EXCEPT ![lot[l].order] =
              [order[lot[l].order] EXCEPT
                 !.reserved = order[lot[l].order].reserved + inspections[l][v]]]
        BY <1>3, <3>1 DEF SubmitAuditAttestation, ReserveWeight
      <4>2. lot[l].order \in Orders /\ order[lot[l].order] \in OrderType
        BY DEF TypeOK, LotType
      <4>. QED  BY <4>1, <4>2 DEF TypeOK, OrderType
    <3>2. CASE result \notin AcceptableResult
      BY <1>3, <3>2 DEF SubmitAuditAttestation
    <3>. QED  BY <3>1, <3>2
  <2>2. usdc' = usdc
    BY <1>3 DEF SubmitAuditAttestation
  <2>. QED  BY <1>1, <2>1, <2>2, MoneyKept
<1>4. ASSUME RequestReweighing(sender, l)
      PROVE  MoneyInv'
  <2>1. \A o \in Orders : order'[o].remaining = order[o].remaining
    BY <1>4 DEF RequestReweighing, ReleasedWeight, TypeOK, LotType, OrderType
  <2>2. usdc' = usdc
    BY <1>4 DEF RequestReweighing
  <2>. QED  BY <1>1, <2>1, <2>2, MoneyKept
<1>5. CASE \E v \in Versions, split \in Splits : AcceptSettlement(sender, l, v, split)
  BY <1>5, MoneyUntouched DEF AcceptSettlement
<1>6. CASE SettleLot(sender, l)
  BY <1>6, SettleLotMoney
<1>. QED  BY <1>2, <1>3, <1>4, <1>5, <1>6

LEMMA OrderCallMoney ==
  ASSUME TypeOK, TypeOK', Origins, MoneyInv, OrderCall
  PROVE  MoneyInv'
<1>. SUFFICES ASSUME NEW sender \in Accounts, NEW o \in Orders,
                     \/ \E association \in Associations, target \in Targets :
                          CreateOrder(sender, o, association, target)
                     \/ \E amount \in Amounts, ref \in PaymentRefs :
                          \/ FundOrder(sender, o, amount, ref)
                          \/ BuyerFundOrder(sender, o, amount, ref)
                     \/ \E l \in Lots, producer \in Producers :
                          RegisterLot(sender, o, l, producer)
                     \/ WithdrawRemainder(sender, o)
              PROVE  MoneyInv'
  BY DEF OrderCall
<1>1. usdc[Core] \in Nat
  BY HoldersFinite DEF TypeOK
<1>2. ASSUME NEW association \in Associations, NEW target \in Targets,
             CreateOrder(sender, o, association, target)
      PROVE  MoneyInv'
  <2>1. order[o] = EmptyOrder
    BY <1>2 DEF CreateOrder, Origins, OrderOrigin
  <2>2. \A p \in Orders : order'[p].remaining = order[p].remaining
    BY <1>2, <2>1 DEF CreateOrder, EmptyOrder, TypeOK
  <2>3. usdc' = usdc
    BY <1>2 DEF CreateOrder
  <2>. QED  BY <1>1, <2>2, <2>3, MoneyKept
<1>3. CASE \E amount \in Amounts, ref \in PaymentRefs :
             FundOrder(sender, o, amount, ref) \/ BuyerFundOrder(sender, o, amount, ref)
  <2>1. PICK amount \in Amounts, ref \in PaymentRefs :
          ApplyFundOrder(sender, o, amount, ref)
    BY <1>3 DEF FundOrder, BuyerFundOrder
  <2>. QED  BY <2>1, ApplyFundOrderMoney
<1>4. CASE \E l \in Lots, producer \in Producers :
             RegisterLot(sender, o, l, producer)
  BY <1>4, MoneyUntouched DEF RegisterLot
<1>5. CASE WithdrawRemainder(sender, o)
  BY <1>5, WithdrawMoney
<1>. QED  BY <1>2, <1>3, <1>4, <1>5

\* A holder's own transfer never takes from the contract.
LEMMA TokenCallMoney ==
  ASSUME TypeOK, TypeOK', MoneyInv, TokenCall
  PROVE  MoneyInv'
<1>1. PICK sender \in Accounts, to \in Holders, amount \in TransferAmounts :
        TransferUsdc(sender, to, amount)
  BY DEF TokenCall
<1>2. /\ amount \in Nat /\ sender \in Holders /\ sender # Core
      /\ usdc[sender] >= amount /\ usdc' = Moved(usdc, sender, to, amount)
  BY <1>1, HoldersFinite, CoreAssumption DEF TransferUsdc
<1>3. Total(usdc', Holders) = Total(usdc, Holders)
  BY <1>2, MovedTotal DEF TypeOK
<1>4. usdc'[Core] >= usdc[Core]
  BY <1>2, HoldersFinite DEF Moved, TypeOK
<1>. QED  BY <1>1, <1>3, <1>4, MoneyKept DEF TransferUsdc

LEMMA NextMoney ==
  TypeOK /\ TypeOK' /\ LotInv /\ Origins /\ MoneyInv /\ [Next]_vars => MoneyInv'
<1>. SUFFICES ASSUME TypeOK, TypeOK', LotInv, Origins, MoneyInv, [Next]_vars
              PROVE  MoneyInv'
  OBVIOUS
<1>2. CASE UNCHANGED <<order, usdc>>
  BY <1>2, MoneyUntouched
<1>3. CASE AdminCall
  BY <1>2, <1>3
  DEF AdminCall, GrantRole, RevokeRole, RenounceRole, SetPlatformTreasury
<1>4. CASE OrderCall
  BY <1>4, OrderCallMoney
<1>5. CASE LotCall
  BY <1>5, LotCallMoney
<1>6. CASE TokenCall
  BY <1>6, TokenCallMoney
<1>7. CASE UNCHANGED vars
  BY <1>2, <1>7 DEF vars
<1>. QED  BY <1>3, <1>4, <1>5, <1>6, <1>7 DEF Next

LEMMA InitMoney == Init => MoneyInv
<1>. SUFFICES ASSUME Init PROVE MoneyInv
  OBVIOUS
<1>1. \A o \in Orders : Remaining[o] = 0
  BY DEF Init, EmptyOrder, Remaining
<1>2. Total(Remaining, Orders) = 0
  BY <1>1, TotalZero
<1>3. usdc[Core] = 0 /\ usdc = InitialUsdc
  BY CoreAssumption DEF Init
<1>. QED  BY <1>2, <1>3, SolventRemaining DEF MoneyInv, SupplyConserved

\* The layers that the money rests on.
LEMMA MoneyInvariant == Spec => [](TypeOK /\ LotInv /\ Origins /\ MoneyInv)
<1>1. Init => TypeOK /\ LotInv /\ Origins /\ MoneyInv
  BY InitType, InitLots, InitOrigins, InitMoney
<1>2. TypeOK /\ LotInv /\ Origins /\ MoneyInv /\ [Next]_vars
        => (TypeOK /\ LotInv /\ Origins /\ MoneyInv)'
  BY NextType, NextLots, NextOrigins, NextMoney
<1>. QED  BY <1>1, <1>2, PTL DEF Spec

\* The contract always holds at least what it owes to all its orders together,
\* though a settlement's total is computed modulo 2^256.
THEOREM SolventCorrect == Spec => []Solvent
<1>1. MoneyInv => Solvent
  BY DEF MoneyInv
<1>. QED  BY <1>1, MoneyInvariant, PTL

\* An accepted platform share always has an address to go to.
THEOREM AcceptedShareHasTreasuryCorrect == Spec => []AcceptedShareHasTreasury
<1>1. LotInv => AcceptedShareHasTreasury
  BY DEF LotInv, AcceptedTerms, AcceptedShareHasTreasury, TreasuryReady
<1>. QED  BY <1>1, MoneyInvariant, PTL

=============================================================================
