---------------------------- MODULE AlpactoCore ----------------------------
(***************************************************************************)
(* The Stylus contract AlpactoCore: orders that hold a buyer's USDC, lots  *)
(* of fibre registered against an order, versioned inspections, audit      *)
(* attestations, the producer's acceptance of a settlement, the payout and *)
(* the buyer's withdrawal of what is left.                                 *)
(*                                                                         *)
(* A transaction is atomic, so each external call is one action; a call    *)
(* that reverts changes nothing and is an action that is not enabled.  The *)
(* parameters of an action are the sender and the arguments of the call.   *)
(***************************************************************************)
EXTENDS Totals

CONSTANTS
  Orders,           \* order identifiers callers use
  Lots,             \* lot identifiers callers use
  Accounts,         \* addresses that can send a transaction
  Admin,            \* the account the constructor makes DEFAULT_ADMIN
  Core,             \* the contract's own address, which can hold USDC
  ZeroAddress,      \* address(0): an unset address
  DeploymentGrants, \* <<role, account>> pairs the deployment scripts grant
  Grantable,        \* <<role, account>> pairs an admin may grant later on
  DeploymentTreasury, \* the treasury the deployment scripts set, if any
  Treasuries,       \* addresses an admin may pass to set_platform_treasury
  Associations,     \* addresses a buyer may name as the order's association
  Producers,        \* addresses a lot may be registered for
  InitialUsdc,      \* the USDC each address holds at deployment
  TransferAmounts,  \* amounts the token's holders move among themselves
  PaymentRefs,      \* payment reference hashes
  Amounts,          \* funding amounts
  Targets,          \* targets an order may ask for, in grams
  Weights,          \* inspected weights, in grams
  Splits,           \* settlement splits a producer may accept
  MaxVersion,       \* bound on the inspections of a lot
  UintMod           \* the modulus of U256 arithmetic (2^256 in the contract)

Addresses == Accounts \cup {Core, ZeroAddress}
Holders   == Accounts \cup {Core}
Versions  == 1 .. MaxVersion

Roles == {"DEFAULT_ADMIN_ROLE", "PLATFORM_ADMIN_ROLE", "ASSOCIATION_ROLE",
          "BUYER_ROLE", "INSPECTOR_ROLE", "AUDITOR_AGENT_ROLE"}

\* Identifiers are finite sets, there is an order to speak of, and numbers are naturals.  A split component is
\* below the modulus because it is a U256.  Twice the token's supply is below
\* the modulus: USDC's supply is far below 2^255.
ASSUME CoreAssumption ==
  /\ IsFiniteSet(Orders) /\ IsFiniteSet(Lots) /\ Orders # {}
  /\ Admin \in Accounts
  /\ Core \notin Accounts /\ ZeroAddress \notin Accounts /\ Core # ZeroAddress
  /\ DeploymentGrants \subseteq Roles \X Accounts
  /\ Grantable \subseteq Roles \X Accounts
  /\ DeploymentTreasury \in Addresses
  /\ Treasuries \cup Associations \cup Producers \subseteq Addresses
  /\ InitialUsdc \in [Holders -> Nat]
  /\ InitialUsdc[Core] = 0
  /\ Amounts \cup TransferAmounts \subseteq Nat
  /\ Targets \cup Weights \subseteq Nat
  /\ MaxVersion \in Nat \ {0}
  /\ UintMod \in Nat \ {0}
  /\ Splits \subseteq [producer    : 0 .. UintMod - 1,
                       association : 0 .. UintMod - 1,
                       platform    : 0 .. UintMod - 1]

ASSUME SupplyAssumption ==
  IsFiniteSet(Accounts) /\ 2 * Total(InitialUsdc, Holders) < UintMod

VARIABLES
  order,            \* the orders mapping
  lot,              \* the lots mapping
  inspections,      \* inspections[l][v]: grams, 0 where none exists
  attestations,     \* attestations[l][v]: result, "NONE" where none exists
  usedPaymentRefs,  \* payment references already applied
  roles,            \* the <<role, account>> pairs of AccessControl
  platformTreasury, \* the address that receives the platform's share
  usdc              \* the token's balances

vars == <<order, lot, inspections, attestations, usedPaymentRefs, roles,
          platformTreasury, usdc>>

\* "ABSENT" stands for exists = false.
OrderStatus == {"ABSENT", "DRAFT", "FUNDED", "ACCEPTING_LOTS",
                "PARTIALLY_SETTLED", "COMPLETED", "CANCELLED"}

LotStatus == {"ABSENT", "REGISTERED", "INSPECTION_SUBMITTED", "AUDITING",
              "READY_FOR_REVIEW", "REVIEW_REQUIRED", "REWEIGHING_REQUESTED",
              "PRODUCER_ACCEPTED", "SETTLED", "CANCELLED"}

AuditResult == {"PASS", "WARNING", "REVIEW_REQUIRED", "UNREADABLE"}

NoSplit == [producer |-> 0, association |-> 0, platform |-> 0]

\* The zeroed storage of an order that does not exist.
EmptyOrder ==
  [status |-> "ABSENT", buyer |-> ZeroAddress, association |-> ZeroAddress,
   funded |-> 0, remaining |-> 0, target |-> 0, reserved |-> 0, fulfilled |-> 0]

\* The zeroed storage of a lot; its order is meaningless until it is registered.
EmptyLot ==
  [status |-> "ABSENT", order |-> CHOOSE o \in Orders : TRUE,
   producer |-> ZeroAddress, version |-> 0, acceptedVersion |-> 0,
   split |-> NoSplit, reserved |-> 0]

Init ==
  /\ order = [o \in Orders |-> EmptyOrder]
  /\ lot = [l \in Lots |-> EmptyLot]
  /\ inspections = [l \in Lots |-> [v \in Versions |-> 0]]
  /\ attestations = [l \in Lots |-> [v \in Versions |-> "NONE"]]
  /\ usedPaymentRefs = {}
  /\ roles = {<<"DEFAULT_ADMIN_ROLE", Admin>>} \cup DeploymentGrants
  /\ platformTreasury = DeploymentTreasury
  /\ usdc = InitialUsdc

-----------------------------------------------------------------------------
(* Access control and the treasury address *)

HasRole(role, account) == <<role, account>> \in roles

\* Every role is administered by DEFAULT_ADMIN_ROLE: get_role_admin is never
\* changed from its default.
GrantRole(sender, role, account) ==
  /\ HasRole("DEFAULT_ADMIN_ROLE", sender)
  /\ roles' = roles \cup {<<role, account>>}
  /\ UNCHANGED <<order, lot, inspections, attestations, usedPaymentRefs,
                 platformTreasury, usdc>>

RevokeRole(sender, role, account) ==
  /\ HasRole("DEFAULT_ADMIN_ROLE", sender)
  /\ roles' = roles \ {<<role, account>>}
  /\ UNCHANGED <<order, lot, inspections, attestations, usedPaymentRefs,
                 platformTreasury, usdc>>

RenounceRole(sender, role) ==
  /\ roles' = roles \ {<<role, sender>>}
  /\ UNCHANGED <<order, lot, inspections, attestations, usedPaymentRefs,
                 platformTreasury, usdc>>

\* Mutant: the treasury can be unset.
SetOrUnsetTreasury(sender, treasury) ==
  /\ HasRole("DEFAULT_ADMIN_ROLE", sender)
  /\ platformTreasury' = treasury
  /\ UNCHANGED <<order, lot, inspections, attestations, usedPaymentRefs,
                 roles, usdc>>

SetPlatformTreasury(sender, treasury) ==
  /\ HasRole("DEFAULT_ADMIN_ROLE", sender)
  /\ treasury # ZeroAddress
  /\ platformTreasury' = treasury
  /\ UNCHANGED <<order, lot, inspections, attestations, usedPaymentRefs,
                 roles, usdc>>

-----------------------------------------------------------------------------
(* The token: what the contract's transferFrom and transfer calls do *)

Moved(balances, from, to, amount) ==
  LET debited == [balances EXCEPT ![from] = @ - amount]
  IN  [debited EXCEPT ![to] = @ + amount]

\* Mutant: accounting only, as with a zero token address in the unit tests.
PullUsdcSkipped(from, amount) ==
  /\ usdc[from] >= amount
  /\ usdc' = usdc

\* The deposit.  The depositor has approved the amount: without an allowance
\* the call reverts, like any other call that is not enabled.
PullUsdc(from, amount) ==
  /\ usdc[from] >= amount
  /\ usdc' = Moved(usdc, from, Core, amount)

\* One payout; the contract skips a zero amount.
Paid(balances, to, amount) ==
  IF amount = 0 THEN balances ELSE Moved(balances, Core, to, amount)

\* Any holder may move its own tokens, to the contract as well.
TransferUsdc(sender, to, amount) ==
  /\ usdc[sender] >= amount
  /\ usdc' = Moved(usdc, sender, to, amount)
  /\ UNCHANGED <<order, lot, inspections, attestations, usedPaymentRefs, roles,
                 platformTreasury>>

-----------------------------------------------------------------------------
(* Orders *)

\* The budget must be positive and is stored but never read again: left out.
CreateOrder(sender, o, association, target) ==
  /\ HasRole("BUYER_ROLE", sender)
  /\ association # ZeroAddress
  /\ target # 0
  /\ order[o].status = "ABSENT"
  /\ order' = [order EXCEPT ![o] =
       [EmptyOrder EXCEPT !.status = "DRAFT", !.buyer = sender,
                          !.association = association, !.target = target]]
  /\ UNCHANGED <<lot, inspections, attestations, usedPaymentRefs, roles,
                 platformTreasury, usdc>>

\* Mutant: an order that has paid a lot can be topped up.
FundableAfterPayout == {"DRAFT", "FUNDED", "ACCEPTING_LOTS", "PARTIALLY_SETTLED"}

FundableStatus == {"DRAFT", "FUNDED", "ACCEPTING_LOTS"}

ApplyFundOrder(sender, o, amount, ref) ==
  /\ amount # 0
  /\ ref \notin usedPaymentRefs
  /\ order[o].status \in FundableStatus
  /\ PullUsdc(sender, amount)
  /\ usedPaymentRefs' = usedPaymentRefs \cup {ref}
  /\ order' = [order EXCEPT ![o] =
       [@ EXCEPT !.funded = order[o].funded + amount,
                 !.remaining = order[o].remaining + amount,
                 !.status = "ACCEPTING_LOTS"]]
  /\ UNCHANGED <<lot, inspections, attestations, roles, platformTreasury>>

\* The platform's legacy deposit path.
FundOrder(sender, o, amount, ref) ==
  /\ HasRole("PLATFORM_ADMIN_ROLE", sender)
  /\ ApplyFundOrder(sender, o, amount, ref)

BuyerFundOrder(sender, o, amount, ref) ==
  /\ HasRole("BUYER_ROLE", sender)
  /\ sender = order[o].buyer
  /\ ApplyFundOrder(sender, o, amount, ref)

OpenStatus == {"ACCEPTING_LOTS", "PARTIALLY_SETTLED"}

\* Mutant: settled grams no longer count against the target.
UsedWeightReservedOnly(o) == order[o].reserved

UsedWeight(o) == order[o].reserved + order[o].fulfilled

\* What a withdrawal asks of the order besides a positive remainder.
TargetMet(o) == order[o].reserved = 0 /\ order[o].fulfilled >= order[o].target

CanWithdraw(sender, o) ==
  /\ order[o].status \in OpenStatus
  /\ sender = order[o].buyer
  /\ TargetMet(o)
  /\ order[o].remaining # 0
  /\ usdc[Core] >= order[o].remaining

WithdrawRemainder(sender, o) ==
  /\ CanWithdraw(sender, o)
  /\ order' = [order EXCEPT ![o] = [@ EXCEPT !.remaining = 0,
                                             !.status = "COMPLETED"]]
  /\ usdc' = Paid(usdc, sender, order[o].remaining)
  /\ UNCHANGED <<lot, inspections, attestations, usedPaymentRefs, roles,
                 platformTreasury>>

-----------------------------------------------------------------------------
(* Lots, inspections and attestations *)

RegisterLot(sender, o, l, producer) ==
  /\ HasRole("ASSOCIATION_ROLE", sender) \/ HasRole("INSPECTOR_ROLE", sender)
  /\ producer # ZeroAddress
  /\ order[o].status \in OpenStatus
  /\ UsedWeight(o) < order[o].target
  /\ lot[l].status = "ABSENT"
  /\ lot' = [lot EXCEPT ![l] = [EmptyLot EXCEPT !.status = "REGISTERED",
                                  !.order = o, !.producer = producer]]
  /\ UNCHANGED <<order, inspections, attestations, usedPaymentRefs, roles,
                 platformTreasury, usdc>>

\* Mutant: a lot under review may be inspected again without a reweighing.
InspectableWhenReady ==
  {"REGISTERED", "REWEIGHING_REQUESTED", "REVIEW_REQUIRED", "READY_FOR_REVIEW"}

InspectableStatus == {"REGISTERED", "REWEIGHING_REQUESTED", "REVIEW_REQUIRED"}

SubmitInspectionReference(sender, l, v, weight) ==
  /\ HasRole("INSPECTOR_ROLE", sender)
  /\ weight # 0
  /\ lot[l].status \in InspectableStatus
  /\ v = lot[l].version + 1
  /\ inspections[l][v] = 0
  /\ inspections' = [inspections EXCEPT ![l][v] = weight]
  /\ lot' = [lot EXCEPT ![l] = [@ EXCEPT !.version = v, !.status = "AUDITING"]]
  /\ UNCHANGED <<order, attestations, usedPaymentRefs, roles,
                 platformTreasury, usdc>>

\* Mutant: a result that asks for review is accepted too.
AcceptableWithReview == {"PASS", "WARNING", "REVIEW_REQUIRED"}

AcceptableResult == {"PASS", "WARNING"}

\* The grams a new reservation may take: saturating_sub of the used weight.
AvailableWeight(o) ==
  IF UsedWeight(o) > order[o].target THEN 0 ELSE order[o].target - UsedWeight(o)

\* An acceptable result reserves the inspected weight; without the capacity
\* the whole transaction, attestation included, reverts.
ReserveWeight(l, weight) ==
  /\ weight # 0
  /\ weight <= AvailableWeight(lot[l].order)
  /\ order' = [order EXCEPT ![lot[l].order] =
       [@ EXCEPT !.reserved = order[lot[l].order].reserved + weight]]
  /\ lot' = [lot EXCEPT ![l] = [@ EXCEPT !.reserved = weight,
                                         !.status = "READY_FOR_REVIEW"]]

SubmitAuditAttestation(sender, l, v, result) ==
  /\ HasRole("AUDITOR_AGENT_ROLE", sender)
  /\ lot[l].status = "AUDITING"
  /\ v = lot[l].version
  /\ inspections[l][v] # 0
  /\ attestations[l][v] = "NONE"
  /\ attestations' = [attestations EXCEPT ![l][v] = result]
  /\ \/ /\ result \in AcceptableResult
        /\ ReserveWeight(l, inspections[l][v])
     \/ /\ result \notin AcceptableResult
        /\ lot' = [lot EXCEPT ![l] = [@ EXCEPT !.status = "REVIEW_REQUIRED"]]
        /\ UNCHANGED order
  /\ UNCHANGED <<inspections, usedPaymentRefs, roles, platformTreasury, usdc>>

\* Mutant: the order keeps the weight reserved.
ReleasedOnLotOnly(l) == order

\* Mutant: the inspected weight is released, held or not.
ReleasedInspected(l) ==
  [order EXCEPT ![lot[l].order] =
     [@ EXCEPT !.reserved =
        order[lot[l].order].reserved - inspections[l][lot[l].version]]]

\* The order after a lot gives up the weight it holds.
ReleasedWeight(l) ==
  [order EXCEPT ![lot[l].order] =
     [@ EXCEPT !.reserved = order[lot[l].order].reserved - lot[l].reserved]]

\* Mutant: a producer may change its mind after accepting.
ReviewedOrAccepted == {"READY_FOR_REVIEW", "REVIEW_REQUIRED", "PRODUCER_ACCEPTED"}

ReviewedStatus == {"READY_FOR_REVIEW", "REVIEW_REQUIRED"}

RequestReweighing(sender, l) ==
  /\ lot[l].status \in ReviewedStatus
  /\ sender = lot[l].producer
  /\ lot[l].reserved > 0 => order[lot[l].order].reserved >= lot[l].reserved
  /\ order' = ReleasedWeight(l)
  /\ lot' = [lot EXCEPT ![l] = [@ EXCEPT !.reserved = 0,
                                         !.status = "REWEIGHING_REQUESTED"]]
  /\ UNCHANGED <<inspections, attestations, usedPaymentRefs, roles,
                 platformTreasury, usdc>>

-----------------------------------------------------------------------------
(* Settlement *)

\* U256 addition wraps.
SplitTotal(split) ==
  (split.producer + split.association + split.platform) % UintMod

\* The platform can be paid: it takes no share or has an address.
TreasuryReady(split) == split.platform # 0 => platformTreasury # ZeroAddress

AcceptSettlement(sender, l, v, split) ==
  /\ lot[l].status = "READY_FOR_REVIEW"
  /\ sender = lot[l].producer
  /\ v = lot[l].version
  /\ attestations[l][v] \in AcceptableResult
  /\ SplitTotal(split) # 0
  /\ TreasuryReady(split)
  /\ order[lot[l].order].remaining >= SplitTotal(split)
  /\ lot' = [lot EXCEPT ![l] = [@ EXCEPT !.acceptedVersion = v, !.split = split,
                                         !.status = "PRODUCER_ACCEPTED"]]
  /\ UNCHANGED <<order, inspections, attestations, usedPaymentRefs, roles,
                 platformTreasury, usdc>>

\* Mutant: the platform's share is not taken off what the order still holds.
SettledWithoutPlatform(l) ==
  LET o == lot[l].order
      left == order[o].remaining
                - (lot[l].split.producer + lot[l].split.association)
  IN  [order EXCEPT ![o] =
         [@ EXCEPT !.remaining = left,
                   !.reserved = order[o].reserved - lot[l].reserved,
                   !.fulfilled = order[o].fulfilled + lot[l].reserved,
                   !.status = IF left = 0 THEN "COMPLETED"
                                          ELSE "PARTIALLY_SETTLED"]]

\* Mutant: the order completes when its target is fulfilled.
SettledCompletesOnTarget(l) ==
  LET o == lot[l].order
      delivered == order[o].fulfilled + lot[l].reserved
  IN  [order EXCEPT ![o] =
         [@ EXCEPT !.remaining = order[o].remaining - SplitTotal(lot[l].split),
                   !.reserved = order[o].reserved - lot[l].reserved,
                   !.fulfilled = delivered,
                   !.status = IF delivered = order[o].target
                              THEN "COMPLETED" ELSE "PARTIALLY_SETTLED"]]

\* The order after paying a lot's total and moving its weight to fulfilled.
SettledOrder(l) ==
  LET o == lot[l].order
      left == order[o].remaining - SplitTotal(lot[l].split)
  IN  [order EXCEPT ![o] =
         [@ EXCEPT !.remaining = left,
                   !.reserved = order[o].reserved - lot[l].reserved,
                   !.fulfilled = order[o].fulfilled + lot[l].reserved,
                   !.status = IF left = 0 THEN "COMPLETED"
                                          ELSE "PARTIALLY_SETTLED"]]

\* The balances after the first and the second of a settlement's transfers.
AfterProducer(l) == Paid(usdc, lot[l].producer, lot[l].split.producer)

AfterAssociation(l) ==
  Paid(AfterProducer(l), order[lot[l].order].association, lot[l].split.association)

\* Each transfer finds the money it needs; one that fails reverts everything.
CanPaySplit(l) ==
  /\ usdc[Core] >= lot[l].split.producer
  /\ AfterProducer(l)[Core] >= lot[l].split.association
  /\ AfterAssociation(l)[Core] >= lot[l].split.platform

\* Mutant: only the platform settles.
PlatformSettles(sender, l) == HasRole("PLATFORM_ADMIN_ROLE", sender)

MaySettle(sender, l) ==
  sender = lot[l].producer \/ HasRole("PLATFORM_ADMIN_ROLE", sender)

CanSettle(sender, l) ==
  /\ lot[l].status = "PRODUCER_ACCEPTED"
  /\ MaySettle(sender, l)
  /\ order[lot[l].order].remaining >= SplitTotal(lot[l].split)
  /\ lot[l].reserved # 0
  /\ order[lot[l].order].reserved >= lot[l].reserved
  /\ TreasuryReady(lot[l].split)
  /\ CanPaySplit(l)

SettleLot(sender, l) ==
  /\ CanSettle(sender, l)
  /\ order' = SettledOrder(l)
  /\ lot' = [lot EXCEPT ![l] = [@ EXCEPT !.reserved = 0, !.status = "SETTLED"]]
  /\ usdc' = Paid(AfterAssociation(l), platformTreasury, lot[l].split.platform)
  /\ UNCHANGED <<inspections, attestations, usedPaymentRefs, roles,
                 platformTreasury>>

-----------------------------------------------------------------------------

\* Roles are granted, revoked and renounced among the grantable pairs.
AdminCall ==
  \E sender \in Accounts :
    \/ \E role \in Roles, account \in Accounts :
         /\ <<role, account>> \in Grantable
         /\ \/ GrantRole(sender, role, account)
            \/ RevokeRole(sender, role, account)
    \/ \E role \in Roles :
         <<role, sender>> \in Grantable /\ RenounceRole(sender, role)
    \/ \E treasury \in Treasuries : SetPlatformTreasury(sender, treasury)

OrderCall ==
  \E sender \in Accounts, o \in Orders :
    \/ \E association \in Associations, target \in Targets :
         CreateOrder(sender, o, association, target)
    \/ \E amount \in Amounts, ref \in PaymentRefs :
         \/ FundOrder(sender, o, amount, ref)
         \/ BuyerFundOrder(sender, o, amount, ref)
    \/ \E l \in Lots, producer \in Producers :
         RegisterLot(sender, o, l, producer)
    \/ WithdrawRemainder(sender, o)

LotCall ==
  \E sender \in Accounts, l \in Lots :
    \/ \E v \in Versions, weight \in Weights :
         SubmitInspectionReference(sender, l, v, weight)
    \/ \E v \in Versions, result \in AuditResult :
         SubmitAuditAttestation(sender, l, v, result)
    \/ RequestReweighing(sender, l)
    \/ \E v \in Versions, split \in Splits : AcceptSettlement(sender, l, v, split)
    \/ SettleLot(sender, l)

TokenCall ==
  \E sender \in Accounts, to \in Holders, amount \in TransferAmounts :
    TransferUsdc(sender, to, amount)

Next == AdminCall \/ OrderCall \/ LotCall \/ TokenCall

Spec == Init /\ [][Next]_vars
-----------------------------------------------------------------------------
(* Types *)

SplitType == [producer : 0 .. UintMod - 1, association : 0 .. UintMod - 1,
              platform : 0 .. UintMod - 1]

OrderType ==
  [status : OrderStatus, buyer : Addresses, association : Addresses,
   funded : Nat, remaining : Nat, target : Nat, reserved : Nat, fulfilled : Nat]

LotType ==
  [status : LotStatus, order : Orders, producer : Addresses,
   version : 0 .. MaxVersion, acceptedVersion : 0 .. MaxVersion,
   split : SplitType, reserved : Nat]

\* Amounts and weights never become negative (the contract's unsigned
\* subtractions never underflow), versions stay within the bound.
TypeOK ==
  /\ order \in [Orders -> OrderType]
  /\ lot \in [Lots -> LotType]
  /\ inspections \in [Lots -> [Versions -> Nat]]
  /\ attestations \in [Lots -> [Versions -> AuditResult \cup {"NONE"}]]
  /\ usedPaymentRefs \subseteq PaymentRefs
  /\ roles \subseteq Roles \X Accounts
  /\ platformTreasury \in Addresses
  /\ usdc \in [Holders -> Nat]

-----------------------------------------------------------------------------
(* Weight *)

\* The grams each lot holds, has delivered, and the USDC it was paid, as terms
\* of the account of order o.
HeldFor(o) ==
  [l \in Lots |-> IF lot[l].order = o THEN lot[l].reserved ELSE 0]

DeliveredFor(o) ==
  [l \in Lots |-> IF lot[l].order = o /\ lot[l].status = "SETTLED"
                  THEN inspections[l][lot[l].acceptedVersion] ELSE 0]

PaidFor(o) ==
  [l \in Lots |-> IF lot[l].order = o /\ lot[l].status = "SETTLED"
                  THEN SplitTotal(lot[l].split) ELSE 0]

\* The order's two counters are the sums they stand for: reserved is what its
\* lots hold, fulfilled is the accepted inspection weight of its settled lots.
\* The counters and the per-lot fields are written in separate statements of
\* reserve_weight, release_weight and settle_lot.
WeightAccounting ==
  \A o \in Orders : /\ order[o].reserved = Total(HeldFor(o), Lots)
                     /\ order[o].fulfilled = Total(DeliveredFor(o), Lots)

\* No order reserves and fulfils more than its target, however its lots pass,
\* are reweighed and settle; the u64 additions of both never overflow.
WithinTarget ==
  \A o \in Orders : order[o].reserved + order[o].fulfilled <= order[o].target

\* A lot holds weight exactly while it is ready for review or accepted, and it
\* holds the weight of its current inspection, never of an earlier one.
HoldsCurrentWeight ==
  \A l \in Lots :
    IF lot[l].status \in {"READY_FOR_REVIEW", "PRODUCER_ACCEPTED"}
    THEN /\ lot[l].version # 0
         /\ lot[l].reserved = inspections[l][lot[l].version]
         /\ lot[l].reserved > 0
    ELSE lot[l].reserved = 0

-----------------------------------------------------------------------------
(* Acceptance and money *)

\* What a producer accepted and what was paid is the current inspection, and
\* that inspection was attested PASS or WARNING: no reweighing or new
\* inspection slips between attestation, acceptance and settlement.
AcceptedIsAudited ==
  \A l \in Lots :
    lot[l].status \in {"PRODUCER_ACCEPTED", "SETTLED"} =>
      /\ lot[l].acceptedVersion = lot[l].version
      /\ lot[l].version # 0
      /\ attestations[l][lot[l].version] \in {"PASS", "WARNING"}

\* The contract holds at least what it owes to all orders together, although
\* the total of a split is computed modulo 2^256.
Solvent ==
  usdc[Core] >= Total([o \in Orders |-> order[o].remaining], Orders)

\* Every USDC deposited for an order is still held, was paid for one of its
\* settled lots, or went back to the buyer of a completed order whose target
\* was met.
FundsConserved ==
  \A o \in Orders :
    \/ order[o].funded = order[o].remaining + Total(PaidFor(o), Lots)
    \/ /\ order[o].status = "COMPLETED"
       /\ order[o].remaining = 0
       /\ order[o].fulfilled = order[o].target
       /\ order[o].funded > Total(PaidFor(o), Lots)

\* The rule of withdraw_remainder: once the target is fulfilled, nothing is
\* reserved and USDC is left, the buyer's withdrawal goes through.  Neither the
\* order's status nor the token's balance can stand in the way.
RemainderRecoverable ==
  \A o \in Orders :
    TargetMet(o) /\ order[o].remaining > 0 =>
      order[o].buyer \in Accounts /\ CanWithdraw(order[o].buyer, o)

\* A platform share that was accepted has an address to go to, whatever the
\* admin does to the treasury between acceptance and settlement.
AcceptedShareHasTreasury ==
  \A l \in Lots :
    lot[l].status = "PRODUCER_ACCEPTED" /\ lot[l].split.platform # 0 =>
      platformTreasury # ZeroAddress

\* Only the order's money can stand between a producer and an accepted
\* settlement: whatever roles are revoked and other lots do, if the order still
\* holds the split (a sum that does not wrap) the producer's settle_lot succeeds.
\* The weight guards and the treasury guard of settle_lot never refuse it.
PayableLotSettles ==
  \A l \in Lots :
    LET split == lot[l].split
    IN  /\ lot[l].status = "PRODUCER_ACCEPTED"
        /\ split.producer + split.association + split.platform
             <= order[lot[l].order].remaining
        => lot[l].producer \in Accounts /\ CanSettle(lot[l].producer, l)

\* From acceptance on nothing about the lot changes but its payment, and once
\* paid nothing changes at all; its inspections and attestations stay as they
\* were.  The terms accepted are the terms paid, once.
AcceptedTermsFrozen ==
  [][\A l \in Lots :
       /\ lot[l].status = "PRODUCER_ACCEPTED" =>
            \/ lot'[l] = lot[l]
            \/ lot'[l] = [lot[l] EXCEPT !.status = "SETTLED", !.reserved = 0]
       /\ lot[l].status = "SETTLED" => lot'[l] = lot[l]
       /\ lot[l].status \in {"PRODUCER_ACCEPTED", "SETTLED"} =>
            /\ inspections'[l] = inspections[l]
            /\ attestations'[l] = attestations[l]]_vars

\* What the escrow ledger calls refunded: what left the order and paid no lot.
RefundedFrom(o) ==
  order[o].funded - order[o].remaining - Total(PaidFor(o), Lots)

Ledger ==
  INSTANCE EscrowLedger WITH
    deposited <- [o \in Orders |-> order[o].funded],
    held      <- [o \in Orders |-> order[o].remaining],
    paid      <- [o \in Orders |-> PaidFor(o)],
    refunded  <- [o \in Orders |-> RefundedFrom(o)],
    closed    <- [o \in Orders |-> order[o].status = "COMPLETED"]

\* The contract implements the escrow ledger: every call is a deposit before
\* the first payout, one payment for one lot, a refund of everything left, or
\* leaves all orders' money alone.
ImplementsEscrowLedger == Ledger!Spec
-----------------------------------------------------------------------------
(* What the proofs need beyond the properties above *)

\* An order that was never created holds nothing and has a zero target; a
\* created one has a positive target, a buyer that sent a transaction and an
\* association that can be paid.
OrderOrigin ==
  \A o \in Orders :
    IF order[o].status = "ABSENT" THEN order[o] = EmptyOrder
    ELSE /\ order[o].target > 0
         /\ order[o].buyer \in Accounts
         /\ order[o].association # ZeroAddress

\* Acceptance leaves its mark: the producer sent a transaction, the total is
\* positive, and a platform share has an address to go to.
AcceptedTerms ==
  \A l \in Lots :
    lot[l].status \in {"PRODUCER_ACCEPTED", "SETTLED"} =>
      /\ lot[l].producer \in Accounts
      /\ SplitTotal(lot[l].split) > 0
      /\ TreasuryReady(lot[l].split)

\* An order's status tells what happened to its money: none came in before the
\* first deposit, no lot was paid before the first payout, nothing is left
\* after completion.  No call ever writes the statuses FUNDED and CANCELLED.
StatusOfMoney ==
  \A o \in Orders :
    /\ order[o].status \notin {"FUNDED", "CANCELLED"}
    /\ order[o].status = "DRAFT" => order[o].remaining = 0
    /\ order[o].status \in {"ABSENT", "DRAFT", "FUNDED", "ACCEPTING_LOTS"} =>
         \A l \in Lots : ~(lot[l].order = o /\ lot[l].status = "SETTLED")
    /\ order[o].status \in {"PARTIALLY_SETTLED", "ACCEPTING_LOTS"} =>
         order[o].remaining > 0
    /\ order[o].status = "COMPLETED" => order[o].remaining = 0

\* A lot that exists belongs to an order that exists.
LotOrigin ==
  \A l \in Lots :
    lot[l].status # "ABSENT" =>
      order[lot[l].order].status \notin {"ABSENT", "DRAFT", "FUNDED"}

\* Tokens move but are neither minted nor burnt.
SupplyConserved == Total(usdc, Holders) = Total(InitialUsdc, Holders)
=============================================================================
