---------------------------- MODULE PricingMath ----------------------------
(***************************************************************************)
(* The integer arithmetic of @alpacto/domain: prices in centavos per kilo, *)
(* weights in grams, fees in basis points, a rate in micro-soles per USDC. *)
(* The scales are constants, so that small ones can be model-checked; the  *)
(* code's are given beside each.                                           *)
(***************************************************************************)
EXTENDS Naturals

CONSTANTS
  GramsPerKg,      \* 1000
  BpsDenom,        \* 10_000
  UsdcScale,       \* 1_000_000 units per USDC
  MicrosScale,     \* 1_000_000 micro-soles per sol
  CentavosPerSol,  \* 100
  UnitsPerUsdCent, \* 10_000
  DefaultRate      \* 3_750_000, used when a policy has no rate

ASSUME ScaleAssumption ==
  /\ {GramsPerKg, BpsDenom, UsdcScale, MicrosScale, CentavosPerSol,
      UnitsPerUsdCent, DefaultRate} \subseteq Nat \ {0}

ApplyBps(amount, bps) == (amount * bps) \div BpsDenom

PenToUsdc(centavos, rate) ==
  (centavos * UsdcScale * MicrosScale) \div (rate * CentavosPerSol)

UsdcToPen(units, rate) ==
  (units * rate * CentavosPerSol) \div (UsdcScale * MicrosScale)

UsdCentsToUnits(cents) == cents * UnitsPerUsdCent

\* A rate that was rounded down to nothing is replaced by the default.
Rate(policy) == IF policy.rate > 0 THEN policy.rate ELSE DefaultRate

\* What a weight of a category is worth, in centavos, before fees.
Subtotal(policy, category, grams) ==
  (grams * policy.price[category]) \div GramsPerKg
    + (grams * policy.bonus[category]) \div GramsPerKg

\* The same in USDC: what leaves the escrow for it.
SplitTotal(policy, category, grams) ==
  PenToUsdc(Subtotal(policy, category, grams), Rate(policy))

FeesValid(policy) == policy.associationBps + policy.platformBps < BpsDenom

\* Mutant: the platform's share does not come out of the producer's.
PreviewPlatformOnTop(policy, category, grams) ==
  LET subtotal == Subtotal(policy, category, grams)
      total    == SplitTotal(policy, category, grams)
      toAssociation == ApplyBps(total, policy.associationBps)
  IN  [net |-> subtotal - ApplyBps(subtotal, policy.associationBps)
                        - ApplyBps(subtotal, policy.platformBps),
       producer    |-> total - toAssociation,
       association |-> toAssociation,
       platform    |-> ApplyBps(total, policy.platformBps)]

\* calculateSettlementPreview: the quote in soles and the three USDC shares.
Preview(policy, category, grams) ==
  LET subtotal == Subtotal(policy, category, grams)
      total    == SplitTotal(policy, category, grams)
      toAssociation == ApplyBps(total, policy.associationBps)
      toPlatform    == ApplyBps(total, policy.platformBps)
  IN  [net |-> subtotal - ApplyBps(subtotal, policy.associationBps)
                        - ApplyBps(subtotal, policy.platformBps),
       producer    |-> total - toAssociation - toPlatform,
       association |-> toAssociation,
       platform    |-> toPlatform]

Shares(split) == split.producer + split.association + split.platform

\* Mutant: the cents are rounded down.
BudgetCentsRoundedDown(policy, category, grams) ==
  Shares(Preview(policy, category, grams)) \div UnitsPerUsdCent

\* Mutant: the fees are added to a total that contains them.
BudgetCentsFeesOnTop(policy, category, grams) ==
  LET split  == Preview(policy, category, grams)
      escrow == Shares(split) + split.association + split.platform
  IN  (escrow + UnitsPerUsdCent - 1) \div UnitsPerUsdCent + 1

\* estimateOrderFundingFromKg: USD cents, rounded up, at least one.
BudgetCents(policy, category, grams) ==
  LET escrow == Shares(Preview(policy, category, grams))
      cents  == (escrow + UnitsPerUsdCent - 1) \div UnitsPerUsdCent
  IN  IF cents > 0 THEN cents ELSE 1

-----------------------------------------------------------------------------
(* The comparison of a declared with an observed weight *)

WeightDeltaBps(declared, observed) ==
  LET diff == IF observed > declared THEN observed - declared ELSE declared - observed
  IN  (diff * BpsDenom) \div declared

\* A reading and a document are [seen |-> FALSE] where vision found none.
CompareAuditValues(declared, reading, category, document, tolerance) ==
  IF ~reading.seen THEN "unreadable"
  ELSE IF WeightDeltaBps(declared, reading.grams) > tolerance THEN "review_required"
  ELSE IF document.seen /\ document.category # category THEN "warning"
  ELSE "pass"

\* Mutant: only a mismatch blocks the settlement.
AllowedUnlessMismatch(result) == result # "review_required"

IsSettlementAllowed(result) == result \in {"pass", "warning"}
=============================================================================
