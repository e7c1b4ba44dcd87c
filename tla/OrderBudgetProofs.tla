------------------------- MODULE OrderBudgetProofs -------------------------
(***************************************************************************)
(* Proofs about the money of an order, for every set of policies, targets, *)
(* lots and weights and every scale the assumptions allow.                 *)
(*                                                                         *)
(* Each division is replaced by its two bounds, multiplied out, as soon as *)
(* it is met.  The prices of single lots are compared with the price of    *)
(* their weight by adding these bounds up (TotalLinear).  The invariant    *)
(* then only has to say which sum the escrow is.                           *)
(***************************************************************************)
EXTENDS OrderBudget, TotalsProofs

-----------------------------------------------------------------------------
(* Arithmetic *)

\* A division rounds down by less than one.
LEMMA Division ==
  ASSUME NEW a \in Nat, NEW b \in Nat \ {0}
  PROVE  /\ a \div b \in Nat
         /\ b * (a \div b) <= a
         /\ a < b * (a \div b) + b
OBVIOUS

LEMMA Grows ==
  ASSUME NEW k \in Nat, NEW x \in Nat, NEW y \in Nat, x <= y
  PROVE  k * x <= k * y
OBVIOUS

\* What is smaller after a multiplication was smaller before it.
LEMMA Cancels ==
  ASSUME NEW k \in Nat, NEW x \in Nat, NEW y \in Nat, k * x < k * y
  PROVE  x < y
OBVIOUS

LEMMA Distributes ==
  ASSUME NEW k \in Nat, NEW x \in Nat, NEW y \in Nat
  PROVE  k * (x + y) = k * x + k * y
OBVIOUS

LEMMA Reassociates ==
  ASSUME NEW k \in Nat, NEW x \in Nat, NEW y \in Nat
  PROVE  k * (x * y) = (k * x) * y
OBVIOUS

\* The quotient is the largest number that fits.
LEMMA Quotient ==
  ASSUME NEW a \in Nat, NEW b \in Nat \ {0}, NEW q \in Nat, b * q <= a
  PROVE  q <= a \div b
<1>1. b * (a \div b) + b = b * ((a \div b) + 1)
  BY Division
<1>2. b * q < b * ((a \div b) + 1)
  BY <1>1, Division
<1>. QED  BY <1>2, Division, Cancels

-----------------------------------------------------------------------------
(* Prices, fees and quotes *)

\* A price in centavos is divided by what a policy's USDC costs, in the scales.
Scale == UsdcScale * MicrosScale
Cost(p) == Rate(p) * CentavosPerSol

LEMMA CostPositive ==
  ASSUME NEW p \in Policies
  PROVE  /\ Rate(p) \in Nat \ {0}
         /\ Cost(p) \in Nat \ {0}
         /\ Scale \in Nat \ {0}
         /\ 2 * Cost(p) <= Scale
<1>1. /\ CentavosPerSol \in Nat \ {0} /\ UsdcScale \in Nat \ {0}
      /\ MicrosScale \in Nat \ {0} /\ DefaultRate \in Nat \ {0}
  BY ScaleAssumption
<1>2. p.rate \in Nat
  BY BudgetAssumption
<1>3. Rate(p) \in Nat \ {0}
  BY <1>1, <1>2 DEF Rate
<1>4. 2 * Rate(p) * CentavosPerSol <= UsdcScale * MicrosScale
  BY RateAssumption
<1>5. \A m, n \in Nat \ {0} : m * n \in Nat \ {0}
  OBVIOUS
<1>6. 2 * Rate(p) * CentavosPerSol = 2 * (Rate(p) * CentavosPerSol)
  BY <1>1, <1>3
<1>. QED  BY <1>1, <1>3, <1>4, <1>5, <1>6 DEF Cost, Scale

\* Centavos in USDC, rounded down by less than a unit.
LEMMA UsdcBounds ==
  ASSUME NEW p \in Policies, NEW c \in Nat
  PROVE  LET units == PenToUsdc(c, Rate(p))
         IN  /\ units \in Nat
             /\ units = (Scale * c) \div Cost(p)
             /\ Cost(p) * units <= Scale * c
             /\ Scale * c < Cost(p) * units + Cost(p)
<1>1. c * UsdcScale * MicrosScale = Scale * c
  BY ScaleAssumption DEF Scale
<1>2. PenToUsdc(c, Rate(p)) = (Scale * c) \div Cost(p)
  BY <1>1 DEF PenToUsdc, Cost
<1>3. Scale * c \in Nat /\ Cost(p) \in Nat \ {0}
  BY CostPositive
<1>. QED  BY <1>2, <1>3, Division

\* A part of the price of a weight, at so much a kilo.
Part(perKilo, grams) == (grams * perKilo) \div GramsPerKg

LEMMA PartBounds ==
  ASSUME NEW perKilo \in Nat, NEW grams \in Nat
  PROVE  /\ Part(perKilo, grams) \in Nat
         /\ GramsPerKg * Part(perKilo, grams) <= perKilo * grams
         /\ perKilo * grams < GramsPerKg * Part(perKilo, grams) + GramsPerKg
<1>1. GramsPerKg \in Nat \ {0}
  BY ScaleAssumption
<1>2. grams * perKilo = perKilo * grams /\ perKilo * grams \in Nat
  OBVIOUS
<1>. QED  BY <1>1, <1>2, Division DEF Part

LEMMA PolicyFields ==
  ASSUME NEW p \in Policies, NEW c \in Categories
  PROVE  /\ p.price[c] \in Nat /\ p.bonus[c] \in Nat
         /\ p.associationBps \in Nat /\ p.platformBps \in Nat
         /\ p.tolerance \in Nat
BY BudgetAssumption

LEMMA SubtotalParts ==
  ASSUME NEW p \in Policies, NEW c \in Categories, NEW grams \in Nat
  PROVE  /\ Subtotal(p, c, grams) = Part(p.price[c], grams) + Part(p.bonus[c], grams)
         /\ Subtotal(p, c, grams) \in Nat
BY PolicyFields, PartBounds DEF Subtotal, Part

\* A share in basis points, rounded down by less than one.
LEMMA ShareBounds ==
  ASSUME NEW amount \in Nat, NEW bps \in Nat
  PROVE  /\ ApplyBps(amount, bps) \in Nat
         /\ BpsDenom * ApplyBps(amount, bps) <= amount * bps
         /\ amount * bps < BpsDenom * ApplyBps(amount, bps) + BpsDenom
<1>1. BpsDenom \in Nat \ {0} /\ amount * bps \in Nat
  BY ScaleAssumption
<1>. QED  BY <1>1, Division DEF ApplyBps

\* Two fees that are valid together leave something of what they are taken from.
LEMMA FeesFit ==
  ASSUME NEW p \in Policies, FeesValid(p), NEW amount \in Nat
  PROVE  ApplyBps(amount, p.associationBps) + ApplyBps(amount, p.platformBps) <= amount
<1>. DEFINE a == p.associationBps
            b == p.platformBps
            x == ApplyBps(amount, a)
            y == ApplyBps(amount, b)
<1>1. a \in Nat /\ b \in Nat /\ BpsDenom \in Nat /\ a + b < BpsDenom
  BY BudgetAssumption, ScaleAssumption DEF FeesValid
<1>2. /\ x \in Nat /\ y \in Nat
      /\ BpsDenom * x <= amount * a /\ BpsDenom * y <= amount * b
  BY <1>1, ShareBounds
<1>. HIDE DEF a, b, x, y
<1>3. BpsDenom * (x + y) <= amount * (a + b)
  BY <1>1, <1>2, Distributes
<1>4. amount * (a + b) <= BpsDenom * amount
  BY <1>1, Grows
<1>5. BpsDenom * (x + y) <= BpsDenom * amount
  BY <1>1, <1>2, <1>3, <1>4
<1>6. BpsDenom * amount < BpsDenom * (amount + 1)
  BY <1>1, Distributes
<1>7. BpsDenom * (x + y) < BpsDenom * (amount + 1)
  BY <1>1, <1>2, <1>5, <1>6
<1>8. x + y < amount + 1
  BY <1>1, <1>2, <1>7, Cancels
<1>. QED  BY <1>2, <1>8 DEF x, y, a, b

SplitType == [net : Nat, producer : Nat, association : Nat, platform : Nat]

\* A quote's shares are natural numbers and add up to the price in USDC.
LEMMA QuoteShares ==
  ASSUME NEW p \in Policies, FeesValid(p), NEW c \in Categories, NEW grams \in Nat
  PROVE  /\ Preview(p, c, grams) \in SplitType
         /\ SplitTotal(p, c, grams) \in Nat
         /\ Shares(Preview(p, c, grams)) = SplitTotal(p, c, grams)
<1>. DEFINE subtotal == Subtotal(p, c, grams)
            total    == SplitTotal(p, c, grams)
<1>1. subtotal \in Nat /\ total \in Nat
  BY SubtotalParts, UsdcBounds DEF SplitTotal
<1>2. /\ p.associationBps \in Nat /\ p.platformBps \in Nat
  BY PolicyFields
<1>. HIDE DEF subtotal, total
<1>3. /\ ApplyBps(subtotal, p.associationBps) \in Nat
      /\ ApplyBps(subtotal, p.platformBps) \in Nat
      /\ ApplyBps(total, p.associationBps) \in Nat
      /\ ApplyBps(total, p.platformBps) \in Nat
  BY <1>1, <1>2, ShareBounds
<1>4. /\ ApplyBps(subtotal, p.associationBps) + ApplyBps(subtotal, p.platformBps) <= subtotal
      /\ ApplyBps(total, p.associationBps) + ApplyBps(total, p.platformBps) <= total
  BY <1>1, FeesFit
<1>5. Preview(p, c, grams) =
        [net |-> subtotal - ApplyBps(subtotal, p.associationBps)
                          - ApplyBps(subtotal, p.platformBps),
         producer    |-> total - ApplyBps(total, p.associationBps)
                               - ApplyBps(total, p.platformBps),
         association |-> ApplyBps(total, p.associationBps),
         platform    |-> ApplyBps(total, p.platformBps)]
  BY DEF Preview, subtotal, total
<1>. HIDE DEF ApplyBps
<1>6. Preview(p, c, grams) \in SplitType
  BY <1>1, <1>3, <1>4, <1>5 DEF SplitType
<1>7. Shares(Preview(p, c, grams)) = total
  BY <1>1, <1>3, <1>4, <1>5 DEF Shares
<1>. QED  BY <1>1, <1>6, <1>7 DEF total

\* The part of every BpsDenom that two fees leave.
Kept(p) == BpsDenom - p.associationBps - p.platformBps

\* What is left after both fees, against the exact share, in basis points.
LEMMA LeftBounds ==
  ASSUME NEW p \in Policies, FeesValid(p), NEW amount \in Nat
  PROVE  LET left == amount - ApplyBps(amount, p.associationBps)
                            - ApplyBps(amount, p.platformBps)
         IN  /\ left \in Nat /\ Kept(p) \in 1 .. BpsDenom
             /\ Kept(p) * amount <= BpsDenom * left
             /\ BpsDenom * left + 2 <= Kept(p) * amount + 2 * BpsDenom
<1>. DEFINE a == p.associationBps
            b == p.platformBps
            x == ApplyBps(amount, a)
            y == ApplyBps(amount, b)
            D == BpsDenom
<1>1. a \in Nat /\ b \in Nat /\ D \in Nat \ {0} /\ a + b < D
  BY BudgetAssumption, ScaleAssumption DEF FeesValid
<1>2. /\ x \in Nat /\ y \in Nat
      /\ D * x <= amount * a /\ amount * a < D * x + D
      /\ D * y <= amount * b /\ amount * b < D * y + D
  BY <1>1, ShareBounds
<1>3. x + y <= amount
  BY FeesFit
<1>4. Kept(p) = D - a - b /\ Kept(p) \in 1 .. D
  BY <1>1 DEF Kept
<1>. HIDE DEF a, b, x, y, D
<1>5. /\ Kept(p) * amount = D * amount - amount * a - amount * b
      /\ D * (amount - x - y) = D * amount - D * x - D * y
  BY <1>1, <1>2, <1>4
<1>6. /\ D * amount \in Int /\ amount * a \in Int /\ amount * b \in Int
      /\ D * x \in Int /\ D * y \in Int /\ amount - x - y \in Nat
  BY <1>1, <1>2, <1>3
<1>7. /\ Kept(p) * amount <= D * (amount - x - y)
      /\ D * (amount - x - y) + 2 <= Kept(p) * amount + 2 * D
  BY <1>1, <1>2, <1>5, <1>6
<1>. QED  BY <1>4, <1>6, <1>7 DEF a, b, x, y, D

\* USDC units in centavos, rounded down by less than one.
LEMMA PenBounds ==
  ASSUME NEW p \in Policies, NEW units \in Nat
  PROVE  LET pen == UsdcToPen(units, Rate(p))
         IN  /\ pen \in Nat
             /\ Scale * pen <= Cost(p) * units
             /\ Cost(p) * units < Scale * pen + Scale
<1>1. Rate(p) \in Nat /\ CentavosPerSol \in Nat
  BY CostPositive, ScaleAssumption
<1>2. units * Rate(p) * CentavosPerSol = Cost(p) * units
  BY <1>1 DEF Cost
<1>3. UsdcToPen(units, Rate(p)) = (Cost(p) * units) \div Scale
  BY <1>2 DEF UsdcToPen, Scale
<1>4. Cost(p) * units \in Nat /\ Scale \in Nat \ {0}
  BY CostPositive
<1>. QED  BY <1>3, <1>4, Division

\* What the producer's USDC are worth is never more than the quote's soles, and
\* at most three centavos less: two fees and two conversions round down, and a
\* unit is worth at most half a centavo.
LEMMA QuoteWorth ==
  ASSUME NEW p \in Policies, FeesValid(p), NEW c \in Categories, NEW grams \in Nat
  PROVE  LET split == Preview(p, c, grams)
             worth == UsdcToPen(split.producer, Rate(p))
         IN  worth <= split.net /\ split.net <= worth + 3
<1>. DEFINE S == Subtotal(p, c, grams)
            T == SplitTotal(p, c, grams)
            K == Scale
            R == Cost(p)
            D == BpsDenom
            e == Kept(p)
            net  == S - ApplyBps(S, p.associationBps) - ApplyBps(S, p.platformBps)
            prod == T - ApplyBps(T, p.associationBps) - ApplyBps(T, p.platformBps)
            w == UsdcToPen(prod, Rate(p))
<1>1. /\ Preview(p, c, grams).net = net
      /\ Preview(p, c, grams).producer = prod
  BY DEF Preview
<1>2. S \in Nat /\ T \in Nat /\ R * T <= K * S /\ K * S < R * T + R
  BY SubtotalParts, UsdcBounds DEF SplitTotal
<1>3. R \in Nat \ {0} /\ K \in Nat \ {0} /\ 2 * R <= K
  BY CostPositive
<1>4. D \in Nat \ {0}
  BY ScaleAssumption
<1>. HIDE DEF S, T, K, R, D
<1>5. /\ net \in Nat /\ e \in 1 .. D
      /\ e * S <= D * net /\ D * net + 2 <= e * S + 2 * D
  BY <1>2, LeftBounds DEF D
<1>6. /\ prod \in Nat
      /\ e * T <= D * prod /\ D * prod + 2 <= e * T + 2 * D
  BY <1>2, LeftBounds DEF D
<1>. HIDE DEF net, prod, e
<1>7. w \in Nat /\ K * w <= R * prod /\ R * prod < K * w + K
  BY <1>6, PenBounds DEF K, R
<1>. HIDE DEF w
<1>8. w <= net
  <2>1. R * (D * prod + 2) <= R * (e * T + 2 * D)
    BY <1>2, <1>3, <1>4, <1>5, <1>6, Grows
  <2>2. R * (D * prod) + 2 * R <= e * (R * T) + (2 * R) * D
    <3>1. R * (D * prod + 2) = R * (D * prod) + 2 * R
      BY <1>3, <1>4, <1>6
    <3>2. R * (e * T + 2 * D) = e * (R * T) + (2 * R) * D
      BY <1>2, <1>3, <1>4, <1>5
    <3>. QED  BY <2>1, <3>1, <3>2
  <2>3. e * (R * T) <= e * (K * S)
    BY <1>2, <1>3, <1>5, Grows
  <2>4. e * (K * S) = K * (e * S)
    BY <1>2, <1>3, <1>5
  <2>5. K * (e * S) <= K * (D * net)
    BY <1>2, <1>3, <1>4, <1>5, Grows
  <2>6. (2 * R) * D <= K * D
    BY <1>3, <1>4
  <2>7. /\ R * (D * prod) \in Nat /\ e * (R * T) \in Nat /\ K * (D * net) \in Nat
        /\ (2 * R) * D \in Nat /\ K * D \in Nat /\ 2 * R > 0 /\ K * (e * S) \in Nat
    BY <1>2, <1>3, <1>4, <1>5, <1>6
  <2>8. R * (D * prod) < K * (D * net) + K * D
    BY <1>3, <2>2, <2>3, <2>4, <2>5, <2>6, <2>7
  <2>9. /\ R * (D * prod) = D * (R * prod)
        /\ K * (D * net) + K * D = D * (K * (net + 1))
    BY <1>3, <1>4, <1>5, <1>6
  <2>10. R * prod < K * (net + 1)
    BY <1>3, <1>4, <1>5, <1>6, <2>8, <2>9, Cancels
  <2>11. K * w < K * (net + 1)
    BY <1>3, <1>5, <1>6, <1>7, <2>10
  <2>. QED  BY <1>3, <1>5, <1>7, <2>11, Cancels
<1>9. net <= w + 3
  <2>1. K * (D * net + 2) <= K * (e * S + 2 * D)
    BY <1>2, <1>3, <1>4, <1>5, Grows
  <2>2. K * (D * net) + 2 * K <= e * (K * S) + 2 * (K * D)
    <3>1. K * (D * net + 2) = K * (D * net) + 2 * K
      BY <1>3, <1>4, <1>5
    <3>2. K * (e * S + 2 * D) = e * (K * S) + 2 * (K * D)
      BY <1>2, <1>3, <1>4, <1>5
    <3>. QED  BY <2>1, <3>1, <3>2
  <2>3. e * (K * S) <= e * (R * T + R)
    BY <1>2, <1>3, <1>5, Grows
  <2>4. e * (R * T + R) = R * (e * T) + R * e
    BY <1>2, <1>3, <1>5
  <2>5. R * (e * T) <= R * (D * prod)
    BY <1>2, <1>3, <1>4, <1>5, <1>6, Grows
  <2>6. R * e <= K * D
    <3>1. R * e <= R * D
      BY <1>3, <1>4, <1>5, Grows
    <3>2. D * R <= D * K
      BY <1>3, <1>4, Grows
    <3>. QED  BY <1>3, <1>4, <1>5, <3>1, <3>2
  <2>7. D * (R * prod) < D * (K * w + K)
    BY <1>3, <1>4, <1>6, <1>7
  <2>8. R * (D * prod) = D * (R * prod) /\ D * (K * w + K) = K * (D * w) + K * D
    BY <1>3, <1>4, <1>6, <1>7
  <2>9. /\ K * (D * net) \in Nat /\ e * (K * S) \in Nat /\ R * (e * T) \in Nat
        /\ R * e \in Nat /\ K * D \in Nat /\ R * (D * prod) \in Nat
        /\ K * (D * w) \in Nat
    BY <1>2, <1>3, <1>4, <1>5, <1>6, <1>7
  <2>10. K * (D * net) < K * (D * w) + 4 * (K * D)
    BY <1>3, <2>2, <2>3, <2>4, <2>5, <2>6, <2>7, <2>8, <2>9
  <2>11. /\ K * (D * net) = (K * D) * net
         /\ K * (D * w) + 4 * (K * D) = (K * D) * (w + 4)
    BY <1>3, <1>4, <1>5, <1>7
  <2>12. net < w + 4
    BY <1>5, <1>7, <2>9, <2>10, <2>11, Cancels
  <2>. QED  BY <1>5, <1>7, <2>12
<1>. QED  BY <1>1, <1>8, <1>9 DEF w

\* What the budget of a target is worth covers its price, by less than a cent
\* more, unless it has no price at all.
LEMMA BudgetBounds ==
  ASSUME NEW p \in Policies, FeesValid(p), NEW t \in Nat
  PROVE  LET cents == BudgetCents(p, FundingCategory, t)
             units == UsdCentsToUnits(cents)
             price == SplitTotal(p, FundingCategory, t)
         IN  /\ cents \in Nat /\ units \in Nat
             /\ price <= units
             /\ price > 0 => units < price + UnitsPerUsdCent
<1>. DEFINE price == SplitTotal(p, FundingCategory, t)
            U == UnitsPerUsdCent
            cents == (price + U - 1) \div U
<1>1. FundingCategory \in Categories /\ U \in Nat \ {0}
  BY BudgetAssumption, ScaleAssumption
<1>2. price \in Nat /\ Shares(Preview(p, FundingCategory, t)) = price
  BY <1>1, QuoteShares
<1>3. BudgetCents(p, FundingCategory, t) = IF cents > 0 THEN cents ELSE 1
  BY <1>2 DEF BudgetCents
<1>. HIDE DEF price, U
<1>4. /\ cents \in Nat /\ U * cents <= price + U - 1 /\ price + U - 1 < U * cents + U
  BY <1>1, <1>2, Division
<1>. HIDE DEF cents
<1>5. U * cents = cents * U /\ U * cents \in Nat
  BY <1>1, <1>4
<1>6. CASE cents > 0
  <2>1. UsdCentsToUnits(BudgetCents(p, FundingCategory, t)) = U * cents
    BY <1>3, <1>5, <1>6 DEF UsdCentsToUnits, U
  <2>. QED  BY <1>1, <1>2, <1>3, <1>4, <1>5, <1>6, <2>1 DEF price, U
<1>7. CASE cents = 0
  <2>1. UsdCentsToUnits(BudgetCents(p, FundingCategory, t)) = U
    BY <1>1, <1>3, <1>7 DEF UsdCentsToUnits, U
  <2>2. U * cents = 0
    BY <1>1, <1>7
  <2>3. price = 0
    BY <1>1, <1>2, <1>4, <2>2
  <2>. QED  BY <1>1, <1>3, <1>7, <2>1, <2>3 DEF price, U
<1>. QED  BY <1>4, <1>6, <1>7

\* A comparison that allows a settlement saw a weight within the tolerance and
\* the basis point that its division drops.
LEMMA EvidenceClose ==
  ASSUME NEW declared \in Nat \ {0}, NEW reading \in Readings, NEW category,
         NEW document, NEW tolerance \in Nat,
         IsSettlementAllowed(CompareAuditValues(declared, reading, category,
                                                document, tolerance))
  PROVE  /\ reading.seen /\ reading.grams \in Nat
         /\ (IF reading.grams > declared THEN reading.grams - declared
                                         ELSE declared - reading.grams) * BpsDenom
               < (tolerance + 1) * declared
<1>. DEFINE diff == IF reading.grams > declared THEN reading.grams - declared
                                                ELSE declared - reading.grams
            bps  == (diff * BpsDenom) \div declared
<1>1. /\ reading.seen
      /\ ~(WeightDeltaBps(declared, reading.grams) > tolerance)
  BY DEF IsSettlementAllowed, CompareAuditValues
<1>2. reading.grams \in Nat
  BY <1>1, BudgetAssumption
<1>3. WeightDeltaBps(declared, reading.grams) = bps
  BY DEF WeightDeltaBps
<1>4. BpsDenom \in Nat /\ diff \in Nat
  BY <1>2, ScaleAssumption
<1>5. diff * BpsDenom \in Nat
  BY <1>4
<1>6. ~(bps > tolerance)
  BY <1>1, <1>3
<1>. HIDE DEF diff
<1>7. bps \in Nat /\ diff * BpsDenom < declared * bps + declared
  BY <1>5, Division
<1>. HIDE DEF bps
<1>8. bps <= tolerance
  BY <1>6, <1>7
<1>9. declared * bps <= declared * tolerance
  BY <1>7, <1>8, Grows
<1>10. (tolerance + 1) * declared = declared * tolerance + declared
  OBVIOUS
<1>11. declared * bps \in Nat /\ declared * tolerance \in Nat
  BY <1>7
<1>12. diff * BpsDenom < (tolerance + 1) * declared
  BY <1>5, <1>7, <1>9, <1>10, <1>11
<1>. QED  BY <1>1, <1>2, <1>12 DEF diff

-----------------------------------------------------------------------------
(* The price of several lots against the price of their weight *)

\* A part of the price, rounded down for each lot, adds up to no more than the
\* part of all their weight at a price no lower.
LEMMA PartsAtMost ==
  ASSUME NEW A, IsFiniteSet(A), NEW g, \A x \in A : g[x] \in Nat,
         NEW perKilo \in Nat, NEW own, \A x \in A : own[x] \in 0 .. perKilo,
         NEW t \in Nat, Total(g, A) <= t,
         NEW part, \A x \in A : part[x] = Part(own[x], g[x])
  PROVE  Total(part, A) <= Part(perKilo, t)
<1>1. GramsPerKg \in Nat \ {0}
  BY ScaleAssumption
<1>2. ASSUME NEW x \in A
      PROVE  part[x] \in Nat /\ GramsPerKg * part[x] <= perKilo * g[x] + 0
  <2>0. own[x] \in Nat /\ own[x] <= perKilo /\ g[x] \in Nat
    OBVIOUS
  <2>1. part[x] \in Nat /\ GramsPerKg * part[x] <= own[x] * g[x]
    BY <2>0, PartBounds
  <2>2. g[x] * own[x] <= g[x] * perKilo
    BY <2>0, Grows
  <2>. QED  BY <1>1, <2>0, <2>1, <2>2
<1>3. GramsPerKg * Total(part, A) <= perKilo * Total(g, A) + 0 * Cardinality(A)
  BY <1>1, <1>2, TotalLinear
<1>4. /\ Total(part, A) \in Nat /\ Total(g, A) \in Nat /\ Cardinality(A) \in Nat
  BY <1>2, TotalType, FS_CardinalityType
<1>5. perKilo * Total(g, A) <= perKilo * t
  BY <1>4, Grows
<1>6. GramsPerKg * Total(part, A) <= t * perKilo
  BY <1>1, <1>3, <1>4, <1>5
<1>. QED  BY <1>1, <1>4, <1>6, Quotient DEF Part

\* Nor to less than a centavo a lot after the first below it, at that price.
LEMMA PartsAtLeast ==
  ASSUME NEW A, IsFiniteSet(A), A # {}, NEW g, \A x \in A : g[x] \in Nat,
         NEW perKilo \in Nat,
         NEW part, \A x \in A : part[x] = Part(perKilo, g[x])
  PROVE  Part(perKilo, Total(g, A)) + 1 <= Total(part, A) + Cardinality(A)
<1>. DEFINE G == GramsPerKg
            n == Cardinality(A)
            t == Total(g, A)
            B == Total(part, A)
<1>1. G \in Nat \ {0} /\ G - 1 \in Nat
  BY ScaleAssumption
<1>2. ASSUME NEW x \in A
      PROVE  part[x] \in Nat /\ perKilo * g[x] <= G * part[x] + (G - 1)
  <2>1. part[x] \in Nat /\ perKilo * g[x] < G * part[x] + G
    BY PartBounds
  <2>2. perKilo * g[x] \in Nat /\ G * part[x] \in Nat
    BY <1>1, <2>1
  <2>. QED  BY <1>1, <2>1, <2>2
<1>3. perKilo * t <= G * B + (G - 1) * n
  <2>. HIDE DEF G
  <2>. QED  BY <1>1, <1>2, TotalLinear
<1>4. n \in Nat \ {0} /\ t \in Nat /\ B \in Nat
  BY <1>2, TotalType, FS_CardinalityType, FS_EmptySet
<1>. DEFINE q == Part(perKilo, t)
<1>5. q \in Nat /\ G * q <= perKilo * t
  BY <1>4, PartBounds
<1>. HIDE DEF G, n, t, B, q
<1>6. (G - 1) * n < G * n
  BY <1>1, <1>4
<1>7. G * B + G * n = G * (B + n)
  BY <1>1, <1>4
<1>8. /\ G * q \in Nat /\ perKilo * t \in Nat /\ G * B \in Nat
      /\ (G - 1) * n \in Nat /\ G * n \in Nat
  BY <1>1, <1>4, <1>5
<1>9. G * q < G * (B + n)
  BY <1>3, <1>5, <1>6, <1>7, <1>8
<1>10. q < B + n
  BY <1>1, <1>4, <1>5, <1>9, Cancels
<1>. QED  BY <1>4, <1>5, <1>10 DEF q, B, n, t

\* Lots of no dearer categories, of no more than a weight, cost no more than it.
LEMMA LotsCostAtMost ==
  ASSUME NEW p \in Policies, NEW A, IsFiniteSet(A),
         NEW g, \A x \in A : g[x] \in Nat,
         NEW c, \A x \in A : /\ c[x] \in Categories
                            /\ p.price[c[x]] <= p.price[FundingCategory]
                            /\ p.bonus[c[x]] <= p.bonus[FundingCategory],
         NEW t \in Nat, Total(g, A) <= t,
         NEW cost, \A x \in A : cost[x] = SplitTotal(p, c[x], g[x])
  PROVE  Total(cost, A) <= SplitTotal(p, FundingCategory, t)
<1>. DEFINE base  == [x \in A |-> Part(p.price[c[x]], g[x])]
            bonus == [x \in A |-> Part(p.bonus[c[x]], g[x])]
            worth == [x \in A |-> Subtotal(p, c[x], g[x])]
            P == p.price[FundingCategory]
            Q == p.bonus[FundingCategory]
            S == Subtotal(p, FundingCategory, t)
            R == Cost(p)
            K == Scale
<1>1. P \in Nat /\ Q \in Nat /\ FundingCategory \in Categories
  BY BudgetAssumption, PolicyFields
<1>2. \A x \in A : p.price[c[x]] \in 0 .. P /\ p.bonus[c[x]] \in 0 .. Q
  BY <1>1, PolicyFields
<1>3. /\ S = Part(P, t) + Part(Q, t) /\ S \in Nat
      /\ Part(P, t) \in Nat /\ Part(Q, t) \in Nat
  BY <1>1, SubtotalParts, PartBounds
<1>4. R \in Nat \ {0} /\ K \in Nat \ {0}
  BY CostPositive
<1>5. ASSUME NEW x \in A
      PROVE  /\ base[x] \in Nat /\ bonus[x] \in Nat /\ worth[x] \in Nat
             /\ worth[x] = base[x] + bonus[x]
             /\ cost[x] \in Nat
             /\ R * cost[x] <= K * worth[x] + 0
  <2>1. c[x] \in Categories /\ g[x] \in Nat
    OBVIOUS
  <2>2. /\ base[x] = Part(p.price[c[x]], g[x]) /\ bonus[x] = Part(p.bonus[c[x]], g[x])
        /\ worth[x] = Subtotal(p, c[x], g[x])
    OBVIOUS
  <2>3. worth[x] \in Nat /\ worth[x] = base[x] + bonus[x]
    BY <2>1, <2>2, SubtotalParts
  <2>4. base[x] \in Nat /\ bonus[x] \in Nat
    BY <2>1, <2>2, PolicyFields, PartBounds
  <2>5. cost[x] = PenToUsdc(worth[x], Rate(p))
    BY <2>2 DEF SplitTotal
  <2>6. cost[x] \in Nat /\ R * cost[x] <= K * worth[x]
    BY <2>3, <2>5, UsdcBounds
  <2>7. K * worth[x] + 0 = K * worth[x]
    BY <1>4, <2>3
  <2>. QED  BY <2>3, <2>4, <2>6, <2>7
<1>6. Total(base, A) <= Part(P, t)
  <2>. DEFINE own == [x \in A |-> p.price[c[x]]]
  <2>1. \A x \in A : own[x] \in 0 .. P /\ base[x] = Part(own[x], g[x])
    BY <1>2
  <2>. HIDE DEF own, base, P
  <2>. QED  BY <1>1, <2>1, PartsAtMost
<1>7. Total(bonus, A) <= Part(Q, t)
  <2>. DEFINE own == [x \in A |-> p.bonus[c[x]]]
  <2>1. \A x \in A : own[x] \in 0 .. Q /\ bonus[x] = Part(own[x], g[x])
    BY <1>2
  <2>. HIDE DEF own, bonus, Q
  <2>. QED  BY <1>1, <2>1, PartsAtMost
<1>. HIDE DEF base, bonus, worth, S, R, K, P, Q
<1>8. Total(worth, A) = Total(base, A) + Total(bonus, A)
  BY <1>5, TotalPlus
<1>9. /\ Total(base, A) \in Nat /\ Total(bonus, A) \in Nat
      /\ Total(worth, A) \in Nat /\ Total(cost, A) \in Nat /\ Cardinality(A) \in Nat
  BY <1>5, TotalType, FS_CardinalityType
<1>10. Total(worth, A) <= S
  BY <1>3, <1>6, <1>7, <1>8, <1>9
<1>11. R * Total(cost, A) <= K * Total(worth, A) + 0 * Cardinality(A)
  BY <1>4, <1>5, TotalLinear
<1>12. K * Total(worth, A) <= K * S
  BY <1>3, <1>4, <1>9, <1>10, Grows
<1>13. R * Total(cost, A) <= K * S /\ K * S \in Nat
  BY <1>3, <1>4, <1>9, <1>11, <1>12
<1>14. SplitTotal(p, FundingCategory, t) = (K * S) \div R
  BY <1>3, UsdcBounds DEF SplitTotal, K, S, R
<1>. QED  BY <1>4, <1>9, <1>13, <1>14, Quotient

\* Lots of the budget's category cost little less than all their weight: a unit
\* a lot, and two centavos for each lot after the first.
LEMMA LotsCostAtLeast ==
  ASSUME NEW p \in Policies, NEW A, IsFiniteSet(A), A # {},
         NEW g, \A x \in A : g[x] \in Nat,
         NEW cost, \A x \in A : cost[x] = SplitTotal(p, FundingCategory, g[x])
  PROVE  LET n == Cardinality(A)
         IN  SplitTotal(p, FundingCategory, Total(g, A))
               <= Total(cost, A) + n + PenToUsdc(2 * (n - 1), Rate(p))
<1>. DEFINE F == FundingCategory
            base  == [x \in A |-> Part(p.price[F], g[x])]
            bonus == [x \in A |-> Part(p.bonus[F], g[x])]
            worth == [x \in A |-> Subtotal(p, F, g[x])]
            t == Total(g, A)
            n == Cardinality(A)
            S == Subtotal(p, F, t)
            R == Cost(p)
            K == Scale
            X == SplitTotal(p, F, t)
            Y == PenToUsdc(2 * (n - 1), Rate(p))
            C == Total(cost, A)
            W == Total(worth, A)
<1>1. F \in Categories /\ p.price[F] \in Nat /\ p.bonus[F] \in Nat
  BY BudgetAssumption, PolicyFields
<1>2. t \in Nat /\ n \in Nat \ {0}
  BY TotalType, FS_CardinalityType, FS_EmptySet
<1>3. /\ S = Part(p.price[F], t) + Part(p.bonus[F], t) /\ S \in Nat
      /\ Part(p.price[F], t) \in Nat /\ Part(p.bonus[F], t) \in Nat
  BY <1>1, <1>2, SubtotalParts, PartBounds
<1>4. R \in Nat \ {0} /\ K \in Nat \ {0} /\ R - 1 \in Nat
  BY CostPositive
<1>5. ASSUME NEW x \in A
      PROVE  /\ base[x] \in Nat /\ bonus[x] \in Nat /\ worth[x] \in Nat
             /\ worth[x] = base[x] + bonus[x]
             /\ cost[x] \in Nat
             /\ K * worth[x] <= R * cost[x] + (R - 1)
  <2>1. g[x] \in Nat
    OBVIOUS
  <2>2. /\ base[x] = Part(p.price[F], g[x]) /\ bonus[x] = Part(p.bonus[F], g[x])
        /\ worth[x] = Subtotal(p, F, g[x])
    OBVIOUS
  <2>3. worth[x] \in Nat /\ worth[x] = base[x] + bonus[x]
    BY <1>1, <2>1, <2>2, SubtotalParts
  <2>4. base[x] \in Nat /\ bonus[x] \in Nat
    BY <1>1, <2>1, <2>2, PartBounds
  <2>5. cost[x] = PenToUsdc(worth[x], Rate(p))
    BY <2>2 DEF SplitTotal
  <2>6. cost[x] \in Nat /\ K * worth[x] < R * cost[x] + R
    BY <2>3, <2>5, UsdcBounds
  <2>7. K * worth[x] \in Nat /\ R * cost[x] \in Nat
    BY <1>4, <2>3, <2>6
  <2>8. K * worth[x] <= R * cost[x] + (R - 1)
    <3>. HIDE DEF K, R, worth
    <3>. QED  BY <1>4, <2>6, <2>7
  <2>. QED  BY <2>3, <2>4, <2>6, <2>8
<1>6. Part(p.price[F], t) + 1 <= Total(base, A) + n
  <2>1. \A x \in A : base[x] = Part(p.price[F], g[x])
    OBVIOUS
  <2>. HIDE DEF base
  <2>. QED  BY <1>1, <2>1, PartsAtLeast
<1>7. Part(p.bonus[F], t) + 1 <= Total(bonus, A) + n
  <2>1. \A x \in A : bonus[x] = Part(p.bonus[F], g[x])
    OBVIOUS
  <2>. HIDE DEF bonus
  <2>. QED  BY <1>1, <2>1, PartsAtLeast
<1>. HIDE DEF base, bonus, worth, S, R, K, n
<1>8. W = Total(base, A) + Total(bonus, A)
  BY <1>5, TotalPlus
<1>9. /\ Total(base, A) \in Nat /\ Total(bonus, A) \in Nat /\ W \in Nat /\ C \in Nat
  BY <1>5, TotalType
<1>10. K * W <= R * C + (R - 1) * n
  BY <1>4, <1>5, TotalLinear DEF n
<1>11. X \in Nat /\ R * X <= K * S
  BY <1>3, UsdcBounds DEF SplitTotal, S, R, K
<1>12. 2 * (n - 1) \in Nat
  BY <1>2
<1>13. Y \in Nat /\ K * (2 * (n - 1)) < R * Y + R
  BY <1>12, UsdcBounds DEF R, K
<1>. HIDE DEF t, X, Y, C, W
<1>14. S <= W + 2 * (n - 1)
  BY <1>2, <1>3, <1>6, <1>7, <1>8, <1>9
<1>15. K * S <= K * (W + 2 * (n - 1))
  BY <1>3, <1>4, <1>9, <1>12, <1>14, Grows
<1>16. K * (W + 2 * (n - 1)) = K * W + K * (2 * (n - 1))
  BY <1>4, <1>9, <1>12, Distributes
<1>17. (R - 1) * n <= R * n
  BY <1>2, <1>4
<1>18. R * C + R * n + (R * Y + R) = R * (C + n + Y + 1)
  BY <1>2, <1>4, <1>9, <1>13
<1>19. /\ R * X \in Nat /\ K * S \in Nat /\ K * W \in Nat /\ R * C \in Nat
       /\ K * (2 * (n - 1)) \in Nat /\ R * n \in Nat /\ R * Y \in Nat
       /\ (R - 1) * n \in Nat
  BY <1>2, <1>3, <1>4, <1>9, <1>11, <1>12, <1>13
<1>20. R * X < R * (C + n + Y + 1)
  BY <1>4, <1>10, <1>11, <1>13, <1>15, <1>16, <1>17, <1>18, <1>19
<1>21. X < C + n + Y + 1
  BY <1>2, <1>4, <1>9, <1>11, <1>13, <1>20, Cancels
<1>22. X <= C + n + Y
  BY <1>2, <1>9, <1>11, <1>13, <1>21
<1>. QED  BY <1>22 DEF X, C, Y, n, t

-----------------------------------------------------------------------------
(* The inductive invariant *)

LotType ==
  [status : {"registered", "review"} \cup Holding, grams : Weights \cup {0},
   category : Categories, observed : Nat,
   result : {"none", "pass", "warning", "review_required", "unreadable"},
   split : SplitType]

Typed == TypeOK /\ lot \in [Lots -> LotType]

\* Before the first deposit nothing is held, audited, closed or under way.
BeforeFunding ==
  order.status \in {"none", "draft"} =>
    /\ escrow = 0 /\ order.funded = 0 /\ withdrawal = "idle"
    /\ \A l \in Lots : lot[l].status = "registered" /\ settling[l].pc = "idle"

\* The budget was estimated with the policy, whose fees were checked then.
Budgeted ==
  order.status # "none" =>
    /\ FeesValid(policy) /\ order.target \in Targets
    /\ order.budget = BudgetCents(policy, FundingCategory, order.target)

AfterWithdrawal ==
  order.status = "completed" =>
    escrow = 0 /\ \A l \in Lots : lot[l].status \notin {"ready", "accepted"}

\* What the contract checks before a weight is reserved.
Room == UsedGrams <= order.target

\* A lot that holds a weight passed its audit, and what it is paid is its quote.
LotBacked(l) ==
  lot[l].status \in Holding =>
    /\ lot[l].grams \in Weights
    /\ lot[l].result \in {"pass", "warning"}
    /\ Discrepancy(l) * BpsDenom < (policy.tolerance + 1) * lot[l].grams

LotQuoted(l) ==
  lot[l].status \in {"accepted", "settled"} =>
    lot[l].split = Quote(l) /\ Shares(lot[l].split) > 0

PaidOut ==
  Total([l \in Lots |-> IF lot[l].status = "settled" THEN Shares(lot[l].split) ELSE 0],
        Lots)

\* The escrow is what was deposited, a budget at least, without what was paid.
EscrowLeft ==
  order.status = "funded" => escrow + PaidOut = order.funded /\ Budget <= order.funded

\* A payment that is to be booked was made, and so was a withdrawal; an order that
\* is closed, in the row or on the contract, has paid for a lot.
Booked ==
  /\ \A l \in Lots : settling[l].pc = "book" => lot[l].status = "settled"
  /\ withdrawal = "book" => order.status = "completed"
  /\ books.status = "completed" \/ order.status = "completed" =>
       \E l \in Lots : lot[l].status = "settled"

\* As long as no settlement has read a row that missed a deposit, what each has
\* read is never less than what the escrow holds; one that has yet to book its
\* payment has read enough for the payment as well.
ReadsCover ==
  ~short => \A l \in Lots :
    /\ settling[l].pc = "pay" => settling[l].read >= escrow
    /\ settling[l].pc = "book" => settling[l].read >= escrow + Shares(lot[l].split)

BudgetInv ==
  /\ Typed /\ BeforeFunding /\ Budgeted /\ AfterWithdrawal /\ Room
  /\ (\A l \in Lots : LotBacked(l)) /\ (\A l \in Lots : LotQuoted(l))
  /\ EscrowLeft /\ Booked /\ ReadsCover /\ OnlyShortRowsHideMoney

\* The weight a lot holds, and what it was paid.
Held(l) == IF lot[l].status \in Holding THEN lot[l].grams ELSE 0
Paid(l) == IF lot[l].status = "settled" THEN Shares(lot[l].split) ELSE 0

LEMMA RowTerms ==
  ASSUME NEW r \in LotType
  PROVE  r.grams \in Nat /\ Shares(r.split) \in Nat
<1>1. r.grams \in Nat
  BY BudgetAssumption DEF LotType
<1>2. r.split \in SplitType
  BY DEF LotType
<1>. QED  BY <1>1, <1>2 DEF SplitType, Shares

\* Only what happens to one lot counts in the sums of a step that changes one.
LEMMA SumsChange ==
  ASSUME Typed, Typed', NEW l \in Lots,
         \A m \in Lots : m # l => lot'[m] = lot[m]
  PROVE  /\ UsedGrams' = UsedGrams - Held(l) + Held(l)'
         /\ PaidOut' = PaidOut - Paid(l) + Paid(l)'
         /\ UsedGrams \in Nat /\ PaidOut \in Nat
<1>. DEFINE h == [m \in Lots |-> Held(m)]
            p == [m \in Lots |-> Paid(m)]
            hn == [m \in Lots |-> Held(m)']
            pn == [m \in Lots |-> Paid(m)']
<1>1. IsFiniteSet(Lots)
  BY BudgetAssumption
<1>2. \A m \in Lots : h[m] \in Nat /\ p[m] \in Nat
  <2>1. \A m \in Lots : lot[m] \in LotType
    BY DEF Typed
  <2>. QED  BY <2>1, RowTerms DEF Held, Paid
<1>3. \A m \in Lots : hn[m] \in Nat /\ pn[m] \in Nat
  <2>1. \A m \in Lots : lot'[m] \in LotType
    BY DEF Typed
  <2>. QED  BY <2>1, RowTerms DEF Held, Paid
<1>4. \A m \in Lots : m # l => hn[m] = h[m] /\ pn[m] = p[m]
  BY DEF Held, Paid
<1>5. /\ UsedGrams = Total(h, Lots) /\ PaidOut = Total(p, Lots)
      /\ UsedGrams' = Total(hn, Lots) /\ PaidOut' = Total(pn, Lots)
  BY DEF UsedGrams, PaidOut, Held, Paid
<1>6. /\ h[l] = Held(l) /\ p[l] = Paid(l) /\ hn[l] = Held(l)' /\ pn[l] = Paid(l)'
  OBVIOUS
<1>. HIDE DEF h, p, hn, pn
<1>7. Total(hn, Lots) = Total(h, Lots) - h[l] + hn[l]
  BY <1>1, <1>2, <1>3, <1>4, TotalUpdate
<1>8. Total(pn, Lots) = Total(p, Lots) - p[l] + pn[l]
  BY <1>1, <1>2, <1>3, <1>4, TotalUpdate
<1>9. Total(h, Lots) \in Nat /\ Total(p, Lots) \in Nat
  BY <1>1, <1>2, TotalType
<1>. QED  BY <1>5, <1>6, <1>7, <1>8, <1>9

\* Nothing of a lot's record is lost when its row is replaced.
LEMMA LotReplaced ==
  ASSUME Typed, NEW l \in Lots, NEW r \in LotType, lot' = [lot EXCEPT ![l] = r]
  PROVE  /\ lot' \in [Lots -> LotType] /\ lot'[l] = r
         /\ \A m \in Lots : m # l => lot'[m] = lot[m]
BY DEF Typed

LEMMA EmptyLotType == NoLot \in LotType /\ NoLot.status = "registered"
BY BudgetAssumption DEF NoLot, LotType, SplitType

\* The type invariant speaks of the lots' fields.
LEMMA FieldsTyped ==
  ASSUME NEW r \in LotType
  PROVE  /\ r.status \in {"registered", "review"} \cup Holding
         /\ r.grams \in Weights \cup {0}
         /\ r.category \in Categories
         /\ r.observed \in Nat
         /\ r.result \in {"none", "pass", "warning", "review_required", "unreadable"}
         /\ r.split \in [net : Nat, producer : Nat, association : Nat, platform : Nat]
BY DEF LotType, SplitType

-----------------------------------------------------------------------------
(* The initial states *)

LEMMA InvInit == Init => BudgetInv
<1>. SUFFICES ASSUME Init PROVE BudgetInv
  OBVIOUS
<1>1. lot = [l \in Lots |-> NoLot]
  BY DEF Init
<1>2. \A l \in Lots : lot[l] = NoLot /\ lot[l] \in LotType /\ lot[l].status = "registered"
  BY <1>1, EmptyLotType
<1>3. Typed
  <2>1. lot \in [Lots -> LotType]
    BY <1>1, EmptyLotType
  <2>2. settling \in [Lots -> [pc : {"idle", "pay", "book"}, read : Nat]]
    BY DEF Init, NotSettling
  <2>. QED  BY <1>2, <2>1, <2>2, FieldsTyped DEF Init, Typed, TypeOK
<1>4. BeforeFunding
  BY <1>2 DEF Init, BeforeFunding, NotSettling
<1>5. Budgeted /\ AfterWithdrawal /\ EscrowLeft
  BY DEF Init, Budgeted, AfterWithdrawal, EscrowLeft
<1>6. Room
  <2>1. UsedGrams = 0
    BY <1>2, TotalZero DEF UsedGrams, Holding
  <2>. QED  BY <2>1 DEF Init, Room
<1>7. \A l \in Lots : LotBacked(l) /\ LotQuoted(l)
  BY <1>2 DEF LotBacked, LotQuoted, Holding
<1>8. Booked /\ ReadsCover
  BY DEF Init, Booked, ReadsCover, NotSettling
<1>9. OnlyShortRowsHideMoney
  BY DEF Init, OnlyShortRowsHideMoney
<1>. QED  BY <1>3, <1>4, <1>5, <1>6, <1>7, <1>8, <1>9 DEF BudgetInv

-----------------------------------------------------------------------------
(* Steps that leave the contract's state alone *)

LEMMA CoreKept ==
  ASSUME BudgetInv, UNCHANGED <<policy, order, escrow, lot>>
  PROVE  /\ Budgeted' /\ AfterWithdrawal' /\ Room' /\ EscrowLeft'
         /\ (\A l \in Lots : LotBacked(l))' /\ (\A l \in Lots : LotQuoted(l))'
<1>1. Budgeted' /\ AfterWithdrawal'
  BY DEF BudgetInv, Budgeted, AfterWithdrawal
<1>2. UsedGrams' = UsedGrams /\ PaidOut' = PaidOut
  BY DEF UsedGrams, PaidOut
<1>3. Room' /\ EscrowLeft'
  BY <1>2 DEF BudgetInv, Room, EscrowLeft, Budget
<1>4. \A l \in Lots : LotBacked(l)' /\ LotQuoted(l)'
  BY DEF BudgetInv, LotBacked, LotQuoted, Discrepancy, Quote
<1>. QED  BY <1>1, <1>3, <1>4

LEMMA ReadOrderStep ==
  ASSUME BudgetInv, NEW l \in Lots, ReadOrder(l)
  PROVE  BudgetInv'
<1>. USE DEF ReadOrder
<1>1. /\ Typed /\ BeforeFunding /\ Booked /\ ReadsCover /\ OnlyShortRowsHideMoney
      /\ AfterWithdrawal
  BY DEF BudgetInv
<1>2. order.status = "funded"
  BY <1>1 DEF Typed, TypeOK, BeforeFunding, AfterWithdrawal
<1>3. books.remaining \in Nat /\ escrow \in Nat
  BY <1>1 DEF Typed, TypeOK
<1>4. Typed'
  BY <1>1, <1>3 DEF Typed, TypeOK
<1>5. /\ settling'[l] = [pc |-> "pay", read |-> books.remaining]
      /\ \A m \in Lots : m # l => settling'[m] = settling[m]
  BY <1>1 DEF Typed, TypeOK
<1>6. Booked' /\ ReadsCover'
  <2>1. Booked'
    BY <1>1, <1>5 DEF Booked
  <2>2. ASSUME ~short', NEW m \in Lots
        PROVE  /\ settling'[m].pc = "pay" => settling'[m].read >= escrow
               /\ settling'[m].pc = "book" =>
                    settling'[m].read >= escrow + Shares(lot[m].split)
    <3>1. ~short /\ ~(books.remaining < escrow)
      BY <2>2, Zenon
    <3>4. books.remaining >= escrow
      BY <1>3, <3>1
    <3>2. CASE m = l
      BY <1>5, <3>2, <3>4
    <3>3. CASE m # l
      BY <1>1, <1>5, <3>1, <3>3 DEF ReadsCover
    <3>. QED  BY <3>2, <3>3
  <2>. QED  BY <2>1, <2>2 DEF ReadsCover
<1>7. BeforeFunding' /\ OnlyShortRowsHideMoney'
  BY <1>1, <1>2 DEF BeforeFunding, OnlyShortRowsHideMoney
<1>. QED  BY <1>4, <1>6, <1>7, CoreKept DEF BudgetInv

LEMMA BookSettledOrderStep ==
  ASSUME BudgetInv, NEW l \in Lots, BookSettledOrder(l)
  PROVE  BudgetInv'
<1>. DEFINE released == Shares(lot[l].split)
            left == IF settling[l].read >= released THEN settling[l].read - released ELSE 0
<1>1. Typed /\ BeforeFunding /\ Booked /\ ReadsCover /\ OnlyShortRowsHideMoney
  BY DEF BudgetInv
<1>2. /\ settling[l].pc = "book"
      /\ books' = [status |-> IF left = 0 THEN "completed" ELSE "open", remaining |-> left]
      /\ settling' = [settling EXCEPT ![l] = NotSettling]
      /\ UNCHANGED <<policy, order, escrow, lot, withdrawal, short>>
  BY DEF BookSettledOrder
<1>3. /\ settling[l].read \in Nat /\ released \in Nat /\ escrow \in Nat
      /\ ~short => settling[l].read >= escrow + released
  BY <1>1, <1>2, RowTerms DEF Typed, TypeOK, ReadsCover
<1>4. left \in Nat /\ (~short => left >= escrow)
  BY <1>3
<1>. HIDE DEF left
<1>5. /\ settling'[l] = NotSettling
      /\ \A m \in Lots : m # l => settling'[m] = settling[m]
      /\ settling' \in [Lots -> [pc : {"idle", "pay", "book"}, read : Nat]]
  BY <1>1, <1>2 DEF Typed, TypeOK, NotSettling
<1>6. Typed'
  BY <1>1, <1>2, <1>4, <1>5 DEF Typed, TypeOK
<1>7. Booked' /\ ReadsCover'
  BY <1>1, <1>2, <1>5 DEF Booked, ReadsCover, NotSettling
<1>8. BeforeFunding'
  BY <1>1, <1>2 DEF BeforeFunding, Typed, TypeOK
<1>9. OnlyShortRowsHideMoney'
  BY <1>2, <1>3, <1>4 DEF OnlyShortRowsHideMoney
<1>. QED  BY <1>2, <1>6, <1>7, <1>8, <1>9, CoreKept DEF BudgetInv

LEMMA SettlingStopsStep ==
  ASSUME BudgetInv, NEW l \in Lots, SettlingStops(l)
  PROVE  BudgetInv'
<1>. USE DEF SettlingStops
<1>1. Typed /\ BeforeFunding /\ Booked /\ ReadsCover /\ OnlyShortRowsHideMoney
  BY DEF BudgetInv
<1>2. /\ settling'[l] = NotSettling
      /\ \A m \in Lots : m # l => settling'[m] = settling[m]
      /\ settling' \in [Lots -> [pc : {"idle", "pay", "book"}, read : Nat]]
  BY <1>1 DEF Typed, TypeOK, NotSettling
<1>3. Typed'
  BY <1>1, <1>2 DEF Typed, TypeOK
<1>4. Booked' /\ ReadsCover'
  BY <1>1, <1>2 DEF Booked, ReadsCover, NotSettling
<1>5. BeforeFunding' /\ OnlyShortRowsHideMoney'
  BY <1>1, <1>2 DEF BeforeFunding, OnlyShortRowsHideMoney, NotSettling
<1>. QED  BY <1>3, <1>4, <1>5, CoreKept DEF BudgetInv

\* The row's status and amount are written by whatever happens to a session.
LEMMA FundingRowStep ==
  ASSUME BudgetInv, BookDeposit \/ FundingGoesOn \/ FundingFails \/ ResetOrder
  PROVE  BudgetInv'
<1>1. /\ Typed /\ BeforeFunding /\ Booked /\ ReadsCover
      /\ UNCHANGED <<policy, order, escrow, lot, settling, withdrawal, short>>
  BY DEF BudgetInv, BookDeposit, FundingGoesOn, FundingFails, ResetOrder
<1>2. Budget \in Nat
  BY <1>1, ScaleAssumption DEF Typed, TypeOK, Budget, UsdCentsToUnits
<1>3. /\ books' \in [status : {"open", "funding_failed", "completed"}, remaining : Nat]
      /\ books'.status # "completed"
  BY <1>1, <1>2 DEF BookDeposit, FundingGoesOn, FundingFails, ResetOrder, Typed, TypeOK
<1>4. Typed' /\ BeforeFunding'
  BY <1>1, <1>3 DEF Typed, TypeOK, BeforeFunding
<1>5. Booked' /\ ReadsCover' /\ OnlyShortRowsHideMoney'
  BY <1>1, <1>3 DEF Booked, ReadsCover, OnlyShortRowsHideMoney
<1>. QED  BY <1>1, <1>4, <1>5, CoreKept DEF BudgetInv

LEMMA ReadRemainderStep ==
  ASSUME BudgetInv, ReadRemainder
  PROVE  BudgetInv'
<1>. USE DEF ReadRemainder
<1>1. Typed /\ BeforeFunding /\ Booked /\ ReadsCover /\ OnlyShortRowsHideMoney
  BY DEF BudgetInv
<1>2. Typed' /\ Booked' /\ ReadsCover' /\ OnlyShortRowsHideMoney'
  BY <1>1 DEF Typed, TypeOK, Booked, ReadsCover, OnlyShortRowsHideMoney
<1>3. BeforeFunding'
  BY DEF BeforeFunding, Withdrawable
<1>. QED  BY <1>2, <1>3, CoreKept DEF BudgetInv

LEMMA WithdrawFailsStep ==
  ASSUME BudgetInv, WithdrawFails
  PROVE  BudgetInv'
<1>. USE DEF WithdrawFails
<1>1. Typed /\ BeforeFunding /\ Booked /\ ReadsCover /\ OnlyShortRowsHideMoney
  BY DEF BudgetInv
<1>2. /\ Typed' /\ BeforeFunding' /\ Booked' /\ ReadsCover'
      /\ OnlyShortRowsHideMoney'
  BY <1>1 DEF Typed, TypeOK, BeforeFunding, Booked, ReadsCover, OnlyShortRowsHideMoney
<1>. QED  BY <1>2, CoreKept DEF BudgetInv

LEMMA BookWithdrawalStep ==
  ASSUME BudgetInv, BookWithdrawal
  PROVE  BudgetInv'
<1>. USE DEF BookWithdrawal
<1>1. Typed /\ BeforeFunding /\ Booked /\ ReadsCover /\ AfterWithdrawal
  BY DEF BudgetInv
<1>2. order.status = "completed" /\ escrow = 0
  BY <1>1 DEF Booked, AfterWithdrawal
<1>3. /\ Typed' /\ BeforeFunding' /\ Booked' /\ ReadsCover'
      /\ OnlyShortRowsHideMoney'
  BY <1>1, <1>2
  DEF Typed, TypeOK, BeforeFunding, Booked, ReadsCover, OnlyShortRowsHideMoney
<1>. QED  BY <1>3, CoreKept DEF BudgetInv

-----------------------------------------------------------------------------
(* Steps of the order *)

LEMMA CreateOrderStep ==
  ASSUME BudgetInv, NEW t \in Targets, CreateOrder(t)
  PROVE  BudgetInv'
<1>. DEFINE cents == BudgetCents(policy, FundingCategory, t)
<1>1. /\ Typed /\ BeforeFunding /\ Room /\ Booked /\ ReadsCover
      /\ OnlyShortRowsHideMoney
  BY DEF BudgetInv
<1>2. /\ order.status = "none" /\ FeesValid(policy)
      /\ order' = [status |-> "draft", target |-> t, budget |-> cents, funded |-> 0]
      /\ UNCHANGED <<policy, escrow, lot, books, settling, withdrawal, short>>
  BY DEF CreateOrder, app
<1>3. policy \in Policies /\ t \in Nat
  BY <1>1, BudgetAssumption DEF Typed, TypeOK
<1>4. cents \in Nat
  BY <1>2, <1>3, BudgetBounds
<1>. HIDE DEF cents
<1>5. Typed'
  BY <1>1, <1>2, <1>4 DEF Typed, TypeOK
<1>6. BeforeFunding'
  BY <1>1, <1>2 DEF BeforeFunding
<1>7. Budgeted' /\ AfterWithdrawal' /\ EscrowLeft'
  BY <1>2 DEF Budgeted, AfterWithdrawal, EscrowLeft, cents
<1>8. Room'
  <2>1. \A l \in Lots : lot[l].status \notin Holding
    BY <1>1, <1>2 DEF BeforeFunding, Holding
  <2>2. UsedGrams' = 0
    BY <1>2, <2>1, TotalZero DEF UsedGrams
  <2>. QED  BY <1>2, <1>3, <2>2 DEF Room
<1>9. \A l \in Lots : LotBacked(l)' /\ LotQuoted(l)'
  BY <1>2 DEF BudgetInv, LotBacked, LotQuoted, Discrepancy, Quote
<1>10. Booked' /\ ReadsCover' /\ OnlyShortRowsHideMoney'
  BY <1>1, <1>2 DEF Booked, ReadsCover, OnlyShortRowsHideMoney, BeforeFunding
<1>. QED  BY <1>5, <1>6, <1>7, <1>8, <1>9, <1>10 DEF BudgetInv

LEMMA Deposited ==
  ASSUME NEW o \in [status : {"none", "draft", "funded", "completed"},
                    target : Targets \cup {0}, budget : Nat, funded : Nat],
         NEW u \in Nat
  PROVE  LET n == [o EXCEPT !.status = "funded", !.funded = @ + u]
         IN  /\ n \in [status : {"none", "draft", "funded", "completed"},
                       target : Targets \cup {0}, budget : Nat, funded : Nat]
             /\ n.status = "funded" /\ n.target = o.target /\ n.budget = o.budget
             /\ n.funded = o.funded + u
<1>. DEFINE Row(s, f) ==
              [status |-> s, target |-> o.target, budget |-> o.budget, funded |-> f]
            n == [o EXCEPT !.status = "funded", !.funded = @ + u]
<1>1. o = Row(o.status, o.funded)
  OBVIOUS
<1>2. [o EXCEPT !.status = "funded"] = Row("funded", o.funded)
  BY <1>1
<1>3. Row("funded", o.funded).funded = o.funded
  OBVIOUS
<1>4. [Row("funded", o.funded) EXCEPT !.funded = o.funded + u]
        = Row("funded", o.funded + u)
  OBVIOUS
<1>5. n = Row("funded", o.funded + u)
  BY <1>2, <1>3, <1>4, Zenon
<1>. HIDE DEF n
<1>6. /\ n \in [status : {"none", "draft", "funded", "completed"},
                target : Targets \cup {0}, budget : Nat, funded : Nat]
      /\ n.status = "funded" /\ n.target = o.target /\ n.budget = o.budget
      /\ n.funded = o.funded + u
  BY <1>5
<1>. QED  BY <1>6, Zenon DEF n

LEMMA DepositStep ==
  ASSUME BudgetInv, Deposit
  PROVE  BudgetInv'
<1>. DEFINE units == Budget
<1>1. /\ Typed /\ BeforeFunding /\ Budgeted /\ Room /\ EscrowLeft /\ Booked
      /\ ReadsCover
  BY DEF BudgetInv
<1>2. /\ order.status \in {"draft", "funded"}
      /\ \A l \in Lots : lot[l].status # "settled"
      /\ order' = [order EXCEPT !.status = "funded", !.funded = @ + units]
      /\ escrow' = escrow + units
      /\ short' = (short \/ \E l \in Lots : settling[l].pc = "pay")
      /\ UNCHANGED <<policy, lot, books, settling, withdrawal>>
  BY DEF Deposit
<1>3. units \in Nat /\ units = UsdCentsToUnits(order.budget)
  BY <1>1, ScaleAssumption DEF Typed, TypeOK, UsdCentsToUnits, Budget
<1>. HIDE DEF units
<1>4. /\ order' \in [status : {"none", "draft", "funded", "completed"},
                     target : Targets \cup {0}, budget : Nat, funded : Nat]
      /\ order'.status = "funded" /\ order'.target = order.target
      /\ order'.budget = order.budget /\ order'.funded = order.funded + units
  BY <1>1, <1>2, <1>3, Deposited DEF Typed, TypeOK
<1>5. Typed'
  BY <1>1, <1>2, <1>3, <1>4 DEF Typed, TypeOK
<1>6. EscrowLeft'
  <2>1. PaidOut' = 0 /\ PaidOut = 0
    BY <1>2, TotalZero DEF PaidOut
  <2>2. escrow = order.funded
    BY <1>1, <1>2, <2>1 DEF BeforeFunding, EscrowLeft, Typed, TypeOK
  <2>3. Budget' = units
    BY <1>3, <1>4 DEF Budget
  <2>4. escrow \in Nat
    BY <1>1 DEF Typed, TypeOK
  <2>. QED  BY <1>2, <1>3, <1>4, <2>1, <2>2, <2>3, <2>4 DEF EscrowLeft
<1>7. BeforeFunding' /\ AfterWithdrawal'
  BY <1>4 DEF BeforeFunding, AfterWithdrawal
<1>8. Budgeted'
  BY <1>1, <1>2, <1>4 DEF Budgeted
<1>9. Room'
  BY <1>1, <1>2, <1>4 DEF Room, UsedGrams
<1>10. \A l \in Lots : LotBacked(l)' /\ LotQuoted(l)'
  BY <1>2 DEF BudgetInv, LotBacked, LotQuoted, Discrepancy, Quote
<1>11. books.status # "completed" /\ order.status # "completed" /\ withdrawal # "book"
       /\ \A l \in Lots : settling[l].pc # "book"
  BY <1>1, <1>2 DEF Booked
<1>12. Booked'
  BY <1>2, <1>4, <1>11 DEF Booked
<1>13. ReadsCover'
  <2>. SUFFICES ASSUME ~short', NEW l \in Lots
                PROVE  settling[l].pc \notin {"pay", "book"}
    BY <1>2 DEF ReadsCover
  <2>. QED  BY <1>2, <1>11
<1>14. OnlyShortRowsHideMoney'
  BY <1>2, <1>11 DEF OnlyShortRowsHideMoney
<1>. QED
  BY <1>5, <1>6, <1>7, <1>8, <1>9, <1>10, <1>12, <1>13, <1>14 DEF BudgetInv

LEMMA WithdrawRemainderStep ==
  ASSUME BudgetInv, WithdrawRemainder
  PROVE  BudgetInv'
<1>1. Typed /\ Budgeted /\ Room /\ Booked /\ ReadsCover
  BY DEF BudgetInv
<1>2. /\ Withdrawable
      /\ escrow' = 0 /\ order' = [order EXCEPT !.status = "completed"]
      /\ withdrawal' \in {"book", "idle"}
      /\ UNCHANGED <<policy, lot, books, settling, short>>
  BY DEF WithdrawRemainder
<1>3. /\ order.status = "funded" /\ escrow > 0 /\ SettledGrams >= order.target
      /\ \A l \in Lots : lot[l].status \notin {"ready", "accepted"}
  BY <1>2 DEF Withdrawable
<1>4. /\ order'.status = "completed" /\ order'.target = order.target
      /\ order'.budget = order.budget
  BY <1>1, <1>2 DEF Typed, TypeOK
<1>5. Typed'
  <2>1. order' \in [status : {"none", "draft", "funded", "completed"},
                   target : Targets \cup {0}, budget : Nat, funded : Nat]
    BY <1>1, <1>2 DEF Typed, TypeOK
  <2>. QED  BY <1>1, <1>2, <2>1 DEF Typed, TypeOK
<1>6. BeforeFunding' /\ EscrowLeft' /\ OnlyShortRowsHideMoney'
  BY <1>2, <1>4 DEF BeforeFunding, EscrowLeft, OnlyShortRowsHideMoney
<1>7. Budgeted' /\ AfterWithdrawal'
  BY <1>1, <1>2, <1>3, <1>4 DEF Budgeted, AfterWithdrawal
<1>8. Room'
  BY <1>1, <1>2, <1>4 DEF Room, UsedGrams
<1>9. \A l \in Lots : LotBacked(l)' /\ LotQuoted(l)'
  BY <1>2 DEF BudgetInv, LotBacked, LotQuoted, Discrepancy, Quote
<1>10. ReadsCover'
  <2>1. ASSUME ~short, NEW l \in Lots
        PROVE  /\ settling[l].pc = "pay" => settling[l].read >= 0
               /\ settling[l].pc = "book" =>
                    settling[l].read >= 0 + Shares(lot[l].split)
    <3>1. settling[l].read \in Nat /\ escrow \in Nat /\ Shares(lot[l].split) \in Nat
      BY <1>1, RowTerms DEF Typed, TypeOK
    <3>. QED  BY <1>1, <1>3, <2>1, <3>1 DEF ReadsCover
  <2>. QED  BY <1>2, <1>4, <2>1 DEF ReadsCover
<1>11. Booked'
  <2>1. order.target \in Targets /\ order.target \in Nat \ {0}
    BY <1>1, <1>3, BudgetAssumption DEF Budgeted
  <2>2. \E l \in Lots : lot[l].status = "settled"
    <3>1. SUFFICES ASSUME \A l \in Lots : lot[l].status # "settled" PROVE FALSE
      OBVIOUS
    <3>2. SettledGrams = 0
      BY <3>1, TotalZero DEF SettledGrams
    <3>. QED  BY <1>3, <2>1, <3>2
  <2>. QED  BY <1>1, <1>2, <1>4, <2>2 DEF Booked
<1>. QED  BY <1>5, <1>6, <1>7, <1>8, <1>9, <1>10, <1>11 DEF BudgetInv

-----------------------------------------------------------------------------
(* Steps of one lot that has not been settled *)

\* What a lot's new row has to satisfy for the invariant to hold after it.
LEMMA LotChanged ==
  ASSUME BudgetInv, NEW l \in Lots, NEW r \in LotType,
         lot' = [lot EXCEPT ![l] = r],
         UNCHANGED <<policy, order, escrow, books, settling, withdrawal, short>>,
         lot[l].status # "settled", r.status # "settled",
         order.status \notin {"none", "draft"},
         order.status = "completed" => r.status \notin {"ready", "accepted"},
         r.status \in Holding =>
           \/ lot[l].status \in Holding /\ lot[l].grams = r.grams
           \/ Fits(r.grams),
         LotBacked(l)', LotQuoted(l)'
  PROVE  BudgetInv'
<1>1. /\ Typed /\ Budgeted /\ AfterWithdrawal /\ Room /\ EscrowLeft /\ Booked
      /\ ReadsCover
  BY DEF BudgetInv
<1>2. /\ lot' \in [Lots -> LotType] /\ lot'[l] = r
      /\ \A m \in Lots : m # l => lot'[m] = lot[m]
  BY <1>1, LotReplaced
<1>3. Typed'
  <2>1. \A m \in Lots : lot'[m] \in LotType
    BY <1>2
  <2>. QED  BY <1>1, <1>2, <2>1, FieldsTyped DEF Typed, TypeOK
<1>4. /\ UsedGrams' = UsedGrams - Held(l) + Held(l)'
      /\ PaidOut' = PaidOut - Paid(l) + Paid(l)'
      /\ UsedGrams \in Nat /\ PaidOut \in Nat
  BY <1>1, <1>2, <1>3, SumsChange
<1>5. Room'
  <2>1. /\ Held(l) = IF lot[l].status \in Holding THEN lot[l].grams ELSE 0
        /\ Held(l)' = IF r.status \in Holding THEN r.grams ELSE 0
    BY <1>2 DEF Held
  <2>2. lot[l].grams \in Nat /\ r.grams \in Nat
    BY <1>1, RowTerms DEF Typed
  <2>3. order.target \in Nat /\ order'.target = order.target
    BY <1>1, BudgetAssumption DEF Typed, TypeOK
  <2>. QED  BY <1>1, <1>4, <2>1, <2>2, <2>3 DEF Room, Fits
<1>6. EscrowLeft'
  <2>1. Paid(l) = 0 /\ Paid(l)' = 0
    BY <1>2 DEF Paid
  <2>. QED  BY <1>1, <1>4, <2>1 DEF EscrowLeft, Budget
<1>7. BeforeFunding' /\ Budgeted' /\ OnlyShortRowsHideMoney'
  BY <1>1 DEF BeforeFunding, Budgeted, BudgetInv, OnlyShortRowsHideMoney
<1>8. AfterWithdrawal'
  BY <1>1, <1>2 DEF AfterWithdrawal
<1>9. Booked' /\ ReadsCover'
  BY <1>1, <1>2 DEF Booked, ReadsCover
<1>10. \A m \in Lots : LotBacked(m)' /\ LotQuoted(m)'
  <2>. SUFFICES ASSUME NEW m \in Lots, m # l PROVE LotBacked(m)' /\ LotQuoted(m)'
    OBVIOUS
  <2>1. LotBacked(m) /\ LotQuoted(m)
    BY DEF BudgetInv
  <2>. QED  BY <1>2, <2>1 DEF LotBacked, LotQuoted, Discrepancy, Quote
<1>. QED  BY <1>3, <1>5, <1>6, <1>7, <1>8, <1>9, <1>10 DEF BudgetInv

\* The row an audit writes.
AuditedRow(status, grams, category, observed, result) ==
  [NoLot EXCEPT !.status = status, !.grams = grams, !.category = category,
                !.observed = observed, !.result = result]

LEMMA AuditedFields ==
  ASSUME NEW s, NEW g, NEW c, NEW o, NEW x
  PROVE  AuditedRow(s, g, c, o, x)
           = [status |-> s, grams |-> g, category |-> c, observed |-> o, result |-> x,
              split |-> NoLot.split]
<1>. DEFINE Row(s0, g0, c0, o0, x0) ==
              [status |-> s0, grams |-> g0, category |-> c0, observed |-> o0,
               result |-> x0, split |-> NoLot.split]
<1>1. NoLot = Row("registered", 0, FundingCategory, 0, "none")
  BY DEF NoLot
<1>2. [NoLot EXCEPT !.status = s] = Row(s, 0, FundingCategory, 0, "none")
  BY <1>1
<1>3. [Row(s, 0, FundingCategory, 0, "none") EXCEPT !.grams = g]
        = Row(s, g, FundingCategory, 0, "none")
  OBVIOUS
<1>4. [Row(s, g, FundingCategory, 0, "none") EXCEPT !.category = c]
        = Row(s, g, c, 0, "none")
  OBVIOUS
<1>5. [Row(s, g, c, 0, "none") EXCEPT !.observed = o] = Row(s, g, c, o, "none")
  OBVIOUS
<1>6. [Row(s, g, c, o, "none") EXCEPT !.result = x] = Row(s, g, c, o, x)
  OBVIOUS
<1>. QED  BY <1>2, <1>3, <1>4, <1>5, <1>6, Zenon DEF AuditedRow

LEMMA AuditStep ==
  ASSUME BudgetInv, NEW l \in Lots, NEW g \in Weights, NEW c \in Categories,
         NEW rd \in Readings, NEW d \in Documents, Audit(l, g, c, rd, d)
  PROVE  BudgetInv'
<1>. DEFINE result == CompareAuditValues(g, rd, c, d, policy.tolerance)
            status == IF IsSettlementAllowed(result) THEN "ready" ELSE "review"
            observed == IF rd.seen THEN rd.grams ELSE 0
            r == AuditedRow(status, g, c, observed, result)
<1>1. Typed /\ policy \in Policies
  BY DEF BudgetInv, Typed, TypeOK
<1>2. /\ order.status = "funded" /\ lot[l].status = "registered"
      /\ IsSettlementAllowed(result) => Fits(g)
      /\ lot' = [lot EXCEPT ![l] = r]
      /\ UNCHANGED <<policy, order, escrow, books, settling, withdrawal, short>>
  BY DEF Audit, AuditedRow, app
<1>3. result \in {"pass", "warning", "review_required", "unreadable"}
  BY DEF CompareAuditValues
<1>4. g \in Nat \ {0} /\ (rd.seen => rd.grams \in Nat)
  BY BudgetAssumption
<1>5. policy.tolerance \in Nat
  BY <1>1, BudgetAssumption
<1>6. IsSettlementAllowed(result) =>
        /\ rd.seen /\ rd.grams \in Nat
        /\ (IF rd.grams > g THEN rd.grams - g ELSE g - rd.grams) * BpsDenom
              < (policy.tolerance + 1) * g
  BY <1>4, <1>5, EvidenceClose
<1>. HIDE DEF result
<1>7. /\ r \in LotType
      /\ r.status = IF IsSettlementAllowed(result) THEN "ready" ELSE "review"
      /\ r.grams = g /\ r.category = c /\ r.result = result
      /\ r.observed = IF rd.seen THEN rd.grams ELSE 0
  <2>1. r = [status |-> status, grams |-> g, category |-> c, observed |-> observed,
             result |-> result, split |-> NoLot.split]
    BY AuditedFields
  <2>3. NoLot.split \in SplitType
    BY DEF NoLot, SplitType
  <2>2. observed \in Nat
    BY <1>4
  <2>. HIDE DEF r
  <2>. QED  BY <1>3, <2>1, <2>2, <2>3 DEF LotType, Holding
<1>. HIDE DEF r
<1>8. lot'[l] = r
  BY <1>1, <1>2, <1>7, LotReplaced
<1>9. LotBacked(l)'
  <2>. SUFFICES ASSUME r.status \in Holding
                PROVE  /\ r.grams \in Weights /\ r.result \in {"pass", "warning"}
                       /\ Discrepancy(l)' * BpsDenom < (policy'.tolerance + 1) * r.grams
    BY <1>8 DEF LotBacked
  <2>1. IsSettlementAllowed(result)
    BY <1>7 DEF Holding
  <2>2. Discrepancy(l)' = IF rd.grams > g THEN rd.grams - g ELSE g - rd.grams
    BY <1>6, <1>7, <1>8, <2>1 DEF Discrepancy
  <2>. QED  BY <1>2, <1>6, <1>7, <2>1, <2>2 DEF IsSettlementAllowed
<1>10. LotQuoted(l)'
  BY <1>7, <1>8 DEF LotQuoted
<1>11. /\ r.status # "settled" /\ (r.status \in Holding => Fits(r.grams))
  BY <1>2, <1>7 DEF Holding
<1>. QED  BY <1>2, <1>7, <1>9, <1>10, <1>11, LotChanged

LEMMA RequestReweighStep ==
  ASSUME BudgetInv, NEW l \in Lots, RequestReweigh(l)
  PROVE  BudgetInv'
<1>1. Typed /\ BeforeFunding
  BY DEF BudgetInv
<1>2. /\ lot[l].status \in {"ready", "review"}
      /\ lot' = [lot EXCEPT ![l] = NoLot]
      /\ UNCHANGED <<policy, order, escrow, books, settling, withdrawal, short>>
  BY DEF RequestReweigh, app
<1>3. lot'[l] = NoLot
  BY <1>1, <1>2, LotReplaced, EmptyLotType
<1>4. NoLot.status \notin Holding
  BY EmptyLotType DEF Holding
<1>5. LotBacked(l)' /\ LotQuoted(l)'
  BY <1>3, <1>4 DEF LotBacked, LotQuoted, Holding
<1>6. order.status \notin {"none", "draft"}
  BY <1>1, <1>2 DEF BeforeFunding
<1>. QED  BY <1>2, <1>4, <1>5, <1>6, EmptyLotType, LotChanged

LEMMA AcceptSettlementStep ==
  ASSUME BudgetInv, NEW l \in Lots, AcceptSettlement(l)
  PROVE  BudgetInv'
<1>. DEFINE q == Quote(l)
            r == [lot[l] EXCEPT !.status = "accepted", !.split = q]
<1>1. /\ Typed /\ BeforeFunding /\ AfterWithdrawal /\ policy \in Policies
      /\ LotBacked(l)
  BY DEF BudgetInv, Typed, TypeOK
<1>2. /\ lot[l].status = "ready" /\ FeesValid(policy) /\ Shares(q) > 0
      /\ lot' = [lot EXCEPT ![l] = r]
      /\ UNCHANGED <<policy, order, escrow, books, settling, withdrawal, short>>
  BY DEF AcceptSettlement, app
<1>3. lot[l] \in LotType /\ lot[l].category \in Categories /\ lot[l].grams \in Nat
  BY <1>1, RowTerms, FieldsTyped DEF Typed
<1>4. q \in SplitType
  BY <1>1, <1>2, <1>3, QuoteShares DEF Quote
<1>. HIDE DEF q
<1>5. /\ r \in LotType /\ r.status = "accepted" /\ r.split = q
      /\ r.grams = lot[l].grams /\ r.category = lot[l].category
      /\ r.result = lot[l].result /\ r.observed = lot[l].observed
  BY <1>3, <1>4 DEF LotType, Holding
<1>. HIDE DEF r
<1>6. lot'[l] = r
  BY <1>1, <1>2, <1>5, LotReplaced
<1>7. LotBacked(l)'
  BY <1>1, <1>2, <1>5, <1>6 DEF LotBacked, Discrepancy, Holding
<1>8. LotQuoted(l)'
  <2>1. Quote(l)' = q
    BY <1>2, <1>5, <1>6 DEF Quote, q
  <2>. QED  BY <1>2, <1>5, <1>6, <2>1 DEF LotQuoted
<1>9. order.status \notin {"none", "draft", "completed"}
  BY <1>1, <1>2 DEF BeforeFunding, AfterWithdrawal
<1>10. lot[l].status \in Holding
  BY <1>2 DEF Holding
<1>. QED  BY <1>2, <1>5, <1>7, <1>8, <1>9, <1>10, LotChanged

-----------------------------------------------------------------------------
(* The payment *)

LEMMA SettleLotStep ==
  ASSUME BudgetInv, NEW l \in Lots, SettleLot(l)
  PROVE  BudgetInv'
<1>. DEFINE paid == Shares(lot[l].split)
            r == [lot[l] EXCEPT !.status = "settled"]
<1>1. /\ Typed /\ BeforeFunding /\ Budgeted /\ AfterWithdrawal /\ Room
      /\ EscrowLeft /\ Booked /\ ReadsCover
  BY DEF BudgetInv
<1>2. /\ lot[l].status = "accepted" /\ settling[l].pc = "pay" /\ paid <= escrow
      /\ escrow' = escrow - paid
      /\ lot' = [lot EXCEPT ![l] = r]
      /\ settling' \in {[settling EXCEPT ![l].pc = "book"],
                        [settling EXCEPT ![l] = NotSettling]}
      /\ UNCHANGED <<policy, order, books, withdrawal, short>>
  BY DEF SettleLot, Payable
<1>3. lot[l] \in LotType /\ paid \in Nat /\ escrow \in Nat
  BY <1>1, RowTerms DEF Typed, TypeOK
<1>4. /\ r \in LotType /\ r.status = "settled" /\ r.split = lot[l].split
      /\ r.grams = lot[l].grams /\ r.category = lot[l].category
      /\ r.result = lot[l].result /\ r.observed = lot[l].observed
  BY <1>3 DEF LotType, Holding
<1>. HIDE DEF r
<1>5. /\ lot' \in [Lots -> LotType] /\ lot'[l] = r
      /\ \A m \in Lots : m # l => lot'[m] = lot[m]
  BY <1>1, <1>2, <1>4, LotReplaced
<1>6. escrow' \in Nat /\ escrow' <= escrow /\ escrow' + paid = escrow
  BY <1>2, <1>3
<1>7. /\ settling[l].read \in Nat
      /\ settling' \in [Lots -> [pc : {"idle", "pay", "book"}, read : Nat]]
      /\ \A m \in Lots : m # l => settling'[m] = settling[m]
      /\ \/ settling'[l] = NotSettling
         \/ settling'[l].pc = "book" /\ settling'[l].read = settling[l].read
  <2>1. settling \in [Lots -> [pc : {"idle", "pay", "book"}, read : Nat]]
    BY <1>1 DEF Typed, TypeOK
  <2>2. NotSettling \in [pc : {"idle", "pay", "book"}, read : Nat]
    BY DEF NotSettling
  <2>3. CASE settling' = [settling EXCEPT ![l].pc = "book"]
    BY <2>1, <2>3
  <2>4. CASE settling' = [settling EXCEPT ![l] = NotSettling]
    BY <2>1, <2>2, <2>4
  <2>. QED  BY <1>2, <2>3, <2>4
<1>8. Typed'
  <2>1. \A m \in Lots : lot'[m] \in LotType
    BY <1>5
  <2>. QED  BY <1>1, <1>2, <1>5, <1>6, <1>7, <2>1, FieldsTyped DEF Typed, TypeOK
<1>9. /\ UsedGrams' = UsedGrams - Held(l) + Held(l)'
      /\ PaidOut' = PaidOut - Paid(l) + Paid(l)'
      /\ UsedGrams \in Nat /\ PaidOut \in Nat
  BY <1>1, <1>5, <1>8, SumsChange
<1>10. order.status = "funded"
  BY <1>1, <1>2 DEF Typed, TypeOK, BeforeFunding, AfterWithdrawal
<1>11. Room'
  <2>1. Held(l)' = Held(l) /\ Held(l) \in Nat
    BY <1>2, <1>3, <1>4, <1>5, RowTerms DEF Held, Holding
  <2>. QED  BY <1>1, <1>2, <1>9, <2>1 DEF Room
<1>12. EscrowLeft'
  <2>1. Paid(l) = 0 /\ Paid(l)' = paid
    BY <1>2, <1>4, <1>5 DEF Paid
  <2>2. Budget' = Budget
    BY <1>2 DEF Budget
  <2>. HIDE DEF paid
  <2>. QED  BY <1>1, <1>2, <1>3, <1>6, <1>9, <2>1, <2>2 DEF EscrowLeft
<1>13. BeforeFunding' /\ Budgeted' /\ AfterWithdrawal'
  BY <1>1, <1>2, <1>10 DEF BeforeFunding, Budgeted, AfterWithdrawal
<1>14. OnlyShortRowsHideMoney' /\ Booked'
  <2>1. OnlyShortRowsHideMoney
    BY DEF BudgetInv
  <2>2. OnlyShortRowsHideMoney'
    BY <1>2, <1>3, <1>6, <2>1 DEF OnlyShortRowsHideMoney
  <2>3. ASSUME NEW m \in Lots, settling'[m].pc = "book" PROVE lot'[m].status = "settled"
    BY <1>1, <1>4, <1>5, <1>7, <2>3 DEF Booked
  <2>. QED  BY <1>1, <1>2, <1>4, <1>5, <2>2, <2>3 DEF Booked
<1>15. ReadsCover'
  <2>. SUFFICES ASSUME ~short, NEW m \in Lots
                PROVE  /\ settling'[m].pc = "pay" => settling'[m].read >= escrow'
                       /\ settling'[m].pc = "book" =>
                            settling'[m].read >= escrow' + Shares(lot'[m].split)
    BY <1>2 DEF ReadsCover
  <2>1. settling[l].read >= escrow
    BY <1>1, <1>2 DEF ReadsCover
  <2>2. CASE m = l
    BY <1>3, <1>4, <1>5, <1>6, <1>7, <2>1, <2>2 DEF NotSettling
  <2>3. CASE m # l
    <3>1. /\ settling[m].read \in Nat /\ Shares(lot[m].split) \in Nat
      BY <1>1, RowTerms DEF Typed, TypeOK
    <3>2. /\ settling[m].pc = "pay" => settling[m].read >= escrow
          /\ settling[m].pc = "book" =>
               settling[m].read >= escrow + Shares(lot[m].split)
      BY <1>1 DEF ReadsCover
    <3>. QED  BY <1>3, <1>5, <1>6, <1>7, <2>3, <3>1, <3>2
  <2>. QED  BY <2>2, <2>3
<1>16. \A m \in Lots : LotBacked(m)' /\ LotQuoted(m)'
  <2>. TAKE m \in Lots
  <2>1. LotBacked(m) /\ LotQuoted(m)
    BY DEF BudgetInv
  <2>2. CASE m # l
    BY <1>2, <1>5, <2>1, <2>2 DEF LotBacked, LotQuoted, Discrepancy, Quote
  <2>3. CASE m = l
    BY <1>2, <1>4, <1>5, <2>1, <2>3
    DEF LotBacked, LotQuoted, Discrepancy, Quote, Holding
  <2>. QED  BY <2>2, <2>3
<1>. QED  BY <1>8, <1>11, <1>12, <1>13, <1>14, <1>15, <1>16 DEF BudgetInv

-----------------------------------------------------------------------------
(* The invariant, and what it shows *)

LEMMA InvStep == BudgetInv /\ [Next]_vars => BudgetInv'
<1>. SUFFICES ASSUME BudgetInv, [Next]_vars PROVE BudgetInv'
  OBVIOUS
<1>1. ASSUME NEW t \in Targets, CreateOrder(t) PROVE BudgetInv'
  BY <1>1, CreateOrderStep
<1>2. ASSUME Deposit \/ BookDeposit \/ FundingGoesOn \/ FundingFails \/ ResetOrder
      PROVE  BudgetInv'
  BY <1>2, DepositStep, FundingRowStep
<1>3. ASSUME NEW l \in Lots, NEW g \in Weights, NEW c \in Categories,
             NEW r \in Readings, NEW d \in Documents, Audit(l, g, c, r, d)
      PROVE  BudgetInv'
  BY <1>3, AuditStep
<1>4. ASSUME NEW l \in Lots,
             RequestReweigh(l) \/ AcceptSettlement(l) \/ ReadOrder(l) \/ SettleLot(l)
               \/ BookSettledOrder(l) \/ SettlingStops(l)
      PROVE  BudgetInv'
  BY <1>4, RequestReweighStep, AcceptSettlementStep, ReadOrderStep, SettleLotStep,
     BookSettledOrderStep, SettlingStopsStep
<1>5. ASSUME ReadRemainder \/ WithdrawRemainder \/ WithdrawFails \/ BookWithdrawal
      PROVE  BudgetInv'
  BY <1>5, ReadRemainderStep, WithdrawRemainderStep, WithdrawFailsStep,
     BookWithdrawalStep
<1>6. CASE UNCHANGED vars
  <2>1. UNCHANGED <<policy, order, escrow, lot, books, settling, withdrawal, short>>
    BY <1>6 DEF vars
  <2>2. /\ Typed' /\ BeforeFunding' /\ Booked' /\ ReadsCover'
        /\ OnlyShortRowsHideMoney'
    BY <2>1 DEF BudgetInv, Typed, TypeOK, BeforeFunding, Booked, ReadsCover,
                OnlyShortRowsHideMoney
  <2>. QED  BY <2>1, <2>2, CoreKept DEF BudgetInv
<1>. QED  BY <1>1, <1>2, <1>3, <1>4, <1>5, <1>6 DEF Next

LEMMA BudgetInvariant == Spec => []BudgetInv
BY InvInit, InvStep, PTL DEF Spec

\* The order, its lots, its row and the requests have their types in every
\* state: no amount ever goes below zero.
THEOREM BudgetTyped == Spec => []TypeOK
<1>1. BudgetInv => TypeOK
  BY DEF BudgetInv, Typed
<1>. QED  BY <1>1, BudgetInvariant, PTL

\* However settlements overlap, stop or lose their answers, and whatever becomes
\* of the order's sessions and of the withdrawal, a row that shows the order as
\* completed hides money only if a settlement has read a row that missed a deposit.
THEOREM ShortRowsHideMoney == Spec => []OnlyShortRowsHideMoney
<1>1. BudgetInv => OnlyShortRowsHideMoney
  BY DEF BudgetInv
<1>. QED  BY <1>1, BudgetInvariant, PTL

\* A paid lot's weight is the one the scale's picture shows, up to the tolerance
\* and the basis point that the comparison's rounding drops.
THEOREM PaymentBacked == Spec => []EvidenceBacksPayment
<1>1. BudgetInv => EvidenceBacksPayment
  BY DEF BudgetInv, LotBacked, EvidenceBacksPayment, Holding
<1>. QED  BY <1>1, BudgetInvariant, PTL

\* A producer's USDC are worth what the quote said in soles, less three centavos
\* at most and never more, for every policy, category and weight.
THEOREM QuotePaid == Spec => []PaidAsQuoted
<1>1. BudgetInv => PaidAsQuoted
  <2>. SUFFICES ASSUME BudgetInv, NEW l \in Lots,
                       lot[l].status \in {"accepted", "settled"}
                PROVE  LET worth == UsdcToPen(lot[l].split.producer, Rate(policy))
                       IN  worth <= lot[l].split.net /\ lot[l].split.net <= worth + 3
    BY DEF PaidAsQuoted
  <2>1. /\ Typed /\ BeforeFunding /\ Budgeted /\ policy \in Policies
        /\ lot[l].split = Quote(l)
    BY DEF BudgetInv, Typed, TypeOK, LotQuoted
  <2>2. FeesValid(policy)
    BY <2>1 DEF Budgeted, BeforeFunding
  <2>3. lot[l].category \in Categories /\ lot[l].grams \in Nat
    BY <2>1, RowTerms, FieldsTyped DEF Typed
  <2>. QED  BY <2>1, <2>2, <2>3, QuoteWorth DEF Quote
<1>. QED  BY <1>1, BudgetInvariant, PTL

\* What the lots that hold a weight cost together.
HeldLots == {l \in Lots : lot[l].status \in Holding}
Grams == [l \in Lots |-> lot[l].grams]
Costs == [l \in Lots |-> SplitTotal(policy, lot[l].category, lot[l].grams)]

LEMMA CostsTyped ==
  ASSUME BudgetInv, order.status # "none", NEW l \in Lots
  PROVE  /\ policy \in Policies /\ FeesValid(policy)
         /\ Grams[l] \in Nat /\ lot[l].category \in Categories
         /\ Costs[l] \in Nat /\ Shares(Quote(l)) = Costs[l]
         /\ lot[l].status = "settled" =>
              Shares(lot[l].split) = Costs[l] /\ Costs[l] > 0
<1>1. /\ Typed /\ policy \in Policies /\ FeesValid(policy) /\ LotQuoted(l)
  BY DEF BudgetInv, Typed, TypeOK, Budgeted
<1>2. lot[l].category \in Categories /\ lot[l].grams \in Nat
  BY <1>1, RowTerms, FieldsTyped DEF Typed
<1>3. /\ SplitTotal(policy, lot[l].category, lot[l].grams) \in Nat
      /\ Shares(Quote(l)) = SplitTotal(policy, lot[l].category, lot[l].grams)
  BY <1>1, <1>2, QuoteShares DEF Quote
<1>. QED  BY <1>1, <1>2, <1>3 DEF Grams, Costs, LotQuoted

\* The budget pays for every lot that passed its audit, in whatever lots the
\* target is weighed and in whatever order they are paid.
THEOREM BudgetCovers == Spec => []BudgetCoversQuotes
<1>1. BudgetInv => BudgetCoversQuotes
  <2>. SUFFICES ASSUME BudgetInv,
                       \A l \in Lots : lot[l].status \in Holding => PricedWithin(lot[l].category)
                PROVE  Total([l \in Lots |-> IF lot[l].status \in {"ready", "accepted"}
                                            THEN Shares(Quote(l)) ELSE 0], Lots) <= escrow
    BY DEF BudgetCoversQuotes
  <2>. DEFINE owed == [l \in Lots |-> IF lot[l].status \in {"ready", "accepted"}
                                     THEN Shares(Quote(l)) ELSE 0]
              paid == [l \in Lots |-> IF lot[l].status = "settled"
                                     THEN Shares(lot[l].split) ELSE 0]
              cost == [l \in Lots |-> IF lot[l].status \in Holding THEN Costs[l] ELSE 0]
              held == [l \in Lots |-> IF lot[l].status \in Holding THEN lot[l].grams ELSE 0]
  <2>1. /\ Typed /\ BeforeFunding /\ Budgeted /\ AfterWithdrawal /\ Room /\ EscrowLeft
        /\ IsFiniteSet(Lots)
    BY BudgetAssumption DEF BudgetInv
  <2>2. order.status \in {"none", "draft", "funded", "completed"} /\ escrow \in Nat
    BY <2>1 DEF Typed, TypeOK
  <2>3. CASE order.status # "funded"
    <3>1. \A l \in Lots : lot[l].status \notin {"ready", "accepted"}
      BY <2>1, <2>2, <2>3 DEF BeforeFunding, AfterWithdrawal
    <3>2. \A l \in Lots : owed[l] = 0
      BY <3>1
    <3>3. Total(owed, Lots) = 0
      <4>. HIDE DEF owed
      <4>. QED  BY <3>2, TotalZero
    <3>. QED  BY <2>2, <3>3
  <2>4. CASE order.status = "funded"
    <3>. DEFINE t == order.target
                price == SplitTotal(policy, FundingCategory, t)
                units == UsdCentsToUnits(order.budget)
    <3>1. /\ policy \in Policies /\ FeesValid(policy) /\ t \in Nat
          /\ order.budget = BudgetCents(policy, FundingCategory, t)
      BY <2>1, <2>4, BudgetAssumption DEF Typed, TypeOK, Budgeted
    <3>2. price <= units /\ units \in Nat
      BY <3>1, BudgetBounds
    <3>3. ASSUME NEW l \in Lots
          PROVE  /\ owed[l] \in Nat /\ paid[l] \in Nat /\ cost[l] = owed[l] + paid[l]
                 /\ cost[l] \in Nat /\ held[l] \in Nat
      <4>1. /\ Costs[l] \in Nat /\ Shares(Quote(l)) = Costs[l] /\ lot[l].grams \in Nat
            /\ lot[l].status = "settled" => Shares(lot[l].split) = Costs[l]
        BY <2>4, CostsTyped DEF Grams
      <4>. QED  BY <4>1 DEF Holding
    <3>4. Total(cost, Lots) = Total(owed, Lots) + Total(paid, Lots)
      <4>. HIDE DEF cost, owed, paid
      <4>. QED  BY <2>1, <3>3, TotalPlus
    <3>5. Total(cost, Lots) <= price
      <4>1. HeldLots \in SUBSET Lots /\ IsFiniteSet(HeldLots)
        BY <2>1, FS_Subset DEF HeldLots
      <4>2. Total(cost, Lots) = Total(Costs, HeldLots)
        <5>1. \A l \in Lots \ HeldLots : cost[l] = 0
          BY DEF HeldLots
        <5>2. \A l \in HeldLots : cost[l] = Costs[l]
          BY DEF HeldLots
        <5>. HIDE DEF cost
        <5>. QED  BY <4>1, <5>1, <5>2, TotalSupport, TotalSame
      <4>3. UsedGrams = Total(Grams, HeldLots)
        <5>1. \A l \in Lots \ HeldLots : held[l] = 0
          BY DEF HeldLots
        <5>2. \A l \in HeldLots : held[l] = Grams[l]
          BY DEF HeldLots, Grams
        <5>3. UsedGrams = Total(held, Lots)
          BY DEF UsedGrams
        <5>. HIDE DEF held
        <5>. QED  BY <4>1, <5>1, <5>2, <5>3, TotalSupport, TotalSame
      <4>4. Total(Grams, HeldLots) <= t
        BY <2>1, <4>3 DEF Room
      <4>. DEFINE c == [l \in Lots |-> lot[l].category]
      <4>5. ASSUME NEW l \in HeldLots
            PROVE  /\ Grams[l] \in Nat /\ c[l] \in Categories
                   /\ policy.price[c[l]] <= policy.price[FundingCategory]
                   /\ policy.bonus[c[l]] <= policy.bonus[FundingCategory]
                   /\ Costs[l] = SplitTotal(policy, c[l], Grams[l])
        <5>1. l \in Lots /\ lot[l].status \in Holding
          BY DEF HeldLots
        <5>. QED  BY <2>4, <5>1, CostsTyped DEF PricedWithin, Costs, Grams
      <4>6. Total(Costs, HeldLots) <= price
        <5>. HIDE DEF c, t
        <5>. QED  BY <3>1, <4>1, <4>4, <4>5, LotsCostAtMost
      <4>. QED  BY <4>2, <4>6
    <3>6. PaidOut = Total(paid, Lots)
      BY DEF PaidOut
    <3>. HIDE DEF owed, paid, cost, price, units
    <3>7. /\ escrow + Total(paid, Lots) = order.funded
          /\ units <= order.funded /\ order.funded \in Nat
      BY <2>1, <2>4, <3>6 DEF EscrowLeft, units, Budget, Typed, TypeOK
    <3>8. /\ Total(owed, Lots) \in Nat /\ Total(paid, Lots) \in Nat
          /\ Total(cost, Lots) \in Nat
      BY <2>1, <3>3, TotalType
    <3>9. price \in Nat
      <4>1. FundingCategory \in Categories
        BY BudgetAssumption
      <4>. QED  BY <3>1, <4>1, QuoteShares DEF price
    <3>10. Total(owed, Lots) <= escrow
      BY <2>2, <3>2, <3>4, <3>5, <3>7, <3>8, <3>9
    <3>. QED  BY <3>10 DEF owed
  <2>. QED  BY <2>3, <2>4
<1>. QED  BY <1>1, BudgetInvariant, PTL

\* Once lots of the budget's category met the target, what is left of a budget is
\* less than a cent, a unit a lot and two centavos for each after the first.
THEOREM DustRemains == Spec => []OnlyDustRemains
<1>1. BudgetInv => OnlyDustRemains
  <2>. DEFINE settled == {l \in Lots : lot[l].status = "settled"}
              n == Cardinality(settled)
              dust == PenToUsdc(2 * (n - 1), Rate(policy))
  <2>. SUFFICES ASSUME BudgetInv, order.status = "funded", SettledGrams >= order.target,
                       \A l \in settled : lot[l].category = FundingCategory
                PROVE  escrow + Budget < order.funded + UnitsPerUsdCent + n + dust
    BY DEF OnlyDustRemains
  <2>. DEFINE t == order.target
              price == SplitTotal(policy, FundingCategory, t)
              units == UsdCentsToUnits(order.budget)
              done == [l \in Lots |-> IF lot[l].status = "settled" THEN lot[l].grams ELSE 0]
              held == [l \in Lots |-> IF lot[l].status \in Holding THEN lot[l].grams ELSE 0]
              paid == [l \in Lots |-> IF lot[l].status = "settled"
                                     THEN Shares(lot[l].split) ELSE 0]
  <2>1. /\ Typed /\ Budgeted /\ Room /\ EscrowLeft /\ IsFiniteSet(Lots)
        /\ escrow \in Nat
    BY BudgetAssumption DEF BudgetInv, Typed, TypeOK
  <2>2. /\ policy \in Policies /\ FeesValid(policy) /\ t \in Nat \ {0}
        /\ order.budget = BudgetCents(policy, FundingCategory, t)
        /\ FundingCategory \in Categories
    BY <2>1, BudgetAssumption DEF Typed, TypeOK, Budgeted
  <2>3. units \in Nat /\ (price > 0 => units < price + UnitsPerUsdCent)
    BY <2>2, BudgetBounds
  <2>4. price \in Nat /\ UnitsPerUsdCent \in Nat
    BY <2>2, QuoteShares, ScaleAssumption
  <2>5. settled \in SUBSET Lots /\ IsFiniteSet(settled)
    BY <2>1, FS_Subset
  <2>6. ASSUME NEW l \in Lots
        PROVE  /\ done[l] \in Nat /\ held[l] \in Nat /\ 1 * done[l] <= 1 * held[l] + 0
               /\ Grams[l] \in Nat /\ Costs[l] \in Nat
               /\ l \in settled =>
                    /\ done[l] = Grams[l] /\ paid[l] = Costs[l] /\ Costs[l] > 0
                    /\ Costs[l] = SplitTotal(policy, FundingCategory, Grams[l])
               /\ l \notin settled => done[l] = 0 /\ paid[l] = 0
    <3>1. /\ Costs[l] \in Nat /\ Grams[l] \in Nat /\ Grams[l] = lot[l].grams
          /\ lot[l].status = "settled" =>
               Shares(lot[l].split) = Costs[l] /\ Costs[l] > 0
          /\ Costs[l] = SplitTotal(policy, lot[l].category, Grams[l])
      BY CostsTyped DEF Grams, Costs
    <3>2. l \in settled => /\ lot[l].status = "settled"
                           /\ lot[l].category = FundingCategory
      OBVIOUS
    <3>. QED  BY <3>1, <3>2 DEF Holding
  <2>7. /\ SettledGrams = Total(done, Lots) /\ UsedGrams = Total(held, Lots)
        /\ PaidOut = Total(paid, Lots)
    BY DEF SettledGrams, UsedGrams, PaidOut
  <2>8. escrow + PaidOut = order.funded /\ order.funded \in Nat /\ Budget = units
    BY <2>1 DEF EscrowLeft, Typed, TypeOK, Budget
  <2>. HIDE DEF done, held, paid, units
  <2>9. Total(done, Lots) <= t
    <3>1. 1 * Total(done, Lots) <= 1 * Total(held, Lots) + 0 * Cardinality(Lots)
      BY <2>1, <2>6, TotalLinear
    <3>2. /\ Total(done, Lots) \in Nat /\ Total(held, Lots) \in Nat
          /\ Cardinality(Lots) \in Nat
      BY <2>1, <2>6, TotalType, FS_CardinalityType
    <3>3. Total(held, Lots) <= t
      BY <2>1, <2>7 DEF Room
    <3>. QED  BY <2>2, <3>1, <3>2, <3>3
  <2>. HIDE DEF settled
  <2>10. Total(done, Lots) = Total(Grams, settled)
    <3>1. \A l \in Lots \ settled : done[l] = 0
      BY <2>6
    <3>2. \A l \in settled : done[l] = Grams[l]
      BY <2>5, <2>6
    <3>. QED  BY <2>5, <3>1, <3>2, TotalSupport, TotalSame
  <2>11. PaidOut = Total(Costs, settled)
    <3>1. \A l \in Lots \ settled : paid[l] = 0
      BY <2>6
    <3>2. \A l \in settled : paid[l] = Costs[l]
      BY <2>5, <2>6
    <3>. QED  BY <2>5, <2>7, <3>1, <3>2, TotalSupport, TotalSame
  <2>12. /\ \A l \in settled : Grams[l] \in Nat /\ Costs[l] \in Nat /\ Costs[l] > 0
         /\ \A l \in settled : Costs[l] = SplitTotal(policy, FundingCategory, Grams[l])
    BY <2>5, <2>6
  <2>13. Total(Grams, settled) = t /\ Total(Costs, settled) \in Nat
    <3>1. Total(Grams, settled) \in Nat /\ Total(Costs, settled) \in Nat
      BY <2>5, <2>12, TotalType
    <3>. QED  BY <2>2, <2>7, <2>9, <2>10, <3>1
  <2>14. settled # {}
    <3>1. SUFFICES ASSUME settled = {} PROVE FALSE
      OBVIOUS
    <3>2. Total(Grams, settled) = 0
      BY <3>1, TotalZero
    <3>. QED  BY <2>2, <2>13, <3>2
  <2>15. price <= Total(Costs, settled) + n + dust
    <3>. HIDE DEF t, n
    <3>. QED  BY <2>2, <2>5, <2>12, <2>13, <2>14, LotsCostAtLeast DEF n
  <2>16. price > 0
    <3>1. PICK l \in settled : TRUE
      BY <2>14
    <3>2. Costs[l] <= Total(Costs, settled) /\ Costs[l] > 0 /\ Costs[l] \in Nat
      BY <2>5, <2>12, TotalTerm
    <3>3. Total(Costs, settled) <= price
      <4>. DEFINE c == [x \in settled |-> FundingCategory]
      <4>1. \A x \in settled : /\ c[x] = FundingCategory
                               /\ c[x] \in Categories
                               /\ policy.price[c[x]] <= policy.price[FundingCategory]
                               /\ policy.bonus[c[x]] <= policy.bonus[FundingCategory]
        BY <2>2, PolicyFields
      <4>2. \A x \in settled : Costs[x] = SplitTotal(policy, c[x], Grams[x])
        BY <2>12, <4>1
      <4>. HIDE DEF c, t
      <4>. QED  BY <2>2, <2>5, <2>12, <2>13, <4>1, <4>2, LotsCostAtMost DEF t
    <3>. QED  BY <2>4, <2>13, <3>2, <3>3
  <2>17. n \in Nat /\ dust \in Nat
    <3>1. n \in Nat \ {0}
      BY <2>5, <2>14, FS_CardinalityType, FS_EmptySet
    <3>2. 2 * (n - 1) \in Nat
      BY <3>1
    <3>. QED  BY <2>2, <3>1, <3>2, UsdcBounds
  <2>. HIDE DEF price, n, dust
  <2>. QED  BY <2>1, <2>3, <2>4, <2>8, <2>11, <2>13, <2>15, <2>16, <2>17
<1>. QED  BY <1>1, BudgetInvariant, PTL

=============================================================================
