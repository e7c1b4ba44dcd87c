--------------------------- MODULE MCAlpactoCore ---------------------------
(***************************************************************************)
(* Values of the contract's constants for model checking.                  *)
(***************************************************************************)
EXTENDS AlpactoCore, TLC

CONSTANTS operator, buyer, producer, coop

\* One account plays all the platform's roles: a separate account for each
\* adds senders whose calls have the same effects.
MCGrants ==
  {<<role, operator>> : role \in {"PLATFORM_ADMIN_ROLE", "ASSOCIATION_ROLE",
                                  "INSPECTOR_ROLE", "AUDITOR_AGENT_ROLE"}}
    \cup {<<"BUYER_ROLE", buyer>>}

\* Governance changes who audits and who administers; the treasury is unset.
GovernanceGrants ==
  {<<"INSPECTOR_ROLE", operator>>, <<"ASSOCIATION_ROLE", operator>>,
   <<"BUYER_ROLE", buyer>>, <<"BUYER_ROLE", coop>>}

GovernanceGrantable ==
  {<<"AUDITOR_AGENT_ROLE", operator>>, <<"PLATFORM_ADMIN_ROLE", operator>>,
   <<"DEFAULT_ADMIN_ROLE", operator>>}

MCUsdc == [a \in Holders |-> CASE a = buyer -> 4 [] a = operator -> 1 [] OTHER -> 0]

\* The supply of the governance model: three units, under the modulus 7.
GovernanceUsdc ==
  [a \in Holders |-> CASE a = buyer -> 2 [] a = operator -> 1 [] OTHER -> 0]

Split(p, a, t) == [producer |-> p, association |-> a, platform |-> t]

\* A zero split, splits of one, two and three recipients, and one whose
\* total, 12 units, wraps around the modulus 11 to 1.
MCSplits == {Split(0, 0, 0), Split(1, 0, 0), Split(1, 0, 1), Split(1, 1, 1),
             Split(5, 5, 2)}

\* The last split's total, 8 units, wraps around the modulus 7 to 1.
GovernanceSplits == {Split(1, 0, 0), Split(1, 0, 1), Split(3, 3, 2)}

\* Lots are interchangeable, and so are payment references.
Interchangeable == Permutations(Lots) \cup Permutations(PaymentRefs)

\* Only payment references: an unregistered lot's order is chosen among the
\* orders, so permuting orders would not be a symmetry.
GovernanceInterchangeable == Permutations(PaymentRefs)
=============================================================================
