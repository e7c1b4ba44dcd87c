--------------------------- MODULE SettlementApi ---------------------------
(***************************************************************************)
(* The settlement routes: a quote is accepted, executed on the contract    *)
(* with whatever the contract misses of the lot, booked, or marked as paid *)
(* by the local payout simulation; and the integrity check that compares   *)
(* the books with the contract.                                            *)
(***************************************************************************)
EXTENDS LotBooks

rest == <<inspection, dispute, run, completions, job, worker>>

\* The audit with the highest version; several of one version tie.
LatestAudit(r) ==
  /\ run[r].status # "none"
  /\ \A s \in Runs : run[s].version <= run[r].version

\* The gate looks at an audit, the quote at the lot's current inspection.
MayAccept ==
  /\ \E r \in Runs : LatestAudit(r) /\ run[r].result \in Acceptable
  /\ lot.version >= 1 /\ inspection[lot.version] # 0

ReadForAcceptance(h) ==
  /\ lot.status # "none" /\ MayAccept
  /\ Len(settlement) < MaxSettlements
  /\ Starts(h, "accept", [pc |-> "accept", version |-> lot.version,
                          price |-> inspection[lot.version]])
  /\ UNCHANGED <<lot, settlement, chain, rest, faults>>

InsertSettlement(h) ==
  /\ At(h, "accept") /\ Len(settlement) < MaxSettlements
  /\ settlement' = Append(settlement,
       [version |-> request[h].version, price |-> request[h].price,
        status |-> "accepted", tx |-> FALSE, payout |-> FALSE])
  /\ Goto(h, "accepted")
  /\ UNCHANGED <<lot, chain, rest, faults>>

MarkAccepted(h) ==
  /\ At(h, "accepted")
  /\ lot' = [lot EXCEPT !.status = "settlement_accepted",
                        !.accepted = request[h].version]
  /\ Goto(h, "execute")
  /\ UNCHANGED <<settlement, chain, rest, faults>>

\* POST /lots/:id/settlement/settle-onchain
SettleOnchain(h) ==
  /\ lot.status # "none" /\ settlement # <<>>
  /\ Starts(h, "settle", [pc |-> "execute"])
  /\ UNCHANGED <<lot, settlement, chain, rest, faults>>

-----------------------------------------------------------------------------
(* executeSettlementOnchain *)

\* The completed run of a version that sorts first: one without a completion
\* date comes before all others.
Reported(r, v) ==
  /\ run[r].status # "none" /\ run[r].version = v
  /\ \A s \in Runs \ {r} : run[s].status # "none" /\ run[s].version = v =>
       <<s, r>> \in completions
  /\ run[r].result \in Verdicts

\* It answers with the transaction it finds, or throws, without changing a row.
NothingToExecute(h) ==
  /\ At(h, "execute")
  /\ LET s == Last(settlement)
     IN  \/ s.tx
         \/ inspection[s.version] = 0
         \/ \A r \in Runs : ~Reported(r, s.version)
  /\ Done(h)
  /\ UNCHANGED <<lot, settlement, chain, rest, faults>>

\* The latest settlement is read once; what is paid and booked is this row.
LoadSettlement(h) ==
  /\ At(h, "execute")
  /\ LET i == Len(settlement)
     IN  /\ ~settlement[i].tx /\ inspection[settlement[i].version] # 0
         /\ \E r \in Runs :
              /\ Reported(r, settlement[i].version)
              /\ request' = [request EXCEPT ![h] =
                   [pc |-> "complete", row |-> i, run |-> r,
                    verdict |-> run[r].result]]
  /\ UNCHANGED <<lot, settlement, chain, rest, faults>>

\* The lot gets its id on the contract where it has none.
AssignSettledId(h) ==
  /\ At(h, "complete") /\ ~lot.onchain
  /\ lot' = [lot EXCEPT !.onchain = TRUE]
  /\ UNCHANGED <<settlement, chain, request, rest, faults>>

\* What the contract misses is sent first: the lot, the inspection, the verdict
\* of the run that was read.
CompleteOnchain(h) ==
  /\ At(h, "complete") /\ lot.onchain
  /\ LET r == request[h].run
         v == settlement[request[h].row].version
     IN  \/ /\ chain.status = "ABSENT"
            /\ Sent(TRUE, Registered(lot.producer), UNCHANGED request, Done(h))
         \/ /\ chain.status # "ABSENT" /\ chain.weight[v] = 0
            /\ Sent(TakesInspection(v) /\ inspection[v] # 0, Inspected(v),
                    UNCHANGED request, Done(h))
         \/ /\ chain.weight[v] # 0 /\ chain.attestation[v] = NoAttestation
            /\ Sent(TakesAttestation(v, request[h].verdict),
                    Attested(r, request[h].verdict),
                    UNCHANGED request, Done(h))
         \/ /\ chain.attestation[v] # NoAttestation
            /\ Goto(h, "pay") /\ UNCHANGED <<chain, faults>>
  /\ UNCHANGED <<lot, settlement, rest>>

\* Mutant: the amount is what the inspection says by now.
PayRequoted(h) ==
  /\ At(h, "pay")
  /\ LET s == settlement[request[h].row]
     IN  Sent(TakesAcceptance(lot.producer, s.version, inspection[s.version]),
              Accepted(s.version, inspection[s.version]), Goto(h, "book"), Done(h))
  /\ UNCHANGED <<lot, settlement, rest>>

\* The batch acceptSettlement and settleLot, signed by the row's producer.
Pay(h) ==
  /\ At(h, "pay")
  /\ LET s == settlement[request[h].row]
     IN  Sent(TakesAcceptance(lot.producer, s.version, s.price),
              Accepted(s.version, s.price), Goto(h, "book"), Done(h))
  /\ UNCHANGED <<lot, settlement, rest>>

\* Mutant: the latest row is booked, not the one that was paid.
BookLatest(h) ==
  /\ At(h, "book")
  /\ settlement' = [settlement EXCEPT ![Len(settlement)].status = "settled",
                                      ![Len(settlement)].tx = TRUE]
  /\ Goto(h, "bookLot")
  /\ UNCHANGED <<lot, chain, rest, faults>>

BookSettlement(h) ==
  /\ At(h, "book")
  /\ settlement' = [settlement EXCEPT ![request[h].row].status = "settled",
                                      ![request[h].row].tx = TRUE]
  /\ Goto(h, "bookLot")
  /\ UNCHANGED <<lot, chain, rest, faults>>

BookSettledLot(h) ==
  /\ At(h, "bookLot")
  /\ lot' = [lot EXCEPT !.status = "settled", !.onchain = TRUE]
  /\ Done(h)
  /\ UNCHANGED <<settlement, chain, rest, faults>>

-----------------------------------------------------------------------------
(* POST /lots/:id/local-payout/simulate *)

ReadForPayout(h) ==
  /\ lot.status # "none" /\ settlement # <<>> /\ ~Last(settlement).payout
  /\ Starts(h, "payout", [pc |-> "payout", row |-> Len(settlement)])
  /\ UNCHANGED <<lot, settlement, chain, rest, faults>>

InsertPayout(h) ==
  /\ At(h, "payout")
  /\ settlement' = [settlement EXCEPT ![request[h].row].payout = TRUE]
  /\ Goto(h, "payoutLot")
  /\ UNCHANGED <<lot, chain, rest, faults>>

PayoutLot(h) ==
  /\ At(h, "payoutLot")
  /\ lot' = [lot EXCEPT !.status = "settled"]
  /\ Goto(h, "payoutSettlement")
  /\ UNCHANGED <<settlement, chain, rest, faults>>

PayoutSettlement(h) ==
  /\ At(h, "payoutSettlement")
  /\ settlement' = [settlement EXCEPT ![request[h].row].status = "settled"]
  /\ Done(h)
  /\ UNCHANGED <<lot, chain, rest, faults>>

-----------------------------------------------------------------------------

SettlementRequest(h) == ReadForAcceptance(h) \/ SettleOnchain(h) \/ ReadForPayout(h)

SettlementStep(h) ==
  \/ InsertSettlement(h) \/ MarkAccepted(h)
  \/ NothingToExecute(h) \/ LoadSettlement(h)
  \/ AssignSettledId(h) \/ CompleteOnchain(h) \/ Pay(h)
  \/ BookSettlement(h) \/ BookSettledLot(h)
  \/ InsertPayout(h) \/ PayoutLot(h) \/ PayoutSettlement(h)

\* What the lot's status on the contract should be, by the books.
ExpectedStatus ==
  CASE lot.status = "settled" \/ Last(settlement).status = "settled" -> "SETTLED"
    [] OTHER -> "PRODUCER_ACCEPTED"

\* verifyLotIntegrity
Integrity ==
  IF settlement = <<>> THEN "not_settled_yet"
  ELSE LET s == Last(settlement) IN
    IF s.status = "settled" /\ ~s.tx THEN "demo_local_payout"
    ELSE IF /\ lot.onchain /\ chain.producer = lot.producer
            /\ chain.status = ExpectedStatus
            /\ chain.quote = [version |-> s.version, price |-> s.price]
         THEN "matched" ELSE "mismatch"
=============================================================================
