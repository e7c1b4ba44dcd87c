---------------------------- MODULE LotLifecycle ----------------------------
(***************************************************************************)
(* A lot from its creation to its payment: the API's routes, the audit     *)
(* worker and the contract together, with the faults that come between.    *)
(***************************************************************************)
EXTENDS LotApi, AuditPipeline, SettlementApi

\* The API process stops: the requests it works on are left where they are.
ServerStops ==
  /\ Fault("api") /\ \E h \in Handlers : request[h] # Idle
  /\ request' = [h \in Handlers |-> Idle]
  /\ UNCHANGED <<rows, chain, job, worker>>

RequestStep(h) == LotStep(h) \/ SettlementStep(h)

Next ==
  \/ SettleInBatch
  \/ /\ ~InBatch
     /\ \/ \E h \in Handlers :
             LotRequest(h) \/ SettlementRequest(h) \/ RequestStep(h)
        \/ WorkerStep \/ QueryFails
        \/ ServerStops
        \/ WorkerStops

Spec == Init /\ [][Next]_vars

\* Node goes on with the requests it has, and BullMQ's worker with its jobs.
\* Nobody has to send a request.
Fairness ==
  /\ WF_vars(SettleInBatch)
  /\ \A h \in Handlers : WF_vars(~InBatch /\ RequestStep(h))
  /\ WF_vars(~InBatch /\ WorkerStep)

FairSpec == Spec /\ Fairness

-----------------------------------------------------------------------------
(* Properties *)

\* Rows have their declared types, and the completions an order; the contract's
\* lot has the statuses that its calls give it.
TypeOK ==
  /\ lot \in [status : LotStatus, producer : Producers \cup {"none"},
              version : 0 .. MaxVersion, accepted : 0 .. MaxVersion,
              onchain : BOOLEAN]
  /\ inspection \in [Versions -> Weights \cup {0}]
  /\ dispute \in [Disputes -> {"none", "open", "closed"}]
  /\ run \in [Runs ->
       [status : {"none", "queued", "running", "completed", "attested", "failed"},
        version : 0 .. MaxVersion, result : Verdicts \cup {"none", "failed"},
        tx : BOOLEAN]]
  /\ completions \subseteq Runs \X Runs
  /\ \A c \in completions : <<c[2], c[1]>> \in completions => c[1] = c[2]
  /\ Len(settlement) <= MaxSettlements
  /\ chain.version \in 0 .. MaxVersion /\ chain.weight \in [Versions -> Weights \cup {0}]
  /\ job \in [Runs -> [state : {"none", "waiting", "active", "done", "failed"},
                       failures : 0 .. MaxAttempts, stalled : BOOLEAN]]
  /\ faults \in 0 .. MaxFaults

Paid == chain.status = "SETTLED"

\* What the books show as paid on the chain is what the contract paid: at most
\* one settlement has a transaction, and the contract paid its version and its
\* amount, however often acceptances, retries and lost receipts repeat.
BookedIsPaid ==
  \A i \in DOMAIN settlement : settlement[i].tx =>
    /\ Paid
    /\ chain.quote = [version |-> settlement[i].version,
                      price |-> settlement[i].price]
    /\ \A j \in DOMAIN settlement : settlement[j].tx => i = j

\* A lot shown as settled was paid by the contract or by the local payout.
SettledLotIsPaid ==
  lot.status = "settled" =>
    Paid \/ \E i \in DOMAIN settlement : settlement[i].payout

\* Money leaves the contract only for a settlement that was accepted in the
\* app, at its price, and for a version some audit passed.
PaymentWasAccepted ==
  Paid =>
    /\ \E i \in DOMAIN settlement :
         chain.quote = [version |-> settlement[i].version,
                        price |-> settlement[i].price]
    /\ chain.attestation[chain.quote.version].result \in Acceptable

\* A verdict on the chain is of a run of that version, and a lot is paid only for
\* a version of which a run saved its report, though a query may fail between the
\* report and its row and the verdict be registered all the same.
VerdictWasReported ==
  /\ \A v \in Versions : chain.attestation[v] # NoAttestation =>
       run[chain.attestation[v].run].version = v
  /\ Paid => \E r \in Runs :
       run[r].version = chain.quote.version /\ run[r].result \in Verdicts

\* A job BullMQ takes for done has put its verdict on the contract, whichever of
\* its attempts' calls, answers and queries failed, unless the lot had no id there
\* when the attempt began.
CompletedJobIsAttested ==
  [][\A r \in Runs : job[r].state # "done" /\ job'[r].state = "done" =>
       chain.attestation[run[r].version].run = r \/ ~worker.linked]_vars

\* Between requests the books have the inspections the contract has, with the
\* same weights, and the lot's version is the contract's.
InspectionsAgree ==
  (\A h \in Handlers : request[h] = Idle) =>
    lot.version = chain.version /\ inspection = chain.weight

\* The latest settlement, booked with its transaction, stands up to the integrity
\* check: only a dispute that gave the lot to another producer meanwhile makes the
\* check raise its alarm.
SettledMatches ==
  settlement # <<>> /\ Last(settlement).tx =>
    Integrity = "matched" \/ lot.producer # chain.producer

\* Every audit that was requested ends: attested, or failed and shown so.
AuditResolved ==
  \A r \in Runs :
    run[r].status = "queued" ~>
      run[r].status = "failed" \/ (run[r].tx /\ job[r].state = "done")

\* "Puede aceptar solo una versión auditada válida": a settlement that is
\* accepted is of a version some audit passed.
AcceptedVersionWasAudited ==
  \A i \in DOMAIN settlement : \E r \in Runs :
    run[r].version = settlement[i].version /\ run[r].result \in Acceptable

-----------------------------------------------------------------------------
(* The contract's own specification *)

Shares(price) == [producer |-> price, association |-> 0, platform |-> 0]
Spent == IF Paid THEN chain.quote.price ELSE 0

Result == [r \in Verdicts |->
  CASE r = "pass" -> "PASS" [] r = "warning" -> "WARNING"
    [] r = "review_required" -> "REVIEW_REQUIRED" [] r = "unreadable" -> "UNREADABLE"]

\* The weight the lot holds of the order's capacity.
Held ==
  IF chain.status \in {"READY_FOR_REVIEW", "PRODUCER_ACCEPTED"}
  THEN chain.weight[chain.version] ELSE 0

\* The order as the contract has it, one unit for each gram of its target.
CoreOrder ==
  [status |-> IF Spent = 0 THEN "ACCEPTING_LOTS"
              ELSE IF Spent = Capacity THEN "COMPLETED" ELSE "PARTIALLY_SETTLED",
   buyer |-> "buyer", association |-> "association",
   funded |-> Capacity, remaining |-> Capacity - Spent, target |-> Capacity,
   reserved |-> Held,
   fulfilled |-> IF Paid THEN chain.weight[chain.version] ELSE 0]

CoreLot ==
  IF chain.status = "ABSENT"
  THEN [status |-> "ABSENT", order |-> "order", producer |-> "zero", version |-> 0,
        acceptedVersion |-> 0, split |-> Shares(0), reserved |-> 0]
  ELSE [status |-> chain.status, order |-> "order", producer |-> chain.producer,
        version |-> chain.version, acceptedVersion |-> chain.quote.version,
        split |-> Shares(chain.quote.price), reserved |-> Held]

CoreAttestations ==
  [v \in Versions |-> IF chain.attestation[v] = NoAttestation THEN "NONE"
                      ELSE Result[chain.attestation[v].result]]

CoreUsdc ==
  [a \in Producers \cup (Staff \ {"zero"}) |->
     IF a = "core" THEN Capacity - Spent
     ELSE IF a = chain.producer THEN Spent ELSE 0]

Core == INSTANCE AlpactoCore WITH
  Orders <- {"order"}, Lots <- {"lot"},
  Accounts <- Producers \cup (Staff \ {"core", "zero"}),
  Admin <- "association", Core <- "core", ZeroAddress <- "zero",
  DeploymentGrants <- {}, Grantable <- {}, DeploymentTreasury <- "zero",
  Treasuries <- {}, Associations <- {}, Producers <- Producers,
  InitialUsdc <- [a \in Producers \cup (Staff \ {"zero"}) |-> 0],
  TransferAmounts <- {}, PaymentRefs <- {}, Amounts <- {}, Targets <- {},
  Weights <- Weights, Splits <- {Shares(price) : price \in Weights \cap 1 .. Capacity},
  MaxVersion <- MaxVersion, UintMod <- 2 * Capacity + 1,
  order <- [o \in {"order"} |-> CoreOrder],
  lot <- [l \in {"lot"} |-> CoreLot],
  inspections <- [l \in {"lot"} |-> chain.weight],
  attestations <- [l \in {"lot"} |-> CoreAttestations],
  usedPaymentRefs <- {},
  roles <- {<<"ASSOCIATION_ROLE", "association">>, <<"INSPECTOR_ROLE", "inspector">>,
            <<"AUDITOR_AGENT_ROLE", "ayni">>},
  platformTreasury <- "zero",
  usdc <- CoreUsdc

\* Whatever the routes and the worker do, the contract's lot changes only as a
\* call AlpactoCore allows changes it.
CallsTheContract == [][Core!Next]_(Core!vars)
=============================================================================
