------------------------------ MODULE LotBooks ------------------------------
(***************************************************************************)
(* One lot, in Postgres and on the contract.  This module has what the API *)
(* routes, the audit worker and the settlement code share: the rows, the   *)
(* contract's lot with the calls they send to it, the requests the server  *)
(* works on, and what becomes of a call that is sent.                      *)
(*                                                                         *)
(* A request is a record: where it is and what it read.  Queries that      *)
(* follow one another without a write between them are one step, every     *)
(* write and every call to the contract is a step of its own, and other    *)
(* requests and the worker run in between.  The order is funded on the     *)
(* chain, prices are one USDC unit per gram without fees, and an operation *)
(* is mined when it is sent or never.                                      *)
(***************************************************************************)
EXTENDS Naturals, Sequences, FiniteSets, SequencesExt

CONSTANTS
  Handlers,       \* requests the server works on at the same time
  Requests,       \* the kinds of request clients send
  Producers,      \* producers, each with its smart account
  Weights,        \* weights an inspector may declare, in grams
  MaxVersion,     \* bound on the inspections of the lot
  Capacity,       \* grams the order can still take
  Runs,           \* audit runs that may be requested
  Results,        \* verdicts a comparison may come to
  Disputes,       \* disputes that may be opened
  MaxSettlements, \* bound on the rows of settlements
  MaxAttempts,    \* attempts of an audit job (3 in the code)
  MaxRounds,      \* rounds of the tool loop (12 in the code)
  FaultKinds,     \* which faults there are: "receipt", "network", "api",
                  \* "worker", "query"
  MaxFaults       \* bound on faults

Versions == 1 .. MaxVersion

\* The other accounts the contract knows, and its own address.
Staff == {"association", "inspector", "ayni", "buyer", "core", "zero"}

ASSUME LotAssumption ==
  /\ IsFiniteSet(Handlers) /\ IsFiniteSet(Runs) /\ IsFiniteSet(Disputes)
  /\ Producers # {} /\ Producers \cap ({"none"} \cup Staff) = {}
  /\ Weights \subseteq Nat \ {0}
  /\ Results \subseteq {"pass", "warning", "review_required", "unreadable"} /\ Results # {}
  /\ {MaxVersion, MaxAttempts, MaxRounds, Capacity} \subseteq Nat \ {0}
  /\ {MaxSettlements, MaxFaults} \subseteq Nat

VARIABLES
  lot,         \* the row of lots; onchain: it has its id on the contract
  inspection,  \* rows of inspections: version -> declared grams, 0 if none
  dispute,     \* rows of lot_disputes: "none", "open", "closed"
  run,         \* rows of audit_runs
  completions, \* <<s, r>>: runs with a completed_at, that of s not after that of r
  settlement,  \* rows of settlements, the latest last
  chain,       \* the contract's lot, its inspections and attestations
  request,     \* the requests the server works on
  job,         \* BullMQ's job of each run
  worker,      \* the audit worker
  faults       \* faults so far

rows == <<lot, inspection, dispute, run, completions, settlement>>
vars == <<rows, chain, request, job, worker, faults>>

\* A lot's statuses that some route or the worker writes.
LotStatus ==
  {"none", "awaiting_producer_confirmation", "producer_declined", "cancelled",
   "registered", "inspection_submitted", "auditing", "ready_for_review",
   "review_required", "audit_failed", "reweighing_requested",
   "settlement_accepted", "settled"}

Idle  == [pc |-> "idle"]
NoLot == [status |-> "none", producer |-> "none", version |-> 0, accepted |-> 0,
          onchain |-> FALSE]
NoRun == [status |-> "none", version |-> 0, result |-> "none", tx |-> FALSE]
NoAttestation == [run |-> "none", result |-> "none"]
NoQuote == [version |-> 0, price |-> 0]

Init ==
  /\ lot = NoLot
  /\ inspection = [v \in Versions |-> 0]
  /\ dispute = [d \in Disputes |-> "none"]
  /\ run = [r \in Runs |-> NoRun]
  /\ completions = {}
  /\ settlement = <<>>
  /\ chain = [status |-> "ABSENT", producer |-> "none", version |-> 0,
              weight |-> [v \in Versions |-> 0],
              attestation |-> [v \in Versions |-> NoAttestation],
              quote |-> NoQuote]
  /\ request = [h \in Handlers |-> Idle]
  /\ job = [r \in Runs |-> [state |-> "none", failures |-> 0, stalled |-> FALSE]]
  /\ worker = Idle
  /\ faults = 0

-----------------------------------------------------------------------------
(* The contract: which calls it takes and what they make of the lot *)

\* Verdicts of a comparison, and those the contract and the API pay for.
Acceptable == {"pass", "warning"}
Verdicts   == Acceptable \cup {"review_required", "unreadable"}

Registered(producer) ==
  [chain EXCEPT !.status = "REGISTERED", !.producer = producer]

\* The contract does not overwrite: a version is the next one or refused.
TakesInspection(v) ==
  /\ chain.status \in {"REGISTERED", "REWEIGHING_REQUESTED", "REVIEW_REQUIRED"}
  /\ v = chain.version + 1

Inspected(v) ==
  [chain EXCEPT !.status = "AUDITING", !.version = v, !.weight[v] = inspection[v]]

\* Mutant: the order's room is not looked at.
TakesAttestationOverfull(v, result) ==
  chain.status = "AUDITING" /\ v = chain.version /\ chain.attestation[v] = NoAttestation

\* An acceptable verdict needs room for the weight in the order.
TakesAttestation(v, result) ==
  /\ chain.status = "AUDITING"
  /\ v = chain.version
  /\ chain.attestation[v] = NoAttestation
  /\ result \in Acceptable => chain.weight[v] <= Capacity

Attested(r, result) ==
  [chain EXCEPT
     !.attestation[run[r].version] = [run |-> r, result |-> result],
     !.status = IF result \in Acceptable THEN "READY_FOR_REVIEW"
                                         ELSE "REVIEW_REQUIRED"]

TakesReweighing(sender) ==
  /\ chain.status \in {"READY_FOR_REVIEW", "REVIEW_REQUIRED"}
  /\ sender = chain.producer

Reweighed == [chain EXCEPT !.status = "REWEIGHING_REQUESTED"]

\* The order holds one unit for each gram it can take.
TakesAcceptance(sender, v, price) ==
  /\ chain.status = "READY_FOR_REVIEW"
  /\ sender = chain.producer
  /\ v = chain.version
  /\ price <= Capacity

Accepted(v, price) ==
  [chain EXCEPT !.status = "PRODUCER_ACCEPTED",
                !.quote = [version |-> v, price |-> price]]

\* acceptSettlement and settleLot are one operation: between the two calls of
\* a batch nothing else happens.
InBatch == chain.status = "PRODUCER_ACCEPTED"

SettleInBatch ==
  /\ InBatch
  /\ chain' = [chain EXCEPT !.status = "SETTLED"]
  /\ UNCHANGED <<rows, request, job, worker, faults>>

-----------------------------------------------------------------------------
(* Requests, and operations they send *)

Fault(kind) ==
  /\ kind \in FaultKinds
  /\ faults < MaxFaults /\ faults' = faults + 1

At(h, pc)   == request[h].pc = pc
Goto(h, pc) == request' = [request EXCEPT ![h].pc = pc]
Done(h)     == request' = [request EXCEPT ![h] = Idle]
Starts(h, kind, req) ==
  /\ kind \in Requests
  /\ request[h] = Idle
  /\ request' = [request EXCEPT ![h] = req]

\* Mutant: a receipt that says success: false is taken for a success.
SentUnchecked(taken, after, Succeeds, Fails) ==
  \/ chain' = (IF taken THEN after ELSE chain) /\ Succeeds /\ UNCHANGED faults
  \/ taken /\ chain' = after /\ Fault("receipt") /\ Fails
  \/ UNCHANGED chain /\ Fault("network") /\ Fails

\* A sponsored operation and its self-funded fallback.  It is mined and its
\* receipt awaited; or it reverts, and the receipt says so; or it is mined and
\* the receipt lost, so that the fallback reverts; or neither gets through.
Sent(taken, after, Succeeds, Fails) ==
  \/ taken /\ chain' = after /\ Succeeds /\ UNCHANGED faults
  \/ ~taken /\ UNCHANGED chain /\ Fails /\ UNCHANGED faults
  \/ taken /\ chain' = after /\ Fault("receipt") /\ Fails
  \/ UNCHANGED chain /\ Fault("network") /\ Fails

\* Rows that refer to the lot keep it from being deleted.
Referenced ==
  \/ \E v \in Versions : inspection[v] # 0
  \/ \E d \in Disputes : dispute[d] # "none"
  \/ \E r \in Runs : run[r].status # "none"
  \/ settlement # <<>>
=============================================================================
