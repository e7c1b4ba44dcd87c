------------------------------- MODULE LotApi -------------------------------
(***************************************************************************)
(* The lots, disputes and audits routes: a lot is created and registered   *)
(* on the contract, confirmed or declined by its producer, inspected,      *)
(* reweighed, sent to audit, and its disputes resolved.  A route that      *)
(* writes its rows first and then fails on the chain undoes its writes.    *)
(***************************************************************************)
EXTENDS LotBooks

others == <<completions, settlement, worker>>

\* What was read is the lot's row; without one the route answers 404.
LotStarts(h, kind, req) == lot.status # "none" /\ Starts(h, kind, req)

\* The row a request read is gone: its next query fails or changes nothing.
RowGone(h) ==
  /\ request[h] # Idle /\ lot.status = "none"
  /\ Done(h)
  /\ UNCHANGED <<rows, chain, job, worker, faults>>

-----------------------------------------------------------------------------
(* POST /lots *)

\* A new row has an id of its own: requests that read a row which was deleted
\* find it gone.  The body may name the id on the contract.
CreateLot(h) ==
  /\ lot.status = "none" /\ chain.status = "ABSENT"
  /\ \A g \in Handlers : request[g] = Idle
  /\ \E p \in Producers, named \in BOOLEAN :
       lot' = [NoLot EXCEPT !.status = "awaiting_producer_confirmation",
                            !.producer = p, !.onchain = named]
  /\ Starts(h, "create", [pc |-> "assign"])
  /\ UNCHANGED <<inspection, dispute, run, chain, job, others, faults>>

\* assignOnchainLotId, the first write of ensureLotRegisteredOnchain.
AssignId(h) ==
  /\ At(h, "assign") /\ lot.status # "none"
  /\ lot' = [lot EXCEPT !.onchain = TRUE]
  /\ Goto(h, "register")
  /\ UNCHANGED <<inspection, dispute, run, chain, job, others, faults>>

\* An inspection may have registered the lot, before the contract is asked
\* whether it has it or after.
RegisterLot(h) ==
  /\ At(h, "register")
  /\ \/ chain.status # "ABSENT" /\ Done(h) /\ UNCHANGED <<chain, faults>>
     \/ Sent(chain.status = "ABSENT", Registered(lot.producer),
             Done(h), Goto(h, "unregister"))
  /\ UNCHANGED <<rows, job, worker>>

\* The row is deleted, unless other rows refer to it by now.
UnregisterLot(h) ==
  /\ At(h, "unregister")
  /\ lot' = IF Referenced THEN lot ELSE NoLot
  /\ Done(h)
  /\ UNCHANGED <<inspection, dispute, run, chain, job, others, faults>>

-----------------------------------------------------------------------------
(* The producer's answer *)

ReadAwaiting(h, kind) ==
  /\ lot.status = "awaiting_producer_confirmation"
  /\ LotStarts(h, kind, [pc |-> kind])
  /\ UNCHANGED <<rows, chain, job, worker, faults>>

Confirm(h) ==
  /\ At(h, "confirm") /\ lot.status # "none"
  /\ lot' = [lot EXCEPT !.status = "registered"]
  /\ Done(h)
  /\ UNCHANGED <<inspection, dispute, run, chain, job, others, faults>>

OpenDispute(h) ==
  /\ At(h, "decline") /\ lot.status # "none"
  /\ \E d \in Disputes :
       dispute[d] = "none" /\ dispute' = [dispute EXCEPT ![d] = "open"]
  /\ Goto(h, "declined")
  /\ UNCHANGED <<lot, inspection, run, chain, job, others, faults>>

Decline(h) ==
  /\ At(h, "declined")
  /\ lot' = [lot EXCEPT !.status = "producer_declined"]
  /\ Done(h)
  /\ UNCHANGED <<inspection, dispute, run, chain, job, others, faults>>

-----------------------------------------------------------------------------
(* POST /lot-disputes/:id/resolve *)

\* A lot with an inspection may not be deleted; its status is not looked at.
ReadDispute(h) ==
  /\ \E d \in Disputes, act \in {"reassign", "resubmit", "delete", "acknowledge"} :
       /\ dispute[d] = "open"
       /\ act = "delete" => lot.version = 0
       /\ LotStarts(h, "resolve", [pc |-> act, dispute |-> d])
  /\ UNCHANGED <<rows, chain, job, worker, faults>>

ResolveLot(h) ==
  /\ lot.status # "none"
  /\ \/ /\ At(h, "reassign")
        /\ \E p \in Producers :
             lot' = [lot EXCEPT !.status = "awaiting_producer_confirmation",
                                !.producer = p]
     \/ /\ At(h, "resubmit")
        /\ lot' = [lot EXCEPT !.status = "awaiting_producer_confirmation"]
     \/ At(h, "delete") /\ lot' = [lot EXCEPT !.status = "cancelled"]
     \/ At(h, "acknowledge") /\ UNCHANGED lot
  /\ Goto(h, "close")
  /\ UNCHANGED <<inspection, dispute, run, chain, job, others, faults>>

CloseDispute(h) ==
  /\ At(h, "close")
  /\ dispute' = [dispute EXCEPT ![request[h].dispute] = "closed"]
  /\ Done(h)
  /\ UNCHANGED <<lot, inspection, run, chain, job, others, faults>>

-----------------------------------------------------------------------------
(* POST /lots/:id/inspections *)

Unconfirmed == {"awaiting_producer_confirmation", "producer_declined", "cancelled"}

\* The next version and what to restore come from the row read here.
ReadForInspection(h) ==
  /\ lot.status \notin Unconfirmed /\ lot.version < MaxVersion
  /\ \E w \in Weights :
       LotStarts(h, "inspect", [pc |-> "insert", weight |-> w,
                                version |-> lot.version + 1, status |-> lot.status])
  /\ UNCHANGED <<rows, chain, job, worker, faults>>

\* The unique (lot, version) turns the second of two inserts into a 409.
InsertInspection(h) ==
  /\ At(h, "insert") /\ lot.status # "none"
  /\ LET v == request[h].version
     IN  \/ /\ inspection[v] = 0
            /\ inspection' = [inspection EXCEPT ![v] = request[h].weight]
            /\ Goto(h, "advance")
         \/ inspection[v] # 0 /\ Done(h) /\ UNCHANGED inspection
  /\ UNCHANGED <<lot, dispute, run, chain, job, others, faults>>

AdvanceLot(h) ==
  /\ At(h, "advance")
  /\ lot' = [lot EXCEPT !.version = request[h].version,
                        !.status = "inspection_submitted"]
  /\ Goto(h, "check")
  /\ UNCHANGED <<inspection, dispute, run, chain, job, others, faults>>

\* ensureInspectionReferenceOnchain: the lot gets its id and is registered first
\* where it is not, and a version the contract has is left as it is, whatever its
\* weight.
AssignInspectedId(h) ==
  /\ At(h, "check") /\ ~lot.onchain
  /\ lot' = [lot EXCEPT !.onchain = TRUE]
  /\ UNCHANGED <<inspection, dispute, run, chain, request, job, others, faults>>

CheckInspection(h) ==
  /\ At(h, "check") /\ lot.onchain
  /\ \/ /\ chain.status = "ABSENT"
        /\ Sent(TRUE, Registered(lot.producer), UNCHANGED request, Goto(h, "undo"))
     \/ /\ chain.status # "ABSENT" /\ UNCHANGED <<chain, faults>>
        /\ IF chain.weight[request[h].version] # 0 THEN Done(h) ELSE Goto(h, "submit")
  /\ UNCHANGED <<rows, job, worker>>

SubmitInspection(h) ==
  /\ At(h, "submit")
  /\ LET v == request[h].version
     IN  Sent(TakesInspection(v), Inspected(v), Done(h), Goto(h, "undo"))
  /\ UNCHANGED <<rows, job, worker>>

DeleteInspection(h) ==
  /\ At(h, "undo")
  /\ inspection' = [inspection EXCEPT ![request[h].version] = 0]
  /\ Goto(h, "restore")
  /\ UNCHANGED <<lot, dispute, run, chain, job, others, faults>>

\* Mutant: the row is deleted and the lot keeps its version.
RestoreStatusOnly(h) ==
  /\ At(h, "restore") /\ lot.status # "none"
  /\ lot' = [lot EXCEPT !.status = request[h].status]
  /\ Done(h)
  /\ UNCHANGED <<inspection, dispute, run, chain, job, others, faults>>

RestoreLot(h) ==
  /\ At(h, "restore") /\ lot.status # "none"
  /\ lot' = [lot EXCEPT !.version = request[h].version - 1,
                        !.status = request[h].status]
  /\ Done(h)
  /\ UNCHANGED <<inspection, dispute, run, chain, job, others, faults>>

-----------------------------------------------------------------------------
(* POST /lots/:id/reweigh-request; its own row is read by nobody else *)

\* A lot without an id on the contract does not have to wait for its verdict.
ReadForReweigh(h) ==
  /\ lot.status \in IF lot.onchain THEN {"ready_for_review", "review_required"}
                     ELSE LotStatus \ {"none", "reweighing_requested",
                                       "settlement_accepted", "settled"}
  /\ lot.version >= 1
  /\ LotStarts(h, "reweigh", [pc |-> "reweigh", status |-> lot.status,
                              linked |-> lot.onchain])
  /\ UNCHANGED <<rows, chain, job, worker, faults>>

MarkReweighing(h) ==
  /\ At(h, "reweigh") /\ lot.status # "none"
  /\ lot' = [lot EXCEPT !.status = "reweighing_requested"]
  /\ IF request[h].linked THEN Goto(h, "requestReweighing") ELSE Done(h)
  /\ UNCHANGED <<inspection, dispute, run, chain, job, others, faults>>

\* ensureReweighOnchain, signed by the account of the row's producer.
RequestReweighing(h) ==
  /\ At(h, "requestReweighing")
  /\ Sent(TakesReweighing(lot.producer), Reweighed, Done(h), Goto(h, "undoReweigh"))
  /\ UNCHANGED <<rows, job, worker>>

UndoReweigh(h) ==
  /\ At(h, "undoReweigh")
  /\ lot' = [lot EXCEPT !.status = request[h].status]
  /\ Done(h)
  /\ UNCHANGED <<inspection, dispute, run, chain, job, others, faults>>

-----------------------------------------------------------------------------
(* POST /lots/:id/audits *)

\* The version is the lot's, or whatever the body names; the status is not looked
\* at.
RequestAudit(h) ==
  /\ lot.version >= 1
  /\ \E r \in Runs, v \in Versions :
       /\ run[r].status = "none"
       /\ run' = [run EXCEPT ![r] = [NoRun EXCEPT !.status = "queued", !.version = v]]
       /\ LotStarts(h, "audit", [pc |-> "audit", run |-> r])
  /\ UNCHANGED <<lot, inspection, dispute, chain, job, others, faults>>

MarkAuditing(h) ==
  /\ At(h, "audit")
  /\ lot' = [lot EXCEPT !.status = "auditing"]
  /\ Goto(h, "enqueue")
  /\ UNCHANGED <<inspection, dispute, run, chain, job, others, faults>>

Enqueue(h) ==
  /\ At(h, "enqueue")
  /\ job' = [job EXCEPT ![request[h].run].state = "waiting"]
  /\ Done(h)
  /\ UNCHANGED <<rows, chain, worker, faults>>

-----------------------------------------------------------------------------

LotRequest(h) ==
  \/ CreateLot(h) \/ ReadAwaiting(h, "confirm") \/ ReadAwaiting(h, "decline")
  \/ ReadDispute(h) \/ ReadForInspection(h) \/ ReadForReweigh(h) \/ RequestAudit(h)

LotStep(h) ==
  \/ AssignId(h) \/ RegisterLot(h) \/ UnregisterLot(h)
  \/ Confirm(h) \/ OpenDispute(h) \/ Decline(h)
  \/ ResolveLot(h) \/ CloseDispute(h)
  \/ InsertInspection(h) \/ AdvanceLot(h)
  \/ AssignInspectedId(h) \/ CheckInspection(h) \/ SubmitInspection(h)
  \/ DeleteInspection(h) \/ RestoreLot(h)
  \/ MarkReweighing(h) \/ RequestReweighing(h) \/ UndoReweigh(h)
  \/ MarkAuditing(h) \/ Enqueue(h)
  \/ RowGone(h)
=============================================================================
