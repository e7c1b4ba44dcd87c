------------------------- MODULE LotLifecycleProofs -------------------------
(***************************************************************************)
(* Proofs about a lot's life, for any number of requests at a time, audit  *)
(* runs, attempts, inspections, settlements and faults.                    *)
(***************************************************************************)
EXTENDS LotLifecycle, SequenceTheorems, TLAPS

-----------------------------------------------------------------------------
(* Types of what TypeOK leaves open *)

\* A request knows what it has read, according to the route it came by.
Plain      == [pc : {"idle", "assign", "register", "unregister", "confirm", "decline",
                     "declined", "execute"}]
Resolving  == [pc : {"reassign", "resubmit", "delete", "acknowledge", "close"},
               dispute : Disputes]
Inspecting == [pc : {"insert", "advance", "check", "submit", "undo", "restore"},
               weight : Weights, version : Versions, status : LotStatus \ {"none"}]
Reweighing == [pc : {"reweigh", "requestReweighing", "undoReweigh"},
               status : LotStatus \ {"none", "settlement_accepted", "settled"},
               linked : BOOLEAN]
Auditing   == [pc : {"audit", "enqueue"}, run : Runs]
Accepting  == [pc : {"accept", "accepted", "execute"}, version : Versions,
               price : Weights]
Executing  == [pc : {"complete", "pay", "book", "bookLot"}, row : 1 .. MaxSettlements,
               run : Runs, verdict : Verdicts]
PayingOut  == [pc : {"payout", "payoutLot", "payoutSettlement"}, row : 1 .. MaxSettlements]

RequestType == Plain \cup Resolving \cup Inspecting \cup Reweighing \cup Auditing
                 \cup Accepting \cup Executing \cup PayingOut

RunType == [status : {"none", "queued", "running", "completed", "attested", "failed"},
            version : 0 .. MaxVersion, result : Verdicts \cup {"none", "failed"},
            tx : BOOLEAN]

JobType == [state : {"none", "waiting", "active", "done", "failed"},
            failures : 0 .. MaxAttempts, stalled : BOOLEAN]

WorkerType ==
  [pc : {"throw", "finish", "tools", "bookLot", "attest", "bookAttestation",
         "complete", "failLot"},
   back : {"throw", "finish", "tools", "complete"}, run : Runs, rounds : 0 .. MaxRounds,
   tx : BOOLEAN, linked : BOOLEAN, report : BOOLEAN, verdict : Verdicts \cup {"none"}]

\* A transaction is booked together with the status.
SettlementType ==
  {s \in [version : Versions, price : Weights, status : {"accepted", "settled"},
          tx : BOOLEAN, payout : BOOLEAN] : s.tx => s.status = "settled"}

ChainType ==
  [status : {"ABSENT", "REGISTERED", "AUDITING", "READY_FOR_REVIEW",
             "REVIEW_REQUIRED", "REWEIGHING_REQUESTED", "PRODUCER_ACCEPTED",
             "SETTLED"},
   producer : Producers \cup {"none"}, version : 0 .. MaxVersion,
   weight : [Versions -> Weights \cup {0}],
   attestation : [Versions -> [run : Runs, result : Verdicts] \cup {NoAttestation}],
   quote : [version : 0 .. MaxVersion, price : Weights \cup {0}]]

LotType == [status : LotStatus, producer : Producers \cup {"none"},
            version : 0 .. MaxVersion, accepted : 0 .. MaxVersion, onchain : BOOLEAN]

Completions ==
  /\ completions \subseteq Runs \X Runs
  /\ \A c \in completions : <<c[2], c[1]>> \in completions => c[1] = c[2]

Types ==
  /\ lot \in LotType
  /\ inspection \in [Versions -> Weights \cup {0}]
  /\ dispute \in [Disputes -> {"none", "open", "closed"}]
  /\ run \in [Runs -> RunType]
  /\ Completions
  /\ settlement \in Seq(SettlementType) /\ Len(settlement) <= MaxSettlements
  /\ chain \in ChainType
  /\ request \in [Handlers -> RequestType]
  /\ job \in [Runs -> JobType]
  /\ worker = Idle \/ worker \in WorkerType
  /\ faults \in 0 .. MaxFaults

-----------------------------------------------------------------------------
(* Rows *)

HasRun == \E r \in Runs : run[r].status # "none"

\* A status of the lot that only an audit or a settlement gives it.
Backed(status) ==
  /\ status \in {"auditing", "ready_for_review", "review_required", "audit_failed"} => HasRun
  /\ status \in {"settlement_accepted", "settled"} => settlement # <<>>

\* Rows refer to a lot that is there, and the lot to a producer.  A request that is
\* going to write the lot's row has seen a row that keeps the lot.
RowsInv ==
  /\ Referenced => lot.status # "none"
  /\ lot.status # "none" => lot.producer \in Producers
  /\ Backed(lot.status)
  /\ \A h \in Handlers :
       /\ request[h] \in Inspecting \cup Reweighing => Backed(request[h].status)
       /\ request[h] \in Reweighing /\ (request[h].linked \/ request[h].pc # "reweigh") =>
            HasRun
       /\ request[h] \in Accepting => HasRun
       /\ request[h].pc \in {"accepted", "execute"} => settlement # <<>>
       /\ request[h].pc = "declined" => \E d \in Disputes : dispute[d] # "none"
       /\ request[h] \in Resolving => dispute[request[h].dispute] # "none"

\* Only the request that created the lot deletes it.
Creating == {h \in Handlers : request[h].pc \in {"assign", "register", "unregister"}}

CreatingInv ==
  \A h \in Creating : lot.status # "none" /\ \A g \in Creating : g = h

\* From its insertion to its deletion an inspection's row belongs to the request
\* that inserted it.
Owners == {h \in Handlers : request[h].pc \in {"advance", "check", "submit", "undo"}}

OwnersInv ==
  \A h \in Owners :
    /\ inspection[request[h].version] = request[h].weight
    /\ \A g \in Owners : request[g].version = request[h].version => g = h

-----------------------------------------------------------------------------
(* The contract's lot *)

\* Statuses from which the quote does not change any more.
Sealed == {"PRODUCER_ACCEPTED", "SETTLED"}

ChainInv ==
  /\ chain.status = "ABSENT" => chain.version = 0
  /\ chain.status # "ABSENT" => chain.producer \in Producers
  /\ chain.status \notin {"ABSENT", "REGISTERED"} => chain.version # 0
  /\ \A v \in Versions :
       /\ chain.weight[v] # 0 <=> v <= chain.version
       /\ v > chain.version => chain.attestation[v] = NoAttestation
  /\ chain.status \in {"READY_FOR_REVIEW"} \cup Sealed =>
       /\ chain.attestation[chain.version].result \in Acceptable
       /\ chain.weight[chain.version] <= Capacity
  /\ IF chain.status \in Sealed
     THEN /\ chain.quote.version = chain.version
          /\ chain.quote.price \in Weights /\ chain.quote.price <= Capacity
     ELSE chain.quote = NoQuote

-----------------------------------------------------------------------------
(* Audits *)

\* A run is requested before its job exists, and its job is enqueued once, by the
\* request that inserted the run.
Enqueuing == {h \in Handlers : request[h].pc \in {"audit", "enqueue"}}

JobsInv ==
  /\ \A r \in Runs :
       /\ run[r].status = "none" => run[r] = NoRun
       /\ job[r].state # "none" => run[r].status # "none"
       /\ job[r].state \in {"none", "waiting", "active"} => job[r].failures < MaxAttempts
  /\ \A h \in Enqueuing :
       /\ run[request[h].run].status # "none" /\ job[request[h].run].state = "none"
       /\ \A g \in Enqueuing : request[g].run = request[h].run => g = h

\* The verdict of run r on the contract, which nobody overwrites.
OnContract(r) ==
  /\ run[r].version \in Versions
  /\ chain.attestation[run[r].version] # NoAttestation
  /\ chain.attestation[run[r].version].run = r

\* What the worker holds for attested is on the contract, and an attempt comes to
\* its end with an attestation unless the lot had no id there.
WorkerInv ==
  worker # Idle =>
    /\ job[worker.run].state = "active"
    /\ worker.report \/ worker.pc \in {"bookLot", "attest"} => worker.verdict # "none"
    /\ worker.tx => OnContract(worker.run)
    /\ worker.pc \in {"complete", "bookAttestation"} => worker.tx \/ ~worker.linked
    /\ worker.pc = "bookLot" => worker.back \in {"tools", "finish"}

-----------------------------------------------------------------------------
(* Settlements *)

\* What is executed is a row of settlements, and the run whose verdict would be
\* registered is of its version.
ExecutingInv ==
  \A h \in Handlers :
    /\ request[h] \in Executing =>
         /\ request[h].row \in DOMAIN settlement
         /\ run[request[h].run].version = settlement[request[h].row].version
         /\ run[request[h].run].result \in Verdicts
    /\ request[h] \in PayingOut => request[h].row \in DOMAIN settlement

Bills(i) == chain.quote = [version |-> settlement[i].version,
                           price |-> settlement[i].price]

\* A payment is of an accepted row, and is booked on that row, by the one request
\* that made it and only while no row shows it.
Booking == {h \in Handlers : request[h].pc = "book"}

BookingInv ==
  /\ chain.status \in Sealed => \E i \in DOMAIN settlement : Bills(i)
  /\ \A h \in Booking :
       /\ chain.status \in Sealed /\ Bills(request[h].row)
       /\ \A i \in DOMAIN settlement : ~settlement[i].tx
       /\ \A g \in Booking : g = h
  /\ \A h \in Handlers : request[h].pc = "bookLot" => Paid

PaidOut == \E i \in DOMAIN settlement : settlement[i].payout

\* Who is going to show the lot as settled knows that it was paid; an inspection
\* that is undone may show again what it has read.
SettlingInv ==
  /\ \A h \in Handlers :
       /\ request[h].pc = "payoutLot" => PaidOut
       /\ request[h] \in Inspecting /\ request[h].status = "settled" => Paid \/ PaidOut

\* A verdict is of a run of its version; what is paid, or about to be, is of a
\* version that has a report.
ReportedInv ==
  /\ \A v \in Versions : chain.attestation[v] # NoAttestation =>
       run[chain.attestation[v].run].version = v
  /\ chain.status \in Sealed => \E r \in Runs :
       run[r].version = chain.quote.version /\ run[r].result \in Verdicts

\* A lot gets its id on the contract before it is registered there.
LinkedInv ==
  /\ chain.status # "ABSENT" /\ lot.status # "none" => lot.onchain
  /\ \A h \in Handlers : request[h].pc = "register" => lot.onchain

LotInv ==
  /\ Types /\ RowsInv /\ CreatingInv /\ OwnersInv /\ ChainInv /\ JobsInv /\ WorkerInv
  /\ ExecutingInv /\ BookingInv /\ SettlingInv /\ ReportedInv /\ LinkedInv
  /\ BookedIsPaid /\ SettledLotIsPaid

-----------------------------------------------------------------------------
(* Requests *)

\* The place of a request tells which route it came by.
LEMMA ShapeOfPc ==
  ASSUME NEW q \in RequestType
  PROVE  /\ q.pc \in {"idle", "assign", "register", "unregister", "confirm", "decline",
                      "declined"} => q \in Plain
         /\ q.pc \in {"reassign", "resubmit", "delete", "acknowledge", "close"} =>
              q \in Resolving
         /\ q.pc \in {"insert", "advance", "check", "submit", "undo", "restore"} =>
              q \in Inspecting
         /\ q.pc \in {"reweigh", "requestReweighing", "undoReweigh"} => q \in Reweighing
         /\ q.pc \in {"audit", "enqueue"} => q \in Auditing
         /\ q.pc \in {"accept", "accepted"} => q \in Accepting
         /\ q.pc \in {"complete", "pay", "book", "bookLot"} => q \in Executing
         /\ q.pc \in {"payout", "payoutLot", "payoutSettlement"} => q \in PayingOut
BY DEF RequestType, Plain, Resolving, Inspecting, Reweighing, Auditing, Accepting,
       Executing, PayingOut

\* Where a request goes on to, unless the step in between matters below.
Moves ==
  {<<"register", "unregister">>, <<"reassign", "close">>, <<"resubmit", "close">>,
   <<"delete", "close">>, <<"acknowledge", "close">>, <<"advance", "check">>,
   <<"check", "submit">>, <<"check", "undo">>, <<"submit", "undo">>,
   <<"undo", "restore">>, <<"requestReweighing", "undoReweigh">>, <<"audit", "enqueue">>,
   <<"accepted", "execute">>, <<"complete", "pay">>, <<"payoutLot", "payoutSettlement">>}

\* The steps in between that do.
Marks ==
  {<<"assign", "register">>, <<"insert", "advance">>, <<"decline", "declined">>,
   <<"reweigh", "requestReweighing">>, <<"accept", "accepted">>, <<"pay", "book">>,
   <<"book", "bookLot">>, <<"payout", "payoutLot">>}

GoesOn(g, pc) == request'[g] = [request[g] EXCEPT !.pc = pc]

\* Going on, a request keeps what it has read.
LEMMA GoesOnKept ==
  ASSUME NEW q \in RequestType, NEW pc,
         \/ <<q.pc, pc>> \in Moves
         \/ <<q.pc, pc>> \in Marks,
         NEW p, p = [q EXCEPT !.pc = pc]
  PROVE  /\ p.pc = pc /\ p \in RequestType
         /\ p \in Plain => q \in Plain
         /\ p \in Resolving => q \in Resolving /\ p.dispute = q.dispute
         /\ p \in Inspecting =>
              /\ q \in Inspecting
              /\ p.weight = q.weight /\ p.version = q.version /\ p.status = q.status
         /\ p \in Reweighing =>
              q \in Reweighing /\ p.status = q.status /\ p.linked = q.linked
         /\ p \in Auditing => q \in Auditing /\ p.run = q.run
         /\ p \in Accepting => q \in Accepting /\ p.version = q.version /\ p.price = q.price
         /\ p \in Executing => q \in Executing /\ p.row = q.row /\ p.run = q.run
         /\ p \in PayingOut => q \in PayingOut /\ p.row = q.row
<1> USE DEF Plain, RequestType, Resolving, Inspecting, Reweighing, Auditing, Accepting,
            Executing, PayingOut, Moves, Marks
<1>1. CASE q \in Plain
  BY <1>1
<1>2. CASE q \in Resolving
  BY <1>2
<1>3. CASE q \in Inspecting
  BY <1>3
<1>4. CASE q \in Reweighing
  BY <1>4
<1>5. CASE q \in Auditing
  BY <1>5
<1>6. CASE q \in Accepting
  BY <1>6
<1>7. CASE q \in Executing
  BY <1>7
<1>8. CASE q \in PayingOut
  BY <1>8
<1>9. QED
  BY <1>1, <1>2, <1>3, <1>4, <1>5, <1>6, <1>7, <1>8 DEF RequestType

-----------------------------------------------------------------------------
(* Which step changes what *)

\* Which steps write which rows, and which move the contract.
LEMMA LotChanges ==
  ASSUME Next
  PROVE  \/ UNCHANGED lot
         \/ \E h \in Handlers :
              \/ CreateLot(h) \/ AssignId(h) \/ UnregisterLot(h)
              \/ Confirm(h) \/ Decline(h) \/ ResolveLot(h)
              \/ AdvanceLot(h) \/ AssignInspectedId(h) \/ RestoreLot(h)
              \/ MarkReweighing(h) \/ UndoReweigh(h) \/ MarkAuditing(h)
              \/ MarkAccepted(h) \/ AssignSettledId(h) \/ BookSettledLot(h)
              \/ PayoutLot(h)
         \/ BookLot \/ FailLot
<1>1. ASSUME SettleInBatch
      PROVE  UNCHANGED lot
  BY <1>1 DEF SettleInBatch, rows
<1>2. ASSUME NEW h \in Handlers, LotRequest(h)
      PROVE  UNCHANGED lot \/ CreateLot(h)
  BY <1>2 DEF LotRequest, ReadAwaiting, ReadDispute, ReadForInspection,
              ReadForReweigh, RequestAudit, rows, others
<1>3. ASSUME NEW h \in Handlers, LotStep(h)
      PROVE  \/ UNCHANGED lot
             \/ AssignId(h) \/ UnregisterLot(h) \/ Confirm(h) \/ Decline(h)
             \/ ResolveLot(h) \/ AdvanceLot(h) \/ AssignInspectedId(h)
             \/ RestoreLot(h) \/ MarkReweighing(h)
             \/ UndoReweigh(h) \/ MarkAuditing(h)
  BY <1>3 DEF LotStep, RegisterLot, OpenDispute, CloseDispute,
              InsertInspection, CheckInspection, SubmitInspection,
              DeleteInspection, RequestReweighing, Enqueue, RowGone, rows, others
<1>4. ASSUME NEW h \in Handlers, SettlementRequest(h) \/ SettlementStep(h)
      PROVE  \/ UNCHANGED lot \/ AssignSettledId(h)
             \/ MarkAccepted(h) \/ BookSettledLot(h) \/ PayoutLot(h)
  BY <1>4 DEF SettlementRequest, SettlementStep, ReadForAcceptance, SettleOnchain,
              ReadForPayout, InsertSettlement, NothingToExecute, LoadSettlement,
              CompleteOnchain, Pay, BookSettlement, InsertPayout,
              PayoutSettlement, rest
<1>5. ASSUME WorkerStep
      PROVE  UNCHANGED lot \/ BookLot \/ FailLot
  BY <1>5 DEF WorkerStep, TakeJob, CallTool, LeaveTools, Finish, Attest,
              BookAttestation, Complete, Throw, idle, rows
<1>6. ASSUME ServerStops \/ WorkerStops \/ QueryFails
      PROVE  UNCHANGED lot
  BY <1>6 DEF ServerStops, QueryFails, WorkerStops, rows
<1>7. QED
  BY <1>1, <1>2, <1>3, <1>4, <1>5, <1>6 DEF Next, RequestStep

LEMMA InspectionChanges ==
  ASSUME Next
  PROVE  \/ UNCHANGED inspection
         \/ \E h \in Handlers :
              \/ InsertInspection(h) \/ DeleteInspection(h)
<1>1. ASSUME SettleInBatch
      PROVE  UNCHANGED inspection
  BY <1>1 DEF SettleInBatch, rows
<1>2. ASSUME NEW h \in Handlers, LotRequest(h)
      PROVE  UNCHANGED inspection
  BY <1>2 DEF LotRequest, CreateLot, ReadAwaiting, ReadDispute,
              ReadForInspection, ReadForReweigh, RequestAudit, rows, others
<1>3. ASSUME NEW h \in Handlers, LotStep(h)
      PROVE  \/ UNCHANGED inspection
             \/ InsertInspection(h) \/ DeleteInspection(h)
  BY <1>3 DEF LotStep, AssignId, RegisterLot, UnregisterLot, Confirm, OpenDispute,
              Decline, ResolveLot, CloseDispute, AdvanceLot, AssignInspectedId,
              CheckInspection, SubmitInspection, RestoreLot, MarkReweighing,
              RequestReweighing, UndoReweigh, MarkAuditing, Enqueue, RowGone, rows,
              others
<1>4. ASSUME NEW h \in Handlers, SettlementRequest(h) \/ SettlementStep(h)
      PROVE  UNCHANGED inspection
  BY <1>4 DEF SettlementRequest, SettlementStep, ReadForAcceptance, SettleOnchain,
              ReadForPayout, InsertSettlement, MarkAccepted, NothingToExecute,
              LoadSettlement, AssignSettledId, CompleteOnchain, Pay, BookSettlement,
              BookSettledLot, InsertPayout, PayoutLot, PayoutSettlement, rest
<1>5. ASSUME WorkerStep
      PROVE  UNCHANGED inspection
  BY <1>5 DEF WorkerStep, TakeJob, CallTool, LeaveTools, BookLot, Finish,
              Attest, BookAttestation, Complete, Throw, FailLot, idle, rows
<1>6. ASSUME ServerStops \/ WorkerStops \/ QueryFails
      PROVE  UNCHANGED inspection
  BY <1>6 DEF ServerStops, QueryFails, WorkerStops, rows
<1>7. QED
  BY <1>1, <1>2, <1>3, <1>4, <1>5, <1>6 DEF Next, RequestStep

LEMMA DisputeChanges ==
  ASSUME Next
  PROVE  \/ UNCHANGED dispute
         \/ \E h \in Handlers :
              \/ OpenDispute(h) \/ CloseDispute(h)
<1>1. ASSUME SettleInBatch
      PROVE  UNCHANGED dispute
  BY <1>1 DEF SettleInBatch, rows
<1>2. ASSUME NEW h \in Handlers, LotRequest(h)
      PROVE  UNCHANGED dispute
  BY <1>2 DEF LotRequest, CreateLot, ReadAwaiting, ReadDispute,
              ReadForInspection, ReadForReweigh, RequestAudit, rows, others
<1>3. ASSUME NEW h \in Handlers, LotStep(h)
      PROVE  \/ UNCHANGED dispute
             \/ OpenDispute(h) \/ CloseDispute(h)
  BY <1>3 DEF LotStep, AssignId, RegisterLot, UnregisterLot, Confirm, Decline,
              ResolveLot, InsertInspection, AdvanceLot, AssignInspectedId,
              CheckInspection, SubmitInspection, DeleteInspection, RestoreLot,
              MarkReweighing, RequestReweighing, UndoReweigh, MarkAuditing, Enqueue,
              RowGone, rows, others
<1>4. ASSUME NEW h \in Handlers, SettlementRequest(h) \/ SettlementStep(h)
      PROVE  UNCHANGED dispute
  BY <1>4 DEF SettlementRequest, SettlementStep, ReadForAcceptance, SettleOnchain,
              ReadForPayout, InsertSettlement, MarkAccepted, NothingToExecute,
              LoadSettlement, AssignSettledId, CompleteOnchain, Pay, BookSettlement,
              BookSettledLot, InsertPayout, PayoutLot, PayoutSettlement, rest
<1>5. ASSUME WorkerStep
      PROVE  UNCHANGED dispute
  BY <1>5 DEF WorkerStep, TakeJob, CallTool, LeaveTools, BookLot, Finish,
              Attest, BookAttestation, Complete, Throw, FailLot, idle, rows
<1>6. ASSUME ServerStops \/ WorkerStops \/ QueryFails
      PROVE  UNCHANGED dispute
  BY <1>6 DEF ServerStops, QueryFails, WorkerStops, rows
<1>7. QED
  BY <1>1, <1>2, <1>3, <1>4, <1>5, <1>6 DEF Next, RequestStep

LEMMA RunChanges ==
  ASSUME Next
  PROVE  \/ UNCHANGED run
         \/ \E h \in Handlers :
              \/ RequestAudit(h)
         \/ (\E r \in Runs : TakeJob(r)) \/ CallTool \/ Finish
         \/ BookAttestation \/ Throw
<1>1. ASSUME SettleInBatch
      PROVE  UNCHANGED run
  BY <1>1 DEF SettleInBatch, rows
<1>2. ASSUME NEW h \in Handlers, LotRequest(h)
      PROVE  UNCHANGED run \/ RequestAudit(h)
  BY <1>2 DEF LotRequest, CreateLot, ReadAwaiting, ReadDispute,
              ReadForInspection, ReadForReweigh, rows, others
<1>3. ASSUME NEW h \in Handlers, LotStep(h)
      PROVE  UNCHANGED run
  BY <1>3 DEF LotStep, AssignId, RegisterLot, UnregisterLot, Confirm, OpenDispute,
              Decline, ResolveLot, CloseDispute, InsertInspection, AdvanceLot,
              AssignInspectedId, CheckInspection, SubmitInspection, DeleteInspection,
              RestoreLot, MarkReweighing, RequestReweighing, UndoReweigh, MarkAuditing,
              Enqueue, RowGone, rows, others
<1>4. ASSUME NEW h \in Handlers, SettlementRequest(h) \/ SettlementStep(h)
      PROVE  UNCHANGED run
  BY <1>4 DEF SettlementRequest, SettlementStep, ReadForAcceptance, SettleOnchain,
              ReadForPayout, InsertSettlement, MarkAccepted, NothingToExecute,
              LoadSettlement, AssignSettledId, CompleteOnchain, Pay, BookSettlement,
              BookSettledLot, InsertPayout, PayoutLot, PayoutSettlement, rest
<1>5. ASSUME WorkerStep
      PROVE  \/ UNCHANGED run
             \/ (\E r \in Runs : TakeJob(r)) \/ CallTool \/ Finish
             \/ BookAttestation \/ Throw
  BY <1>5 DEF WorkerStep, LeaveTools, BookLot, Attest, Complete, FailLot, idle,
              rows
<1>6. ASSUME ServerStops \/ WorkerStops \/ QueryFails
      PROVE  UNCHANGED run
  BY <1>6 DEF ServerStops, QueryFails, WorkerStops, rows
<1>7. QED
  BY <1>1, <1>2, <1>3, <1>4, <1>5, <1>6 DEF Next, RequestStep

LEMMA SettlementChanges ==
  ASSUME Next
  PROVE  \/ UNCHANGED settlement
         \/ \E h \in Handlers :
              \/ InsertSettlement(h) \/ BookSettlement(h) \/ InsertPayout(h)
              \/ PayoutSettlement(h)
<1>1. ASSUME SettleInBatch
      PROVE  UNCHANGED settlement
  BY <1>1 DEF SettleInBatch, rows
<1>2. ASSUME NEW h \in Handlers, LotRequest(h)
      PROVE  UNCHANGED settlement
  BY <1>2 DEF LotRequest, CreateLot, ReadAwaiting, ReadDispute,
              ReadForInspection, ReadForReweigh, RequestAudit, rows, others
<1>3. ASSUME NEW h \in Handlers, LotStep(h)
      PROVE  UNCHANGED settlement
  BY <1>3 DEF LotStep, AssignId, RegisterLot, UnregisterLot, Confirm, OpenDispute,
              Decline, ResolveLot, CloseDispute, InsertInspection, AdvanceLot,
              AssignInspectedId, CheckInspection, SubmitInspection, DeleteInspection,
              RestoreLot, MarkReweighing, RequestReweighing, UndoReweigh, MarkAuditing,
              Enqueue, RowGone, rows, others
<1>4. ASSUME NEW h \in Handlers, SettlementRequest(h) \/ SettlementStep(h)
      PROVE  \/ UNCHANGED settlement
             \/ InsertSettlement(h) \/ BookSettlement(h) \/ InsertPayout(h)
             \/ PayoutSettlement(h)
  BY <1>4 DEF SettlementRequest, SettlementStep, ReadForAcceptance, SettleOnchain,
              ReadForPayout, MarkAccepted, NothingToExecute, LoadSettlement,
              AssignSettledId, CompleteOnchain, Pay, BookSettledLot, PayoutLot, rest
<1>5. ASSUME WorkerStep
      PROVE  UNCHANGED settlement
  BY <1>5 DEF WorkerStep, TakeJob, CallTool, LeaveTools, BookLot, Finish,
              Attest, BookAttestation, Complete, Throw, FailLot, idle, rows
<1>6. ASSUME ServerStops \/ WorkerStops \/ QueryFails
      PROVE  UNCHANGED settlement
  BY <1>6 DEF ServerStops, QueryFails, WorkerStops, rows
<1>7. QED
  BY <1>1, <1>2, <1>3, <1>4, <1>5, <1>6 DEF Next, RequestStep

LEMMA ChainChanges ==
  ASSUME Next
  PROVE  \/ UNCHANGED chain
         \/ SettleInBatch
         \/ \E h \in Handlers :
              \/ RegisterLot(h) \/ CheckInspection(h) \/ SubmitInspection(h)
              \/ RequestReweighing(h) \/ CompleteOnchain(h) \/ Pay(h)
         \/ Attest
<1>1. ASSUME NEW h \in Handlers, LotRequest(h)
      PROVE  UNCHANGED chain
  BY <1>1 DEF LotRequest, CreateLot, ReadAwaiting, ReadDispute,
              ReadForInspection, ReadForReweigh, RequestAudit, rows, others
<1>2. ASSUME NEW h \in Handlers, LotStep(h)
      PROVE  \/ UNCHANGED chain
             \/ RegisterLot(h) \/ CheckInspection(h) \/ SubmitInspection(h)
             \/ RequestReweighing(h)
  BY <1>2 DEF LotStep, AssignInspectedId, AssignId, UnregisterLot, Confirm, OpenDispute,
              Decline, ResolveLot, CloseDispute, InsertInspection, AdvanceLot,
              DeleteInspection, RestoreLot, MarkReweighing, UndoReweigh, MarkAuditing,
              Enqueue, RowGone, rows, others
<1>3. ASSUME NEW h \in Handlers, SettlementRequest(h) \/ SettlementStep(h)
      PROVE  UNCHANGED chain \/ CompleteOnchain(h) \/ Pay(h)
  BY <1>3 DEF SettlementRequest, AssignSettledId, SettlementStep, ReadForAcceptance,
              SettleOnchain, ReadForPayout, InsertSettlement, MarkAccepted,
              NothingToExecute, LoadSettlement, BookSettlement, BookSettledLot,
              InsertPayout, PayoutLot, PayoutSettlement, rest
<1>4. ASSUME WorkerStep
      PROVE  UNCHANGED chain \/ Attest
  BY <1>4 DEF WorkerStep, TakeJob, CallTool, LeaveTools, BookLot, Finish,
              BookAttestation, Complete, Throw, FailLot, idle, rows
<1>5. ASSUME ServerStops \/ WorkerStops \/ QueryFails
      PROVE  UNCHANGED chain
  BY <1>5 DEF ServerStops, QueryFails, WorkerStops, rows
<1>6. QED
  BY <1>1, <1>2, <1>3, <1>4, <1>5 DEF Next, RequestStep

\* A step moves at most the request that takes it, one place further.
LEMMA RequestSteps ==
  ASSUME Types, Next, NEW g \in Handlers
  PROVE  \/ request'[g] = request[g]
         \/ request'[g] = Idle
         \/ \E pc : <<request[g].pc, pc>> \in Moves /\ GoesOn(g, pc)
         \/ LotRequest(g) \/ SettlementRequest(g) \/ LoadSettlement(g)
         \/ AssignId(g) /\ GoesOn(g, "register")
         \/ InsertInspection(g) /\ GoesOn(g, "advance")
         \/ OpenDispute(g) /\ GoesOn(g, "declined")
         \/ MarkReweighing(g) /\ request[g].linked /\ GoesOn(g, "requestReweighing")
         \/ InsertSettlement(g) /\ GoesOn(g, "accepted")
         \/ Pay(g) /\ GoesOn(g, "book")
         \/ BookSettlement(g) /\ GoesOn(g, "bookLot")
         \/ InsertPayout(g) /\ GoesOn(g, "payoutLot")
<1> USE DEF Types
<1>1. ASSUME NEW h \in Handlers, h # g,
             LotRequest(h) \/ SettlementRequest(h) \/ LotStep(h) \/ SettlementStep(h)
      PROVE  request'[g] = request[g]
  <2>1. CASE LotRequest(h) \/ SettlementRequest(h)
    BY <1>1, <2>1 DEF LotRequest, SettlementRequest, CreateLot, ReadAwaiting,
       ReadDispute, ReadForInspection, ReadForReweigh, RequestAudit, LotStarts,
       Starts, ReadForAcceptance, SettleOnchain, ReadForPayout
  <2>2. CASE LotStep(h)
    BY <1>1, <2>2 DEF LotStep, AssignId, RegisterLot, UnregisterLot, Confirm,
       OpenDispute, Decline, ResolveLot, CloseDispute, InsertInspection, AdvanceLot,
       AssignInspectedId, CheckInspection, SubmitInspection, DeleteInspection,
       RestoreLot, MarkReweighing, RequestReweighing, UndoReweigh, MarkAuditing,
       Enqueue, RowGone, Sent, Goto, Done
  <2>3. CASE SettlementStep(h)
    BY <1>1, <2>3 DEF SettlementStep, InsertSettlement, MarkAccepted, NothingToExecute,
       LoadSettlement, AssignSettledId, CompleteOnchain, Pay, BookSettlement,
       BookSettledLot, InsertPayout, PayoutLot, PayoutSettlement, Sent, Goto, Done
  <2>4. QED  BY <1>1, <2>1, <2>2, <2>3
<1>2. /\ \A pc : Goto(g, pc) => GoesOn(g, pc)
      /\ Done(g) => request'[g] = Idle
  BY DEF Goto, GoesOn, Done
<1>3. ASSUME LotStep(g)
      PROVE  \/ request'[g] = request[g] \/ request'[g] = Idle
             \/ \E pc : <<request[g].pc, pc>> \in Moves /\ GoesOn(g, pc)
             \/ AssignId(g) /\ GoesOn(g, "register")
             \/ InsertInspection(g) /\ GoesOn(g, "advance")
             \/ OpenDispute(g) /\ GoesOn(g, "declined")
             \/ MarkReweighing(g) /\ request[g].linked /\ GoesOn(g, "requestReweighing")
  <2> USE <1>2 DEF Sent, At, Moves
  <2>1. CASE \/ AssignId(g) \/ RegisterLot(g) \/ UnregisterLot(g) \/ Confirm(g)
             \/ OpenDispute(g) \/ Decline(g) \/ CloseDispute(g) \/ RowGone(g)
    BY <2>1 DEF AssignId, RegisterLot, UnregisterLot, Confirm, OpenDispute, Decline,
       CloseDispute, RowGone
  <2>2. CASE ResolveLot(g)
    <3>1. GoesOn(g, "close")
      BY <2>2, Zenon DEF ResolveLot
    <3>2. request[g].pc \in {"reassign", "resubmit", "delete", "acknowledge"}
      BY <2>2, Zenon DEF ResolveLot
    <3>3. QED  BY <3>1, <3>2
  <2>3. CASE \/ InsertInspection(g) \/ AdvanceLot(g) \/ AssignInspectedId(g)
             \/ CheckInspection(g)
    BY <2>3 DEF InsertInspection, AdvanceLot, AssignInspectedId, CheckInspection
  <2>4. CASE SubmitInspection(g) \/ DeleteInspection(g) \/ RestoreLot(g)
    BY <2>4 DEF SubmitInspection, DeleteInspection, RestoreLot
  <2>5. CASE \/ MarkReweighing(g) \/ RequestReweighing(g) \/ UndoReweigh(g)
             \/ MarkAuditing(g) \/ Enqueue(g)
    BY <2>5 DEF MarkReweighing, RequestReweighing, UndoReweigh, MarkAuditing, Enqueue
  <2>6. QED  BY <1>3, <2>1, <2>2, <2>3, <2>4, <2>5 DEF LotStep
<1>4. ASSUME SettlementStep(g)
      PROVE  \/ request'[g] = request[g] \/ request'[g] = Idle \/ LoadSettlement(g)
             \/ \E pc : <<request[g].pc, pc>> \in Moves /\ GoesOn(g, pc)
             \/ InsertSettlement(g) /\ GoesOn(g, "accepted")
             \/ Pay(g) /\ GoesOn(g, "book")
             \/ BookSettlement(g) /\ GoesOn(g, "bookLot")
             \/ InsertPayout(g) /\ GoesOn(g, "payoutLot")
  <2> USE <1>2 DEF Sent, At, Moves
  <2>1. CASE \/ InsertSettlement(g) \/ MarkAccepted(g) \/ NothingToExecute(g)
             \/ LoadSettlement(g)
    BY <2>1 DEF InsertSettlement, MarkAccepted, NothingToExecute
  <2>2. CASE AssignSettledId(g) \/ CompleteOnchain(g) \/ Pay(g)
    BY <2>2 DEF AssignSettledId, CompleteOnchain, Pay
  <2>3. CASE \/ BookSettlement(g) \/ BookSettledLot(g) \/ InsertPayout(g)
             \/ PayoutLot(g) \/ PayoutSettlement(g)
    BY <2>3 DEF BookSettlement, BookSettledLot, InsertPayout, PayoutLot, PayoutSettlement
  <2>4. QED  BY <1>4, <2>1, <2>2, <2>3 DEF SettlementStep
<1>5. ASSUME SettleInBatch \/ WorkerStep \/ QueryFails \/ WorkerStops
      PROVE  request' = request
  BY <1>5 DEF SettleInBatch, WorkerStep, QueryFails, WorkerStops, TakeJob, CallTool,
     LeaveTools, BookLot, Finish, Attest, BookAttestation, Complete, Throw, FailLot,
     idle
<1>6. ASSUME ServerStops PROVE request'[g] = Idle
  BY <1>6 DEF ServerStops
<1>7. QED
  BY <1>1, <1>3, <1>4, <1>5, <1>6 DEF Next, RequestStep

\* A request starts with what its route has read.
LEMMA StartEffect ==
  ASSUME Types, NEW h \in Handlers, NEW kind, NEW req, Starts(h, kind, req)
  PROVE  request[h] = Idle /\ request'[h] = req
BY DEF Starts, Types

\* What a request has in hand it has just read or had before.
LEMMA Carries ==
  ASSUME Types, Next, NEW g \in Handlers
  PROVE  /\ request'[g] \in Resolving =>
              \/ request[g] \in Resolving /\ request'[g].dispute = request[g].dispute
              \/ ReadDispute(g)
         /\ request'[g] \in Inspecting =>
              \/ /\ request[g] \in Inspecting
                 /\ request'[g].weight = request[g].weight
                 /\ request'[g].version = request[g].version
                 /\ request'[g].status = request[g].status
              \/ ReadForInspection(g)
         /\ request'[g] \in Reweighing =>
              \/ /\ request[g] \in Reweighing
                 /\ request'[g].status = request[g].status
                 /\ request'[g].linked = request[g].linked
              \/ ReadForReweigh(g)
         /\ request'[g] \in Auditing =>
              \/ request[g] \in Auditing /\ request'[g].run = request[g].run
              \/ RequestAudit(g)
         /\ request'[g] \in Accepting =>
              request[g] \in Accepting \/ ReadForAcceptance(g)
         /\ request'[g] \in Executing =>
              \/ /\ request[g] \in Executing
                 /\ request'[g].row = request[g].row /\ request'[g].run = request[g].run
              \/ LoadSettlement(g)
         /\ request'[g] \in PayingOut =>
              \/ request[g] \in PayingOut /\ request'[g].row = request[g].row
              \/ ReadForPayout(g)
<1>1. request[g] \in RequestType  BY DEF Types
<1>2. CASE request'[g] = request[g]
  BY <1>2
<1>3. CASE request'[g] = Idle
  BY <1>3 DEF Idle, Resolving, Inspecting, Reweighing, Auditing, Accepting, Executing,
              PayingOut
<1>4. CASE LotRequest(g)
  <2>1. CASE CreateLot(g) \/ ReadAwaiting(g, "confirm") \/ ReadAwaiting(g, "decline")
    <3>1. CreateLot(g) => request'[g].pc = "assign"
      BY StartEffect DEF CreateLot
    <3>2. ASSUME NEW kind, ReadAwaiting(g, kind) PROVE request'[g].pc = kind
      BY <3>2, StartEffect DEF ReadAwaiting, LotStarts
    <3>3. request'[g].pc \in {"assign", "confirm", "decline"}
      BY <2>1, <3>1, <3>2
    <3>4. QED
      BY <3>3 DEF Resolving, Inspecting, Reweighing, Auditing, Accepting, Executing,
                  PayingOut
  <2>2. CASE ReadDispute(g)
    <3>1. request'[g].pc \in {"reassign", "resubmit", "delete", "acknowledge"}
      BY <2>2, StartEffect DEF ReadDispute, LotStarts
    <3>2. QED
      BY <2>2, <3>1 DEF Inspecting, Reweighing, Auditing, Accepting, Executing, PayingOut
  <2>3. CASE ReadForInspection(g)
    <3>1. request'[g].pc = "insert"
      BY <2>3, StartEffect DEF ReadForInspection, LotStarts
    <3>2. QED
      BY <2>3, <3>1 DEF Resolving, Reweighing, Auditing, Accepting, Executing, PayingOut
  <2>4. CASE ReadForReweigh(g)
    <3>1. request'[g].pc = "reweigh"
      BY <2>4, StartEffect DEF ReadForReweigh, LotStarts
    <3>2. QED
      BY <2>4, <3>1 DEF Resolving, Inspecting, Auditing, Accepting, Executing, PayingOut
  <2>5. CASE RequestAudit(g)
    <3>1. request'[g].pc = "audit"
      BY <2>5, StartEffect DEF RequestAudit, LotStarts
    <3>2. QED
      BY <2>5, <3>1 DEF Resolving, Inspecting, Reweighing, Accepting, Executing, PayingOut
  <2>6. QED  BY <1>4, <2>1, <2>2, <2>3, <2>4, <2>5 DEF LotRequest
<1>5. CASE SettlementRequest(g)
  <2>1. CASE ReadForAcceptance(g)
    <3>1. request'[g].pc = "accept"
      BY <2>1, StartEffect DEF ReadForAcceptance
    <3>2. QED
      BY <2>1, <3>1 DEF Resolving, Inspecting, Reweighing, Auditing, Executing, PayingOut
  <2>2. CASE SettleOnchain(g)
    <3>1. request'[g] = [pc |-> "execute"]
      BY <2>2, StartEffect DEF SettleOnchain
    <3>2. QED
      BY <3>1 DEF Resolving, Inspecting, Reweighing, Auditing, Accepting, Executing,
                  PayingOut
  <2>3. CASE ReadForPayout(g)
    <3>1. request'[g].pc = "payout"
      BY <2>3, StartEffect DEF ReadForPayout
    <3>2. QED
      BY <2>3, <3>1 DEF Resolving, Inspecting, Reweighing, Auditing, Accepting, Executing
  <2>4. QED  BY <1>5, <2>1, <2>2, <2>3 DEF SettlementRequest
<1>6. CASE LoadSettlement(g)
  <2>1. request'[g].pc = "complete"
    BY <1>6 DEF LoadSettlement, Types
  <2>2. QED
    BY <1>6, <2>1 DEF Resolving, Inspecting, Reweighing, Auditing, Accepting, PayingOut
<1>7. ASSUME NEW pc, GoesOn(g, pc),
             \/ <<request[g].pc, pc>> \in Moves
             \/ <<request[g].pc, pc>> \in Marks
      PROVE  /\ request'[g] \in Resolving =>
                  request[g] \in Resolving /\ request'[g].dispute = request[g].dispute
             /\ request'[g] \in Inspecting =>
                  /\ request[g] \in Inspecting
                  /\ request'[g].weight = request[g].weight
                  /\ request'[g].version = request[g].version
                  /\ request'[g].status = request[g].status
             /\ request'[g] \in Reweighing =>
                  /\ request[g] \in Reweighing
                  /\ request'[g].status = request[g].status
                  /\ request'[g].linked = request[g].linked
             /\ request'[g] \in Auditing =>
                  request[g] \in Auditing /\ request'[g].run = request[g].run
             /\ request'[g] \in Accepting => request[g] \in Accepting
             /\ request'[g] \in Executing =>
                  /\ request[g] \in Executing
                  /\ request'[g].row = request[g].row /\ request'[g].run = request[g].run
             /\ request'[g] \in PayingOut =>
                  request[g] \in PayingOut /\ request'[g].row = request[g].row
  BY <1>1, <1>7, GoesOnKept DEF GoesOn
<1>8. QED
  BY <1>2, <1>3, <1>4, <1>5, <1>6, <1>7, RequestSteps
     DEF Marks, AssignId, InsertInspection, OpenDispute, MarkReweighing, InsertSettlement,
         Pay, BookSettlement, InsertPayout, At

\* How a request gets to the places the invariant speaks of.
LEMMA PcSteps ==
  ASSUME Types, Next, NEW g \in Handlers
  PROVE  LET was == request[g].pc  is == request'[g].pc IN
         /\ is \in {"assign", "register", "unregister"} =>
              was \in {"assign", "register", "unregister"} \/ CreateLot(g)
         /\ is = "register" => was = "register" \/ AssignId(g)
         /\ is \in {"requestReweighing", "undoReweigh"} =>
              \/ was \in {"requestReweighing", "undoReweigh"}
              \/ MarkReweighing(g) /\ request[g].linked
         /\ is \in {"advance", "check", "submit", "undo"} =>
              was \in {"advance", "check", "submit", "undo"} \/ InsertInspection(g)
         /\ is \in {"audit", "enqueue"} => was \in {"audit", "enqueue"} \/ RequestAudit(g)
         /\ is = "declined" => was = "declined" \/ OpenDispute(g)
         /\ is = "accepted" => was = "accepted" \/ InsertSettlement(g)
         /\ is = "execute" => was \in {"accepted", "execute"} \/ SettleOnchain(g)
         /\ is = "book" => was = "book" \/ Pay(g)
         /\ is = "bookLot" => was = "bookLot" \/ BookSettlement(g)
         /\ is = "payoutLot" => was = "payoutLot" \/ InsertPayout(g)
<1>1. request[g] \in RequestType  BY DEF Types
<1>2. CASE request'[g] = request[g] \/ request'[g] = Idle
  BY <1>2 DEF Idle
<1>3. CASE LotRequest(g)
  <2>1. \/ CreateLot(g) \/ RequestAudit(g)
        \/ request'[g].pc \in {"confirm", "decline", "reassign", "resubmit", "delete",
                               "acknowledge", "insert", "reweigh"}
    <3>1. ASSUME NEW kind, ReadAwaiting(g, kind) PROVE request'[g].pc = kind
      BY <3>1, StartEffect DEF ReadAwaiting, LotStarts
    <3>2. ReadDispute(g) =>
            request'[g].pc \in {"reassign", "resubmit", "delete", "acknowledge"}
      BY StartEffect DEF ReadDispute, LotStarts
    <3>3. ReadForInspection(g) => request'[g].pc = "insert"
      BY StartEffect DEF ReadForInspection, LotStarts
    <3>4. ReadForReweigh(g) => request'[g].pc = "reweigh"
      BY StartEffect DEF ReadForReweigh, LotStarts
    <3>5. QED  BY <1>3, <3>1, <3>2, <3>3, <3>4 DEF LotRequest
  <2>2. CreateLot(g) => request'[g].pc = "assign"
    BY StartEffect DEF CreateLot
  <2>3. RequestAudit(g) => request'[g].pc = "audit"
    BY StartEffect DEF RequestAudit, LotStarts
  <2>4. QED  BY <2>1, <2>2, <2>3
<1>4. CASE SettlementRequest(g) \/ LoadSettlement(g)
  <2>1. \/ SettleOnchain(g) /\ request'[g].pc = "execute"
        \/ request'[g].pc \in {"accept", "payout", "complete"}
    BY <1>4, StartEffect
       DEF SettlementRequest, ReadForAcceptance, SettleOnchain, ReadForPayout,
           LoadSettlement, Types
  <2>2. QED  BY <2>1
<1>5. ASSUME NEW pc, GoesOn(g, pc), <<request[g].pc, pc>> \in Moves
      PROVE  request'[g].pc = pc
  BY <1>1, <1>5, GoesOnKept DEF GoesOn
<1>6. ASSUME NEW pc, GoesOn(g, pc),
             <<request[g].pc, pc>> \in Marks
      PROVE  request'[g].pc = pc
  BY <1>1, <1>6, GoesOnKept DEF GoesOn
<1>7. CASE \E pc : <<request[g].pc, pc>> \in Moves /\ GoesOn(g, pc)
  BY <1>5, <1>7 DEF Moves
<1>8. CASE \/ AssignId(g) /\ GoesOn(g, "register")
           \/ InsertInspection(g) /\ GoesOn(g, "advance")
           \/ OpenDispute(g) /\ GoesOn(g, "declined")
           \/ MarkReweighing(g) /\ request[g].linked /\ GoesOn(g, "requestReweighing")
           \/ InsertSettlement(g) /\ GoesOn(g, "accepted")
           \/ Pay(g) /\ GoesOn(g, "book")
           \/ BookSettlement(g) /\ GoesOn(g, "bookLot")
           \/ InsertPayout(g) /\ GoesOn(g, "payoutLot")
  BY <1>6, <1>8
     DEF Marks, AssignId, InsertInspection, OpenDispute, MarkReweighing, InsertSettlement,
         Pay, BookSettlement, InsertPayout, At
<1>9. QED
  BY <1>2, <1>3, <1>4, <1>7, <1>8, RequestSteps

-----------------------------------------------------------------------------
(* What a step leaves of the rows *)

\* A worker that takes a step other than taking a job has one.
LEMMA WorkerBusy ==
  ASSUME Types,
         \/ CallTool \/ LeaveTools \/ BookLot \/ Finish \/ Attest \/ BookAttestation
         \/ Complete \/ Throw \/ FailLot \/ QueryFails \/ WorkerStops
  PROVE  worker # Idle /\ worker \in WorkerType /\ worker.run \in Runs /\ Mine \in RunType
<1>1. worker # Idle
  <2>1. CASE QueryFails \/ WorkerStops
    BY <2>1 DEF QueryFails, WorkerStops
  <2>2. CASE ~(QueryFails \/ WorkerStops)
    <3>1. worker.pc # "idle"
      BY <2>2 DEF CallTool, LeaveTools, BookLot, Finish, Attest, BookAttestation,
                  Complete, Throw, FailLot
    <3>2. QED  BY <3>1 DEF Idle
  <2>3. QED  BY <2>1, <2>2
<1>2. worker \in WorkerType  BY <1>1 DEF Types
<1>3. worker.run \in Runs  BY <1>2 DEF WorkerType
<1>4. QED  BY <1>1, <1>2, <1>3 DEF Types, Mine

\* What becomes of a run's row: its version stays, and what it says of a report and
\* of a transaction is never taken back.
Continues(old, new) ==
  /\ new.version = old.version /\ new.status # "none"
  /\ old.tx => new.tx
  /\ old.result \in Verdicts => new.result \in Verdicts

\* What the worker writes of its run.
LEMMA WorkerBooks ==
  ASSUME Types, CallTool \/ Finish \/ BookAttestation \/ Throw
  PROVE  \/ UNCHANGED run
         \/ \E fields \in RunType :
              run' = [run EXCEPT ![worker.run] = fields] /\ Continues(Mine, fields)
<1>1. worker \in WorkerType /\ Mine \in RunType /\ worker.run \in Runs
  BY WorkerBusy
<1>2. ASSUME NEW v \in Verdicts, BookReport(v)
      PROVE  \E fields \in RunType :
               run' = [run EXCEPT ![worker.run] = fields] /\ Continues(Mine, fields)
  <2> DEFINE fields == [Mine EXCEPT !.result = v, !.status = "completed"]
  <2>1. run' = [run EXCEPT ![worker.run] = fields]
    BY <1>2 DEF BookReport, Book
  <2>2. fields \in RunType /\ Continues(Mine, fields)
    BY <1>1 DEF RunType, Continues
  <2>3. QED  BY <2>1, <2>2
<1>3. CASE CallTool
  <2>1. UNCHANGED run \/ \E v \in Verdicts : BookReport(v)
    BY <1>1, <1>3 DEF CallTool, WorkerType
  <2>2. QED  BY <1>2, <2>1
<1>4. CASE Finish
  <2>1. UNCHANGED run \/ \E v \in Verdicts : BookReport(v)
    BY <1>4, LotAssumption DEF Finish, Verdicts, Acceptable
  <2>2. QED  BY <1>2, <2>1
<1>5. CASE BookAttestation
  <2>0. worker.tx \in BOOLEAN  BY <1>1 DEF WorkerType
  <2> DEFINE fields == [Mine EXCEPT !.status = "attested", !.tx = @ \/ worker.tx]
  <2>1. run' = [run EXCEPT ![worker.run] = fields]
    BY <1>5 DEF BookAttestation, Book
  <2>2. fields \in RunType /\ Continues(Mine, fields)
    BY <1>1, <2>0 DEF RunType, Continues
  <2>3. QED  BY <2>1, <2>2
<1>6. CASE Throw
  <2> DEFINE failed == [Mine EXCEPT !.status = "failed"]
             unread == [Mine EXCEPT !.status = "failed", !.result = "failed"]
  <2>1. \/ UNCHANGED run
        \/ Mine.result = "none" /\ run' = [run EXCEPT ![worker.run] = unread]
        \/ run' = [run EXCEPT ![worker.run] = failed]
    BY <1>6 DEF Throw, Book
  <2>2. failed \in RunType /\ Continues(Mine, failed)
    BY <1>1 DEF RunType, Continues
  <2>3. unread \in RunType /\ (Mine.result = "none" => Continues(Mine, unread))
    BY <1>1 DEF RunType, Continues, Verdicts, Acceptable
  <2>4. QED  BY <2>1, <2>2, <2>3
<1>7. QED  BY <1>3, <1>4, <1>5, <1>6

LEMMA RunContinues ==
  ASSUME Types, Next, NEW r \in Runs, run[r].status # "none"
  PROVE  Continues(run[r], run'[r])
<1>1. run[r] \in RunType /\ Continues(run[r], run[r])
  BY DEF Types, Continues
<1>2. ASSUME NEW h \in Handlers, RequestAudit(h)
      PROVE  run'[r] = run[r]
  BY <1>2 DEF RequestAudit, Types
<1>3. ASSUME NEW s \in Runs, TakeJob(s)
      PROVE  Continues(run[r], run'[r])
  <2>1. run' = run \/ run' = [run EXCEPT ![s].status = "running"]
    BY <1>3 DEF TakeJob
  <2>2. run'[r] = run[r] \/ run'[r] = [run[r] EXCEPT !.status = "running"]
    BY <2>1 DEF Types
  <2>3. QED  BY <1>1, <2>2 DEF RunType, Continues
<1>4. CASE CallTool \/ Finish \/ BookAttestation \/ Throw
  <2>1. worker.run \in Runs  BY <1>4, WorkerBusy
  <2>2. QED  BY <1>1, <1>4, <2>1, WorkerBooks DEF Types, Mine
<1>5. QED  BY <1>1, <1>2, <1>3, <1>4, RunChanges

LEMMA RunTyped ==
  ASSUME Types, Next
  PROVE  run' \in [Runs -> RunType]
<1>1. ASSUME NEW h \in Handlers, RequestAudit(h)
      PROVE  run' \in [Runs -> RunType]
  <2>1. PICK r \in Runs, v \in Versions :
          run' = [run EXCEPT ![r] = [NoRun EXCEPT !.status = "queued", !.version = v]]
    BY <1>1 DEF RequestAudit
  <2>2. v \in 0 .. MaxVersion  BY LotAssumption DEF Versions
  <2>3. QED  BY <2>1, <2>2 DEF NoRun, Types, RunType
<1>2. ASSUME NEW r \in Runs, TakeJob(r)
      PROVE  run' \in [Runs -> RunType]
  <2>1. run' = run \/ run' = [run EXCEPT ![r].status = "running"]
    BY <1>2 DEF TakeJob
  <2>2. [run[r] EXCEPT !.status = "running"] \in RunType
    BY DEF Types, RunType
  <2>3. QED  BY <2>1, <2>2 DEF Types
<1>3. CASE CallTool \/ Finish \/ BookAttestation \/ Throw
  BY <1>3, WorkerBooks, WorkerBusy DEF Types
<1>4. QED  BY <1>1, <1>2, <1>3, RunChanges DEF Types

\* What becomes of a settlement's row.
Advances(old, new) ==
  /\ new.version = old.version /\ new.price = old.price
  /\ old.tx => new.tx
  /\ old.payout => new.payout

\* The settlement a request books or marks is the row it loaded.
LEMMA RowSteps ==
  ASSUME Types, ExecutingInv, NEW h \in Handlers,
         BookSettlement(h) \/ InsertPayout(h) \/ PayoutSettlement(h)
  PROVE  /\ request[h].row \in DOMAIN settlement
         /\ \E fields \in SettlementType :
              /\ settlement' = [settlement EXCEPT ![request[h].row] = fields]
              /\ Advances(settlement[request[h].row], fields)
              /\ fields.tx /\ ~settlement[request[h].row].tx => BookSettlement(h)
              /\ InsertPayout(h) => fields.payout
              /\ BookSettlement(h) => fields.tx
<1> DEFINE i == request[h].row
<1>1. i \in DOMAIN settlement
  BY ShapeOfPc
     DEF BookSettlement, InsertPayout, PayoutSettlement, At, Types, ExecutingInv
<1>2. settlement[i] \in SettlementType
  BY <1>1 DEF Types
<1>3. CASE BookSettlement(h)
  <2> DEFINE fields == [settlement[i] EXCEPT !.status = "settled", !.tx = TRUE]
  <2>1. settlement' = [settlement EXCEPT ![i] = fields]
    BY <1>1, <1>3 DEF BookSettlement, Types
  <2>2. fields \in SettlementType /\ Advances(settlement[i], fields) /\ fields.tx
    BY <1>2 DEF SettlementType, Advances
  <2>3. ~InsertPayout(h)
    BY <1>3 DEF InsertPayout, BookSettlement, At
  <2>4. QED  BY <1>1, <1>3, <2>1, <2>2, <2>3
<1>4. CASE InsertPayout(h)
  <2> DEFINE fields == [settlement[i] EXCEPT !.payout = TRUE]
  <2>1. settlement' = [settlement EXCEPT ![i] = fields]
    BY <1>1, <1>4 DEF InsertPayout, Types
  <2>2. /\ fields \in SettlementType /\ Advances(settlement[i], fields) /\ fields.payout
        /\ fields.tx = settlement[i].tx
    BY <1>2 DEF SettlementType, Advances
  <2>3. ~BookSettlement(h)
    BY <1>4 DEF InsertPayout, BookSettlement, At
  <2>4. QED  BY <1>1, <1>4, <2>1, <2>2, <2>3
<1>5. CASE PayoutSettlement(h)
  <2> DEFINE fields == [settlement[i] EXCEPT !.status = "settled"]
  <2>1. settlement' = [settlement EXCEPT ![i] = fields]
    BY <1>1, <1>5 DEF PayoutSettlement, Types
  <2>2. /\ fields \in SettlementType /\ Advances(settlement[i], fields)
        /\ fields.tx = settlement[i].tx
    BY <1>2 DEF SettlementType, Advances
  <2>3. ~BookSettlement(h) /\ ~InsertPayout(h)
    BY <1>5 DEF InsertPayout, BookSettlement, PayoutSettlement, At
  <2>4. QED  BY <1>1, <1>5, <2>1, <2>2, <2>3
<1>6. QED  BY <1>3, <1>4, <1>5

\* Settlements are appended, and their version and price stay.
LEMMA SettlementSteps ==
  ASSUME Types, ExecutingInv, Next
  PROVE  /\ settlement' \in Seq(SettlementType) /\ Len(settlement') <= MaxSettlements
         /\ \A i \in DOMAIN settlement :
              i \in DOMAIN settlement' /\ Advances(settlement[i], settlement'[i])
         /\ \A i \in DOMAIN settlement' :
              settlement'[i].tx =>
                \/ i \in DOMAIN settlement /\ settlement[i].tx
                \/ \E h \in Handlers : BookSettlement(h) /\ i = request[h].row
<1>1. ASSUME NEW h \in Handlers, InsertSettlement(h)
      PROVE  /\ settlement' \in Seq(SettlementType) /\ Len(settlement') <= MaxSettlements
             /\ \A i \in DOMAIN settlement :
                  i \in DOMAIN settlement' /\ settlement'[i] = settlement[i]
             /\ \A i \in DOMAIN settlement' \ DOMAIN settlement : ~settlement'[i].tx
  <2> DEFINE new == [version |-> request[h].version, price |-> request[h].price,
                     status |-> "accepted", tx |-> FALSE, payout |-> FALSE]
  <2>1. request[h] \in Accepting
    BY <1>1, ShapeOfPc DEF InsertSettlement, At, Types
  <2>2. new \in SettlementType
    BY <2>1 DEF Accepting, SettlementType
  <2>3. settlement' = Append(settlement, new) /\ Len(settlement) < MaxSettlements
    BY <1>1 DEF InsertSettlement
  <2>4. new.tx = FALSE
    OBVIOUS
  <2> HIDE DEF new
  <2>5. QED  BY <2>2, <2>3, <2>4, LotAssumption DEF Types
<1>2. ASSUME NEW h \in Handlers,
             BookSettlement(h) \/ InsertPayout(h) \/ PayoutSettlement(h)
      PROVE  /\ settlement' \in Seq(SettlementType) /\ Len(settlement') <= MaxSettlements
             /\ \A i \in DOMAIN settlement :
                  i \in DOMAIN settlement' /\ Advances(settlement[i], settlement'[i])
             /\ \A i \in DOMAIN settlement' :
                  settlement'[i].tx =>
                    \/ i \in DOMAIN settlement /\ settlement[i].tx
                    \/ BookSettlement(h) /\ i = request[h].row
  <2>1. PICK fields \in SettlementType :
          /\ settlement' = [settlement EXCEPT ![request[h].row] = fields]
          /\ Advances(settlement[request[h].row], fields)
          /\ fields.tx /\ ~settlement[request[h].row].tx => BookSettlement(h)
    BY <1>2, RowSteps
  <2>2. request[h].row \in DOMAIN settlement
    BY <1>2, RowSteps
  <2>3. \A i \in DOMAIN settlement : Advances(settlement[i], settlement[i])
    BY DEF Advances
  <2>4. /\ settlement' \in Seq(SettlementType) /\ Len(settlement') = Len(settlement)
        /\ \A i \in DOMAIN settlement :
             settlement'[i] = IF i = request[h].row THEN fields ELSE settlement[i]
    BY <2>1, <2>2, ExceptSeq DEF Types
  <2>5. DOMAIN settlement' = DOMAIN settlement
    BY <2>4 DEF Types
  <2>6. QED  BY <2>1, <2>2, <2>3, <2>4, <2>5 DEF Types
<1>3. CASE UNCHANGED settlement
  BY <1>3 DEF Types, Advances
<1>4. QED
  <2>1. CASE \E h \in Handlers : InsertSettlement(h)
    <3>1. \A i \in DOMAIN settlement : Advances(settlement[i], settlement[i])
      BY DEF Advances
    <3>2. QED  BY <1>1, <2>1, <3>1
  <2>2. QED  BY <1>2, <1>3, <2>1, SettlementChanges

\* No dispute disappears.
LEMMA DisputeKept ==
  ASSUME Types, Next, NEW d \in Disputes, dispute[d] # "none"
  PROVE  dispute'[d] # "none"
<1>1. ASSUME NEW h \in Handlers, OpenDispute(h) \/ CloseDispute(h)
      PROVE  dispute'[d] # "none"
  BY <1>1 DEF OpenDispute, CloseDispute, Types
<1>2. QED  BY <1>1, DisputeChanges

-----------------------------------------------------------------------------
(* Types *)

\* Types, one variable at a time.
LEMMA RequestTyped ==
  ASSUME LotInv, Next
  PROVE  request' \in [Handlers -> RequestType]
<1>0. Types /\ RowsInv  BY DEF LotInv
<1>1. request' = [h \in Handlers |-> request'[h]]
  <2>1. ASSUME NEW h \in Handlers,
               LotRequest(h) \/ SettlementRequest(h) \/ LotStep(h) \/ SettlementStep(h)
        PROVE  request' = [g \in Handlers |-> request'[g]]
    <3>1. CASE LotRequest(h) \/ SettlementRequest(h)
      BY <1>0, <3>1 DEF Types, LotRequest, SettlementRequest, CreateLot, ReadAwaiting,
         ReadDispute, ReadForInspection, ReadForReweigh, RequestAudit, LotStarts,
         Starts, ReadForAcceptance, SettleOnchain, ReadForPayout
    <3>2. CASE LotStep(h)
      BY <1>0, <3>2 DEF Types, LotStep, AssignId, RegisterLot, UnregisterLot, Confirm,
         OpenDispute, Decline, ResolveLot, CloseDispute, InsertInspection, AdvanceLot,
         AssignInspectedId, CheckInspection, SubmitInspection, DeleteInspection,
         RestoreLot, MarkReweighing, RequestReweighing, UndoReweigh, MarkAuditing,
         Enqueue, RowGone, Sent, Goto, Done
    <3>3. CASE SettlementStep(h)
      BY <1>0, <3>3 DEF Types, SettlementStep, InsertSettlement, MarkAccepted,
         NothingToExecute, LoadSettlement, AssignSettledId, CompleteOnchain, Pay,
         BookSettlement, BookSettledLot, InsertPayout, PayoutLot, PayoutSettlement,
         Sent, Goto, Done
    <3>4. QED  BY <2>1, <3>1, <3>2, <3>3
  <2>2. CASE SettleInBatch \/ WorkerStep \/ QueryFails \/ WorkerStops
    BY <1>0, <2>2 DEF Types, SettleInBatch, WorkerStep, QueryFails, WorkerStops,
       TakeJob, CallTool, LeaveTools, BookLot, Finish, Attest, BookAttestation,
       Complete, Throw, FailLot, idle
  <2>3. CASE ServerStops
    BY <2>3 DEF ServerStops
  <2>4. QED  BY <2>1, <2>2, <2>3 DEF Next, RequestStep
<1>2. ASSUME NEW g \in Handlers PROVE request'[g] \in RequestType
  <2>1. request[g] \in RequestType  BY <1>0 DEF Types
  <2>2. CASE request'[g] = request[g] \/ request'[g] = Idle
    BY <2>1, <2>2 DEF Idle, RequestType, Plain
  <2>3. CASE LotRequest(g)
    <3>1. CASE CreateLot(g) \/ ReadAwaiting(g, "confirm") \/ ReadAwaiting(g, "decline")
      <4>1. CreateLot(g) => request'[g] \in Plain
        BY <1>0, StartEffect DEF CreateLot, Plain
      <4>2. ASSUME NEW kind \in {"confirm", "decline"}, ReadAwaiting(g, kind)
            PROVE  request'[g] \in Plain
        BY <1>0, <4>2, StartEffect DEF ReadAwaiting, LotStarts, Plain
      <4>3. QED  BY <3>1, <4>1, <4>2 DEF RequestType
    <3>2. CASE ReadDispute(g)
      BY <1>0, <3>2 DEF ReadDispute, LotStarts, Starts, Types, RequestType, Resolving
    <3>3. CASE ReadForInspection(g)
      BY <1>0, <3>3, LotAssumption
         DEF ReadForInspection, LotStarts, Starts, Types, RequestType, Inspecting,
             LotType, Versions
    <3>4. CASE ReadForReweigh(g)
      <4>1. /\ lot.status \in LotStatus \ {"none", "settlement_accepted", "settled"}
            /\ lot.onchain \in BOOLEAN
        BY <1>0, <3>4 DEF ReadForReweigh, Types, LotType, LotStatus
      <4>2. request'[g] = [pc |-> "reweigh", status |-> lot.status, linked |-> lot.onchain]
        BY <1>0, <3>4, StartEffect DEF ReadForReweigh, LotStarts
      <4>3. QED  BY <4>1, <4>2 DEF RequestType, Reweighing
    <3>5. CASE RequestAudit(g)
      BY <1>0, <3>5 DEF RequestAudit, LotStarts, Starts, Types, RequestType, Auditing
    <3>6. QED  BY <2>3, <3>1, <3>2, <3>3, <3>4, <3>5 DEF LotRequest
  <2>4. CASE SettlementRequest(g)
    <3>1. CASE ReadForAcceptance(g)
      BY <1>0, <3>1, LotAssumption
         DEF ReadForAcceptance, MayAccept, Starts, Types, RequestType, Accepting,
             LotType, Versions
    <3>2. CASE SettleOnchain(g)
      BY <1>0, <3>2 DEF SettleOnchain, Starts, Types, RequestType, Plain
    <3>3. CASE ReadForPayout(g)
      BY <1>0, <3>3, LotAssumption
         DEF ReadForPayout, Starts, Types, RequestType, PayingOut
    <3>4. QED  BY <2>4, <3>1, <3>2, <3>3 DEF SettlementRequest
  <2>5. CASE LoadSettlement(g)
    <3>1. PICK r \in Runs :
            /\ run[r].result \in Verdicts
            /\ request' = [request EXCEPT ![g] =
                  [pc |-> "complete", row |-> Len(settlement), run |-> r,
                   verdict |-> run[r].result]]
      BY <2>5 DEF LoadSettlement, Reported
    <3>2. request'[g] = [pc |-> "complete", row |-> Len(settlement), run |-> r,
                         verdict |-> run[r].result]
      BY <1>0, <1>0, <3>1 DEF Types
    <3>3. settlement # <<>>
      BY <1>0, <2>5 DEF RowsInv, LoadSettlement, At
    <3>4. Len(settlement) \in 1 .. MaxSettlements
      BY <1>0, <1>0, <3>3, LotAssumption DEF Types
    <3>5. QED  BY <3>1, <3>2, <3>4 DEF RequestType, Executing
  <2>6. ASSUME NEW pc, GoesOn(g, pc),
               \/ <<request[g].pc, pc>> \in Moves
               \/ <<request[g].pc, pc>> \in Marks
        PROVE  request'[g] \in RequestType
    BY <2>1, <2>6, GoesOnKept DEF GoesOn
  <2>7. QED
    BY <1>0, <2>2, <2>3, <2>4, <2>5, <2>6, RequestSteps
       DEF Marks, AssignId, InsertInspection, OpenDispute, MarkReweighing,
           InsertSettlement, Pay, BookSettlement, InsertPayout, At
<1>3. QED  BY <1>1, <1>2

LEMMA InspectionTyped ==
  ASSUME Types, Next
  PROVE  inspection' \in [Versions -> Weights \cup {0}]
<1>1. ASSUME NEW h \in Handlers, InsertInspection(h) \/ DeleteInspection(h)
      PROVE  inspection' \in [Versions -> Weights \cup {0}]
  <2>1. request[h] \in Inspecting
    BY <1>1, ShapeOfPc DEF InsertInspection, DeleteInspection, At, Types
  <2>2. QED
    BY <1>1, <2>1 DEF InsertInspection, DeleteInspection, Inspecting, Types
<1>2. QED  BY <1>1, InspectionChanges DEF Types

LEMMA DisputeTyped ==
  ASSUME Types, Next
  PROVE  dispute' \in [Disputes -> {"none", "open", "closed"}]
<1>1. ASSUME NEW h \in Handlers, OpenDispute(h) \/ CloseDispute(h)
      PROVE  dispute' \in [Disputes -> {"none", "open", "closed"}]
  BY <1>1 DEF OpenDispute, CloseDispute, Types
<1>2. QED  BY <1>1, DisputeChanges DEF Types

-----------------------------------------------------------------------------
(* Rows *)

Audited == {"auditing", "ready_for_review", "review_required", "audit_failed"}
Settled == {"settlement_accepted", "settled"}

\* Who writes the lot's row knows that it is there, and the row has what its status
\* says of it.
LEMMA LotWrites ==
  ASSUME LotInv, Next
  PROVE  \/ UNCHANGED lot
         \/ lot' = NoLot /\ ~Referenced /\ \E h \in Handlers : UnregisterLot(h)
         \/ /\ lot' \in LotType /\ lot'.status # "none" /\ lot'.producer \in Producers
            /\ lot'.status \in Audited => HasRun
            /\ lot'.status \in Settled => settlement # <<>>
            /\ \/ lot.status # "none" /\ (lot.onchain => lot'.onchain)
               \/ chain.status = "ABSENT" /\ \A h \in Handlers : request[h] = Idle
<1> DEFINE Written(status) ==
      /\ lot' = [lot EXCEPT !.status = status]
      /\ status \in LotStatus \ {"none"}
      /\ lot.status # "none"
      /\ status \in Audited => HasRun
      /\ status \in Settled => settlement # <<>>
<1> DEFINE Goal ==
      /\ lot' \in LotType /\ lot'.status # "none" /\ lot'.producer \in Producers
      /\ lot'.status \in Audited => HasRun
      /\ lot'.status \in Settled => settlement # <<>>
      /\ \/ lot.status # "none" /\ (lot.onchain => lot'.onchain)
         \/ chain.status = "ABSENT" /\ \A h \in Handlers : request[h] = Idle
<1> DEFINE Assigned == lot' = [lot EXCEPT !.onchain = TRUE] /\ lot.status # "none"
<1>1. Types /\ RowsInv  BY DEF LotInv
<1>2. ASSUME NEW status, Written(status) PROVE Goal
  BY <1>1, <1>2 DEF Types, RowsInv, LotType
<1>3. Referenced => lot.status # "none"  BY <1>1 DEF RowsInv
<1>4. HasRun => Referenced  BY DEF HasRun, Referenced
<1>5. ASSUME NEW h \in Handlers, CreateLot(h) PROVE Goal
  <2>1. PICK p \in Producers, named \in BOOLEAN :
          lot' = [NoLot EXCEPT !.status = "awaiting_producer_confirmation",
                               !.producer = p, !.onchain = named]
    BY <1>5 DEF CreateLot
  <2>2. lot' = [status |-> "awaiting_producer_confirmation", producer |-> p,
                version |-> 0, accepted |-> 0, onchain |-> named]
    BY <2>1 DEF NoLot
  <2>3. MaxVersion \in Nat  BY LotAssumption
  <2>4. chain.status = "ABSENT" /\ \A g \in Handlers : request[g] = Idle
    BY <1>5 DEF CreateLot
  <2>5. QED  BY <2>2, <2>3, <2>4 DEF LotType, LotStatus, Audited, Settled
<1>6. ASSUME NEW h \in Handlers, UnregisterLot(h)
      PROVE  UNCHANGED lot \/ (lot' = NoLot /\ ~Referenced)
  BY <1>6 DEF UnregisterLot
<1>7. ASSUME NEW h \in Handlers, Confirm(h) \/ Decline(h) PROVE Goal
  <2>1. lot.status # "none"
    <3>1. CASE Confirm(h)  BY <3>1 DEF Confirm
    <3>2. CASE Decline(h)
      <4>1. \E d \in Disputes : dispute[d] # "none"
        BY <1>1, <3>2 DEF Decline, At, RowsInv
      <4>2. QED  BY <1>3, <4>1 DEF Referenced
    <3>3. QED  BY <1>7, <3>1, <3>2
  <2>2. Written("registered") \/ Written("producer_declined")
    BY <1>7, <2>1 DEF Confirm, Decline, LotStatus, Audited, Settled
  <2>3. QED  BY <1>2, <2>2
<1>8. ASSUME NEW h \in Handlers, ResolveLot(h) PROVE UNCHANGED lot \/ Goal
  <2>0. lot.status # "none"  BY <1>8 DEF ResolveLot
  <2>1. CASE \E p \in Producers :
               lot' = [lot EXCEPT !.status = "awaiting_producer_confirmation",
                                  !.producer = p]
    BY <1>1, <2>0, <2>1 DEF Types, LotType, LotStatus, Audited, Settled
  <2>2. CASE lot' = [lot EXCEPT !.status = "awaiting_producer_confirmation"]
    <3>1. Written("awaiting_producer_confirmation")
      BY <1>8, <2>2 DEF ResolveLot, LotStatus, Audited, Settled
    <3>2. QED  BY <1>2, <3>1
  <2>3. CASE lot' = [lot EXCEPT !.status = "cancelled"]
    <3>1. Written("cancelled")
      BY <1>8, <2>3 DEF ResolveLot, LotStatus, Audited, Settled
    <3>2. QED  BY <1>2, <3>1
  <2>4. QED  BY <1>8, <2>1, <2>2, <2>3 DEF ResolveLot
<1>9. ASSUME NEW h \in Handlers, AdvanceLot(h) \/ RestoreLot(h) PROVE Goal
  <2>1. request[h] \in Inspecting
    BY <1>1, <1>9, ShapeOfPc DEF AdvanceLot, RestoreLot, At, Types
  <2>2. CASE AdvanceLot(h)
    <3>1. inspection[request[h].version] # 0
      <4>1. inspection[request[h].version] = request[h].weight
        BY <2>2 DEF LotInv, OwnersInv, Owners, AdvanceLot, At
      <4>2. QED  BY <2>1, <4>1, LotAssumption DEF Inspecting
    <3>2. lot.status # "none"
      BY <1>3, <2>1, <3>1 DEF Referenced, Inspecting
    <3>3. request[h].version \in 0 .. MaxVersion
      BY <2>1, LotAssumption DEF Inspecting, Versions
    <3>4. lot' = [lot EXCEPT !.version = request[h].version, !.status = "inspection_submitted"]
      BY <2>2 DEF AdvanceLot
    <3>5. QED
      BY <1>1, <3>2, <3>3, <3>4 DEF RowsInv, Types, LotType, LotStatus, Audited, Settled
  <2>3. CASE RestoreLot(h)
    <3>1. lot' = [lot EXCEPT !.version = request[h].version - 1, !.status = request[h].status]
      BY <2>3 DEF RestoreLot
    <3>2. /\ request[h].version - 1 \in 0 .. MaxVersion
          /\ request[h].status \in LotStatus \ {"none"}
      BY <2>1, LotAssumption DEF Inspecting, Versions
    <3>3. lot.status # "none"  BY <2>3 DEF RestoreLot
    <3>4. /\ request[h].status \in Audited => HasRun
          /\ request[h].status \in Settled => settlement # <<>>
      BY <1>1, <2>1 DEF RowsInv, Backed, Audited, Settled
    <3>5. lot' \in LotType /\ lot'.status = request[h].status /\ lot'.producer = lot.producer
      BY <1>1, <3>1, <3>2 DEF Types, LotType
    <3>6. lot'.onchain = lot.onchain
      BY <1>1, <3>1 DEF Types, LotType
    <3>7. QED  BY <1>1, <3>2, <3>3, <3>4, <3>5, <3>6 DEF RowsInv
  <2>4. QED  BY <1>9, <2>2, <2>3
<1>10. ASSUME NEW h \in Handlers, MarkReweighing(h) \/ UndoReweigh(h) PROVE Goal
  <2>1. request[h] \in Reweighing
    BY <1>1, <1>10, ShapeOfPc DEF MarkReweighing, UndoReweigh, At, Types
  <2>2. CASE MarkReweighing(h)
    <3>1. Written("reweighing_requested")
      BY <2>2 DEF MarkReweighing, LotStatus, Audited, Settled
    <3>2. QED  BY <1>2, <3>1
  <2>3. CASE UndoReweigh(h)
    <3>1. HasRun
      BY <1>1, <2>1, <2>3 DEF RowsInv, UndoReweigh, At
    <3>2. Written(request[h].status)
      BY <1>3, <1>4, <2>1, <2>3, <3>1 DEF UndoReweigh, Reweighing, Settled
    <3>3. QED  BY <1>2, <3>2
  <2>4. QED  BY <1>10, <2>2, <2>3
<1>11. ASSUME NEW h \in Handlers, MarkAuditing(h) PROVE Goal
  <2>1. request[h] \in Auditing
    BY <1>1, <1>11, ShapeOfPc DEF MarkAuditing, At, Types
  <2>2. HasRun
    BY <1>11, <2>1 DEF LotInv, JobsInv, Enqueuing, MarkAuditing, At, HasRun, Auditing
  <2>3. Written("auditing")
    BY <1>3, <1>4, <1>11, <2>2 DEF MarkAuditing, LotStatus, Settled
  <2>4. QED  BY <1>2, <2>3
<1>12. ASSUME NEW h \in Handlers, MarkAccepted(h) PROVE Goal
  <2>1. request[h] \in Accepting
    BY <1>1, <1>12, ShapeOfPc DEF MarkAccepted, At, Types
  <2>2. settlement # <<>>
    BY <1>1, <1>12 DEF RowsInv, MarkAccepted, At
  <2>3. lot.status # "none"
    BY <1>3, <2>2 DEF Referenced
  <2>4. request[h].version \in 0 .. MaxVersion
    BY <2>1, LotAssumption DEF Accepting, Versions
  <2>5. lot' = [lot EXCEPT !.status = "settlement_accepted", !.accepted = request[h].version]
    BY <1>12 DEF MarkAccepted
  <2>6. QED
    BY <1>1, <2>2, <2>3, <2>4, <2>5 DEF RowsInv, Types, LotType, LotStatus, Audited, Settled
<1>13. ASSUME NEW h \in Handlers, BookSettledLot(h) \/ PayoutLot(h) PROVE Goal
  <2>1. request[h] \in Executing \/ request[h] \in PayingOut
    BY <1>1, <1>13, ShapeOfPc DEF BookSettledLot, PayoutLot, At, Types
  <2>2. settlement # <<>> /\ lot.status # "none"
    BY <1>3, <2>1 DEF LotInv, ExecutingInv, Referenced
  <2>3. CASE PayoutLot(h)
    <3>1. Written("settled")
      BY <2>2, <2>3 DEF PayoutLot, LotStatus, Audited
    <3>2. QED  BY <1>2, <3>1
  <2>4. CASE BookSettledLot(h)
    <3>1. lot' = [lot EXCEPT !.status = "settled", !.onchain = TRUE]
      BY <2>4 DEF BookSettledLot
    <3>2. lot' \in LotType /\ lot'.status = "settled" /\ lot'.onchain
      BY <1>1, <3>1 DEF Types, LotType, LotStatus
    <3>3. lot'.producer = lot.producer
      BY <1>1, <3>1 DEF Types, LotType
    <3>4. QED  BY <1>1, <2>2, <3>2, <3>3 DEF RowsInv, Audited
  <2>5. QED  BY <1>13, <2>3, <2>4
<1>14. ASSUME BookLot \/ FailLot PROVE Goal
  <2>1. worker # Idle /\ worker.run \in Runs
    BY <1>1, <1>14, WorkerBusy
  <2>2. HasRun
    BY <2>1 DEF LotInv, WorkerInv, JobsInv, HasRun
  <2>3. \/ Written("ready_for_review") \/ Written("review_required")
        \/ Written("audit_failed")
    BY <1>3, <1>4, <1>14, <2>2 DEF BookLot, FailLot, LotStatus, Settled
  <2>4. QED  BY <1>2, <2>3
<1>15. ASSUME NEW h \in Handlers, AssignId(h) \/ AssignInspectedId(h) \/ AssignSettledId(h)
       PROVE  Goal
  <2>1. ASSUME AssignId(h) PROVE Assigned
    BY <2>1 DEF AssignId
  <2>2. ASSUME AssignInspectedId(h) PROVE Assigned
    <3>1. request[h] \in Inspecting /\ h \in Owners
      BY <1>1, <2>2, ShapeOfPc DEF AssignInspectedId, At, Types, Owners
    <3>2. inspection[request[h].version] # 0
      BY <3>1, LotAssumption DEF LotInv, OwnersInv, Inspecting
    <3>3. lot.status # "none"
      BY <1>3, <3>1, <3>2 DEF Referenced, Inspecting
    <3>4. QED  BY <2>2, <3>3 DEF AssignInspectedId
  <2>3. ASSUME AssignSettledId(h) PROVE Assigned
    <3>1. request[h] \in Executing
      BY <1>1, <2>3, ShapeOfPc DEF AssignSettledId, At, Types
    <3>2. settlement # <<>>
      BY <3>1 DEF LotInv, ExecutingInv
    <3>3. QED  BY <1>3, <2>3, <3>2 DEF AssignSettledId, Referenced
  <2>4. Assigned
    BY <1>15, <2>1, <2>2, <2>3
  <2>5. lot' \in LotType /\ lot'.status = lot.status /\ lot'.producer = lot.producer
    BY <1>1, <2>4 DEF Types, LotType
  <2>6. lot'.onchain
    BY <1>1, <2>4 DEF Types, LotType
  <2>7. QED  BY <1>1, <2>4, <2>5, <2>6 DEF RowsInv, Backed, Audited, Settled
<1>16. QED
  BY <1>5, <1>6, <1>7, <1>8, <1>9, <1>10, <1>11, <1>12, <1>13, <1>14, <1>15, LotChanges

\* No row is added that refers to a lot that is not there.
LEMMA ReferencedNext ==
  ASSUME LotInv, Next, lot.status = "none"
  PROVE  ~Referenced'
<1>1. Types /\ RowsInv  BY DEF LotInv
<1>2. /\ \A v \in Versions : inspection[v] = 0
      /\ \A d \in Disputes : dispute[d] = "none"
      /\ \A r \in Runs : run[r].status = "none"
      /\ settlement = <<>>
  BY <1>1 DEF RowsInv, Referenced
<1>3. ~HasRun  BY <1>2 DEF HasRun
<1>4. \A v \in Versions : inspection'[v] = 0
  <2>1. ASSUME NEW h \in Handlers, DeleteInspection(h)
        PROVE  \A v \in Versions : inspection'[v] = 0
    BY <1>1, <1>2, <2>1 DEF DeleteInspection, Types
  <2>2. \A h \in Handlers : ~InsertInspection(h)
    BY DEF InsertInspection
  <2>3. QED  BY <1>2, <2>1, <2>2, InspectionChanges
<1>5. \A d \in Disputes : dispute'[d] = "none"
  <2>1. ASSUME NEW h \in Handlers, CloseDispute(h) PROVE FALSE
    <3>1. request[h] \in Resolving
      BY <1>1, <2>1, ShapeOfPc DEF CloseDispute, At, Types
    <3>2. QED  BY <1>1, <1>2, <3>1 DEF RowsInv, Resolving
  <2>2. \A h \in Handlers : ~OpenDispute(h)
    BY DEF OpenDispute
  <2>3. QED  BY <1>2, <2>1, <2>2, DisputeChanges
<1>6. \A r \in Runs : run'[r].status = "none"
  <2>1. \A h \in Handlers : ~RequestAudit(h)
    BY DEF RequestAudit, LotStarts
  <2>2. \A r \in Runs : ~TakeJob(r)
    BY <1>2 DEF TakeJob, LotInv, JobsInv
  <2>3. ~(CallTool \/ Finish \/ BookAttestation \/ Throw)
    BY <1>1, <1>2, WorkerBusy DEF LotInv, WorkerInv, JobsInv
  <2>4. QED  BY <1>2, <2>1, <2>2, <2>3, RunChanges
<1>7. settlement' = <<>>
  <2>1. ASSUME NEW h \in Handlers, InsertSettlement(h) PROVE FALSE
    <3>1. request[h] \in Accepting
      BY <1>1, <2>1, ShapeOfPc DEF InsertSettlement, At, Types
    <3>2. QED  BY <1>1, <1>3, <3>1 DEF RowsInv
  <2>2. ASSUME NEW h \in Handlers,
               BookSettlement(h) \/ InsertPayout(h) \/ PayoutSettlement(h)
        PROVE  FALSE
    BY <1>1, <1>2, <2>2, RowSteps DEF LotInv
  <2>3. QED  BY <1>2, <2>1, <2>2, SettlementChanges
<1>8. QED  BY <1>4, <1>5, <1>6, <1>7 DEF Referenced

\* Runs and settlements are never deleted.
LEMMA HasRunKept ==
  ASSUME Types, Next, HasRun
  PROVE  HasRun'
BY RunContinues DEF HasRun, Continues

LEMMA SettlementKept ==
  ASSUME Types, ExecutingInv, Next, settlement # <<>>
  PROVE  settlement' # <<>>
<1>1. 1 \in DOMAIN settlement  BY DEF Types
<1>2. 1 \in DOMAIN settlement'  BY <1>1, SettlementSteps
<1>3. QED  BY <1>2

\* The rows' part of the invariant.
LEMMA RowsNext ==
  ASSUME LotInv, Next
  PROVE  RowsInv'
<1>1. Types /\ RowsInv /\ ExecutingInv  BY DEF LotInv
<1>2. HasRun => HasRun'  BY <1>1, HasRunKept
<1>3. settlement # <<>> => settlement' # <<>>  BY <1>1, SettlementKept
<1>4. /\ Referenced' => lot'.status # "none"
      /\ lot'.status # "none" => lot'.producer \in Producers
      /\ Backed(lot.status)'
  <2>1. CASE UNCHANGED lot
    <3>1. Referenced' => lot'.status # "none"
      BY <2>1, ReferencedNext
    <3>2. QED  BY <1>1, <1>2, <1>3, <2>1, <3>1 DEF RowsInv, Backed
  <2>2. CASE lot' = NoLot /\ ~Referenced /\ \E h \in Handlers : UnregisterLot(h)
    <3>1. ~Referenced'
      BY <2>2 DEF UnregisterLot, Referenced, others
    <3>2. QED  BY <2>2, <3>1 DEF NoLot, Backed
  <2>3. CASE /\ lot' \in LotType /\ lot'.status # "none" /\ lot'.producer \in Producers
             /\ lot'.status \in Audited => HasRun
             /\ lot'.status \in Settled => settlement # <<>>
    BY <1>2, <1>3, <2>3 DEF Backed, Audited, Settled
  <2>4. QED  BY <2>1, <2>2, <2>3, LotWrites
<1>5. ASSUME NEW h \in Handlers
      PROVE  /\ request'[h] \in Inspecting \cup Reweighing => Backed(request[h].status)'
             /\ request'[h] \in Reweighing
                  /\ (request'[h].linked \/ request'[h].pc # "reweigh") => HasRun'
             /\ request'[h] \in Accepting => HasRun'
             /\ request'[h].pc \in {"accepted", "execute"} => settlement' # <<>>
             /\ request'[h].pc = "declined" => \E d \in Disputes : dispute'[d] # "none"
             /\ request'[h] \in Resolving => dispute'[request'[h].dispute] # "none"
  <2>1. ASSUME request'[h] \in Inspecting \cup Reweighing
        PROVE  Backed(request[h].status)'
    <3>1. \/ /\ request[h] \in Inspecting \cup Reweighing
             /\ request'[h].status = request[h].status
          \/ ReadForInspection(h) /\ request'[h].status = lot.status
          \/ ReadForReweigh(h) /\ request'[h].status = lot.status
      <4>1. ReadForInspection(h) => request'[h].status = lot.status
        BY <1>1, StartEffect DEF ReadForInspection, LotStarts
      <4>2. ReadForReweigh(h) => request'[h].status = lot.status
        BY <1>1, StartEffect DEF ReadForReweigh, LotStarts
      <4>3. QED  BY <1>1, <2>1, <4>1, <4>2, Carries
    <3>2. /\ request'[h].status \in Audited => HasRun
          /\ request'[h].status \in Settled => settlement # <<>>
      BY <1>1, <3>1 DEF RowsInv, Backed, Audited, Settled
    <3>3. QED  BY <1>2, <1>3, <3>2 DEF Backed, Audited, Settled
  <2>2. ASSUME request'[h] \in Accepting
        PROVE  HasRun'
    <3>1. request[h] \in Accepting \/ ReadForAcceptance(h)
      BY <1>1, <2>2, Carries
    <3>2. ReadForAcceptance(h) => HasRun
      BY DEF ReadForAcceptance, MayAccept, LatestAudit, HasRun
    <3>3. QED  BY <1>1, <1>2, <3>1, <3>2 DEF RowsInv
  <2>3. ASSUME request'[h].pc \in {"accepted", "execute"}
        PROVE  settlement' # <<>>
    <3>1. \/ request[h].pc \in {"accepted", "execute"}
          \/ InsertSettlement(h) \/ SettleOnchain(h)
      BY <1>1, <2>3, PcSteps
    <3>2. CASE InsertSettlement(h)
      <4>1. Len(settlement') = Len(settlement) + 1
        BY <1>1, <3>2 DEF InsertSettlement, Types
      <4>2. QED  BY <1>1, <4>1 DEF Types
    <3>3. CASE SettleOnchain(h)
      BY <1>3, <3>3 DEF SettleOnchain
    <3>4. QED  BY <1>1, <1>3, <3>1, <3>2, <3>3 DEF RowsInv
  <2>4. ASSUME request'[h].pc = "declined"
        PROVE  \E d \in Disputes : dispute'[d] # "none"
    <3>1. request[h].pc = "declined" \/ OpenDispute(h)
      BY <1>1, <2>4, PcSteps
    <3>2. OpenDispute(h) => \E d \in Disputes : dispute'[d] # "none"
      BY <1>1 DEF OpenDispute, Types
    <3>3. QED  BY <1>1, <3>1, <3>2, DisputeKept DEF RowsInv
  <2>5. ASSUME request'[h] \in Resolving
        PROVE  dispute'[request'[h].dispute] # "none"
    <3>1. \/ request[h] \in Resolving /\ request'[h].dispute = request[h].dispute
          \/ ReadDispute(h)
      BY <1>1, <2>5, Carries
    <3>2. request'[h].dispute \in Disputes  BY <2>5 DEF Resolving
    <3>3. CASE ReadDispute(h)
      <4>1. dispute[request'[h].dispute] = "open"
        BY <1>1, <3>3, StartEffect DEF ReadDispute, LotStarts
      <4>2. QED  BY <1>1, <3>2, <4>1, DisputeKept
    <3>4. CASE request[h] \in Resolving /\ request'[h].dispute = request[h].dispute
      BY <1>1, <3>2, <3>4, DisputeKept DEF RowsInv
    <3>5. QED  BY <3>1, <3>3, <3>4
  <2>6. ASSUME request'[h] \in Reweighing, request'[h].linked \/ request'[h].pc # "reweigh"
        PROVE  HasRun'
    <3>1. CASE request[h] \in Reweighing /\ request'[h].linked = request[h].linked
      <4>1. CASE request[h].linked
        BY <1>1, <1>2, <3>1, <4>1 DEF RowsInv
      <4>2. CASE ~request[h].linked
        <5>1. request'[h].pc \in {"requestReweighing", "undoReweigh"}
          BY <2>6, <3>1, <4>2 DEF Reweighing
        <5>2. request[h].pc \in {"requestReweighing", "undoReweigh"}
          BY <1>1, <4>2, <5>1, PcSteps
        <5>3. QED  BY <1>1, <1>2, <3>1, <5>2 DEF RowsInv
      <4>3. QED  BY <4>1, <4>2
    <3>2. CASE ReadForReweigh(h)
      <4>1. request'[h].pc = "reweigh" /\ request'[h].linked = lot.onchain
        BY <1>1, <3>2, StartEffect DEF ReadForReweigh, LotStarts
      <4>2. lot.status \in {"ready_for_review", "review_required"}
        BY <2>6, <3>2, <4>1 DEF ReadForReweigh
      <4>3. QED  BY <1>1, <1>2, <4>2 DEF RowsInv, Backed
    <3>3. QED  BY <1>1, <2>6, <3>1, <3>2, Carries
  <2>7. QED  BY <2>1, <2>2, <2>3, <2>4, <2>5, <2>6
<1>6. QED  BY <1>4, <1>5 DEF RowsInv

\* A lot is created when nobody works on it, so its creator stays the only one.
LEMMA CreatingNext ==
  ASSUME LotInv, Next
  PROVE  CreatingInv'
<1>1. Types /\ CreatingInv  BY DEF LotInv
<1>2. \A h \in Creating' : h \in Creating \/ CreateLot(h)
  BY <1>1, PcSteps DEF Creating
<1>3. CASE \E h \in Handlers : CreateLot(h)
  <2>1. PICK h \in Handlers : CreateLot(h)
    BY <1>3
  <2>2. \A g \in Handlers : g \notin Creating
    BY <2>1 DEF CreateLot, Creating, Idle
  <2>3. \A g \in Handlers : CreateLot(g) => g = h
    <3>1. ASSUME NEW g \in Handlers, CreateLot(g), g # h PROVE FALSE
      <4>1. request' = [request EXCEPT ![h] = [pc |-> "assign"]]
        BY <2>1 DEF CreateLot, Starts
      <4>2. request'[g] = Idle
        BY <1>1, <2>1, <3>1, <4>1 DEF Types, CreateLot
      <4>3. request'[g] = [pc |-> "assign"]
        BY <1>1, <3>1, StartEffect DEF CreateLot
      <4>4. QED  BY <4>2, <4>3 DEF Idle
    <3>2. QED  BY <3>1
  <2>4. lot'.status # "none"
    BY <2>1 DEF CreateLot, NoLot
  <2>5. QED  BY <1>2, <2>2, <2>3, <2>4 DEF CreatingInv, Creating
<1>4. CASE \A h \in Handlers : ~CreateLot(h)
  <2>1. \A h \in Creating' : h \in Creating
    BY <1>2, <1>4 DEF Creating
  <2>2. ASSUME NEW h \in Creating' PROVE lot'.status # "none"
    <3>1. lot.status # "none"
      BY <1>1, <2>1 DEF CreatingInv
    <3>2. ASSUME lot' = NoLot, NEW g \in Handlers, UnregisterLot(g)
          PROVE  FALSE
      <4>1. g \in Creating  BY <3>2 DEF UnregisterLot, At, Creating
      <4>2. g = h  BY <1>1, <2>1, <4>1 DEF CreatingInv
      <4>3. request'[h] = Idle
        BY <1>1, <3>2, <4>2 DEF UnregisterLot, Done, Types
      <4>4. QED  BY <4>3 DEF Creating, Idle
    <3>3. QED  BY <3>1, <3>2, LotWrites
  <2>3. QED  BY <1>1, <2>1, <2>2 DEF CreatingInv
<1>5. QED  BY <1>3, <1>4

\* The unique (lot, version) gives an inspection's row one owner.
LEMMA OwnersNext ==
  ASSUME LotInv, Next
  PROVE  OwnersInv'
<1>1. Types /\ OwnersInv  BY DEF LotInv
<1>2. request' \in [Handlers -> RequestType]  BY <1>1, RequestTyped DEF LotInv
<1>3. ASSUME NEW h \in Owners'
      PROVE  /\ h \in Handlers /\ request'[h] \in Inspecting
             /\ request[h] \in Inspecting
             /\ request'[h].version = request[h].version
             /\ request'[h].weight = request[h].weight
             /\ h \in Owners \/ InsertInspection(h)
  <2>1. h \in Handlers /\ request'[h].pc \in {"advance", "check", "submit", "undo"}
    BY DEF Owners
  <2>2. request'[h] \in Inspecting
    BY <1>2, <2>1, ShapeOfPc
  <2>3. h \in Owners \/ InsertInspection(h)
    BY <1>1, <2>1, PcSteps DEF Owners
  <2>4. ~ReadForInspection(h)
    <3>1. ReadForInspection(h) => request'[h].pc = "insert"
      BY <1>1, <2>1, StartEffect DEF ReadForInspection, LotStarts
    <3>2. QED  BY <2>1, <3>1
  <2>5. QED  BY <1>1, <2>1, <2>2, <2>3, <2>4, Carries
<1>4. ASSUME NEW h \in Handlers, InsertInspection(h), request'[h].pc = "advance"
      PROVE  /\ inspection[request[h].version] = 0
             /\ inspection' = [inspection EXCEPT ![request[h].version] = request[h].weight]
  BY <1>1, <1>4 DEF InsertInspection, Done, Idle, Types
<1>5. ASSUME NEW h \in Handlers, InsertInspection(h), h \in Owners'
      PROVE  /\ inspection[request[h].version] = 0
             /\ inspection' = [inspection EXCEPT ![request[h].version] = request[h].weight]
             /\ h \notin Owners
             /\ \A g \in Handlers \ {h} : request'[g] = request[g]
  <2>1. At(h, "insert")  BY <1>5 DEF InsertInspection
  <2>2. request'[h].pc # "idle"  BY <1>5 DEF Owners
  <2>3. \/ inspection' = [inspection EXCEPT ![request[h].version] = request[h].weight]
           /\ inspection[request[h].version] = 0
        \/ request'[h] = Idle
    BY <1>1, <1>5 DEF InsertInspection, Done, Types
  <2>4. \A g \in Handlers \ {h} : request'[g] = request[g]
    BY <1>1, <1>5 DEF InsertInspection, Done, Goto, Types
  <2>5. QED  BY <2>1, <2>2, <2>3, <2>4 DEF At, Owners, Idle
<1>6. \A h \in Owners : request[h] \in Inspecting /\ request[h].weight # 0
  BY <1>1, ShapeOfPc, LotAssumption DEF Owners, Types, Inspecting
<1>7. CASE \E h \in Handlers : InsertInspection(h) /\ h \in Owners'
  <2>1. PICK h \in Handlers : InsertInspection(h) /\ h \in Owners'
    BY <1>7
  <2>2. /\ inspection[request[h].version] = 0
        /\ inspection' = [inspection EXCEPT ![request[h].version] = request[h].weight]
        /\ h \notin Owners
        /\ \A g \in Handlers \ {h} : request'[g] = request[g]
    BY <1>5, <2>1
  <2>3. \A g \in Owners' : g = h \/ g \in Owners
    BY <2>2 DEF Owners
  <2>4. \A g \in Owners : request[g].version # request[h].version
    BY <1>1, <1>6, <2>2 DEF OwnersInv
  <2>5. request[h].version \in Versions
    BY <1>3, <2>1 DEF Inspecting
  <2>6. \A g \in Owners' : inspection'[request'[g].version] = request'[g].weight
    BY <1>1, <1>3, <1>6, <2>1, <2>2, <2>3, <2>4, <2>5 DEF OwnersInv, Types, Inspecting
  <2>7. QED
    BY <1>1, <1>3, <2>1, <2>3, <2>4, <2>6 DEF OwnersInv
<1>8. CASE \A h \in Handlers : ~(InsertInspection(h) /\ h \in Owners')
  <2>1. \A g \in Owners' : g \in Owners
    BY <1>3, <1>8
  <2>2. ASSUME NEW g \in Owners'
        PROVE  inspection'[request[g].version] = inspection[request[g].version]
    <3>1. ASSUME NEW h \in Handlers, InsertInspection(h)
          PROVE  inspection'[request[g].version] = inspection[request[g].version]
      <4>1. \/ inspection' = inspection
            \/ /\ inspection' = [inspection EXCEPT ![request[h].version] = request[h].weight]
               /\ inspection[request[h].version] = 0
        BY <3>1 DEF InsertInspection
      <4>2. inspection[request[g].version] # 0
        BY <1>1, <1>6, <2>1 DEF OwnersInv
      <4>3. QED  BY <1>1, <1>6, <2>1, <4>1, <4>2 DEF Types, Inspecting
    <3>2. ASSUME NEW h \in Handlers, DeleteInspection(h)
          PROVE  inspection'[request[g].version] = inspection[request[g].version]
      <4>1. h \in Owners  BY <3>2 DEF DeleteInspection, At, Owners
      <4>2. h \notin Owners'
        <5>1. request[h] \in Inspecting  BY <1>6, <4>1
        <5>2. request'[h].pc = "restore"
          BY <1>1, <3>2, <5>1 DEF DeleteInspection, Goto, Types, Inspecting
        <5>3. QED  BY <5>2 DEF Owners
      <4>3. request[g].version # request[h].version
        BY <1>1, <2>1, <4>1, <4>2 DEF OwnersInv
      <4>4. inspection' = [inspection EXCEPT ![request[h].version] = 0]
        BY <3>2 DEF DeleteInspection
      <4>5. QED  BY <1>1, <1>6, <2>1, <4>3, <4>4 DEF Types, Inspecting
    <3>3. QED  BY <3>1, <3>2, InspectionChanges
  <2>3. QED  BY <1>1, <1>3, <2>1, <2>2 DEF OwnersInv
<1>9. QED  BY <1>7, <1>8

-----------------------------------------------------------------------------
(* The contract's lot *)

\* The calls that the contract takes.
Registers == chain.status = "ABSENT" /\ \E p \in Producers : chain' = Registered(p)
Inspects  == \E v \in Versions :
               TakesInspection(v) /\ inspection[v] # 0 /\ chain' = Inspected(v)
Attests   == \E r \in Runs, result \in Verdicts :
               /\ run[r].version \in Versions /\ run[r].status # "none"
               /\ TakesAttestation(run[r].version, result) /\ chain' = Attested(r, result)
Reweighs  == TakesReweighing(lot.producer) /\ chain' = Reweighed
Pays      == \E i \in DOMAIN settlement :
               /\ \E r \in Runs : run[r].version = settlement[i].version
                                  /\ run[r].result \in Verdicts
               /\ TakesAcceptance(lot.producer, settlement[i].version, settlement[i].price)
               /\ chain' = Accepted(settlement[i].version, settlement[i].price)
Settles   == InBatch /\ chain' = [chain EXCEPT !.status = "SETTLED"]

\* A step of the contract is one of these calls.
LEMMA ChainSteps ==
  ASSUME LotInv, Next
  PROVE  \/ UNCHANGED chain
         \/ Registers \/ Inspects \/ Attests \/ Reweighs \/ Pays \/ Settles
<1>1. Types /\ RowsInv /\ JobsInv /\ ExecutingInv /\ WorkerInv /\ ChainInv
  BY DEF LotInv
<1>2. lot.status # "none" => lot.producer \in Producers
  BY <1>1 DEF RowsInv
<1>3. \A r \in Runs : run[r].result \in Verdicts => run[r].status # "none"
  BY <1>1 DEF JobsInv, NoRun, Verdicts, Acceptable
<1>4. CASE SettleInBatch
  BY <1>4 DEF SettleInBatch, Settles
<1>5. ASSUME NEW h \in Handlers, RegisterLot(h)
      PROVE  UNCHANGED chain \/ Registers
  <2>1. lot.status # "none"
    BY <1>5 DEF RegisterLot, At, LotInv, CreatingInv, Creating
  <2>2. QED  BY <1>2, <1>5, <2>1 DEF RegisterLot, Sent, Registers
<1>6. ASSUME NEW h \in Handlers, CheckInspection(h)
      PROVE  UNCHANGED chain \/ Registers
  <2>1. request[h] \in Inspecting /\ h \in Owners
    BY <1>1, <1>6, ShapeOfPc DEF CheckInspection, At, Types, Owners
  <2>2. inspection[request[h].version] # 0
    BY <2>1, LotAssumption DEF LotInv, OwnersInv, Inspecting
  <2>3. lot.status # "none"
    BY <1>1, <2>1, <2>2 DEF RowsInv, Referenced, Inspecting
  <2>4. QED  BY <1>2, <1>6, <2>3 DEF CheckInspection, Sent, Registers
<1>7. ASSUME NEW h \in Handlers, SubmitInspection(h)
      PROVE  UNCHANGED chain \/ Inspects
  <2>1. request[h] \in Inspecting /\ h \in Owners
    BY <1>1, <1>7, ShapeOfPc DEF SubmitInspection, At, Types, Owners
  <2>2. inspection[request[h].version] # 0 /\ request[h].version \in Versions
    BY <2>1, LotAssumption DEF LotInv, OwnersInv, Inspecting
  <2>3. QED  BY <1>7, <2>2 DEF SubmitInspection, Sent, Inspects
<1>8. ASSUME NEW h \in Handlers, RequestReweighing(h)
      PROVE  UNCHANGED chain \/ Reweighs
  BY <1>8 DEF RequestReweighing, Sent, Reweighs
<1>9. ASSUME NEW h \in Handlers, CompleteOnchain(h)
      PROVE  UNCHANGED chain \/ Registers \/ Inspects \/ Attests
  <2>1. /\ request[h] \in Executing
        /\ request[h].row \in DOMAIN settlement
        /\ settlement[request[h].row] \in SettlementType
    BY <1>1, <1>9, ShapeOfPc DEF CompleteOnchain, At, Types, ExecutingInv
  <2> DEFINE r == request[h].run
             v == settlement[request[h].row].version
  <2>2. /\ r \in Runs /\ run[r].version = v /\ run[r].result \in Verdicts
        /\ run[r].status # "none" /\ v \in Versions /\ request[h].verdict \in Verdicts
    BY <1>1, <1>3, <2>1 DEF ExecutingInv, Executing, SettlementType
  <2>3. settlement # <<>> /\ lot.producer \in Producers
    BY <1>1, <1>2, <2>1 DEF RowsInv, Referenced
  <2>4. \/ UNCHANGED chain
        \/ chain.status = "ABSENT" /\ chain' = Registered(lot.producer)
        \/ TakesInspection(v) /\ inspection[v] # 0 /\ chain' = Inspected(v)
        \/ /\ TakesAttestation(v, request[h].verdict)
           /\ chain' = Attested(r, request[h].verdict)
    BY <1>9 DEF CompleteOnchain, Sent
  <2> HIDE DEF r, v
  <2>5. QED  BY <2>2, <2>3, <2>4 DEF Registers, Inspects, Attests
<1>10. ASSUME NEW h \in Handlers, Pay(h)
       PROVE  UNCHANGED chain \/ Pays
  <2>1. /\ request[h].row \in DOMAIN settlement
        /\ \E r \in Runs : /\ run[r].version = settlement[request[h].row].version
                           /\ run[r].result \in Verdicts
    BY <1>1, <1>10, ShapeOfPc DEF Pay, At, Types, ExecutingInv, Executing
  <2>2. QED  BY <1>10, <2>1 DEF Pay, Sent, Pays
<1>11. CASE Attest
  <2>1. worker \in WorkerType /\ worker.run \in Runs /\ worker # Idle
    BY <1>1, <1>11, WorkerBusy
  <2>2. worker.verdict \in Verdicts /\ Mine.status # "none"
    BY <1>1, <1>11, <2>1 DEF WorkerInv, WorkerType, Attest, JobsInv, Mine
  <2>3. \/ UNCHANGED chain
        \/ /\ TakesAttestation(Mine.version, worker.verdict)
           /\ chain' = Attested(worker.run, worker.verdict)
    BY <1>11 DEF Attest, Sent
  <2>4. TakesAttestation(Mine.version, worker.verdict) => Mine.version \in Versions
    BY <1>1, LotAssumption DEF ChainInv, TakesAttestation, Types, ChainType, Versions
  <2>5. QED  BY <1>3, <2>1, <2>2, <2>3, <2>4 DEF Attests, Mine
<1>12. QED
  BY <1>4, <1>5, <1>6, <1>7, <1>8, <1>9, <1>10, <1>11, ChainChanges

LEMMA ChainTyped ==
  ASSUME LotInv, Next
  PROVE  chain' \in ChainType
<1>1. Types  BY DEF LotInv
<1>2. chain \in ChainType  BY <1>1 DEF Types
<1>3. CASE Registers
  BY <1>2, <1>3 DEF Registers, Registered, ChainType
<1>4. CASE Inspects
  <2>1. PICK v \in Versions : inspection[v] # 0 /\ chain' = Inspected(v)
    BY <1>4 DEF Inspects
  <2>2. inspection[v] \in Weights \cup {0} /\ v \in 0 .. MaxVersion
    BY <1>1, LotAssumption DEF Types, Versions
  <2>3. QED  BY <1>2, <2>1, <2>2 DEF Inspected, ChainType
<1>5. CASE Attests
  <2>1. PICK r \in Runs, result \in Verdicts :
          run[r].version \in Versions /\ chain' = Attested(r, result)
    BY <1>5 DEF Attests
  <2>2. QED  BY <1>2, <2>1 DEF Attested, ChainType
<1>6. CASE Reweighs
  BY <1>2, <1>6 DEF Reweighs, Reweighed, ChainType
<1>7. CASE Pays
  <2>1. PICK i \in DOMAIN settlement :
          chain' = Accepted(settlement[i].version, settlement[i].price)
    BY <1>7 DEF Pays
  <2>2. settlement[i] \in SettlementType  BY <1>1 DEF Types
  <2>3. settlement[i].version \in 0 .. MaxVersion /\ settlement[i].price \in Weights
    BY <2>2, LotAssumption DEF SettlementType, Versions
  <2>4. QED  BY <1>2, <2>1, <2>3 DEF Accepted, ChainType
<1>8. CASE Settles
  BY <1>2, <1>8 DEF Settles, ChainType
<1>9. QED
  BY <1>2, <1>3, <1>4, <1>5, <1>6, <1>7, <1>8, ChainSteps

\* The contract's own part of the invariant.
LEMMA ChainNext ==
  ASSUME LotInv, Next
  PROVE  ChainInv'
<1>1. Types /\ ChainInv  BY DEF LotInv
<1>2. chain \in ChainType  BY <1>1 DEF Types
<1>3. CASE UNCHANGED chain
  BY <1>1, <1>3 DEF ChainInv
<1>4. CASE Registers
  BY <1>1, <1>2, <1>4 DEF Registers, Registered, ChainInv, ChainType, Sealed
<1>5. CASE Inspects
  <2>1. PICK v \in Versions :
          TakesInspection(v) /\ inspection[v] # 0 /\ chain' = Inspected(v)
    BY <1>5 DEF Inspects
  <2>2. inspection[v] \in Weights \cup {0} /\ v \in Nat
    BY <1>1, LotAssumption DEF Types, Versions
  <2>3. /\ chain'.status = "AUDITING" /\ chain'.version = chain.version + 1
        /\ chain'.producer = chain.producer /\ chain'.quote = chain.quote
        /\ chain'.attestation = chain.attestation
        /\ chain'.weight = [chain.weight EXCEPT ![v] = inspection[v]]
        /\ v = chain.version + 1
        /\ chain.status \in {"REGISTERED", "REWEIGHING_REQUESTED", "REVIEW_REQUIRED"}
    BY <1>2, <2>1 DEF Inspected, TakesInspection, ChainType
  <2>4. ASSUME NEW w \in Versions
        PROVE  /\ chain'.weight[w] # 0 <=> w <= chain'.version
               /\ w > chain'.version => chain'.attestation[w] = NoAttestation
    <3>1. chain.version \in Nat /\ w \in Nat
      BY <1>2, LotAssumption DEF ChainType, Versions
    <3>2. /\ chain.weight[w] # 0 <=> w <= chain.version
          /\ w > chain.version => chain.attestation[w] = NoAttestation
      BY <1>1 DEF ChainInv
    <3>3. chain'.weight[w] = IF w = v THEN inspection[v] ELSE chain.weight[w]
      BY <1>2, <2>3 DEF ChainType
    <3>4. QED  BY <2>1, <2>2, <2>3, <3>1, <3>2, <3>3
  <2>5. chain'.version # 0 /\ chain'.producer \in Producers /\ chain'.quote = NoQuote
    BY <1>1, <1>2, <2>2, <2>3 DEF ChainInv, ChainType, Sealed
  <2>6. QED  BY <2>3, <2>4, <2>5 DEF ChainInv, Sealed
<1>6. CASE Attests
  <2>1. PICK r \in Runs, result \in Verdicts :
          /\ run[r].version \in Versions
          /\ TakesAttestation(run[r].version, result) /\ chain' = Attested(r, result)
    BY <1>6 DEF Attests
  <2>2. QED
    BY <1>1, <1>2, <2>1 DEF Attested, TakesAttestation, ChainInv, ChainType, Sealed
<1>7. CASE Reweighs
  BY <1>1, <1>2, <1>7
     DEF Reweighs, Reweighed, TakesReweighing, ChainInv, ChainType, Sealed
<1>8. CASE Pays
  <2>1. PICK i \in DOMAIN settlement :
          /\ TakesAcceptance(lot.producer, settlement[i].version, settlement[i].price)
          /\ chain' = Accepted(settlement[i].version, settlement[i].price)
    BY <1>8 DEF Pays
  <2>2. settlement[i] \in SettlementType  BY <1>1 DEF Types
  <2>3. QED
    BY <1>1, <1>2, <2>1, <2>2
       DEF Accepted, TakesAcceptance, SettlementType, ChainInv, ChainType, Sealed
<1>9. CASE Settles
  BY <1>1, <1>2, <1>9 DEF Settles, InBatch, ChainInv, ChainType, Sealed
<1>10. QED
  BY <1>3, <1>4, <1>5, <1>6, <1>7, <1>8, <1>9, ChainSteps

\* A payment stays the payment that was accepted.
LEMMA SealedKept ==
  ASSUME LotInv, Next, chain.status \in Sealed
  PROVE  /\ chain'.status \in Sealed /\ chain'.quote = chain.quote
         /\ Paid => Paid'
<1>1. chain \in ChainType  BY DEF LotInv, Types
<1>2. ~(Registers \/ Inspects \/ Attests \/ Reweighs \/ Pays)
  BY DEF Registers, Inspects, Attests, Reweighs, Pays, TakesInspection, TakesAttestation,
         TakesReweighing, TakesAcceptance, Sealed
<1>3. QED
  BY <1>1, <1>2, ChainSteps DEF Settles, ChainType, Sealed, Paid

\* Only a payment seals the quote.
LEMMA SealedByPayment ==
  ASSUME LotInv, Next, chain.status \notin Sealed, chain'.status \in Sealed
  PROVE  Pays
<1>1. chain \in ChainType  BY DEF LotInv, Types
<1>2. CASE Registers
  BY <1>1, <1>2 DEF Registers, Registered, ChainType, Sealed
<1>3. CASE Inspects
  BY <1>1, <1>3 DEF Inspects, Inspected, ChainType, Sealed
<1>4. CASE Attests
  BY <1>1, <1>4 DEF Attests, Attested, ChainType, Sealed
<1>5. CASE Reweighs
  BY <1>1, <1>5 DEF Reweighs, Reweighed, ChainType, Sealed
<1>6. CASE Settles
  BY <1>6 DEF Settles, InBatch, Sealed
<1>7. QED
  BY <1>2, <1>3, <1>4, <1>5, <1>6, ChainSteps

\* A verdict on the chain is never overwritten.
LEMMA AttestationKept ==
  ASSUME LotInv, Next, NEW v \in Versions, chain.attestation[v] # NoAttestation
  PROVE  chain'.attestation[v] = chain.attestation[v]
<1>1. chain \in ChainType  BY DEF LotInv, Types
<1>2. CASE Attests
  <2>1. PICK r \in Runs, result \in Verdicts :
          TakesAttestation(run[r].version, result) /\ chain' = Attested(r, result)
    BY <1>2 DEF Attests
  <2>2. v # run[r].version
    BY <2>1 DEF TakesAttestation
  <2>3. QED  BY <1>1, <2>1, <2>2 DEF Attested, ChainType
<1>3. CASE UNCHANGED chain \/ Registers \/ Inspects \/ Reweighs \/ Pays \/ Settles
  BY <1>1, <1>3
     DEF Registers, Registered, Inspects, Inspected, Reweighs, Reweighed, Pays, Accepted,
         Settles, ChainType
<1>4. QED  BY <1>2, <1>3, ChainSteps

\* A run's row has a version from the moment that it is requested.
LEMMA RequestedRun ==
  ASSUME LotInv, NEW r \in Runs, run[r].version # 0 \/ run[r].result # "none"
  PROVE  run[r].status # "none"
BY DEF LotInv, JobsInv, NoRun

\* Verdicts stay of runs of their version, and payments of a version with a report.
LEMMA ReportedNext ==
  ASSUME LotInv, Next
  PROVE  ReportedInv'
<1>1. Types /\ ReportedInv  BY DEF LotInv
<1>2. chain \in ChainType /\ run \in [Runs -> RunType]  BY <1>1 DEF Types
<1>3. "none" \notin Verdicts /\ 0 \notin Versions
  BY DEF Verdicts, Acceptable, Versions
<1>4. ASSUME NEW r \in Runs, run[r].version \in Versions
      PROVE  /\ run'[r].version = run[r].version
             /\ run[r].result \in Verdicts => run'[r].result \in Verdicts
  <2>1. run[r].status # "none"  BY <1>3, <1>4, RequestedRun
  <2>2. QED  BY <1>1, <2>1, RunContinues DEF Continues
<1>5. ASSUME NEW v \in Versions, chain'.attestation[v] # NoAttestation
      PROVE  run'[chain'.attestation[v].run].version = v
  <2>1. CASE chain.attestation[v] # NoAttestation
    <3>1. chain.attestation[v].run \in Runs
      BY <1>2, <2>1 DEF ChainType
    <3>2. run[chain.attestation[v].run].version = v
      BY <1>1, <2>1 DEF ReportedInv
    <3>3. QED  BY <1>4, <2>1, <3>1, <3>2, AttestationKept
  <2>2. CASE chain.attestation[v] = NoAttestation
    <3>1. CASE Attests
      <4>1. PICK r \in Runs, result \in Verdicts :
              run[r].version \in Versions /\ chain' = Attested(r, result)
        BY <3>1 DEF Attests
      <4>2. chain'.attestation[v] = IF v = run[r].version THEN [run |-> r, result |-> result]
                                    ELSE chain.attestation[v]
        BY <1>2, <4>1 DEF Attested, ChainType
      <4>3. v = run[r].version /\ chain'.attestation[v].run = r
        BY <1>5, <2>2, <4>2
      <4>4. QED  BY <1>4, <4>1, <4>3
    <3>2. CASE UNCHANGED chain \/ Registers \/ Inspects \/ Reweighs \/ Pays \/ Settles
      <4>1. chain'.attestation = chain.attestation
        BY <1>2, <3>2
           DEF Registers, Registered, Inspects, Inspected, Reweighs, Reweighed, Pays,
               Accepted, Settles, ChainType
      <4>2. QED  BY <1>5, <2>2, <4>1
    <3>3. QED  BY <3>1, <3>2, ChainSteps
  <2>3. QED  BY <2>1, <2>2
<1>6. ASSUME chain'.status \in Sealed
      PROVE  \E r \in Runs : run'[r].version = chain'.quote.version
                            /\ run'[r].result \in Verdicts
  <2>1. \E r \in Runs : /\ run[r].version = chain'.quote.version
                        /\ run[r].version \in Versions /\ run[r].result \in Verdicts
    <3>1. CASE chain.status \in Sealed
      <4>1. chain'.quote = chain.quote  BY <3>1, SealedKept
      <4>2. chain.quote.version \in Versions
        BY <1>2, <3>1, LotAssumption
           DEF LotInv, ChainInv, ChainType, Sealed, Versions
      <4>3. QED  BY <1>1, <3>1, <4>1, <4>2 DEF ReportedInv
    <3>2. CASE chain.status \notin Sealed
      <4>1. PICK i \in DOMAIN settlement :
              /\ \E r \in Runs : run[r].version = settlement[i].version
                                 /\ run[r].result \in Verdicts
              /\ chain' = Accepted(settlement[i].version, settlement[i].price)
        BY <1>6, <3>2, SealedByPayment DEF Pays
      <4>2. settlement[i].version \in Versions
        BY <1>1 DEF Types, SettlementType
      <4>3. chain'.quote.version = settlement[i].version
        BY <1>2, <4>1 DEF Accepted, ChainType
      <4>4. QED  BY <4>1, <4>2, <4>3
    <3>3. QED  BY <3>1, <3>2
  <2>2. QED  BY <1>4, <2>1
<1>7. QED  BY <1>5, <1>6 DEF ReportedInv

\* Only a lot that has its id is registered, and only a new row has none.
LEMMA LinkedNext ==
  ASSUME LotInv, Next
  PROVE  LinkedInv'
<1>1. Types /\ CreatingInv /\ LinkedInv  BY DEF LotInv
<1>2. lot \in LotType /\ chain \in ChainType  BY <1>1 DEF Types
<1>3. ASSUME chain.status = "ABSENT", chain'.status # "ABSENT"
      PROVE  lot.onchain /\ UNCHANGED lot
  <2>1. Registers
    BY <1>3, ChainSteps
       DEF Inspects, TakesInspection, Attests, TakesAttestation, Reweighs, TakesReweighing,
           Pays, TakesAcceptance, Settles, InBatch
  <2>2. chain' # chain  BY <1>3
  <2>3. \/ \E h \in Handlers :
             \/ RegisterLot(h) \/ CheckInspection(h) \/ SubmitInspection(h)
             \/ RequestReweighing(h) \/ CompleteOnchain(h) \/ Pay(h)
        \/ Attest \/ SettleInBatch
    BY <2>2, ChainChanges
  <2>4. ASSUME NEW h \in Handlers, RegisterLot(h) PROVE lot.onchain /\ UNCHANGED lot
    BY <1>1, <2>4 DEF RegisterLot, At, LinkedInv, rows
  <2>5. ASSUME NEW h \in Handlers, CheckInspection(h) PROVE lot.onchain /\ UNCHANGED lot
    BY <2>5 DEF CheckInspection, rows
  <2>6. ASSUME NEW h \in Handlers, CompleteOnchain(h) PROVE lot.onchain /\ UNCHANGED lot
    BY <2>6 DEF CompleteOnchain
  <2>7. ASSUME NEW h \in Handlers, SubmitInspection(h) PROVE FALSE
    BY <1>3, <2>2, <2>7 DEF SubmitInspection, Sent, TakesInspection
  <2>8. ASSUME NEW h \in Handlers, RequestReweighing(h) PROVE FALSE
    BY <1>3, <2>2, <2>8 DEF RequestReweighing, Sent, TakesReweighing
  <2>9. ASSUME NEW h \in Handlers, Pay(h) PROVE FALSE
    BY <1>3, <2>2, <2>9 DEF Pay, Sent, TakesAcceptance
  <2>10. ~Attest /\ ~SettleInBatch
    BY <1>3, <2>2 DEF Attest, Sent, TakesAttestation, SettleInBatch, InBatch
  <2>11. QED  BY <2>3, <2>4, <2>5, <2>6, <2>7, <2>8, <2>9, <2>10
<1>4. chain'.status # "ABSENT" /\ lot'.status # "none" => lot'.onchain
  <2>1. SUFFICES ASSUME chain'.status # "ABSENT", lot'.status # "none"
                 PROVE  lot'.onchain
    OBVIOUS
  <2>2. CASE chain.status = "ABSENT"
    BY <1>3, <2>1, <2>2
  <2>3. CASE chain.status # "ABSENT"
    <3>1. UNCHANGED lot \/ (lot.status # "none" /\ (lot.onchain => lot'.onchain))
      BY <2>1, <2>3, LotWrites DEF NoLot
    <3>2. QED  BY <1>1, <2>1, <2>3, <3>1 DEF LinkedInv
  <2>4. QED  BY <2>2, <2>3
<1>5. ASSUME NEW h \in Handlers, request'[h].pc = "register"
      PROVE  lot'.onchain
  <2>1. CASE AssignId(h)
    BY <1>2, <2>1 DEF AssignId, LotType
  <2>2. CASE request[h].pc = "register"
    <3>1. lot.onchain /\ h \in Creating
      BY <1>1, <2>2 DEF LinkedInv, Creating
    <3>2. request[h] # Idle  BY <2>2 DEF Idle
    <3>3. ASSUME NEW g \in Handlers, UnregisterLot(g) PROVE FALSE
      <4>1. g \in Creating /\ request[g].pc = "unregister"
        BY <3>3 DEF UnregisterLot, At, Creating
      <4>2. QED  BY <1>1, <2>2, <3>1, <4>1 DEF CreatingInv
    <3>4. UNCHANGED lot \/ (lot.onchain => lot'.onchain)
      BY <3>2, <3>3, LotWrites
    <3>5. QED  BY <3>1, <3>4
  <2>3. QED  BY <1>1, <1>5, <2>1, <2>2, PcSteps
<1>6. QED  BY <1>4, <1>5 DEF LinkedInv

-----------------------------------------------------------------------------
(* Audits *)

\* Which steps move the queue and the worker.
LEMMA JobChanges ==
  ASSUME Next
  PROVE  \/ UNCHANGED job
         \/ \E h \in Handlers : Enqueue(h)
         \/ (\E r \in Runs : TakeJob(r)) \/ Complete \/ Throw \/ FailLot
         \/ QueryFails \/ WorkerStops
<1>1. ASSUME NEW h \in Handlers, LotRequest(h)
      PROVE  UNCHANGED job
  BY <1>1 DEF LotRequest, CreateLot, ReadAwaiting, ReadDispute, ReadForInspection,
              ReadForReweigh, RequestAudit
<1>2. ASSUME NEW h \in Handlers, LotStep(h)
      PROVE  UNCHANGED job \/ Enqueue(h)
  BY <1>2 DEF LotStep, AssignId, RegisterLot, UnregisterLot, Confirm, OpenDispute,
              Decline, ResolveLot, CloseDispute, InsertInspection, AdvanceLot,
              AssignInspectedId, CheckInspection, SubmitInspection, DeleteInspection,
              RestoreLot, MarkReweighing, RequestReweighing, UndoReweigh, MarkAuditing,
              RowGone
<1>3. ASSUME NEW h \in Handlers, SettlementRequest(h) \/ SettlementStep(h)
      PROVE  UNCHANGED job
  BY <1>3 DEF SettlementRequest, SettlementStep, ReadForAcceptance, SettleOnchain,
              ReadForPayout, InsertSettlement, MarkAccepted, NothingToExecute,
              LoadSettlement, AssignSettledId, CompleteOnchain, Pay, BookSettlement,
              BookSettledLot, InsertPayout, PayoutLot, PayoutSettlement, rest
<1>4. ASSUME WorkerStep
      PROVE  \/ UNCHANGED job
             \/ (\E r \in Runs : TakeJob(r)) \/ Complete \/ Throw \/ FailLot
  BY <1>4 DEF WorkerStep, CallTool, LeaveTools, BookLot, Finish, Attest, BookAttestation
<1>5. CASE SettleInBatch \/ ServerStops
  BY <1>5 DEF SettleInBatch, ServerStops
<1>6. QED
  BY <1>1, <1>2, <1>3, <1>4, <1>5 DEF Next, RequestStep

LEMMA WorkerChanges ==
  ASSUME Next
  PROVE  UNCHANGED <<worker, completions>> \/ WorkerStep \/ QueryFails \/ WorkerStops
<1>1. ASSUME NEW h \in Handlers, LotRequest(h)
      PROVE  UNCHANGED <<worker, completions>>
  BY <1>1 DEF LotRequest, CreateLot, ReadAwaiting, ReadDispute, ReadForInspection,
              ReadForReweigh, RequestAudit, others, rows
<1>2. ASSUME NEW h \in Handlers, LotStep(h)
      PROVE  UNCHANGED <<worker, completions>>
  BY <1>2 DEF LotStep, AssignId, RegisterLot, UnregisterLot, Confirm, OpenDispute,
              Decline, ResolveLot, CloseDispute, InsertInspection, AdvanceLot,
              AssignInspectedId, CheckInspection, SubmitInspection, DeleteInspection,
              RestoreLot, MarkReweighing, RequestReweighing, UndoReweigh, MarkAuditing,
              Enqueue, RowGone, others, rows
<1>3. ASSUME NEW h \in Handlers, SettlementRequest(h) \/ SettlementStep(h)
      PROVE  UNCHANGED <<worker, completions>>
  BY <1>3 DEF SettlementRequest, SettlementStep, ReadForAcceptance, SettleOnchain,
              ReadForPayout, InsertSettlement, MarkAccepted, NothingToExecute,
              LoadSettlement, AssignSettledId, CompleteOnchain, Pay, BookSettlement,
              BookSettledLot, InsertPayout, PayoutLot, PayoutSettlement, rest
<1>4. CASE SettleInBatch \/ ServerStops
  BY <1>4 DEF SettleInBatch, ServerStops, rows
<1>5. QED
  BY <1>1, <1>2, <1>3, <1>4 DEF Next, RequestStep

\* The next state of a job: its state, whether an attempt failed, whether it stalled.
LEMMA JobSteps ==
  ASSUME LotInv, Next
  PROVE  /\ job' \in [Runs -> JobType]
         /\ \A r \in Runs :
              \/ job'[r] = job[r]
              \/ /\ job[r].state = "none" /\ job'[r].state = "waiting"
                 /\ job'[r].failures = job[r].failures
                 /\ \E h \in Handlers : Enqueue(h) /\ request[h].run = r
              \/ /\ TakeJob(r) /\ job'[r].state = "active"
                 /\ job'[r].failures = job[r].failures
              \/ /\ worker # Idle /\ worker.run = r /\ worker' = Idle
                 /\ \/ /\ job'[r].state = "waiting" /\ job'[r].failures < MaxAttempts
                    \/ job'[r].state = "done" /\ Complete
                    \/ job'[r].state = "failed"
<1>1. Types /\ JobsInv /\ WorkerInv  BY DEF LotInv
<1>2. job \in [Runs -> JobType]  BY <1>1 DEF Types
<1>3. CASE UNCHANGED job
  BY <1>2, <1>3
<1>4. ASSUME NEW h \in Handlers, Enqueue(h)
      PROVE  /\ job' \in [Runs -> JobType]
             /\ \A r \in Runs :
                  \/ job'[r] = job[r]
                  \/ /\ job[r].state = "none" /\ job'[r].state = "waiting"
                     /\ job'[r].failures = job[r].failures
                     /\ request[h].run = r
  <2>1. request[h] \in Auditing /\ h \in Enqueuing
    BY <1>1, <1>4, ShapeOfPc DEF Enqueue, At, Types, Enqueuing
  <2>2. request[h].run \in Runs /\ job[request[h].run].state = "none"
    BY <1>1, <2>1 DEF JobsInv, Auditing
  <2>3. job' = [job EXCEPT ![request[h].run] = [job[request[h].run] EXCEPT !.state = "waiting"]]
    BY <1>4 DEF Enqueue
  <2>4. QED  BY <1>2, <2>2, <2>3 DEF JobType
<1>5. ASSUME NEW r \in Runs, TakeJob(r)
      PROVE  /\ job' \in [Runs -> JobType]
             /\ \A s \in Runs \ {r} : job'[s] = job[s]
             /\ job'[r].state = "active" /\ job'[r].failures = job[r].failures
  <2>1. job' = [job EXCEPT ![r] = [job[r] EXCEPT !.state = "active"]]
    BY <1>5 DEF TakeJob
  <2>2. QED  BY <1>2, <2>1 DEF JobType
<1>6. CASE Complete \/ Throw \/ FailLot \/ QueryFails \/ WorkerStops
  <2>1. worker # Idle /\ worker.run \in Runs
    BY <1>1, <1>6, WorkerBusy
  <2> DEFINE j == job[worker.run]
  <2>2. j \in JobType /\ j.failures < MaxAttempts /\ j.state = "active"
    BY <1>1, <1>2, <2>1 DEF JobsInv, WorkerInv
  <2>3. MaxAttempts \in Nat \ {0}  BY LotAssumption
  <2>4. CASE Complete
    <3>1. job' = [job EXCEPT ![worker.run] = [j EXCEPT !.state = "done"]] /\ worker' = Idle
      BY <2>4 DEF Complete
    <3>2. QED  BY <1>2, <2>1, <2>2, <2>4, <3>1 DEF JobType
  <2>5. CASE FailAttempt
    <3> DEFINE n == j.failures + 1
               failed == [j EXCEPT !.failures = n,
                                   !.state = IF n < MaxAttempts THEN "waiting" ELSE "failed"]
    <3>1. job' = [job EXCEPT ![worker.run] = failed] /\ worker' = Idle
      BY <2>5 DEF FailAttempt
    <3>2. /\ failed \in JobType
          /\ \/ failed.state = "waiting" /\ failed.failures < MaxAttempts
             \/ failed.state = "failed"
      <4>1. n \in 0 .. MaxAttempts  BY <2>2, <2>3 DEF JobType
      <4>2. CASE n < MaxAttempts
        <5>1. failed = [j EXCEPT !.failures = n, !.state = "waiting"]  BY <4>2
        <5>2. QED  BY <2>2, <4>1, <4>2, <5>1 DEF JobType
      <4>3. CASE ~(n < MaxAttempts)
        <5>1. failed = [j EXCEPT !.failures = n, !.state = "failed"]  BY <4>3
        <5>2. QED  BY <2>2, <4>1, <5>1 DEF JobType
      <4>4. QED  BY <4>2, <4>3
    <3>3. QED  BY <1>2, <2>1, <2>5, <3>1, <3>2
  <2>6. CASE WorkerStops
    <3> DEFINE stopped == [j EXCEPT !.state = IF j.stalled THEN "failed" ELSE "waiting",
                                    !.stalled = TRUE]
    <3>1. job' = [job EXCEPT ![worker.run] = stopped] /\ worker' = Idle
      BY <2>6 DEF WorkerStops
    <3>2. /\ stopped \in JobType
          /\ \/ stopped.state = "waiting" /\ stopped.failures < MaxAttempts
             \/ stopped.state = "failed"
      BY <2>2 DEF JobType
    <3>3. QED  BY <1>2, <2>1, <2>6, <3>1, <3>2
  <2>7. CASE UNCHANGED job
    BY <1>2, <2>7
  <2>8. QED
    BY <1>6, <2>4, <2>5, <2>6, <2>7 DEF Throw, FailLot, QueryFails
<1>7. QED  BY <1>3, <1>4, <1>5, <1>6, JobChanges

\* A run's row appears when it is requested.
LEMMA RunAppears ==
  ASSUME LotInv, Next, NEW r \in Runs, run[r].status = "none"
  PROVE  \/ run'[r] = run[r]
         \/ run'[r].status = "queued" /\ \E h \in Handlers : RequestAudit(h)
<1>1. Types /\ JobsInv /\ WorkerInv  BY DEF LotInv
<1>2. ASSUME NEW h \in Handlers, RequestAudit(h)
      PROVE  run'[r] = run[r] \/ run'[r].status = "queued"
  <2>1. PICK s \in Runs, v \in Versions :
          run' = [run EXCEPT ![s] = [NoRun EXCEPT !.status = "queued", !.version = v]]
    BY <1>2 DEF RequestAudit
  <2>2. QED  BY <1>1, <2>1 DEF Types, NoRun
<1>3. ~TakeJob(r)
  BY <1>1 DEF TakeJob, JobsInv
<1>4. ASSUME NEW s \in Runs, TakeJob(s)
      PROVE  run'[r] = run[r]
  BY <1>1, <1>3, <1>4 DEF TakeJob, Types
<1>5. ASSUME CallTool \/ Finish \/ BookAttestation \/ Throw
      PROVE  run'[r] = run[r]
  <2>1. worker # Idle /\ worker.run \in Runs  BY <1>1, <1>5, WorkerBusy
  <2>2. worker.run # r  BY <1>1, <2>1 DEF WorkerInv, JobsInv
  <2>3. QED  BY <1>1, <1>5, <2>1, <2>2, WorkerBooks DEF Types
<1>6. QED  BY <1>2, <1>4, <1>5, RunChanges

\* The queue's part of the invariant.
LEMMA JobsNext ==
  ASSUME LotInv, Next
  PROVE  JobsInv'
<1>1. Types /\ JobsInv  BY DEF LotInv
<1>2. ASSUME NEW r \in Runs
      PROVE  /\ run'[r].status = "none" => run'[r] = NoRun
             /\ job'[r].state # "none" => run'[r].status # "none"
             /\ job'[r].state \in {"none", "waiting", "active"} => job'[r].failures < MaxAttempts
  <2>1. run'[r].status = "none" => run[r].status = "none" /\ run'[r] = run[r]
    BY <1>1, RunContinues, RunAppears DEF Continues
  <2>2. run'[r].status = "none" => job'[r].state = "none"
    <3>1. SUFFICES ASSUME run'[r].status = "none" PROVE job'[r].state = "none"
      OBVIOUS
    <3>2. job[r].state = "none" /\ run[r].status = "none"
      BY <1>1, <2>1, <3>1 DEF JobsInv
    <3>3. ~TakeJob(r)  BY <3>2 DEF TakeJob
    <3>4. ~(worker # Idle /\ worker.run = r)
      BY <3>2 DEF LotInv, WorkerInv
    <3>5. ASSUME NEW h \in Handlers, Enqueue(h), request[h].run = r PROVE FALSE
      <4>1. h \in Enqueuing  BY <3>5 DEF Enqueue, At, Enqueuing
      <4>2. QED  BY <1>1, <3>2, <3>5, <4>1 DEF JobsInv
    <3>6. QED  BY <3>2, <3>3, <3>4, <3>5, JobSteps
  <2>3. job'[r].state \in {"none", "waiting", "active"} => job'[r].failures < MaxAttempts
    BY <1>1, JobSteps DEF JobsInv, TakeJob
  <2>4. QED  BY <1>1, <2>1, <2>2, <2>3 DEF JobsInv
<1>3. request' \in [Handlers -> RequestType]  BY RequestTyped
<1>4. ASSUME NEW h \in Enqueuing'
      PROVE  /\ h \in Handlers /\ request'[h] \in Auditing
             /\ \/ h \in Enqueuing /\ request'[h].run = request[h].run
                \/ RequestAudit(h)
  <2>1. h \in Handlers /\ request'[h].pc \in {"audit", "enqueue"}
    BY DEF Enqueuing
  <2>2. request'[h] \in Auditing  BY <1>3, <2>1, ShapeOfPc
  <2>3. h \in Enqueuing \/ RequestAudit(h)
    BY <1>1, <2>1, PcSteps DEF Enqueuing
  <2>4. QED  BY <1>1, <2>1, <2>2, <2>3, Carries
<1>5. ASSUME NEW h \in Handlers, RequestAudit(h)
      PROVE  /\ request'[h].run \in Runs /\ run[request'[h].run].status = "none"
             /\ run'[request'[h].run].status = "queued"
             /\ UNCHANGED job
             /\ \A g \in Handlers \ {h} : request'[g] = request[g] /\ ~RequestAudit(g)
  <2>1. PICK r \in Runs, v \in Versions :
          /\ run[r].status = "none"
          /\ run' = [run EXCEPT ![r] = [NoRun EXCEPT !.status = "queued", !.version = v]]
          /\ LotStarts(h, "audit", [pc |-> "audit", run |-> r])
    BY <1>5 DEF RequestAudit
  <2>2. request'[h] = [pc |-> "audit", run |-> r]
    BY <1>1, <2>1, StartEffect DEF LotStarts
  <2>3. \A g \in Handlers \ {h} : request'[g] = request[g]
    BY <1>1, <2>1 DEF LotStarts, Starts, Types
  <2>4. ASSUME NEW g \in Handlers \ {h}, RequestAudit(g) PROVE FALSE
    <3>1. request[g] = Idle /\ request'[g].pc = "audit"
      BY <1>1, <2>4, StartEffect DEF RequestAudit, LotStarts
    <3>2. QED  BY <2>3, <3>1 DEF Idle
  <2>5. request'[h].run = r  BY <2>2
  <2>6. run'[r].status = "queued"
    BY <1>1, <2>1 DEF Types, NoRun
  <2>7. UNCHANGED job
    BY <1>5 DEF RequestAudit
  <2>8. QED
    BY <2>1, <2>3, <2>4, <2>5, <2>6, <2>7
<1>6. ASSUME NEW h \in Enqueuing'
      PROVE  /\ run'[request'[h].run].status # "none"
             /\ job'[request'[h].run].state = "none"
  <2>1. CASE RequestAudit(h)
    BY <1>1, <1>4, <1>5, <2>1 DEF JobsInv
  <2>2. CASE h \in Enqueuing /\ request'[h].run = request[h].run
    <3> DEFINE r == request[h].run
    <3>1. r \in Runs  BY <1>4, <2>2 DEF Auditing
    <3>2. run[r].status # "none" /\ job[r].state = "none"
      BY <1>1, <2>2 DEF JobsInv
    <3>3. run'[r].status # "none"
      BY <1>1, <3>1, <3>2, RunContinues DEF Continues
    <3>4. ~TakeJob(r)  BY <3>2 DEF TakeJob
    <3>5. ~(worker # Idle /\ worker.run = r)
      BY <3>2 DEF LotInv, WorkerInv
    <3>6. ASSUME NEW g \in Handlers, Enqueue(g), request[g].run = r PROVE FALSE
      <4>1. g \in Enqueuing  BY <3>6 DEF Enqueue, At, Enqueuing
      <4>2. g = h  BY <1>1, <2>2, <3>6, <4>1 DEF JobsInv
      <4>3. request'[h] = Idle  BY <1>1, <3>6, <4>2 DEF Enqueue, Done, Types
      <4>4. QED  BY <4>3 DEF Enqueuing, Idle
    <3>7. job'[r].state = "none"
      BY <3>1, <3>2, <3>4, <3>5, <3>6, JobSteps
    <3>8. QED  BY <2>2, <3>3, <3>7
  <2>3. QED  BY <1>4, <2>1, <2>2
<1>7. ASSUME NEW h \in Enqueuing', NEW g \in Enqueuing', request'[g].run = request'[h].run
      PROVE  g = h
  <2>1. CASE RequestAudit(h) \/ RequestAudit(g)
    <3>1. ASSUME NEW x \in Enqueuing', NEW y \in Enqueuing', RequestAudit(x), x # y,
                 request'[x].run = request'[y].run
          PROVE  FALSE
      <4>1. y \in Enqueuing /\ request'[y].run = request[y].run
        BY <1>4, <1>5, <3>1
      <4>2. run[request'[x].run].status = "none"
        BY <1>4, <1>5, <3>1
      <4>3. QED  BY <1>1, <3>1, <4>1, <4>2 DEF JobsInv
    <3>2. QED  BY <1>7, <2>1, <3>1
  <2>2. CASE ~(RequestAudit(h) \/ RequestAudit(g))
    BY <1>1, <1>4, <1>7, <2>2 DEF JobsInv
  <2>3. QED  BY <2>1, <2>2
<1>8. QED  BY <1>2, <1>6, <1>7 DEF JobsInv

\* Types of the worker, of the completions and of the faults.
LEMMA WorkerTyped ==
  ASSUME LotInv, Next
  PROVE  worker' = Idle \/ worker' \in WorkerType
<1>1. Types /\ WorkerInv  BY DEF LotInv
<1>2. CASE UNCHANGED worker
  BY <1>1, <1>2 DEF Types
<1>3. ASSUME NEW r \in Runs, TakeJob(r)
      PROVE  worker' \in WorkerType
  <2>1. PICK pc \in {"throw", "finish", "tools"} :
          worker' = [pc |-> pc, back |-> pc, run |-> r, rounds |-> 0, tx |-> FALSE,
                     linked |-> lot.onchain, report |-> Resumable(r),
                     verdict |-> IF Resumable(r) THEN run[r].result ELSE "none"]
    BY <1>3 DEF TakeJob, Attempt
  <2>2. /\ Resumable(r) \in BOOLEAN /\ (Resumable(r) => run[r].result \in Verdicts)
        /\ lot.onchain \in BOOLEAN
    BY <1>1 DEF Resumable, Types, LotType
  <2>3. 0 \in 0 .. MaxRounds  BY LotAssumption
  <2>4. QED  BY <2>1, <2>2, <2>3 DEF WorkerType
<1>4. CASE \/ CallTool \/ LeaveTools \/ BookLot \/ Finish \/ Attest \/ BookAttestation
           \/ Complete \/ Throw \/ FailLot \/ QueryFails \/ WorkerStops
  <2>1. worker \in WorkerType /\ worker # Idle
    BY <1>1, <1>4, WorkerBusy
  <2>2. Results \subseteq Verdicts /\ "pass" \in Verdicts
    BY LotAssumption DEF Verdicts, Acceptable
  <2>3. CASE CallTool
    <3>1. worker.rounds + 1 \in 0 .. MaxRounds
      BY <2>1, <2>3, LotAssumption DEF CallTool, WorkerType
    <3>2. ASSUME NEW verdict \in Verdicts,
                 worker' = [worker EXCEPT !.verdict = verdict, !.pc = "tools",
                                          !.rounds = worker.rounds + 1]
          PROVE  worker' \in WorkerType
      BY <2>1, <3>1, <3>2 DEF WorkerType
    <3>3. CASE worker' = [worker EXCEPT !.report = TRUE, !.rounds = worker.rounds + 1,
                                        !.pc = "bookLot", !.back = "tools"]
      BY <2>1, <3>1, <3>3 DEF WorkerType
    <3>4. CASE worker' = [worker EXCEPT !.rounds = worker.rounds + 1, !.pc = "attest",
                                        !.back = "tools"]
      BY <2>1, <3>1, <3>4 DEF WorkerType
    <3>5. QED
      BY <2>2, <2>3, <3>2, <3>3, <3>4 DEF CallTool, Compare
  <2>4. CASE LeaveTools
    <3>1. worker' = [worker EXCEPT !.pc = "finish"]
      BY <2>4 DEF LeaveTools, Move
    <3>2. QED  BY <2>1, <3>1 DEF WorkerType
  <2>5. CASE BookLot \/ BookAttestation
    <3>1. worker' = [worker EXCEPT !.pc = worker.back]
      BY <2>5 DEF BookLot, BookAttestation, Move
    <3>2. QED  BY <2>1, <3>1 DEF WorkerType
  <2>6. CASE Finish
    <3>1. ASSUME NEW verdict \in Verdicts,
                 worker' = [worker EXCEPT !.verdict = verdict, !.report = TRUE,
                                          !.pc = "bookLot", !.back = "finish"]
          PROVE  worker' \in WorkerType
      BY <2>1, <3>1 DEF WorkerType
    <3>2. ASSUME NEW pc \in {"complete", "attest", "throw"},
                 worker' = [worker EXCEPT !.back = "complete", !.pc = pc]
          PROVE  worker' \in WorkerType
      BY <2>1, <3>2 DEF WorkerType
    <3>3. \/ \E verdict \in Verdicts :
               worker' = [worker EXCEPT !.verdict = verdict, !.report = TRUE,
                                        !.pc = "bookLot", !.back = "finish"]
          \/ \E pc \in {"complete", "attest", "throw"} :
               worker' = [worker EXCEPT !.back = "complete", !.pc = pc]
      BY <2>2, <2>6 DEF Finish
    <3>4. QED  BY <3>1, <3>2, <3>3
  <2>7. CASE Attest
    <3>1. \/ worker' = [worker EXCEPT !.pc = "bookAttestation", !.tx = TRUE]
          \/ \E pc \in {"bookAttestation", "finish", "throw"} :
               worker' = [worker EXCEPT !.pc = pc]
      BY <2>7 DEF Attest, Sent, Move, AfterError
    <3>2. QED  BY <2>1, <3>1 DEF WorkerType
  <2>8. CASE Complete \/ Throw \/ FailLot \/ WorkerStops
    <3>1. worker' = Idle \/ worker' = [worker EXCEPT !.pc = "failLot"]
      BY <2>8 DEF Complete, Throw, FailLot, FailAttempt, WorkerStops, Move
    <3>2. QED  BY <2>1, <3>1 DEF WorkerType
  <2>9. CASE QueryFails
    <3>1. \/ worker' = Idle
          \/ worker' = [worker EXCEPT !.report = TRUE, !.pc = "finish"]
          \/ \E pc \in {"finish", "throw"} : worker' = [worker EXCEPT !.pc = pc]
      BY <2>9 DEF QueryFails, Move, AfterError, FailAttempt
    <3>2. QED  BY <2>1, <3>1 DEF WorkerType
  <2>10. QED  BY <1>4, <2>3, <2>4, <2>5, <2>6, <2>7, <2>8, <2>9
<1>5. QED
  BY <1>2, <1>3, <1>4, WorkerChanges DEF WorkerStep

LEMMA CompletionsTyped ==
  ASSUME LotInv, Next
  PROVE  Completions'
<1>1. Types /\ Completions  BY DEF LotInv, Types
<1>2. completions' = completions \/ (completions' = Completed /\ worker.run \in Runs)
  <2>1. CASE UNCHANGED completions
    BY <2>1
  <2>2. CASE CallTool \/ Finish \/ Throw
    BY <1>1, <2>2, WorkerBusy DEF CallTool, Finish, Throw, BookReport
  <2>3. CASE \/ \E r \in Runs : TakeJob(r)
             \/ LeaveTools \/ BookLot \/ Attest \/ BookAttestation
             \/ Complete \/ FailLot \/ QueryFails \/ WorkerStops
    BY <2>3 DEF QueryFails, WorkerStops, TakeJob, LeaveTools, BookLot, Attest,
                BookAttestation, Complete, FailLot, rows
  <2>4. QED  BY <2>1, <2>2, <2>3, WorkerChanges DEF WorkerStep
<1>3. CASE completions' = completions
  BY <1>1, <1>3 DEF Completions
<1>4. CASE completions' = Completed /\ worker.run \in Runs
  <2>1. ASSUME NEW c \in Completed
        PROVE  /\ c \in Runs \X Runs
               /\ c[2] # worker.run => c \in completions /\ c[1] # worker.run
    <3>1. \/ c \in completions /\ worker.run \notin {c[1], c[2]}
          \/ \E r \in Runs : c = <<r, worker.run>>
      BY <1>4, <2>1 DEF Completed
    <3>2. ASSUME NEW r \in Runs, c = <<r, worker.run>>
          PROVE  c \in Runs \X Runs /\ c[2] = worker.run
      BY <1>4, <3>2
    <3>3. QED  BY <1>1, <3>1, <3>2 DEF Completions
  <2>2. ASSUME NEW c \in Completed, <<c[2], c[1]>> \in Completed
        PROVE  c[1] = c[2]
    <3>1. CASE c[2] = worker.run
      <4>1. <<c[2], c[1]>>[1] = worker.run /\ <<c[2], c[1]>>[2] = c[1]  BY <3>1
      <4>2. c[1] = worker.run  BY <2>1, <2>2, <4>1
      <4>3. QED  BY <3>1, <4>2
    <3>2. CASE c[2] # worker.run
      <4>1. c \in completions /\ c[1] # worker.run  BY <2>1, <3>2
      <4>2. <<c[2], c[1]>> \in completions  BY <2>1, <2>2, <4>1
      <4>3. QED  BY <1>1, <4>1, <4>2 DEF Completions
    <3>3. QED  BY <3>1, <3>2
  <2>3. QED  BY <1>4, <2>1, <2>2 DEF Completions
<1>5. QED  BY <1>2, <1>3, <1>4

LEMMA FaultsTyped ==
  ASSUME LotInv, Next
  PROVE  faults' \in 0 .. MaxFaults
<1>1. faults \in 0 .. MaxFaults /\ MaxFaults \in Nat
  BY LotAssumption DEF LotInv, Types
<1>2. UNCHANGED faults \/ \E kind : Fault(kind)
  <2>1. ASSUME NEW h \in Handlers, LotRequest(h)
        PROVE  UNCHANGED faults
    BY <2>1 DEF LotRequest, CreateLot, ReadAwaiting, ReadDispute, ReadForInspection,
                ReadForReweigh, RequestAudit
  <2>2. ASSUME NEW h \in Handlers, LotStep(h)
        PROVE  UNCHANGED faults \/ \E kind : Fault(kind)
    BY <2>2 DEF LotStep, AssignId, RegisterLot, UnregisterLot, Confirm, OpenDispute,
                Decline, ResolveLot, CloseDispute, InsertInspection, AdvanceLot,
                AssignInspectedId, CheckInspection, SubmitInspection, DeleteInspection,
                RestoreLot, MarkReweighing, RequestReweighing, UndoReweigh,
                MarkAuditing, Enqueue, RowGone, Sent
  <2>3. ASSUME NEW h \in Handlers, SettlementRequest(h) \/ SettlementStep(h)
        PROVE  UNCHANGED faults \/ \E kind : Fault(kind)
    BY <2>3 DEF SettlementRequest, SettlementStep, ReadForAcceptance, SettleOnchain,
                ReadForPayout, InsertSettlement, MarkAccepted, NothingToExecute,
                LoadSettlement, AssignSettledId, CompleteOnchain, Pay, BookSettlement,
                BookSettledLot, InsertPayout, PayoutLot, PayoutSettlement, Sent
  <2>4. ASSUME WorkerStep
        PROVE  UNCHANGED faults \/ \E kind : Fault(kind)
    BY <2>4 DEF WorkerStep, TakeJob, CallTool, LeaveTools, BookLot, Finish, Attest,
                BookAttestation, Complete, Throw, FailLot, Sent
  <2>5. CASE SettleInBatch \/ ServerStops \/ QueryFails \/ WorkerStops
    BY <2>5 DEF SettleInBatch, ServerStops, QueryFails, WorkerStops
  <2>6. QED
    BY <2>1, <2>2, <2>3, <2>4, <2>5 DEF Next, RequestStep
<1>3. QED  BY <1>1, <1>2 DEF Fault

\* Every variable keeps its type.
LEMMA TypesNext ==
  ASSUME LotInv, Next
  PROVE  Types'
<1>1. Types /\ ExecutingInv  BY DEF LotInv
<1>2. lot' \in LotType
  <2>1. NoLot \in LotType  BY LotAssumption DEF NoLot, LotType, LotStatus
  <2>2. QED  BY <1>1, <2>1, LotWrites DEF Types
<1>3. inspection' \in [Versions -> Weights \cup {0}]  BY <1>1, InspectionTyped
<1>4. dispute' \in [Disputes -> {"none", "open", "closed"}]  BY <1>1, DisputeTyped
<1>5. run' \in [Runs -> RunType]  BY <1>1, RunTyped
<1>6. settlement' \in Seq(SettlementType) /\ Len(settlement') <= MaxSettlements
  BY <1>1, SettlementSteps
<1>7. request' \in [Handlers -> RequestType]  BY RequestTyped
<1>8. job' \in [Runs -> JobType]  BY JobSteps
<1>9. QED
  BY <1>2, <1>3, <1>4, <1>5, <1>6, <1>7, <1>8, CompletionsTyped, ChainTyped, WorkerTyped,
     FaultsTyped DEF Types

\* What is on the contract stays, and with it the version of the run.
LEMMA OnContractKept ==
  ASSUME LotInv, Next, NEW r \in Runs, OnContract(r)
  PROVE  /\ run'[r].version = run[r].version /\ run'[r].version \in Versions
         /\ chain'.attestation[run'[r].version] # NoAttestation
         /\ chain'.attestation[run'[r].version].run = r
<1>1. Types  BY DEF LotInv
<1>2. run[r].status # "none"
  <2>1. run[r].version # 0  BY DEF OnContract, Versions
  <2>2. QED  BY <2>1, RequestedRun
<1>3. run'[r].version = run[r].version
  BY <1>1, <1>2, RunContinues DEF Continues
<1>4. QED  BY <1>3, AttestationKept DEF OnContract

\* The worker's part of the invariant.
LEMMA WorkerNext ==
  ASSUME LotInv, Next
  PROVE  WorkerInv'
<1>1. Types /\ JobsInv /\ WorkerInv /\ ChainInv  BY DEF LotInv
<1>2. job \in [Runs -> JobType]
  BY <1>1 DEF Types
<1>3. CASE worker' = Idle
  BY <1>3 DEF WorkerInv
<1>4. CASE worker' = worker /\ worker # Idle /\ ~WorkerStep /\ ~QueryFails /\ ~WorkerStops
  <2>1. worker.run \in Runs /\ job[worker.run].state = "active"
    BY <1>1, <1>4 DEF Types, WorkerType, WorkerInv
  <2>2. job'[worker.run] = job[worker.run]
    BY <1>4, <2>1, JobSteps, Zenon DEF WorkerStep
  <2>3. worker.tx =>
          /\ run'[worker.run].version \in Versions
          /\ chain'.attestation[run'[worker.run].version] # NoAttestation
          /\ chain'.attestation[run'[worker.run].version].run = worker.run
    BY <1>1, <1>4, <2>1, OnContractKept DEF WorkerInv
  <2>4. QED
    BY <1>1, <1>4, <2>1, <2>2, <2>3 DEF WorkerInv, OnContract
<1>5. ASSUME NEW r \in Runs, TakeJob(r)
      PROVE  WorkerInv'
  <2>1. PICK pc \in {"throw", "finish", "tools"} :
          worker' = [pc |-> pc, back |-> pc, run |-> r, rounds |-> 0, tx |-> FALSE,
                     linked |-> lot.onchain, report |-> Resumable(r),
                     verdict |-> IF Resumable(r) THEN run[r].result ELSE "none"]
    BY <1>5 DEF TakeJob, Attempt
  <2>2. job'[r].state = "active"
    BY <1>2, <1>5 DEF TakeJob, JobType
  <2>3. /\ Resumable(r) \in BOOLEAN
        /\ Resumable(r) => run[r].result # "none"
    BY DEF Resumable, Verdicts, Acceptable
  <2>4. QED  BY <2>1, <2>2, <2>3 DEF WorkerInv
<1>6. CASE \/ CallTool \/ LeaveTools \/ BookLot \/ Finish \/ Attest \/ BookAttestation
           \/ Complete \/ Throw \/ FailLot \/ QueryFails \/ WorkerStops
  <2>1. worker \in WorkerType /\ worker # Idle /\ worker.run \in Runs /\ Mine \in RunType
    BY <1>1, <1>6, WorkerBusy
  <2> DEFINE w == worker
  <2>2. /\ job[w.run].state = "active"
        /\ w.report \/ w.pc \in {"bookLot", "attest"} => w.verdict # "none"
        /\ w.pc \in {"complete", "bookAttestation"} => w.tx \/ ~w.linked
        /\ w.pc = "bookLot" => w.back \in {"tools", "finish"}
    BY <1>1, <2>1 DEF WorkerInv
  <2> DEFINE Stands ==
        /\ run'[w.run].version \in Versions
        /\ chain'.attestation[run'[w.run].version] # NoAttestation
        /\ chain'.attestation[run'[w.run].version].run = w.run
  <2>3. w.tx => Stands
    BY <1>1, <2>1, OnContractKept DEF WorkerInv
  <2>4. "none" \notin Results
    BY LotAssumption
  <2>5. SUFFICES ASSUME worker' # Idle PROVE WorkerInv'
    BY <1>3
  <2> DEFINE Goal ==
        /\ UNCHANGED job /\ worker'.run = w.run
        /\ worker'.report \/ worker'.pc \in {"bookLot", "attest"} => worker'.verdict # "none"
        /\ worker'.tx => Stands
        /\ worker'.pc \in {"complete", "bookAttestation"} => worker'.tx \/ ~worker'.linked
        /\ worker'.pc = "bookLot" => worker'.back \in {"tools", "finish"}
  <2>6. ASSUME Goal PROVE WorkerInv'
    <3>1. job'[worker'.run].state = "active"
      BY <2>2, <2>6
    <3>2. QED  BY <2>6, <3>1 DEF WorkerInv, OnContract
  <2>7. CASE CallTool
    <3>1. UNCHANGED job /\ w.pc = "tools"  BY <2>7 DEF CallTool
    <3>2. ASSUME NEW verdict \in Results,
                 worker' = [worker EXCEPT !.verdict = verdict, !.pc = "tools",
                                          !.rounds = worker.rounds + 1]
          PROVE  Goal
      BY <2>1, <2>2, <2>3, <2>4, <3>1, <3>2 DEF WorkerType
    <3>3. CASE /\ w.verdict # "none"
               /\ worker' = [worker EXCEPT !.report = TRUE, !.rounds = worker.rounds + 1,
                                           !.pc = "bookLot", !.back = "tools"]
      <4>1. /\ worker'.run = w.run /\ worker'.verdict # "none" /\ (worker'.tx <=> w.tx)
            /\ worker'.pc = "bookLot" /\ worker'.back = "tools"
        BY <2>1, <3>3 DEF WorkerType
      <4>2. Goal  BY <2>3, <3>1, <4>1
      <4>3. QED  BY <2>6, <4>2
    <3>4. CASE /\ w.report
               /\ worker' = [worker EXCEPT !.rounds = worker.rounds + 1, !.pc = "attest",
                                           !.back = "tools"]
      <4>1. /\ worker'.run = w.run /\ worker'.verdict = w.verdict /\ (worker'.tx <=> w.tx)
            /\ worker'.pc = "attest"
        BY <2>1, <3>4 DEF WorkerType
      <4>2. w.verdict # "none"
        BY <2>2, <3>4
      <4>3. Goal  BY <2>3, <3>1, <4>1, <4>2
      <4>4. QED  BY <2>6, <4>3
    <3>5. QED  BY <2>6, <2>7, <3>2, <3>3, <3>4 DEF CallTool, Compare
  <2>8. CASE LeaveTools
    <3>1. UNCHANGED job /\ worker' = [worker EXCEPT !.pc = "finish"]
      BY <2>8 DEF LeaveTools, Move
    <3>2. Goal  BY <2>1, <2>2, <2>3, <3>1 DEF WorkerType
    <3>3. QED  BY <2>6, <3>2
  <2>9. CASE BookLot \/ BookAttestation
    <3>1. /\ UNCHANGED job /\ w.pc \in {"bookLot", "bookAttestation"}
          /\ worker' = [worker EXCEPT !.pc = worker.back]
      BY <2>9 DEF BookLot, BookAttestation, Move
    <3>2. Goal  BY <2>1, <2>2, <2>3, <3>1 DEF WorkerType
    <3>3. QED  BY <2>6, <3>2
  <2>10. CASE Finish
    <3>1. UNCHANGED job /\ w.pc = "finish"  BY <2>10 DEF Finish
    <3>2. ASSUME NEW v \in Results,
                 worker' = [worker EXCEPT !.verdict = v, !.report = TRUE,
                                          !.pc = "bookLot", !.back = "finish"]
          PROVE  Goal
      BY <2>1, <2>2, <2>3, <2>4, <3>1, <3>2 DEF WorkerType
    <3>3. CASE /\ w.verdict # "none"
               /\ worker' = [worker EXCEPT !.back = "complete",
                    !.pc = IF worker.tx \/ ~worker.linked THEN "complete"
                           ELSE IF worker.report THEN "attest" ELSE "throw"]
      <4>1. /\ worker'.run = w.run /\ worker'.verdict # "none" /\ (worker'.tx <=> w.tx)
            /\ worker'.pc = "complete" => worker'.tx \/ ~worker'.linked
            /\ worker'.pc \in {"complete", "attest", "throw"}
        BY <2>1, <3>3 DEF WorkerType
      <4>2. Goal  BY <2>3, <3>1, <4>1
      <4>3. QED  BY <2>6, <4>2
    <3>4. QED  BY <2>6, <2>10, <3>2, <3>3 DEF Finish
  <2>11. CASE Attest
    <3>1. UNCHANGED <<job, run>> /\ w.pc = "attest"  BY <2>11 DEF Attest, rows
    <3>2. CASE /\ worker' = [worker EXCEPT !.pc = "bookAttestation", !.tx = TRUE]
               /\ TakesAttestation(Mine.version, worker.verdict)
               /\ chain' = Attested(worker.run, worker.verdict)
      <4>1. Mine.version \in Versions
        BY <1>1, <3>2, LotAssumption
           DEF ChainInv, TakesAttestation, Types, ChainType, Versions
      <4>2. chain'.attestation[Mine.version] = [run |-> w.run, result |-> w.verdict]
        BY <1>1, <3>2, <4>1 DEF Attested, Types, ChainType, Mine
      <4>3. Stands
        BY <2>2, <3>1, <4>1, <4>2 DEF NoAttestation, Mine
      <4>4. Goal  BY <2>1, <2>2, <3>1, <3>2, <4>3 DEF WorkerType
      <4>5. QED  BY <2>6, <4>4
    <3>3. CASE worker' = [worker EXCEPT !.pc = "bookAttestation"] /\ ~w.linked
      <4>1. Goal  BY <2>1, <2>2, <2>3, <3>1, <3>3 DEF WorkerType
      <4>2. QED  BY <2>6, <4>1
    <3>4. CASE \E pc \in {"finish", "throw"} : worker' = [worker EXCEPT !.pc = pc]
      <4>1. Goal  BY <2>1, <2>2, <2>3, <3>1, <3>4 DEF WorkerType
      <4>2. QED  BY <2>6, <4>1
    <3>5. QED
      BY <2>11, <3>2, <3>3, <3>4 DEF Attest, Sent, Move, AfterError
  <2>12. CASE Throw
    <3>1. UNCHANGED job /\ worker' = [worker EXCEPT !.pc = "failLot"]
      BY <2>5, <2>12 DEF Throw, FailAttempt, Move
    <3>2. Goal  BY <2>1, <2>2, <2>3, <3>1 DEF WorkerType
    <3>3. QED  BY <2>6, <3>2
  <2>13. CASE QueryFails
    <3>1. /\ UNCHANGED job
          /\ \/ /\ w.verdict # "none"
                /\ worker' = [worker EXCEPT !.report = TRUE, !.pc = "finish"]
             \/ \E pc \in {"finish", "throw"} : worker' = [worker EXCEPT !.pc = pc]
      BY <2>5, <2>13 DEF QueryFails, FailAttempt, Move, AfterError
    <3>2. Goal  BY <2>1, <2>2, <2>3, <3>1 DEF WorkerType
    <3>3. QED  BY <2>6, <3>2
  <2>14. CASE Complete \/ FailLot \/ WorkerStops
    BY <2>5, <2>14 DEF Complete, FailLot, FailAttempt, WorkerStops
  <2>15. QED
    BY <1>6, <2>7, <2>8, <2>9, <2>10, <2>11, <2>12, <2>13, <2>14
<1>7. QED
  BY <1>3, <1>4, <1>5, <1>6, WorkerChanges DEF WorkerStep

-----------------------------------------------------------------------------
(* Settlements *)

\* What a settlement's execution has loaded stays true of the rows.
LEMMA ExecutingNext ==
  ASSUME LotInv, Next
  PROVE  ExecutingInv'
<1>1. Types /\ JobsInv /\ ExecutingInv /\ RowsInv  BY DEF LotInv
<1>2. \A i \in DOMAIN settlement :
        i \in DOMAIN settlement' /\ settlement'[i].version = settlement[i].version
  BY <1>1, SettlementSteps DEF Advances
<1>3. ASSUME NEW r \in Runs, run[r].result \in Verdicts
      PROVE  run'[r].version = run[r].version /\ run'[r].result \in Verdicts
  <2>1. run[r].status # "none"
    BY <1>1, <1>3 DEF JobsInv, NoRun, Verdicts, Acceptable
  <2>2. QED  BY <1>1, <1>3, <2>1, RunContinues DEF Continues
<1>4. ASSUME NEW h \in Handlers, request'[h] \in Executing
      PROVE  /\ request'[h].row \in DOMAIN settlement'
             /\ run'[request'[h].run].version = settlement'[request'[h].row].version
             /\ run'[request'[h].run].result \in Verdicts
  <2>1. request'[h].run \in Runs  BY <1>4 DEF Executing
  <2>2. /\ request'[h].row \in DOMAIN settlement
        /\ run[request'[h].run].version = settlement[request'[h].row].version
        /\ run[request'[h].run].result \in Verdicts
    <3>1. CASE /\ request[h] \in Executing
               /\ request'[h].row = request[h].row /\ request'[h].run = request[h].run
      BY <1>1, <3>1 DEF ExecutingInv
    <3>2. CASE LoadSettlement(h)
      <4>1. PICK r \in Runs :
              /\ Reported(r, settlement[Len(settlement)].version)
              /\ request' = [request EXCEPT ![h] =
                   [pc |-> "complete", row |-> Len(settlement), run |-> r,
                    verdict |-> run[r].result]]
        BY <3>2 DEF LoadSettlement
      <4>2. request'[h].row = Len(settlement) /\ request'[h].run = r
        BY <1>1, <4>1 DEF Types
      <4>3. settlement # <<>>
        BY <1>1, <3>2 DEF RowsInv, LoadSettlement, At
      <4>4. Len(settlement) \in DOMAIN settlement
        BY <1>1, <4>3 DEF Types
      <4>5. QED  BY <4>1, <4>2, <4>4 DEF Reported
    <3>3. QED  BY <1>1, <1>4, <3>1, <3>2, Carries
  <2>3. QED  BY <1>2, <1>3, <2>1, <2>2
<1>5. ASSUME NEW h \in Handlers, request'[h] \in PayingOut
      PROVE  request'[h].row \in DOMAIN settlement'
  <2>1. CASE request[h] \in PayingOut /\ request'[h].row = request[h].row
    BY <1>1, <1>2, <2>1 DEF ExecutingInv
  <2>2. CASE ReadForPayout(h)
    <3>1. request'[h].row = Len(settlement) /\ settlement # <<>>
      BY <1>1, <2>2, StartEffect DEF ReadForPayout
    <3>2. Len(settlement) \in DOMAIN settlement
      BY <1>1, <3>1 DEF Types
    <3>3. QED  BY <1>2, <3>1, <3>2
  <2>3. QED  BY <1>1, <1>5, <2>1, <2>2, Carries
<1>6. QED  BY <1>4, <1>5 DEF ExecutingInv

\* A payment that succeeded is sealed, and of the row that the request has read.
LEMMA PayEffect ==
  ASSUME LotInv, NEW h \in Handlers, Pay(h), request'[h].pc = "book"
  PROVE  /\ chain.status \notin Sealed /\ chain'.status \in Sealed
         /\ chain'.quote = [version |-> settlement[request[h].row].version,
                            price |-> settlement[request[h].row].price]
         /\ UNCHANGED settlement
         /\ request'[h].row = request[h].row
         /\ \A g \in Handlers \ {h} : request'[g] = request[g]
<1>1. Types  BY DEF LotInv
<1>2. chain \in ChainType /\ request[h] \in RequestType  BY <1>1 DEF Types
<1>3. request[h] \in Executing
  BY <1>2, ShapeOfPc DEF Pay, At
<1>4. \/ /\ TakesAcceptance(lot.producer, settlement[request[h].row].version,
                            settlement[request[h].row].price)
         /\ chain' = Accepted(settlement[request[h].row].version,
                              settlement[request[h].row].price)
         /\ Goto(h, "book")
      \/ Done(h)
  BY DEF Pay, Sent
<1>5. ~Done(h)  BY <1>1 DEF Done, Idle, Types
<1>6. /\ chain.status \notin Sealed /\ chain'.status \in Sealed
      /\ chain'.quote = [version |-> settlement[request[h].row].version,
                         price |-> settlement[request[h].row].price]
  BY <1>2, <1>4, <1>5 DEF TakesAcceptance, Accepted, ChainType, Sealed
<1>7. /\ request'[h].row = request[h].row
      /\ \A g \in Handlers \ {h} : request'[g] = request[g]
  BY <1>1, <1>3, <1>4, <1>5 DEF Goto, Executing, Types
<1>8. QED  BY <1>6, <1>7 DEF Pay

\* A row is booked by the one request that paid it, when the contract has paid.
LEMMA BookEffect ==
  ASSUME LotInv, Next, NEW h \in Handlers, BookSettlement(h)
  PROVE  /\ h \in Booking /\ request[h].row \in DOMAIN settlement
         /\ Paid' /\ chain'.quote = chain.quote /\ Bills(request[h].row)
         /\ \A i \in DOMAIN settlement : ~settlement[i].tx
         /\ \A g \in Handlers : BookSettlement(g) => g = h
         /\ \A g \in Handlers : request'[g].pc # "book"
<1>1. Types /\ BookingInv  BY DEF LotInv
<1>2. h \in Booking  BY DEF BookSettlement, At, Booking
<1>3. /\ chain.status \in Sealed /\ Bills(request[h].row)
      /\ \A i \in DOMAIN settlement : ~settlement[i].tx
      /\ \A g \in Booking : g = h
  BY <1>1, <1>2 DEF BookingInv
<1>4. chain'.quote = chain.quote /\ (Paid => Paid')
  BY <1>3, SealedKept
<1>5. chain \in ChainType  BY <1>1 DEF Types
<1>6. Paid'
  <2>1. CASE SettleInBatch
    BY <1>5, <2>1 DEF SettleInBatch, Paid, ChainType
  <2>2. CASE ~SettleInBatch
    <3>1. ~InBatch  BY <2>2 DEF Next
    <3>2. Paid  BY <1>3, <3>1 DEF InBatch, Paid, Sealed
    <3>3. QED  BY <1>4, <3>2
  <2>3. QED  BY <2>1, <2>2
<1>7. \A g \in Handlers : BookSettlement(g) => g = h
  BY <1>3 DEF BookSettlement, At, Booking
<1>8. ASSUME NEW g \in Handlers PROVE request'[g].pc # "book"
  <2>1. CASE g = h
    <3>1. request[h] \in Executing
      BY <1>1, ShapeOfPc DEF BookSettlement, At, Types
    <3>2. QED
      BY <1>1, <2>1, <3>1 DEF BookSettlement, Goto, Types, Executing
  <2>2. CASE g # h
    <3>1. request'[g] = request[g]
      BY <1>1, <2>2 DEF BookSettlement, Goto, Types
    <3>2. QED  BY <1>3, <2>2, <3>1 DEF Booking
  <2>3. QED  BY <2>1, <2>2
<1>9. request[h].row \in DOMAIN settlement
  BY <1>1, RowSteps DEF LotInv
<1>10. QED  BY <1>2, <1>3, <1>4, <1>6, <1>7, <1>8, <1>9

\* The bookings' part of the invariant.
LEMMA BookingNext ==
  ASSUME LotInv, Next
  PROVE  BookingInv'
<1>1. Types /\ BookingInv /\ BookedIsPaid /\ ExecutingInv  BY DEF LotInv
<1>2. \A i \in DOMAIN settlement :
        /\ i \in DOMAIN settlement'
        /\ settlement'[i].version = settlement[i].version
        /\ settlement'[i].price = settlement[i].price
  BY <1>1, SettlementSteps DEF Advances
<1>3. ASSUME chain'.status \in Sealed
      PROVE  \E i \in DOMAIN settlement' : Bills(i)'
  <2>1. \E i \in DOMAIN settlement :
          chain'.quote = [version |-> settlement[i].version, price |-> settlement[i].price]
    <3>1. CASE chain.status \in Sealed
      BY <1>1, <3>1, SealedKept DEF BookingInv, Bills
    <3>2. CASE chain.status \notin Sealed
      <4>1. Pays  BY <1>3, <3>2, SealedByPayment
      <4>2. chain \in ChainType  BY <1>1 DEF Types
      <4>3. QED  BY <4>1, <4>2 DEF Pays, Accepted, ChainType
    <3>3. QED  BY <3>1, <3>2
  <2>2. QED  BY <1>2, <2>1 DEF Bills
<1>4. ASSUME NEW h \in Booking'
      PROVE  /\ chain'.status \in Sealed /\ Bills(request[h].row)'
             /\ \A i \in DOMAIN settlement' : ~settlement'[i].tx
             /\ \A g \in Booking' : g = h
  <2>1. h \in Handlers /\ request'[h].pc = "book"
    BY DEF Booking
  <2>2. \A g \in Booking' : g \in Handlers /\ (g \in Booking \/ Pay(g))
    BY <1>1, PcSteps DEF Booking
  <2>3. \A g \in Handlers : ~BookSettlement(g)
    BY <2>1, BookEffect
  <2>4. \A i \in DOMAIN settlement' :
          settlement'[i].tx => i \in DOMAIN settlement /\ settlement[i].tx
    BY <1>1, <2>3, SettlementSteps
  <2>5. CASE \E p \in Booking' : Pay(p)
    <3>1. PICK p \in Booking' : Pay(p)  BY <2>5
    <3>2. p \in Handlers /\ request'[p].pc = "book"  BY DEF Booking
    <3>3. /\ chain.status \notin Sealed /\ chain'.status \in Sealed
          /\ chain'.quote = [version |-> settlement[request[p].row].version,
                             price |-> settlement[request[p].row].price]
          /\ UNCHANGED settlement
          /\ request'[p].row = request[p].row
          /\ \A g \in Handlers \ {p} : request'[g] = request[g]
      BY <3>1, <3>2, PayEffect
    <3>4. \A g \in Handlers : g \notin Booking
      BY <1>1, <3>3 DEF BookingInv
    <3>5. \A g \in Booking' : g = p
      BY <2>2, <3>3, <3>4 DEF Booking
    <3>6. \A i \in DOMAIN settlement : ~settlement[i].tx
      BY <1>1, <3>3 DEF BookedIsPaid, Paid, Sealed
    <3>7. QED  BY <3>3, <3>5, <3>6 DEF Bills
  <2>6. CASE \A p \in Booking' : ~Pay(p)
    <3>1. \A g \in Booking' : g \in Booking
      BY <2>2, <2>6
    <3>2. /\ chain.status \in Sealed /\ Bills(request[h].row)
          /\ \A i \in DOMAIN settlement : ~settlement[i].tx
          /\ \A g \in Booking : g = h
      BY <1>1, <3>1 DEF BookingInv
    <3>3. chain'.status \in Sealed /\ chain'.quote = chain.quote
      BY <3>2, SealedKept
    <3>4. request[h] \in Executing /\ request'[h] \in Executing
      <4>1. request[h].pc = "book"  BY <3>1 DEF Booking
      <4>2. request' \in [Handlers -> RequestType]  BY RequestTyped
      <4>3. QED  BY <1>1, <2>1, <4>1, <4>2, ShapeOfPc DEF Types
    <3>5. request'[h].row = request[h].row
      <4>1. ~LoadSettlement(h)
        BY <3>1 DEF LoadSettlement, At, Booking
      <4>2. QED  BY <1>1, <2>1, <3>4, <4>1, Carries
    <3>6. request[h].row \in DOMAIN settlement
      BY <1>1, <2>1, <3>4 DEF ExecutingInv
    <3>7. Bills(request[h].row)'
      BY <1>2, <3>2, <3>3, <3>5, <3>6 DEF Bills
    <3>8. QED  BY <2>4, <3>1, <3>2, <3>3, <3>7
  <2>7. QED  BY <2>5, <2>6
<1>5. ASSUME NEW h \in Handlers, request'[h].pc = "bookLot" PROVE Paid'
  <2>1. request[h].pc = "bookLot" \/ BookSettlement(h)
    BY <1>1, <1>5, PcSteps
  <2>2. CASE request[h].pc = "bookLot"
    <3>1. Paid  BY <1>1, <2>2 DEF BookingInv
    <3>2. chain.status \in Sealed  BY <3>1 DEF Paid, Sealed
    <3>3. QED  BY <3>1, <3>2, SealedKept
  <2>3. CASE BookSettlement(h)
    BY <2>3, BookEffect
  <2>4. QED  BY <2>1, <2>2, <2>3
<1>6. QED  BY <1>3, <1>4, <1>5 DEF BookingInv

\* A booked payment stays the contract's, and the only one.
LEMMA BookedNext ==
  ASSUME LotInv, Next
  PROVE  BookedIsPaid'
<1>1. Types /\ BookedIsPaid /\ ExecutingInv  BY DEF LotInv
<1>2. \A i \in DOMAIN settlement :
        /\ i \in DOMAIN settlement'
        /\ settlement'[i].version = settlement[i].version
        /\ settlement'[i].price = settlement[i].price
  BY <1>1, SettlementSteps DEF Advances
<1>3. CASE \E h \in Handlers : BookSettlement(h)
  <2>1. PICK h \in Handlers : BookSettlement(h)  BY <1>3
  <2>2. /\ Paid' /\ chain'.quote = chain.quote /\ Bills(request[h].row)
        /\ request[h].row \in DOMAIN settlement
    BY <2>1, BookEffect
  <2>3. \A i \in DOMAIN settlement' : settlement'[i].tx => i = request[h].row
    BY <1>1, <2>1, BookEffect, SettlementSteps
  <2>4. QED  BY <1>2, <2>2, <2>3 DEF BookedIsPaid, Bills
<1>4. CASE \A h \in Handlers : ~BookSettlement(h)
  <2>1. \A i \in DOMAIN settlement' :
          settlement'[i].tx => i \in DOMAIN settlement /\ settlement[i].tx
    BY <1>1, <1>4, SettlementSteps
  <2>2. ASSUME NEW i \in DOMAIN settlement, settlement[i].tx
        PROVE  Paid' /\ chain'.quote = [version |-> settlement[i].version,
                                        price |-> settlement[i].price]
    <3>1. /\ Paid /\ chain.quote = [version |-> settlement[i].version,
                                    price |-> settlement[i].price]
      BY <1>1, <2>2 DEF BookedIsPaid
    <3>2. chain.status \in Sealed  BY <3>1 DEF Paid, Sealed
    <3>3. QED  BY <3>1, <3>2, SealedKept
  <2>3. QED  BY <1>1, <1>2, <2>1, <2>2 DEF BookedIsPaid
<1>5. QED  BY <1>3, <1>4

\* What was paid stays paid.
LEMMA PaidKept ==
  ASSUME LotInv, Next
  PROVE  /\ Paid => Paid'
         /\ PaidOut => PaidOut'
<1>1. Types /\ ExecutingInv  BY DEF LotInv
<1>2. ASSUME Paid PROVE Paid'
  BY <1>2, SealedKept DEF Paid, Sealed
<1>3. ASSUME PaidOut PROVE PaidOut'
  BY <1>1, <1>3, SettlementSteps DEF PaidOut, Advances
<1>4. QED  BY <1>2, <1>3

\* Who will show the lot as settled still knows that it was paid.
LEMMA SettlingNext ==
  ASSUME LotInv, Next
  PROVE  SettlingInv'
<1>1. Types /\ SettlingInv /\ ExecutingInv /\ SettledLotIsPaid  BY DEF LotInv
<1>2. ASSUME NEW h \in Handlers, request'[h].pc = "payoutLot" PROVE PaidOut'
  <2>1. CASE request[h].pc = "payoutLot"
    BY <1>1, <2>1, PaidKept DEF SettlingInv
  <2>2. CASE InsertPayout(h)
    <3> DEFINE i == request[h].row
    <3>1. PICK fields \in SettlementType :
            settlement' = [settlement EXCEPT ![i] = fields] /\ fields.payout
      BY <1>1, <2>2, RowSteps
    <3>2. i \in DOMAIN settlement  BY <1>1, <2>2, RowSteps
    <3>3. i \in DOMAIN settlement' /\ settlement'[i].payout
      BY <1>1, <3>1, <3>2 DEF Types
    <3>4. QED  BY <3>3 DEF PaidOut
  <2>3. QED  BY <1>1, <1>2, <2>1, <2>2, PcSteps
<1>3. ASSUME NEW h \in Handlers, request'[h] \in Inspecting, request'[h].status = "settled"
      PROVE  Paid' \/ PaidOut'
  <2>1. CASE request[h] \in Inspecting /\ request'[h].status = request[h].status
    BY <1>1, <1>3, <2>1, PaidKept DEF SettlingInv
  <2>2. CASE ReadForInspection(h)
    <3>1. request'[h].status = lot.status
      BY <1>1, <2>2, StartEffect DEF ReadForInspection, LotStarts
    <3>2. Paid \/ PaidOut
      BY <1>1, <1>3, <3>1 DEF SettledLotIsPaid, PaidOut
    <3>3. QED  BY <3>2, PaidKept
  <2>3. QED  BY <1>1, <1>3, <2>1, <2>2, Carries
<1>4. QED  BY <1>2, <1>3 DEF SettlingInv

\* Nobody shows the lot as settled that was not paid.
LEMMA SettledNext ==
  ASSUME LotInv, Next
  PROVE  SettledLotIsPaid'
<1>1. Types /\ SettlingInv /\ BookingInv /\ SettledLotIsPaid  BY DEF LotInv
<1>2. SUFFICES ASSUME lot'.status = "settled" PROVE Paid \/ PaidOut
  BY PaidKept DEF SettledLotIsPaid, PaidOut
<1>3. CASE lot'.status = lot.status
  BY <1>1, <1>2, <1>3 DEF SettledLotIsPaid, PaidOut
<1>4. ASSUME NEW h \in Handlers,
             AssignId(h) \/ AssignInspectedId(h) \/ AssignSettledId(h)
      PROVE  lot'.status = lot.status
  BY <1>1, <1>4
     DEF AssignId, AssignInspectedId, AssignSettledId, Types, LotType
<1>5. ASSUME NEW h \in Handlers,
             \/ CreateLot(h) \/ Confirm(h) \/ Decline(h) \/ AdvanceLot(h)
             \/ MarkReweighing(h) \/ MarkAuditing(h) \/ MarkAccepted(h)
      PROVE  lot'.status # "settled"
  BY <1>1, <1>5
     DEF CreateLot, Confirm, Decline, AdvanceLot, MarkReweighing, MarkAuditing,
         MarkAccepted, Types, LotType, NoLot
<1>6. ASSUME NEW h \in Handlers, UnregisterLot(h) \/ ResolveLot(h)
      PROVE  lot' = lot \/ lot'.status # "settled"
  <2>1. lot \in LotType
    BY <1>1 DEF Types
  <2>2. CASE UnregisterLot(h)
    BY <2>2 DEF UnregisterLot, NoLot
  <2>3. ASSUME NEW p \in Producers,
               lot' = [lot EXCEPT !.status = "awaiting_producer_confirmation",
                                  !.producer = p]
        PROVE  lot'.status # "settled"
    BY <2>1, <2>3 DEF LotType
  <2>4. CASE \/ lot' = [lot EXCEPT !.status = "awaiting_producer_confirmation"]
             \/ lot' = [lot EXCEPT !.status = "cancelled"]
    BY <2>1, <2>4 DEF LotType
  <2>5. CASE ResolveLot(h)
    BY <2>3, <2>4, <2>5 DEF ResolveLot
  <2>6. QED  BY <1>6, <2>2, <2>5
<1>7. ASSUME NEW h \in Handlers, RestoreLot(h)
      PROVE  Paid \/ PaidOut
  <2>1. request[h] \in Inspecting
    BY <1>1, <1>7, ShapeOfPc DEF RestoreLot, At, Types
  <2>2. lot'.status = request[h].status
    BY <1>1, <1>7 DEF RestoreLot, Types, LotType
  <2>3. QED  BY <1>1, <1>2, <2>1, <2>2 DEF SettlingInv
<1>8. ASSUME NEW h \in Handlers, UndoReweigh(h)
      PROVE  lot'.status # "settled"
  <2>1. request[h] \in Reweighing
    BY <1>1, <1>8, ShapeOfPc DEF UndoReweigh, At, Types
  <2>2. QED  BY <1>1, <1>8, <2>1 DEF UndoReweigh, Types, LotType, Reweighing
<1>9. ASSUME NEW h \in Handlers, BookSettledLot(h) \/ PayoutLot(h)
      PROVE  Paid \/ PaidOut
  BY <1>1, <1>9 DEF BookSettledLot, PayoutLot, At, BookingInv, SettlingInv
<1>10. ASSUME BookLot \/ FailLot
      PROVE  lot'.status # "settled"
  BY <1>1, <1>10 DEF BookLot, FailLot, Types, LotType
<1>11. QED
  BY <1>1, <1>2, <1>3, <1>4, <1>5, <1>6, <1>7, <1>8, <1>9, <1>10, LotChanges

-----------------------------------------------------------------------------
(* The invariant *)

\* The invariant holds at first and is kept by every step.
LEMMA LotInvInit ==
  ASSUME Init
  PROVE  LotInv
<1> USE DEF Init
<1>1. Types
  <2>1. lot \in LotType  BY LotAssumption DEF NoLot, LotType, LotStatus
  <2>2. run \in [Runs -> RunType]  BY LotAssumption DEF NoRun, RunType
  <2>3. chain \in ChainType
    BY LotAssumption DEF ChainType, NoAttestation, NoQuote
  <2>4. job \in [Runs -> JobType]  BY LotAssumption DEF JobType
  <2>5. request \in [Handlers -> RequestType]  BY DEF Idle, RequestType, Plain
  <2>6. settlement \in Seq(SettlementType) /\ Len(settlement) <= MaxSettlements
    BY LotAssumption
  <2>7. faults \in 0 .. MaxFaults  BY LotAssumption
  <2>8. QED
    BY <2>1, <2>2, <2>3, <2>4, <2>5, <2>6, <2>7 DEF Types, Completions
<1>2. ~Referenced /\ settlement = <<>> /\ DOMAIN settlement = {}
  BY DEF Referenced, NoRun
<1>3. \A h \in Handlers : request[h] = Idle
  OBVIOUS
<1>4. \A h \in Handlers : request[h].pc = "idle"
  BY <1>3 DEF Idle
<1>5. RowsInv
  <2>1. \A h \in Handlers :
          request[h] \notin Inspecting \cup Reweighing \cup Accepting \cup Resolving
    BY <1>4 DEF Inspecting, Reweighing, Accepting, Resolving
  <2>2. QED  BY <1>2, <1>4, <2>1 DEF RowsInv, Backed, NoLot
<1>6. CreatingInv /\ OwnersInv
  BY <1>4 DEF CreatingInv, Creating, OwnersInv, Owners
<1>7. ChainInv
  BY LotAssumption DEF ChainInv, Sealed, NoAttestation, NoQuote, Versions
<1>8. JobsInv
  BY <1>4, LotAssumption DEF JobsInv, Enqueuing, NoRun
<1>9. WorkerInv
  BY DEF WorkerInv
<1>10. ExecutingInv /\ SettlingInv
  <2>1. \A h \in Handlers : request[h] \notin Executing \cup PayingOut \cup Inspecting
    BY <1>4 DEF Executing, PayingOut, Inspecting
  <2>2. QED  BY <1>4, <2>1 DEF ExecutingInv, SettlingInv
<1>11. BookingInv /\ BookedIsPaid
  BY <1>2, <1>4 DEF BookingInv, Booking, Sealed, BookedIsPaid
<1>12. SettledLotIsPaid /\ ReportedInv /\ LinkedInv
  BY <1>4 DEF SettledLotIsPaid, NoLot, ReportedInv, LinkedInv, Sealed
<1>13. QED
  BY <1>1, <1>5, <1>6, <1>7, <1>8, <1>9, <1>10, <1>11, <1>12 DEF LotInv

LEMMA LotInvStutters ==
  ASSUME LotInv, UNCHANGED vars
  PROVE  LotInv'
<1> USE DEF vars, rows
<1>1. Types'  BY DEF LotInv, Types, Completions
<1>2. RowsInv'  BY DEF LotInv, RowsInv, Referenced, Backed, HasRun
<1>3. CreatingInv' /\ OwnersInv'
  BY DEF LotInv, CreatingInv, Creating, OwnersInv, Owners
<1>4. ChainInv' /\ ReportedInv' /\ LinkedInv'
  BY DEF LotInv, ChainInv, ReportedInv, LinkedInv
<1>5. JobsInv'
  BY DEF LotInv, JobsInv, Enqueuing
<1>6. WorkerInv'  BY DEF LotInv, WorkerInv, OnContract
<1>7. ExecutingInv' /\ SettlingInv'
  BY DEF LotInv, ExecutingInv, SettlingInv, Paid, PaidOut
<1>8. BookingInv' /\ BookedIsPaid' /\ SettledLotIsPaid'
  BY DEF LotInv, BookingInv, Booking, Bills, BookedIsPaid, SettledLotIsPaid, Paid
<1>9. QED
  BY <1>1, <1>2, <1>3, <1>4, <1>5, <1>6, <1>7, <1>8 DEF LotInv

LEMMA LotInvNext ==
  ASSUME LotInv, Next
  PROVE  LotInv'
BY TypesNext, RowsNext, CreatingNext, OwnersNext, ChainNext, JobsNext, WorkerNext,
   ExecutingNext, BookingNext, SettlingNext, BookedNext, SettledNext, ReportedNext,
   LinkedNext DEF LotInv

LEMMA LotInvariant == Spec => []LotInv
<1>1. LotInv /\ [Next]_vars => LotInv'
  BY LotInvNext, LotInvStutters
<1>2. QED  BY LotInvInit, <1>1, PTL DEF Spec

-----------------------------------------------------------------------------
(* Every call is one of AlpactoCore *)

\* The accounts that send the calls, apart from the producers.
LEMMA StaffAccounts ==
  /\ {"association", "inspector", "ayni"}
       \subseteq Producers \cup (Staff \ {"core", "zero"})
  /\ Producers \subseteq Producers \cup (Staff \ {"core", "zero"})
  /\ "core" \notin Producers /\ "zero" \notin Producers /\ "none" \notin Producers
BY LotAssumption DEF Staff

\* The contract's records, and what a change of one of their fields makes of them.
LotRecord(status, producer, version, accepted, split, reserved) ==
  [status |-> status, order |-> "order", producer |-> producer, version |-> version,
   acceptedVersion |-> accepted, split |-> split, reserved |-> reserved]

OrderRecord(status, remaining, reserved, fulfilled) ==
  [status |-> status, buyer |-> "buyer", association |-> "association",
   funded |-> Capacity, remaining |-> remaining, target |-> Capacity,
   reserved |-> reserved, fulfilled |-> fulfilled]

\* What the calls do to them.
Restated(l, s)          == [l EXCEPT !.status = s]
Versioned(l, v, s)      == [l EXCEPT !.version = v, !.status = s]
Reserving(l, w, s)      == [l EXCEPT !.reserved = w, !.status = s]
Agreed(l, v, split, s)  == [l EXCEPT !.acceptedVersion = v, !.split = split, !.status = s]
Holding(o, w)           == [o EXCEPT !.reserved = w]
Out(o, left, w, out, s) == [o EXCEPT !.remaining = left, !.reserved = w,
                                     !.fulfilled = out, !.status = s]

\* Each update of a record, as a record.
LEMMA RestatedLot ==
  ASSUME NEW s, NEW p, NEW v, NEW a, NEW split, NEW w, NEW x
  PROVE  Restated(LotRecord(s, p, v, a, split, w), x) = LotRecord(x, p, v, a, split, w)
BY DEF LotRecord, Restated

LEMMA VersionedLot ==
  ASSUME NEW s, NEW p, NEW v, NEW a, NEW split, NEW w, NEW x, NEW y
  PROVE  Versioned(LotRecord(s, p, v, a, split, w), x, y) = LotRecord(y, p, x, a, split, w)
<1>1. [LotRecord(s, p, v, a, split, w) EXCEPT !.version = x] = LotRecord(s, p, x, a, split, w)
  BY DEF LotRecord
<1>2. [LotRecord(s, p, x, a, split, w) EXCEPT !.status = y] = LotRecord(y, p, x, a, split, w)
  BY DEF LotRecord
<1>3. QED  BY <1>1, <1>2, Zenon DEF Versioned

LEMMA ReservingLot ==
  ASSUME NEW s, NEW p, NEW v, NEW a, NEW split, NEW w, NEW x, NEW y
  PROVE  Reserving(LotRecord(s, p, v, a, split, w), x, y) = LotRecord(y, p, v, a, split, x)
<1>1. [LotRecord(s, p, v, a, split, w) EXCEPT !.reserved = x] = LotRecord(s, p, v, a, split, x)
  BY DEF LotRecord
<1>2. [LotRecord(s, p, v, a, split, x) EXCEPT !.status = y] = LotRecord(y, p, v, a, split, x)
  BY DEF LotRecord
<1>3. QED  BY <1>1, <1>2, Zenon DEF Reserving

LEMMA AgreedLot ==
  ASSUME NEW s, NEW p, NEW v, NEW a, NEW split, NEW w, NEW x, NEW y, NEW z
  PROVE  Agreed(LotRecord(s, p, v, a, split, w), x, y, z) = LotRecord(z, p, v, x, y, w)
<1>1. [LotRecord(s, p, v, a, split, w) EXCEPT !.acceptedVersion = x]
        = LotRecord(s, p, v, x, split, w)
  BY DEF LotRecord
<1>2. [LotRecord(s, p, v, x, split, w) EXCEPT !.split = y] = LotRecord(s, p, v, x, y, w)
  BY DEF LotRecord
<1>3. [LotRecord(s, p, v, x, y, w) EXCEPT !.status = z] = LotRecord(z, p, v, x, y, w)
  BY DEF LotRecord
<1>4. QED  BY <1>1, <1>2, <1>3, Zenon DEF Agreed

LEMMA HoldingOrder ==
  ASSUME NEW s, NEW left, NEW held, NEW out, NEW x
  PROVE  Holding(OrderRecord(s, left, held, out), x) = OrderRecord(s, left, x, out)
BY DEF OrderRecord, Holding

LEMMA OutOrder ==
  ASSUME NEW s, NEW left, NEW held, NEW out, NEW x, NEW y, NEW z, NEW u
  PROVE  Out(OrderRecord(s, left, held, out), x, y, z, u) = OrderRecord(u, x, y, z)
<1>1. [OrderRecord(s, left, held, out) EXCEPT !.remaining = x] = OrderRecord(s, x, held, out)
  BY DEF OrderRecord
<1>2. [OrderRecord(s, x, held, out) EXCEPT !.reserved = y] = OrderRecord(s, x, y, out)
  BY DEF OrderRecord
<1>3. [OrderRecord(s, x, y, out) EXCEPT !.fulfilled = z] = OrderRecord(s, x, y, z)
  BY DEF OrderRecord
<1>4. [OrderRecord(s, x, y, z) EXCEPT !.status = u] = OrderRecord(u, x, y, z)
  BY DEF OrderRecord
<1>5. QED  BY <1>1, <1>2, <1>3, <1>4, Zenon DEF Out

\* What a call asks of the records.
LEMMA RecordFields ==
  ASSUME NEW s, NEW p, NEW v, NEW a, NEW split, NEW w, NEW left, NEW held, NEW out
  PROVE  /\ LotRecord(s, p, v, a, split, w).status = s
         /\ LotRecord(s, p, v, a, split, w).order = "order"
         /\ LotRecord(s, p, v, a, split, w).producer = p
         /\ LotRecord(s, p, v, a, split, w).version = v
         /\ LotRecord(s, p, v, a, split, w).split = split
         /\ LotRecord(s, p, v, a, split, w).reserved = w
         /\ OrderRecord(s, left, held, out).status = s
         /\ OrderRecord(s, left, held, out).association = "association"
         /\ OrderRecord(s, left, held, out).remaining = left
         /\ OrderRecord(s, left, held, out).reserved = held
         /\ OrderRecord(s, left, held, out).fulfilled = out
         /\ OrderRecord(s, left, held, out).target = Capacity
BY DEF LotRecord, OrderRecord

\* As long as nothing is paid, the order's money is where it was.
LEMMA Unpaid ==
  ASSUME ~Paid
  PROVE  /\ Spent = 0
         /\ CoreOrder = OrderRecord("ACCEPTING_LOTS", Capacity, Held, 0)
         /\ CoreUsdc = [a \in Producers \cup (Staff \ {"zero"}) |->
                          IF a = "core" THEN Capacity ELSE 0]
BY LotAssumption DEF Spent, CoreOrder, CoreUsdc, OrderRecord

\* Each call, as the action of AlpactoCore that allows it.
LEMMA RegistersRefines ==
  ASSUME LotInv, Registers
  PROVE  Core!Next
<1>1. PICK p \in Producers : chain.status = "ABSENT" /\ chain' = Registered(p)
  BY DEF Registers
<1>2. chain \in ChainType /\ chain.quote = NoQuote /\ chain.version = 0
  BY <1>1 DEF LotInv, Types, ChainInv, Sealed
<1>3. /\ chain'.status = "REGISTERED" /\ chain'.producer = p
      /\ chain'.version = 0 /\ chain'.weight = chain.weight
      /\ chain'.attestation = chain.attestation /\ chain'.quote = NoQuote
  BY <1>1, <1>2 DEF Registered, ChainType
<1>4. ~Paid /\ ~Paid' /\ Held = 0 /\ Held' = 0
  BY <1>1, <1>3 DEF Paid, Held
<1>5. UNCHANGED <<CoreOrder, CoreUsdc>>
  BY <1>4 DEF CoreOrder, CoreUsdc, Spent
<1>6. UNCHANGED <<chain.weight, CoreAttestations>>
  BY <1>3 DEF CoreAttestations
<1>7. /\ CoreOrder.status = "ACCEPTING_LOTS" /\ CoreOrder.reserved = 0
      /\ CoreOrder.fulfilled = 0 /\ CoreOrder.target = Capacity
  BY <1>4, Unpaid DEF OrderRecord
<1>8. /\ CoreLot.status = "ABSENT"
      /\ CoreLot' = LotRecord("REGISTERED", p, 0, 0, Shares(0), 0)
  BY <1>1, <1>3, <1>4 DEF CoreLot, NoQuote, LotRecord
<1>9. Core!RegisterLot("inspector", "order", "lot", p)
  <2>1. Core!HasRole("INSPECTOR_ROLE", "inspector") /\ p # "zero"
    BY StaffAccounts DEF Core!HasRole
  <2>2. Core!UsedWeight("order") < Capacity
    BY <1>7, LotAssumption DEF Core!UsedWeight
  <2>3. [Core!EmptyLot EXCEPT !.status = "REGISTERED", !.order = "order", !.producer = p]
          = CoreLot'
    <3>1. \A any, split, x : [[status |-> "ABSENT", order |-> any,
              producer |-> "zero", version |-> 0, acceptedVersion |-> 0,
              split |-> split, reserved |-> 0] EXCEPT !.status = x]
            = [status |-> x, order |-> any, producer |-> "zero", version |-> 0,
               acceptedVersion |-> 0, split |-> split, reserved |-> 0]
      OBVIOUS
    <3>2. \A any, split, x : [[status |-> x, order |-> any, producer |-> "zero",
              version |-> 0, acceptedVersion |-> 0, split |-> split, reserved |-> 0]
                 EXCEPT !.order = "order"]
            = LotRecord(x, "zero", 0, 0, split, 0)
      BY DEF LotRecord
    <3>3. \A split, x : [LotRecord(x, "zero", 0, 0, split, 0) EXCEPT !.producer = p]
                         = LotRecord(x, p, 0, 0, split, 0)
      BY DEF LotRecord
    <3>4. Core!NoSplit = Shares(0)
      BY DEF Core!NoSplit, Shares
    <3> DEFINE any == CHOOSE o \in {"order"} : TRUE
    <3>5. Core!EmptyLot = [status |-> "ABSENT", order |-> any, producer |-> "zero",
              version |-> 0, acceptedVersion |-> 0, split |-> Shares(0), reserved |-> 0]
      BY <3>4, Zenon DEF Core!EmptyLot
    <3> HIDE DEF any
    <3>6. [Core!EmptyLot EXCEPT !.status = "REGISTERED"]
            = [status |-> "REGISTERED", order |-> any, producer |-> "zero",
               version |-> 0, acceptedVersion |-> 0, split |-> Shares(0), reserved |-> 0]
      BY <3>1, <3>5
    <3>7. [[status |-> "REGISTERED", order |-> any, producer |-> "zero", version |-> 0,
            acceptedVersion |-> 0, split |-> Shares(0), reserved |-> 0]
              EXCEPT !.order = "order"]
            = LotRecord("REGISTERED", "zero", 0, 0, Shares(0), 0)
      BY <3>2
    <3>8. [LotRecord("REGISTERED", "zero", 0, 0, Shares(0), 0) EXCEPT !.producer = p]
            = CoreLot'
      BY <1>8, <3>3, Zenon
    <3>9. QED  BY <3>6, <3>7, <3>8, Zenon
  <2>4. QED
    BY <1>5, <1>6, <1>7, <1>8, <2>1, <2>2, <2>3 DEF Core!RegisterLot, Core!OpenStatus
<1>10. QED  BY <1>9, StaffAccounts DEF Core!Next, Core!OrderCall

LEMMA InspectsRefines ==
  ASSUME LotInv, Inspects
  PROVE  Core!Next
<1>1. PICK v \in Versions :
        TakesInspection(v) /\ inspection[v] # 0 /\ chain' = Inspected(v)
  BY DEF Inspects
<1> DEFINE w == inspection[v]
<1>2. chain \in ChainType /\ chain.producer \in Producers /\ w \in Weights
  BY <1>1 DEF LotInv, Types, ChainInv, TakesInspection
<1>3. chain.weight[v] = 0 /\ v = chain.version + 1
  <2>1. v \in Nat /\ chain.version \in Nat
    BY <1>2, LotAssumption DEF Versions, ChainType
  <2>2. QED  BY <1>1, <2>1 DEF LotInv, ChainInv, TakesInspection
<1>4. /\ chain'.status = "AUDITING" /\ chain'.producer = chain.producer
      /\ chain'.version = v /\ chain'.weight = [chain.weight EXCEPT ![v] = w]
      /\ chain'.attestation = chain.attestation /\ chain'.quote = chain.quote
  BY <1>1, <1>2 DEF Inspected, ChainType
<1>5. ~Paid /\ ~Paid' /\ Held = 0 /\ Held' = 0
  BY <1>1, <1>4 DEF Paid, Held, TakesInspection
<1>6. UNCHANGED <<CoreOrder, CoreUsdc, CoreAttestations>>
  BY <1>4, <1>5 DEF CoreOrder, CoreUsdc, Spent, CoreAttestations
<1>7. /\ CoreLot.status = chain.status /\ CoreLot.version = chain.version
      /\ CoreLot' = [CoreLot EXCEPT !.version = v, !.status = "AUDITING"]
  <2>1. chain.status # "ABSENT"
    BY <1>1 DEF TakesInspection
  <2>2. CoreLot = LotRecord(chain.status, chain.producer, chain.version,
                            chain.quote.version, Shares(chain.quote.price), 0)
    BY <1>5, <2>1 DEF CoreLot, LotRecord
  <2>3. CoreLot' = LotRecord("AUDITING", chain.producer, v, chain.quote.version,
                             Shares(chain.quote.price), 0)
    BY <1>4, <1>5 DEF CoreLot, LotRecord
  <2>4. CoreLot' = Versioned(CoreLot, v, "AUDITING")
    BY <2>2, <2>3, VersionedLot
  <2>5. QED  BY <2>2, <2>4, RecordFields DEF Versioned
<1>8. Core!SubmitInspectionReference("inspector", "lot", v, w)
  <2>1. Core!HasRole("INSPECTOR_ROLE", "inspector")
    BY DEF Core!HasRole
  <2>2. chain.status \in Core!InspectableStatus
    BY <1>1 DEF TakesInspection, Core!InspectableStatus
  <2>3. w # 0 /\ UNCHANGED <<CoreOrder, CoreUsdc, CoreAttestations>>
    BY <1>1, <1>6
  <2> HIDE DEF w
  <2>4. QED
    BY <1>3, <1>4, <1>7, <2>1, <2>2, <2>3 DEF Core!SubmitInspectionReference
<1>9. v \in Core!Versions /\ w \in Weights
  BY <1>2 DEF Core!Versions, Versions
<1> HIDE DEF w
<1>10. QED  BY <1>8, <1>9, StaffAccounts DEF Core!Next, Core!LotCall

LEMMA AttestsRefines ==
  ASSUME LotInv, Attests
  PROVE  Core!Next
<1>1. PICK r \in Runs, result \in Verdicts :
        /\ run[r].version \in Versions
        /\ TakesAttestation(run[r].version, result) /\ chain' = Attested(r, result)
  BY DEF Attests
<1> DEFINE v == run[r].version
           w == chain.weight[v]
<1>2. chain \in ChainType /\ chain.status = "AUDITING" /\ v = chain.version /\ v \in Versions
  BY <1>1 DEF LotInv, Types, TakesAttestation
<1>3. w \in Weights /\ w # 0 /\ w \in Nat
  <2>1. chain.weight[v] # 0 /\ chain.weight[v] \in Weights \cup {0}
    BY <1>2, LotAssumption DEF LotInv, ChainInv, ChainType, Versions
  <2>2. QED  BY <2>1, LotAssumption
<1>4. /\ chain'.status = IF result \in Acceptable THEN "READY_FOR_REVIEW"
                                                  ELSE "REVIEW_REQUIRED"
      /\ chain'.producer = chain.producer /\ chain'.version = chain.version
      /\ chain'.weight = chain.weight /\ chain'.quote = chain.quote
      /\ chain'.attestation = [chain.attestation EXCEPT ![v] = [run |-> r, result |-> result]]
  BY <1>1, <1>2 DEF Attested, ChainType
<1>5. /\ ~Paid /\ ~Paid' /\ Held = 0
      /\ Held' = IF result \in Acceptable THEN w ELSE 0
  BY <1>2, <1>4 DEF Paid, Held
<1>6. UNCHANGED CoreUsdc
  BY <1>5, Unpaid DEF CoreUsdc, Spent
<1>7. /\ CoreOrder.target = Capacity /\ CoreOrder.reserved = 0 /\ CoreOrder.fulfilled = 0
      /\ CoreOrder' = [CoreOrder EXCEPT !.reserved = Held']
  <2>1. CoreOrder = OrderRecord("ACCEPTING_LOTS", Capacity, 0, 0)
    BY <1>5, Unpaid
  <2>2. CoreOrder' = OrderRecord("ACCEPTING_LOTS", Capacity, Held', 0)
    BY <1>5, LotAssumption DEF CoreOrder, Spent, OrderRecord
  <2>3. CoreOrder' = Holding(CoreOrder, Held')
    BY <2>1, <2>2, HoldingOrder
  <2>4. CoreOrder' = [CoreOrder EXCEPT !.reserved = Held']
    BY <2>3, Zenon DEF Holding
  <2>5. QED  BY <2>1, <2>4, RecordFields
<1>8. /\ CoreLot.status = "AUDITING" /\ CoreLot.version = v /\ CoreLot.order = "order"
      /\ CoreLot.reserved = 0
      /\ CoreLot' = [CoreLot EXCEPT !.reserved = Held', !.status = chain'.status]
  <2>1. CoreLot = LotRecord("AUDITING", chain.producer, v, chain.quote.version,
                            Shares(chain.quote.price), 0)
    BY <1>2, <1>5 DEF CoreLot, LotRecord
  <2>2. CoreLot' = LotRecord(chain'.status, chain.producer, v, chain.quote.version,
                             Shares(chain.quote.price), Held')
    BY <1>2, <1>4 DEF CoreLot, LotRecord
  <2>3. CoreLot' = Reserving(CoreLot, Held', chain'.status)
    BY <2>1, <2>2, ReservingLot
  <2>4. CoreLot' = [CoreLot EXCEPT !.reserved = Held', !.status = chain'.status]
    BY <2>3, Zenon DEF Reserving
  <2>5. QED  BY <2>1, <2>4, RecordFields
<1>9. /\ CoreAttestations[v] = "NONE"
      /\ CoreAttestations' = [CoreAttestations EXCEPT ![v] = Result[result]]
  <2>1. chain.attestation[v] = NoAttestation
    BY <1>1 DEF TakesAttestation
  <2>2. result # "none"
    BY DEF Verdicts, Acceptable
  <2>3. chain'.attestation[v] # NoAttestation /\ chain'.attestation[v].result = result
    BY <1>2, <1>4, <2>2 DEF NoAttestation, ChainType
  <2>4. \A u \in Versions \ {v} : chain'.attestation[u] = chain.attestation[u]
    BY <1>2, <1>4 DEF ChainType
  <2>5. CoreAttestations[v] = "NONE"
    BY <1>2, <2>1 DEF CoreAttestations
  <2>6. CoreAttestations' = [u \in Versions |-> IF u = v THEN Result[result]
                                                 ELSE CoreAttestations[u]]
    BY <2>3, <2>4 DEF CoreAttestations
  <2>7. CoreAttestations = [u \in Versions |-> CoreAttestations[u]]
    BY DEF CoreAttestations
  <2> HIDE DEF v
  <2>8. QED  BY <2>5, <2>6, <2>7
<1>10. /\ Result[result] \in Core!AuditResult
       /\ Result[result] \in Core!AcceptableResult <=> result \in Acceptable
  BY DEF Result, Verdicts, Acceptable, Core!AuditResult, Core!AcceptableResult
<1>11. result \in Acceptable => w <= Core!AvailableWeight("order")
  BY <1>1, <1>2, <1>3, <1>7, LotAssumption
     DEF TakesAttestation, Core!AvailableWeight, Core!UsedWeight
<1>12. Core!SubmitAuditAttestation("ayni", "lot", v, Result[result])
  <2>1. Core!HasRole("AUDITOR_AGENT_ROLE", "ayni")
    BY DEF Core!HasRole
  <2>2. UNCHANGED <<chain.weight, CoreUsdc>>
    BY <1>4, <1>6
  <2>3. CASE result \in Acceptable
    <3>1. /\ Held' = w /\ chain'.status = "READY_FOR_REVIEW"
          /\ Result[result] \in Core!AcceptableResult
      BY <1>4, <1>5, <1>10, <2>3
    <3>2. w # 0 /\ w <= Core!AvailableWeight("order")
      BY <1>3, <1>11, <2>3
    <3> HIDE DEF w
    <3>3. CoreOrder' = [CoreOrder EXCEPT !.reserved = CoreOrder.reserved + w]
      BY <1>3, <1>7, <3>1
    <3> HIDE DEF v
    <3>4. Core!ReserveWeight("lot", w)
      BY <1>8, <3>1, <3>2, <3>3 DEF Core!ReserveWeight
    <3>5. QED
      BY <1>3, <1>8, <1>9, <2>1, <2>2, <3>1, <3>2, <3>4 DEF Core!SubmitAuditAttestation, w
  <2>4. CASE result \notin Acceptable
    <3>1. /\ Held' = 0 /\ chain'.status = "REVIEW_REQUIRED"
          /\ Result[result] \notin Core!AcceptableResult
      BY <1>4, <1>5, <1>10, <2>4
    <3>2. UNCHANGED CoreOrder
      BY <1>4, <1>5, <3>1 DEF CoreOrder, Spent
    <3>3. CoreLot' = [CoreLot EXCEPT !.status = "REVIEW_REQUIRED"]
      <4>1. CoreLot = LotRecord("AUDITING", chain.producer, v, chain.quote.version,
                                Shares(chain.quote.price), 0)
        BY <1>2, <1>5 DEF CoreLot, LotRecord
      <4>2. CoreLot' = LotRecord("REVIEW_REQUIRED", chain.producer, v,
                                 chain.quote.version, Shares(chain.quote.price), 0)
        BY <1>2, <1>4, <3>1 DEF CoreLot, LotRecord
      <4>3. CoreLot' = Restated(CoreLot, "REVIEW_REQUIRED")
        BY <4>1, <4>2, RestatedLot
      <4>4. QED  BY <4>3, Zenon DEF Restated
    <3> HIDE DEF v
    <3>4. QED
      BY <1>3, <1>8, <1>9, <2>1, <2>2, <3>1, <3>2, <3>3 DEF Core!SubmitAuditAttestation
  <2>5. QED  BY <2>3, <2>4
<1>13. v \in Core!Versions
  BY <1>2 DEF Core!Versions, Versions
<1> HIDE DEF v
<1>14. QED  BY <1>10, <1>12, <1>13, StaffAccounts DEF Core!Next, Core!LotCall

LEMMA ReweighsRefines ==
  ASSUME LotInv, Reweighs
  PROVE  Core!Next
<1> DEFINE p == chain.producer
           shares == Shares(chain.quote.price)
<1>1. /\ chain \in ChainType /\ p \in Producers
      /\ chain.status \in {"READY_FOR_REVIEW", "REVIEW_REQUIRED"} /\ chain' = Reweighed
  BY DEF LotInv, Types, ChainInv, Reweighs, TakesReweighing
<1>2. /\ chain'.status = "REWEIGHING_REQUESTED" /\ chain'.producer = p
      /\ chain'.version = chain.version /\ chain'.weight = chain.weight
      /\ chain'.attestation = chain.attestation /\ chain'.quote = chain.quote
  BY <1>1 DEF Reweighed, ChainType
<1>3. ~Paid /\ ~Paid' /\ Held \in Nat /\ Held' = 0
  <2>1. chain.status = "READY_FOR_REVIEW" => chain.version \in Versions
    BY <1>1, LotAssumption DEF LotInv, ChainInv, ChainType, Versions
  <2>2. \A v \in Versions : chain.weight[v] \in Nat
    <3>1. \A v \in Versions : chain.weight[v] \in Weights \cup {0}
      BY <1>1 DEF ChainType
    <3>2. Weights \subseteq Nat /\ 0 \in Nat  BY LotAssumption
    <3>3. QED  BY <3>1, <3>2, Zenon
  <2>3. Held \in Nat
    BY <1>1, <2>1, <2>2 DEF Held
  <2>4. QED  BY <1>1, <1>2, <2>3 DEF Paid, Held
<1>4. UNCHANGED <<chain.weight, CoreAttestations, CoreUsdc>>
  BY <1>2, <1>3 DEF CoreAttestations, CoreUsdc, Spent
<1>5. /\ CoreOrder = OrderRecord("ACCEPTING_LOTS", Capacity, Held, 0)
      /\ CoreOrder' = OrderRecord("ACCEPTING_LOTS", Capacity, Held', 0)
  BY <1>3, Unpaid, LotAssumption DEF CoreOrder, Spent, OrderRecord
<1>6. /\ CoreLot = LotRecord(chain.status, p, chain.version, chain.quote.version, shares, Held)
      /\ CoreLot' = LotRecord("REWEIGHING_REQUESTED", p, chain.version,
                              chain.quote.version, shares, 0)
  BY <1>1, <1>2, <1>3 DEF CoreLot, LotRecord
<1> HIDE DEF p, shares
<1>7. Core!RequestReweighing(p, "lot")
  <2>1. /\ chain.status \in Core!ReviewedStatus
        /\ CoreLot.status = chain.status /\ CoreLot.producer = p
        /\ CoreLot.reserved = Held /\ CoreLot.order = "order" /\ CoreOrder.reserved = Held
    BY <1>1, <1>5, <1>6, RecordFields DEF Core!ReviewedStatus
  <2>2. CoreLot' = [CoreLot EXCEPT !.reserved = 0, !.status = "REWEIGHING_REQUESTED"]
    <3>1. CoreLot' = Reserving(CoreLot, 0, "REWEIGHING_REQUESTED")
      BY <1>6, ReservingLot
    <3>2. QED  BY <3>1, Zenon DEF Reserving
  <2>3. CoreOrder' = [CoreOrder EXCEPT !.reserved = CoreOrder.reserved - CoreLot.reserved]
    <3>1. CoreOrder' = [CoreOrder EXCEPT !.reserved = Held']
      <4>1. CoreOrder' = Holding(CoreOrder, Held')
        BY <1>5, HoldingOrder
      <4>2. QED  BY <4>1, Zenon DEF Holding
    <3>2. Held' = CoreOrder.reserved - CoreLot.reserved
      BY <1>3, <2>1
    <3>3. QED  BY <3>1, <3>2, Zenon
  <2>4. QED
    BY <1>3, <1>4, <2>1, <2>2, <2>3 DEF Core!RequestReweighing, Core!ReleasedWeight
<1>8. p \in Producers  BY <1>1 DEF p
<1>9. QED  BY <1>7, <1>8, StaffAccounts DEF Core!Next, Core!LotCall

\* What the contract adds up to pay a producer is the price.
LEMMA PriceTotal ==
  ASSUME NEW price \in 1 .. Capacity
  PROVE  Core!SplitTotal(Shares(price)) = price
<1>1. \A x, m \in Nat : x < m => x % m = x
  OBVIOUS
<1>2. price \in Nat /\ 2 * Capacity + 1 \in Nat /\ price < 2 * Capacity + 1
  BY LotAssumption
<1>3. price % (2 * Capacity + 1) = price
  BY <1>1, <1>2
<1>4. price + 0 + 0 = price
  BY <1>2
<1>5. QED  BY <1>3, <1>4 DEF Core!SplitTotal, Shares

LEMMA PaysRefines ==
  ASSUME LotInv, Pays
  PROVE  Core!Next
<1>1. PICK i \in DOMAIN settlement :
        /\ TakesAcceptance(lot.producer, settlement[i].version, settlement[i].price)
        /\ chain' = Accepted(settlement[i].version, settlement[i].price)
  BY DEF Pays
<1> DEFINE p == chain.producer
           v == chain.version
           price == settlement[i].price
<1>2. /\ chain \in ChainType /\ p \in Producers /\ chain.status = "READY_FOR_REVIEW"
      /\ settlement[i].version = v /\ v \in Versions
      /\ price \in Weights /\ price \in 1 .. Capacity /\ chain.quote = NoQuote
  <2>1. settlement[i] \in SettlementType
    BY DEF LotInv, Types
  <2>2. price \in Weights /\ price \in Nat \ {0} /\ settlement[i].version \in Versions
    BY <2>1, LotAssumption DEF SettlementType
  <2>3. QED
    BY <1>1, <2>2, LotAssumption DEF LotInv, Types, ChainInv, TakesAcceptance, Sealed
<1>3. /\ chain'.status = "PRODUCER_ACCEPTED" /\ chain'.producer = p
      /\ chain'.version = v /\ chain'.weight = chain.weight
      /\ chain'.attestation = chain.attestation
      /\ chain'.quote = [version |-> v, price |-> price]
  BY <1>1, <1>2 DEF Accepted, ChainType
<1>4. ~Paid /\ ~Paid' /\ Held' = Held
  BY <1>2, <1>3 DEF Paid, Held
<1>5. UNCHANGED <<CoreOrder, chain.weight, CoreAttestations, CoreUsdc>>
  BY <1>3, <1>4 DEF CoreOrder, CoreAttestations, CoreUsdc, Spent
<1>6. CoreOrder = OrderRecord("ACCEPTING_LOTS", Capacity, Held, 0)
  BY <1>4, Unpaid
<1>7. /\ CoreLot = LotRecord("READY_FOR_REVIEW", p, v, 0, Shares(0), Held)
      /\ CoreLot' = LotRecord("PRODUCER_ACCEPTED", p, v, v, Shares(price), Held)
  BY <1>2, <1>3, <1>4 DEF CoreLot, LotRecord, NoQuote
<1>8. CoreAttestations[v] \in Core!AcceptableResult
  <2>1. chain.attestation[v].result \in Acceptable
    BY <1>2 DEF LotInv, ChainInv
  <2>2. chain.attestation[v] # NoAttestation
    BY <2>1 DEF NoAttestation, Acceptable
  <2>3. QED
    BY <1>2, <2>1, <2>2
       DEF CoreAttestations, Result, Acceptable, Verdicts, Core!AcceptableResult
<1>9. Core!SplitTotal(Shares(price)) = price /\ Shares(price).platform = 0
  BY <1>2, PriceTotal DEF Shares
<1>10. /\ p \in Producers /\ v \in Core!Versions
       /\ Shares(price) \in {Shares(q) : q \in Weights \cap 1 .. Capacity}
  BY <1>2 DEF Core!Versions, Versions
<1>11. price # 0 /\ price <= Capacity
  BY <1>2, LotAssumption
<1> HIDE DEF p, v, price
<1>12. Core!AcceptSettlement(p, "lot", v, Shares(price))
  <2>1. /\ CoreLot.status = "READY_FOR_REVIEW" /\ CoreLot.producer = p /\ CoreLot.version = v
        /\ CoreLot.order = "order" /\ CoreOrder.remaining = Capacity
    BY <1>6, <1>7, RecordFields
  <2>2. CoreLot' = [CoreLot EXCEPT !.acceptedVersion = v, !.split = Shares(price),
                                   !.status = "PRODUCER_ACCEPTED"]
    <3>1. CoreLot' = Agreed(CoreLot, v, Shares(price), "PRODUCER_ACCEPTED")
      BY <1>7, AgreedLot
    <3>2. QED  BY <3>1, Zenon DEF Agreed
  <2>3. Core!TreasuryReady(Shares(price))
    BY <1>9 DEF Core!TreasuryReady
  <2>4. QED
    BY <1>5, <1>8, <1>9, <1>11, <2>1, <2>2, <2>3 DEF Core!AcceptSettlement
<1>13. QED  BY <1>10, <1>12, StaffAccounts DEF Core!Next, Core!LotCall

LEMMA SettlesRefines ==
  ASSUME LotInv, Settles
  PROVE  Core!Next
<1> DEFINE p == chain.producer
           v == chain.version
           price == chain.quote.price
           w == chain.weight[v]
           Accts == Producers \cup (Staff \ {"zero"})
<1>1. /\ chain \in ChainType /\ p \in Producers /\ chain.status = "PRODUCER_ACCEPTED"
      /\ v \in Versions /\ chain.quote.version = v /\ price \in 1 .. Capacity
      /\ w \in Nat \ {0} /\ chain' = [chain EXCEPT !.status = "SETTLED"]
  <2>1. chain \in ChainType /\ ChainInv /\ chain.status = "PRODUCER_ACCEPTED"
    BY DEF LotInv, Types, Settles, InBatch
  <2>2. v \in Versions
    BY <2>1, LotAssumption DEF ChainInv, ChainType, Versions
  <2>3. price \in 1 .. Capacity /\ chain.quote.version = v
    <3>1. price \in Weights /\ price <= Capacity /\ chain.quote.version = v
      BY <2>1 DEF ChainInv, Sealed
    <3>2. Weights \subseteq Nat \ {0} /\ Capacity \in Nat  BY LotAssumption
    <3>3. price \in Nat \ {0}  BY <3>1, <3>2, Zenon
    <3> HIDE DEF price
    <3>4. QED  BY <3>1, <3>2, <3>3
  <2>4. chain.weight[v] \in Weights \cup {0} /\ chain.weight[v] # 0
    BY <2>1, <2>2, LotAssumption DEF ChainInv, ChainType, Versions
  <2>5. QED  BY <2>1, <2>2, <2>3, <2>4, LotAssumption DEF ChainInv, Settles
<1>2. /\ chain'.status = "SETTLED" /\ chain'.producer = p /\ chain'.version = v
      /\ chain'.weight = chain.weight /\ chain'.attestation = chain.attestation
      /\ chain'.quote = chain.quote
  BY <1>1 DEF ChainType
<1>3. ~Paid /\ Paid' /\ Held = w /\ Held' = 0 /\ Spent' = price
  BY <1>1, <1>2 DEF Paid, Held, Spent
<1>4. UNCHANGED <<chain.weight, CoreAttestations>>
  BY <1>2 DEF CoreAttestations
<1>5. /\ CoreOrder = OrderRecord("ACCEPTING_LOTS", Capacity, w, 0)
      /\ CoreOrder' = OrderRecord(IF Capacity - price = 0 THEN "COMPLETED"
                                                         ELSE "PARTIALLY_SETTLED",
                                  Capacity - price, 0, w)
  <2>1. price # 0 /\ (price = Capacity <=> Capacity - price = 0)
    BY <1>1, LotAssumption
  <2>2. QED  BY <1>2, <1>3, <2>1, Unpaid DEF CoreOrder, OrderRecord
<1>6. /\ CoreLot = LotRecord("PRODUCER_ACCEPTED", p, v, v, Shares(price), w)
      /\ CoreLot' = LotRecord("SETTLED", p, v, v, Shares(price), 0)
  BY <1>1, <1>2, <1>3 DEF CoreLot, LotRecord
<1>7. /\ CoreUsdc = [a \in Accts |-> IF a = "core" THEN Capacity ELSE 0]
      /\ CoreUsdc' = [a \in Accts |-> IF a = "core" THEN Capacity - price
                                       ELSE IF a = p THEN price ELSE 0]
  BY <1>2, <1>3, Unpaid DEF CoreUsdc
<1>8. /\ Core!SplitTotal(Shares(price)) = price
      /\ Shares(price).producer = price /\ Shares(price).association = 0
      /\ Shares(price).platform = 0
  BY <1>1, PriceTotal DEF Shares
<1>9. /\ CoreLot.status = "PRODUCER_ACCEPTED" /\ CoreLot.producer = p
      /\ CoreLot.order = "order" /\ CoreLot.split = Shares(price) /\ CoreLot.reserved = w
      /\ CoreOrder.association = "association" /\ CoreOrder.remaining = Capacity
      /\ CoreOrder.reserved = w /\ CoreOrder.fulfilled = 0
  BY <1>5, <1>6, RecordFields
<1>10. /\ w \in Nat /\ w # 0 /\ p \in Producers
       /\ price \in Nat /\ price # 0 /\ price <= Capacity
  BY <1>1, LotAssumption
<1> HIDE DEF p, v, price, w
<1>11. CoreUsdc' = Core!Moved(CoreUsdc, "core", p, price)
  <2>1. p # "core" /\ p \in Accts /\ "core" \in Accts
    BY <1>10, StaffAccounts DEF Staff
  <2> HIDE DEF Accts
  <2>2. [CoreUsdc EXCEPT !["core"] = CoreUsdc["core"] - price]
          = [a \in Accts |-> IF a = "core" THEN Capacity - price ELSE 0]
    BY <1>7, <2>1
  <2>3. CoreUsdc' = [[a \in Accts |-> IF a = "core" THEN Capacity - price ELSE 0]
                      EXCEPT ![p] = 0 + price]
    <3>1. 0 + price = price
      BY <1>10
    <3>2. [[a \in Accts |-> IF a = "core" THEN Capacity - price ELSE 0] EXCEPT ![p] = price]
            = [a \in Accts |-> IF a = "core" THEN Capacity - price
                               ELSE IF a = p THEN price ELSE 0]
      BY <2>1
    <3>3. QED  BY <1>7, <3>1, <3>2, Zenon
  <2>4. [a \in Accts |-> IF a = "core" THEN Capacity - price ELSE 0][p] = 0
    BY <2>1
  <2>5. QED  BY <2>2, <2>3, <2>4 DEF Core!Moved
<1>12. /\ Core!AfterProducer("lot") = CoreUsdc' /\ Core!AfterAssociation("lot") = CoreUsdc'
       /\ Core!Paid(Core!AfterAssociation("lot"), "zero", Shares(price).platform) = CoreUsdc'
  <2>1. Core!AfterProducer("lot") = CoreUsdc'
    BY <1>8, <1>9, <1>10, <1>11 DEF Core!AfterProducer, Core!Paid
  <2>2. Core!AfterAssociation("lot") = CoreUsdc'
    BY <1>8, <1>9, <2>1 DEF Core!AfterAssociation, Core!Paid
  <2>3. QED  BY <1>8, <2>1, <2>2 DEF Core!Paid
<1>13. CoreUsdc["core"] = Capacity /\ CoreUsdc'["core"] = Capacity - price
  BY <1>7, StaffAccounts DEF Staff
<1>14. Core!CanSettle(p, "lot")
  <2>1. Core!CanPaySplit("lot")
    BY <1>8, <1>9, <1>10, <1>12, <1>13, LotAssumption DEF Core!CanPaySplit
  <2>2. Core!MaySettle(p, "lot") /\ Core!TreasuryReady(CoreLot.split)
    BY <1>8, <1>9 DEF Core!MaySettle, Core!TreasuryReady
  <2>3. QED
    BY <1>8, <1>9, <1>10, <2>1, <2>2, LotAssumption DEF Core!CanSettle
<1>15. Core!SettleLot(p, "lot")
  <2>1. CoreLot' = [CoreLot EXCEPT !.reserved = 0, !.status = "SETTLED"]
    <3>1. CoreLot' = Reserving(CoreLot, 0, "SETTLED")
      BY <1>6, ReservingLot
    <3>2. QED  BY <3>1, Zenon DEF Reserving
  <2> DEFINE left == CoreOrder.remaining - Core!SplitTotal(CoreLot.split)
             status == IF left = 0 THEN "COMPLETED" ELSE "PARTIALLY_SETTLED"
  <2>2. /\ left = Capacity - price /\ CoreOrder.reserved - CoreLot.reserved = 0
        /\ CoreOrder.fulfilled + CoreLot.reserved = w
    BY <1>8, <1>9, <1>10
  <2>3. CoreOrder' = OrderRecord(status, left, CoreOrder.reserved - CoreLot.reserved,
                                 CoreOrder.fulfilled + CoreLot.reserved)
    BY <1>5, <2>2, Zenon
  <2>4. CoreOrder' = [CoreOrder EXCEPT !.remaining = left,
                        !.reserved = CoreOrder.reserved - CoreLot.reserved,
                        !.fulfilled = CoreOrder.fulfilled + CoreLot.reserved,
                        !.status = status]
    <3> DEFINE held == CoreOrder.reserved - CoreLot.reserved
               out  == CoreOrder.fulfilled + CoreLot.reserved
    <3>1. CoreOrder' = OrderRecord(status, left, held, out)
      BY <2>3
    <3> HIDE DEF left, status, held, out
    <3>2. CoreOrder' = Out(CoreOrder, left, held, out, status)
      BY <1>5, <3>1, OutOrder
    <3>3. CoreOrder' = [CoreOrder EXCEPT !.remaining = left, !.reserved = held,
                                         !.fulfilled = out, !.status = status]
      BY <3>2, Zenon DEF Out
    <3>4. QED  BY <3>3, Zenon DEF held, out
  <2>5. CoreOrder' = (Core!SettledOrder("lot"))["order"]
    BY <1>9, <2>4, Zenon DEF Core!SettledOrder
  <2>6. QED
    BY <1>4, <1>9, <1>12, <1>14, <2>1, <2>5 DEF Core!SettleLot, Core!SettledOrder
<1>16. QED  BY <1>10, <1>15, StaffAccounts DEF Core!Next, Core!LotCall

\* So every step is a call, or none.
LEMMA NextRefines ==
  ASSUME LotInv, Next
  PROVE  Core!Next \/ UNCHANGED Core!vars
<1>1. CASE UNCHANGED chain
  BY <1>1 DEF Core!vars, CoreOrder, CoreLot, CoreAttestations, CoreUsdc, Held, Spent, Paid
<1>2. QED
  BY <1>1, ChainSteps, RegistersRefines, InspectsRefines, AttestsRefines,
     ReweighsRefines, PaysRefines, SettlesRefines

-----------------------------------------------------------------------------
(* What follows for the properties *)

\* Rows keep their declared types, in every run of any length.
THEOREM RowsTyped == Spec => []TypeOK
<1>1. LotInv => TypeOK
  BY DEF LotInv, Types, TypeOK, LotType, RunType, JobType, Completions, ChainType
<1>2. QED  BY LotInvariant, <1>1, PTL

\* What is booked as paid on the chain is what the contract paid, once.
THEOREM BookedWasPaid == Spec => []BookedIsPaid
<1>1. LotInv => BookedIsPaid
  BY DEF LotInv
<1>2. QED  BY LotInvariant, <1>1, PTL

\* A lot shown as settled was paid, on the chain or by the local payout.
THEOREM SettledWasPaid == Spec => []SettledLotIsPaid
<1>1. LotInv => SettledLotIsPaid
  BY DEF LotInv
<1>2. QED  BY LotInvariant, <1>1, PTL

\* Money leaves the contract only for an accepted settlement, at its price, and
\* for a version some audit passed.
THEOREM PaymentAccepted == Spec => []PaymentWasAccepted
<1>1. LotInv => PaymentWasAccepted
  <2>1. SUFFICES ASSUME LotInv, Paid
                 PROVE  /\ \E i \in DOMAIN settlement : Bills(i)
                        /\ chain.attestation[chain.quote.version].result \in Acceptable
    BY DEF PaymentWasAccepted, Bills
  <2>2. chain.status \in Sealed
    BY <2>1 DEF Paid, Sealed
  <2>3. QED  BY <2>1, <2>2 DEF LotInv, BookingInv, ChainInv
<1>2. QED  BY LotInvariant, <1>1, PTL

\* A verdict on the chain is of a run of that version, and what was paid is of a
\* version of which a run saved its report.
THEOREM VerdictReported == Spec => []VerdictWasReported
<1>1. LotInv => VerdictWasReported
  BY DEF LotInv, ReportedInv, VerdictWasReported, Paid, Sealed
<1>2. QED  BY LotInvariant, <1>1, PTL

\* The latest settlement that is booked with its transaction stands up to the
\* integrity check, whatever overlaps, stops or is lost before it, as long as the lot
\* was not given to another producer.
THEOREM SettledStandsUp == Spec => []SettledMatches
<1>1. LotInv => SettledMatches
  <2>1. SUFFICES ASSUME LotInv, settlement # <<>>, Last(settlement).tx,
                        lot.producer = chain.producer
                 PROVE  Integrity = "matched"
    BY DEF SettledMatches
  <2>2. Len(settlement) \in DOMAIN settlement /\ Last(settlement) = settlement[Len(settlement)]
    BY <2>1 DEF LotInv, Types, Last
  <2>3. Last(settlement).status = "settled"
    BY <2>1, <2>2 DEF LotInv, Types, SettlementType
  <2>4. /\ Paid
        /\ chain.quote = [version |-> Last(settlement).version,
                          price |-> Last(settlement).price]
    BY <2>1, <2>2 DEF LotInv, BookedIsPaid
  <2>5. lot.status # "none"
    BY <2>1 DEF LotInv, RowsInv, Referenced
  <2>6. lot.onchain
    BY <2>1, <2>4, <2>5 DEF LotInv, LinkedInv, Paid
  <2>7. chain.status = ExpectedStatus
    BY <2>3, <2>4 DEF ExpectedStatus, Paid
  <2>8. QED  BY <2>1, <2>3, <2>4, <2>6, <2>7 DEF Integrity
<1>2. QED  BY LotInvariant, <1>1, PTL

\* A job is done when its verdict is on the contract, or when the attempt that ended
\* it had found a lot without an id there.
THEOREM CompletedAttested == Spec => CompletedJobIsAttested
<1> DEFINE Ends(r) ==
      job[r].state # "done" /\ job'[r].state = "done" =>
        chain.attestation[run[r].version].run = r \/ ~worker.linked
<1>1. ASSUME LotInv, Next, NEW r \in Runs PROVE Ends(r)
  <2>1. SUFFICES ASSUME job[r].state # "done", job'[r].state = "done", worker.linked
                 PROVE  chain.attestation[run[r].version].run = r
    OBVIOUS
  <2>2. Complete /\ worker # Idle /\ worker.run = r
    BY <1>1, <2>1, JobSteps
  <2>3. worker.tx
    BY <1>1, <2>1, <2>2 DEF LotInv, WorkerInv, Complete
  <2>4. QED  BY <1>1, <2>2, <2>3 DEF LotInv, WorkerInv, OnContract
<1>2. LotInv /\ [Next]_vars => [\A r \in Runs : Ends(r)]_vars
  BY <1>1
<1>3. QED  BY LotInvariant, <1>2, PTL DEF Spec, CompletedJobIsAttested

\* Every step of the server, of the worker and of the faults is a call that
\* AlpactoCore allows, or leaves the contract alone.
THEOREM ContractRefined == Spec => CallsTheContract
<1>1. LotInv /\ [Next]_vars => [Core!Next]_(Core!vars)
  <2>1. CASE UNCHANGED vars
    BY <2>1 DEF vars, Core!vars, CoreOrder, CoreLot, CoreAttestations, CoreUsdc,
                Held, Spent, Paid
  <2>2. QED  BY <2>1, NextRefines
<1>2. QED  BY LotInvariant, <1>1, PTL DEF Spec, CallsTheContract
=============================================================================
