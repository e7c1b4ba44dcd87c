--------------------------- MODULE AuditPipeline ---------------------------
(***************************************************************************)
(* The Ayni worker: it takes audit jobs one at a time, lets a language     *)
(* model call its tools in whatever order it likes, finishes what the      *)
(* model left undone, registers the verdict on the contract, and retries   *)
(* or gives up.  What vision reads is any verdict a comparison can come to. *)
(***************************************************************************)
EXTENDS LotBooks

idle == <<inspection, dispute, settlement, request>>

\* The worker's run, and what the attempt at hand has computed.
Mine == run[worker.run]
Book(fields) == run' = [run EXCEPT ![worker.run] = fields]
Move(pc) == worker' = [worker EXCEPT !.pc = pc]

\* The run's completion becomes the latest.
Completed ==
  {c \in completions : worker.run \notin {c[1], c[2]}}
    \cup {<<r, worker.run>> : r \in {r \in Runs : <<r, r>> \in completions} \cup {worker.run}}

\* A report is saved and its verdict is not on the chain yet.
Resumable(r) ==
  run[r].result \in Verdicts /\ run[r].status # "attested" /\ ~run[r].tx

\* What an attempt begins with; a report that is found is resumed.
Attempt(r, pc) ==
  [pc |-> pc, back |-> pc, run |-> r, rounds |-> 0, tx |-> FALSE,
   linked |-> lot.onchain, report |-> Resumable(r),
   verdict |-> IF Resumable(r) THEN run[r].result ELSE "none"]

\* Mutant: an attempt that begins anew erases the report of the last one.
TakeJobAfresh(r) ==
  /\ worker = Idle /\ job[r].state = "waiting"
  /\ job' = [job EXCEPT ![r].state = "active"]
  /\ inspection[run[r].version] # 0
  /\ worker' = Attempt(r, IF Resumable(r) THEN "finish" ELSE "tools")
  /\ run' = [run EXCEPT ![r].status = "running",
                        ![r].result = IF Resumable(r) THEN @ ELSE "none"]
  /\ UNCHANGED <<lot, completions, chain, idle, faults>>

\* loadContext reads the lot, once for the attempt, and throws when the version
\* has no row or a query fails; an attempt that finds a report resumes at the
\* attestation.
TakeJob(r) ==
  /\ worker = Idle /\ job[r].state = "waiting"
  /\ job' = [job EXCEPT ![r].state = "active"]
  /\ \/ /\ inspection[run[r].version] # 0 /\ UNCHANGED faults
        /\ worker' = Attempt(r, IF Resumable(r) THEN "finish" ELSE "tools")
        /\ run' = [run EXCEPT ![r].status = "running"]
     \/ /\ inspection[run[r].version] = 0 /\ UNCHANGED faults
        /\ worker' = Attempt(r, "throw") /\ UNCHANGED run
     \/ /\ Fault("query")
        /\ worker' = Attempt(r, "throw") /\ UNCHANGED run
  /\ UNCHANGED <<lot, completions, chain, idle>>

-----------------------------------------------------------------------------
(* The tools *)

\* compare_audit_values, whatever was read before it is called.
Compare(pc, rounds) ==
  \E verdict \in Results :
    worker' = [worker EXCEPT !.verdict = verdict, !.pc = pc, !.rounds = rounds]

\* create_audit_report books the run, then the lot; it goes back to pc.
BookReport(verdict) ==
  /\ Book([Mine EXCEPT !.result = verdict, !.status = "completed"])
  /\ completions' = Completed

\* The model calls a tool that changes something: at most MaxRounds calls.
CallTool ==
  /\ worker.pc = "tools" /\ worker.rounds < MaxRounds
  /\ LET used == worker.rounds + 1 IN
     \/ Compare("tools", used) /\ UNCHANGED <<run, completions>>
     \/ /\ worker.verdict # "none"
        /\ BookReport(worker.verdict)
        /\ worker' = [worker EXCEPT !.report = TRUE, !.rounds = used,
                                    !.pc = "bookLot", !.back = "tools"]
     \/ /\ worker.report
        /\ worker' = [worker EXCEPT !.rounds = used, !.pc = "attest", !.back = "tools"]
        /\ UNCHANGED <<run, completions>>
  /\ UNCHANGED <<lot, chain, job, idle, faults>>

\* The model stops, or the loop throws: a tool called too early, one round too
\* many, an error of the model's service, a query that fails.  What is left to do
\* after one is what is left after the other.
LeaveTools ==
  /\ worker.pc = "tools"
  /\ Move("finish")
  /\ UNCHANGED <<rows, chain, job, request, faults>>

\* The version the run is of plays no part here.
BookLot ==
  /\ worker.pc = "bookLot"
  /\ lot' = [lot EXCEPT !.status = IF worker.verdict \in Acceptable
                                   THEN "ready_for_review" ELSE "review_required"]
  /\ Move(worker.back)
  /\ UNCHANGED <<run, completions, chain, job, idle, faults>>

\* finishDeterministic: the whole audit where nothing was compared, then the
\* attestation where there is none and the lot had an id on the contract.  An
\* attestation needs a report.
Finish ==
  /\ worker.pc = "finish"
  /\ \/ /\ worker.verdict = "none"
        /\ \E verdict \in Results :
             /\ BookReport(verdict)
             /\ worker' = [worker EXCEPT !.verdict = verdict, !.report = TRUE,
                                         !.pc = "bookLot", !.back = "finish"]
     \/ /\ worker.verdict # "none"
        /\ worker' = [worker EXCEPT !.back = "complete",
             !.pc = IF worker.tx \/ ~worker.linked THEN "complete"
                    ELSE IF worker.report THEN "attest" ELSE "throw"]
        /\ UNCHANGED <<run, completions>>
  /\ UNCHANGED <<lot, chain, job, idle, faults>>

\* An error in a tool ends the tool loop, which is finished without the model; one
\* while finishing ends the attempt.
AfterError == IF worker.back = "tools" THEN "finish" ELSE "throw"

\* Mutant: an attestation that failed is not looked for any more.
AttestSwallowed ==
  /\ worker.pc = "attest"
  /\ \/ /\ worker.linked
        /\ Sent(TakesAttestation(Mine.version, worker.verdict),
                Attested(worker.run, worker.verdict),
                worker' = [worker EXCEPT !.pc = "bookAttestation", !.tx = TRUE],
                Move("complete"))
     \/ /\ ~worker.linked
        /\ Move("bookAttestation") /\ UNCHANGED <<chain, faults>>
  /\ UNCHANGED <<rows, job, request>>

\* submit_audit_attestation.  Its three attempts are one step: one that is mined
\* without an answer makes the later ones revert.  Nothing is sent for a lot
\* without an id on the contract.
Attest ==
  /\ worker.pc = "attest"
  /\ \/ /\ worker.linked
        /\ Sent(TakesAttestation(Mine.version, worker.verdict),
                Attested(worker.run, worker.verdict),
                worker' = [worker EXCEPT !.pc = "bookAttestation", !.tx = TRUE],
                Move(AfterError))
     \/ /\ ~worker.linked
        /\ Move("bookAttestation") /\ UNCHANGED <<chain, faults>>
  /\ UNCHANGED <<rows, job, request>>

BookAttestation ==
  /\ worker.pc = "bookAttestation"
  /\ Book([Mine EXCEPT !.status = "attested", !.tx = @ \/ worker.tx])
  /\ Move(worker.back)
  /\ UNCHANGED <<lot, completions, chain, job, idle, faults>>

-----------------------------------------------------------------------------
(* The end of an attempt *)

\* Mutant: one attempt too many.
FailAttemptAgain ==
  LET failures == job[worker.run].failures + 1 IN
  /\ job' = [job EXCEPT ![worker.run].failures = failures,
       ![worker.run].state = IF failures <= MaxAttempts THEN "waiting" ELSE "failed"]
  /\ worker' = Idle

\* BullMQ counts the attempts and retries by itself.
FailAttempt ==
  LET failures == job[worker.run].failures + 1 IN
  /\ job' = [job EXCEPT ![worker.run].failures = failures,
       ![worker.run].state = IF failures < MaxAttempts THEN "waiting" ELSE "failed"]
  /\ worker' = Idle

Complete ==
  /\ worker.pc = "complete"
  /\ job' = [job EXCEPT ![worker.run].state = "done"]
  /\ worker' = Idle
  /\ UNCHANGED <<rows, chain, request, faults>>

\* Mutant: the attempt at hand is not counted.
LastAttemptLate == job[worker.run].failures >= MaxAttempts

LastAttempt == job[worker.run].failures + 1 >= MaxAttempts

\* The processor's catch: markAuditFailed on what it takes for the last attempt.
\* It keeps a verdict that was reached, and the lot's status with it.
Throw ==
  /\ worker.pc = "throw"
  /\ \/ /\ ~LastAttempt
        /\ FailAttempt /\ UNCHANGED <<run, completions>>
     \/ /\ LastAttempt /\ Mine.result = "none"
        /\ Book([Mine EXCEPT !.status = "failed", !.result = "failed"])
        /\ Move("failLot") /\ UNCHANGED job
        /\ completions' = Completed
     \/ /\ LastAttempt /\ Mine.result # "none"
        /\ Book([Mine EXCEPT !.status = "failed"])
        /\ FailAttempt
        /\ completions' = Completed
  /\ UNCHANGED <<lot, chain, idle, faults>>

FailLot ==
  /\ worker.pc = "failLot"
  /\ lot' = [lot EXCEPT !.status = "audit_failed"]
  /\ FailAttempt
  /\ UNCHANGED <<run, completions, chain, idle, faults>>

\* A query of the attempt fails.  A report whose row could not be written is in
\* memory all the same, and the verdict of it can be attested; an attestation that
\* could not be booked from the tool loop is not booked later.
QueryFails ==
  /\ Fault("query") /\ worker # Idle
  /\ \/ /\ worker.pc = "tools" /\ worker.verdict # "none"
        /\ worker' = [worker EXCEPT !.report = TRUE, !.pc = "finish"]
        /\ UNCHANGED job
     \/ worker.pc \in {"bookLot", "bookAttestation"} /\ Move(AfterError) /\ UNCHANGED job
     \/ worker.pc = "finish" /\ worker.verdict = "none" /\ Move("throw") /\ UNCHANGED job
     \/ worker.pc = "complete" /\ worker.tx /\ Move("throw") /\ UNCHANGED job
     \/ worker.pc = "throw" /\ LastAttempt /\ FailAttempt
     \/ worker.pc = "failLot" /\ FailAttempt
  /\ UNCHANGED <<rows, chain, request>>

WorkerStep ==
  \/ \E r \in Runs : TakeJob(r)
  \/ CallTool \/ LeaveTools \/ BookLot \/ Finish \/ Attest \/ BookAttestation
  \/ Complete \/ Throw \/ FailLot

\* The worker stops: BullMQ returns the job to the queue once, and fails it the
\* second time without the processor's catch.
WorkerStops ==
  /\ Fault("worker") /\ worker # Idle
  /\ job' = [job EXCEPT ![worker.run].state =
                          IF job[worker.run].stalled THEN "failed" ELSE "waiting",
                        ![worker.run].stalled = TRUE]
  /\ worker' = Idle
  /\ UNCHANGED <<rows, chain, request>>
=============================================================================
