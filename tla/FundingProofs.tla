--------------------------- MODULE FundingProofs ---------------------------
(***************************************************************************)
(* Proofs about the funding pipeline, for any number of sessions,          *)
(* concurrent deliveries, retries, stalls and faults.                      *)
(***************************************************************************)
EXTENDS Funding, TLAPS

\* Whatever is on its way to the contract belongs to a paid session.
PaidOnly ==
  /\ \A s \in seen \cup late : checkout[s] = "paid"
  /\ \A h \in Handlers : delivery[h] # Idle => checkout[delivery[h].session] = "paid"
  /\ \A s \in Sessions : job[s].state # "none" => checkout[s] = "paid"
  /\ \A s \in Sessions : escrow.deposits[s] > 0 => checkout[s] = "paid"

\* The worker's job is active, and a job that may still run has stalls left.
JobInv ==
  /\ worker # Idle => job[worker.session].state = "active"
  /\ \A s \in Sessions :
       job[s].state \in {"waiting", "active"} => job[s].stalls <= MaxStalls
  /\ \A s \in Sessions : job[s].state = "none" => job[s].stalls = 0

\* A session reaches the books only once its deposit is on the chain.
BookedInv ==
  worker.pc \in {"book", "bookOrder"} => escrow.deposits[worker.session] > 0

\* A session can be paid only after its request was answered.
AnsweredInv ==
  \A s \in Sessions : checkout[s] # "none" => request[s] = "answered"

\* The inductive invariant, in the three layers it is proved in.
TypedJobs == TypeOK /\ JobInv
PaidInv   == TypedJobs /\ PaidOnly /\ AnsweredInv
BooksInv  == PaidInv /\ BookedInv /\ BooksBackedByEscrow /\ OneDepositPerPayment

LEMMA InitInv == Init => BooksInv
<1>. SUFFICES ASSUME Init PROVE BooksInv
  OBVIOUS
<1>. USE FundingAssumption DEF Init
<1>1. TypeOK
  BY SMT DEF TypeOK, Idle, OrderRows, IntentStatus, Deliveries, Jobs, WorkerStates,
             Escrows
<1>2. PaidOnly /\ JobInv /\ BookedInv /\ AnsweredInv
  BY SMT DEF PaidOnly, JobInv, BookedInv, AnsweredInv, Idle
<1>3. BooksBackedByEscrow /\ OneDepositPerPayment
  BY SMT DEF BooksBackedByEscrow, OneDepositPerPayment
<1>. QED  BY <1>1, <1>2, <1>3 DEF BooksInv, PaidInv, TypedJobs

-----------------------------------------------------------------------------
(* What the rows and records of the state are after an update. *)

LEMMA JobUpdate ==
  ASSUME TypeOK, NEW s \in Sessions, NEW r \in Jobs
  PROVE  /\ [job EXCEPT ![s] = r] \in [Sessions -> Jobs]
         /\ [job EXCEPT ![s] = r][s] = r
         /\ \A t \in Sessions \ {s} : [job EXCEPT ![s] = r][t] = job[t]
  BY DEF TypeOK

LEMMA JobStateUpdate ==
  ASSUME TypeOK, NEW s \in Sessions,
         NEW x \in {"none", "waiting", "active", "completed", "failed"}
  PROVE  /\ [job[s] EXCEPT !.state = x] \in Jobs
         /\ [job[s] EXCEPT !.state = x].state = x
         /\ [job[s] EXCEPT !.state = x].stalls = job[s].stalls
  BY DEF TypeOK, Jobs

LEMMA ClosedUpdate ==
  ASSUME TypeOK
  PROVE  /\ [escrow EXCEPT !.open = FALSE] \in Escrows
         /\ [escrow EXCEPT !.open = FALSE].deposits = escrow.deposits
  BY DEF TypeOK, Escrows

\* A deposit changes at most the payment's own, and that at most from 0 to 1.
LEMMA DepositUpdate ==
  ASSUME TypeOK, NEW s \in Sessions
  PROVE  /\ Deposited(s) \in Escrows
         /\ \A t \in Sessions : escrow.deposits[t] > 0 => Deposited(s).deposits[t] > 0
         /\ \A t \in Sessions \ {s} : Deposited(s).deposits[t] = escrow.deposits[t]
         /\ Accepts(s) => Deposited(s).deposits[s] = 1
         /\ ~Accepts(s) => Deposited(s) = escrow
<1>1. CASE Accepts(s)
  <2>1. escrow.usdc - 1 \in 0 .. MaxBuyerUsdc
    BY <1>1, FundingAssumption DEF TypeOK, Escrows, Accepts
  <2>2. [escrow.deposits EXCEPT ![s] = escrow.deposits[s] + 1] \in [Sessions -> Nat]
    BY DEF TypeOK, Escrows
  <2>. QED  BY <1>1, <2>1, <2>2 DEF TypeOK, Escrows, Accepts, Deposited
<1>2. CASE ~Accepts(s)
  BY <1>2 DEF Deposited, TypeOK
<1>. QED  BY <1>1, <1>2

-----------------------------------------------------------------------------
(* Types and the stall counters *)

LEMMA RequestTypes ==
  ASSUME TypedJobs, NEW s \in Sessions,
         RequestStep(s) \/ \E outcome \in {"paid", "unpaid"} : CompleteCheckout(s, outcome)
  PROVE  TypedJobs'
<1>. USE DEF TypedJobs, TypeOK, JobInv, db, stripe, chain
<1>1. CASE RequestSession(s)
  BY <1>1 DEF RequestSession
<1>2. CASE ResetOrder(s)
  BY <1>2 DEF ResetOrder, OrderRows
<1>3. CASE OpenSession(s)
  BY <1>3 DEF OpenSession, IntentStatus
<1>4. CASE MarkPending(s)
  BY <1>4 DEF MarkPending, OrderRows
<1>5. CASE \E outcome \in {"paid", "unpaid"} : CompleteCheckout(s, outcome)
  BY <1>5 DEF CompleteCheckout
<1>. QED  BY <1>1, <1>2, <1>3, <1>4, <1>5 DEF RequestStep

LEMMA DeliveryTypes ==
  ASSUME TypedJobs, NEW h \in Handlers,
         (\E s \in Sessions : Deliver(h, s)) \/ DeliveryStep(h) \/ DeliveryFails(h)
  PROVE  TypedJobs'
<1>. USE FundingAssumption DEF TypedJobs, TypeOK, JobInv, db, stripe, chain
<1>1. ASSUME NEW s \in Sessions, Deliver(h, s) PROVE TypedJobs'
  BY <1>1 DEF Deliver, Ignored, Deliveries, At
<1>2. CASE MarkPaid(h)
  BY <1>2 DEF MarkPaid, Deliveries, Idle, At, IntentStatus
<1>3. CASE ConfirmOrder(h)
  BY <1>3 DEF ConfirmOrder, Deliveries, Idle, At, OrderRows
<1>4. CASE Enqueue(h)
  <2>. DEFINE t == delivery[h].session
              r == [job[t] EXCEPT !.state = "waiting"]
  <2>1. t \in Sessions
    BY <1>4 DEF Enqueue, Deliveries, Idle
  <2>4. delivery' \in [Handlers -> Deliveries] /\ acked' \subseteq Sessions
    BY <1>4, <2>1 DEF Enqueue, Deliveries
  <2>5. UNCHANGED <<order, intent, seen, late, request, checkout, worker, escrow, faults>>
    BY <1>4 DEF Enqueue
  <2>2. CASE job' = job
    BY <2>2, <2>4, <2>5
  <2>3. CASE job[t].state = "none" /\ job' = [job EXCEPT ![t] = r]
    <3>1. r \in Jobs /\ r.state = "waiting" /\ r.stalls = 0
      BY <2>1, <2>3, JobStateUpdate
    <3>2. /\ job' \in [Sessions -> Jobs]
          /\ job'[t] = r
          /\ \A u \in Sessions \ {t} : job'[u] = job[u]
      BY <2>1, <2>3, <3>1, JobUpdate
    <3>. HIDE DEF t, r
    <3>3. JobInv'
      <4>1. worker' = worker
        BY <1>4 DEF Enqueue
      <4>. QED  BY <2>1, <2>3, <3>1, <3>2, <4>1 DEF WorkerStates, Idle
    <3>. QED  BY <2>4, <2>5, <3>2, <3>3
  <2>. QED  BY <1>4, <2>2, <2>3 DEF Enqueue, Queued
<1>5. CASE DeliveryFails(h)
  BY <1>5 DEF DeliveryFails, Fault, Deliveries
<1>. QED  BY <1>1, <1>2, <1>3, <1>4, <1>5 DEF DeliveryStep

\* A job the worker lets go of, finished or to be tried again.
LEMMA JobGoesOn ==
  ASSUME TypedJobs, NEW s \in Sessions, NEW r \in Jobs, worker' = Idle,
         r.state # "none", r.state \in {"waiting", "active"} => r.stalls <= MaxStalls,
         job' = [job EXCEPT ![s] = r]
  PROVE  /\ job' \in [Sessions -> Jobs] /\ worker' \in WorkerStates
         /\ JobInv'
<1>1. /\ job' \in [Sessions -> Jobs] /\ job'[s] = r
      /\ \A t \in Sessions \ {s} : job'[t] = job[t]
  BY JobUpdate DEF TypedJobs
<1>. QED  BY <1>1 DEF TypedJobs, JobInv, WorkerStates

LEMMA JobEnds ==
  ASSUME TypedJobs, worker # Idle,
         NEW x \in {"completed", "failed"}, FinishJob(worker.session, x)
  PROVE  /\ job' \in [Sessions -> Jobs] /\ worker' \in WorkerStates
         /\ JobInv'
<1>. DEFINE s == worker.session
            r == [job[s] EXCEPT !.state = x]
<1>1. s \in Sessions
  BY DEF TypedJobs, TypeOK, WorkerStates
<1>2. r \in Jobs /\ r.state = x
  <2>1. x \in {"none", "waiting", "active", "completed", "failed"} /\ TypeOK
    BY DEF TypedJobs
  <2>. HIDE DEF s
  <2>. QED  BY <1>1, <2>1, JobStateUpdate
<1>3. job' = [job EXCEPT ![s] = r] /\ worker' = Idle
  BY DEF FinishJob
<1>. HIDE DEF r, s
<1>. QED  BY <1>1, <1>2, <1>3, JobGoesOn

LEMMA WorkerTypes ==
  ASSUME TypedJobs, WorkerStep
  PROVE  TypedJobs'
<1>. USE FundingAssumption DEF TypedJobs, TypeOK, JobInv, db, stripe, chain
<1>1. CASE StartFunding
  <2>1. CASE FinishJob(worker.session, "completed") /\ UNCHANGED intent
    <3>1. worker # Idle
      BY <1>1 DEF StartFunding, Idle
    <3>2. UNCHANGED <<order, intent, seen, late, request, checkout, acked, delivery,
                      escrow, faults>>
      BY <1>1, <2>1 DEF StartFunding
    <3>. QED  BY <2>1, <3>1, <3>2, JobEnds
  <2>2. CASE Goto("mark") /\ UNCHANGED job
               /\ intent' = [intent EXCEPT ![worker.session] = "funding"]
    BY <1>1, <2>2 DEF StartFunding, Goto, At, WorkerStates, Idle, IntentStatus
  <2>. QED  BY <1>1, <2>1, <2>2 DEF StartFunding
<1>2. CASE MarkOnchainPending
  BY <1>2 DEF MarkOnchainPending, Goto, At, WorkerStates, Idle, OrderRows
<1>3. CASE CreateOnchain
  BY <1>3 DEF CreateOnchain, Goto, At, WorkerStates, Idle, Escrows
<1>4. CASE CheckBalance
  BY <1>4 DEF CheckBalance, Goto, At, WorkerStates, Idle
<1>5. CASE DepositMined
  <2>1. worker.session \in Sessions
    BY <1>5 DEF DepositMined, WorkerStates, Idle
  <2>2. escrow' \in Escrows
    BY <1>5, <2>1, DepositUpdate DEF DepositMined
  <2>3. worker' \in WorkerStates /\ worker'.session = worker.session
    BY <1>5, <2>1 DEF DepositMined, AfterReceipt, AfterError, Goto, At, WorkerStates
  <2>. QED  BY <1>5, <2>2, <2>3 DEF DepositMined, Idle
<1>6. CASE ReceiptLost
  BY <1>6 DEF ReceiptLost, AfterError, Goto, At, WorkerStates, Idle
<1>7. CASE BookIntent
  BY <1>7 DEF BookIntent, Goto, At, WorkerStates, Idle, IntentStatus
<1>8. CASE BookOrder
  <2>1. worker # Idle /\ FinishJob(worker.session, "completed")
    BY <1>8 DEF BookOrder, Idle
  <2>2. order' \in OrderRows
    BY <1>8 DEF BookOrder, OrderRows
  <2>3. UNCHANGED <<intent, seen, late, request, checkout, acked, delivery, escrow, faults>>
    BY <1>8 DEF BookOrder
  <2>. QED  BY <2>1, <2>2, <2>3, JobEnds
<1>9. CASE CatchError
  <2>. DEFINE s == worker.session
              r == [state |-> "waiting", stalls |-> job[s].stalls,
                    failures |-> job[s].failures + 1]
  <2>1. s \in Sessions
    BY <1>9 DEF CatchError, WorkerStates, Idle
  <2>2. CASE Goto("failIntent") /\ UNCHANGED job
    BY <1>9, <2>1, <2>2 DEF CatchError, Goto, At, WorkerStates, Idle
  <2>3. CASE /\ job[s].failures + 1 < MaxAttempts
             /\ job' = [job EXCEPT ![s] = r] /\ worker' = Idle
    <3>1. r \in Jobs /\ r.state = "waiting" /\ r.stalls <= MaxStalls
      <4>1. job[s].state = "active" /\ job[s] \in Jobs
        BY <1>9, <2>1 DEF CatchError, Idle
      <4>. QED  BY <2>1, <2>3, <4>1 DEF Jobs
    <3>2. UNCHANGED <<order, intent, seen, late, request, checkout, acked, delivery,
                      escrow, faults>>
      BY <1>9 DEF CatchError
    <3>. HIDE DEF r, s
    <3>. QED  BY <2>1, <2>3, <3>1, <3>2, JobGoesOn
  <2>4. MaxAttempts \in Nat /\ job[s].failures \in Nat
    BY <2>1 DEF Jobs
  <2>. QED  BY <1>9, <2>2, <2>3, <2>4 DEF CatchError
<1>10. CASE FailIntent
  BY <1>10 DEF FailIntent, Goto, At, WorkerStates, Idle, IntentStatus
<1>11. CASE FailOrder
  <2>1. worker # Idle /\ FinishJob(worker.session, "failed")
    BY <1>11 DEF FailOrder, Idle
  <2>2. order' \in OrderRows
    BY <1>11 DEF FailOrder, OrderRows
  <2>3. UNCHANGED <<intent, seen, late, request, checkout, acked, delivery, escrow, faults>>
    BY <1>11 DEF FailOrder
  <2>. QED  BY <2>1, <2>2, <2>3, JobEnds
<1>12. ASSUME NEW s \in Sessions, TakeJob(s) PROVE TypedJobs'
  <2>. DEFINE r == [job[s] EXCEPT !.state = "active"]
  <2>1. /\ r \in Jobs /\ r.state = "active" /\ r.stalls = job[s].stalls
        /\ job' = [job EXCEPT ![s] = r] /\ job[s].stalls <= MaxStalls
    BY <1>12, JobStateUpdate DEF TakeJob
  <2>. HIDE DEF r
  <2>2. /\ job' \in [Sessions -> Jobs] /\ job'[s] = r
        /\ \A t \in Sessions \ {s} : job'[t] = job[t]
    BY <2>1, JobUpdate
  <2>3. worker' = At("start", s) /\ worker' \in WorkerStates /\ worker'.session = s
    BY <1>12 DEF TakeJob, At, WorkerStates
  <2>4. JobInv'
    BY <2>1, <2>2, <2>3
  <2>. QED  BY <1>12, <2>2, <2>3, <2>4 DEF TakeJob
<1>. QED
  BY <1>1, <1>2, <1>3, <1>4, <1>5, <1>6, <1>7, <1>8, <1>9, <1>10, <1>11, <1>12
  DEF WorkerStep

LEMMA WorldTypes ==
  ASSUME TypedJobs,
         (\E s \in Sessions : LateDeposit(s)) \/ FirstLotSettled \/ WorkerFails \/ Crash
  PROVE  TypedJobs'
<1>. USE FundingAssumption DEF TypedJobs, TypeOK, JobInv, db, stripe, chain
<1>1. ASSUME NEW s \in Sessions, LateDeposit(s) PROVE TypedJobs'
  <2>1. escrow' \in Escrows
    BY <1>1, DepositUpdate DEF LateDeposit
  <2>. QED  BY <1>1, <2>1 DEF LateDeposit
<1>2. CASE FirstLotSettled
  BY <1>2, ClosedUpdate DEF FirstLotSettled
<1>3. CASE Crash
  <2>1. UNCHANGED <<order, intent, seen, checkout, acked, escrow>>
    BY <1>3 DEF Crash
  <2>2. /\ request' \in [Sessions -> {"idle", "reset", "insert", "mark", "answered", "lost"}]
        /\ delivery' \in [Handlers -> Deliveries]
        /\ worker' \in WorkerStates /\ faults' \in 0 .. MaxFaults
    BY <1>3 DEF Crash, Fault, Deliveries, WorkerStates
  <2>3. late' \subseteq Sessions
    BY <1>3 DEF Crash, Waiting, WorkerStates, Idle
  <2>4. job' \in [Sessions -> Jobs] /\ JobInv'
    <3>1. CASE worker = Idle
      BY <1>3, <3>1 DEF Crash
    <3>2. CASE worker # Idle
      <4>. DEFINE s == worker.session
                  r == [state |-> IF job[s].stalls < MaxStalls THEN "waiting" ELSE "failed",
                        failures |-> job[s].failures, stalls |-> job[s].stalls + 1]
      <4>1. s \in Sessions /\ job[s] \in Jobs /\ job[s].stalls <= MaxStalls
        BY <3>2 DEF WorkerStates
      <4>2. /\ r \in Jobs /\ r.state # "none"
            /\ r.state \in {"waiting", "active"} => r.stalls <= MaxStalls
        BY <4>1 DEF Jobs
      <4>3. job' = [job EXCEPT ![s] = r] /\ worker' = Idle
        BY <1>3, <3>2 DEF Crash, Stalled
      <4>. HIDE DEF r, s
      <4>. QED  BY <4>1, <4>2, <4>3, JobGoesOn
    <3>. QED  BY <3>1, <3>2
  <2>. QED  BY <2>1, <2>2, <2>3, <2>4
<1>4. CASE WorkerFails
  <2>1. UNCHANGED <<order, intent, seen, late, request, checkout, acked, delivery, escrow>>
        /\ faults' \in 0 .. MaxFaults
    BY <1>4 DEF WorkerFails, Fault
  <2>2. CASE worker # Idle /\ FinishJob(worker.session, "failed")
    BY <2>1, <2>2, JobEnds
  <2>3. CASE worker # Idle /\ Goto("throw") /\ UNCHANGED job
    BY <2>1, <2>3 DEF Goto, At, WorkerStates, Idle
  <2>. QED  BY <1>4, <2>2, <2>3 DEF WorkerFails, Fault, Idle
<1>. QED  BY <1>1, <1>2, <1>3, <1>4

LEMMA TypeStep == TypedJobs /\ [Next]_vars => TypedJobs'
<1>. SUFFICES ASSUME TypedJobs, [Next]_vars PROVE TypedJobs'
  OBVIOUS
<1>1. CASE UNCHANGED vars
  BY <1>1 DEF vars, TypedJobs, TypeOK, JobInv
<1>2. CASE \E s \in Sessions :
             RequestStep(s) \/ \E outcome \in {"paid", "unpaid"} : CompleteCheckout(s, outcome)
  BY <1>2, RequestTypes
<1>3. CASE \E h \in Handlers :
             (\E s \in Sessions : Deliver(h, s)) \/ DeliveryStep(h) \/ DeliveryFails(h)
  BY <1>3, DeliveryTypes
<1>4. CASE WorkerStep
  BY <1>4, WorkerTypes
<1>5. CASE (\E s \in Sessions : LateDeposit(s)) \/ FirstLotSettled \/ WorkerFails \/ Crash
  BY <1>5, WorldTypes
<1>. QED  BY <1>1, <1>2, <1>3, <1>4, <1>5 DEF Next

\* The rows, jobs and threads keep their types; in particular a job is tried and
\* stalls no more often than BullMQ allows, whatever crashes happen.
THEOREM FundingTypeCorrect == Spec => []TypeOK
<1>1. Init => TypedJobs
  BY InitInv DEF BooksInv, PaidInv
<1>2. TypedJobs => TypeOK
  BY DEF TypedJobs
<1>. QED  BY <1>1, <1>2, TypeStep, PTL DEF Spec

-----------------------------------------------------------------------------
(* Only paid sessions get anywhere *)

\* What is under way now was under way, or is the work of a paid session.
LEMMA PaidGrows ==
  ASSUME PaidInv,
         \A s \in Sessions : checkout[s] = "paid" => checkout'[s] = "paid",
         \A s \in seen' \cup late' : s \in Sessions /\ checkout[s] = "paid",
         \A h \in Handlers : delivery'[h] # Idle =>
           delivery'[h].session \in Sessions /\ checkout[delivery'[h].session] = "paid",
         \A s \in Sessions : job'[s].state # "none" => checkout[s] = "paid",
         \A s \in Sessions : escrow'.deposits[s] > 0 => checkout[s] = "paid"
  PROVE  PaidOnly'
  BY DEF PaidOnly

LEMMA UnderWay ==
  ASSUME PaidInv
  PROVE  /\ \A s \in seen \cup late : s \in Sessions /\ checkout[s] = "paid"
         /\ \A h \in Handlers : delivery[h] # Idle =>
              delivery[h].session \in Sessions /\ checkout[delivery[h].session] = "paid"
         /\ worker # Idle =>
              worker.session \in Sessions /\ checkout[worker.session] = "paid"
  BY DEF PaidInv, TypedJobs, TypeOK, JobInv, PaidOnly, Deliveries, WorkerStates

LEMMA RequestPaid ==
  ASSUME PaidInv, NEW s \in Sessions,
         RequestStep(s) \/ \E outcome \in {"paid", "unpaid"} : CompleteCheckout(s, outcome)
  PROVE  PaidOnly' /\ AnsweredInv'
<1>1. UNCHANGED <<seen, late, delivery, job, escrow>>
  BY DEF RequestStep, RequestSession, ResetOrder, OpenSession, MarkPending,
         CompleteCheckout, db, chain
<1>2. /\ \A t \in Sessions : checkout[t] = "paid" => checkout'[t] = "paid"
      /\ AnsweredInv'
  BY DEF PaidInv, TypedJobs, TypeOK, AnsweredInv, RequestStep, RequestSession,
         ResetOrder, OpenSession, MarkPending, CompleteCheckout, db
<1>. QED  BY <1>1, <1>2, UnderWay, PaidGrows DEF PaidInv, PaidOnly

LEMMA DeliveryPaid ==
  ASSUME PaidInv, NEW h \in Handlers,
         (\E s \in Sessions : Deliver(h, s)) \/ DeliveryStep(h) \/ DeliveryFails(h)
  PROVE  PaidOnly' /\ AnsweredInv'
<1>. USE DEF PaidInv, TypedJobs, TypeOK
<1>1. UNCHANGED <<checkout, request, late, escrow>>
  BY DEF DeliveryStep, Deliver, MarkPaid, ConfirmOrder, Enqueue, DeliveryFails, db, chain
<1>2. \A s \in seen' : s \in Sessions /\ checkout[s] = "paid"
  BY UnderWay DEF DeliveryStep, Deliver, MarkPaid, ConfirmOrder, Enqueue, DeliveryFails,
                  db, Idle
<1>3. \A k \in Handlers : delivery'[k] # Idle =>
        delivery'[k].session \in Sessions /\ checkout[delivery'[k].session] = "paid"
  <2>1. \A k \in Handlers \ {h} : delivery'[k] = delivery[k]
    BY DEF DeliveryStep, Deliver, MarkPaid, ConfirmOrder, Enqueue, DeliveryFails, Deliveries
  <2>2. delivery'[h] # Idle =>
          delivery'[h].session \in Sessions /\ checkout[delivery'[h].session] = "paid"
    BY UnderWay DEF DeliveryStep, Deliver, Ignored, MarkPaid, ConfirmOrder, Enqueue,
                    DeliveryFails, Deliveries, Idle, At
  <2>. QED  BY <2>1, <2>2, UnderWay
<1>4. \A s \in Sessions : job'[s].state # "none" => checkout[s] = "paid"
  BY UnderWay DEF DeliveryStep, Deliver, MarkPaid, ConfirmOrder, Enqueue, Queued,
                  DeliveryFails, Idle, PaidOnly, Jobs
<1>. QED  BY <1>1, <1>2, <1>3, <1>4, UnderWay, PaidGrows DEF PaidOnly, AnsweredInv

LEMMA WorkerPaid ==
  ASSUME PaidInv, WorkerStep
  PROVE  PaidOnly' /\ AnsweredInv'
<1>. USE DEF PaidInv, TypedJobs, TypeOK
<1>1. UNCHANGED <<checkout, request, seen, delivery>>
  BY DEF WorkerStep, StartFunding, MarkOnchainPending, CreateOnchain, CheckBalance,
         DepositMined, ReceiptLost, BookIntent, BookOrder, CatchError, FailIntent,
         FailOrder, TakeJob, db, stripe
<1>2. \A s \in Sessions : job'[s].state # "none" => job[s].state # "none"
  <2>1. ASSUME UNCHANGED job
        PROVE  \A s \in Sessions : job'[s].state # "none" => job[s].state # "none"
    BY <2>1
  <2>2. ASSUME NEW s \in Sessions, NEW r, job[s].state # "none", job' = [job EXCEPT ![s] = r]
        PROVE  \A t \in Sessions : job'[t].state # "none" => job[t].state # "none"
    BY <2>2
  <2>3. worker # Idle => worker.session \in Sessions /\ job[worker.session].state # "none"
    BY DEF JobInv, WorkerStates
  <2>4. CASE \E s \in Sessions : TakeJob(s)
    BY <2>2, <2>4 DEF TakeJob
  <2>5. CASE CatchError \/ BookOrder \/ FailOrder \/ StartFunding
    BY <2>1, <2>2, <2>3, <2>5
    DEF CatchError, BookOrder, FailOrder, StartFunding, FinishJob, Idle
  <2>6. CASE \/ MarkOnchainPending \/ CreateOnchain \/ CheckBalance \/ DepositMined
             \/ ReceiptLost \/ BookIntent \/ FailIntent
    BY <2>1, <2>6 DEF MarkOnchainPending, CreateOnchain, CheckBalance, DepositMined,
                      ReceiptLost, BookIntent, FailIntent
  <2>. QED  BY <2>4, <2>5, <2>6 DEF WorkerStep
<1>3. \A s \in late' : s \in Sessions /\ checkout[s] = "paid"
  BY UnderWay DEF WorkerStep, StartFunding, MarkOnchainPending, CreateOnchain, CheckBalance,
                  DepositMined, ReceiptLost, BookIntent, BookOrder, CatchError, FailIntent,
                  FailOrder, TakeJob, chain, Idle
<1>4. \A s \in Sessions : escrow'.deposits[s] > 0 => checkout[s] = "paid"
  <2>1. CASE DepositMined
    <3>1. worker.session \in Sessions /\ checkout[worker.session] = "paid"
      BY <2>1, UnderWay DEF DepositMined, Idle
    <3>. QED  BY <2>1, <3>1, DepositUpdate DEF DepositMined, PaidOnly
  <2>2. CASE CreateOnchain
    BY <2>2 DEF CreateOnchain, PaidOnly, Escrows
  <2>3. CASE UNCHANGED escrow
    BY <2>3 DEF PaidOnly
  <2>. QED
    BY <2>1, <2>2, <2>3
    DEF WorkerStep, StartFunding, MarkOnchainPending, CheckBalance, ReceiptLost,
        BookIntent, BookOrder, CatchError, FailIntent, FailOrder, TakeJob, chain
<1>. QED  BY <1>1, <1>2, <1>3, <1>4, UnderWay, PaidGrows DEF PaidOnly, AnsweredInv

LEMMA WorldPaid ==
  ASSUME PaidInv,
         (\E s \in Sessions : LateDeposit(s)) \/ FirstLotSettled \/ WorkerFails \/ Crash
  PROVE  PaidOnly' /\ AnsweredInv'
<1>. USE DEF PaidInv, TypedJobs, TypeOK
<1>1. ASSUME NEW s \in Sessions, LateDeposit(s) PROVE PaidOnly' /\ AnsweredInv'
  <2>1. UNCHANGED <<checkout, request, seen, delivery, job>> /\ late' \subseteq late
    BY <1>1 DEF LateDeposit, db, stripe
  <2>2. \A t \in Sessions : escrow'.deposits[t] > 0 => checkout[t] = "paid"
    BY <1>1, UnderWay, DepositUpdate DEF LateDeposit, PaidOnly
  <2>. QED  BY <2>1, <2>2, UnderWay, PaidGrows DEF PaidOnly, AnsweredInv
<1>2. CASE FirstLotSettled
  <2>1. UNCHANGED <<checkout, request, seen, delivery, job, late>>
    BY <1>2 DEF FirstLotSettled, db, stripe
  <2>2. escrow'.deposits = escrow.deposits
    BY <1>2, ClosedUpdate DEF FirstLotSettled
  <2>. QED  BY <2>1, <2>2, UnderWay, PaidGrows DEF PaidOnly, AnsweredInv
<1>3. CASE Crash
  <2>1. UNCHANGED <<checkout, seen, escrow>>
    BY <1>3 DEF Crash, db
  <2>2. \A h \in Handlers : delivery'[h] = Idle
    BY <1>3 DEF Crash
  <2>3. \A s \in late' : s \in Sessions /\ checkout[s] = "paid"
    BY <1>3, UnderWay DEF Crash, Waiting, Idle
  <2>4. \A s \in Sessions : job'[s].state # "none" => checkout[s] = "paid"
    <3>1. worker # Idle =>
            worker.session \in Sessions /\ checkout[worker.session] = "paid"
      BY UnderWay
    <3>2. \A s \in Sessions : job'[s] = job[s] \/ (worker # Idle /\ s = worker.session)
      BY <1>3, <3>1 DEF Crash, Stalled
    <3>. QED  BY <3>1, <3>2 DEF PaidOnly
  <2>5. AnsweredInv'
    BY <1>3, <2>1 DEF Crash, AnsweredInv
  <2>. QED  BY <2>1, <2>2, <2>3, <2>4, <2>5, UnderWay, PaidGrows DEF PaidOnly
<1>4. CASE WorkerFails
  <2>1. UNCHANGED <<checkout, request, seen, delivery, late, escrow>>
    BY <1>4 DEF WorkerFails, db, stripe, chain
  <2>2. \A s \in Sessions : job'[s].state # "none" => checkout[s] = "paid"
    <3>1. worker # Idle /\ worker.session \in Sessions /\ checkout[worker.session] = "paid"
      BY <1>4, UnderWay DEF WorkerFails, Idle
    <3>2. \A s \in Sessions \ {worker.session} : job'[s] = job[s]
      BY <1>4 DEF WorkerFails, FinishJob
    <3>. QED  BY <3>1, <3>2 DEF PaidOnly
  <2>. QED  BY <2>1, <2>2, UnderWay, PaidGrows DEF PaidOnly, AnsweredInv
<1>. QED  BY <1>1, <1>2, <1>3, <1>4

LEMMA PaidStep == PaidInv /\ [Next]_vars => PaidInv'
<1>. SUFFICES ASSUME PaidInv, [Next]_vars PROVE PaidInv'
  OBVIOUS
<1>1. TypedJobs'
  BY TypeStep DEF PaidInv
<1>2. PaidOnly' /\ AnsweredInv'
  <2>1. CASE UNCHANGED vars
    BY <2>1 DEF vars, PaidInv, PaidOnly, AnsweredInv
  <2>2. CASE \E s \in Sessions :
               RequestStep(s) \/ \E outcome \in {"paid", "unpaid"} : CompleteCheckout(s, outcome)
    BY <2>2, RequestPaid
  <2>3. CASE \E h \in Handlers :
               (\E s \in Sessions : Deliver(h, s)) \/ DeliveryStep(h) \/ DeliveryFails(h)
    BY <2>3, DeliveryPaid
  <2>4. CASE WorkerStep
    BY <2>4, WorkerPaid
  <2>5. CASE (\E s \in Sessions : LateDeposit(s)) \/ FirstLotSettled \/ WorkerFails \/ Crash
    BY <2>5, WorldPaid
  <2>. QED  BY <2>1, <2>2, <2>3, <2>4, <2>5 DEF Next
<1>. QED  BY <1>1, <1>2 DEF PaidInv

\* Only a session that Stripe reports as paid leads to a deposit.
THEOREM DepositsArePaidForCorrect == Spec => []DepositsArePaidFor
<1>1. Init => PaidInv
  BY InitInv DEF BooksInv
<1>2. PaidInv => DepositsArePaidFor
  BY DEF PaidInv, PaidOnly, DepositsArePaidFor
<1>. QED  BY <1>1, <1>2, PaidStep, PTL DEF Spec

-----------------------------------------------------------------------------
(* The books and the chain *)

\* Deposits are never taken back and never doubled.
LEMMA DepositsGrow ==
  ASSUME BooksInv, [Next]_vars
  PROVE  /\ \A s \in Sessions : escrow.deposits[s] > 0 => escrow'.deposits[s] > 0
         /\ \A s \in Sessions : escrow'.deposits[s] <= 1
<1>. USE DEF BooksInv, PaidInv, TypedJobs, TypeOK
<1>1. ASSUME NEW s \in Sessions, escrow' \in {escrow, Deposited(s)}
      PROVE  /\ \A t \in Sessions : escrow.deposits[t] > 0 => escrow'.deposits[t] > 0
             /\ \A t \in Sessions : escrow'.deposits[t] <= 1
  BY <1>1, DepositUpdate DEF OneDepositPerPayment
<1>2. CASE escrow'.deposits = escrow.deposits
  BY <1>2 DEF OneDepositPerPayment
<1>3. CASE \E s \in Sessions : LateDeposit(s)
  BY <1>1, <1>3 DEF LateDeposit
<1>4. CASE DepositMined
  BY <1>1, <1>4, UnderWay DEF DepositMined, Idle
<1>5. CASE CreateOnchain
  BY <1>2, <1>5 DEF CreateOnchain, Escrows
<1>6. CASE FirstLotSettled
  BY <1>2, <1>6, ClosedUpdate DEF FirstLotSettled
<1>7. CASE UNCHANGED escrow
  BY <1>2, <1>7
<1>. QED
  BY <1>3, <1>4, <1>5, <1>6, <1>7
  DEF Next, vars, chain, RequestStep, RequestSession, ResetOrder, OpenSession, MarkPending,
      CompleteCheckout, Deliver, DeliveryStep, MarkPaid, ConfirmOrder, Enqueue,
      DeliveryFails, WorkerStep, StartFunding, MarkOnchainPending, CheckBalance,
      ReceiptLost, BookIntent, BookOrder, CatchError, FailIntent, FailOrder, TakeJob,
      WorkerFails, Crash

LEMMA RowUpdate ==
  ASSUME NEW row \in OrderRows
  PROVE  /\ \A status : [row EXCEPT !.status = status].funded = row.funded
         /\ [row EXCEPT !.status = "draft", !.funded = 0].funded = 0
         /\ row.funded \in Nat /\ ~(0 > 0)
BY DEF OrderRows

\* An intent becomes funded, and an order's books show money, only after the
\* worker saw the deposit's receipt.
LEMMA BooksFollow ==
  ASSUME BooksInv, [Next]_vars
  PROVE  /\ \A s \in Sessions : intent'[s] = "funded" =>
              intent[s] = "funded" \/ (BookIntent /\ s = worker.session)
         /\ order'.funded > 0 => order.funded > 0 \/ BookOrder
<1>. USE DEF BooksInv, PaidInv, TypedJobs, TypeOK
<1>1. \A s \in Sessions : intent'[s] = "funded" =>
        intent[s] = "funded" \/ (BookIntent /\ s = worker.session)
  BY DEF Next, vars, db, RequestStep, RequestSession, ResetOrder, OpenSession,
         MarkPending, CompleteCheckout, Deliver, DeliveryStep, MarkPaid, ConfirmOrder,
         Enqueue, DeliveryFails, WorkerStep, StartFunding, MarkOnchainPending,
         CreateOnchain, CheckBalance, DepositMined, ReceiptLost, BookIntent, BookOrder,
         CatchError, FailIntent, FailOrder, TakeJob, LateDeposit, FirstLotSettled, WorkerFails,
         Crash
<1>2. order'.funded > 0 => order.funded > 0 \/ BookOrder
  <2>1. \/ BookOrder \/ order' = order
        \/ order' = [order EXCEPT !.status = "draft", !.funded = 0]
        \/ order' = [order EXCEPT !.status = "payment_pending"]
        \/ order' = [order EXCEPT !.status = "payment_confirmed"]
        \/ order' = [order EXCEPT !.status = "onchain_funding_pending"]
        \/ order' = [order EXCEPT !.status = "funding_failed"]
    BY DEF Next, vars, db, RequestStep, RequestSession, ResetOrder, OpenSession,
           MarkPending, CompleteCheckout, Deliver, DeliveryStep, MarkPaid, ConfirmOrder,
           Enqueue, DeliveryFails, WorkerStep, StartFunding, MarkOnchainPending,
           CreateOnchain, CheckBalance, DepositMined, ReceiptLost,  BookIntent,
           CatchError, FailIntent, FailOrder, TakeJob, LateDeposit, FirstLotSettled,
           WorkerFails, Crash
  <2>2. order \in OrderRows
    OBVIOUS
  <2>3. order.funded \in Nat /\ ~(0 > 0)
    BY <2>2, RowUpdate
  <2>4. CASE order' = [order EXCEPT !.status = "draft", !.funded = 0]
    <3>1. order'.funded = 0
      BY <2>2, <2>4, RowUpdate
    <3>. QED  BY <2>3, <3>1
  <2>5. ASSUME NEW status, order' = [order EXCEPT !.status = status]
        PROVE  order'.funded = order.funded
    BY <2>2, <2>5, RowUpdate
  <2>. QED  BY <2>1, <2>4, <2>5
<1>. QED  BY <1>1, <1>2

\* The worker goes on to the books only from the deposit's receipt.
LEMMA WorkerBooks ==
  ASSUME BooksInv, [Next]_vars
  PROVE  worker'.pc \in {"book", "bookOrder"} =>
           /\ worker'.session \in Sessions
           /\ escrow'.deposits[worker'.session] > 0
<1>. USE DEF BooksInv, PaidInv, TypedJobs, TypeOK
<1>1. CASE DepositMined
  <2>1. worker.session \in Sessions
    BY <1>1, UnderWay DEF DepositMined, Idle
  <2>2. worker'.session = worker.session
    BY <1>1 DEF DepositMined, Goto, At
  <2>3. worker'.pc \in {"book", "bookOrder"} => Accepts(worker.session)
    BY <1>1 DEF DepositMined, Goto, At, AfterReceipt, AfterError
  <2>. QED  BY <1>1, <2>1, <2>2, <2>3, DepositUpdate DEF DepositMined
<1>2. CASE BookIntent \/ UNCHANGED worker
  <2>1. worker'.pc \in {"book", "bookOrder"} =>
          worker.pc \in {"book", "bookOrder"} /\ worker'.session = worker.session
    BY <1>2 DEF BookIntent, Goto, At
  <2>2. worker.pc \in {"book", "bookOrder"} => worker.session \in Sessions
    BY UnderWay DEF Idle
  <2>. QED  BY <2>1, <2>2, DepositsGrow DEF BookedInv
<1>3. CASE worker'.pc \notin {"book", "bookOrder"}
  BY <1>3
<1>. QED
  BY <1>1, <1>2, <1>3
  DEF Next, vars, Goto, At, Idle, FinishJob, RequestStep, RequestSession, ResetOrder,
      OpenSession, MarkPending, CompleteCheckout, Deliver, DeliveryStep, MarkPaid,
      ConfirmOrder, Enqueue, DeliveryFails, WorkerStep, StartFunding, MarkOnchainPending,
      CreateOnchain, CheckBalance, ReceiptLost, AfterError, BookOrder, CatchError,
      FailIntent, FailOrder, TakeJob, LateDeposit, FirstLotSettled, WorkerFails,
         Crash

LEMMA BooksStep == BooksInv /\ [Next]_vars => BooksInv'
<1>. SUFFICES ASSUME BooksInv, [Next]_vars PROVE BooksInv'
  OBVIOUS
<1>1. PaidInv'
  BY PaidStep DEF BooksInv
<1>2. BookedInv'
  BY WorkerBooks DEF BookedInv
<1>3. BooksBackedByEscrow'
  <2>1. BookIntent \/ BookOrder =>
          worker.session \in Sessions /\ escrow.deposits[worker.session] > 0
    BY UnderWay DEF BooksInv, BookedInv, BookIntent, BookOrder, Idle
  <2>. QED  BY <2>1, DepositsGrow, BooksFollow DEF BooksInv, BooksBackedByEscrow
<1>4. OneDepositPerPayment'
  BY DepositsGrow DEF OneDepositPerPayment
<1>. QED  BY <1>1, <1>2, <1>3, <1>4 DEF BooksInv

LEMMA BooksAlways == Spec => []BooksInv
<1>1. Init => BooksInv
  BY InitInv
<1>. QED  BY <1>1, BooksStep, PTL DEF Spec

\* The books never show money the contract did not take, for any number of
\* sessions, deliveries, attempts, stalls, crashes and late or lost operations.
THEOREM BooksBackedByEscrowCorrect == Spec => []BooksBackedByEscrow
<1>1. BooksInv => BooksBackedByEscrow
  BY DEF BooksInv
<1>. QED  BY <1>1, BooksAlways, PTL

\* One payment makes at most one deposit, however often anything is retried.
THEOREM OneDepositPerPaymentCorrect == Spec => []OneDepositPerPayment
<1>1. BooksInv => OneDepositPerPayment
  BY DEF BooksInv
<1>. QED  BY <1>1, BooksAlways, PTL

-----------------------------------------------------------------------------
(* What takes back that an intent was funded *)

\* Where the worker has not booked its session's deposit, and may still fail.
Unbooked == {"mark", "create", "balance", "sent", "resent", "book", "throw", "failIntent"}

\* A job, a funded intent and a delivery past its first write are of a session
\* whose event is stored; and while nothing failed, the worker has booked nothing of
\* what it may mark as failed.
SeenInv ==
  /\ \A s \in Sessions : job[s].state # "none" => s \in seen
  /\ \A s \in Sessions : intent[s] = "funded" => s \in seen
  /\ worker.pc \in Unbooked => intent[worker.session] # "funded" \/ faults > 0
  /\ \A g \in Handlers :
       delivery[g].pc \in {"confirm", "enqueue"} => delivery[g].session \in seen

LEMMA SeenRequest ==
  ASSUME PaidInv, SeenInv, NEW s \in Sessions,
         RequestStep(s) \/ \E outcome \in {"paid", "unpaid"} : CompleteCheckout(s, outcome)
  PROVE  /\ SeenInv'
         /\ \A t \in Sessions : intent[t] = "funded" => intent'[t] = "funded"
<1>. USE DEF PaidInv, TypedJobs, TypeOK
<1>1. UNCHANGED <<seen, delivery, job, worker, faults>>
  BY DEF RequestStep, RequestSession, ResetOrder, OpenSession, MarkPending,
         CompleteCheckout, db
<1>2. OpenSession(s) => intent[s] # "funded"
  BY UnderWay DEF OpenSession, AnsweredInv, SeenInv
<1>3. \A t \in Sessions : intent'[t] = "funded" <=> intent[t] = "funded"
  BY <1>2 DEF RequestStep, RequestSession, ResetOrder, OpenSession, MarkPending,
              CompleteCheckout, db
<1>4. worker.pc \in Unbooked => worker.session \in Sessions
  BY UnderWay DEF Unbooked, Idle
<1>. QED  BY <1>1, <1>3, <1>4 DEF SeenInv

LEMMA SeenDelivery ==
  ASSUME PaidInv, SeenInv, NEW h \in Handlers,
         (\E s \in Sessions : Deliver(h, s)) \/ DeliveryStep(h) \/ DeliveryFails(h)
  PROVE  /\ SeenInv'
         /\ \A t \in Sessions : intent[t] = "funded" =>
              \/ intent'[t] = "funded"
              \/ intent'[t] = "paid" /\ delivery[h] = At("paid", t)
<1>. USE DEF PaidInv, TypedJobs, TypeOK
<1>1. /\ worker.pc \in Unbooked => worker.session \in Sessions
      /\ faults \in Nat /\ faults' \in Nat /\ faults' >= faults
  <2>1. faults \in Nat /\ (worker.pc \in Unbooked => worker.session \in Sessions)
    BY UnderWay, FundingAssumption DEF Unbooked, Idle
  <2>2. faults' = faults \/ faults' = faults + 1
    BY DEF Deliver, DeliveryStep, MarkPaid, ConfirmOrder, Enqueue, DeliveryFails, Fault
  <2>. QED  BY <2>1, <2>2
<1>2. CASE \E s \in Sessions : Deliver(h, s)
  BY <1>1, <1>2 DEF Deliver, At, Idle, SeenInv, db
<1>3. CASE MarkPaid(h)
  <2>. DEFINE s == delivery[h].session
  <2>1. s \in Sessions /\ delivery[h] = At("paid", s)
    BY <1>3, UnderWay DEF MarkPaid, Idle, Deliveries, At
  <2>2. /\ intent' = [intent EXCEPT ![s] = "paid"] /\ seen' = seen \cup {s}
        /\ delivery' = [delivery EXCEPT ![h] = At("confirm", s)]
        /\ UNCHANGED <<job, worker, faults>>
    BY <1>3 DEF MarkPaid
  <2>3. \A t \in Sessions :
          /\ intent'[t] = "funded" => intent[t] = "funded"
          /\ intent[t] = "funded" => intent'[t] = "funded" \/ (t = s /\ intent'[t] = "paid")
    BY <2>1, <2>2
  <2>4. delivery'[h].session = s
    BY <2>2 DEF At
  <2>5. \A g \in Handlers \ {h} : delivery'[g] = delivery[g]
    BY <2>2
  <2>. QED  BY <1>1, <2>1, <2>2, <2>3, <2>4, <2>5 DEF SeenInv
<1>4. CASE ConfirmOrder(h)
  BY <1>1, <1>4 DEF ConfirmOrder, At, Idle, SeenInv
<1>5. CASE Enqueue(h)
  <2>1. delivery[h].session \in Sessions /\ delivery[h].session \in seen
    BY <1>5, UnderWay DEF Enqueue, Idle, SeenInv
  <2>2. \A t \in Sessions : job'[t].state # "none" => t \in seen
    BY <1>5, <2>1 DEF Enqueue, Queued, SeenInv
  <2>. QED  BY <1>1, <1>5, <2>2 DEF Enqueue, db, SeenInv, Idle
<1>6. CASE DeliveryFails(h)
  BY <1>1, <1>6 DEF DeliveryFails, db, SeenInv, Idle
<1>. QED  BY <1>2, <1>3, <1>4, <1>5, <1>6 DEF DeliveryStep

\* Which jobs there are is not up to the worker.
LEMMA WorkersJobs ==
  ASSUME PaidInv, WorkerStep \/ WorkerFails \/ Crash
  PROVE  \A s \in Sessions : job'[s].state # "none" => job[s].state # "none"
<1>. USE DEF PaidInv, TypedJobs, TypeOK
<1>1. worker # Idle => worker.session \in Sessions /\ job[worker.session].state # "none"
  BY DEF JobInv, WorkerStates
<1>2. ASSUME NEW s \in Sessions, NEW r, job[s].state # "none", job' = [job EXCEPT ![s] = r]
      PROVE  \A t \in Sessions : job'[t].state # "none" => job[t].state # "none"
  BY <1>2
<1>3. ASSUME UNCHANGED job
      PROVE  \A t \in Sessions : job'[t].state # "none" => job[t].state # "none"
  BY <1>3
<1>4. CASE Crash
  BY <1>1, <1>2, <1>3, <1>4 DEF Crash, Stalled
<1>5. CASE \E s \in Sessions : TakeJob(s)
  BY <1>2, <1>5 DEF TakeJob
<1>6. CASE CatchError \/ BookOrder \/ FailOrder \/ StartFunding
  BY <1>1, <1>2, <1>3, <1>6
  DEF CatchError, BookOrder, FailOrder, StartFunding, FinishJob, Idle
<1>7. CASE \/ MarkOnchainPending \/ CreateOnchain \/ CheckBalance \/ DepositMined
           \/ ReceiptLost \/ BookIntent \/ FailIntent
  BY <1>3, <1>7 DEF MarkOnchainPending, CreateOnchain, CheckBalance, DepositMined,
                    ReceiptLost, BookIntent, FailIntent
<1>8. CASE WorkerFails
  BY <1>1, <1>2, <1>3, <1>8 DEF WorkerFails, FinishJob, Idle
<1>. QED  BY <1>4, <1>5, <1>6, <1>7, <1>8 DEF WorkerStep

LEMMA SeenWorker ==
  ASSUME PaidInv, SeenInv, WorkerStep
  PROVE  /\ SeenInv'
         /\ \A t \in Sessions : intent[t] = "funded" =>
              \/ intent'[t] = "funded"
              \/ intent'[t] = "failed" /\ worker = At("failIntent", t) /\ faults > 0
<1>. USE DEF PaidInv, TypedJobs, TypeOK
<1>1. UNCHANGED <<seen, delivery, faults>>
  BY DEF WorkerStep, StartFunding, MarkOnchainPending, CreateOnchain, CheckBalance,
         DepositMined, ReceiptLost, BookIntent, BookOrder, CatchError, FailIntent,
         FailOrder, TakeJob, db, stripe
<1>2. /\ worker # Idle => worker.session \in Sessions /\ worker.session \in seen
      /\ worker.pc \in Unbooked => worker # Idle
  BY UnderWay DEF JobInv, SeenInv, Unbooked, Idle
<1>3. /\ \A t \in Sessions : intent[t] = "funded" =>
           \/ intent'[t] = "funded"
           \/ intent'[t] = "failed" /\ worker = At("failIntent", t) /\ faults > 0
      /\ \A t \in Sessions : intent'[t] = "funded" => t \in seen
      /\ worker'.pc \in Unbooked => intent'[worker'.session] # "funded" \/ faults > 0
  <2>1. CASE StartFunding
    BY <1>2, <2>1 DEF StartFunding, Goto, At, FinishJob, Unbooked, SeenInv, Idle
  <2>2. CASE MarkOnchainPending \/ CreateOnchain \/ CheckBalance \/ DepositMined \/ ReceiptLost
    <3>1. UNCHANGED intent /\ worker.pc \in Unbooked /\ worker'.session = worker.session
      BY <2>2 DEF MarkOnchainPending, CreateOnchain, CheckBalance, DepositMined, ReceiptLost,
                  Goto, At, Unbooked, db
    <3>. QED  BY <3>1 DEF SeenInv
  <2>3. CASE BookIntent
    BY <1>2, <2>3 DEF BookIntent, Goto, At, Unbooked, SeenInv, Idle
  <2>4. CASE BookOrder \/ FailOrder
    BY <2>4 DEF BookOrder, FailOrder, FinishJob, Unbooked, SeenInv, Idle
  <2>5. CASE CatchError
    BY <2>5 DEF CatchError, Goto, At, Unbooked, SeenInv, Idle, db
  <2>6. CASE FailIntent
    <3>. DEFINE s == worker.session
    <3>1. s \in Sessions /\ s \in seen /\ worker = At("failIntent", s)
      BY <1>2, <2>6 DEF FailIntent, Idle, WorkerStates, At
    <3>2. intent[s] # "funded" \/ faults > 0
      BY <2>6 DEF FailIntent, Unbooked, SeenInv
    <3>3. intent' = [intent EXCEPT ![s] = "failed"] /\ worker' = At("failOrder", s)
      BY <2>6 DEF FailIntent, Goto
    <3>4. worker'.pc \notin Unbooked
      BY <3>3 DEF At, Unbooked
    <3>. QED  BY <3>1, <3>2, <3>3, <3>4 DEF SeenInv
  <2>7. CASE \E s \in Sessions : TakeJob(s)
    BY <2>7 DEF TakeJob, At, Unbooked, SeenInv, db
  <2>. QED  BY <2>1, <2>2, <2>3, <2>4, <2>5, <2>6, <2>7 DEF WorkerStep
<1>. QED  BY <1>1, <1>3, WorkersJobs DEF SeenInv

LEMMA SeenWorld ==
  ASSUME PaidInv, SeenInv,
         (\E s \in Sessions : LateDeposit(s)) \/ FirstLotSettled \/ WorkerFails \/ Crash
  PROVE  SeenInv' /\ UNCHANGED intent
<1>1. CASE (\E s \in Sessions : LateDeposit(s)) \/ FirstLotSettled
  BY <1>1 DEF LateDeposit, FirstLotSettled, db, stripe, SeenInv
<1>2. CASE Crash
  <2>1. UNCHANGED <<intent, seen>> /\ worker' = Idle /\ \A g \in Handlers : delivery'[g] = Idle
    BY <1>2 DEF Crash, db
  <2>. QED  BY <1>2, <2>1, WorkersJobs DEF SeenInv, Unbooked, Idle
<1>3. CASE WorkerFails
  <2>1. UNCHANGED <<intent, seen, delivery>>
    BY <1>3 DEF WorkerFails, db, stripe
  <2>2. faults' > 0
    BY <1>3, FundingAssumption DEF WorkerFails, Fault, PaidInv, TypedJobs, TypeOK
  <2>. QED  BY <1>3, <2>1, <2>2, WorkersJobs DEF SeenInv
<1>. QED  BY <1>1, <1>2, <1>3

TakesBack(s) ==
  \/ /\ intent'[s] = "paid" /\ s \in seen
     /\ \E h \in Handlers : delivery[h] = At("paid", s)
  \/ /\ intent'[s] = "failed" /\ faults > 0
     /\ worker = At("failIntent", s)

LEMMA SeenStep ==
  ASSUME PaidInv, SeenInv, [Next]_vars
  PROVE  /\ SeenInv'
         /\ \A s \in Sessions : intent[s] = "funded" /\ intent'[s] # "funded" => TakesBack(s)
<1>. USE DEF TakesBack
<1>1. CASE UNCHANGED vars
  BY <1>1 DEF vars, SeenInv
<1>2. CASE \E s \in Sessions :
             RequestStep(s) \/ \E outcome \in {"paid", "unpaid"} : CompleteCheckout(s, outcome)
  BY <1>2, SeenRequest
<1>3. CASE \E h \in Handlers :
             (\E s \in Sessions : Deliver(h, s)) \/ DeliveryStep(h) \/ DeliveryFails(h)
  BY <1>3, SeenDelivery DEF SeenInv
<1>4. CASE WorkerStep
  BY <1>4, SeenWorker
<1>5. CASE (\E s \in Sessions : LateDeposit(s)) \/ FirstLotSettled \/ WorkerFails \/ Crash
  BY <1>5, SeenWorld
<1>. QED  BY <1>1, <1>2, <1>3, <1>4, <1>5 DEF Next

\* What takes back that an intent was funded is the second of two deliveries that
\* both read its event as new, or the last attempt's catch after something failed,
\* for any number of sessions, deliveries, attempts, stalls, stops and faults.
THEOREM FundedStays == Spec => FundedOutlivesRetries
<1>. DEFINE Inv == PaidInv /\ SeenInv
<1>1. Init => Inv
  <2>1. Init => SeenInv
    BY SMT DEF Init, SeenInv, Idle, Unbooked
  <2>. QED  BY <2>1, InitInv DEF BooksInv
<1>2. Inv /\ [Next]_vars => Inv'
  BY PaidStep, SeenStep
<1>3. Inv /\ [Next]_vars =>
        [\A s \in Sessions : intent[s] = "funded" /\ intent'[s] # "funded" =>
           TakesBack(s)]_vars
  BY SeenStep
<1>. QED  BY <1>1, <1>2, <1>3, PTL DEF Spec, FundedOutlivesRetries, TakesBack
=============================================================================
