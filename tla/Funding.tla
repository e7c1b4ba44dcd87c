------------------------------ MODULE Funding ------------------------------
(***************************************************************************)
(* From a card payment to the escrow: the checkout request, Stripe's       *)
(* webhook, the BullMQ job that deposits the buyer's USDC, and the books    *)
(* of the orders and funding_intents tables.  One order is followed.        *)
(*                                                                         *)
(* Every await is a step of its own: two deliveries of one event, two      *)
(* requests and the worker interleave between any two database writes, and *)
(* the process that hosts them all can stop in between.  A session is also *)
(* its funding intent, its Stripe event, its job and its payment           *)
(* reference: the code makes exactly one of each.                          *)
(***************************************************************************)
EXTENDS Naturals, FiniteSets

CONSTANTS
  Sessions,     \* checkout sessions requested for the order
  Handlers,     \* webhook deliveries the server works on at the same time
  MaxAttempts,  \* attempts of a job (5 in the code)
  MaxStalls,    \* times BullMQ returns a stalled job to the queue (1)
  FaultKinds,   \* which faults there are: "crash", "delivery", "worker"
  MaxFaults,    \* bound on crashes and database or queue errors
  MaxBuyerUsdc  \* bound on the deposits the buyer's balance pays for

ASSUME FundingAssumption ==
  /\ IsFiniteSet(Sessions) /\ IsFiniteSet(Handlers)
  /\ MaxAttempts \in Nat \ {0}
  /\ MaxStalls \in Nat /\ MaxFaults \in Nat /\ MaxBuyerUsdc \in Nat

VARIABLES
  order,     \* row of orders: status, funded (deposits the books show), whether it
             \* has a target weight
  intent,    \* status of each funding intent, "none" before it is inserted
  seen,      \* sessions whose event id is stored with their intent
  request,   \* where each checkout request is
  checkout,  \* Stripe's view of each session
  acked,     \* events that were answered with 2xx
  delivery,  \* the webhook deliveries being handled
  job,       \* BullMQ's job of each session
  worker,    \* the worker's single thread: where it is and on which job
  escrow,    \* the contract's order, its deposits and the buyer's USDC
  late,      \* deposits sent whose receipt the worker no longer waits for
  faults     \* crashes and errors so far

db     == <<order, intent, seen>>
stripe == <<request, checkout, acked, delivery>>
chain  == <<escrow, late>>
vars   == <<order, intent, seen, request, checkout, acked, delivery, job,
            worker, escrow, late, faults>>

Idle     == [pc |-> "idle"]
At(p, s) == [pc |-> p, session |-> s]

Init ==
  /\ \E target \in BOOLEAN : order = [status |-> "draft", funded |-> 0, target |-> target]
  /\ intent = [s \in Sessions |-> "none"]
  /\ seen = {}
  /\ request = [s \in Sessions |-> "idle"]
  /\ checkout = [s \in Sessions |-> "none"]
  /\ acked = {}
  /\ delivery = [h \in Handlers |-> Idle]
  /\ job = [s \in Sessions |-> [state |-> "none", failures |-> 0, stalls |-> 0]]
  /\ worker = Idle
  /\ \E usdc \in 0 .. MaxBuyerUsdc :
       escrow = [exists |-> FALSE, open |-> TRUE, usdc |-> usdc,
                 deposits |-> [s \in Sessions |-> 0]]
  /\ late = {}
  /\ faults = 0

-----------------------------------------------------------------------------
(* The checkout request *)

Fundable == {"draft", "payment_pending", "funding_failed"}

\* The order is read and its status checked; the writes below use what was read.
RequestSession(s) ==
  /\ request[s] = "idle"
  /\ order.status \in Fundable
  /\ request' = [request EXCEPT ![s] =
       IF order.status = "funding_failed" THEN "reset" ELSE "insert"]
  /\ UNCHANGED <<db, checkout, acked, delivery, job, worker, chain, faults>>

\* A failed order starts over: its books are emptied.
ResetOrder(s) ==
  /\ request[s] = "reset"
  /\ order' = [order EXCEPT !.status = "draft", !.funded = 0]
  /\ request' = [request EXCEPT ![s] = "insert"]
  /\ UNCHANGED <<intent, seen, checkout, acked, delivery, job, worker, chain, faults>>

\* The intent is inserted, the session created and its id stored.
OpenSession(s) ==
  /\ request[s] = "insert"
  /\ intent' = [intent EXCEPT ![s] = "pending"]
  /\ request' = [request EXCEPT ![s] = "mark"]
  /\ UNCHANGED <<order, seen, checkout, acked, delivery, job, worker, chain, faults>>

\* The order is marked whatever became of it meanwhile; the answer carries the
\* session's address, so only now can the buyer pay.
MarkPending(s) ==
  /\ request[s] = "mark"
  /\ order' = [order EXCEPT !.status = "payment_pending"]
  /\ request' = [request EXCEPT ![s] = "answered"]
  /\ checkout' = [checkout EXCEPT ![s] = "open"]
  /\ UNCHANGED <<intent, seen, acked, delivery, job, worker, chain, faults>>

-----------------------------------------------------------------------------
(* Stripe and the webhook *)

\* The buyer completes the checkout, with or without the payment going through.
CompleteCheckout(s, outcome) ==
  /\ checkout[s] = "open"
  /\ checkout' = [checkout EXCEPT ![s] = outcome]
  /\ UNCHANGED <<db, request, acked, delivery, job, worker, chain, faults>>

\* Mutant: a completed session counts as paid.
IgnoredPaidOrNot(s) == s \in seen \/ intent[s] \in {"funded", "funding"}

\* Events that are answered without any effect: unpaid ones and duplicates.
Ignored(s) ==
  \/ checkout[s] # "paid"
  \/ s \in seen
  \/ intent[s] \in {"funded", "funding"}

\* Stripe delivers an event until it is answered, and sometimes again.
Deliver(h, s) ==
  /\ checkout[s] \in {"paid", "unpaid"}
  /\ delivery[h] = Idle
  /\ \/ Ignored(s) /\ acked' = acked \cup {s} /\ UNCHANGED delivery
     \/ /\ ~Ignored(s)
        /\ delivery' = [delivery EXCEPT ![h] = At("paid", s)]
        /\ UNCHANGED acked
  /\ UNCHANGED <<db, request, checkout, job, worker, chain, faults>>

MarkPaid(h) ==
  /\ delivery[h].pc = "paid"
  /\ LET s == delivery[h].session
     IN  /\ intent' = [intent EXCEPT ![s] = "paid"]
         /\ seen' = seen \cup {s}
         /\ delivery' = [delivery EXCEPT ![h] = At("confirm", s)]
  /\ UNCHANGED <<order, request, checkout, acked, job, worker, chain, faults>>

ConfirmOrder(h) ==
  /\ delivery[h].pc = "confirm"
  /\ order' = [order EXCEPT !.status = "payment_confirmed"]
  /\ delivery' = [delivery EXCEPT ![h] = At("enqueue", delivery[h].session)]
  /\ UNCHANGED <<intent, seen, request, checkout, acked, job, worker, chain, faults>>

\* Mutant: the job's id is the order's, not the intent's.
QueuedOncePerOrder(s) ==
  IF \E t \in Sessions : job[t].state # "none" THEN job
  ELSE [job EXCEPT ![s] = [@ EXCEPT !.state = "waiting"]]

\* BullMQ ignores a job whose id it knows, even one that completed or failed.
Queued(s) ==
  IF job[s].state # "none" THEN job
  ELSE [job EXCEPT ![s] = [@ EXCEPT !.state = "waiting"]]

Enqueue(h) ==
  /\ delivery[h].pc = "enqueue"
  /\ job' = Queued(delivery[h].session)
  /\ acked' = acked \cup {delivery[h].session}
  /\ delivery' = [delivery EXCEPT ![h] = Idle]
  /\ UNCHANGED <<db, request, checkout, worker, chain, faults>>

-----------------------------------------------------------------------------
(* The worker: processFundOrderJob and the processor around it *)

Goto(p) == worker' = At(p, worker.session)

TakeJob(s) ==
  /\ worker = Idle
  /\ job[s].state = "waiting"
  /\ job' = [job EXCEPT ![s] = [@ EXCEPT !.state = "active"]]
  /\ worker' = At("start", s)
  /\ UNCHANGED <<db, stripe, chain, faults>>

FinishJob(s, state) ==
  /\ job' = [job EXCEPT ![s] = [@ EXCEPT !.state = state]]
  /\ worker' = Idle

\* Mutant: an attempt begins anew what the last one has booked.
StartFundingAfresh ==
  /\ worker.pc = "start"
  /\ intent' = [intent EXCEPT ![worker.session] = "funding"]
  /\ Goto("mark")
  /\ UNCHANGED <<order, seen, stripe, job, chain, faults>>

StartFunding ==
  /\ worker.pc = "start"
  /\ LET s == worker.session
     IN  \/ intent[s] = "funded" /\ FinishJob(s, "completed") /\ UNCHANGED intent
         \/ /\ intent[s] # "funded"
            /\ intent' = [intent EXCEPT ![s] = "funding"]
            /\ Goto("mark") /\ UNCHANGED job
  /\ UNCHANGED <<order, seen, stripe, chain, faults>>

\* An order that was given a budget and no target weight throws here, after it
\* was paid for.
MarkOnchainPending ==
  /\ worker.pc = "mark"
  /\ order' = [order EXCEPT !.status = "onchain_funding_pending"]
  /\ Goto(IF order.target THEN "create" ELSE "throw")
  /\ UNCHANGED <<intent, seen, stripe, job, chain, faults>>

\* createOrder unless the contract already has the order.  It takes effect or
\* not, and without a receipt the job throws either way.
CreateOnchain ==
  /\ worker.pc = "create"
  /\ \E mined, receipt \in BOOLEAN :
       /\ escrow.exists => mined /\ receipt
       /\ escrow' = [escrow EXCEPT !.exists = escrow.exists \/ mined]
       /\ Goto(IF mined /\ receipt THEN "balance" ELSE "throw")
  /\ UNCHANGED <<db, stripe, job, late, faults>>

CheckBalance ==
  /\ worker.pc = "balance"
  /\ Goto(IF escrow.usdc = 0 THEN "throw" ELSE "sent")
  /\ UNCHANGED <<db, stripe, job, chain, faults>>

\* Mutant: a payment reference can be applied again.
AcceptsAnyRef(s) == escrow.exists /\ escrow.open /\ escrow.usdc > 0

\* Mutant: the deposit does not need the buyer's money.
AcceptsUnfunded(s) == escrow.exists /\ escrow.open /\ escrow.deposits[s] = 0

\* What apply_fund_order asks for: an unused reference, an order that takes
\* deposits, and the buyer's USDC.
Accepts(s) ==
  /\ escrow.exists /\ escrow.open
  /\ escrow.deposits[s] = 0
  /\ escrow.usdc > 0

\* The contract's state after a deposit; one that reverts changes nothing.
Deposited(s) ==
  IF Accepts(s)
  THEN [exists |-> escrow.exists, open |-> escrow.open, usdc |-> escrow.usdc - 1,
        deposits |-> [escrow.deposits EXCEPT ![s] = escrow.deposits[s] + 1]]
  ELSE escrow

\* Mutant: a mined operation counts, reverted or not.
AfterReceiptIgnored(s) == {"book"}

\* Where an error leads: the first time it may be taken for the paymaster's,
\* because its text has "404" in it, and the operation is sent once more.
AfterError == IF worker.pc = "sent" THEN {"throw", "resent"} ELSE {"throw"}

\* A receipt with success = false throws, with the operation's hash in the text.
AfterReceipt(s) == IF Accepts(s) THEN {"book"} ELSE AfterError

\* The deposit is mined and its receipt arrives.
DepositMined ==
  /\ worker.pc \in {"sent", "resent"}
  /\ escrow' = Deposited(worker.session)
  /\ \E next \in AfterReceipt(worker.session) : Goto(next)
  /\ UNCHANGED <<db, stripe, job, late, faults>>

\* No receipt arrives; the operation may still be mined.
ReceiptLost ==
  /\ worker.pc \in {"sent", "resent"}
  /\ late' = late \cup {worker.session}
  /\ \E next \in AfterError : Goto(next)
  /\ UNCHANGED <<db, stripe, job, escrow, faults>>

BookIntent ==
  /\ worker.pc = "book"
  /\ intent' = [intent EXCEPT ![worker.session] = "funded"]
  /\ Goto("bookOrder")
  /\ UNCHANGED <<order, seen, stripe, job, chain, faults>>

\* The books show this intent's amount, whatever they showed before.
BookOrder ==
  /\ worker.pc = "bookOrder"
  /\ order' = [order EXCEPT !.status = "funded", !.funded = 1]
  /\ FinishJob(worker.session, "completed")
  /\ UNCHANGED <<intent, seen, stripe, chain, faults>>

\* The processor's catch: the last attempt marks intent and order as failed.
CatchError ==
  /\ worker.pc = "throw"
  /\ LET s == worker.session
         last == job[s].failures + 1 >= MaxAttempts
     IN  \/ last /\ Goto("failIntent") /\ UNCHANGED job
         \/ /\ ~last
            /\ job' = [job EXCEPT ![s] = [state |-> "waiting", stalls |-> job[s].stalls,
                                          failures |-> job[s].failures + 1]]
            /\ worker' = Idle
  /\ UNCHANGED <<db, stripe, chain, faults>>

FailIntent ==
  /\ worker.pc = "failIntent"
  /\ intent' = [intent EXCEPT ![worker.session] = "failed"]
  /\ Goto("failOrder")
  /\ UNCHANGED <<order, seen, stripe, job, chain, faults>>

FailOrder ==
  /\ worker.pc = "failOrder"
  /\ order' = [order EXCEPT !.status = "funding_failed"]
  /\ FinishJob(worker.session, "failed")
  /\ UNCHANGED <<intent, seen, stripe, chain, faults>>

-----------------------------------------------------------------------------
(* The chain on its own, and faults *)

\* An operation nobody waits for is mined after all, or dropped.
LateDeposit(s) ==
  /\ s \in late
  /\ late' = late \ {s}
  /\ escrow' \in {escrow, Deposited(s)}
  /\ UNCHANGED <<db, stripe, job, worker, faults>>

\* The order pays its first lot: from then on it takes no deposits.
FirstLotSettled ==
  /\ escrow.open
  /\ \E s \in Sessions : escrow.deposits[s] > 0
  /\ escrow' = [escrow EXCEPT !.open = FALSE]
  /\ UNCHANGED <<db, stripe, job, worker, late, faults>>

Fault(kind) ==
  /\ kind \in FaultKinds
  /\ faults < MaxFaults /\ faults' = faults + 1

\* A webhook handler throws: Stripe gets no 2xx.
DeliveryFails(h) ==
  /\ Fault("delivery")
  /\ delivery[h] # Idle
  /\ delivery' = [delivery EXCEPT ![h] = Idle]
  /\ UNCHANGED <<db, request, checkout, acked, job, worker, chain>>

\* A query of the worker fails: the processor's catch takes over, and when that
\* fails too the job ends with the rest of the catch undone.
WorkerFails ==
  /\ Fault("worker")
  /\ \/ /\ worker.pc \in {"start", "mark", "balance", "book", "bookOrder"}
        /\ Goto("throw") /\ UNCHANGED job
     \/ /\ worker.pc \in {"failIntent", "failOrder"}
        /\ FinishJob(worker.session, "failed")
  /\ UNCHANGED <<db, stripe, chain>>

Waiting == {"sent", "resent"}

\* A stalled job goes back to the queue, or to the failed ones without the
\* processor's catch.
Stalled(s) ==
  [job EXCEPT ![s] =
     [state    |-> IF job[s].stalls < MaxStalls THEN "waiting" ELSE "failed",
      failures |-> job[s].failures, stalls |-> job[s].stalls + 1]]

\* The API process stops: requests, deliveries and the worker with it.
Crash ==
  /\ Fault("crash")
  /\ request' = [s \in Sessions |->
       IF request[s] \in {"reset", "insert", "mark"} THEN "lost" ELSE request[s]]
  /\ delivery' = [h \in Handlers |-> Idle]
  /\ job' = IF worker = Idle THEN job ELSE Stalled(worker.session)
  /\ late' = IF worker.pc \in Waiting THEN late \cup {worker.session} ELSE late
  /\ worker' = Idle
  /\ UNCHANGED <<db, checkout, acked, escrow>>

-----------------------------------------------------------------------------

RequestStep(s) ==
  RequestSession(s) \/ ResetOrder(s) \/ OpenSession(s) \/ MarkPending(s)

DeliveryStep(h) == MarkPaid(h) \/ ConfirmOrder(h) \/ Enqueue(h)

WorkerStep ==
  \/ StartFunding \/ MarkOnchainPending \/ CreateOnchain \/ CheckBalance
  \/ DepositMined \/ ReceiptLost \/ BookIntent \/ BookOrder
  \/ CatchError \/ FailIntent \/ FailOrder
  \/ \E s \in Sessions : TakeJob(s)

Next ==
  \/ \E s \in Sessions :
       \/ RequestStep(s)
       \/ \E outcome \in {"paid", "unpaid"} : CompleteCheckout(s, outcome)
       \/ \E h \in Handlers : Deliver(h, s)
       \/ LateDeposit(s)
  \/ \E h \in Handlers : DeliveryStep(h) \/ DeliveryFails(h)
  \/ WorkerStep
  \/ FirstLotSettled
  \/ WorkerFails
  \/ Crash

Spec == Init /\ [][Next]_vars

\* Stripe delivers an unanswered event again and again, handlers in progress go
\* on, and BullMQ's worker keeps taking jobs and working on the one it has.
Fairness ==
  /\ \A s \in Sessions :
       WF_vars(s \notin acked /\ \E h \in Handlers : Deliver(h, s))
  /\ \A h \in Handlers : WF_vars(DeliveryStep(h))
  /\ WF_vars(WorkerStep)

FairSpec == Spec /\ Fairness
-----------------------------------------------------------------------------
(* Properties *)

OrderRows == [status : {"draft", "payment_pending", "payment_confirmed",
                        "onchain_funding_pending", "funded", "funding_failed"},
              funded : {0, 1}, target : BOOLEAN]
IntentStatus == {"none", "pending", "paid", "funding", "funded", "failed"}
Deliveries == {Idle} \cup [pc : {"paid", "confirm", "enqueue"}, session : Sessions]
Jobs == [state : {"none", "waiting", "active", "completed", "failed"},
         failures : 0 .. MaxAttempts, stalls : 0 .. MaxStalls + 1]
WorkerStates == {Idle} \cup
  [pc : {"start", "mark", "create", "balance", "sent", "resent", "book",
         "bookOrder", "throw", "failIntent", "failOrder"}, session : Sessions]
Escrows == [exists : BOOLEAN, open : BOOLEAN, usdc : 0 .. MaxBuyerUsdc,
            deposits : [Sessions -> Nat]]

\* The rows, jobs and threads have their declared types; the counters stay
\* within what BullMQ and the bounds allow.
TypeOK ==
  /\ order \in OrderRows
  /\ intent \in [Sessions -> IntentStatus]
  /\ seen \subseteq Sessions /\ acked \subseteq Sessions /\ late \subseteq Sessions
  /\ request \in [Sessions -> {"idle", "reset", "insert", "mark", "answered", "lost"}]
  /\ checkout \in [Sessions -> {"none", "open", "unpaid", "paid"}]
  /\ delivery \in [Handlers -> Deliveries]
  /\ job \in [Sessions -> Jobs]
  /\ worker \in WorkerStates
  /\ escrow \in Escrows
  /\ faults \in 0 .. MaxFaults

\* The books never show money the contract did not take: a funded intent's
\* reference was applied on the chain, and an order's funded amount is covered
\* by deposits, across retries, crashes and reverted or late operations.
BooksBackedByEscrow ==
  /\ \A s \in Sessions : intent[s] = "funded" => escrow.deposits[s] > 0
  /\ order.funded > 0 => \E s \in Sessions : escrow.deposits[s] > 0

\* Only a session that Stripe reports as paid leads to a deposit.
DepositsArePaidFor ==
  \A s \in Sessions : escrow.deposits[s] > 0 => checkout[s] = "paid"

\* However often the event is delivered, the job retried, the operation sent
\* again or mined late, one payment makes at most one deposit.
OneDepositPerPayment ==
  \A s \in Sessions : escrow.deposits[s] <= 1

\* Every payment is deposited in the end, or the books show that it failed and
\* go on showing it, while the server runs without faults and works on one
\* delivery at a time.
PaymentResolved ==
  \A s \in Sessions :
    checkout[s] = "paid" ~> [](escrow.deposits[s] > 0 \/ intent[s] = "failed")

\* What takes back that an intent was funded is the second of two deliveries that
\* both read its event as new, or the last attempt's catch after something failed;
\* never a late or repeated delivery, a retry, another session, a stop or a restart.
FundedOutlivesRetries ==
  [][\A s \in Sessions : intent[s] = "funded" /\ intent'[s] # "funded" =>
       \/ /\ intent'[s] = "paid" /\ s \in seen
          /\ \E h \in Handlers : delivery[h] = At("paid", s)
       \/ /\ intent'[s] = "failed" /\ faults > 0
          /\ worker = At("failIntent", s)]_vars

\* "Reintentar solo el fondeo onchain, nunca el cobro Stripe": once a payment
\* failed on the chain, no new checkout is started for the order.
RetriesDoNotCharge ==
  [][\A s \in Sessions :
       request[s] = "idle" /\ request'[s] # "idle" =>
         \A t \in Sessions : intent[t] # "failed"]_vars
=============================================================================
