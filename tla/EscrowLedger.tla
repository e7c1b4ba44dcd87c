---------------------------- MODULE EscrowLedger ----------------------------
(***************************************************************************)
(* What the escrow promises, order by order: money deposited for an order  *)
(* stays with that order until it is paid for one of the lots or refunded. *)
(* Deposits stop at the first payment, a lot is paid once and never more   *)
(* than what is held, a refund returns everything that is left and closes  *)
(* the order, and so does a payment that leaves nothing.                   *)
(***************************************************************************)
EXTENDS Integers

CONSTANTS
  Orders,  \* the accounts of the ledger
  Lots,    \* what can be paid for
  Amounts  \* the sums that can be deposited at a time

VARIABLES
  deposited,  \* deposited[o]: everything ever deposited for o
  held,       \* held[o]: what is still held for o
  paid,       \* paid[o][l]: what o paid for l, 0 if nothing
  refunded,   \* refunded[o]: what was given back
  closed      \* closed[o]: nothing can happen to o any more

ledger == <<deposited, held, paid, refunded, closed>>

Init ==
  /\ deposited = [o \in Orders |-> 0]
  /\ held = [o \in Orders |-> 0]
  /\ paid = [o \in Orders |-> [l \in Lots |-> 0]]
  /\ refunded = [o \in Orders |-> 0]
  /\ closed = [o \in Orders |-> FALSE]

Deposit(o, n) ==
  /\ ~closed[o]
  /\ n > 0
  /\ \A l \in Lots : paid[o][l] = 0
  /\ deposited' = [deposited EXCEPT ![o] = @ + n]
  /\ held' = [held EXCEPT ![o] = @ + n]
  /\ UNCHANGED <<paid, refunded, closed>>

Pay(o, l, n) ==
  /\ ~closed[o]
  /\ \A p \in Orders : paid[p][l] = 0
  /\ n \in 1 .. held[o]
  /\ held' = [held EXCEPT ![o] = @ - n]
  /\ paid' = [paid EXCEPT ![o][l] = n]
  /\ closed' = [closed EXCEPT ![o] = (n = held[o])]
  /\ UNCHANGED <<deposited, refunded>>

Refund(o) ==
  /\ ~closed[o]
  /\ held[o] > 0
  /\ \E l \in Lots : paid[o][l] > 0
  /\ held' = [held EXCEPT ![o] = 0]
  /\ refunded' = [refunded EXCEPT ![o] = held[o]]
  /\ closed' = [closed EXCEPT ![o] = TRUE]
  /\ UNCHANGED <<deposited, paid>>

Next ==
  \E o \in Orders :
    \/ \E n \in Amounts : Deposit(o, n)
    \/ \E l \in Lots : \E n \in 1 .. held[o] : Pay(o, l, n)
    \/ Refund(o)

Spec == Init /\ [][Next]_ledger
=============================================================================
