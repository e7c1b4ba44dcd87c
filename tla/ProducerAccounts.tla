-------------------------- MODULE ProducerAccounts --------------------------
(***************************************************************************)
(* How the backend gets to sign for a producer.  The producer's row names  *)
(* one smart account.  A wallet is linked to it at login; the browser then *)
(* grants a session key, which the server prepares, the wallet's owner     *)
(* approves and the server completes; settlements and reweighings resolve  *)
(* the key that signs for the account.                                     *)
(*                                                                         *)
(* One producer with several browser tabs.  A tab has one request at a     *)
(* time and may be closed between two.  A write, or a query after a write, *)
(* is a step; the queries of one request that nothing is written between   *)
(* are one step.  The server may stop, or a query fail, between two steps  *)
(* of a request.  Warming a key changes no row and is left out.            *)
(***************************************************************************)
EXTENDS Naturals, Sequences, FiniteSets

CONSTANTS
  Tabs,     \* the producer's browser tabs
  Wallets,  \* wallets the producer owns: Google, one-time password
  MaxKeys   \* bound on the session keys prepared

ASSUME AccountsAssumption ==
  /\ IsFiniteSet(Wallets) /\ {"none", "seed", "created"} \cap Wallets = {}
  /\ MaxKeys \in Nat

VARIABLES
  account,   \* users.smart_account_address
  keys,      \* rows of producer_session_keys, in the order of created_at
  activated, \* the keys that became active, in the order of updated_at
  tab,       \* where each tab is and what it was told
  granted    \* the key of the last completed grant, 0 once it is revoked

vars == <<account, keys, activated, tab, granted>>

NoApproval == [key |-> 0, account |-> "none"]
Closed == [pc |-> "idle", wallet |-> "none", key |-> 0, row |-> 0,
           account |-> "none", refused |-> FALSE]

\* A demo producer has the account derived from the demo seed.
Init ==
  /\ account \in {"none", "seed"}
  /\ keys = <<>> /\ activated = <<>> /\ granted = 0
  /\ tab = [t \in Tabs |-> Closed]

At(t, pc) == tab[t].pc = pc
Goto(t, pc) == tab' = [tab EXCEPT ![t].pc = pc]
Idle(t, refused) ==
  tab' = [tab EXCEPT ![t] = [Closed EXCEPT !.wallet = tab[t].wallet, !.refused = refused]]
With(status) == {k \in DOMAIN keys : keys[k].status = status}
Revoked(K) ==
  [k \in DOMAIN keys |-> IF k \in K THEN [keys[k] EXCEPT !.status = "revoked"] ELSE keys[k]]

TabCloses(t) ==
  /\ tab[t].pc \in {"idle", "prepared", "approved"}
  /\ tab' = [tab EXCEPT ![t] = Closed]
  /\ UNCHANGED <<account, keys, activated, granted>>

\* A query fails or the server stops: the request is answered with an error, and
\* the writes it still had to make are never made.
RequestFails(t) ==
  /\ tab[t].pc \in {"create", "revokePending", "insert", "revokeActive", "activate",
                   "resolve", "send"}
  /\ Idle(t, tab[t].refused)
  /\ UNCHANGED <<account, keys, activated, granted>>

-----------------------------------------------------------------------------
(* Linking an account *)

\* POST /auth/producer/session: the wallet at hand replaces what was linked.
Link(t) ==
  /\ At(t, "idle")
  /\ \E w \in Wallets : account' = w /\ tab' = [tab EXCEPT ![t].wallet = w]
  /\ UNCHANGED <<keys, activated, granted>>

\* POST /auth/producer/resume: only the linked wallet gets a session back.
Resume(t) ==
  /\ At(t, "idle") /\ account \in Wallets
  /\ tab' = [tab EXCEPT ![t].wallet = account]
  /\ UNCHANGED <<account, keys, activated, granted>>

\* POST /auth/passkey/register/verify, once the passkey is verified: an account
\* with a new owner is created where the row read had none.
RegisterPasskey(t) ==
  /\ At(t, "idle") /\ account = "none"
  /\ Goto(t, "create")
  /\ UNCHANGED <<account, keys, activated, granted>>

CreateAccount(t) ==
  /\ At(t, "create")
  /\ account' = "created"
  /\ Idle(t, tab[t].refused)
  /\ UNCHANGED <<keys, activated, granted>>

-----------------------------------------------------------------------------
(* Granting a session key *)

\* GET /auth/producer/session-key/status: needsGrant.
NeedsGrant == account = "none" \/ (account # "seed" /\ With("active") = {})

\* Mutant: a producer without an account is not turned away.
PrepareUnlinked(t) ==
  /\ At(t, "idle")
  /\ NeedsGrant \/ tab[t].refused
  /\ tab' = [tab EXCEPT ![t].pc = "revokePending", ![t].account = account]
  /\ UNCHANGED <<account, keys, activated, granted>>

\* The page offers a grant where one is needed, or a call was refused.
\* POST /auth/producer/session-key/prepare starts with the account.
Prepare(t) ==
  /\ At(t, "idle") /\ account # "none"
  /\ NeedsGrant \/ tab[t].refused
  /\ tab' = [tab EXCEPT ![t].pc = "revokePending", ![t].account = account]
  /\ UNCHANGED <<account, keys, activated, granted>>

RevokePending(t) ==
  /\ At(t, "revokePending") /\ Len(keys) < MaxKeys
  /\ keys' = Revoked(With("pending"))
  /\ Goto(t, "insert")
  /\ UNCHANGED <<account, activated, granted>>

InsertPending(t) ==
  /\ At(t, "insert") /\ Len(keys) < MaxKeys
  /\ keys' = Append(keys, [account |-> tab[t].account, status |-> "pending",
                           approval |-> NoApproval])
  /\ tab' = [tab EXCEPT ![t].pc = "prepared", ![t].key = Len(keys) + 1]
  /\ UNCHANGED <<account, activated, granted>>

\* The wallet's owner signs for the key, unless it is the wallet of another
\* account.
Approve(t) ==
  /\ At(t, "prepared")
  /\ \/ tab[t].wallet = tab[t].account /\ Goto(t, "approved")
     \/ tab[t].wallet # tab[t].account /\ Idle(t, tab[t].refused)
  /\ UNCHANGED <<account, keys, activated, granted>>

LatestPending(k) == k \in With("pending") /\ \A j \in With("pending") : j <= k

\* Mutant: the key that was approved is not compared.
CompleteAny(t) ==
  /\ At(t, "approved")
  /\ \/ \E k \in DOMAIN keys :
          /\ LatestPending(k)
          /\ tab' = [tab EXCEPT ![t].pc = "revokeActive", ![t].row = k]
     \/ With("pending") = {} /\ Idle(t, tab[t].refused)
  /\ UNCHANGED <<account, keys, activated, granted>>

\* POST /auth/producer/session-key/complete: the latest pending key has to be
\* the one that was approved.
Complete(t) ==
  /\ At(t, "approved")
  /\ LET k == tab[t].key IN
     \/ LatestPending(k) /\ tab' = [tab EXCEPT ![t].pc = "revokeActive", ![t].row = k]
     \/ ~LatestPending(k) /\ Idle(t, tab[t].refused)
  /\ UNCHANGED <<account, keys, activated, granted>>

RevokeActive(t) ==
  /\ At(t, "revokeActive")
  /\ keys' = Revoked(With("active"))
  /\ Goto(t, "activate")
  /\ UNCHANGED <<account, activated, granted>>

\* What the browser sent: its approval of the key it was given.
Approval(t) == [key |-> tab[t].key, account |-> tab[t].wallet]

\* By its id, whatever became of the row since it was read.
Activate(t) ==
  /\ At(t, "activate")
  /\ LET k == tab[t].row IN
     /\ keys' = [keys EXCEPT ![k].approval = Approval(t), ![k].status = "active"]
     /\ activated' = Append(activated, k) /\ granted' = k
  /\ Idle(t, FALSE)
  /\ UNCHANGED account

\* POST /auth/producer/session-key/revoke
Revoke(t) ==
  /\ At(t, "idle") /\ With("active") # {}
  /\ keys' = Revoked(With("active"))
  /\ granted' = 0
  /\ UNCHANGED <<account, activated, tab>>

-----------------------------------------------------------------------------
(* Signing a call *)

\* A settlement or a reweighing reads the producer's row before it resolves.
ReadProducer(t) ==
  /\ At(t, "idle") /\ account # "none"
  /\ tab' = [tab EXCEPT ![t].pc = "resolve", ![t].account = account]
  /\ UNCHANGED <<account, keys, activated, granted>>

\* Mutant: the latest key is the one created last.
LatestCreated(k) == k \in With("active") /\ \A j \in With("active") : j <= k

LatestActive(k) ==
  \E i \in DOMAIN activated :
    /\ activated[i] = k /\ k \in With("active")
    /\ \A j \in DOMAIN activated : activated[j] \in With("active") => j <= i

\* Mutant: the key's account is not compared with the producer's.
SignsForAny(k, expected) == LatestActive(k)

SignsFor(k, expected) == LatestActive(k) /\ keys[k].account = expected

\* resolveProducerSigner: the seed's own account, else the latest active key
\* if it is of the account, else 409.
Resolve(t) ==
  /\ At(t, "resolve")
  /\ LET expected == tab[t].account IN
     \/ /\ expected = "seed"
        /\ tab' = [tab EXCEPT ![t].pc = "send", ![t].row = 0]
     \/ /\ expected # "seed"
        /\ \E k \in DOMAIN keys :
             /\ SignsFor(k, expected)
             /\ tab' = [tab EXCEPT ![t].pc = "send", ![t].row = k]
     \/ /\ expected # "seed"
        /\ \A k \in DOMAIN keys : ~SignsFor(k, expected)
        /\ Idle(t, TRUE)
  /\ UNCHANGED <<account, keys, activated, granted>>

\* sendProducerCall and sendProducerBatch: what the operation is signed with.
Sender(t) == IF tab[t].row = 0 THEN "seed" ELSE keys[tab[t].row].approval.account

Send(t) ==
  /\ At(t, "send")
  /\ Idle(t, FALSE)
  /\ UNCHANGED <<account, keys, activated, granted>>

-----------------------------------------------------------------------------

Next ==
  \E t \in Tabs :
    \/ TabCloses(t) \/ RequestFails(t) \/ Link(t) \/ Resume(t) \/ RegisterPasskey(t) \/ CreateAccount(t)
    \/ Prepare(t) \/ RevokePending(t) \/ InsertPending(t) \/ Approve(t)
    \/ Complete(t) \/ RevokeActive(t) \/ Activate(t) \/ Revoke(t)
    \/ ReadProducer(t) \/ Resolve(t) \/ Send(t)

Spec == Init /\ [][Next]_vars

-----------------------------------------------------------------------------
(* Properties *)

Accounts == Wallets \cup {"seed", "created"}

\* Rows have their declared types: a key is of some account, approved or not.
TypeOK ==
  /\ account \in Accounts \cup {"none"}
  /\ keys \in Seq([account : Accounts, status : {"pending", "active", "revoked"},
                   approval : [key : 0 .. MaxKeys, account : Wallets \cup {"none"}]])
  /\ Len(keys) <= MaxKeys
  /\ activated \in Seq(1 .. Len(keys)) /\ granted \in 0 .. Len(keys)
  /\ tab \in [Tabs ->
       [pc : {"idle", "create", "revokePending", "insert", "prepared", "approved",
              "revokeActive", "activate", "resolve", "send"},
        wallet : Wallets \cup {"none"}, key : 0 .. Len(keys),
        row : 0 .. Len(keys), account : Accounts \cup {"none"}, refused : BOOLEAN]]

\* A key becomes active only with its owner's approval of that key for that
\* account, however the grants of several tabs overlap: complete compares the
\* key it activates with the one that was approved.
ActiveKeyIsApproved ==
  \A k \in With("active") :
    keys[k].approval = [key |-> k, account |-> keys[k].account]

\* An operation comes from the account the producer's row named when the
\* request read it, though wallets are linked and keys rotated meanwhile: the
\* contract takes the call for its sender, the producer of the lot.
SenderIsProducer ==
  \A t \in Tabs : At(t, "send") => Sender(t) = tab[t].account

\* Where the status route asks for no grant the backend can sign, unless an
\* account was linked after the last completed grant: overlapping grants, a
\* revocation, and a stop between revoking the active keys and activating the
\* new one, never leave a producer whose calls are refused and who is not asked.
GrantSignsOrIsAskedFor ==
  \/ NeedsGrant \/ account = "seed"
  \/ granted # 0 /\ keys[granted].account # account
  \/ \E k \in DOMAIN keys : SignsFor(k, account)
=============================================================================
