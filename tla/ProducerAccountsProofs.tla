----------------------- MODULE ProducerAccountsProofs -----------------------
(***************************************************************************)
(* Proofs about session keys, for any number of tabs, wallets and keys.    *)
(***************************************************************************)
EXTENDS ProducerAccounts, SequenceTheorems, TLAPS

Key == [account : Accounts, status : {"pending", "active", "revoked"},
        approval : [key : 0 .. MaxKeys, account : Wallets \cup {"none"}]]

Approved(k) == [key |-> k, account |-> keys[k].account]

\* A grant under way knows the key it is about, the key's account and, once its
\* owner has approved, that the wallet is the account's.
GrantsInv ==
  \A t \in Tabs :
    /\ tab[t].pc \in {"revokePending", "insert", "resolve"} => tab[t].account # "none"
    /\ tab[t].pc \in {"prepared", "approved", "revokeActive", "activate"} =>
         tab[t].key \in DOMAIN keys /\ keys[tab[t].key].account = tab[t].account
    /\ tab[t].pc \in {"approved", "revokeActive", "activate"} =>
         tab[t].wallet = tab[t].account
    /\ tab[t].pc \in {"revokeActive", "activate"} => tab[t].row = tab[t].key

\* An approval is of the row's own key and account, and active rows have one.
ApprovalsInv ==
  \A k \in DOMAIN keys :
    /\ keys[k].approval \in {NoApproval, Approved(k)}
    /\ keys[k].status = "active" => keys[k].approval = Approved(k)

\* What an operation is signed with was of the producer's account when it was
\* resolved; no later grant changes the account of an approval.
SendsInv ==
  \A t \in Tabs : At(t, "send") =>
    \/ tab[t].row = 0 /\ tab[t].account = "seed"
    \/ /\ tab[t].row \in DOMAIN keys
       /\ keys[tab[t].row].account = tab[t].account
       /\ keys[tab[t].row].approval = Approved(tab[t].row)

\* The last grant was the last activation, and no key outlives it: where it is
\* not active none is.
GrantedInv ==
  /\ granted # 0 => Len(activated) > 0 /\ activated[Len(activated)] = granted
  /\ granted = 0 \/ keys[granted].status # "active" => With("active") = {}

KeysInv == TypeOK /\ GrantsInv /\ ApprovalsInv /\ SendsInv /\ GrantedInv

LEMMA InitInv == Init => KeysInv
<1>. SUFFICES ASSUME Init PROVE KeysInv
  OBVIOUS
<1>1. TypeOK
  <2>1. keys \in Seq(Key) /\ activated \in Seq(1 .. Len(keys)) /\ Len(keys) <= MaxKeys
    BY AccountsAssumption DEF Init, Key
  <2>. QED  BY <2>1 DEF Init, TypeOK, Key, Closed, Accounts
<1>2. GrantsInv /\ ApprovalsInv /\ SendsInv /\ GrantedInv
  BY DEF Init, GrantsInv, ApprovalsInv, SendsInv, GrantedInv, Closed, At, With
<1>. QED  BY <1>1, <1>2 DEF KeysInv

-----------------------------------------------------------------------------
(* What an update makes of the rows *)

LEMMA RevokedRows ==
  ASSUME TypeOK, NEW K
  PROVE  /\ Revoked(K) \in Seq(Key) /\ Len(Revoked(K)) = Len(keys)
         /\ DOMAIN Revoked(K) = DOMAIN keys
         /\ \A k \in DOMAIN keys :
              /\ Revoked(K)[k].account = keys[k].account
              /\ Revoked(K)[k].approval = keys[k].approval
              /\ Revoked(K)[k].status = IF k \in K THEN "revoked" ELSE keys[k].status
<1>1. keys \in Seq(Key) /\ DOMAIN keys = 1 .. Len(keys) /\ Len(keys) \in Nat
  BY DEF TypeOK, Key
<1>2. \A k \in DOMAIN keys : keys[k] \in Key
  BY <1>1
<1>3. \A k \in DOMAIN keys : Revoked(K)[k] \in Key
  BY <1>2 DEF Revoked, Key
<1>4. DOMAIN Revoked(K) = 1 .. Len(keys)
  BY <1>1 DEF Revoked
<1>5. Revoked(K) \in [1 .. Len(keys) -> Key]
  BY <1>1, <1>3 DEF Revoked
<1>6. Revoked(K) \in Seq(Key) /\ Len(Revoked(K)) = Len(keys)
  BY <1>1, <1>4, <1>5, IsASeq, LenProperties
<1>7. \A k \in DOMAIN keys :
        /\ Revoked(K)[k].account = keys[k].account
        /\ Revoked(K)[k].approval = keys[k].approval
        /\ Revoked(K)[k].status = IF k \in K THEN "revoked" ELSE keys[k].status
  BY <1>2 DEF Revoked, Key
<1>. QED  BY <1>1, <1>4, <1>6, <1>7

-----------------------------------------------------------------------------
(* Steps that change a tab, or the account, and no key *)

TabRow(n) ==
  [pc : {"idle", "create", "revokePending", "insert", "prepared", "approved",
         "revokeActive", "activate", "resolve", "send"},
   wallet : Wallets \cup {"none"}, key : 0 .. n,
   row : 0 .. n, account : Accounts \cup {"none"}, refused : BOOLEAN]

\* One tab moves, to a place where it promises what the invariant asks of it.
LEMMA TabStep ==
  ASSUME KeysInv, NEW t \in Tabs, NEW r \in TabRow(Len(keys)),
         account' \in Accounts \cup {"none"}, UNCHANGED <<keys, activated, granted>>,
         tab' = [tab EXCEPT ![t] = r],
         r.pc \in {"revokePending", "insert", "resolve"} => r.account # "none",
         r.pc \in {"prepared", "approved", "revokeActive", "activate"} =>
           r.key \in DOMAIN keys /\ keys[r.key].account = r.account,
         r.pc \in {"approved", "revokeActive", "activate"} => r.wallet = r.account,
         r.pc \in {"revokeActive", "activate"} => r.row = r.key,
         r.pc = "send" =>
           \/ r.row = 0 /\ r.account = "seed"
           \/ /\ r.row \in DOMAIN keys
              /\ keys[r.row].account = r.account
              /\ keys[r.row].approval = Approved(r.row)
  PROVE  KeysInv'
<1>1. tab \in [Tabs -> TabRow(Len(keys))]
  BY DEF KeysInv, TypeOK, TabRow
<1>2. tab' \in [Tabs -> TabRow(Len(keys))] /\ tab'[t] = r
      /\ \A u \in Tabs \ {t} : tab'[u] = tab[u]
  BY <1>1
<1>3. TypeOK'
  BY <1>2 DEF KeysInv, TypeOK, TabRow
<1>4. GrantsInv'
  BY <1>2 DEF KeysInv, GrantsInv
<1>5. ApprovalsInv'
  BY DEF KeysInv, ApprovalsInv, Approved
<1>6. SendsInv'
  BY <1>2 DEF KeysInv, SendsInv, Approved, At
<1>7. GrantedInv'
  BY DEF KeysInv, GrantedInv, With
<1>. QED  BY <1>3, <1>4, <1>5, <1>6, <1>7 DEF KeysInv

LEMMA SendRow ==
  ASSUME NEW n \in Nat, NEW old \in TabRow(n), NEW k \in 0 .. n
  PROVE  [old EXCEPT !.pc = "send", !.row = k] \in TabRow(n)
BY DEF TabRow

\* A request that is answered leaves its tab as it was opened, but for the wallet.
LEMMA IdleRow ==
  ASSUME NEW n \in Nat, NEW old \in TabRow(n), NEW refused \in BOOLEAN
  PROVE  /\ [Closed EXCEPT !.wallet = old.wallet, !.refused = refused] \in TabRow(n)
         /\ [Closed EXCEPT !.wallet = old.wallet, !.refused = refused].pc = "idle"
<1>1. Closed \in TabRow(n) /\ Closed.pc = "idle"
  BY DEF TabRow, Closed
<1>2. old.wallet \in Wallets \cup {"none"}
  BY DEF TabRow
<1>3. [Closed EXCEPT !.wallet = old.wallet, !.refused = refused] \in TabRow(n)
  BY <1>1, <1>2 DEF TabRow
<1>4. [Closed EXCEPT !.wallet = old.wallet, !.refused = refused].pc = "idle"
  BY <1>1 DEF TabRow
<1>. QED  BY <1>3, <1>4

LEMMA TabActions ==
  ASSUME KeysInv, NEW t \in Tabs,
         \/ TabCloses(t) \/ Link(t) \/ Resume(t) \/ RegisterPasskey(t)
         \/ CreateAccount(t) \/ Prepare(t) \/ Approve(t) \/ Complete(t)
         \/ ReadProducer(t) \/ Resolve(t) \/ Send(t) \/ RequestFails(t)
  PROVE  KeysInv'
<1>. DEFINE n == Len(keys)
<1>1. n \in Nat /\ DOMAIN keys = 1 .. n
  BY DEF KeysInv, TypeOK
<1>2. tab \in [Tabs -> TabRow(n)] /\ tab[t] \in TabRow(n)
  BY DEF KeysInv, TypeOK, TabRow
<1>3. account \in Accounts \cup {"none"}
  BY DEF KeysInv, TypeOK
<1>. DEFINE Promised(r) ==
       /\ r \in TabRow(n)
       /\ r.pc \in {"revokePending", "insert", "resolve"} => r.account # "none"
       /\ r.pc \in {"prepared", "approved", "revokeActive", "activate"} =>
            r.key \in DOMAIN keys /\ keys[r.key].account = r.account
       /\ r.pc \in {"approved", "revokeActive", "activate"} => r.wallet = r.account
       /\ r.pc \in {"revokeActive", "activate"} => r.row = r.key
       /\ r.pc = "send" =>
            \/ r.row = 0 /\ r.account = "seed"
            \/ /\ r.row \in DOMAIN keys
               /\ keys[r.row].account = r.account
               /\ keys[r.row].approval = Approved(r.row)
<1>4. ASSUME NEW r, Promised(r), tab' = [tab EXCEPT ![t] = r],
             account' \in Accounts \cup {"none"}, UNCHANGED <<keys, activated, granted>>
      PROVE  KeysInv'
  BY <1>4, TabStep
<1>. HIDE DEF Promised
<1>5. CASE TabCloses(t)
  <2>1. Promised(Closed)
    BY <1>1, <1>5 DEF Promised, TabCloses, Closed, TabRow
  <2>. QED  BY <1>3, <1>4, <1>5, <2>1 DEF TabCloses
<1>6. CASE Link(t)
  <2>1. PICK w \in Wallets : account' = w /\ tab' = [tab EXCEPT ![t].wallet = w]
    BY <1>6 DEF Link
  <2>. DEFINE r == [tab[t] EXCEPT !.wallet = w]
  <2>2. Promised(r)
    BY <1>1, <1>2, <1>6 DEF Promised, Link, At, TabRow
  <2>3. tab' = [tab EXCEPT ![t] = r]
    BY <2>1, <1>2
  <2>. QED  BY <1>4, <1>6, <2>1, <2>2, <2>3 DEF Link, Accounts
<1>7. CASE Resume(t)
  <2>. DEFINE r == [tab[t] EXCEPT !.wallet = account]
  <2>1. Promised(r)
    BY <1>1, <1>2, <1>7 DEF Promised, Resume, At, TabRow
  <2>2. tab' = [tab EXCEPT ![t] = r]
    BY <1>7, <1>2 DEF Resume
  <2>. QED  BY <1>3, <1>4, <1>7, <2>1, <2>2 DEF Resume
<1>8. CASE RegisterPasskey(t)
  <2>. DEFINE r == [tab[t] EXCEPT !.pc = "create"]
  <2>1. Promised(r)
    BY <1>1, <1>2, <1>8 DEF Promised, RegisterPasskey, At, TabRow
  <2>2. tab' = [tab EXCEPT ![t] = r]
    BY <1>8, <1>2 DEF RegisterPasskey, Goto
  <2>. QED  BY <1>3, <1>4, <1>8, <2>1, <2>2 DEF RegisterPasskey
<1>. DEFINE Back(refused) == [Closed EXCEPT !.wallet = tab[t].wallet, !.refused = refused]
<1>9. ASSUME NEW refused \in BOOLEAN
      PROVE  Promised(Back(refused))
  <2>1. Back(refused) \in TabRow(n) /\ Back(refused).pc = "idle"
    BY <1>1, <1>2, <1>9, IdleRow
  <2>. HIDE DEF Back
  <2>. QED  BY <1>9, <2>1 DEF Promised
<1>10. CASE CreateAccount(t)
  <2>1. tab' = [tab EXCEPT ![t] = Back(tab[t].refused)] /\ tab[t].refused \in BOOLEAN
    BY <1>2, <1>10 DEF CreateAccount, Idle, TabRow
  <2>2. Promised(Back(tab[t].refused))
    BY <1>9, <1>10, <2>1 DEF CreateAccount, At
  <2>. HIDE DEF Back
  <2>. QED  BY <1>4, <1>10, <2>1, <2>2 DEF CreateAccount, Accounts
<1>11. CASE Prepare(t)
  <2>. DEFINE r == [tab[t] EXCEPT !.pc = "revokePending", !.account = account]
  <2>1. Promised(r)
    BY <1>1, <1>2, <1>3, <1>11 DEF Promised, Prepare, At, TabRow
  <2>2. tab' = [tab EXCEPT ![t] = r]
    BY <1>2, <1>11 DEF Prepare
  <2>. QED  BY <1>3, <1>4, <1>11, <2>1, <2>2 DEF Prepare
<1>12. CASE Approve(t)
  <2>1. CASE tab[t].wallet = tab[t].account /\ Goto(t, "approved")
    <3>. DEFINE r == [tab[t] EXCEPT !.pc = "approved"]
    <3>1. tab[t].key \in DOMAIN keys /\ keys[tab[t].key].account = tab[t].account
      BY <1>12 DEF KeysInv, GrantsInv, Approve, At
    <3>2. Promised(r)
      BY <1>1, <1>2, <1>12, <2>1, <3>1 DEF Promised, Approve, At, TabRow
    <3>3. tab' = [tab EXCEPT ![t] = r]
      BY <1>2, <2>1 DEF Goto
    <3>. QED  BY <1>3, <1>4, <1>12, <3>2, <3>3 DEF Approve
  <2>2. CASE Idle(t, tab[t].refused)
    <3>1. tab' = [tab EXCEPT ![t] = Back(tab[t].refused)] /\ tab[t].refused \in BOOLEAN
      BY <1>2, <2>2 DEF Idle, TabRow
    <3>2. Promised(Back(tab[t].refused))
      BY <1>9, <1>12, <3>1 DEF Approve, At
    <3>. HIDE DEF Back
    <3>. QED  BY <1>3, <1>4, <1>12, <3>1, <3>2 DEF Approve
  <2>. QED  BY <1>12, <2>1, <2>2 DEF Approve
<1>13. CASE Complete(t)
  <2>1. CASE tab' = [tab EXCEPT ![t].pc = "revokeActive", ![t].row = tab[t].key]
    <3>. DEFINE r == [tab[t] EXCEPT !.pc = "revokeActive", !.row = tab[t].key]
    <3>1. /\ tab[t].key \in DOMAIN keys /\ keys[tab[t].key].account = tab[t].account
          /\ tab[t].wallet = tab[t].account
      BY <1>13 DEF KeysInv, GrantsInv, Complete, At
    <3>2. Promised(r)
      BY <1>1, <1>2, <1>13, <3>1 DEF Promised, Complete, At, TabRow
    <3>3. tab' = [tab EXCEPT ![t] = r]
      BY <1>2, <2>1
    <3>. QED  BY <1>3, <1>4, <1>13, <3>2, <3>3 DEF Complete
  <2>2. CASE Idle(t, tab[t].refused)
    <3>1. tab' = [tab EXCEPT ![t] = Back(tab[t].refused)] /\ tab[t].refused \in BOOLEAN
      BY <1>2, <2>2 DEF Idle, TabRow
    <3>2. Promised(Back(tab[t].refused))
      BY <1>9, <1>13, <3>1 DEF Complete, At
    <3>. HIDE DEF Back
    <3>. QED  BY <1>3, <1>4, <1>13, <3>1, <3>2 DEF Complete
  <2>. QED  BY <1>13, <2>1, <2>2 DEF Complete
<1>14. CASE ReadProducer(t)
  <2>. DEFINE r == [tab[t] EXCEPT !.pc = "resolve", !.account = account]
  <2>1. Promised(r)
    BY <1>1, <1>2, <1>3, <1>14 DEF Promised, ReadProducer, At, TabRow
  <2>2. tab' = [tab EXCEPT ![t] = r]
    BY <1>2, <1>14 DEF ReadProducer
  <2>. QED  BY <1>3, <1>4, <1>14, <2>1, <2>2 DEF ReadProducer
<1>15. CASE Resolve(t)
  <2>1. CASE /\ tab[t].account = "seed"
             /\ tab' = [tab EXCEPT ![t].pc = "send", ![t].row = 0]
    <3>. DEFINE r == [tab[t] EXCEPT !.pc = "send", !.row = 0]
    <3>6. 0 \in 0 .. n
      BY <1>1
    <3>1. r \in TabRow(n)
      BY <1>1, <1>2, <3>6, SendRow
    <3>5. r.pc = "send" /\ r.row = 0 /\ r.account = "seed"
      BY <1>2, <2>1 DEF TabRow
    <3>2. tab[t].pc = "resolve"
      BY <1>15 DEF Resolve, At
    <3>3. tab' = [tab EXCEPT ![t] = r]
      BY <1>2, <2>1
    <3>. HIDE DEF r
    <3>4. Promised(r)
      BY <3>1, <3>2, <3>5 DEF Promised
    <3>. QED  BY <1>3, <1>4, <1>15, <3>3, <3>4 DEF Resolve
  <2>2. ASSUME NEW k \in DOMAIN keys, SignsFor(k, tab[t].account),
               tab' = [tab EXCEPT ![t].pc = "send", ![t].row = k]
        PROVE  KeysInv'
    <3>. DEFINE r == [tab[t] EXCEPT !.pc = "send", !.row = k]
    <3>1. keys[k].status = "active" /\ keys[k].account = tab[t].account
      BY <2>2 DEF SignsFor, LatestActive, With
    <3>2. keys[k].approval = Approved(k)
      BY <3>1 DEF KeysInv, ApprovalsInv
    <3>8. k \in 0 .. n
      BY <1>1
    <3>3. r \in TabRow(n)
      BY <1>1, <1>2, <3>8, SendRow
    <3>7. r.pc = "send" /\ r.row = k /\ r.account = tab[t].account
      BY <1>2 DEF TabRow
    <3>4. tab[t].pc = "resolve"
      BY <1>15 DEF Resolve, At
    <3>5. tab' = [tab EXCEPT ![t] = r]
      BY <1>2, <2>2
    <3>. HIDE DEF r
    <3>6. Promised(r)
      BY <3>1, <3>2, <3>3, <3>4, <3>7 DEF Promised
    <3>. QED  BY <1>3, <1>4, <1>15, <3>5, <3>6 DEF Resolve
  <2>3. CASE Idle(t, TRUE)
    <3>1. tab' = [tab EXCEPT ![t] = Back(TRUE)]
      BY <2>3 DEF Idle
    <3>2. Promised(Back(TRUE))
      BY <1>9, <1>15 DEF Resolve, At
    <3>. HIDE DEF Back
    <3>. QED  BY <1>3, <1>4, <1>15, <3>1, <3>2 DEF Resolve
  <2>. QED  BY <1>15, <2>1, <2>2, <2>3 DEF Resolve
<1>16. CASE Send(t)
  <2>1. tab' = [tab EXCEPT ![t] = Back(FALSE)]
    BY <1>16 DEF Send, Idle
  <2>2. Promised(Back(FALSE))
    BY <1>9, <1>16 DEF Send, At
  <2>. HIDE DEF Back
  <2>. QED  BY <1>3, <1>4, <1>16, <2>1, <2>2 DEF Send
<1>17. CASE RequestFails(t)
  <2>1. tab' = [tab EXCEPT ![t] = Back(tab[t].refused)] /\ tab[t].refused \in BOOLEAN
    BY <1>2, <1>17 DEF RequestFails, Idle, TabRow
  <2>2. Promised(Back(tab[t].refused))
    BY <1>9, <2>1
  <2>. HIDE DEF Back
  <2>. QED  BY <1>3, <1>4, <1>17, <2>1, <2>2 DEF RequestFails
<1>. QED
  BY <1>5, <1>6, <1>7, <1>8, <1>10, <1>11, <1>12, <1>13, <1>14, <1>15, <1>16, <1>17

-----------------------------------------------------------------------------
(* Steps that change a key *)

\* Revoking rows keeps what the grants, the approvals and the senders rely on.
LEMMA RevokeStep ==
  ASSUME KeysInv, NEW K, keys' = Revoked(K)
  PROVE  /\ keys' \in Seq(Key) /\ Len(keys') = Len(keys) /\ DOMAIN keys' = DOMAIN keys
         /\ ApprovalsInv'
         /\ \A k \in DOMAIN keys :
              /\ keys'[k].account = keys[k].account
              /\ keys'[k].approval = keys[k].approval
              /\ keys'[k].status = IF k \in K THEN "revoked" ELSE keys[k].status
<1>1. TypeOK
  BY DEF KeysInv
<1>2. /\ keys' \in Seq(Key) /\ Len(keys') = Len(keys) /\ DOMAIN keys' = DOMAIN keys
      /\ \A k \in DOMAIN keys :
           /\ keys'[k].account = keys[k].account
           /\ keys'[k].approval = keys[k].approval
           /\ keys'[k].status = IF k \in K THEN "revoked" ELSE keys[k].status
  BY <1>1, RevokedRows
<1>3. ApprovalsInv'
  <2>. SUFFICES ASSUME NEW k \in DOMAIN keys
                PROVE  /\ keys'[k].approval \in {NoApproval, Approved(k)'}
                       /\ keys'[k].status = "active" => keys'[k].approval = Approved(k)'
    BY <1>2 DEF ApprovalsInv
  <2>1. Approved(k)' = Approved(k)
    BY <1>2 DEF Approved
  <2>. QED  BY <1>2, <2>1 DEF KeysInv, ApprovalsInv
<1>. QED  BY <1>2, <1>3

LEMMA PcRow ==
  ASSUME NEW n \in Nat, NEW old \in TabRow(n), NEW pc \in {"insert", "activate"}
  PROVE  [old EXCEPT !.pc = pc] \in TabRow(n)
BY DEF TabRow

LEMMA Revoking ==
  ASSUME KeysInv, NEW t \in Tabs,
         RevokePending(t) \/ RevokeActive(t) \/ Revoke(t)
  PROVE  KeysInv'
<1>1. PICK status \in {"pending", "active"} :
        /\ keys' = Revoked(With(status))
        /\ UNCHANGED <<account, activated>>
        /\ \/ /\ granted' = granted /\ status = "pending"
              /\ At(t, "revokePending") /\ Goto(t, "insert")
           \/ granted' = granted /\ At(t, "revokeActive") /\ Goto(t, "activate")
           \/ granted' = 0 /\ status = "active" /\ UNCHANGED tab
  <2>1. CASE RevokePending(t)
    BY <2>1 DEF RevokePending
  <2>2. CASE RevokeActive(t)
    BY <2>2 DEF RevokeActive
  <2>3. CASE Revoke(t)
    BY <2>3 DEF Revoke
  <2>. QED  BY <2>1, <2>2, <2>3
<1>2. /\ keys' \in Seq(Key) /\ Len(keys') = Len(keys) /\ DOMAIN keys' = DOMAIN keys
      /\ ApprovalsInv'
      /\ \A k \in DOMAIN keys :
           /\ keys'[k].account = keys[k].account
           /\ keys'[k].approval = keys[k].approval
           /\ keys'[k].status =
                IF k \in With(status) THEN "revoked" ELSE keys[k].status
  BY <1>1, RevokeStep
<1>3. Len(keys) \in Nat /\ tab \in [Tabs -> TabRow(Len(keys))]
  BY DEF KeysInv, TypeOK, TabRow
<1>. DEFINE MovesOn(u) ==
       \/ tab'[u] = tab[u]
       \/ /\ \/ tab[u].pc = "revokePending" /\ tab'[u].pc = "insert"
             \/ tab[u].pc = "revokeActive" /\ tab'[u].pc = "activate"
          /\ tab'[u].wallet = tab[u].wallet /\ tab'[u].key = tab[u].key
          /\ tab'[u].row = tab[u].row /\ tab'[u].account = tab[u].account
<1>4. tab' \in [Tabs -> TabRow(Len(keys))] /\ \A u \in Tabs : MovesOn(u)
  <2>1. CASE UNCHANGED tab
    BY <1>3, <2>1
  <2>2. ASSUME NEW pc \in {"insert", "activate"},
               tab' = [tab EXCEPT ![t].pc = pc],
               \/ tab[t].pc = "revokePending" /\ pc = "insert"
               \/ tab[t].pc = "revokeActive" /\ pc = "activate"
        PROVE  tab' \in [Tabs -> TabRow(Len(keys))] /\ \A u \in Tabs : MovesOn(u)
    <3>. DEFINE r == [tab[t] EXCEPT !.pc = pc]
    <3>1. r \in TabRow(Len(keys))
      BY <1>3, PcRow
    <3>2. r.pc = pc /\ r.wallet = tab[t].wallet /\ r.key = tab[t].key
          /\ r.row = tab[t].row /\ r.account = tab[t].account
      BY <1>3 DEF TabRow
    <3>3. tab' = [tab EXCEPT ![t] = r]
      BY <1>3, <2>2
    <3>. HIDE DEF r
    <3>4. tab'[t] = r /\ \A u \in Tabs \ {t} : tab'[u] = tab[u]
      BY <1>3, <3>3
    <3>5. tab' \in [Tabs -> TabRow(Len(keys))]
      BY <1>3, <3>1, <3>3
    <3>. QED  BY <2>2, <3>2, <3>4, <3>5
  <2>. HIDE DEF MovesOn
  <2>3. CASE At(t, "revokePending") /\ Goto(t, "insert")
    BY <2>2, <2>3 DEF At, Goto
  <2>4. CASE At(t, "revokeActive") /\ Goto(t, "activate")
    BY <2>2, <2>4 DEF At, Goto
  <2>. QED  BY <1>1, <2>1, <2>3, <2>4
<1>5. TypeOK'
  BY <1>1, <1>2, <1>4 DEF KeysInv, TypeOK, TabRow, Key
<1>6. GrantsInv'
  <2>. SUFFICES ASSUME NEW u \in Tabs
                PROVE
    /\ tab'[u].pc \in {"revokePending", "insert", "resolve"} => tab'[u].account # "none"
    /\ tab'[u].pc \in {"prepared", "approved", "revokeActive", "activate"} =>
         tab'[u].key \in DOMAIN keys' /\ keys'[tab'[u].key].account = tab'[u].account
    /\ tab'[u].pc \in {"approved", "revokeActive", "activate"} =>
         tab'[u].wallet = tab'[u].account
    /\ tab'[u].pc \in {"revokeActive", "activate"} => tab'[u].row = tab'[u].key
    BY DEF GrantsInv
  <2>. QED  BY <1>2, <1>4 DEF KeysInv, GrantsInv
<1>7. SendsInv'
  <2>. SUFFICES ASSUME NEW u \in Tabs, tab'[u].pc = "send"
                PROVE  \/ tab'[u].row = 0 /\ tab'[u].account = "seed"
                       \/ /\ tab'[u].row \in DOMAIN keys'
                          /\ keys'[tab'[u].row].account = tab'[u].account
                          /\ keys'[tab'[u].row].approval =
                               [key |-> tab'[u].row, account |-> keys'[tab'[u].row].account]
    BY DEF SendsInv, At, Approved
  <2>1. tab'[u] = tab[u]
    BY <1>4
  <2>2. \/ tab[u].row = 0 /\ tab[u].account = "seed"
        \/ /\ tab[u].row \in DOMAIN keys
           /\ keys[tab[u].row].account = tab[u].account
           /\ keys[tab[u].row].approval =
                [key |-> tab[u].row, account |-> keys[tab[u].row].account]
    BY <2>1 DEF KeysInv, SendsInv, At, Approved
  <2>. QED  BY <1>2, <2>1, <2>2
<1>8. GrantedInv'
  <2>1. granted \in 0 .. Len(keys) /\ granted' \in {0, granted}
    BY <1>1 DEF KeysInv, TypeOK
  <2>2. \A k \in DOMAIN keys : keys'[k].status = "active" => keys[k].status = "active"
    BY <1>2
  <2>3. CASE status = "active"
    <3>1. With("active")' = {}
      BY <1>2, <2>3 DEF With
    <3>. QED  BY <1>1, <2>1, <3>1 DEF KeysInv, GrantedInv
  <2>4. CASE status = "pending" /\ granted' = granted
    <3>1. granted # 0 /\ keys[granted].status = "active" => keys'[granted].status = "active"
      BY <1>2, <1>3, <2>1, <2>4 DEF With
    <3>. QED  BY <1>1, <1>2, <2>2, <2>4, <3>1 DEF KeysInv, GrantedInv, With
  <2>. QED  BY <1>1, <2>3, <2>4
<1>. QED  BY <1>2, <1>5, <1>6, <1>7, <1>8 DEF KeysInv

LEMMA PreparedRow ==
  ASSUME NEW n \in Nat, NEW old \in TabRow(n), NEW k \in 0 .. n
  PROVE  [old EXCEPT !.pc = "prepared", !.key = k] \in TabRow(n)
BY DEF TabRow

LEMMA Inserting ==
  ASSUME KeysInv, NEW t \in Tabs, InsertPending(t)
  PROVE  KeysInv'
<1>. DEFINE n == Len(keys)
            k == Len(keys) + 1
            new == [account |-> tab[t].account, status |-> "pending", approval |-> NoApproval]
            r == [tab[t] EXCEPT !.pc = "prepared", !.key = k]
<1>1. n \in Nat /\ DOMAIN keys = 1 .. n /\ keys \in Seq(Key)
      /\ tab \in [Tabs -> TabRow(n)] /\ activated \in Seq(1 .. n) /\ granted \in 0 .. n
      /\ account \in Accounts \cup {"none"}
  BY DEF KeysInv, TypeOK, TabRow, Key
<1>2. tab[t].account \in Accounts
  BY <1>1 DEF KeysInv, GrantsInv, InsertPending, At, TabRow
<1>3. new \in Key
  BY <1>2, AccountsAssumption DEF Key, NoApproval
<1>4. /\ keys' = Append(keys, new) /\ n < MaxKeys
      /\ tab' = [tab EXCEPT ![t] = r]
      /\ UNCHANGED <<account, activated, granted>>
  BY <1>1 DEF InsertPending
<1>5. k \in Nat /\ n \in 0 .. k /\ 0 .. n \subseteq 0 .. k /\ 1 .. n \subseteq 1 .. k
      /\ k \in 1 .. k /\ k <= MaxKeys /\ \A i \in 1 .. k : i \in 1 .. n \/ i = k
  BY <1>1, <1>4, AccountsAssumption
<1>6. /\ keys' \in Seq(Key) /\ Len(keys') = k /\ DOMAIN keys' = 1 .. k
      /\ \A i \in 1 .. n : keys'[i] = keys[i]
      /\ keys'[k] = new
  <2>1. /\ keys' \in Seq(Key) /\ Len(keys') = k
        /\ \A i \in 1 .. n : keys'[i] = keys[i]
        /\ keys'[k] = new
    BY <1>1, <1>3, <1>4, AppendProperties
  <2>. HIDE DEF new, k
  <2>. QED  BY <2>1
<1>7. TabRow(n) \subseteq TabRow(k)
  BY <1>5 DEF TabRow
<1>8. r \in TabRow(k) /\ r.pc = "prepared" /\ r.key = k /\ r.account = tab[t].account
  <2>1. tab[t] \in TabRow(k) /\ k \in 0 .. k
    BY <1>1, <1>5, <1>7
  <2>2. r \in TabRow(k)
    BY <1>5, <2>1, PreparedRow
  <2>. QED  BY <2>1, <2>2 DEF TabRow
<1>. HIDE DEF r
<1>9. /\ tab' \in [Tabs -> TabRow(k)] /\ tab'[t] = r
      /\ \A u \in Tabs \ {t} : tab'[u] = tab[u]
  BY <1>1, <1>4, <1>7, <1>8
<1>10. activated' \in Seq(1 .. k)
  BY <1>1, <1>4, <1>5
<1>11. new.account = tab[t].account /\ new.status = "pending" /\ new.approval = NoApproval
  OBVIOUS
<1>. HIDE DEF new, k, n
<1>12. TypeOK'
  BY <1>1, <1>4, <1>5, <1>6, <1>9, <1>10 DEF TypeOK, TabRow, Key
<1>13. GrantsInv'
  <2>. SUFFICES ASSUME NEW u \in Tabs
                PROVE
    /\ tab'[u].pc \in {"revokePending", "insert", "resolve"} => tab'[u].account # "none"
    /\ tab'[u].pc \in {"prepared", "approved", "revokeActive", "activate"} =>
         tab'[u].key \in DOMAIN keys' /\ keys'[tab'[u].key].account = tab'[u].account
    /\ tab'[u].pc \in {"approved", "revokeActive", "activate"} =>
         tab'[u].wallet = tab'[u].account
    /\ tab'[u].pc \in {"revokeActive", "activate"} => tab'[u].row = tab'[u].key
    BY DEF GrantsInv
  <2>1. CASE u = t
    BY <1>5, <1>6, <1>8, <1>9, <1>11, <2>1
  <2>2. CASE u # t
    BY <1>1, <1>5, <1>6, <1>9, <2>2 DEF KeysInv, GrantsInv
  <2>. QED  BY <2>1, <2>2
<1>14. ApprovalsInv'
  <2>. SUFFICES ASSUME NEW i \in 1 .. k
                PROVE  /\ keys'[i].approval \in {NoApproval, Approved(i)'}
                       /\ keys'[i].status = "active" => keys'[i].approval = Approved(i)'
    BY <1>6 DEF ApprovalsInv
  <2>1. CASE i \in 1 .. n
    <3>1. Approved(i)' = Approved(i)
      BY <1>6, <2>1 DEF Approved
    <3>. QED  BY <1>1, <1>6, <2>1, <3>1 DEF KeysInv, ApprovalsInv
  <2>2. CASE i = k
    BY <1>6, <1>11, <2>2
  <2>. QED  BY <1>5, <2>1, <2>2
<1>15. SendsInv'
  <2>. SUFFICES ASSUME NEW u \in Tabs, tab'[u].pc = "send"
                PROVE  \/ tab'[u].row = 0 /\ tab'[u].account = "seed"
                       \/ /\ tab'[u].row \in DOMAIN keys'
                          /\ keys'[tab'[u].row].account = tab'[u].account
                          /\ keys'[tab'[u].row].approval =
                               [key |-> tab'[u].row, account |-> keys'[tab'[u].row].account]
    BY DEF SendsInv, At, Approved
  <2>1. tab'[u] = tab[u]
    BY <1>8, <1>9
  <2>2. \/ tab[u].row = 0 /\ tab[u].account = "seed"
        \/ /\ tab[u].row \in DOMAIN keys
           /\ keys[tab[u].row].account = tab[u].account
           /\ keys[tab[u].row].approval =
                [key |-> tab[u].row, account |-> keys[tab[u].row].account]
    BY <2>1 DEF KeysInv, SendsInv, At, Approved
  <2>. QED  BY <1>1, <1>5, <1>6, <2>1, <2>2
<1>16. GrantedInv'
  <2>0. granted # 0 => granted \in 1 .. n
    BY <1>1
  <2>1. granted # 0 => keys'[granted] = keys[granted]
    BY <1>6, <2>0
  <2>2. With("active")' = With("active")
    BY <1>1, <1>5, <1>6, <1>11 DEF With
  <2>. QED  BY <1>4, <2>1, <2>2 DEF KeysInv, GrantedInv
<1>. QED  BY <1>12, <1>13, <1>14, <1>15, <1>16 DEF KeysInv

LEMMA ActivatedKey ==
  ASSUME NEW old \in Key, NEW i \in 0 .. MaxKeys, NEW a \in Wallets \cup {"none"}
  PROVE  [old EXCEPT !.approval = [key |-> i, account |-> a], !.status = "active"] \in Key
BY DEF Key

LEMMA Activating ==
  ASSUME KeysInv, NEW t \in Tabs, Activate(t)
  PROVE  KeysInv'
<1>. DEFINE n == Len(keys)
            k == tab[t].row
            new == [keys[k] EXCEPT !.approval = Approval(t), !.status = "active"]
            r == [Closed EXCEPT !.wallet = tab[t].wallet, !.refused = FALSE]
<1>1. n \in Nat /\ DOMAIN keys = 1 .. n /\ keys \in Seq(Key) /\ n <= MaxKeys
      /\ tab \in [Tabs -> TabRow(n)] /\ activated \in Seq(1 .. n)
      /\ account \in Accounts \cup {"none"}
  BY DEF KeysInv, TypeOK, TabRow, Key
<1>2. /\ k \in 1 .. n /\ k = tab[t].key
      /\ keys[k].account = tab[t].wallet
  BY <1>1 DEF KeysInv, GrantsInv, Activate, At
<1>3. keys[k] \in Key
  BY <1>1, <1>2
<1>4. /\ new \in Key /\ new.account = keys[k].account /\ new.status = "active"
      /\ new.approval = Approved(k)
  <2>1. Approval(t) = [key |-> k, account |-> tab[t].wallet] /\ Approval(t) = Approved(k)
    BY <1>2 DEF Approval, Approved
  <2>2. k \in 0 .. MaxKeys /\ tab[t].wallet \in Wallets \cup {"none"}
    BY <1>1, <1>2, AccountsAssumption DEF TabRow
  <2>3. new \in Key
    BY <1>3, <2>1, <2>2, ActivatedKey
  <2>4. new.account = keys[k].account /\ new.status = "active" /\ new.approval = Approval(t)
    BY <1>3 DEF Key
  <2>. QED  BY <2>1, <2>3, <2>4
<1>5. /\ keys' = [keys EXCEPT ![k] = new]
      /\ activated' = Append(activated, k) /\ granted' = k
      /\ tab' = [tab EXCEPT ![t] = r] /\ account' = account
  BY <1>1, <1>2 DEF Activate, Idle
<1>6. r \in TabRow(n) /\ r.pc = "idle"
  BY <1>1, IdleRow
<1>. HIDE DEF new, r
<1>7. /\ keys' \in Seq(Key) /\ Len(keys') = n /\ DOMAIN keys' = 1 .. n /\ keys'[k] = new
      /\ \A i \in 1 .. n \ {k} : keys'[i] = keys[i]
  BY <1>1, <1>2, <1>4, <1>5, ExceptSeq
<1>8. \A i \in 1 .. n : keys'[i].account = keys[i].account
  BY <1>4, <1>7
<1>9. /\ tab' \in [Tabs -> TabRow(n)] /\ tab'[t] = r
      /\ \A u \in Tabs \ {t} : tab'[u] = tab[u]
  BY <1>1, <1>5, <1>6
<1>10. /\ activated' \in Seq(1 .. n) /\ Len(activated') = Len(activated) + 1
       /\ activated'[Len(activated) + 1] = k /\ Len(activated) \in Nat
  BY <1>1, <1>2, <1>5, AppendProperties
<1>. HIDE DEF n, k
<1>11. TypeOK'
  BY <1>1, <1>2, <1>5, <1>7, <1>9, <1>10 DEF TypeOK, TabRow, Key
<1>12. GrantsInv'
  <2>. SUFFICES ASSUME NEW u \in Tabs
                PROVE
    /\ tab'[u].pc \in {"revokePending", "insert", "resolve"} => tab'[u].account # "none"
    /\ tab'[u].pc \in {"prepared", "approved", "revokeActive", "activate"} =>
         tab'[u].key \in DOMAIN keys' /\ keys'[tab'[u].key].account = tab'[u].account
    /\ tab'[u].pc \in {"approved", "revokeActive", "activate"} =>
         tab'[u].wallet = tab'[u].account
    /\ tab'[u].pc \in {"revokeActive", "activate"} => tab'[u].row = tab'[u].key
    BY DEF GrantsInv
  <2>1. CASE u = t
    BY <1>6, <1>9, <2>1
  <2>2. CASE u # t
    BY <1>1, <1>7, <1>8, <1>9, <2>2 DEF KeysInv, GrantsInv
  <2>. QED  BY <2>1, <2>2
<1>13. \A i \in 1 .. n : Approved(i)' = Approved(i)
  BY <1>8 DEF Approved
<1>14. ApprovalsInv'
  <2>. SUFFICES ASSUME NEW i \in 1 .. n
                PROVE  /\ keys'[i].approval \in {NoApproval, Approved(i)}
                       /\ keys'[i].status = "active" => keys'[i].approval = Approved(i)
    BY <1>7, <1>13 DEF ApprovalsInv
  <2>1. CASE i = k
    BY <1>4, <1>7, <2>1
  <2>2. CASE i # k
    BY <1>1, <1>7, <2>2 DEF KeysInv, ApprovalsInv
  <2>. QED  BY <2>1, <2>2
<1>15. SendsInv'
  <2>. SUFFICES ASSUME NEW u \in Tabs, tab'[u].pc = "send"
                PROVE  \/ tab'[u].row = 0 /\ tab'[u].account = "seed"
                       \/ /\ tab'[u].row \in DOMAIN keys'
                          /\ keys'[tab'[u].row].account = tab'[u].account
                          /\ keys'[tab'[u].row].approval =
                               [key |-> tab'[u].row, account |-> keys'[tab'[u].row].account]
    BY DEF SendsInv, At, Approved
  <2>1. tab'[u] = tab[u]
    BY <1>6, <1>9
  <2>2. \/ tab[u].row = 0 /\ tab[u].account = "seed"
        \/ /\ tab[u].row \in 1 .. n
           /\ keys[tab[u].row].account = tab[u].account
           /\ keys[tab[u].row].approval =
                [key |-> tab[u].row, account |-> keys[tab[u].row].account]
    BY <1>1, <2>1 DEF KeysInv, SendsInv, At, Approved
  <2>3. new.approval = [key |-> k, account |-> keys[k].account]
    BY <1>4 DEF Approved
  <2>. QED  BY <1>7, <1>8, <2>1, <2>2, <2>3
<1>16. GrantedInv'
  BY <1>4, <1>5, <1>7, <1>10 DEF GrantedInv
<1>. QED  BY <1>11, <1>12, <1>14, <1>15, <1>16 DEF KeysInv

-----------------------------------------------------------------------------
(* The invariant *)

LEMMA NextInv == KeysInv /\ [Next]_vars => KeysInv'
<1>. SUFFICES ASSUME KeysInv, [Next]_vars PROVE KeysInv'
  OBVIOUS
<1>1. CASE UNCHANGED vars
  BY <1>1 DEF vars, KeysInv, TypeOK, GrantsInv, ApprovalsInv, Approved, SendsInv,
              GrantedInv, At, With
<1>2. ASSUME NEW t \in Tabs,
             \/ TabCloses(t) \/ Link(t) \/ Resume(t) \/ RegisterPasskey(t)
             \/ CreateAccount(t) \/ Prepare(t) \/ Approve(t) \/ Complete(t)
             \/ ReadProducer(t) \/ Resolve(t) \/ Send(t) \/ RequestFails(t)
      PROVE  KeysInv'
  BY <1>2, TabActions
<1>3. ASSUME NEW t \in Tabs, RevokePending(t) \/ RevokeActive(t) \/ Revoke(t)
      PROVE  KeysInv'
  BY <1>3, Revoking
<1>4. ASSUME NEW t \in Tabs, InsertPending(t)  PROVE KeysInv'
  BY <1>4, Inserting
<1>5. ASSUME NEW t \in Tabs, Activate(t)  PROVE KeysInv'
  BY <1>5, Activating
<1>. QED  BY <1>1, <1>2, <1>3, <1>4, <1>5 DEF Next

LEMMA Invariance == Spec => []KeysInv
BY InitInv, NextInv, PTL DEF Spec

\* Every state of the grants and of the rows has its declared type, for any
\* number of tabs, wallets and keys.
THEOREM AccountsTypes == Spec => []TypeOK
<1>1. KeysInv => TypeOK
  BY DEF KeysInv
<1>. QED  BY <1>1, Invariance, PTL

\* However many grants overlap, a key is active only with its owner's approval
\* of that very key for that very account: complete compares them, and nothing
\* between its reads and its last write lets another key slip in.
THEOREM ActiveKeysAreApproved == Spec => []ActiveKeyIsApproved
<1>1. KeysInv => ActiveKeyIsApproved
  BY DEF KeysInv, ApprovalsInv, ActiveKeyIsApproved, Approved, With
<1>. QED  BY <1>1, Invariance, PTL

\* What the backend sends for a producer comes from the account the request
\* read, whatever was linked, granted or revoked after it resolved the signer.
THEOREM SendersAreProducers == Spec => []SenderIsProducer
<1>1. KeysInv => SenderIsProducer
  <2>. SUFFICES ASSUME KeysInv, NEW t \in Tabs, At(t, "send")
                PROVE  Sender(t) = tab[t].account
    BY DEF SenderIsProducer
  <2>1. DOMAIN keys = 1 .. Len(keys) /\ Len(keys) \in Nat
    BY DEF KeysInv, TypeOK
  <2>2. CASE tab[t].row = 0 /\ tab[t].account = "seed"
    BY <2>2 DEF Sender
  <2>3. CASE /\ tab[t].row \in DOMAIN keys
             /\ keys[tab[t].row].account = tab[t].account
             /\ keys[tab[t].row].approval =
                  [key |-> tab[t].row, account |-> keys[tab[t].row].account]
    <3>1. tab[t].row # 0
      BY <2>1, <2>3
    <3>2. keys[tab[t].row].approval.account = tab[t].account
      BY <2>3
    <3>. QED  BY <3>1, <3>2 DEF Sender
  <2>. QED  BY <2>2, <2>3 DEF KeysInv, SendsInv, Approved
<1>. QED  BY <1>1, Invariance, PTL

\* A producer whose last completed grant is of the linked account either has a
\* key the resolver takes or is asked for a new grant, wherever the requests of
\* any number of tabs overlap, fail or stop.
THEOREM GrantsSignOrAreAskedFor == Spec => []GrantSignsOrIsAskedFor
<1>1. KeysInv => GrantSignsOrIsAskedFor
  <2>. SUFFICES ASSUME KeysInv, ~NeedsGrant, account # "seed",
                       ~(granted # 0 /\ keys[granted].account # account)
                PROVE  \E k \in DOMAIN keys : SignsFor(k, account)
    BY DEF GrantSignsOrIsAskedFor
  <2>1. With("active") # {}
    BY DEF NeedsGrant
  <2>2. granted # 0 /\ keys[granted].status = "active" /\ keys[granted].account = account
    BY <2>1 DEF KeysInv, GrantedInv
  <2>3. /\ Len(activated) \in Nat /\ DOMAIN activated = 1 .. Len(activated)
        /\ granted \in DOMAIN keys
    BY <2>2 DEF KeysInv, TypeOK
  <2>4. /\ Len(activated) \in DOMAIN activated /\ activated[Len(activated)] = granted
        /\ granted \in With("active")
    BY <2>2, <2>3 DEF KeysInv, GrantedInv, With
  <2>5. LatestActive(granted)
    BY <2>3, <2>4 DEF LatestActive
  <2>. QED  BY <2>2, <2>3, <2>5 DEF SignsFor
<1>. QED  BY <1>1, Invariance, PTL
=============================================================================
