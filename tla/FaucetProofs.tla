---------------------------- MODULE FaucetProofs ----------------------------
(***************************************************************************)
(* Proofs about give: it is decided at most once for an account, it is     *)
(* refused only for a reason, and it implements the Faucet.                *)
(***************************************************************************)
EXTENDS XrpcHandlerProofs
-----------------------------------------------------------------------------
(* The inductive invariant *)

\* What account a was paid up to decision i, it had taken in when
\* get_receive_blocks was read.
TakenIn(a, i) ==
    \A k \in (localFrom[a] + 1)..i : PaidByGenesis(a, k) =>
        \E j \in SettledTransferIn(LocalView, a) : TxAt(j).origin = DigestAt(k)

\* What account a was paid is not among the decisions up to i.
Unpaid(a, i) == \A k \in (localFrom[a] + 1)..i : ~ PaidByGenesis(a, k)

\* What is known of a give that is under way, and of one that was proposed.
GiveInv ==
    ~ Deleted(Genesis) =>
        /\ \A w \in Worker : pc[w] \in GivePc =>
              LET t == hashed[tx[w]]
              IN  /\ t.sender = Genesis
                  /\ t.type = "transfer_asset_out"
                  /\ \E i \in DOMAIN log :
                        /\ BuiltOn(t, i)
                        /\ pc[w] = "give_get_settle_blocks" => TakenIn(t.receiver, i)
        /\ \A p \in proposals : p.via = "give" =>
              LET t == hashed[p.digest]
              IN  /\ t.sender = Genesis
                  /\ t.type = "transfer_asset_out"
                  /\ \E i \in DOMAIN log : BuiltOn(t, i) /\ Unpaid(t.receiver, i)
-----------------------------------------------------------------------------
(* Each step keeps it *)

LEMMA UnpaidStays ==
    ASSUME TypeOK, DeletionInv, [Next]_vars,
           NEW a \in Account, NEW i \in 1..applied, Unpaid(a, i)
    PROVE  Unpaid(a, i)'
<1>1. localFrom[a] \in Nat /\ localFrom'[a] \in Nat /\ localFrom[a] <= localFrom'[a]
  BY TypeNext, DeletionNext DEF TypeOK, LedgerTypeOK
<1>2. \A k \in (localFrom'[a] + 1)..i : k \in (localFrom[a] + 1)..i /\ k \in 1..Len(log)
  BY <1>1, LogGrows
<1>3. \A k \in 1..Len(log) : PaidByGenesis(a, k)' = PaidByGenesis(a, k)
  BY LogGrows DEF PaidByGenesis
<1> QED BY <1>2, <1>3 DEF Unpaid

LEMMA TakenInStays ==
    ASSUME TypeOK, DeletionInv, [Next]_vars,
           NEW a \in Account, NEW i \in 1..applied, TakenIn(a, i)
    PROVE  TakenIn(a, i)'
<1>1. localFrom[a] \in Nat /\ localFrom'[a] \in Nat
  BY TypeNext DEF TypeOK, LedgerTypeOK
<1>2. \A k \in 1..Len(log) : PaidByGenesis(a, k)' = PaidByGenesis(a, k)
  BY LogGrows DEF PaidByGenesis
<1>3. CASE localFrom'[a] = applied
  <2>1. \A k \in (localFrom'[a] + 1)..i : FALSE
    BY <1>3, LogGrows
  <2> QED BY <2>1 DEF TakenIn
<1>4. CASE localFrom'[a] = localFrom[a]
  <2>1. \A k \in (localFrom'[a] + 1)..i : k \in (localFrom[a] + 1)..i /\ k \in 1..Len(log)
    BY <1>1, <1>4, LogGrows
  <2>2. SettledTransferIn(LocalView, a) \subseteq SettledTransferIn(LocalView, a)'
    <3>1. (localFrom[a] + 1)..applied \subseteq 1..Len(log)
      BY <1>1, LogGrows
    <3>2. (localFrom[a] + 1)..applied \subseteq (localFrom'[a] + 1)..applied'
      BY <1>1, <1>4, LogGrows
    <3> QED BY <3>1, <3>2, LogGrows DEF SettledTransferIn, get_settle_blocks, LocalView
  <2>3. SettledTransferIn(LocalView, a) \subseteq 1..Len(log)
    BY ViewDecided, LogGrows DEF SettledTransferIn
  <2> QED BY <1>2, <2>1, <2>2, <2>3, LogGrows DEF TakenIn
<1> QED BY <1>3, <1>4, LocalFromStep

\* What a give builds names the last unit of genesis that the store showed.
LEMMA GiveBuilds ==
    ASSUME IInv, [Next]_vars, NEW w \in Worker, give(w), pc'[w] # "idle"
    PROVE  \E t, i : /\ hashed'[tx'[w]] = t /\ pc'[w] = "give_exist_account"
                     /\ t.sender = Genesis /\ t.type = "transfer_asset_out"
                     /\ BuiltOn(t, i)
<1>1. TypeOK
  BY DEF IInv
<1>2. PICK dst \in Account, ts \in Timestamp, last \in last_digest_set(TRUE, Genesis),
           d \in 1..MaxTx :
         /\ sha256(transaction_make_transfer_out(Genesis, dst, Asset, GiveAmount, ts, last), d)
         /\ Goto(w, "give_exist_account", d)
  BY <1>1, Fails DEF give
<1> DEFINE t == transaction_make_transfer_out(Genesis, dst, Asset, GiveAmount, ts, last)
<1>3. Genesis \in Account
  BY LedgerConstants
<1>4. PICK i \in last_unit(LocalView, Genesis) : last = DigestAt(i)
  BY DEF last_digest_set
<1>5. i \in 1..applied /\ TxAt(i).sender = Genesis
  BY <1>1, <1>3, <1>4, ViewDecided DEF last_unit, get_settle_blocks
<1>6. t.sender = Genesis /\ t.type = "transfer_asset_out" /\ t.last = last /\ t.origin = 0
  BY DEF transaction_make_transfer_out, Zero
<1>7. last \in 0..Len(hashed) /\ 0 \in 0..Len(hashed)
  BY <1>1, <1>4, <1>5, TxAtType, LogGrows
<1>8. t \in Content
  BY <1>1, <1>3, <1>7, ContentType, LedgerConstants, HandlerConstants DEF PropertyKey
<1>9. hashed'[d] = t
  BY <1>1, <1>2, <1>6, <1>7, <1>8, Sha256Digest
<1>10. pc'[w] = "give_exist_account" /\ tx'[w] = d
  BY <1>1, <1>2, GoesOn
<1> QED BY <1>4, <1>5, <1>6, <1>9, <1>10 DEF BuiltOn

\* get_receive_blocks found nothing: what the account was paid it has taken in.
LEMMA NothingToReceive ==
    ASSUME TypeOK, NEW a \in Account, get_receive_blocks(LocalView, a) = {},
           NEW i \in 1..applied
    PROVE  TakenIn(a, i)
<1>1. localFrom[a] \in Nat /\ applied \in Nat
  BY DEF TypeOK, LedgerTypeOK
<1>2. \A k \in (localFrom[a] + 1)..i : k \in (localFrom[a] + 1)..applied
  BY <1>1
<1> QED BY <1>2 DEF TakenIn, get_receive_blocks, PaidByGenesis, LocalView

LEMMA GiveThreadNext ==
    ASSUME IInv, GiveInv, [Next]_vars, ~ Deleted(Genesis)', NEW w \in Worker,
           pc'[w] \in GivePc
    PROVE  \E t, i : /\ hashed'[tx'[w]] = t /\ i \in DOMAIN log'
                     /\ t.sender = Genesis /\ t.type = "transfer_asset_out"
                     /\ BuiltOn(t, i)'
                     /\ pc'[w] = "give_get_settle_blocks" => TakenIn(t.receiver, i)'
<1>1. TypeOK /\ DeletionInv /\ HashedGrows
  BY TypeNext DEF IInv
<1>2. ~ Deleted(Genesis)
  BY <1>1, StillOpen, LedgerConstants
<1>3. CASE give(w)
  <2>1. PICK t, i : /\ hashed'[tx'[w]] = t /\ pc'[w] = "give_exist_account"
                    /\ t.sender = Genesis /\ t.type = "transfer_asset_out" /\ BuiltOn(t, i)
    BY <1>3, GiveBuilds DEF GivePc
  <2>2. BuiltOn(t, i)' /\ i \in DOMAIN log'
    BY <1>1, <2>1, BuiltOnStays
  <2> QED BY <2>1, <2>2
<1>4. ASSUME pc[w] \in GivePc, tx'[w] = tx[w],
             \A t, i : /\ t = hashed[tx[w]] /\ BuiltOn(t, i) /\ i \in 1..applied
                       /\ pc'[w] = "give_get_settle_blocks"
                       /\ pc[w] = "give_get_settle_blocks" => TakenIn(t.receiver, i)
                       => TakenIn(t.receiver, i)
      PROVE  \E t, i : /\ hashed'[tx'[w]] = t /\ i \in DOMAIN log'
                       /\ t.sender = Genesis /\ t.type = "transfer_asset_out"
                       /\ BuiltOn(t, i)'
                       /\ pc'[w] = "give_get_settle_blocks" => TakenIn(t.receiver, i)'
  <2>1. PICK t : t = hashed[tx[w]]
    OBVIOUS
  <2>2. PICK i : /\ t.sender = Genesis /\ t.type = "transfer_asset_out" /\ BuiltOn(t, i)
                 /\ pc[w] = "give_get_settle_blocks" => TakenIn(t.receiver, i)
    BY <1>2, <1>4, <2>1 DEF GiveInv
  <2>3. i \in 1..applied
    BY <2>2 DEF BuiltOn
  <2>4. tx[w] \in 1..Len(hashed)
    BY <1>1, <1>4, BusyDigest DEF GivePc
  <2>5. t.receiver \in Account /\ hashed'[tx'[w]] = t
    BY <1>1, <1>4, <2>1, <2>4, DigestType DEF HashedGrows
  <2>6. pc'[w] = "give_get_settle_blocks" => TakenIn(t.receiver, i)
    BY <1>4, <2>1, <2>2, <2>3
  <2>7. pc'[w] = "give_get_settle_blocks" => TakenIn(t.receiver, i)'
    BY <1>1, <2>3, <2>5, <2>6, TakenInStays
  <2>8. BuiltOn(t, i)' /\ i \in DOMAIN log'
    BY <1>1, <2>2, BuiltOnStays
  <2> QED BY <2>2, <2>5, <2>7, <2>8
<1>5. CASE give_exist_account(w)
  <2>1. pc'[w] = "give_get_receive_blocks" /\ tx'[w] = tx[w] /\ pc[w] = "give_exist_account"
    BY <1>1, <1>5, GoesOn, Fails DEF give_exist_account, GivePc
  <2> QED BY <1>4, <2>1 DEF GivePc
<1>6. CASE give_receive(w)
  <2>1. pc'[w] = "give_get_settle_blocks" /\ tx'[w] = tx[w] /\ pc[w] = "give_get_receive_blocks"
        /\ get_receive_blocks(LocalView, hashed[tx[w]].receiver) = {}
    BY <1>1, <1>6, GoesOn, Fails DEF give_receive, GivePc
  <2>2. hashed[tx[w]].receiver \in Account
    BY <1>1, <2>1, BusyDigest, DigestType
  <2>3. \A i \in 1..applied : TakenIn(hashed[tx[w]].receiver, i)
    BY <1>1, <2>1, <2>2, NothingToReceive
  <2> QED BY <1>4, <2>1, <2>3 DEF GivePc
<1>7. CASE pc'[w] = pc[w] /\ tx'[w] = tx[w]
  BY <1>4, <1>7
<1> QED BY <1>1, <1>3, <1>5, <1>6, <1>7, ThreadStep, ThreadEnters

LEMMA GiveProposalNext ==
    ASSUME IInv, GiveInv, [Next]_vars, ~ Deleted(Genesis)',
           NEW p \in proposals', p.via = "give"
    PROVE  \E t, i : /\ hashed'[p.digest] = t /\ i \in DOMAIN log'
                     /\ t.sender = Genesis /\ t.type = "transfer_asset_out"
                     /\ BuiltOn(t, i)' /\ Unpaid(t.receiver, i)'
<1>1. TypeOK /\ DeletionInv /\ HashedGrows
  BY TypeNext DEF IInv
<1>2. ~ Deleted(Genesis)
  BY <1>1, StillOpen, LedgerConstants
<1>3. ASSUME NEW d \in 1..Len(hashed), p.digest = d, NEW t, t = hashed[d], NEW i,
             t.sender = Genesis, t.type = "transfer_asset_out", BuiltOn(t, i),
             Unpaid(t.receiver, i)
      PROVE  /\ hashed'[p.digest] = t /\ i \in DOMAIN log'
             /\ BuiltOn(t, i)' /\ Unpaid(t.receiver, i)'
  <2>1. t.receiver \in Account /\ hashed'[p.digest] = t
    BY <1>1, <1>3, DigestType DEF HashedGrows
  <2>2. i \in 1..applied
    BY <1>3 DEF BuiltOn
  <2>3. Unpaid(t.receiver, i)'
    BY <1>1, <1>3, <2>1, <2>2, UnpaidStays
  <2> QED BY <1>1, <1>3, <2>1, <2>3, BuiltOnStays
<1>4. CASE p \in proposals
  <2>1. p.digest \in 1..Len(hashed)
    BY <1>1, <1>4, ProposalDigest
  <2>2. PICK t : t = hashed[p.digest]
    OBVIOUS
  <2>3. PICK i : /\ t.sender = Genesis /\ t.type = "transfer_asset_out"
                 /\ BuiltOn(t, i) /\ Unpaid(t.receiver, i)
    BY <1>2, <1>4, <2>2 DEF GiveInv
  <2> QED BY <1>3, <2>1, <2>2, <2>3
<1>5. CASE p \notin proposals
  <2>1. PICK w \in Worker : give_settle(w) /\ p.digest = tx[w] /\ do_transaction(w, tx[w], "give")
    BY <1>5, NewProposal
  <2>2. PICK t : t = hashed[tx[w]]
    OBVIOUS
  <2>3. pc[w] = "give_get_settle_blocks" /\ SettledTransferIn(LocalView, t.receiver) = {}
    BY <2>1, <2>2 DEF give_settle, do_transaction, set_result_fail, Answer
  <2>4. PICK i : /\ t.sender = Genesis /\ t.type = "transfer_asset_out"
                 /\ BuiltOn(t, i) /\ TakenIn(t.receiver, i)
    BY <1>2, <2>2, <2>3 DEF GiveInv, GivePc
  <2>5. Unpaid(t.receiver, i)
    BY <2>3, <2>4 DEF TakenIn, Unpaid
  <2>6. tx[w] \in 1..Len(hashed)
    BY <1>1, <2>3, BusyDigest
  <2> QED BY <1>3, <2>1, <2>2, <2>4, <2>5, <2>6
<1> QED BY <1>4, <1>5

LEMMA GiveInvNext ==
    ASSUME IInv, GiveInv, [Next]_vars
    PROVE  GiveInv'
<1> SUFFICES ASSUME ~ Deleted(Genesis)' PROVE GiveInv'
  BY DEF GiveInv
<1>1. ASSUME NEW w \in Worker, pc'[w] \in GivePc
      PROVE  LET t == hashed'[tx'[w]]
             IN  /\ t.sender = Genesis
                 /\ t.type = "transfer_asset_out"
                 /\ \E i \in DOMAIN log' :
                       /\ BuiltOn(hashed[tx[w]], i)'
                       /\ pc'[w] = "give_get_settle_blocks"
                          => TakenIn(hashed[tx[w]].receiver, i)'
  BY <1>1, GiveThreadNext DEF BuiltOn, TakenIn, PaidByGenesis, SettledTransferIn, get_settle_blocks
<1>2. ASSUME NEW p \in proposals', p.via = "give"
      PROVE  LET t == hashed'[p.digest]
             IN  /\ t.sender = Genesis
                 /\ t.type = "transfer_asset_out"
                 /\ \E i \in DOMAIN log' :
                       /\ BuiltOn(hashed[p.digest], i)'
                       /\ Unpaid(hashed[p.digest].receiver, i)'
  BY <1>2, GiveProposalNext DEF BuiltOn, Unpaid, PaidByGenesis
<1> QED BY <1>1, <1>2 DEF GiveInv

LEMMA GrantedOnceNext ==
    ASSUME IInv, GiveInv, GrantedOnce, [Next]_vars
    PROVE  GrantedOnce'
<1> SUFFICES ASSUME NEW j \in DOMAIN log', NEW a, a = TxAt(j)'.receiver,
                    log'[j].tx.via = "give", ~ Deleted(Genesis)',
                    NEW k \in (localFrom'[a] + 1)..(j - 1)
             PROVE  ~ PaidByGenesis(a, k)'
  BY DEF GrantedOnce
<1>1. TypeOK /\ DeletionInv /\ HashedGrows /\ TypeOK'
  BY TypeNext DEF IInv
<1>2. ~ Deleted(Genesis)
  BY <1>1, StillOpen, LedgerConstants
<1>3. ASSUME a \in Account
      PROVE  k \in (localFrom[a] + 1)..(j - 1) /\ k \in 1..(j - 1)
  <2>1. localFrom[a] \in Nat /\ localFrom'[a] \in Nat /\ localFrom[a] <= localFrom'[a]
    BY <1>1, <1>3, DeletionNext DEF TypeOK, LedgerTypeOK
  <2>2. j \in Nat
    BY <1>1, LogGrows
  <2> QED BY <2>1, <2>2
<1>4. \A m \in 1..Len(log) : PaidByGenesis(a, m)' = PaidByGenesis(a, m)
  BY <1>1, LogGrows DEF PaidByGenesis
<1>5. CASE j \in 1..Len(log)
  <2>1. a = TxAt(j).receiver /\ log[j].tx.via = "give" /\ j \in DOMAIN log
    BY <1>1, <1>5, LogGrows
  <2>2. a \in Account
    BY <1>1, <2>1, TxAtType DEF Content
  <2>3. k \in (localFrom[a] + 1)..(j - 1) /\ k \in 1..Len(log)
    BY <1>1, <1>3, <1>5, <2>2, LogGrows
  <2> QED BY <1>2, <1>4, <2>1, <2>3 DEF GrantedOnce
<1>6. CASE j \notin 1..Len(log)
  <2>1. PICK p \in proposals : DecideCreate(p) \/ DecideNext(p)
    BY <1>1, <1>6, LogGrows, NewDecision
  <2>2. PICK t : t = hashed[p.digest]
    OBVIOUS
  <2>3. j = Len(log) + 1 /\ log'[j].tx = p /\ TxAt(j)' = t
    BY <1>1, <1>6, <2>1, <2>2, DecisionStep, LogGrows
  <2>4. a \in Account /\ t.receiver = a
    BY <1>1, <2>2, <2>3, ProposalDigest, DigestType
  <2>5. PICK i : /\ t.sender = Genesis /\ t.type = "transfer_asset_out"
                 /\ BuiltOn(t, i) /\ Unpaid(a, i)
    BY <1>2, <2>2, <2>3, <2>4 DEF GiveInv
  <2>6. PICK h \in last_unit(NetView, Genesis) : DigestAt(h) = DigestAt(i)
    BY <1>1, <2>1, <2>2, <2>5, DecisionStep DEF BuiltOn
  <2>7. \A m \in DOMAIN log : TxAt(m).sender = Genesis => m <= i
    BY <1>2, <2>5, <2>6, DecidedOnBase, LedgerConstants DEF BuiltOn
  <2>8. k \in (localFrom[a] + 1)..(j - 1) /\ k \in DOMAIN log /\ k \in 1..Len(log)
    BY <1>1, <1>3, <2>3, <2>4, LogGrows
  <2>9. CASE TxAt(k).sender = Genesis
    <3>1. k \in (localFrom[a] + 1)..i
      BY <1>1, <2>4, <2>5, <2>7, <2>8, <2>9 DEF BuiltOn, TypeOK, LedgerTypeOK
    <3> QED BY <1>4, <2>5, <2>8, <3>1 DEF Unpaid
  <2>10. CASE TxAt(k).sender # Genesis
    BY <1>4, <2>8, <2>10 DEF PaidByGenesis
  <2> QED BY <2>9, <2>10
<1> QED BY <1>5, <1>6

\* What holds of the decisions holds in every state.
LEMMA GiveInit ==
    Init => GiveInv /\ GrantedOnce
<1> SUFFICES ASSUME Init PROVE GiveInv /\ GrantedOnce
  OBVIOUS
<1>1. TypeOK /\ DOMAIN log = {1} /\ proposals = {} /\ \A w \in Worker : pc[w] = "idle"
  BY TypeInit DEF Init, LedgerInit
<1>2. TxAt(1) = genesis_account_create /\ log[1].tx.via = "genesis"
  BY DEF Init, LedgerInit, TxAt, DigestAt
<1>3. GiveInv
  BY <1>1 DEF GiveInv, GivePc
<1>4. GrantedOnce
  BY <1>1, <1>2 DEF GrantedOnce
<1> QED BY <1>3, <1>4

\* A give is decided only for an account that genesis has not paid since the
\* account was last deleted, for any number of threads, accounts and requests
\* (xrpc_handler.cpp:513-570).
THEOREM GrantedOnceHolds == Spec => []GrantedOnce
<1>1. IInv /\ GiveInv /\ GrantedOnce /\ [Next]_vars => GiveInv' /\ GrantedOnce'
  BY GiveInvNext, GrantedOnceNext
<1> QED BY GiveInit, ChainInvariant, <1>1, PTL DEF Spec
-----------------------------------------------------------------------------
(* The handlers implement the faucet *)

\* The abstract state.
Paid   == {a \in Account : Remembered(a) # {}}
Grants == [a \in Account |-> {k \in Remembered(a) : log[k].tx.via = "give"}]

FaucetVars == <<~ Deleted(Genesis), Paid, Grants>>

\* Once genesis is deleted nothing is promised.
LEMMA NothingPromised ==
    ASSUME Deleted(Genesis)
    PROVE  Paid = {} /\ Grants = [a \in Account |-> {}]
BY DEF Paid, Grants, Remembered

\* An account_delete of another account than genesis.
LEMMA DeleteForgets ==
    ASSUME IInv, [Next]_vars, ~ Deleted(Genesis)', NEW w \in Worker, account_delete(w)
    PROVE  \E a \in Account : FaucetPromise!Forget(a)
<1>1. TypeOK /\ ~ Deleted(Genesis)
  BY StillOpen, LedgerConstants DEF IInv
<1>2. PICK a \in Account : localFrom' = [localFrom EXCEPT ![a] = applied]
  BY HandlerConstants DEF account_delete
<1>3. UNCHANGED log /\ \A k \in DOMAIN log : TxAt(k)' = TxAt(k)
  BY <1>1, LogGrows, HandlerKeepsLog DEF account_delete
<1>4. \A b \in Account : localFrom'[b] = IF b = a THEN applied ELSE localFrom[b]
  BY <1>1, <1>2 DEF TypeOK, LedgerTypeOK
<1>5. \A b \in Account : localFrom[b] \in Nat /\ localFrom[b] <= applied /\ applied \in Nat
  BY <1>1 DEF IInv, DeletionInv, TypeOK, LedgerTypeOK
<1>6. \A b \in Account : b # a => Remembered(b)' = Remembered(b)
  BY <1>1, <1>3, <1>4 DEF Remembered, PaidByGenesis
<1>7. Remembered(a)' \subseteq Remembered(a)
  <2>1. ASSUME NEW k \in DOMAIN log, k > localFrom'[a]
        PROVE  k > localFrom[a]
    <3>1. k \in Nat
      BY <1>1, LogGrows
    <3> QED BY <1>4, <1>5, <2>1, <3>1
  <2> QED BY <1>1, <1>3, <2>1 DEF Remembered, PaidByGenesis
<1>8. Paid' = Paid \/ Paid' = Paid \ {a}
  BY <1>6, <1>7 DEF Paid
<1> DEFINE kept == {k \in Remembered(a)' : log[k].tx.via = "give"}
<1>9. kept \in SUBSET Grants[a] /\ (kept # {} => a \in Paid')
  BY <1>7 DEF Paid, Grants
<1>10. Grants' = [Grants EXCEPT ![a] = kept]
  BY <1>3, <1>6 DEF Grants
<1> QED BY <1>1, <1>8, <1>9, <1>10 DEF FaucetPromise!Forget, Paid, Grants

\* What a decision adds to what an account was paid.
LEMMA DecisionRemembered ==
    ASSUME IInv, [Next]_vars, ~ Deleted(Genesis)', NEW p \in proposals,
           DecideCreate(p) \/ DecideNext(p), NEW n, n = Len(log) + 1,
           NEW a \in Account
    PROVE  Remembered(a)' = Remembered(a) \cup (IF PaidByGenesis(a, n)' THEN {n} ELSE {})
<1>1. TypeOK /\ ~ Deleted(Genesis)
  BY StillOpen, LedgerConstants DEF IInv
<1>2. UNCHANGED localFrom /\ Len(log') = n
  BY <1>1, DecisionStep
<1>3. DOMAIN log' = DOMAIN log \cup {n}
  BY <1>1, <1>2, LogGrows
<1>4. \A k \in DOMAIN log : PaidByGenesis(a, k)' = PaidByGenesis(a, k)
  BY <1>1, LogGrows DEF PaidByGenesis
<1>5. n > localFrom[a]
  <2>1. localFrom[a] \in Nat /\ localFrom[a] <= applied
    BY <1>1 DEF IInv, DeletionInv, TypeOK, LedgerTypeOK
  <2> QED BY <1>1, <2>1, LogGrows
<1> QED BY <1>1, <1>2, <1>3, <1>4, <1>5 DEF Remembered

LEMMA DecisionGrants ==
    ASSUME IInv, GrantedOnce', [Next]_vars, ~ Deleted(Genesis)', NEW p \in proposals,
           DecideCreate(p) \/ DecideNext(p)
    PROVE  \/ \E a \in Account : FaucetPromise!Grant(a) \/ FaucetPromise!Pay(a)
           \/ UNCHANGED FaucetVars
<1>1. TypeOK /\ ~ Deleted(Genesis)
  BY StillOpen, LedgerConstants DEF IInv
<1>2. PICK n : n = Len(log) + 1
  OBVIOUS
<1>3. /\ DOMAIN log' = DOMAIN log \cup {n} /\ log'[n].tx = p
      /\ \A k \in DOMAIN log : log'[k] = log[k] /\ k # n
  <2>1. Len(log') = n /\ log'[n].tx = p
    BY <1>1, <1>2, DecisionStep
  <2> QED BY <1>1, <1>2, <2>1, LogGrows
<1>4. n \in 1..MaxLog
  BY <1>1, <1>2, DecisionStep
<1>5. \A a \in Account :
         Remembered(a)' = Remembered(a) \cup (IF PaidByGenesis(a, n)' THEN {n} ELSE {})
  BY <1>2, DecisionRemembered
<1>6. \A a \in Account : Remembered(a) \subseteq DOMAIN log
  BY DEF Remembered
<1>7. \A a, b \in Account : PaidByGenesis(a, n)' /\ PaidByGenesis(b, n)' => a = b
  BY DEF PaidByGenesis
<1>8. CASE \A a \in Account : ~ PaidByGenesis(a, n)'
  <2>1. \A a \in Account : Remembered(a)' = Remembered(a)
    BY <1>5, <1>8
  <2>2. Paid' = Paid
    BY <2>1 DEF Paid
  <2>3. Grants' = Grants
    BY <1>3, <1>6, <2>1 DEF Grants
  <2> QED BY <1>1, <2>2, <2>3 DEF FaucetVars
<1>9. ASSUME NEW a \in Account, PaidByGenesis(a, n)'
      PROVE  FaucetPromise!Grant(a) \/ FaucetPromise!Pay(a)
  <2>1. \A b \in Account : Remembered(b)' = IF b = a THEN Remembered(a) \cup {n} ELSE Remembered(b)
    BY <1>5, <1>7, <1>9
  <2>2. Paid' = Paid \cup {a}
    BY <2>1 DEF Paid
  <2>3. CASE p.via = "give"
    <3>1. Remembered(a) = {}
      <4>1. TxAt(n)'.receiver = a
        BY <1>9 DEF PaidByGenesis
      <4>2. \A k \in (localFrom'[a] + 1)..(n - 1) : ~ PaidByGenesis(a, k)'
        BY <1>3, <2>3, <4>1 DEF GrantedOnce
      <4>3. \A k \in DOMAIN log : k > localFrom[a] =>
               k \in (localFrom'[a] + 1)..(n - 1) /\ PaidByGenesis(a, k)' = PaidByGenesis(a, k)
        <5>1. localFrom'[a] = localFrom[a] /\ localFrom[a] \in Nat
          BY <1>1, <1>2, DecisionStep DEF TypeOK, LedgerTypeOK
        <5>2. \A k \in DOMAIN log : k > localFrom[a] => k \in (localFrom'[a] + 1)..(n - 1)
          BY <1>1, <1>2, <5>1, LogGrows
        <5>3. \A k \in DOMAIN log : PaidByGenesis(a, k)' = PaidByGenesis(a, k)
          BY <1>1, LogGrows DEF PaidByGenesis
        <5> QED BY <5>2, <5>3
      <4> QED BY <4>2, <4>3 DEF Remembered
    <3>2. \A b \in Account : {k \in Remembered(b)' : log'[k].tx.via = "give"}
                           = IF b = a THEN {n} ELSE {k \in Remembered(b) : log[k].tx.via = "give"}
      <4>1. {k \in Remembered(a)' : log'[k].tx.via = "give"} = {n}
        BY <1>3, <2>1, <2>3, <3>1
      <4>2. ASSUME NEW b \in Account, b # a
            PROVE  {k \in Remembered(b)' : log'[k].tx.via = "give"}
                   = {k \in Remembered(b) : log[k].tx.via = "give"}
        BY <1>3, <1>6, <2>1, <4>2
      <4> QED BY <4>1, <4>2
    <3>3. Grants' = [Grants EXCEPT ![a] = {n}]
      BY <3>2 DEF Grants
    <3>4. \E r \in 1..MaxLog : Grants' = [Grants EXCEPT ![a] = {r}]
      BY <1>4, <3>3
    <3> QED BY <1>1, <2>2, <3>1, <3>4 DEF FaucetPromise!Grant, Paid, Grants
  <2>4. CASE p.via # "give"
    <3>1. Grants' = Grants
      BY <1>3, <1>6, <2>1, <2>4 DEF Grants
    <3> QED BY <1>1, <2>2, <3>1 DEF FaucetPromise!Pay, Paid, Grants
  <2> QED BY <2>3, <2>4
<1> QED BY <1>8, <1>9

LEMMA FaucetStep ==
    ASSUME IInv, GrantedOnce', [Next]_vars
    PROVE  FaucetPromise!Next \/ UNCHANGED FaucetVars
<1>1. TypeOK /\ DeletionInv
  BY DEF IInv
<1>2. CASE Deleted(Genesis)'
  <2>1. Paid' = {} /\ Grants' = [a \in Account |-> {}]
    BY <1>2, NothingPromised DEF Paid, Grants, Remembered
  <2> QED BY <1>2, <2>1
          DEF FaucetPromise!Next, FaucetPromise!Close, Paid, Grants
<1>3. CASE ~ Deleted(Genesis)'
  <2>1. ~ Deleted(Genesis)
    BY <1>1, <1>3, StillOpen, LedgerConstants
  <2>2. CASE UNCHANGED <<log, localFrom>>
    <3>1. \A k \in DOMAIN log : TxAt(k)' = TxAt(k)
      BY <1>1, LogGrows
    <3>2. \A a \in Account : Remembered(a)' = Remembered(a)
      BY <1>3, <2>1, <2>2, <3>1 DEF Remembered, PaidByGenesis
    <3> QED BY <1>3, <2>1, <2>2, <3>2 DEF FaucetVars, Paid, Grants
  <2>3. CASE \E p \in proposals : DecideCreate(p) \/ DecideNext(p)
    BY <1>3, <2>3, DecisionGrants DEF FaucetPromise!Next
  <2>4. CASE \E w \in Worker : account_delete(w)
    BY <1>3, <2>4, DeleteForgets DEF FaucetPromise!Next
  <2>5. CASE \E w \in Worker : HandlerNext(w) /\ ~ account_delete(w)
    BY <2>2, <2>5, HandlerKeepsStore, HandlerKeepsLog
  <2>6. CASE update_event \/ (\E a \in Account : NetworkDelete(a)) \/ UNCHANGED vars
    BY <2>2, <2>6 DEF update_event, NetworkDelete, vars, ledgerVars
  <2> QED BY <2>3, <2>4, <2>5, <2>6 DEF Next, LedgerNext
<1> QED BY <1>2, <1>3

LEMMA FaucetInit ==
    Init => FaucetPromise!Init
<1> SUFFICES ASSUME Init PROVE FaucetPromise!Init
  OBVIOUS
<1>1. ~ Deleted(Genesis)
  BY LedgerConstants DEF Init, LedgerInit, Deleted
<1>2. DOMAIN log = {1} /\ TxAt(1).type = "create_account"
  BY DEF Init, LedgerInit, TxAt, DigestAt, genesis_account_create
<1>3. \A a \in Account : Remembered(a) = {}
  BY <1>2 DEF Remembered, PaidByGenesis
<1> QED BY <1>1, <1>3 DEF FaucetPromise!Init

\* The give requests implement the faucet's promise: each step of the handlers,
\* the network and the store is a step of the faucet or leaves it as it is.
THEOREM FaucetImplemented == Spec => ImplementsFaucet
<1>1. IInv /\ GrantedOnce' /\ [Next]_vars
      => [FaucetPromise!Next]_<<~ Deleted(Genesis), {a \in Account : Remembered(a) # {}},
            [a \in Account |-> {k \in Remembered(a) : log[k].tx.via = "give"}]>>
  BY FaucetStep DEF FaucetVars, Paid, Grants
<1> QED BY FaucetInit, ChainInvariant, GrantedOnceHolds, <1>1, PTL
        DEF Spec, ImplementsFaucet, FaucetPromise!Spec
-----------------------------------------------------------------------------
(* The refusals *)

\* Only the two checks of give answer xrpc_already_give, each for what it found.
LEMMA RefusedByGive ==
    ASSUME TypeOK, NEW w \in Worker, HandlerNext(w), rsp' = "xrpc_already_give"
    PROVE  LET dst == hashed[tx[w]].receiver
           IN  /\ pc[w] \in GivePc
               /\ \/ get_receive_blocks(LocalView, dst) # {}
                  \/ SettledTransferIn(LocalView, dst) # {}
<1>1. CASE account_create(w)
  BY <1>1 DEF account_create, set_result_fail, do_transaction, Answer
<1>2. CASE set_property(w)
  BY <1>2 DEF set_property, set_result_fail, do_transaction, Answer
<1>3. CASE account_delete(w)
  BY <1>3 DEF account_delete, Answer
<1>4. CASE transfer_out(w)
  BY <1>4 DEF transfer_out, set_result_fail, Goto, Answer
<1>5. CASE transfer_out_balance(w)
  BY <1>5 DEF transfer_out_balance, set_result_fail, Goto, Answer
<1>6. CASE transfer_out_last_hash(w)
  BY <1>6 DEF transfer_out_last_hash, set_result_fail, do_transaction, Answer
<1>7. CASE transfer_in(w)
  BY <1>7 DEF transfer_in, set_result_fail, Goto, Answer
<1>8. CASE transfer_in_last_hash(w)
  BY <1>8 DEF transfer_in_last_hash, set_result_fail, do_transaction, Answer
<1>9. CASE give(w)
  BY <1>9 DEF give, set_result_fail, Goto, Answer
<1>10. CASE give_exist_account(w)
  BY <1>10 DEF give_exist_account, set_result_fail, Goto, Answer
<1>11. CASE give_receive(w)
  BY <1>11 DEF give_receive, set_result_fail, Goto, Answer, GivePc
<1>12. CASE give_settle(w)
  BY <1>12 DEF give_settle, set_result_fail, do_transaction, Answer, GivePc
<1>13. CASE action_invalid(w)
  BY <1>13 DEF action_invalid, set_result_fail, Answer
<1> QED BY <1>1, <1>2, <1>3, <1>4, <1>5, <1>6, <1>7, <1>8, <1>9, <1>10, <1>11, <1>12, <1>13
        DEF HandlerNext

\* xrpc_already_give is the answer only if something was sent to the account: also
\* where a transfer that was taken in is all that the store shows
\* (xrpc_handler.cpp:547-563).
THEOREM AlreadyGiveTruthfulHolds == Spec => AlreadyGiveTruthful
<1>1. ASSUME TypeOK, ReceivedWasSent, [Next]_vars, NEW w \in Worker,
             rsp' = "xrpc_already_give", pc[w] # pc'[w]
      PROVE  \E k \in DOMAIN log : /\ TxAt(k).type = "transfer_asset_out"
                                   /\ TxAt(k).receiver = hashed[tx[w]].receiver
  <2>1. PICK dst : dst = hashed[tx[w]].receiver
    OBVIOUS
  <2>2. /\ pc[w] \in GivePc
        /\ \/ get_receive_blocks(LocalView, dst) # {}
           \/ SettledTransferIn(LocalView, dst) # {}
    BY <1>1, <2>1, ThreadStep, RefusedByGive
  <2>3. dst \in Account
    BY <1>1, <2>1, <2>2, BusyDigest, DigestType DEF GivePc
  <2>4. CASE get_receive_blocks(LocalView, dst) # {}
    <3>1. PICK k \in get_receive_blocks(LocalView, dst) : TRUE
      BY <2>4
    <3>2. k \in DOMAIN log
      BY <1>1, <2>3, ViewDecided
    <3> QED BY <2>1, <3>1, <3>2 DEF get_receive_blocks
  <2>5. CASE SettledTransferIn(LocalView, dst) # {}
    <3>1. PICK j \in get_settle_blocks(LocalView, dst) : TxAt(j).type = "transfer_asset_in"
      BY <2>5 DEF SettledTransferIn
    <3>2. j \in DOMAIN log /\ TxAt(j).sender = dst
      BY <1>1, <2>3, ViewDecided, <3>1 DEF get_settle_blocks
    <3>3. PICK k \in 1..(j - 1) : TxAt(k).type = "transfer_asset_out" /\ TxAt(k).receiver = dst
      BY <1>1, <3>1, <3>2 DEF ReceivedWasSent
    <3>4. k \in DOMAIN log
      BY <1>1, <3>2, <3>3, LogGrows
    <3> QED BY <2>1, <3>3, <3>4
  <2> QED BY <2>2, <2>4, <2>5
<1>2. IInv /\ ReceivedWasSent /\ [Next]_vars
      => [\A w \in Worker :
             rsp' = "xrpc_already_give" /\ pc[w] # pc'[w]
             => \E k \in DOMAIN log : /\ TxAt(k).type = "transfer_asset_out"
                                      /\ TxAt(k).receiver = hashed[tx[w]].receiver]_vars
  BY <1>1 DEF IInv
<1>3. IInv /\ ReceivedWasSent /\ [Next]_vars => ReceivedWasSent'
  BY ReceivedWasSentNext DEF IInv
<1> QED BY ChainInvariant, ReceivedWasSentInit, <1>2, <1>3, PTL DEF Spec, AlreadyGiveTruthful
=============================================================================
