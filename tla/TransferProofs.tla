--------------------------- MODULE TransferProofs ---------------------------
(***************************************************************************)
(* Proofs about transfer_out: one that the server signed is covered when   *)
(* it is decided, and one that is proposed was built on the last unit.     *)
(***************************************************************************)
EXTENDS XrpcHandlerProofs
-----------------------------------------------------------------------------
(* The inductive invariant *)

\* The balance after decision i covers t, or the sender has moved on.
Covers(t, i) ==
    \/ log[i].balance >= t.params
    \/ \E k \in (i + 1)..Len(log) : TxAt(k).sender = t.sender

\* Whether the promise is about t.
Promised(t) == no_hash(t.sender) /\ ~ Deleted(t.sender)

\* What is known of a transfer_out that is under way, and of one that was
\* proposed.
TransferInv ==
    /\ \A w \in Worker : pc[w] \in OutPc =>
          LET t == hashed[tx[w]]
          IN  /\ t.type = "transfer_asset_out"
              /\ Promised(t) => \E i \in DOMAIN log :
                    BuiltOn(t, i) /\ (pc[w] = "out_get_last_hash" => Covers(t, i))
    /\ \A p \in proposals : p.via = "transfer_out" =>
          LET t == hashed[p.digest]
          IN  /\ t.type = "transfer_asset_out"
              /\ Promised(t) => \E i \in DOMAIN log : BuiltOn(t, i) /\ Covers(t, i)
-----------------------------------------------------------------------------
(* Each step keeps it *)

LEMMA CoversStays ==
    ASSUME TypeOK, [Next]_vars, NEW t, NEW i \in DOMAIN log, Covers(t, i)
    PROVE  Covers(t, i)'
<1>1. i \in 1..Len(log) /\ log'[i] = log[i]
  BY LogGrows
<1>2. (i + 1)..Len(log) \subseteq 1..Len(log) /\ (i + 1)..Len(log) \subseteq (i + 1)..Len(log')
  BY <1>1, LogGrows
<1> QED BY <1>1, <1>2, LogGrows DEF Covers

LEMMA PromisedBefore ==
    ASSUME TypeOK, DeletionInv, [Next]_vars, NEW t, t.sender \in Account, Promised(t)'
    PROVE  Promised(t)
BY StillOpen DEF Promised, no_hash

\* What a transfer_out builds names the last unit of its sender.
LEMMA TransferBuilds ==
    ASSUME IInv, [Next]_vars, NEW w \in Worker, transfer_out(w), pc'[w] # "idle"
    PROVE  \E t : /\ hashed'[tx'[w]] = t /\ pc'[w] = "out_get_account_balance"
                  /\ t.type = "transfer_asset_out" /\ t.sender \in Account
                  /\ no_hash(t.sender) => \E i : BuiltOn(t, i)
<1>1. TypeOK
  BY DEF IInv
<1>2. PICK src \in Account, dst \in Account, key \in {Asset, "@name"},
           amount \in Amount \cup {NotANumber}, ts \in Timestamp :
         \E last \in last_digest_set(no_hash(src), src), d \in 1..MaxTx :
            /\ sha256(transaction_make_transfer_out(src, dst, key, amount, ts, last), d)
            /\ Goto(w, "out_get_account_balance", d)
  BY <1>1, Fails DEF transfer_out
<1>3. PICK last \in last_digest_set(no_hash(src), src), d \in 1..MaxTx :
         /\ sha256(transaction_make_transfer_out(src, dst, key, amount, ts, last), d)
         /\ Goto(w, "out_get_account_balance", d)
  BY <1>2
<1> DEFINE t == transaction_make_transfer_out(src, dst, key, amount, ts, last)
<1>4. t.sender = src /\ t.type = "transfer_asset_out" /\ t.last = last /\ t.origin = 0
  BY DEF transaction_make_transfer_out, Zero
<1>5. last \in 0..Len(hashed) /\ 0 \in 0..Len(hashed)
  BY <1>1, <1>3, LastDigestKnown, LogGrows DEF TypeOK, LedgerTypeOK
<1>6. t \in Content
  BY <1>1, <1>5, ContentType DEF PropertyKey
<1>7. hashed'[d] = t
  BY <1>1, <1>3, <1>4, <1>5, <1>6, Sha256Digest
<1>8. pc'[w] = "out_get_account_balance" /\ tx'[w] = d
  BY <1>1, <1>3, GoesOn
<1>9. ASSUME no_hash(src)
      PROVE  \E i : BuiltOn(t, i)
  <2>1. PICK i \in last_unit(LocalView, src) : last = DigestAt(i)
    BY <1>3, <1>9 DEF last_digest_set
  <2>2. i \in 1..applied /\ TxAt(i).sender = src
    BY <1>1, <2>1, ViewDecided DEF last_unit, get_settle_blocks
  <2> QED BY <1>4, <2>1, <2>2 DEF BuiltOn
<1> QED BY <1>4, <1>7, <1>8, <1>9

\* The balance that is read is the one after the unit the transaction names,
\* or after a later unit of the sender.
LEMMA BalanceRead ==
    ASSUME IInv, NEW t, t.sender \in Account, ~ Deleted(t.sender),
           NEW i, BuiltOn(t, i),
           NEW h \in last_unit(LocalView, t.sender), log[h].balance >= t.params
    PROVE  Covers(t, i)
<1>1. TypeOK /\ localFrom[t.sender] = 0 /\ applied \in 0..Len(log) /\ Len(log) \in Nat
  BY DEF IInv, TypeOK, LedgerTypeOK, Deleted
<1>2. i \in get_settle_blocks(LocalView, t.sender)
  BY <1>1 DEF BuiltOn, get_settle_blocks, LocalView
<1>3. i <= h /\ h \in 1..applied /\ TxAt(h).sender = t.sender
  BY <1>1, <1>2, ViewDecided DEF last_unit, get_settle_blocks
<1>4. i = h \/ h \in (i + 1)..Len(log)
  BY <1>1, <1>3 DEF BuiltOn
<1> QED BY <1>3, <1>4 DEF Covers

LEMMA TransferThreadNext ==
    ASSUME IInv, TransferInv, [Next]_vars, NEW w \in Worker, pc'[w] \in OutPc
    PROVE  \E t : /\ hashed'[tx'[w]] = t /\ t.type = "transfer_asset_out"
                  /\ Promised(t)' => \E i \in DOMAIN log' :
                        BuiltOn(t, i)' /\ (pc'[w] = "out_get_last_hash" => Covers(t, i)')
<1>1. TypeOK /\ DeletionInv /\ HashedGrows
  BY TypeNext DEF IInv
<1>2. CASE transfer_out(w)
  <2>1. PICK t : /\ hashed'[tx'[w]] = t /\ pc'[w] = "out_get_account_balance"
                 /\ t.type = "transfer_asset_out" /\ t.sender \in Account
                 /\ no_hash(t.sender) => \E i : BuiltOn(t, i)
    BY <1>2, TransferBuilds DEF OutPc
  <2>2. ASSUME Promised(t)'
        PROVE  \E i \in DOMAIN log' : BuiltOn(t, i)'
    BY <1>1, <2>1, <2>2, PromisedBefore, BuiltOnStays DEF Promised
  <2> QED BY <2>1, <2>2
<1>3. ASSUME pc[w] \in OutPc, tx'[w] = tx[w],
             \A t, i : /\ t = hashed[tx[w]] /\ Promised(t) /\ BuiltOn(t, i)
                       /\ pc'[w] = "out_get_last_hash"
                       /\ pc[w] = "out_get_last_hash" => Covers(t, i)
                       => Covers(t, i)
      PROVE  \E t : /\ hashed'[tx'[w]] = t /\ t.type = "transfer_asset_out"
                    /\ Promised(t)' => \E i \in DOMAIN log' :
                          BuiltOn(t, i)' /\ (pc'[w] = "out_get_last_hash" => Covers(t, i)')
  <2>1. PICK t : t = hashed[tx[w]]
    OBVIOUS
  <2>2. tx[w] \in 1..Len(hashed)
    BY <1>1, <1>3, BusyDigest DEF OutPc
  <2>3. t.sender \in Account /\ hashed'[tx'[w]] = t /\ t.type = "transfer_asset_out"
    BY <1>1, <1>3, <2>1, <2>2, DigestType DEF HashedGrows, TransferInv
  <2>4. ASSUME Promised(t)'
        PROVE  \E i \in DOMAIN log' :
                  BuiltOn(t, i)' /\ (pc'[w] = "out_get_last_hash" => Covers(t, i)')
    <3>1. Promised(t)
      BY <1>1, <2>3, <2>4, PromisedBefore
    <3>2. PICK i \in DOMAIN log :
             BuiltOn(t, i) /\ (pc[w] = "out_get_last_hash" => Covers(t, i))
      BY <1>3, <2>1, <3>1 DEF TransferInv
    <3>3. pc'[w] = "out_get_last_hash" => Covers(t, i)
      BY <1>3, <2>1, <3>1, <3>2
    <3>4. pc'[w] = "out_get_last_hash" => Covers(t, i)'
      BY <1>1, <3>3, CoversStays
    <3> QED BY <1>1, <3>2, <3>4, BuiltOnStays
  <2> QED BY <2>3, <2>4
<1>4. CASE transfer_out_balance(w)
  <2>1. /\ pc'[w] = "out_get_last_hash" /\ tx'[w] = tx[w] /\ pc[w] = "out_get_account_balance"
        /\ \E h \in last_unit(LocalView, hashed[tx[w]].sender) :
              log[h].balance >= hashed[tx[w]].params
    BY <1>1, <1>4, GoesOn, Fails DEF transfer_out_balance, OutPc
  <2>2. hashed[tx[w]].sender \in Account
    BY <1>1, <2>1, BusyDigest, DigestType
  <2>3. \A i : Promised(hashed[tx[w]]) /\ BuiltOn(hashed[tx[w]], i) => Covers(hashed[tx[w]], i)
    BY <2>1, <2>2, BalanceRead DEF Promised
  <2> QED BY <1>3, <2>1, <2>3 DEF OutPc
<1>5. CASE pc'[w] = pc[w] /\ tx'[w] = tx[w]
  BY <1>3, <1>5
<1> QED BY <1>1, <1>2, <1>4, <1>5, ThreadStep, ThreadEnters

LEMMA TransferProposalNext ==
    ASSUME IInv, TransferInv, [Next]_vars, NEW p \in proposals', p.via = "transfer_out"
    PROVE  \E t : /\ hashed'[p.digest] = t /\ t.type = "transfer_asset_out"
                  /\ Promised(t)' => \E i \in DOMAIN log' : BuiltOn(t, i)' /\ Covers(t, i)'
<1>1. TypeOK /\ DeletionInv /\ HashedGrows
  BY TypeNext DEF IInv
<1>2. ASSUME NEW d \in 1..Len(hashed), p.digest = d, NEW t, t = hashed[d],
             t.type = "transfer_asset_out",
             Promised(t) => \E i \in DOMAIN log : BuiltOn(t, i) /\ Covers(t, i)
      PROVE  /\ hashed'[p.digest] = t
             /\ Promised(t)' => \E i \in DOMAIN log' : BuiltOn(t, i)' /\ Covers(t, i)'
  <2>1. t.sender \in Account /\ hashed'[p.digest] = t
    BY <1>1, <1>2, DigestType DEF HashedGrows
  <2>2. ASSUME Promised(t)'
        PROVE  \E i \in DOMAIN log' : BuiltOn(t, i)' /\ Covers(t, i)'
    <3>1. PICK i \in DOMAIN log : BuiltOn(t, i) /\ Covers(t, i)
      BY <1>1, <1>2, <2>1, <2>2, PromisedBefore
    <3> QED BY <1>1, <3>1, BuiltOnStays, CoversStays
  <2> QED BY <2>1, <2>2
<1>3. CASE p \in proposals
  <2>1. p.digest \in 1..Len(hashed)
    BY <1>1, <1>3, ProposalDigest
  <2>2. PICK t : t = hashed[p.digest]
    OBVIOUS
  <2>3. /\ t.type = "transfer_asset_out"
        /\ Promised(t) => \E i \in DOMAIN log : BuiltOn(t, i) /\ Covers(t, i)
    BY <1>3, <2>2 DEF TransferInv
  <2> QED BY <1>2, <2>1, <2>2, <2>3
<1>4. CASE p \notin proposals
  <2>1. PICK w \in Worker : /\ transfer_out_last_hash(w) /\ p.digest = tx[w]
                            /\ do_transaction(w, tx[w], "transfer_out")
    BY <1>4, NewProposal
  <2>2. PICK t : t = hashed[tx[w]]
    OBVIOUS
  <2>3. pc[w] = "out_get_last_hash" /\ tx[w] \in 1..Len(hashed)
    BY <1>1, <2>1, BusyDigest DEF transfer_out_last_hash
  <2>4. /\ t.type = "transfer_asset_out"
        /\ Promised(t) => \E i \in DOMAIN log : BuiltOn(t, i) /\ Covers(t, i)
    BY <2>2, <2>3 DEF TransferInv, OutPc
  <2> QED BY <1>2, <2>1, <2>2, <2>3, <2>4
<1> QED BY <1>3, <1>4

LEMMA TransferInvNext ==
    ASSUME IInv, TransferInv, [Next]_vars
    PROVE  TransferInv'
<1>1. ASSUME NEW w \in Worker, pc'[w] \in OutPc
      PROVE  (LET t == hashed[tx[w]]
              IN  /\ t.type = "transfer_asset_out"
                  /\ Promised(t) => \E i \in DOMAIN log :
                       BuiltOn(t, i) /\ (pc[w] = "out_get_last_hash" => Covers(t, i)))'
  BY <1>1, TransferThreadNext DEF Promised, Deleted, BuiltOn, Covers
<1>2. ASSUME NEW p \in proposals', p.via = "transfer_out"
      PROVE  (LET t == hashed[p.digest]
              IN  /\ t.type = "transfer_asset_out"
                  /\ Promised(t) => \E i \in DOMAIN log : BuiltOn(t, i) /\ Covers(t, i))'
  BY <1>2, TransferProposalNext DEF Promised, Deleted, BuiltOn, Covers
<1> QED BY <1>1, <1>2 DEF TransferInv

LEMMA CoveredNext ==
    ASSUME IInv, TransferInv, TransferOutCovered, [Next]_vars
    PROVE  TransferOutCovered'
<1> SUFFICES ASSUME NEW j \in DOMAIN log', NEW a, a = TxAt(j)'.sender,
                    log'[j].tx.via = "transfer_out", no_hash(a), ~ Deleted(a)'
             PROVE  log'[j].balance >= 0
  BY DEF TransferOutCovered, no_hash
<1>1. TypeOK /\ DeletionInv
  BY DEF IInv
<1>2. CASE j \in 1..Len(log)
  <2>1. a = TxAt(j).sender /\ log[j].tx.via = "transfer_out" /\ j \in DOMAIN log /\ log'[j] = log[j]
    BY <1>1, <1>2, LogGrows
  <2>2. a \in Account
    BY <1>1, <2>1, TxAtType DEF Content
  <2>3. ~ Deleted(a)
    BY <1>1, <2>2, StillOpen
  <2> QED BY <2>1, <2>3 DEF TransferOutCovered
<1>3. CASE j \notin 1..Len(log)
  <2>1. PICK p \in proposals : DecideCreate(p) \/ DecideNext(p)
    BY <1>1, <1>3, LogGrows, NewDecision
  <2>2. PICK t : t = hashed[p.digest]
    OBVIOUS
  <2>3. j = Len(log) + 1 /\ log'[j].tx = p /\ TxAt(j)' = t
    BY <1>1, <1>3, <2>1, <2>2, DecisionStep, LogGrows
  <2>4. a \in Account /\ t.sender = a /\ t.params \in Int
    BY <1>1, <2>2, <2>3, ProposalDigest, DigestType
  <2>5. ~ Deleted(a)
    BY <1>1, <2>4, StillOpen
  <2>6. PICK i \in DOMAIN log : t.type = "transfer_asset_out" /\ BuiltOn(t, i) /\ Covers(t, i)
    BY <2>2, <2>3, <2>4, <2>5 DEF TransferInv, Promised
  <2>7. PICK h \in last_unit(NetView, a) :
           DigestAt(h) = DigestAt(i) /\ log'[j].balance = log[h].balance - t.params
    BY <1>1, <2>1, <2>2, <2>3, <2>4, <2>6, DecisionStep DEF BuiltOn
  <2>8. h = i /\ \A k \in DOMAIN log : TxAt(k).sender = a => k <= i
    BY <2>4, <2>5, <2>6, <2>7, DecidedOnBase DEF BuiltOn
  <2>9. \A k \in (i + 1)..Len(log) : TxAt(k).sender # a
    BY <1>1, <2>8, LogGrows
  <2>10. log[i].balance >= t.params /\ log[i].balance \in Int
    BY <1>1, <2>4, <2>6, <2>9, TxAtType DEF Covers
  <2> QED BY <2>4, <2>7, <2>8, <2>10
<1> QED BY <1>2, <1>3

LEMMA TransferInit ==
    Init => TransferInv /\ TransferOutCovered
<1> SUFFICES ASSUME Init PROVE TransferInv /\ TransferOutCovered
  OBVIOUS
<1>1. DOMAIN log = {1} /\ proposals = {} /\ (\A w \in Worker : pc[w] = "idle")
      /\ log[1].tx.via = "genesis"
  BY DEF Init, LedgerInit
<1> QED BY <1>1 DEF TransferInv, OutPc, TransferOutCovered

\* A transfer_out that the server signed never overdraws its account, however
\* many threads, accounts and requests there are, as long as the account is not
\* deleted (xrpc_handler.cpp:448-510).
THEOREM TransferOutCoveredHolds == Spec => []TransferOutCovered
<1>1. IInv /\ TransferInv /\ TransferOutCovered /\ [Next]_vars
      => TransferInv' /\ TransferOutCovered'
  BY TransferInvNext, CoveredNext
<1> QED BY TransferInit, ChainInvariant, <1>1, PTL DEF Spec
-----------------------------------------------------------------------------
(* The last hash *)

\* Only two requests lead to the check of the last hash and past it.
LEMMA OutSteps ==
    ASSUME TypeOK, NEW w \in Worker, HandlerNext(w)
    PROVE  /\ pc'[w] = "out_get_last_hash" =>
                 /\ pc[w] = "out_get_account_balance" /\ tx'[w] = tx[w] /\ UNCHANGED hashed
                 /\ exist_account(LocalView, hashed[tx[w]].sender)
           /\ pc[w] = "out_get_last_hash" => transfer_out_last_hash(w)
<1>1. CASE account_create(w)
  BY <1>1 DEF account_create, set_result_fail, do_transaction, Answer, Handles, TypeOK
<1>2. CASE set_property(w)
  BY <1>2 DEF set_property, set_result_fail, do_transaction, Answer, Handles, TypeOK
<1>3. CASE account_delete(w)
  BY <1>3 DEF account_delete, Answer, Handles, TypeOK
<1>4. CASE transfer_out(w)
  BY <1>4 DEF transfer_out, set_result_fail, Goto, Answer, Handles, TypeOK
<1>5. CASE transfer_out_balance(w)
  <2>1. /\ pc[w] = "out_get_account_balance"
        /\ pc'[w] = "out_get_last_hash"
           => Goto(w, "out_get_last_hash", tx[w]) /\ UNCHANGED hashed
              /\ last_unit(LocalView, hashed[tx[w]].sender) # {}
    BY <1>5, Fails DEF transfer_out_balance
  <2> QED BY <2>1, GoesOn DEF last_unit
<1>6. CASE transfer_out_last_hash(w)
  BY <1>6 DEF transfer_out_last_hash, set_result_fail, do_transaction, Answer, TypeOK
<1>7. CASE transfer_in(w)
  BY <1>7 DEF transfer_in, set_result_fail, Goto, Answer, Handles, TypeOK
<1>8. CASE transfer_in_last_hash(w)
  BY <1>8 DEF transfer_in_last_hash, set_result_fail, do_transaction, Answer, TypeOK
<1>9. CASE give(w)
  BY <1>9 DEF give, set_result_fail, Goto, Answer, Handles, TypeOK
<1>10. CASE give_exist_account(w)
  BY <1>10 DEF give_exist_account, set_result_fail, Goto, Answer, TypeOK
<1>11. CASE give_receive(w)
  BY <1>11 DEF give_receive, set_result_fail, Goto, Answer, TypeOK
<1>12. CASE give_settle(w)
  BY <1>12 DEF give_settle, set_result_fail, do_transaction, Answer, TypeOK
<1>13. CASE action_invalid(w)
  BY <1>13 DEF action_invalid, set_result_fail, Answer, Handles, TypeOK
<1> QED BY <1>1, <1>2, <1>3, <1>4, <1>5, <1>6, <1>7, <1>8, <1>9, <1>10, <1>11, <1>12, <1>13
        DEF HandlerNext

\* A transfer_out that has read its balance has found its account.
SenderExists ==
    \A w \in Worker :
        LET a == hashed[tx[w]].sender
        IN  pc[w] = "out_get_last_hash" /\ ~ Deleted(a) => exist_account(LocalView, a)

LEMMA SenderExistsNext ==
    ASSUME IInv, SenderExists, [Next]_vars
    PROVE  SenderExists'
<1> SUFFICES ASSUME NEW w \in Worker, pc'[w] = "out_get_last_hash",
                    NEW a, a = hashed'[tx'[w]].sender, ~ Deleted(a)'
             PROVE  exist_account(LocalView, a)'
  BY DEF SenderExists, Deleted
<1>1. TypeOK /\ DeletionInv /\ TypeOK' /\ HashedGrows
  BY TypeNext DEF IInv
<1>2. CASE HandlerNext(w)
  <2>1. /\ pc[w] = "out_get_account_balance" /\ tx'[w] = tx[w]
        /\ a = hashed[tx[w]].sender /\ exist_account(LocalView, a)
    BY <1>1, <1>2, OutSteps
  <2>2. a \in Account
    BY <1>1, <2>1, BusyDigest, DigestType
  <2> QED BY <1>1, <2>1, <2>2, ViewGrows
<1>3. CASE pc'[w] = pc[w] /\ tx'[w] = tx[w]
  <2>1. tx[w] \in 1..Len(hashed)
    BY <1>1, <1>3, BusyDigest
  <2>2. a = hashed[tx[w]].sender
    BY <1>3, <2>1, <1>1 DEF HashedGrows
  <2>3. a \in Account
    BY <1>1, <2>1, <2>2, DigestType
  <2>4. ~ Deleted(a)
    BY <1>1, <2>3, StillOpen
  <2>5. exist_account(LocalView, a)
    BY <1>3, <2>2, <2>4 DEF SenderExists
  <2> QED BY <1>1, <2>3, <2>5, ViewGrows
<1> QED BY <1>1, <1>2, <1>3, ThreadStep

\* A transfer_out that is proposed was built on the last unit of its account at the
\* time of the check, unless the account was deleted: the check that passes for an
\* account it does not find never meets one (xrpc_handler.cpp:477-505).
THEOREM BuiltOnLastUnitHolds == Spec => BuiltOnLastUnit
<1>1. ASSUME IInv, SenderExists, [Next]_vars, NEW w \in Worker,
             pc[w] = "out_get_last_hash", pc'[w] = "idle", rsp' = "xrpc_ok"
      PROVE  LET t == hashed[tx[w]]
             IN  \/ Deleted(t.sender)
                 \/ \E i \in last_unit(LocalView, t.sender) : DigestAt(i) = t.last
  <2>1. PICK t : t = hashed[tx[w]]
    OBVIOUS
  <2>2. transfer_out_last_hash(w) /\ TypeOK
    BY <1>1, ThreadStep, OutSteps DEF IInv
  <2>3. LastHashMatches(t)
    BY <1>1, <2>1, <2>2 DEF transfer_out_last_hash, set_result_fail, Answer
  <2>4. t.sender \in Account
    BY <1>1, <2>1, <2>2, BusyDigest, DigestType
  <2>5. ASSUME ~ Deleted(t.sender)
        PROVE  \E i \in last_unit(LocalView, t.sender) : DigestAt(i) = t.last
    <3>1. exist_account(LocalView, t.sender)
      BY <1>1, <2>1, <2>5 DEF SenderExists
    <3>2. PICK i \in last_unit(LocalView, t.sender) : TRUE
      BY <2>2, <2>4, <3>1, LastUnitFound
    <3> QED BY <2>3, <3>2 DEF LastHashMatches
  <2> QED BY <2>1, <2>5
<1>2. IInv /\ SenderExists /\ [Next]_vars
      => [\A w \in Worker :
             pc[w] = "out_get_last_hash" /\ pc'[w] = "idle" /\ rsp' = "xrpc_ok"
             => LET t == hashed[tx[w]]
                IN  \/ Deleted(t.sender)
                    \/ \E i \in last_unit(LocalView, t.sender) : DigestAt(i) = t.last]_vars
  BY <1>1
<1>3. Init => SenderExists
  BY DEF Init, SenderExists
<1>4. IInv /\ SenderExists /\ [Next]_vars => SenderExists'
  BY SenderExistsNext
<1> QED BY ChainInvariant, <1>2, <1>3, <1>4, PTL DEF Spec, BuiltOnLastUnit
=============================================================================
