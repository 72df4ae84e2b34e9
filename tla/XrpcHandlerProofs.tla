------------------------- MODULE XrpcHandlerProofs -------------------------
(***************************************************************************)
(* Proofs about XrpcHandler, for every set of accounts and threads, every  *)
(* amount and every bound: the types, and the inductive invariant on the   *)
(* decisions of an account that FaucetProofs and TransferProofs build on.  *)
(***************************************************************************)
EXTENDS XrpcHandler, WellFoundedInduction, TLAPS
-----------------------------------------------------------------------------
(* The inductive invariant *)

\* The store forgets only what it has applied; what this node has not deleted
\* the network has not deleted either.
DeletionInv ==
    /\ applied > 0
    /\ \A a \in Account :
          /\ localFrom[a] <= applied
          /\ ~ Deleted(a) => netFrom[a] = 0 /\ a \notin deletions

\* The decisions of an account start with its creation, and each has a greater
\* digest than the ones before it.
ChainInv ==
    \A a \in Account : ~ Deleted(a) =>
        \A k \in DOMAIN log : TxAt(k).sender = a =>
            /\ \E c \in 1..k : TxAt(c).sender = a /\ TxAt(c).type = "create_account"
            /\ \A i \in 1..(k - 1) : TxAt(i).sender = a => DigestAt(i) < DigestAt(k)

IInv == TypeOK /\ DeletionInv /\ ChainInv

\* Decision i is the unit of t's sender that t was built upon.
BuiltOn(t, i) ==
    /\ i \in 1..applied
    /\ TxAt(i).sender = t.sender
    /\ DigestAt(i) = t.last

\* Where a thread is in a give, and where in a transfer_out.
GivePc == {"give_exist_account", "give_get_receive_blocks", "give_get_settle_blocks"}
OutPc == {"out_get_account_balance", "out_get_last_hash"}
-----------------------------------------------------------------------------
(* Types *)

\* What a step may do to hashed: digests keep their contents, and new contents
\* name only older digests.
HashedGrows ==
    /\ hashed' \in Seq(Content)
    /\ Len(hashed) <= Len(hashed')
    /\ \A e \in 1..Len(hashed) : hashed'[e] = hashed[e]
    /\ \A e \in 1..Len(hashed') : hashed'[e].last < e /\ hashed'[e].origin < e

LEMMA HashedStays ==
    ASSUME TypeOK, UNCHANGED hashed
    PROVE  HashedGrows
BY DEF HashedGrows, TypeOK, LedgerTypeOK

\* sha256 gives a content that names existing digests a digest of its own.
LEMMA Sha256Digest ==
    ASSUME TypeOK,
           NEW c \in Content, c.last \in 0..Len(hashed), c.origin \in 0..Len(hashed),
           NEW d \in 1..MaxTx, sha256(c, d)
    PROVE  HashedGrows /\ d \in 1..Len(hashed') /\ hashed'[d] = c
<1>1. CASE d \in DOMAIN hashed /\ hashed[d] = c /\ UNCHANGED hashed
  BY <1>1 DEF HashedGrows, TypeOK, LedgerTypeOK
<1>2. CASE d = Len(hashed) + 1 /\ hashed' = Append(hashed, c)
  <2>1. hashed \in Seq(Content)
    BY DEF TypeOK, LedgerTypeOK
  <2>2. hashed' \in Seq(Content) /\ Len(hashed') = Len(hashed) + 1
    BY <1>2, <2>1
  <2>3. \A e \in 1..Len(hashed) : hashed'[e] = hashed[e]
    BY <1>2, <2>1
  <2>4. hashed'[d] = c
    BY <1>2, <2>1
  <2>5. \A e \in 1..Len(hashed) : hashed[e].last < e /\ hashed[e].origin < e
    BY <2>1 DEF TypeOK, LedgerTypeOK
  <2>6. c.last < d /\ c.origin < d
    BY <1>2, <2>1
  <2>7. \A e \in 1..Len(hashed') : hashed'[e].last < e /\ hashed'[e].origin < e
    BY <1>2, <2>1, <2>2, <2>3, <2>4, <2>5, <2>6
  <2> QED BY <1>2, <2>1, <2>2, <2>3, <2>4, <2>7 DEF HashedGrows
<1> QED BY <1>1, <1>2 DEF sha256

\* A step of a handler that leaves the decisions and the stores alone keeps the
\* types if the digest it works on is known.
HandlerStep(w, call, digest, sent, answer) ==
    /\ pc' = [pc EXCEPT ![w] = call]
    /\ tx' = [tx EXCEPT ![w] = digest]
    /\ rsp' = answer
    /\ proposals' = proposals \cup sent
    /\ UNCHANGED storeVars

Calls == {"idle"} \cup OutPc \cup {"in_get_last_hash"} \cup GivePc

Answers == {"none", "exception", "xrpc_ok", "xrpc_server_account_exist",
            "xrpc_server_account_not_found", "xrpc_last_hash_error",
            "xrpc_server_hash_signature_check_fail", "xrpc_no_property_key",
            "xrpc_server_account_balance_not_enough", "xrpc_already_give",
            "xrpc_property_key_not_valid", "xrpc_sender_receiver_the_same",
            "xrpc_server_action_invalid"}

LEMMA HandlerStepType ==
    ASSUME TypeOK, HashedGrows,
           NEW w \in Worker, NEW call \in Calls, NEW digest \in Nat,
           call # "idle" => digest \in 1..Len(hashed'),
           NEW sent \in SUBSET Proposal,
           \A p \in sent : p.digest \in 1..Len(hashed'),
           NEW answer \in Answers,
           HandlerStep(w, call, digest, sent, answer)
    PROVE  TypeOK'
<1>1. hashed' \in Seq(Content) /\ \A d \in DOMAIN hashed' : hashed'[d].last < d /\ hashed'[d].origin < d
  BY DEF HashedGrows
<1>2. DOMAIN hashed \subseteq DOMAIN hashed'
  BY <1>1 DEF HashedGrows, TypeOK, LedgerTypeOK
<1>3. (\A i \in DOMAIN log : DigestAt(i) \in DOMAIN hashed)'
  BY <1>2 DEF HandlerStep, storeVars, TypeOK, LedgerTypeOK, DigestAt
<1>4. proposals' \subseteq Proposal /\ \A p \in proposals' : p.digest \in DOMAIN hashed'
  BY <1>1, <1>2 DEF HandlerStep, TypeOK, LedgerTypeOK
<1>5. LedgerTypeOK'
  BY <1>1, <1>3, <1>4 DEF HandlerStep, storeVars, TypeOK, LedgerTypeOK
<1>6. pc' \in [Worker -> Calls] /\ tx' \in [Worker -> Nat] /\ rsp' \in Answers
  BY DEF HandlerStep, TypeOK, Calls, OutPc, GivePc
<1>7. \A v \in Worker : pc'[v] # "idle" => tx'[v] \in DOMAIN hashed'
  BY <1>1, <1>2 DEF HandlerStep, TypeOK
<1> QED BY <1>5, <1>6, <1>7 DEF TypeOK, Calls, OutPc, GivePc, Answers

LEMMA FailType ==
    ASSUME TypeOK, NEW w \in Worker, NEW code \in Answers, set_result_fail(w, code)
    PROVE  TypeOK' /\ HashedGrows
<1>1. HashedGrows
  BY HashedStays DEF set_result_fail
<1>2. HandlerStep(w, "idle", Zero, {}, code)
  BY DEF set_result_fail, Answer, HandlerStep, storeVars
<1> QED BY <1>1, <1>2, HandlerStepType DEF Calls, Zero

LEMMA SendType ==
    ASSUME TypeOK, HashedGrows, NEW w \in Worker, NEW d \in 1..Len(hashed'),
           NEW via \in {"account_create", "transfer_out", "give", "transfer_in",
                        "set_property"},
           do_transaction(w, d, via)
    PROVE  TypeOK'
<1> DEFINE p == [digest |-> d, via |-> via]
<1>1. p \in Proposal
  BY DEF Proposal, HashedGrows
<1>2. HandlerStep(w, "idle", Zero, {p}, "xrpc_ok")
  BY DEF do_transaction, Answer, HandlerStep
<1> QED BY <1>1, <1>2, HandlerStepType DEF Calls, Answers, Zero

LEMMA GotoType ==
    ASSUME TypeOK, HashedGrows, NEW w \in Worker, NEW d \in 1..Len(hashed'),
           NEW call \in Calls, Goto(w, call, d)
    PROVE  TypeOK'
<1>1. HandlerStep(w, call, d, {}, "none")
  BY DEF Goto, HandlerStep, storeVars
<1>2. d \in Nat
  BY DEF HashedGrows
<1> QED BY <1>1, <1>2, HandlerStepType DEF Answers

\* A last digest that the store or a client provides is zero or known.
LEMMA LastDigestKnown ==
    ASSUME TypeOK, NEW nohash, NEW a \in Account
    PROVE  last_digest_set(nohash, a) \subseteq 0..Len(hashed)
<1>1. last_unit(LocalView, a) \subseteq DOMAIN log
  BY DEF last_unit, get_settle_blocks, LocalView, TypeOK, LedgerTypeOK
<1>2. \A i \in DOMAIN log : DigestAt(i) \in 1..Len(hashed)
  BY DEF TypeOK, LedgerTypeOK
<1>3. ClientLastDigest(a) \subseteq 0..Len(hashed)
  BY DEF ClientLastDigest, Zero, TypeOK, LedgerTypeOK
<1> QED BY <1>1, <1>2, <1>3 DEF last_digest_set

\* What the requests build has the type of a content.
LEMMA ContentType ==
    ASSUME TypeOK, NEW a \in Account, NEW b \in Account, NEW key \in PropertyKey \cup {Asset},
           NEW amount \in Amount \cup {NotANumber}, NEW ts \in Timestamp,
           NEW digest \in 0..Len(hashed), NEW last \in 0..Len(hashed)
    PROVE  /\ transaction_make_transfer_out(a, b, key, amount, ts, last) \in Content
           /\ transaction_set_property(a, key, amount, ts, last) \in Content
           /\ transaction_make_transfer_in(a, ts, digest, last) \in Content
<1>1. last \in Nat /\ digest \in Nat /\ Zero \in Nat
  BY DEF Zero, TypeOK, LedgerTypeOK
<1> QED BY <1>1 DEF Content, transaction_make_transfer_out, transaction_set_property,
          transaction_make_transfer_in

\* Requests of one store call.
LEMMA AccountCreateType ==
    ASSUME TypeOK, NEW w \in Worker, account_create(w)
    PROVE  TypeOK' /\ HashedGrows
<1>1. PICK a \in Account, amount \in CreateAmount, ts \in Timestamp :
         LET t == transaction_make_account_create(a, amount, ts)
         IN  \/ \E code \in Answers : set_result_fail(w, code)
             \/ \E d \in 1..MaxTx :
                    sha256(t, d) /\ do_transaction(w, d, "account_create")
  BY DEF account_create, Answers
<1> DEFINE t == transaction_make_account_create(a, amount, ts)
<1>2. CASE \E code \in Answers : set_result_fail(w, code)
  BY <1>2, FailType
<1>3. CASE \E d \in 1..MaxTx : sha256(t, d) /\ do_transaction(w, d, "account_create")
  <2>1. PICK d \in 1..MaxTx : sha256(t, d) /\ do_transaction(w, d, "account_create")
    BY <1>3
  <2>2. Zero \in 0..Len(hashed)
    BY DEF Zero, TypeOK, LedgerTypeOK
  <2>3. t \in Content
    <3>1. (IF amount = Empty THEN 0 ELSE amount) \in Amount \cup {0, NotANumber}
      BY HandlerConstants
    <3> QED BY <3>1 DEF transaction_make_account_create, Content, Zero
  <2>4. t.last \in 0..Len(hashed) /\ t.origin \in 0..Len(hashed)
    BY <2>2 DEF transaction_make_account_create
  <2>5. HashedGrows /\ d \in 1..Len(hashed')
    BY <2>1, <2>3, <2>4, Sha256Digest
  <2> QED BY <2>1, <2>5, SendType
<1> QED BY <1>1, <1>2, <1>3

LEMMA SetPropertyType ==
    ASSUME TypeOK, NEW w \in Worker, set_property(w)
    PROVE  TypeOK' /\ HashedGrows
<1>1. CASE \E code \in Answers : set_result_fail(w, code)
  BY <1>1, FailType
<1>2. CASE \E a \in Account, key \in PropertyKey, value \in Amount, ts \in Timestamp :
             \E last \in last_digest_set(no_hash(a), a), d \in 1..MaxTx :
                /\ sha256(transaction_set_property(a, key, value, ts, last), d)
                /\ do_transaction(w, d, "set_property")
  <2>1. PICK a \in Account, key \in PropertyKey, value \in Amount, ts \in Timestamp :
             \E last \in last_digest_set(no_hash(a), a), d \in 1..MaxTx :
                /\ sha256(transaction_set_property(a, key, value, ts, last), d)
                /\ do_transaction(w, d, "set_property")
    BY <1>2
  <2>2. PICK last \in last_digest_set(no_hash(a), a), d \in 1..MaxTx :
                /\ sha256(transaction_set_property(a, key, value, ts, last), d)
                /\ do_transaction(w, d, "set_property")
    BY <2>1
  <2> DEFINE t == transaction_set_property(a, key, value, ts, last)
  <2>3. last \in 0..Len(hashed) /\ 0 \in 0..Len(hashed)
    BY <2>2, LastDigestKnown DEF TypeOK, LedgerTypeOK
  <2>4. t \in Content
    BY <2>3, ContentType
  <2>5. t.last \in 0..Len(hashed) /\ t.origin \in 0..Len(hashed)
    BY <2>3 DEF transaction_set_property, Zero
  <2>6. HashedGrows /\ d \in 1..Len(hashed')
    BY <2>2, <2>4, <2>5, Sha256Digest
  <2> QED BY <2>2, <2>6, SendType
<1> QED BY <1>1, <1>2 DEF set_property, Answers

LEMMA AccountDeleteType ==
    ASSUME TypeOK, NEW w \in Worker, account_delete(w)
    PROVE  TypeOK' /\ HashedGrows
<1>1. HashedGrows
  BY HashedStays DEF account_delete
<1>2. LedgerTypeOK'
  BY HandlerConstants DEF account_delete, TypeOK, LedgerTypeOK, DigestAt
<1> QED BY <1>1, <1>2 DEF account_delete, Answer, TypeOK, Zero

\* transfer_out.
LEMMA TransferOutType ==
    ASSUME TypeOK, NEW w \in Worker, transfer_out(w)
    PROVE  TypeOK' /\ HashedGrows
<1>1. CASE \E code \in Answers : set_result_fail(w, code)
  BY <1>1, FailType
<1>2. ASSUME NEW src \in Account, NEW dst \in Account, NEW key \in {Asset, "@name"},
             NEW amount \in Amount \cup {NotANumber}, NEW ts \in Timestamp,
             NEW last \in last_digest_set(no_hash(src), src), NEW d \in 1..MaxTx,
             sha256(transaction_make_transfer_out(src, dst, key, amount, ts, last), d),
             Goto(w, "out_get_account_balance", d)
      PROVE  TypeOK' /\ HashedGrows
  <2> DEFINE t == transaction_make_transfer_out(src, dst, key, amount, ts, last)
  <2>1. last \in 0..Len(hashed) /\ 0 \in 0..Len(hashed)
    BY LastDigestKnown DEF TypeOK, LedgerTypeOK
  <2>2. t \in Content
    BY <2>1, ContentType DEF PropertyKey
  <2>3. t.last \in 0..Len(hashed) /\ t.origin \in 0..Len(hashed)
    BY <2>1 DEF transaction_make_transfer_out, Zero
  <2>4. HashedGrows /\ d \in 1..Len(hashed')
    BY <1>2, <2>2, <2>3, Sha256Digest
  <2> QED BY <1>2, <2>4, GotoType DEF Calls, OutPc
<1> QED BY <1>1, <1>2 DEF transfer_out, Answers

\* A thread that is not idle works on a digest that is known.
LEMMA BusyDigest ==
    ASSUME TypeOK, NEW w \in Worker, pc[w] # "idle"
    PROVE  tx[w] \in 1..Len(hashed)
BY DEF TypeOK, LedgerTypeOK

\* A later step of a request that hashes nothing.
LEMMA LaterStepType ==
    ASSUME TypeOK, NEW w \in Worker, pc[w] # "idle",
           \/ \E code \in Answers : set_result_fail(w, code)
           \/ \E call \in Calls : Goto(w, call, tx[w]) /\ UNCHANGED hashed
           \/ \E via \in {"transfer_out", "give", "transfer_in"} :
                 do_transaction(w, tx[w], via) /\ UNCHANGED hashed
    PROVE  TypeOK' /\ HashedGrows
<1>1. CASE \E code \in Answers : set_result_fail(w, code)
  BY <1>1, FailType
<1>2. CASE \E call \in Calls : Goto(w, call, tx[w]) /\ UNCHANGED hashed
  BY <1>2, HashedStays, BusyDigest, GotoType
<1>3. CASE \E via \in {"transfer_out", "give", "transfer_in"} :
              do_transaction(w, tx[w], via) /\ UNCHANGED hashed
  BY <1>3, HashedStays, BusyDigest, SendType
<1> QED BY <1>1, <1>2, <1>3

\* transfer_in.
LEMMA TransferInType ==
    ASSUME TypeOK, NEW w \in Worker, transfer_in(w)
    PROVE  TypeOK' /\ HashedGrows
<1>1. CASE \E code \in Answers : set_result_fail(w, code)
  BY <1>1, FailType
<1>2. ASSUME NEW a \in Account, NEW ts \in Timestamp,
             NEW last \in last_digest_set(no_hash(a), a),
             NEW digest \in ClientTxDigest(a), NEW d \in 1..MaxTx,
             sha256(transaction_make_transfer_in(a, ts, digest, last), d),
             Goto(w, "in_get_last_hash", d)
      PROVE  TypeOK' /\ HashedGrows
  <2> DEFINE t == transaction_make_transfer_in(a, ts, digest, last)
  <2>1. last \in 0..Len(hashed)
    BY LastDigestKnown
  <2>2. digest \in 0..Len(hashed)
    BY DEF ClientTxDigest, TypeOK, LedgerTypeOK
  <2>3. \E amount : amount \in Amount \cup {NotANumber}
    BY LedgerConstants
  <2>4. t \in Content
    BY <2>1, <2>2, <2>3, ContentType DEF PropertyKey
  <2>5. t.last \in 0..Len(hashed) /\ t.origin \in 0..Len(hashed)
    BY <2>1, <2>2 DEF transaction_make_transfer_in
  <2>6. HashedGrows /\ d \in 1..Len(hashed')
    BY <1>2, <2>4, <2>5, Sha256Digest
  <2> QED BY <1>2, <2>6, GotoType DEF Calls
<1> QED BY <1>1, <1>2 DEF transfer_in, Answers

\* give.
LEMMA GiveType ==
    ASSUME TypeOK, NEW w \in Worker, give(w)
    PROVE  TypeOK' /\ HashedGrows
<1>1. CASE \E code \in Answers : set_result_fail(w, code)
  BY <1>1, FailType
<1>2. ASSUME NEW dst \in Account, NEW ts \in Timestamp,
             NEW last \in last_digest_set(TRUE, Genesis), NEW d \in 1..MaxTx,
             sha256(transaction_make_transfer_out(Genesis, dst, Asset, GiveAmount, ts, last), d),
             Goto(w, "give_exist_account", d)
      PROVE  TypeOK' /\ HashedGrows
  <2> DEFINE t == transaction_make_transfer_out(Genesis, dst, Asset, GiveAmount, ts, last)
  <2>1. last \in 0..Len(hashed) /\ 0 \in 0..Len(hashed)
    <3>1. Genesis \in Account
      BY LedgerConstants
    <3>2. last_digest_set(TRUE, Genesis) \subseteq 0..Len(hashed)
      BY <3>1, LastDigestKnown, Zenon
    <3>3. last \in 0..Len(hashed)
      BY <3>2, Zenon
    <3> QED BY <3>3 DEF TypeOK, LedgerTypeOK
  <2>2. t \in Content
    BY <2>1, ContentType, LedgerConstants, HandlerConstants DEF PropertyKey
  <2>3. t.last \in 0..Len(hashed) /\ t.origin \in 0..Len(hashed)
    BY <2>1 DEF transaction_make_transfer_out, Zero
  <2>4. HashedGrows /\ d \in 1..Len(hashed')
    BY <1>2, <2>2, <2>3, Sha256Digest
  <2> QED BY <1>2, <2>4, GotoType DEF Calls, GivePc
<1> QED BY <1>1, <1>2 DEF give, Answers

\* All steps of the handlers.
LEMMA HandlerType ==
    ASSUME TypeOK, NEW w \in Worker, HandlerNext(w)
    PROVE  TypeOK' /\ HashedGrows
<1>1. CASE account_create(w)
  BY <1>1, AccountCreateType
<1>2. CASE set_property(w)
  BY <1>2, SetPropertyType
<1>3. CASE account_delete(w)
  BY <1>3, AccountDeleteType
<1>4. CASE transfer_out(w)
  BY <1>4, TransferOutType
<1>5. CASE transfer_out_balance(w)
  BY <1>5, LaterStepType DEF transfer_out_balance, Answers, Calls, OutPc
<1>6. CASE transfer_out_last_hash(w)
  BY <1>6, LaterStepType DEF transfer_out_last_hash, Answers
<1>7. CASE transfer_in(w)
  BY <1>7, TransferInType
<1>8. CASE transfer_in_last_hash(w)
  BY <1>8, LaterStepType DEF transfer_in_last_hash, Answers
<1>9. CASE give(w)
  BY <1>9, GiveType
<1>10. CASE give_exist_account(w)
  BY <1>10, LaterStepType DEF give_exist_account, Answers, Calls, GivePc
<1>11. CASE give_receive(w)
  BY <1>11, LaterStepType DEF give_receive, Answers, Calls, GivePc
<1>12. CASE give_settle(w)
  BY <1>12, LaterStepType DEF give_settle, Answers
<1>13. CASE action_invalid(w)
  BY <1>13, FailType DEF action_invalid, Answers
<1> QED BY <1>1, <1>2, <1>3, <1>4, <1>5, <1>6, <1>7, <1>8, <1>9, <1>10, <1>11, <1>12, <1>13
        DEF HandlerNext

LEMMA DigestType ==
    ASSUME TypeOK, NEW d \in 1..Len(hashed)
    PROVE  /\ hashed[d] \in Content
           /\ hashed[d].params \in Int
           /\ hashed[d].sender \in Account
           /\ hashed[d].receiver \in Account
           /\ hashed[d].last \in Nat
           /\ hashed[d].last < d
<1>1. hashed \in Seq(Content) /\ hashed[d].last < d
  BY DEF TypeOK, LedgerTypeOK
<1>2. hashed[d] \in Content
  BY <1>1
<1>3. \A c \in Content : /\ c.params \in Int /\ c.last \in Nat
                         /\ c.sender \in Account /\ c.receiver \in Account
  <2>1. Amount \cup {0, NotANumber} \subseteq Int
    BY LedgerConstants
  <2>2. \A c \in Content : /\ c.params \in Amount \cup {0, NotANumber} /\ c.last \in Nat
                           /\ c.sender \in Account /\ c.receiver \in Account
    BY DEF Content
  <2> QED BY <2>1, <2>2
<1> QED BY <1>1, <1>2, <1>3

LEMMA ProposalDigest ==
    ASSUME TypeOK, NEW p \in proposals
    PROVE  p.digest \in 1..Len(hashed)
BY DEF TypeOK, LedgerTypeOK

\* The decided transactions have contents.
LEMMA TxAtType ==
    ASSUME TypeOK, NEW k \in DOMAIN log
    PROVE  /\ DigestAt(k) \in 1..Len(hashed)
           /\ TxAt(k) \in Content
           /\ TxAt(k).params \in Int
           /\ log[k].balance \in Int
<1>1. DigestAt(k) \in DOMAIN hashed /\ DOMAIN hashed = 1..Len(hashed)
  BY DEF TypeOK, LedgerTypeOK
<1>2. log[k].balance \in Int
  <2>1. log[k] \in Entry
    BY DEF TypeOK, LedgerTypeOK
  <2> QED BY <2>1 DEF Entry
<1> QED BY <1>1, <1>2, DigestType DEF TxAt

\* What the stores are asked for was decided.
LEMMA ViewDecided ==
    ASSUME TypeOK, NEW a \in Account
    PROVE  /\ get_settle_blocks(LocalView, a) \subseteq 1..applied
           /\ get_receive_blocks(LocalView, a) \subseteq 1..applied
           /\ last_unit(LocalView, a) \subseteq 1..applied
           /\ get_settle_blocks(NetView, a) \subseteq DOMAIN log
           /\ get_receive_blocks(NetView, a) \subseteq DOMAIN log
           /\ last_unit(NetView, a) \subseteq DOMAIN log
           /\ 1..applied \subseteq DOMAIN log
<1>1. localFrom[a] \in Nat /\ netFrom[a] \in Nat /\ log \in Seq(Entry) /\ applied \in 0..Len(log)
  BY DEF TypeOK, LedgerTypeOK
<1>2. LocalView.from[a] = localFrom[a] /\ LocalView.upto = applied
  BY DEF LocalView
<1>3. NetView.from[a] = netFrom[a] /\ NetView.upto = Len(log)
  BY DEF NetView
<1>4. (localFrom[a] + 1)..applied \subseteq 1..applied
  BY <1>1
<1>5. (netFrom[a] + 1)..Len(log) \subseteq DOMAIN log /\ 1..applied \subseteq DOMAIN log
  BY <1>1
<1> QED BY <1>2, <1>3, <1>4, <1>5 DEF get_settle_blocks, get_receive_blocks, last_unit

\* A set of places in the log has a last one.
LEMMA LastOf ==
    ASSUME NEW n \in Nat, NEW S, S \subseteq 1..n, S # {}
    PROVE  \E i \in S : \A k \in S : k <= i
<1> DEFINE T == {m \in Nat : n - m \in S}
<1>1. T \subseteq Nat /\ T # {}
  <2>1. PICK i \in S : TRUE
    OBVIOUS
  <2>2. n - i \in Nat /\ n - (n - i) = i
    BY <2>1
  <2> QED BY <2>1, <2>2
<1> HIDE DEF T
<1>2. IsWellFoundedOn(OpToRel(<, Nat), Nat)
  BY NatLessThanWellFounded, Zenon
<1>3. PICK m \in T : \A y \in T : ~ (<<y, m>> \in OpToRel(<, Nat))
  BY <1>1, <1>2, WFMin, Zenon
<1>4. \A y \in T : ~ (y < m)
  <2>1. ASSUME NEW y \in T, y < m PROVE FALSE
    <3>1. <<y, m>> \in OpToRel(<, Nat)
      BY <1>1, <2>1 DEF OpToRel
    <3> QED BY <1>3, <3>1, Zenon
  <2> QED BY <2>1
<1>5. n - m \in S /\ m \in Nat
  BY DEF T
<1>6. ASSUME NEW k \in S PROVE k <= n - m
  <2>1. n - k \in T /\ k \in Int
    <3>1. n - k \in Nat /\ n - (n - k) = k
      BY <1>6
    <3> QED BY <3>1 DEF T
  <2> QED BY <1>4, <1>5, <2>1
<1> QED BY <1>5, <1>6

\* get_account_snap_info finds a last unit exactly for an account that exists.
LEMMA LastUnitFound ==
    ASSUME TypeOK, NEW a \in Account, exist_account(LocalView, a)
    PROVE  \E i \in last_unit(LocalView, a) : \A k \in get_settle_blocks(LocalView, a) : k <= i
<1>1. get_settle_blocks(LocalView, a) \subseteq 1..applied /\ applied \in Nat
  BY ViewDecided DEF TypeOK, LedgerTypeOK
<1>2. get_settle_blocks(LocalView, a) # {}
  BY DEF exist_account
<1>3. PICK i \in get_settle_blocks(LocalView, a) :
         \A k \in get_settle_blocks(LocalView, a) : k <= i
  BY <1>1, <1>2, LastOf
<1> QED BY <1>3 DEF last_unit

\* The network and the store.
LEMMA LedgerType ==
    ASSUME TypeOK, LedgerNext, UNCHANGED <<pc, tx>>, rsp' = "none"
    PROVE  TypeOK' /\ HashedGrows
<1>1. HashedGrows
  BY HashedStays DEF LedgerNext, DecideCreate, DecideNext, DecideOn, Decide, update_event, NetworkDelete
<1>2. ASSUME NEW p \in proposals, NEW balance \in Int, Decide(p, balance)
      PROVE  LedgerTypeOK'
  <2> DEFINE e == [tx |-> p, balance |-> balance]
  <2>1. e \in Entry /\ log \in Seq(Entry)
    BY DEF Entry, TypeOK, LedgerTypeOK
  <2>2. log' = Append(log, e)
    BY <1>2 DEF Decide
  <2>3. log' \in Seq(Entry) /\ Len(log') = Len(log) + 1
    BY <2>1, <2>2
  <2>4. \A i \in DOMAIN log' : DigestAt(i)' \in DOMAIN hashed'
    BY <1>2, <2>1, <2>2, <2>3 DEF Decide, DigestAt, TypeOK, LedgerTypeOK
  <2> QED BY <1>2, <2>3, <2>4 DEF Decide, TypeOK, LedgerTypeOK
<1>3. CASE \E p \in proposals : DecideCreate(p)
  <2>1. PICK p \in proposals : DecideCreate(p)
    BY <1>3
  <2>2. hashed[p.digest].params \in Int
    BY ProposalDigest, DigestType
  <2>3. LedgerTypeOK'
    BY <2>1, <2>2, <1>2 DEF DecideCreate
  <2> QED BY <1>1, <2>1, <2>3 DEF TypeOK, DecideCreate, Decide
<1>4. CASE \E p \in proposals : DecideNext(p)
  <2>1. PICK p \in proposals : DecideNext(p)
    BY <1>4
  <2> DEFINE t == hashed[p.digest]
  <2>2. PICK i \in last_unit(NetView, t.sender) : DecideOn(p, t, i)
    BY <2>1 DEF DecideNext
  <2>3. t \in Content /\ t.params \in Int /\ t.sender \in Account
    BY ProposalDigest, DigestType
  <2>4. i \in DOMAIN log /\ log[i].balance \in Int
    BY <2>2, <2>3, ViewDecided, TxAtType
  <2>5. \A k \in get_receive_blocks(NetView, t.sender) : TxAt(k).params \in Int
    BY <2>3, ViewDecided, TxAtType
  <2>6. PICK balance \in Int : Decide(p, balance)
    BY <2>2, <2>3, <2>4, <2>5 DEF DecideOn
  <2>7. LedgerTypeOK'
    BY <2>6, <1>2
  <2> QED BY <1>1, <2>6, <2>7 DEF TypeOK, Decide
<1>5. CASE update_event
  BY <1>1, <1>5 DEF update_event, TypeOK, LedgerTypeOK, DigestAt
<1>6. CASE \E a \in Account : NetworkDelete(a)
  <2>1. LedgerTypeOK'
    BY <1>6 DEF NetworkDelete, TypeOK, LedgerTypeOK, DigestAt
  <2> QED BY <1>1, <1>6, <2>1 DEF NetworkDelete, TypeOK
<1> QED BY <1>1, <1>3, <1>4, <1>5, <1>6 DEF LedgerNext

LEMMA TypeInit ==
    Init => TypeOK
<1> SUFFICES ASSUME Init PROVE TypeOK
  OBVIOUS
<1>1. genesis_account_create \in Content
  BY LedgerConstants DEF genesis_account_create, Content, Zero
<1>2. [tx |-> [digest |-> 1, via |-> "genesis"], balance |-> GenesisAmount] \in Entry
  BY LedgerConstants DEF Entry, Proposal
<1>3. hashed \in Seq(Content) /\ log \in Seq(Entry) /\ Len(log) = 1
  BY <1>1, <1>2 DEF Init, LedgerInit
<1>4. \A d \in DOMAIN hashed : d = 1 /\ hashed[d].last < d /\ hashed[d].origin < d
  BY DEF Init, LedgerInit, genesis_account_create, Zero
<1>5. \A i \in DOMAIN log : DigestAt(i) \in DOMAIN hashed
  BY DEF Init, LedgerInit, DigestAt
<1>6. LedgerTypeOK
  BY <1>3, <1>4, <1>5 DEF Init, LedgerInit, LedgerTypeOK
<1> QED BY <1>6 DEF Init, TypeOK, Zero

LEMMA TypeNext ==
    TypeOK /\ [Next]_vars => TypeOK' /\ HashedGrows
<1> SUFFICES ASSUME TypeOK, [Next]_vars PROVE TypeOK' /\ HashedGrows
  OBVIOUS
<1>1. CASE \E w \in Worker : HandlerNext(w)
  BY <1>1, HandlerType
<1>2. CASE LedgerNext /\ rsp' = "none" /\ UNCHANGED <<pc, tx>>
  BY <1>2, LedgerType
<1>3. CASE UNCHANGED vars
  <2>1. HashedGrows
    BY <1>3, HashedStays DEF vars, ledgerVars
  <2> QED BY <1>3, <2>1 DEF vars, ledgerVars, TypeOK, LedgerTypeOK, DigestAt
<1> QED BY <1>1, <1>2, <1>3 DEF Next

\* Every variable keeps to its type, and what is under way, proposed or decided
\* has a digest that was computed (xrpc_handler.cpp, all requests).
THEOREM TypeCorrect == Spec => []TypeOK
<1>1. TypeOK /\ [Next]_vars => TypeOK'
  BY TypeNext
<1> QED BY TypeInit, <1>1, PTL DEF Spec
-----------------------------------------------------------------------------
(* How the decisions grow *)

\* No request decides a transaction or changes what the network has deleted.
LEMMA HandlerKeepsLog ==
    ASSUME NEW w \in Worker, HandlerNext(w)
    PROVE  UNCHANGED <<log, applied, netFrom>>
<1>1. CASE account_create(w)
  BY <1>1 DEF account_create, set_result_fail, do_transaction, Goto, storeVars
<1>2. CASE set_property(w)
  BY <1>2 DEF set_property, set_result_fail, do_transaction, Goto, storeVars
<1>3. CASE account_delete(w)
  BY <1>3 DEF account_delete, set_result_fail, do_transaction, Goto, storeVars
<1>4. CASE transfer_out(w)
  BY <1>4 DEF transfer_out, set_result_fail, do_transaction, Goto, storeVars
<1>5. CASE transfer_out_balance(w)
  BY <1>5 DEF transfer_out_balance, set_result_fail, do_transaction, Goto, storeVars
<1>6. CASE transfer_out_last_hash(w)
  BY <1>6 DEF transfer_out_last_hash, set_result_fail, do_transaction, Goto, storeVars
<1>7. CASE transfer_in(w)
  BY <1>7 DEF transfer_in, set_result_fail, do_transaction, Goto, storeVars
<1>8. CASE transfer_in_last_hash(w)
  BY <1>8 DEF transfer_in_last_hash, set_result_fail, do_transaction, Goto, storeVars
<1>9. CASE give(w)
  BY <1>9 DEF give, set_result_fail, do_transaction, Goto, storeVars
<1>10. CASE give_exist_account(w)
  BY <1>10 DEF give_exist_account, set_result_fail, do_transaction, Goto, storeVars
<1>11. CASE give_receive(w)
  BY <1>11 DEF give_receive, set_result_fail, do_transaction, Goto, storeVars
<1>12. CASE give_settle(w)
  BY <1>12 DEF give_settle, set_result_fail, do_transaction, Goto, storeVars
<1>13. CASE action_invalid(w)
  BY <1>13 DEF action_invalid, set_result_fail, Goto, storeVars
<1> QED BY <1>1, <1>2, <1>3, <1>4, <1>5, <1>6, <1>7, <1>8, <1>9, <1>10, <1>11, <1>12, <1>13
        DEF HandlerNext

\* Decisions and digests are never changed or taken back.
LEMMA LogGrows ==
    ASSUME TypeOK, [Next]_vars
    PROVE  /\ DOMAIN log = 1..Len(log) /\ DOMAIN log' = 1..Len(log')
           /\ Len(log) \in Nat /\ Len(log') \in Nat
           /\ Len(log) <= Len(log') /\ applied <= applied'
           /\ applied \in 0..Len(log) /\ applied' \in 0..Len(log')
           /\ \A i \in 1..Len(log) : /\ log'[i] = log[i]
                                     /\ DigestAt(i)' = DigestAt(i)
                                     /\ TxAt(i)' = TxAt(i)
<1>1. log \in Seq(Entry) /\ applied \in 0..Len(log)
  BY DEF TypeOK, LedgerTypeOK
<1>2. /\ Len(log) <= Len(log') /\ applied <= applied'
      /\ \A i \in 1..Len(log) : log'[i] = log[i]
  <2>1. CASE UNCHANGED <<log, applied>>
    BY <1>1, <2>1
  <2>2. CASE update_event
    BY <1>1, <2>2 DEF update_event
  <2>3. ASSUME NEW p \in proposals, NEW balance, Decide(p, balance)
        PROVE  /\ Len(log) <= Len(log') /\ applied <= applied'
               /\ \A i \in 1..Len(log) : log'[i] = log[i]
    BY <1>1, <2>3 DEF Decide
  <2>4. \/ UNCHANGED <<log, applied>>
        \/ update_event
        \/ \E p \in proposals : \E balance : Decide(p, balance)
    <3>1. CASE \E w \in Worker : HandlerNext(w)
      BY <3>1, HandlerKeepsLog
    <3>2. CASE LedgerNext
      BY <3>2 DEF LedgerNext, DecideCreate, DecideNext, DecideOn, NetworkDelete
    <3>3. CASE UNCHANGED vars
      BY <3>3 DEF vars, ledgerVars
    <3> QED BY <3>1, <3>2, <3>3 DEF Next
  <2> QED BY <2>1, <2>2, <2>3, <2>4
<1>3. TypeOK' /\ HashedGrows
  BY TypeNext
<1>4. log' \in Seq(Entry) /\ applied' \in 0..Len(log')
  BY <1>3 DEF TypeOK, LedgerTypeOK
<1>5. \A i \in 1..Len(log) : DigestAt(i)' = DigestAt(i) /\ DigestAt(i) \in 1..Len(hashed)
  BY <1>1, <1>2, TxAtType DEF DigestAt
<1>6. \A i \in 1..Len(log) : TxAt(i)' = TxAt(i)
  BY <1>3, <1>5 DEF TxAt, HashedGrows
<1> QED BY <1>1, <1>2, <1>4, <1>5, <1>6

\* The decisions grow by a decision of the network only.
LEMMA NewDecision ==
    ASSUME [Next]_vars, log' # log
    PROVE  \E p \in proposals : DecideCreate(p) \/ DecideNext(p)
<1>1. CASE \E w \in Worker : HandlerNext(w)
  BY <1>1, HandlerKeepsLog
<1>2. CASE LedgerNext
  BY <1>2 DEF LedgerNext, update_event, NetworkDelete
<1>3. CASE UNCHANGED vars
  BY <1>3 DEF vars, ledgerVars
<1> QED BY <1>1, <1>2, <1>3 DEF Next

\* What a decision of the network does, and upon what it is made.
LEMMA DecisionStep ==
    ASSUME TypeOK, NEW p \in proposals, DecideCreate(p) \/ DecideNext(p),
           NEW n, n = Len(log) + 1
    PROVE  LET t == hashed[p.digest]
           IN  /\ Len(log') = n /\ log'[n].tx = p /\ DigestAt(n)' = p.digest /\ TxAt(n)' = t
               /\ n \in 1..MaxLog
               /\ UNCHANGED <<hashed, applied, localFrom, netFrom, deletions, proposals>>
               /\ \/ t.type = "create_account" /\ ~ exist_account(NetView, t.sender)
                  \/ /\ t.type # "create_account"
                     /\ \E h \in last_unit(NetView, t.sender) :
                           /\ DigestAt(h) = t.last
                           /\ t.type = "transfer_asset_out"
                              => log'[n].balance = log[h].balance - t.params
<1> DEFINE t == hashed[p.digest]
<1>1. log \in Seq(Entry)
  BY DEF TypeOK, LedgerTypeOK
<1>2. ASSUME NEW balance, Decide(p, balance)
      PROVE  /\ Len(log') = n /\ log'[n].tx = p /\ DigestAt(n)' = p.digest /\ TxAt(n)' = t
             /\ n \in 1..MaxLog
             /\ UNCHANGED <<hashed, applied, localFrom, netFrom, deletions, proposals>>
             /\ log'[n].balance = balance
  <2> DEFINE e == [tx |-> p, balance |-> balance]
  <2>1. log' = Append(log, e)
        /\ UNCHANGED <<hashed, applied, localFrom, netFrom, deletions, proposals>>
    BY <1>2 DEF Decide
  <2>2. Len(log') = n /\ log'[n] = e
    BY <1>1, <2>1
  <2>3. n \in 1..MaxLog
    BY <1>1, <1>2, LedgerConstants DEF Decide
  <2> QED BY <2>1, <2>2, <2>3 DEF DigestAt, TxAt
<1>3. CASE DecideCreate(p)
  BY <1>2, <1>3 DEF DecideCreate
<1>4. CASE DecideNext(p)
  <2>1. PICK h \in last_unit(NetView, t.sender) : DigestAt(h) = t.last /\ DecideOn(p, t, h)
    BY <1>4 DEF DecideNext
  <2>2. CASE t.type = "transfer_asset_out" /\ Decide(p, log[h].balance - t.params)
    BY <1>2, <2>1, <2>2
  <2>3. CASE t.type = "data_property_operation" /\ Decide(p, log[h].balance)
    BY <1>2, <2>1, <2>3
  <2>4. CASE t.type = "transfer_asset_in" /\ \E balance : Decide(p, balance)
    BY <1>2, <2>1, <2>4
  <2> QED BY <2>1, <2>2, <2>3, <2>4 DEF DecideOn
<1> QED BY <1>3, <1>4

\* The network's last unit of an account it has not deleted.
LEMMA NetworkUnits ==
    ASSUME TypeOK, NEW a \in Account, netFrom[a] = 0
    PROVE  /\ \A h \in last_unit(NetView, a) :
                 /\ h \in DOMAIN log /\ TxAt(h).sender = a
                 /\ \A k \in DOMAIN log : TxAt(k).sender = a => k <= h
           /\ \A k \in DOMAIN log :
                 TxAt(k).sender = a /\ TxAt(k).type = "create_account"
                 => exist_account(NetView, a)
<1>1. log \in Seq(Entry) /\ NetView.from[a] = 0 /\ NetView.upto = Len(log)
  BY DEF NetView, TypeOK, LedgerTypeOK
<1>2. get_settle_blocks(NetView, a) = {k \in DOMAIN log : TxAt(k).sender = a}
  BY <1>1 DEF get_settle_blocks
<1> QED BY <1>2 DEF last_unit, exist_account
-----------------------------------------------------------------------------
(* Deletions, and the chain of decisions of an account *)

\* Only account_delete changes the local store.
LEMMA HandlerKeepsStore ==
    ASSUME NEW w \in Worker, HandlerNext(w)
    PROVE  account_delete(w) \/ UNCHANGED <<localFrom, deletions>>
<1>1. CASE account_create(w)
  BY <1>1 DEF account_create, set_result_fail, do_transaction, Goto, storeVars
<1>2. CASE set_property(w)
  BY <1>2 DEF set_property, set_result_fail, do_transaction, Goto, storeVars
<1>3. CASE transfer_out(w)
  BY <1>3 DEF transfer_out, set_result_fail, do_transaction, Goto, storeVars
<1>4. CASE transfer_out_balance(w)
  BY <1>4 DEF transfer_out_balance, set_result_fail, do_transaction, Goto, storeVars
<1>5. CASE transfer_out_last_hash(w)
  BY <1>5 DEF transfer_out_last_hash, set_result_fail, do_transaction, Goto, storeVars
<1>6. CASE transfer_in(w)
  BY <1>6 DEF transfer_in, set_result_fail, do_transaction, Goto, storeVars
<1>7. CASE transfer_in_last_hash(w)
  BY <1>7 DEF transfer_in_last_hash, set_result_fail, do_transaction, Goto, storeVars
<1>8. CASE give(w)
  BY <1>8 DEF give, set_result_fail, do_transaction, Goto, storeVars
<1>9. CASE give_exist_account(w)
  BY <1>9 DEF give_exist_account, set_result_fail, do_transaction, Goto, storeVars
<1>10. CASE give_receive(w)
  BY <1>10 DEF give_receive, set_result_fail, do_transaction, Goto, storeVars
<1>11. CASE give_settle(w)
  BY <1>11 DEF give_settle, set_result_fail, do_transaction, Goto, storeVars
<1>12. CASE action_invalid(w)
  BY <1>12 DEF action_invalid, set_result_fail, Goto, storeVars
<1> QED BY <1>1, <1>2, <1>3, <1>4, <1>5, <1>6, <1>7, <1>8, <1>9, <1>10, <1>11, <1>12
        DEF HandlerNext

LEMMA DeletionNext ==
    ASSUME TypeOK, DeletionInv, [Next]_vars
    PROVE  /\ DeletionInv'
           /\ \A a \in Account : localFrom[a] <= localFrom'[a]
<1>1. localFrom \in [Account -> Nat] /\ netFrom \in [Account -> Nat] /\ applied \in Nat
  BY DEF TypeOK, LedgerTypeOK
<1>2. CASE UNCHANGED <<localFrom, netFrom, deletions, applied>>
  BY <1>1, <1>2 DEF DeletionInv, Deleted
<1>3. ASSUME NEW w \in Worker, account_delete(w)
      PROVE  DeletionInv' /\ \A a \in Account : localFrom[a] <= localFrom'[a]
  <2>1. PICK a \in Account : /\ localFrom' = [localFrom EXCEPT ![a] = applied]
                             /\ deletions' = deletions \cup {a}
                             /\ UNCHANGED <<applied, netFrom>>
    BY <1>3, HandlerConstants DEF account_delete
  <2>2. \A b \in Account : /\ localFrom'[b] = IF b = a THEN applied ELSE localFrom[b]
                           /\ localFrom[b] <= applied
    BY <1>1, <2>1 DEF DeletionInv
  <2>3. ASSUME NEW b \in Account, ~ (localFrom'[b] > 0)
        PROVE  netFrom[b] = 0 /\ b \notin deletions'
    <3>1. ~ (localFrom[b] > 0)
      BY <1>1, <2>2, <2>3
    <3>2. netFrom[b] = 0 /\ b \notin deletions
      BY <3>1 DEF DeletionInv, Deleted
    <3>3. b # a
      BY <1>1, <2>2, <2>3 DEF DeletionInv
    <3> QED BY <2>1, <3>2, <3>3
  <2> QED BY <1>1, <2>1, <2>2, <2>3 DEF DeletionInv, Deleted
<1>4. CASE LedgerNext
  <2>1. CASE \E p \in proposals : DecideCreate(p) \/ DecideNext(p)
    <3>1. UNCHANGED <<localFrom, netFrom, deletions, applied>>
      BY <2>1 DEF DecideCreate, DecideNext, DecideOn, Decide
    <3> QED BY <3>1, <1>2
  <2>2. CASE update_event
    BY <1>1, <2>2 DEF update_event, DeletionInv, Deleted
  <2>3. CASE \E a \in Account : NetworkDelete(a)
    BY <1>1, <2>3 DEF NetworkDelete, DeletionInv, Deleted
  <2> QED BY <1>4, <2>1, <2>2, <2>3 DEF LedgerNext
<1>5. CASE \E w \in Worker : HandlerNext(w)
  BY <1>2, <1>3, <1>5, HandlerKeepsLog, HandlerKeepsStore
<1>6. CASE UNCHANGED vars
  BY <1>2, <1>6 DEF vars, ledgerVars
<1> QED BY <1>4, <1>5, <1>6 DEF Next

\* A deleted account remains deleted, and an account that is not was not.
LEMMA StillOpen ==
    ASSUME TypeOK, DeletionInv, [Next]_vars, NEW a \in Account, ~ Deleted(a)'
    PROVE  ~ Deleted(a) /\ netFrom[a] = 0
<1>1. localFrom[a] \in Nat /\ localFrom'[a] \in Nat
  BY TypeNext DEF TypeOK, LedgerTypeOK
<1>2. localFrom[a] <= localFrom'[a]
  BY DeletionNext
<1>3. ~ Deleted(a)
  BY <1>1, <1>2 DEF Deleted
<1> QED BY <1>3 DEF DeletionInv

LEMMA ChainNext ==
    ASSUME TypeOK, DeletionInv, ChainInv, [Next]_vars
    PROVE  ChainInv'
<1> SUFFICES ASSUME NEW a \in Account, ~ Deleted(a)',
                    NEW k \in DOMAIN log', TxAt(k)'.sender = a
             PROVE  /\ \E c \in 1..k : TxAt(c)'.sender = a /\ TxAt(c)'.type = "create_account"
                    /\ \A i \in 1..(k - 1) :
                          TxAt(i)'.sender = a => DigestAt(i)' < DigestAt(k)'
  BY DEF ChainInv
<1>1. ~ Deleted(a) /\ netFrom[a] = 0
  BY StillOpen
<1>2. ASSUME NEW j \in 1..Len(log), TxAt(j).sender = a
      PROVE  /\ \E c \in 1..j : TxAt(c)'.sender = a /\ TxAt(c)'.type = "create_account"
             /\ \A i \in 1..(j - 1) :
                   TxAt(i)'.sender = a => DigestAt(i)' < DigestAt(j)'
  <2>1. j \in DOMAIN log /\ 1..j \subseteq 1..Len(log) /\ 1..(j - 1) \subseteq 1..Len(log)
    BY LogGrows
  <2>2. /\ \E c \in 1..j : TxAt(c).sender = a /\ TxAt(c).type = "create_account"
        /\ \A i \in 1..(j - 1) : TxAt(i).sender = a => DigestAt(i) < DigestAt(j)
    BY <1>1, <1>2, <2>1 DEF ChainInv
  <2> QED BY <2>1, <2>2, LogGrows
<1>3. CASE k \in 1..Len(log)
  BY <1>2, <1>3, LogGrows
<1>4. CASE k \notin 1..Len(log)
  <2>1. PICK p \in proposals : DecideCreate(p) \/ DecideNext(p)
    BY <1>4, LogGrows, NewDecision
  <2>2. k = Len(log) + 1 /\ DigestAt(k)' = p.digest /\ hashed[p.digest].sender = a
    BY <1>4, <2>1, DecisionStep, LogGrows
  <2>3. TxAt(k)' = hashed[p.digest] /\ Len(log') = k
    BY <2>1, <2>2, DecisionStep
  <2>4. CASE hashed[p.digest].type = "create_account" /\ ~ exist_account(NetView, a)
    <3>1. \A j \in 1..Len(log) : TxAt(j).sender # a
      BY <1>1, <2>4, NetworkUnits, LogGrows DEF ChainInv
    <3>2. \A i \in 1..(k - 1) : TxAt(i)'.sender # a
      BY <2>2, <3>1, LogGrows
    <3>3. k \in 1..k
      BY <2>2, LogGrows
    <3> QED BY <2>2, <2>3, <2>4, <3>2, <3>3
  <2>5. CASE \E h \in last_unit(NetView, a) : DigestAt(h) = hashed[p.digest].last
    <3>1. PICK h \in 1..Len(log) : /\ TxAt(h).sender = a /\ DigestAt(h) = hashed[p.digest].last
                                  /\ \A i \in 1..Len(log) : TxAt(i).sender = a => i <= h
      BY <1>1, <2>5, NetworkUnits, LogGrows
    <3>2. DigestAt(h) < p.digest /\ DigestAt(h) \in Nat /\ p.digest \in Nat
      BY <3>1, ProposalDigest, DigestType
    <3>3. PICK c \in 1..h : TxAt(c)'.sender = a /\ TxAt(c)'.type = "create_account"
      BY <1>2, <3>1
    <3>4. \A i \in 1..Len(log) : TxAt(i).sender = a => DigestAt(i) <= DigestAt(h) /\ DigestAt(i) \in Nat
      <4>1. \A i \in 1..Len(log) : DigestAt(i) \in Nat
        BY LogGrows, TxAtType
      <4>2. \A i \in 1..(h - 1) : TxAt(i).sender = a => DigestAt(i) < DigestAt(h)
        BY <1>1, <3>1, LogGrows DEF ChainInv
      <4>3. \A i \in 1..Len(log) : TxAt(i).sender = a => i \in 1..(h - 1) \/ i = h
        BY <3>1, LogGrows
      <4> QED BY <4>1, <4>2, <4>3
    <3>5. \A i \in 1..(k - 1) : TxAt(i)'.sender = a => DigestAt(i)' < DigestAt(k)'
      BY <2>2, <3>2, <3>4, LogGrows
    <3>6. c \in 1..k
      BY <2>2, <3>1, LogGrows
    <3> QED BY <3>3, <3>5, <3>6
  <2> QED BY <2>1, <2>2, <2>4, <2>5, DecisionStep
<1> QED BY <1>3, <1>4

LEMMA ChainInit ==
    Init => IInv
<1> SUFFICES ASSUME Init PROVE IInv
  OBVIOUS
<1>1. TypeOK /\ DOMAIN log = {1}
  BY TypeInit DEF Init, LedgerInit
<1>2. TxAt(1) = genesis_account_create
  BY DEF Init, LedgerInit, TxAt, DigestAt
<1>3. DeletionInv
  BY DEF Init, LedgerInit, DeletionInv, Deleted
<1>4. ChainInv
  BY <1>1, <1>2 DEF ChainInv, genesis_account_create
<1> QED BY <1>1, <1>3, <1>4 DEF IInv

LEMMA ChainInvariant == Spec => []IInv
<1>1. IInv /\ [Next]_vars => IInv'
  BY TypeNext, DeletionNext, ChainNext DEF IInv
<1> QED BY ChainInit, <1>1, PTL DEF Spec
-----------------------------------------------------------------------------
(* What the steps keep of a request under way *)

\* An account_delete forgets everything that was applied, no other step
\* forgets anything.
LEMMA LocalFromStep ==
    ASSUME TypeOK, [Next]_vars, NEW a \in Account
    PROVE  localFrom'[a] = localFrom[a] \/ localFrom'[a] = applied
<1>1. localFrom \in [Account -> Nat]
  BY DEF TypeOK, LedgerTypeOK
<1>2. CASE \E w \in Worker : account_delete(w)
  BY <1>1, <1>2 DEF account_delete
<1>3. CASE \E w \in Worker : HandlerNext(w) /\ ~ account_delete(w)
  BY <1>3, HandlerKeepsStore
<1>4. CASE LedgerNext
  BY <1>4 DEF LedgerNext, DecideCreate, DecideNext, DecideOn, Decide, update_event, NetworkDelete
<1>5. CASE UNCHANGED vars
  BY <1>5 DEF vars, ledgerVars
<1> QED BY <1>2, <1>3, <1>4, <1>5 DEF Next

LEMMA BuiltOnStays ==
    ASSUME TypeOK, [Next]_vars, NEW t, NEW i, BuiltOn(t, i)
    PROVE  BuiltOn(t, i)' /\ i \in DOMAIN log'
<1>1. i \in 1..Len(log) /\ i \in 1..applied' /\ i \in 1..Len(log')
  BY LogGrows DEF BuiltOn
<1> QED BY <1>1, LogGrows DEF BuiltOn

\* A transaction that was built on a unit of an account is decided upon that
\* unit, and then the account has no later one.
LEMMA DecidedOnBase ==
    ASSUME IInv, NEW a \in Account, ~ Deleted(a),
           NEW i \in 1..applied, TxAt(i).sender = a,
           NEW h \in last_unit(NetView, a), DigestAt(h) = DigestAt(i)
    PROVE  h = i /\ \A k \in DOMAIN log : TxAt(k).sender = a => k <= i
<1>1. TypeOK /\ netFrom[a] = 0 /\ i \in DOMAIN log
  BY ViewDecided DEF IInv, DeletionInv
<1>2. h \in DOMAIN log /\ TxAt(h).sender = a /\ \A k \in DOMAIN log : TxAt(k).sender = a => k <= h
  BY <1>1, NetworkUnits
<1>3. log \in Seq(Entry) /\ DigestAt(i) \in Nat
  BY <1>1, TxAtType DEF TypeOK, LedgerTypeOK
<1>4. i \notin 1..(h - 1)
  BY <1>2, <1>3 DEF IInv, ChainInv
<1>5. i = h
  BY <1>1, <1>2, <1>3, <1>4
<1> QED BY <1>2, <1>5

\* A thread is where it was, or took a step of its own.
LEMMA ThreadStep ==
    ASSUME TypeOK, [Next]_vars, NEW w \in Worker
    PROVE  HandlerNext(w) \/ (pc'[w] = pc[w] /\ tx'[w] = tx[w])
<1>1. pc \in [Worker -> Calls] /\ tx \in [Worker -> Nat]
  BY DEF TypeOK, Calls, OutPc, GivePc
<1>2. ASSUME NEW v \in Worker, HandlerNext(v), v # w
      PROVE  pc'[w] = pc[w] /\ tx'[w] = tx[w]
  <2>1. \E call, digest : /\ pc' = [pc EXCEPT ![v] = call]
                          /\ tx' = [tx EXCEPT ![v] = digest]
    <3>1. CASE account_create(v)
      BY <3>1 DEF account_create, set_result_fail, do_transaction, Goto, Answer
    <3>2. CASE set_property(v)
      BY <3>2 DEF set_property, set_result_fail, do_transaction, Goto, Answer
    <3>3. CASE account_delete(v)
      BY <3>3 DEF account_delete, set_result_fail, do_transaction, Goto, Answer
    <3>4. CASE transfer_out(v)
      BY <3>4 DEF transfer_out, set_result_fail, do_transaction, Goto, Answer
    <3>5. CASE transfer_out_balance(v)
      BY <3>5 DEF transfer_out_balance, set_result_fail, do_transaction, Goto, Answer
    <3>6. CASE transfer_out_last_hash(v)
      BY <3>6 DEF transfer_out_last_hash, set_result_fail, do_transaction, Goto, Answer
    <3>7. CASE transfer_in(v)
      BY <3>7 DEF transfer_in, set_result_fail, do_transaction, Goto, Answer
    <3>8. CASE transfer_in_last_hash(v)
      BY <3>8 DEF transfer_in_last_hash, set_result_fail, do_transaction, Goto, Answer
    <3>9. CASE give(v)
      BY <3>9 DEF give, set_result_fail, do_transaction, Goto, Answer
    <3>10. CASE give_exist_account(v)
      BY <3>10 DEF give_exist_account, set_result_fail, do_transaction, Goto, Answer
    <3>11. CASE give_receive(v)
      BY <3>11 DEF give_receive, set_result_fail, do_transaction, Goto, Answer
    <3>12. CASE give_settle(v)
      BY <3>12 DEF give_settle, set_result_fail, do_transaction, Goto, Answer
    <3>13. CASE action_invalid(v)
      BY <3>13 DEF action_invalid, set_result_fail, Goto, Answer
    <3> QED BY <1>2, <3>1, <3>2, <3>3, <3>4, <3>5, <3>6, <3>7, <3>8, <3>9, <3>10, <3>11, <3>12, <3>13
            DEF HandlerNext
  <2> QED BY <1>1, <1>2, <2>1
<1>3. CASE UNCHANGED vars
  BY <1>3 DEF vars
<1> QED BY <1>2, <1>3 DEF Next

\* The steps that lead a thread into a give or into a transfer_out.
LEMMA ThreadEnters ==
    ASSUME TypeOK, NEW w \in Worker, HandlerNext(w)
    PROVE  /\ pc'[w] \in GivePc => give(w) \/ give_exist_account(w) \/ give_receive(w)
           /\ pc'[w] \in OutPc => transfer_out(w) \/ transfer_out_balance(w)
<1>1. pc \in [Worker -> Calls]
  BY DEF TypeOK, Calls, OutPc, GivePc
<1>2. \A call : pc' = [pc EXCEPT ![w] = call] => pc'[w] = call
  BY <1>1
<1>3. CASE account_create(w)
  BY <1>2, <1>3 DEF account_create, set_result_fail, do_transaction, Goto, Answer, GivePc, OutPc
<1>4. CASE set_property(w)
  BY <1>2, <1>4 DEF set_property, set_result_fail, do_transaction, Goto, Answer, GivePc, OutPc
<1>5. CASE account_delete(w)
  BY <1>2, <1>5 DEF account_delete, set_result_fail, do_transaction, Goto, Answer, GivePc, OutPc
<1>6. CASE transfer_out_last_hash(w)
  BY <1>2, <1>6 DEF transfer_out_last_hash, set_result_fail, do_transaction, Goto, Answer, GivePc, OutPc
<1>7. CASE transfer_in(w)
  BY <1>2, <1>7 DEF transfer_in, set_result_fail, do_transaction, Goto, Answer, GivePc, OutPc
<1>8. CASE transfer_in_last_hash(w)
  BY <1>2, <1>8 DEF transfer_in_last_hash, set_result_fail, do_transaction, Goto, Answer, GivePc, OutPc
<1>9. CASE give_settle(w)
  BY <1>2, <1>9 DEF give_settle, set_result_fail, do_transaction, Goto, Answer, GivePc, OutPc
<1>10. CASE transfer_out(w)
  <2>1. \/ \E code : set_result_fail(w, code)
        \/ \E d \in 1..MaxTx : Goto(w, "out_get_account_balance", d)
    BY <1>10 DEF transfer_out
  <2>2. \/ pc' = [pc EXCEPT ![w] = "idle"]
        \/ pc' = [pc EXCEPT ![w] = "out_get_account_balance"]
    BY <2>1 DEF set_result_fail, Goto, Answer
  <2>3. pc'[w] \in {"idle", "out_get_account_balance"}
    BY <1>2, <2>2
  <2> QED BY <1>10, <2>3 DEF GivePc
<1>11. CASE transfer_out_balance(w)
  BY <1>2, <1>11 DEF transfer_out_balance, set_result_fail, Goto, Answer, GivePc
<1>12. CASE give(w)
  BY <1>2, <1>12 DEF give, set_result_fail, Goto, Answer, OutPc
<1>13. CASE give_exist_account(w)
  BY <1>2, <1>13 DEF give_exist_account, set_result_fail, Goto, Answer, OutPc
<1>14. CASE give_receive(w)
  BY <1>2, <1>14 DEF give_receive, set_result_fail, Goto, Answer, OutPc
<1>15. CASE action_invalid(w)
  BY <1>2, <1>15 DEF action_invalid, set_result_fail, Goto, Answer, GivePc, OutPc
<1> QED BY <1>3, <1>4, <1>5, <1>6, <1>7, <1>8, <1>9, <1>10, <1>11, <1>12, <1>13, <1>14, <1>15
        DEF HandlerNext

\* A step of a handler that leads a thread on with the transaction it has.
LEMMA GoesOn ==
    ASSUME TypeOK, NEW w \in Worker, NEW call, NEW digest, Goto(w, call, digest)
    PROVE  pc'[w] = call /\ tx'[w] = digest
BY DEF Goto, TypeOK

LEMMA Fails ==
    ASSUME TypeOK, NEW w \in Worker, NEW code, set_result_fail(w, code)
    PROVE  pc'[w] = "idle"
BY DEF set_result_fail, Answer, TypeOK

\* The steps that propose what a give or a transfer_out has built.
LEMMA NewProposal ==
    ASSUME [Next]_vars, NEW p \in proposals', p \notin proposals
    PROVE  /\ p.via = "give" =>
                 \E w \in Worker : give_settle(w) /\ p.digest = tx[w]
                                   /\ do_transaction(w, tx[w], "give")
           /\ p.via = "transfer_out" =>
                 \E w \in Worker : transfer_out_last_hash(w) /\ p.digest = tx[w]
                                   /\ do_transaction(w, tx[w], "transfer_out")
<1>1. CASE LedgerNext
  BY <1>1 DEF LedgerNext, DecideCreate, DecideNext, DecideOn, Decide, update_event, NetworkDelete
<1>2. CASE UNCHANGED vars
  BY <1>2 DEF vars, ledgerVars
<1>3. ASSUME NEW w \in Worker, HandlerNext(w)
      PROVE  /\ p.via = "give" =>
                   give_settle(w) /\ p.digest = tx[w] /\ do_transaction(w, tx[w], "give")
             /\ p.via = "transfer_out" =>
                   /\ transfer_out_last_hash(w) /\ p.digest = tx[w]
                   /\ do_transaction(w, tx[w], "transfer_out")
  <2>1. CASE account_create(w)
    BY <2>1 DEF account_create, set_result_fail, do_transaction, Goto
  <2>2. CASE set_property(w)
    BY <2>2 DEF set_property, set_result_fail, do_transaction, Goto
  <2>3. CASE account_delete(w)
    BY <2>3 DEF account_delete, set_result_fail, do_transaction, Goto
  <2>4. CASE transfer_out(w)
    BY <2>4 DEF transfer_out, set_result_fail, do_transaction, Goto
  <2>5. CASE transfer_out_balance(w)
    BY <2>5 DEF transfer_out_balance, set_result_fail, do_transaction, Goto
  <2>6. CASE transfer_out_last_hash(w)
    BY <2>6 DEF transfer_out_last_hash, set_result_fail, do_transaction, Goto
  <2>7. CASE transfer_in(w)
    BY <2>7 DEF transfer_in, set_result_fail, do_transaction, Goto
  <2>8. CASE transfer_in_last_hash(w)
    BY <2>8 DEF transfer_in_last_hash, set_result_fail, do_transaction, Goto
  <2>9. CASE give(w)
    BY <2>9 DEF give, set_result_fail, do_transaction, Goto
  <2>10. CASE give_exist_account(w)
    BY <2>10 DEF give_exist_account, set_result_fail, do_transaction, Goto
  <2>11. CASE give_receive(w)
    BY <2>11 DEF give_receive, set_result_fail, do_transaction, Goto
  <2>12. CASE give_settle(w)
    BY <2>12 DEF give_settle, set_result_fail, do_transaction, Goto
  <2>13. CASE action_invalid(w)
    BY <2>13 DEF action_invalid, set_result_fail, Goto
  <2> QED BY <1>3, <2>1, <2>2, <2>3, <2>4, <2>5, <2>6, <2>7, <2>8, <2>9, <2>10, <2>11, <2>12, <2>13
          DEF HandlerNext
<1> QED BY <1>1, <1>2, <1>3 DEF Next

\* The local store of an account that is not deleted only gains units: what it has
\* shown it shows again.
LEMMA ViewGrows ==
    ASSUME TypeOK, DeletionInv, [Next]_vars, NEW a \in Account, ~ Deleted(a)'
    PROVE  /\ get_settle_blocks(LocalView, a) \subseteq get_settle_blocks(LocalView, a)'
           /\ exist_account(LocalView, a) => exist_account(LocalView, a)'
           /\ SettledTransferIn(LocalView, a) \subseteq SettledTransferIn(LocalView, a)'
<1>1. localFrom[a] = 0 /\ localFrom'[a] = 0
  <2>1. ~ Deleted(a) /\ localFrom[a] \in Nat /\ localFrom'[a] \in Nat
    BY StillOpen, TypeNext DEF TypeOK, LedgerTypeOK
  <2> QED BY <2>1 DEF Deleted
<1>2. applied <= applied' /\ 1..applied \subseteq 1..Len(log) /\ applied \in Nat /\ applied' \in Nat
  BY LogGrows
<1>3. \A i \in 1..applied : TxAt(i)' = TxAt(i)
  BY <1>2, LogGrows
<1>4. /\ \A i : i \in get_settle_blocks(LocalView, a) <=> i \in 1..applied /\ TxAt(i).sender = a
      /\ \A i : i \in get_settle_blocks(LocalView, a)'
                <=> i \in 1..applied' /\ TxAt(i)'.sender = a
  BY <1>1 DEF get_settle_blocks, LocalView
<1>5. \A i \in get_settle_blocks(LocalView, a) :
         i \in get_settle_blocks(LocalView, a)' /\ TxAt(i)' = TxAt(i)
  BY <1>2, <1>3, <1>4
<1> QED BY <1>5 DEF exist_account, SettledTransferIn

\* Every transfer that was taken in was sent before, to the account that took it
\* in.
ReceivedWasSent ==
    \A j \in DOMAIN log : TxAt(j).type = "transfer_asset_in" =>
        \E k \in 1..(j - 1) : /\ TxAt(k).type = "transfer_asset_out"
                              /\ TxAt(k).receiver = TxAt(j).sender

LEMMA ReceivedWasSentInit == Init => ReceivedWasSent
  BY DEF Init, LedgerInit, ReceivedWasSent, TxAt, DigestAt, genesis_account_create

LEMMA ReceivedWasSentNext ==
    ASSUME TypeOK, ReceivedWasSent, [Next]_vars
    PROVE  ReceivedWasSent'
<1> SUFFICES ASSUME NEW j \in DOMAIN log', TxAt(j)'.type = "transfer_asset_in"
             PROVE  \E k \in 1..(j - 1) : /\ TxAt(k)'.type = "transfer_asset_out"
                                          /\ TxAt(k)'.receiver = TxAt(j)'.sender
  BY DEF ReceivedWasSent
<1>1. CASE j \in 1..Len(log)
  <2>1. TxAt(j)' = TxAt(j) /\ j \in DOMAIN log
    BY <1>1, LogGrows
  <2>2. PICK k \in 1..(j - 1) : /\ TxAt(k).type = "transfer_asset_out"
                                /\ TxAt(k).receiver = TxAt(j).sender
    BY <2>1 DEF ReceivedWasSent
  <2>3. TxAt(k)' = TxAt(k)
    BY <1>1, LogGrows
  <2> QED BY <2>1, <2>2, <2>3
<1>2. CASE j \notin 1..Len(log)
  <2>1. PICK p \in proposals : DecideCreate(p) \/ DecideNext(p)
    BY <1>2, LogGrows, NewDecision
  <2>2. PICK t : t = hashed[p.digest]
    OBVIOUS
  <2>3. j = Len(log) + 1 /\ TxAt(j)' = t /\ t.sender \in Account
    BY <1>2, <2>1, <2>2, DecisionStep, LogGrows, ProposalDigest, DigestType
  <2>4. DecideNext(p)
    BY <2>1, <2>2, <2>3 DEF DecideCreate
  <2>5. PICK k \in get_receive_blocks(NetView, t.sender) : TRUE
    BY <2>2, <2>3, <2>4 DEF DecideNext, DecideOn
  <2>6. k \in DOMAIN log /\ TxAt(k).type = "transfer_asset_out" /\ TxAt(k).receiver = t.sender
    BY <2>3, ViewDecided DEF get_receive_blocks
  <2>7. k \in 1..(j - 1) /\ TxAt(k)' = TxAt(k)
    BY <2>3, <2>6, LogGrows
  <2> QED BY <2>3, <2>6, <2>7
<1> QED BY <1>1, <1>2
=============================================================================
