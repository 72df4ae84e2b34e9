----------------------------- MODULE XrpcHandler -----------------------------
(***************************************************************************)
(* The transaction requests of xrpc_handler.cpp, served by several threads *)
(* (the gRPC threads and the thread of the HTTP server) over the shared    *)
(* account store.  A handler reads the store through several calls and     *)
(* takes no lock across them, so each call is a step of its own: what      *)
(* precedes a call in the code is in the step of that call, and the        *)
(* broadcast of do_transaction, which reads nothing, is in the step of the *)
(* last call before it.                                                    *)
(***************************************************************************)
EXTENDS Ledger

CONSTANTS Worker,          \* threads that serve requests
          UserA, UserB,    \* with Genesis, the accounts whose keys are built in
          GiveAmount,      \* the "100000" of a give
          Offered,         \* the actions that clients of this instance use
          Deletable,       \* the accounts they name in account_delete
          CreateAmount     \* the "amount"s they send with account_create

ASSUME HandlerConstants ==
    /\ GiveAmount \in Amount
    /\ Deletable \subseteq Account
    /\ CreateAmount \subseteq Amount \cup {Empty, NotANumber}

VARIABLES pc,   \* per thread: "idle", or the store call it is about to make
          tx,   \* per thread: the digest of xrpc_handler::tx, Zero if not built
          rsp   \* the answer this step gives, "none" if it gives none

vars == <<ledgerVars, pc, tx, rsp>>

\* The parts of the ledger that only an account_delete request changes here.
storeVars == <<log, applied, localFrom, netFrom, deletions>>
-----------------------------------------------------------------------------
(* Steps of a thread *)

\* handle_request dispatches a request for this action to an idle thread.
Handles(w, action) == pc[w] = "idle" /\ action \in Offered

Answer(w, code) ==
    /\ pc' = [pc EXCEPT ![w] = "idle"]
    /\ tx' = [tx EXCEPT ![w] = Zero]
    /\ rsp' = code

set_result_fail(w, code) ==
    /\ Answer(w, code)
    /\ UNCHANGED <<hashed, proposals, storeVars>>

\* Mutant: broadcasts before the digest is filled in.
do_transaction_without_digest(w, digest, via) ==
    /\ proposals' = proposals \cup {[digest |-> tx[w], via |-> via]}
    /\ Answer(w, "xrpc_ok")
    /\ UNCHANGED storeVars

\* do_transaction broadcasts the proposal; set_result_ok answers.
do_transaction(w, digest, via) ==
    /\ proposals' = proposals \cup {[digest |-> digest, via |-> via]}
    /\ Answer(w, "xrpc_ok")
    /\ UNCHANGED storeVars

\* The thread goes on to its next store call, with the transaction it built.
Goto(w, call, digest) ==
    /\ pc' = [pc EXCEPT ![w] = call]
    /\ tx' = [tx EXCEPT ![w] = digest]
    /\ rsp' = "none"
    /\ UNCHANGED <<proposals, storeVars>>
-----------------------------------------------------------------------------
(* xrpc_utility.cpp: the transactions *)

\* An account that is created with no amount gets the amount "0".
transaction_make_account_create(a, amount, ts) ==
    [type |-> "create_account", sender |-> a, receiver |-> a, key |-> Asset,
     params |-> IF amount = Empty THEN 0 ELSE amount, origin |-> Zero,
     timestamp |-> ts, last |-> Zero]

transaction_make_transfer_out(src, dst, key, amount, ts, last) ==
    [type |-> "transfer_asset_out", sender |-> src, receiver |-> dst,
     key |-> key, params |-> amount, origin |-> Zero, timestamp |-> ts,
     last |-> last]

transaction_make_transfer_in(a, ts, digest, last) ==
    [type |-> "transfer_asset_in", sender |-> a, receiver |-> a, key |-> "",
     params |-> 0, origin |-> digest, timestamp |-> ts, last |-> last]

transaction_set_property(a, key, value, ts, last) ==
    [type |-> "data_property_operation", sender |-> a, receiver |-> a,
     key |-> key, params |-> value, origin |-> Zero, timestamp |-> ts,
     last |-> last]
-----------------------------------------------------------------------------
(* Digests and signatures *)

\* The accounts for which the server fills in the digest and signs.
no_hash(a) == a \in {Genesis, UserA, UserB}

\* transaction_digest_add signs only for a sender whose key it has.
transaction_digest_add(t) == t.sender \in {Genesis, UserA, UserB}

\* Whether tx_hash_and_sign_verify holds of t after tx_digest_signature_set;
\* signed says whether the client sent a signature of t.
tx_hash_and_sign_verify(t, nohash, signed) ==
    IF nohash THEN transaction_digest_add(t) ELSE signed

\* The digest a client sends as "last_digest": of any transaction of its own,
\* decided or only sent, current or not; zero if it knows none.
ClientLastDigest(a) ==
    {Zero} \cup {d \in DOMAIN hashed : hashed[d].sender = a}

\* The "tx_digest" of a transfer_in: of a transfer that was sent to a.
ClientTxDigest(a) ==
    {DigestAt(k) : k \in {k \in DOMAIN log :
        TxAt(k).type = "transfer_asset_out" /\ TxAt(k).receiver = a}}

\* The last digests a transaction can get: the one of the account's last unit
\* in the local store, or one that the client sent.
last_digest_set(nohash, a) ==
    IF nohash THEN {DigestAt(i) : i \in last_unit(LocalView, a)}
              ELSE ClientLastDigest(a)

\* check_input: a property key starts with "@" and has neither "#" nor "$".
check_input(key) ==
    LET startsWithAt == {"@name", "@n#"}
        hashOrDollar == {"@n#", Asset}
    IN  key \in startsWithAt /\ key \notin hashOrDollar
-----------------------------------------------------------------------------
(* Requests that make one store call *)

\* A request whose action handle_request does not know.
action_invalid(w) ==
    Handles(w, "unknown") /\ set_result_fail(w, "xrpc_server_action_invalid")

\* account_create: the account must not exist yet.
account_create(w) ==
    /\ Handles(w, "account_create")
    /\ \E a \in Account, amount \in CreateAmount, ts \in Timestamp, signed \in BOOLEAN :
        LET t == transaction_make_account_create(a, amount, ts)
        IN  \/ /\ exist_account(LocalView, a)
               /\ set_result_fail(w, "xrpc_server_account_exist")
            \/ /\ ~ exist_account(LocalView, a)
               /\ ~ tx_hash_and_sign_verify(t, no_hash(a), signed)
               /\ set_result_fail(w, "xrpc_server_hash_signature_check_fail")
            \/ /\ ~ exist_account(LocalView, a)
               /\ tx_hash_and_sign_verify(t, no_hash(a), signed)
               /\ \E d \in 1..MaxTx :
                    sha256(t, d) /\ do_transaction(w, d, "account_create")

\* set_property: neither the balance nor the last hash is checked.
set_property(w) ==
    /\ Handles(w, "set_property")
    /\ \E a \in Account, key \in PropertyKey, value \in Amount,
          ts \in Timestamp, signed \in BOOLEAN :
        \/ /\ ~ check_input(key)
           /\ set_result_fail(w, "xrpc_property_key_not_valid")
        \/ /\ check_input(key)
           /\ last_digest_set(no_hash(a), a) = {}
           /\ set_result_fail(w, "xrpc_server_account_not_found")
        \/ /\ check_input(key)
           /\ \E last \in last_digest_set(no_hash(a), a) :
                LET t == transaction_set_property(a, key, value, ts, last)
                IN  \/ /\ ~ tx_hash_and_sign_verify(t, no_hash(a), signed)
                       /\ set_result_fail(w, "xrpc_server_hash_signature_check_fail")
                    \/ /\ tx_hash_and_sign_verify(t, no_hash(a), signed)
                       /\ \E d \in 1..MaxTx :
                            sha256(t, d) /\ do_transaction(w, d, "set_property")

\* account_delete: the local store first, then a message to the network.
account_delete(w) ==
    /\ Handles(w, "account_delete")
    /\ \E a \in Deletable :
        /\ localFrom' = [localFrom EXCEPT ![a] = applied]
        /\ deletions' = deletions \cup {a}
        /\ Answer(w, "xrpc_ok")
        /\ UNCHANGED <<hashed, log, applied, netFrom, proposals>>
-----------------------------------------------------------------------------
(* transfer_out: last digest, then balance, then last hash *)

transfer_out(w) ==
    /\ Handles(w, "transfer_out")
    /\ \E src, dst \in Account, key \in {Asset, "@name"},
          amount \in Amount \cup {NotANumber}, ts \in Timestamp, signed \in BOOLEAN :
        \/ /\ src = dst
           /\ set_result_fail(w, "xrpc_sender_receiver_the_same")
        \/ /\ src # dst
           /\ last_digest_set(no_hash(src), src) = {}
           /\ set_result_fail(w, "xrpc_server_account_not_found")
        \/ /\ src # dst
           /\ \E last \in last_digest_set(no_hash(src), src) :
                LET t == transaction_make_transfer_out(src, dst, key, amount, ts, last)
                IN  \/ /\ ~ tx_hash_and_sign_verify(t, no_hash(src), signed)
                       /\ set_result_fail(w, "xrpc_server_hash_signature_check_fail")
                    \/ /\ tx_hash_and_sign_verify(t, no_hash(src), signed)
                       /\ \E d \in 1..MaxTx :
                            sha256(t, d) /\ Goto(w, "out_get_account_balance", d)

\* Mutant: compares with the balance of any unit of the account.
transfer_out_balance_any_unit(w) ==
    LET t == hashed[tx[w]]
        covered == \E i \in get_settle_blocks(LocalView, t.sender) :
                      log[i].balance >= t.params
    IN  /\ pc[w] = "out_get_account_balance"
        /\ \/ /\ ~ covered
              /\ set_result_fail(w, "xrpc_server_account_balance_not_enough")
           \/ /\ covered
              /\ Goto(w, "out_get_last_hash", tx[w])
              /\ UNCHANGED hashed

\* Mutant: an account that is not found passes.
transfer_out_balance_unknown(w) ==
    /\ pc[w] = "out_get_account_balance"
    /\ Goto(w, "out_get_last_hash", tx[w])
    /\ UNCHANGED hashed

\* std::stoll throws on an amount that is not a number: the request ends
\* without an answer of the handler.
transfer_out_balance(w) ==
    LET t == hashed[tx[w]]
    IN  /\ pc[w] = "out_get_account_balance"
        /\ \/ /\ ~ exist_account(LocalView, t.sender)
              /\ set_result_fail(w, "xrpc_server_account_not_found")
           \/ /\ exist_account(LocalView, t.sender)
              /\ t.key # Asset
              /\ set_result_fail(w, "xrpc_no_property_key")
           \/ \E i \in last_unit(LocalView, t.sender) :
                /\ t.key = Asset
                /\ \/ /\ t.params = NotANumber
                      /\ set_result_fail(w, "exception")
                   \/ /\ t.params # NotANumber
                      /\ log[i].balance < t.params
                      /\ set_result_fail(w, "xrpc_server_account_balance_not_enough")
                   \/ /\ t.params # NotANumber
                      /\ log[i].balance >= t.params
                      /\ Goto(w, "out_get_last_hash", tx[w])
                      /\ UNCHANGED hashed

\* Mutant: the comparison is the wrong way round.
LastHashMatches_differs(t) ==
    \A i \in last_unit(LocalView, t.sender) : DigestAt(i) # t.last

\* get_last_hash fails for an account that is gone; the check passes then.
LastHashMatches(t) ==
    \A i \in last_unit(LocalView, t.sender) : DigestAt(i) = t.last

transfer_out_last_hash(w) ==
    /\ pc[w] = "out_get_last_hash"
    /\ \/ /\ ~ LastHashMatches(hashed[tx[w]])
          /\ set_result_fail(w, "xrpc_last_hash_error")
       \/ /\ LastHashMatches(hashed[tx[w]])
          /\ do_transaction(w, tx[w], "transfer_out")
          /\ UNCHANGED hashed
-----------------------------------------------------------------------------
(* transfer_in: last digest, then last hash *)

transfer_in(w) ==
    /\ Handles(w, "transfer_in")
    /\ \E a \in Account, ts \in Timestamp, signed \in BOOLEAN :
        \/ /\ last_digest_set(no_hash(a), a) = {}
           /\ set_result_fail(w, "xrpc_server_account_not_found")
        \/ \E last \in last_digest_set(no_hash(a), a), digest \in ClientTxDigest(a) :
             LET t == transaction_make_transfer_in(a, ts, digest, last)
             IN  \/ /\ ~ tx_hash_and_sign_verify(t, no_hash(a), signed)
                    /\ set_result_fail(w, "xrpc_server_hash_signature_check_fail")
                 \/ /\ tx_hash_and_sign_verify(t, no_hash(a), signed)
                    /\ \E d \in 1..MaxTx :
                         sha256(t, d) /\ Goto(w, "in_get_last_hash", d)

transfer_in_last_hash(w) ==
    /\ pc[w] = "in_get_last_hash"
    /\ \/ /\ ~ LastHashMatches(hashed[tx[w]])
          /\ set_result_fail(w, "xrpc_last_hash_error")
       \/ /\ LastHashMatches(hashed[tx[w]])
          /\ do_transaction(w, tx[w], "transfer_in")
          /\ UNCHANGED hashed
-----------------------------------------------------------------------------
(* give: last digest of genesis, then existence, receive and settle blocks *)

give(w) ==
    /\ Handles(w, "give")
    /\ \E dst \in Account, ts \in Timestamp :
        \/ /\ last_digest_set(TRUE, Genesis) = {}
           /\ set_result_fail(w, "xrpc_server_account_not_found")
        \/ \E last \in last_digest_set(TRUE, Genesis) :
             LET t == transaction_make_transfer_out(Genesis, dst, Asset, GiveAmount, ts, last)
             IN  /\ tx_hash_and_sign_verify(t, TRUE, FALSE)
                 /\ \E d \in 1..MaxTx :
                      sha256(t, d) /\ Goto(w, "give_exist_account", d)

give_exist_account(w) ==
    LET dst == hashed[tx[w]].receiver
    IN  /\ pc[w] = "give_exist_account"
        /\ \/ /\ ~ exist_account(LocalView, dst)
              /\ set_result_fail(w, "xrpc_server_account_not_found")
           \/ /\ exist_account(LocalView, dst)
              /\ Goto(w, "give_get_receive_blocks", tx[w])
              /\ UNCHANGED hashed

\* Mutant: does not look at what an account was sent that was once deleted.
give_receive_recreated(w) ==
    LET dst == hashed[tx[w]].receiver
    IN  /\ pc[w] = "give_get_receive_blocks"
        /\ \/ /\ get_receive_blocks(LocalView, dst) # {} /\ localFrom[dst] = 0
              /\ set_result_fail(w, "xrpc_already_give")
           \/ /\ get_receive_blocks(LocalView, dst) = {} \/ localFrom[dst] > 0
              /\ Goto(w, "give_get_settle_blocks", tx[w])
              /\ UNCHANGED hashed

give_receive(w) ==
    LET dst == hashed[tx[w]].receiver
    IN  /\ pc[w] = "give_get_receive_blocks"
        /\ \/ /\ get_receive_blocks(LocalView, dst) # {}
              /\ set_result_fail(w, "xrpc_already_give")
           \/ /\ get_receive_blocks(LocalView, dst) = {}
              /\ Goto(w, "give_get_settle_blocks", tx[w])
              /\ UNCHANGED hashed

\* Mutant: any settled transaction of the account counts, its creation too.
give_settle_any(w) ==
    LET dst == hashed[tx[w]].receiver
    IN  /\ pc[w] = "give_get_settle_blocks"
        /\ \/ /\ get_settle_blocks(LocalView, dst) # {}
              /\ set_result_fail(w, "xrpc_already_give")
           \/ /\ get_settle_blocks(LocalView, dst) = {}
              /\ do_transaction(w, tx[w], "give")
              /\ UNCHANGED hashed

\* Mutant: does not look for transfers the account has taken in.
give_settle_unchecked(w) ==
    /\ pc[w] = "give_get_settle_blocks"
    /\ do_transaction(w, tx[w], "give")
    /\ UNCHANGED hashed

\* Mutant: reads the last digest of genesis after the checks, not before.
give_settle_refreshed(w) ==
    LET t == hashed[tx[w]]
    IN  /\ pc[w] = "give_get_settle_blocks"
        /\ \/ /\ SettledTransferIn(LocalView, t.receiver) # {}
              /\ set_result_fail(w, "xrpc_already_give")
           \/ /\ SettledTransferIn(LocalView, t.receiver) = {}
              /\ \E i \in last_unit(LocalView, Genesis), d \in 1..MaxTx :
                    /\ sha256([t EXCEPT !.last = DigestAt(i)], d)
                    /\ do_transaction(w, d, "give")

give_settle(w) ==
    LET dst == hashed[tx[w]].receiver
    IN  /\ pc[w] = "give_get_settle_blocks"
        /\ \/ /\ SettledTransferIn(LocalView, dst) # {}
              /\ set_result_fail(w, "xrpc_already_give")
           \/ /\ SettledTransferIn(LocalView, dst) = {}
              /\ do_transaction(w, tx[w], "give")
              /\ UNCHANGED hashed
-----------------------------------------------------------------------------
Init ==
    /\ LedgerInit
    /\ pc = [w \in Worker |-> "idle"]
    /\ tx = [w \in Worker |-> Zero]
    /\ rsp = "none"

HandlerNext(w) ==
    \/ action_invalid(w)
    \/ account_create(w) \/ set_property(w) \/ account_delete(w)
    \/ transfer_out(w) \/ transfer_out_balance(w) \/ transfer_out_last_hash(w)
    \/ transfer_in(w) \/ transfer_in_last_hash(w)
    \/ give(w) \/ give_exist_account(w) \/ give_receive(w) \/ give_settle(w)

Next ==
    \/ \E w \in Worker : HandlerNext(w)
    \/ LedgerNext /\ rsp' = "none" /\ UNCHANGED <<pc, tx>>

Spec == Init /\ [][Next]_vars
-----------------------------------------------------------------------------
(* Properties *)

\* Every variable keeps to its type: in particular a transaction that is under
\* way or proposed has a digest that was computed, and names older digests.
TypeOK ==
    /\ LedgerTypeOK
    /\ pc \in [Worker -> {"idle", "out_get_account_balance", "out_get_last_hash",
                           "in_get_last_hash", "give_exist_account",
                           "give_get_receive_blocks", "give_get_settle_blocks"}]
    /\ tx \in [Worker -> Nat]
    /\ \A w \in Worker : pc[w] # "idle" => tx[w] \in DOMAIN hashed
    /\ rsp \in {"none", "exception", "xrpc_ok", "xrpc_server_account_exist",
               "xrpc_server_account_not_found", "xrpc_last_hash_error",
               "xrpc_server_hash_signature_check_fail", "xrpc_no_property_key",
               "xrpc_server_account_balance_not_enough", "xrpc_already_give",
               "xrpc_property_key_not_valid", "xrpc_sender_receiver_the_same",
               "xrpc_server_action_invalid"}

\* An account_delete request for a has been served by this node.
Deleted(a) == localFrom[a] > 0

PaidByGenesis(a, k) ==
    /\ TxAt(k).type = "transfer_asset_out"
    /\ TxAt(k).sender = Genesis
    /\ TxAt(k).receiver = a

\* A give is decided only for an account that genesis has not paid before,
\* however the reads of concurrent gives interleave with decisions, and
\* although the checks for xrpc_already_give run on a store that may lag
\* (xrpc_handler.cpp:522-563).  The store forgets the payments that precede an
\* account_delete of the account; deleting genesis ends the promise.
GrantedOnce ==
    \A j \in DOMAIN log :
        LET a == TxAt(j).receiver
        IN  log[j].tx.via = "give" /\ ~ Deleted(Genesis)
            => \A k \in (localFrom[a] + 1)..(j - 1) : ~ PaidByGenesis(a, k)

\* A decided transaction that a transfer_out request had the server sign does
\* not overdraw its account, whatever the sign of the amount and whatever else
\* the account sends, gives of genesis included: the balance that was read at
\* xrpc_handler.cpp:479 still holds at the decision, because the last digest
\* was read before it (line 462).  It is not said of a give, which reads no
\* balance (513-570), nor of an account that was deleted: the last-hash check
\* passes when it is gone (line 499), and once it is created again with the
\* same content its old digest is the last one again, with a smaller balance.
TransferOutCovered ==
    \A j \in DOMAIN log :
        LET a == TxAt(j).sender
        IN  log[j].tx.via = "transfer_out" /\ no_hash(a) /\ ~ Deleted(a)
            => log[j].balance >= 0

\* A transfer_out that is proposed was built on the last unit of its account at
\* the time of the check, although the check passes when get_last_hash finds no
\* account: the balance was found before, so that only an account_delete since
\* then can hide the account (xrpc_handler.cpp:477-505).
BuiltOnLastUnit ==
    [][\A w \in Worker :
         pc[w] = "out_get_last_hash" /\ pc'[w] = "idle" /\ rsp' = "xrpc_ok"
         => LET t == hashed[tx[w]]
            IN  \/ Deleted(t.sender)
                \/ \E i \in last_unit(LocalView, t.sender) : DigestAt(i) = t.last]_vars

\* xrpc_already_give is the answer only if something was sent to the account
\* (xrpc_handler.cpp:547-563).
AlreadyGiveTruthful ==
    [][\A w \in Worker :
         rsp' = "xrpc_already_give" /\ pc[w] # pc'[w]
         => \E k \in DOMAIN log : /\ TxAt(k).type = "transfer_asset_out"
                                  /\ TxAt(k).receiver = hashed[tx[w]].receiver]_vars

\* The give requests implement the faucet's promise.  A receipt is the place
\* of the grant in the decided sequence.
Remembered(a) ==
    {k \in DOMAIN log : ~ Deleted(Genesis) /\ k > localFrom[a] /\ PaidByGenesis(a, k)}

FaucetPromise == INSTANCE Faucet WITH
    Receipt <- 1..MaxLog,
    open    <- ~ Deleted(Genesis),
    paid    <- {a \in Account : Remembered(a) # {}},
    grants  <- [a \in Account |-> {k \in Remembered(a) : log[k].tx.via = "give"}]

\* Every step of the handlers, the network and the store is a step the faucet
\* allows, or changes nothing the faucet knows of (xrpc_handler.cpp:513-570).
ImplementsFaucet == FaucetPromise!Spec
=============================================================================
