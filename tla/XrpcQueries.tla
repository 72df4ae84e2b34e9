----------------------------- MODULE XrpcQueries -----------------------------
(***************************************************************************)
(* The queries of xrpc_handler.cpp that read one account, beside the       *)
(* transaction requests of XrpcHandler.  They only read the store of this  *)
(* node.  account_info reads it three times, the settled blocks before the *)
(* pending ones, which is the opposite of the order in give.               *)
(***************************************************************************)
EXTENDS XrpcHandler

CONSTANTS Reader,      \* threads that serve queries
          Asked        \* the queries that clients of this instance use

VARIABLES query,    \* per reader: the account_info it is in the middle of
          reply,    \* the answer this step gives to a query
          \* What the clients remember, per account
          newest,   \* the newest unit that an answer was about
          told,     \* the last digest they were given, and when
          refused,  \* the accounts for which account_info said "give": 0
          since     \* per thread of XrpcHandler: refused when its request began

clientVars == <<newest, told, refused, since>>
queryVars  == <<query, reply, clientVars>>

Idle     == [at |-> "idle"]
NoReply  == [query |-> "none"]
NoDigest == [digest |-> Zero, at |-> 0]

Asks(r, name) == query[r].at = "idle" /\ name \in Asked
-----------------------------------------------------------------------------
(* Answers.  unit is the unit the answer was computed from, zero if there   *)
(* was none; floor is the newest unit that the clients had heard of when    *)
(* they asked.                                                              *)

Reply(r, name, a, unit, floor, rest) ==
    /\ query' = [query EXCEPT ![r] = Idle]
    /\ reply' = [query |-> name, account |-> a, unit |-> unit, floor |-> floor,
                 data |-> rest]
    /\ newest' = [newest EXCEPT ![a] = IF unit > @ THEN unit ELSE @]

\* An answer that gives the client nothing to build a transaction on.
Plain(r, name, a, unit, rest) ==
    /\ Reply(r, name, a, unit, newest[a], rest)
    /\ UNCHANGED <<told, refused>>

account_not_found(r, name, a) ==
    /\ last_unit(LocalView, a) = {}
    /\ Plain(r, name, a, 0, [code |-> "xrpc_server_account_not_found"])

\* xaccount_snap_t::get_property: the last value that was set, as a set.
get_property(i, a, key) ==
    LET writes == {k \in get_settle_blocks([LocalView EXCEPT !.upto = i], a) :
                      TxAt(k).type = "data_property_operation" /\ TxAt(k).key = key}
    IN  {TxAt(k).params : k \in {k \in writes : \A n \in writes : n <= k}}
-----------------------------------------------------------------------------
(* Queries with one store call *)

\* Mutant: the balance of the account's first unit.
account_balance_first(r) ==
    /\ Asks(r, "account_balance")
    /\ \E a \in Account :
        \/ account_not_found(r, "account_balance", a)
        \/ \E i \in get_settle_blocks(LocalView, a) :
             /\ \A k \in get_settle_blocks(LocalView, a) : i <= k
             /\ Plain(r, "account_balance", a, i, [code |-> "xrpc_ok"])

account_balance(r) ==
    /\ Asks(r, "account_balance")
    /\ \E a \in Account :
        \/ account_not_found(r, "account_balance", a)
        \/ \E i \in last_unit(LocalView, a), key \in {Asset, "@name"} :
             Plain(r, "account_balance", a, i,
                IF key = Asset THEN [code |-> "xrpc_ok", balance |-> log[i].balance]
                               ELSE [code |-> "xrpc_no_property_key"])

last_digest(r) ==
    /\ Asks(r, "last_digest")
    /\ \E a \in Account :
        \/ account_not_found(r, "last_digest", a)
        \/ \E i \in last_unit(LocalView, a) :
             /\ Reply(r, "last_digest", a, i, newest[a], [code |-> "xrpc_ok"])
             /\ told' = [told EXCEPT ![a] = [digest |-> DigestAt(i), at |-> applied]]
             /\ UNCHANGED refused

query_property(r) ==
    /\ Asks(r, "query_property")
    /\ \E a \in Account :
        \/ account_not_found(r, "query_property", a)
        \/ \E i \in last_unit(LocalView, a), key \in PropertyKey :
             \/ /\ get_property(i, a, key) = {}
                /\ Plain(r, "query_property", a, i, [code |-> "xrpc_no_property_key"])
             \/ \E value \in get_property(i, a, key) :
                  Plain(r, "query_property", a, i, [code |-> "xrpc_ok", value |-> value])

query_all_property(r) ==
    /\ Asks(r, "query_all_property")
    /\ \E a \in Account :
        \/ account_not_found(r, "query_all_property", a)
        \/ \E i \in last_unit(LocalView, a) :
             Plain(r, "query_all_property", a, i,
                [code |-> "xrpc_ok",
                 values |-> [key \in PropertyKey |-> get_property(i, a, key)]])
-----------------------------------------------------------------------------
(* account_info: snapshot, then settled blocks, then pending blocks *)

\* Where account_info goes on with the settled blocks.
Snapshot(r, a, i) ==
    /\ query' = [query EXCEPT ![r] =
           [at |-> "get_settle_blocks", account |-> a, unit |-> i,
            snap |-> applied, floor |-> newest[a], settled |-> 0]]
    /\ reply' = NoReply
    /\ UNCHANGED <<newest, told, refused>>

\* Mutant: any unit of the account, not the last one.
account_info_any(r) ==
    /\ Asks(r, "account_info")
    /\ \E a \in Account :
        \/ account_not_found(r, "account_info", a)
        \/ \E i \in get_settle_blocks(LocalView, a) : Snapshot(r, a, i)

account_info(r) ==
    /\ Asks(r, "account_info")
    /\ \E a \in Account :
        \/ account_not_found(r, "account_info", a)
        \/ \E i \in last_unit(LocalView, a) : Snapshot(r, a, i)

\* account_info answers what it has read so far, and whether a give is open.
InfoReply(r, open) ==
    LET q == query[r]
    IN  /\ Reply(r, "account_info", q.account, q.unit, q.floor,
                 [code |-> "xrpc_ok", give |-> open, settled |-> q.settled])
        /\ told' = [told EXCEPT ![q.account] = [digest |-> DigestAt(q.unit), at |-> q.snap]]
        /\ refused' = IF open = 0 THEN refused \cup {q.account} ELSE refused

\* Mutant: does not look at the settled blocks.
account_info_settle_unchecked(r) ==
    /\ query[r].at = "get_settle_blocks"
    /\ query' = [query EXCEPT ![r].at = "get_receive_blocks", ![r].settled = applied]
    /\ reply' = NoReply
    /\ UNCHANGED <<newest, told, refused>>

account_info_settle(r) ==
    /\ query[r].at = "get_settle_blocks"
    /\ \/ /\ SettledTransferIn(LocalView, query[r].account) # {}
          /\ InfoReply(r, 0)
       \/ /\ SettledTransferIn(LocalView, query[r].account) = {}
          /\ query' = [query EXCEPT ![r].at = "get_receive_blocks", ![r].settled = applied]
          /\ reply' = NoReply
          /\ UNCHANGED <<newest, told, refused>>

account_info_receive(r) ==
    /\ query[r].at = "get_receive_blocks"
    /\ InfoReply(r, IF get_receive_blocks(LocalView, query[r].account) # {} THEN 0 ELSE 1)
-----------------------------------------------------------------------------
QueriesInit ==
    /\ Init
    /\ query = [r \in Reader |-> Idle]
    /\ reply = NoReply
    /\ newest = [a \in Account |-> 0]
    /\ told = [a \in Account |-> NoDigest]
    /\ refused = {}
    /\ since = [w \in Worker |-> {}]

\* A request that begins now knows what account_info has refused.
Requests ==
    /\ Next
    /\ since' = [w \in Worker |-> IF pc[w] = "idle" THEN refused ELSE since[w]]
    /\ reply' = NoReply
    /\ UNCHANGED <<query, newest, told, refused>>

Queries ==
    /\ \E r \in Reader :
        \/ account_balance(r) \/ last_digest(r) \/ query_property(r)
        \/ query_all_property(r) \/ account_info(r)
        \/ account_info_settle(r) \/ account_info_receive(r)
    /\ UNCHANGED <<vars, since>>

QueriesNext == Requests \/ Queries

QueriesSpec == QueriesInit /\ [][QueriesNext]_<<vars, queryVars>>
-----------------------------------------------------------------------------
(* Properties *)

\* A client that asks again never hears of an older state of an account, and
\* never that it has vanished, whichever queries it uses and however long an
\* account_info takes after its snapshot (xrpc_handler.cpp:170-238, 337-354
\* and 738-780), unless the account is deleted.
NeverBackwards ==
    [][reply'.query # "none" /\ ~ Deleted(reply'.account)
       => reply'.unit >= reply'.floor]_<<vars, queryVars>>

\* The transfers to a in the store, and whether a took one in after settled.
SentTo(a) ==
    {k \in 1..applied : TxAt(k).type = "transfer_asset_out" /\ TxAt(k).receiver = a}

TakenInSince(a, k, settled) ==
    \E j \in SettledTransferIn(LocalView, a) :
        TxAt(j).origin = DigestAt(k) /\ j > settled

\* account_info says "give": 0 only if something was sent to the account.  It
\* says 1 although something was sent only if the account took it in after the
\* settled blocks were read (xrpc_handler.cpp:218-236).
GiveOffered ==
    [][reply'.query = "account_info" /\ reply'.data.code = "xrpc_ok"
       /\ ~ Deleted(reply'.account)
       => LET a == reply'.account
          IN  IF reply'.data.give = 0
              THEN SentTo(a) # {}
              ELSE \A k \in SentTo(a) : TakenInSince(a, k, reply'.data.settled)
      ]_<<vars, queryVars>>

\* Once account_info has said "give": 0, a give that begins afterwards is not
\* proposed: what made it refuse stays visible to the two reads of give, in
\* their opposite order (xrpc_handler.cpp:218-236 and 545-565).
RefusalStands ==
    [][\A w \in Worker :
         /\ pc[w] = "give_get_settle_blocks" /\ pc'[w] = "idle"
         /\ hashed[tx[w]].receiver \in since[w]
         /\ ~ Deleted(hashed[tx[w]].receiver)
         => rsp' # "xrpc_ok"]_<<vars, queryVars>>

\* A transaction on the digest that last_digest or account_info gave out meets
\* xrpc_last_hash_error only if the store has applied another transaction of
\* the account since it was read (xrpc_handler.cpp:211, 352, 499 and 634).
StaleOnlyIfOvertaken ==
    [][\A w \in Worker :
         LET t == hashed[tx[w]]
         IN  /\ pc[w] \in {"out_get_last_hash", "in_get_last_hash"} /\ pc'[w] = "idle"
             /\ rsp' = "xrpc_last_hash_error"
             /\ t.last # Zero /\ t.last = told[t.sender].digest /\ ~ Deleted(t.sender)
             => \E i \in (told[t.sender].at + 1)..applied :
                   TxAt(i).sender = t.sender]_<<vars, queryVars>>
=============================================================================
