------------------------------- MODULE Ledger -------------------------------
(***************************************************************************)
(* What lies behind xrpc_handler.cpp: the account store of this node       *)
(* (xstore_manager), the consensus network that decides transactions, and  *)
(* the messages between them (xmessage_dispatcher, xsync_account).  None   *)
(* of it is in the repository; the module says of it only what the calls   *)
(* in xrpc_handler.cpp and xrpc_server.cpp rely on.                        *)
(*                                                                         *)
(* The decided transactions form one sequence, log.  The network has all   *)
(* of it; the store of this node has applied a prefix, because a node of   *)
(* type rpc forwards proposals to the consensus nodes of a shard and only  *)
(* learns their decisions.                                                 *)
(*                                                                         *)
(* A digest is the position of the signed fields in hashed, the sequence   *)
(* of all the contents that were ever hashed: equal contents have equal    *)
(* digests, different ones different digests, and nobody can name the      *)
(* digest of a content before the content exists.                          *)
(***************************************************************************)
EXTENDS Integers, Sequences, FiniteSets

CONSTANTS Account, Genesis, GenesisAmount, Timestamp,
          Amount,       \* the amounts of this instance, negative ones included
          NotANumber,   \* an "amount" that std::stoll cannot convert
          Empty,        \* an "amount" that is missing or ""
          MaxTx,        \* bound of the model: different transactions built
          MaxLog        \* bound of the model: transactions decided

Zero == 0               \* the all-zero digest

\* Property keys, up to what the code asks of them: "$$" is the asset, "" the
\* key of a transfer_in, the others differ in where "@", "#" and "$" occur.
Asset == "$$"
PropertyKey == {"@name", "@n#", "n@"}

\* The fields tx.sha256() covers.  origin is the digest that a transfer_in
\* carries as its m_transaction_params.
Content == [type : {"create_account", "transfer_asset_out",
                    "transfer_asset_in", "data_property_operation"},
            sender : Account, receiver : Account,
            key : PropertyKey \cup {Asset, ""},
            params : Amount \cup {0, NotANumber}, origin : Nat,
            timestamp : Timestamp, last : Nat]

\* A transaction is its digest; via is the handler that built it, kept to
\* state properties and not part of the message.
Proposal == [digest : Nat \ {0},
             via : {"genesis", "account_create", "transfer_out", "give",
                    "transfer_in", "set_property"}]

\* A decided transaction, and the balance its unit leaves the sender with
\* (m_asset_properties of the unit, xrpc_server.cpp:260).
Entry == [tx : Proposal, balance : Int]

ASSUME LedgerConstants ==
    /\ Genesis \in Account
    /\ Amount \subseteq Int /\ GenesisAmount \in Amount
    /\ NotANumber \in Int /\ NotANumber \notin Amount \cup {0}
    /\ Empty \in Int /\ Empty \notin Amount \cup {0, NotANumber}
    /\ 0 \in Timestamp
    /\ MaxTx \in Nat \ {0} /\ MaxLog \in Nat \ {0}

VARIABLES hashed,     \* Seq(Content): the preimages of the digests
          log,        \* Seq(Entry): the decided transactions, in order
          applied,    \* how many of them the store of this node has applied
          localFrom,  \* per account, what this node's store has deleted
          netFrom,    \* per account, what the network's stores have deleted
          deletions,  \* account_delete messages under way to the network
          proposals   \* proposal messages that were broadcast

ledgerVars == <<hashed, log, applied, localFrom, netFrom, deletions, proposals>>
-----------------------------------------------------------------------------
\* tx.sha256(): d is the digest of content c.
sha256(c, d) ==
    \/ d \in DOMAIN hashed /\ hashed[d] = c /\ UNCHANGED hashed
    \/ /\ \A e \in DOMAIN hashed : hashed[e] # c
       /\ Len(hashed) < MaxTx
       /\ d = Len(hashed) + 1
       /\ hashed' = Append(hashed, c)

\* The digest and the content of decision i.
DigestAt(i) == log[i].tx.digest
TxAt(i)     == hashed[DigestAt(i)]

\* The reads of the store.  A view is the prefix a store has applied and the
\* decisions it has deleted, per account.
LocalView == [upto |-> applied, from |-> localFrom]
NetView   == [upto |-> Len(log), from |-> netFrom]

\* The units of account a, whose transactions get_settle_blocks returns.
get_settle_blocks(view, a) ==
    {i \in (view.from[a] + 1)..view.upto : TxAt(i).sender = a}

exist_account(view, a) ==
    \E i \in get_settle_blocks(view, a) : TxAt(i).type = "create_account"

\* m_unit_snap.back() of get_account_snap_info: the last unit of a, as a set
\* that is empty when the store does not know the account.
last_unit(view, a) ==
    {i \in get_settle_blocks(view, a) :
        /\ exist_account(view, a)
        /\ \A k \in get_settle_blocks(view, a) : k <= i}

SettledTransferIn(view, a) ==
    {j \in get_settle_blocks(view, a) : TxAt(j).type = "transfer_asset_in"}

\* Transfers to a that a has not yet taken in.
get_receive_blocks(view, a) ==
    {k \in (view.from[a] + 1)..view.upto :
        /\ TxAt(k).type = "transfer_asset_out"
        /\ TxAt(k).receiver = a
        /\ \A j \in SettledTransferIn(view, a) : TxAt(j).origin # DigestAt(k)}
-----------------------------------------------------------------------------
\* The network decides a proposal only on top of the unit that the proposal
\* names as its last digest.  A proposal may be decided at any time after it
\* was broadcast, in any order, or never (it is lost, or it is stale).
Decide(p, balance) ==
    /\ Len(log) < MaxLog
    /\ log' = Append(log, [tx |-> p, balance |-> balance])
    /\ UNCHANGED <<hashed, applied, localFrom, netFrom, deletions, proposals>>

\* An account is created once; for an existing one the store answers
\* create_account_is_exist and nothing changes (xrpc_server.cpp:273).
DecideCreate(p) ==
    LET t == hashed[p.digest]
    IN  /\ t.type = "create_account" /\ t.params # NotANumber
        /\ ~ exist_account(NetView, t.sender)
        /\ Decide(p, t.params)

\* The other types are decided upon the sender's last unit i.
DecideOn(p, t, i) ==
    \/ /\ t.type = "transfer_asset_out"
       /\ Decide(p, log[i].balance - t.params)
    \/ /\ t.type = "data_property_operation"
       /\ Decide(p, log[i].balance)
    \/ /\ t.type = "transfer_asset_in"
       /\ \E k \in get_receive_blocks(NetView, t.sender) :
             /\ DigestAt(k) = t.origin
             /\ Decide(p, log[i].balance + TxAt(k).params)

DecideNext(p) ==
    LET t == hashed[p.digest]
    IN  \E i \in last_unit(NetView, t.sender) :
           DigestAt(i) = t.last /\ DecideOn(p, t, i)

\* The store of this node applies the next decision (update_event).
update_event ==
    /\ applied < Len(log)
    /\ applied' = applied + 1
    /\ UNCHANGED <<hashed, log, localFrom, netFrom, deletions, proposals>>

\* An account_delete message reaches the stores of the network.
NetworkDelete(a) ==
    /\ a \in deletions
    /\ deletions' = deletions \ {a}
    /\ netFrom' = [netFrom EXCEPT ![a] = Len(log)]
    /\ UNCHANGED <<hashed, log, applied, localFrom, proposals>>

LedgerNext ==
    \/ \E p \in proposals : DecideCreate(p) \/ DecideNext(p)
    \/ update_event
    \/ \E a \in Account : NetworkDelete(a)
-----------------------------------------------------------------------------
\* xrpc_server.cpp:233-280: the server has the genesis account created, with
\* a zero last digest and a zero timestamp, before it serves requests.
genesis_account_create ==
    [type |-> "create_account", sender |-> Genesis, receiver |-> Genesis,
     key |-> Asset, params |-> GenesisAmount, origin |-> Zero,
     timestamp |-> 0, last |-> Zero]

LedgerInit ==
    /\ hashed = <<genesis_account_create>>
    /\ log = <<[tx |-> [digest |-> 1, via |-> "genesis"],
                balance |-> GenesisAmount]>>
    /\ applied = 1
    /\ localFrom = [a \in Account |-> 0]
    /\ netFrom = [a \in Account |-> 0]
    /\ deletions = {}
    /\ proposals = {}

\* Everything has its type, and a content names only older digests.
LedgerTypeOK ==
    /\ hashed \in Seq(Content)
    /\ \A d \in DOMAIN hashed : hashed[d].last < d /\ hashed[d].origin < d
    /\ log \in Seq(Entry)
    /\ \A i \in DOMAIN log : DigestAt(i) \in DOMAIN hashed
    /\ applied \in 0..Len(log)
    /\ localFrom \in [Account -> Nat]
    /\ netFrom \in [Account -> Nat]
    /\ deletions \subseteq Account
    /\ proposals \subseteq Proposal
    /\ \A p \in proposals : p.digest \in DOMAIN hashed
=============================================================================
