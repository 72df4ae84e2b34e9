----------------------------- MODULE XrpcHistory -----------------------------
(***************************************************************************)
(* The queries of xrpc_handler.cpp that answer with a list: account_history *)
(* with the names of the accounts involved, account_pending and            *)
(* query_online_tx.  The list is read once; the name of each account in it *)
(* is a store call of its own, while the store goes on applying blocks.    *)
(* A client reads a history page by page meanwhile.                        *)
(***************************************************************************)
EXTENDS Integers, Sequences, FiniteSets, SequencesExt

CONSTANTS Account,          \* the accounts that occur in the history
          Owner,            \* the account whose history it is
          Tag,              \* values of the property "@name"
          IntMax,           \* INT_MAX
          Request,          \* "count" and "per_page" of the queries
          ClientPerPage,    \* the "per_page" of the client
          MaxBlocks         \* bound: the length of a list

ASSUME HistoryConstants ==
    /\ Owner \in Account
    /\ "" \notin Tag
    /\ IntMax \in Nat
    /\ Request \subseteq [count : Int, per_page : Int]
    /\ ClientPerPage \subseteq Nat \ {0}
    /\ MaxBlocks \in Nat

\* A transaction as the history shows it; the source of a transfer_asset_in is
\* the account that sent the transfer.
Transaction == [type : {"transfer_asset_out", "transfer_asset_in", "other"},
                source : Account, destination : Account]

VARIABLES blocks,    \* the settled blocks of Owner in the store, oldest first
          name,      \* the "@name" of every account, "" if it has none
          handler,   \* the account_history that is being served
          reply,     \* the answer this step gives
          client     \* what the client has seen, and the transfers it is after

store == <<blocks, name>>
vars  == <<store, handler, reply, client>>

Idle    == [at |-> "idle"]
NoReply == [query |-> "none"]

\* The value of an int: signed overflow is undefined, and wraps in practice.
Wrap(n) ==
    LET half == IntMax + 1
    IN  ((n + half) % (2 * half)) - half
-----------------------------------------------------------------------------
(* Lists start with the latest transaction; a page is a set of positions.   *)

Transfers(list) ==
    {i \in DOMAIN list : list[i].type \in {"transfer_asset_in", "transfer_asset_out"}}

start_num(request) == Wrap(request.count * request.per_page)
end_num(request)   == Wrap(Wrap(request.count + 1) * request.per_page)

\* How many of the transactions that may be shown come before position i.
num(shown, i) == Cardinality({k \in shown : k < i})

\* Mutant: num counts the transactions that are not shown, too.
Page_counts_all(shown, request) ==
    {i \in shown : i - 1 \in start_num(request)..(end_num(request) - 1)}

\* Mutant: the last transaction of each page is left out.
Page_short(shown, request) ==
    {i \in shown : num(shown, i) \in start_num(request)..(end_num(request) - 2)}

\* Of the positions that may be shown, those whose number is in the page.
Page(shown, request) ==
    {i \in shown : num(shown, i) \in start_num(request)..(end_num(request) - 1)}

Reply(query, request, shown, page, items) ==
    reply' = [query |-> query, request |-> request, shown |-> shown, page |-> page,
              items |-> items, count |-> Cardinality(shown)]
-----------------------------------------------------------------------------
(* account_history, for the client or for anybody else *)

account_history(who, request) ==
    LET list == Reverse(blocks)
        page == Page(Transfers(list), request)
    IN  /\ handler.at = "idle"
        /\ handler' = [at |-> "source", who |-> who, request |-> request, list |-> list,
                       page |-> page, items |-> <<>>, user_tag |-> <<>>]
        /\ reply' = NoReply
        /\ UNCHANGED store

\* Mutant: always asks the store.
user_tag_refreshed(a) ==
    [b \in DOMAIN handler.user_tag \cup {a} |->
        IF b = a THEN name[a] ELSE handler.user_tag[b]]

\* user_tag after a was looked up, in user_tag itself or else in the store.
user_tag(a) ==
    [b \in DOMAIN handler.user_tag \cup {a} |->
        IF b \in DOMAIN handler.user_tag THEN handler.user_tag[b] ELSE name[a]]

\* The transaction of the next item: n items of the page come before it.
ItemAfter(list, page, n) == list[CHOOSE i \in page : num(page, i) = n]

NextItem == ItemAfter(handler.list, handler.page, Len(handler.items))

set_property_value_source ==
    /\ handler.at = "source" /\ Len(handler.items) < Cardinality(handler.page)
    /\ LET tags == user_tag(NextItem.source)
       IN  handler' = [handler EXCEPT !.at = "destination", !.user_tag = tags]
    /\ reply' = NoReply
    /\ UNCHANGED <<store, client>>

\* m_js_item is complete and is appended to the answer.
set_property_value_destination ==
    /\ handler.at = "destination"
    /\ LET tags == user_tag(NextItem.destination)
           item == [source          |-> NextItem.source,
                    source_tag      |-> handler.user_tag[NextItem.source],
                    destination     |-> NextItem.destination,
                    destination_tag |-> tags[NextItem.destination]]
       IN  handler' = [handler EXCEPT !.at = "source", !.user_tag = tags,
                                      !.items = Append(@, item)]
    /\ reply' = NoReply
    /\ UNCHANGED <<store, client>>

\* "count" is the number of all the transfers.
account_history_reply ==
    /\ handler.at = "source" /\ Len(handler.items) = Cardinality(handler.page)
    /\ Reply("account_history", handler.request, Transfers(handler.list),
             handler.page, handler.items)
    /\ handler' = Idle
    /\ UNCHANGED store
-----------------------------------------------------------------------------
(* Lists without names, in one step; n transactions are in the list *)

\* Mutant: shows one more than was asked for.
account_pending_more(request) ==
    /\ handler.at = "idle"
    /\ \E n \in 0..MaxBlocks :
        Reply("account_pending", request, 1..n, {i \in 1..n : i - 1 <= request.count}, <<>>)
    /\ UNCHANGED <<store, handler, client>>

account_pending(request) ==
    /\ handler.at = "idle"
    /\ \E n \in 0..MaxBlocks :
        Reply("account_pending", request, 1..n, {i \in 1..n : i - 1 < request.count}, <<>>)
    /\ UNCHANGED <<store, handler, client>>

query_online_tx(request) ==
    /\ handler.at = "idle"
    /\ \/ reply' = [query |-> "xrpc_server_unkown_err"]
       \/ \E n \in 0..MaxBlocks :
            Reply("query_online_tx", request, 1..n, Page(1..n, request), <<>>)
    /\ UNCHANGED <<store, handler, client>>
-----------------------------------------------------------------------------
(* The store, and the client *)

Settle ==
    /\ Len(blocks) < MaxBlocks
    /\ \E t \in Transaction : blocks' = Append(blocks, t)
    /\ reply' = NoReply
    /\ UNCHANGED <<name, handler, client>>

SetName ==
    /\ \E a \in Account, tag \in Tag : name' = [name EXCEPT ![a] = tag]
    /\ reply' = NoReply
    /\ UNCHANGED <<blocks, handler, client>>

\* The store of this node forgets an account: its blocks and its name.  The
\* client can no longer be after transfers that are gone.
account_delete(a) ==
    /\ name' = [name EXCEPT ![a] = ""]
    /\ blocks' = IF a = Owner THEN <<>> ELSE blocks
    /\ client' = IF a = Owner THEN [client EXCEPT !.goal = {}] ELSE client
    /\ reply' = NoReply
    /\ UNCHANGED handler

\* The client decides to read all the transfers there are.
Begin ==
    /\ client.page = -1
    /\ \E per_page \in ClientPerPage :
        client' = [page |-> 0, per_page |-> per_page, goal |-> Transfers(blocks),
                   seen |-> {}, done |-> FALSE]
    /\ reply' = NoReply
    /\ UNCHANGED <<store, handler>>

Ask ==
    \/ /\ client.page >= 0 /\ ~ client.done
       /\ account_history("client", [count |-> client.page, per_page |-> client.per_page])
       /\ UNCHANGED client
    \/ \E request \in Request :
        \/ account_history("anybody", request) /\ UNCHANGED client
        \/ account_pending(request)
        \/ query_online_tx(request)

\* The client goes on until the pages cover the "count" of the last answer.  A
\* transaction is known by its digest, here by its place in blocks.
Answered ==
    /\ account_history_reply
    /\ client' =
        IF handler.who = "client"
        THEN [client EXCEPT
                !.page = @ + 1,
                !.seen = @ \cup {Len(handler.list) + 1 - i : i \in handler.page},
                !.done = reply'.count <= (client.page + 1) * client.per_page]
        ELSE client
-----------------------------------------------------------------------------
Init ==
    /\ blocks = <<>>
    /\ name = [a \in Account |-> ""]
    /\ handler = Idle
    /\ reply = NoReply
    /\ client = [page |-> -1, per_page |-> 0, goal |-> {}, seen |-> {}, done |-> FALSE]

Next ==
    \/ Ask \/ Answered
    \/ set_property_value_source \/ set_property_value_destination
    \/ Settle \/ SetName \/ Begin
    \/ \E a \in Account : account_delete(a)

Spec == Init /\ [][Next]_vars
-----------------------------------------------------------------------------
(* Properties *)

\* In one answer an account has one name throughout, although names change
\* while the items are put together (xrpc_handler.cpp:240-283 and 300-330).
OneNameEach ==
    reply.query = "account_history" =>
        LET named == {<<reply.items[i].source, reply.items[i].source_tag>> :
                          i \in DOMAIN reply.items}
                     \cup {<<reply.items[i].destination, reply.items[i].destination_tag>> :
                          i \in DOMAIN reply.items}
        IN  \A x, y \in named : x[1] = y[1] => x[2] = y[2]

\* The numbers of a set in their order.
InOrder(S) == {all \in [1..Cardinality(S) -> S] :
                  \A i, j \in DOMAIN all : i < j => all[i] < all[j]}

\* As long as the end of the page fits an int, the page is the slice of the
\* transfers that its number names (xrpc_handler.cpp:289-332 and 574-602).
Fits(request) ==
    /\ request.count >= 0 /\ request.per_page >= 0
    /\ (request.count + 1) * request.per_page = end_num(request)

PageIsSlice ==
    reply.query \in {"account_history", "query_online_tx"} /\ Fits(reply.request) =>
        LET start == reply.request.count * reply.request.per_page
            slice == {i \in 1..reply.count :
                        start < i /\ i <= start + reply.request.per_page}
        IN  \E all \in InOrder(reply.shown) : reply.page = {all[i] : i \in slice}

\* Whatever overflows, no page has more transactions than were asked for,
\* unless a negative number was (xrpc_handler.cpp:291, 310, 370, 576 and 589).
PageBounded ==
    reply.query \in {"account_history", "account_pending", "query_online_tx"} =>
        LET asked == IF reply.query = "account_pending" THEN reply.request.count
                                                        ELSE reply.request.per_page
        IN  asked >= 0 => Cardinality(reply.page) <= asked

\* A client that reads page after page until it has as many as "count" says
\* has seen every transfer there was when it began, except those that an
\* account_delete has removed from the store since (lines 660-668): blocks that
\* settle in the meantime move the others to later pages only, and a list that
\* starts anew ends the reading early only when nothing is left to be read
\* (xrpc_handler.cpp:297-334).
NothingSkipped == client.done => client.goal \subseteq client.seen
=============================================================================
