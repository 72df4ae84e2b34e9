# A TLA+ model of xrpcserver

xrpcserver is the RPC front end of a blockchain node. Clients send JSON
requests over gRPC or HTTP; a handler reads the account store of the node,
builds a transaction, signs it or verifies the client's signature, and
broadcasts it as a proposal. Consensus nodes decide proposals later, and the
local store learns their decisions later still. The interesting questions are
about that distance: every check is made on a state that is old by the time it
matters, and many requests are served at once.

The modules here model the transaction requests, the queries, both gRPC services
and the HTTP server. Line numbers refer to `src/`.

## Inventory

| Component | Source | State | Operations | Model |
|---|---|---|---|---|
| Transaction requests | `xrpc_handler.cpp`, `common/xrpc_utility.cpp` | the transaction and the response of one request | `account_create`, `transfer_out`, `transfer_in`, `give`, `set_property`, `account_delete`, `account_snap_delete`, `account_sync`, `trigger_elect` | `XrpcHandler`, without the last three |
| Account store, consensus, message dispatcher | not in the repository | units per account, pending transfers, proposals under way | `get_settle_blocks`, `get_receive_blocks`, `get_account_snap_info`, `get_last_hash`, `get_account_balance`, `exist_account`, `update_event`, `delete_account`, `broadcast` | `Ledger` |
| Asynchronous gRPC service | `xrpc_service.cpp:62-228` | CallData objects, a completion queue, six threads | `HandleRpcs`, `CallData::Proceed` | `AsyncService`, its statistic `CallRate` |
| Synchronous gRPC service | `xrpc_service.cpp:29-58, 230-259` | a call counter and the time of the last report | `call` | `CallRate` |
| HTTP connection | `xrpc_server.cpp:35-178` | a socket, a request and a response buffer | a chain of asynchronous reads, then a write | `HttpConnection` |
| HTTP server | `xrpc_server.cpp:190-204, 233-304` | the acceptor, the `io_service` | `do_accept`, `run`, `genesis_account_create` | `HttpServer`; the created account is the initial state of `Ledger` |
| Queries | `xrpc_handler.cpp:170-383, 572-606, 645-658, 738-780` | none between requests | `account_info`, `account_balance`, `last_digest`, `query_property`, `query_all_property`; `account_history`, `account_pending`, `query_online_tx`; `query_tps` | `XrpcQueries`; `XrpcHistory`; `query_tps` no |
| Retry timer | `xrpc_handler.cpp:881-898, 912-928` | - | compiled out (`#if 0`) | no |
| Encodings, generated code | `common/` | - | base64, protobuf | no |

How they interact. A gRPC thread or the thread of the HTTP server creates an
`xrpc_handler` for each request and calls `handle_request`. Handlers share
nothing but the store singleton, the message dispatcher and `xsync_account`.
The store changes under them when decisions are applied and when another
request deletes an account. There is no lock across two store calls.

What is hard, and what makes each part correct:

- *Requests*: reads of one handler interleave with decisions and with other
  handlers. Correct means: genesis grants an account once, a `transfer_out`
  request that the server signs overdraws nothing, a refusal has a reason.
- *Asynchronous service*: any thread may take any event; objects delete
  themselves. Correct means: no use after deletion, one reply per call, and the
  service keeps listening.
- *Synchronous service*: an unsynchronised counter guards a division.
  Correct means: a report divides by zero only for a reason that lies after the
  last report, of which the model gives the complete list.
- *HTTP*: reads end where the data happens to be split; exceptions, failed
  accepts and an `io_service` that has stopped. Correct means: each request gets
  one response, to the whole request, and the server keeps accepting.
- *Queries*: several reads that must fit together, and integer paging. Correct
  means: answers never go back in time, `account_info` and `give` agree on
  who may still be given something, pages are slices and miss nothing.

## Modules

| Module | What it is |
|---|---|
| `Ledger` | the store, the network and the messages between them (external), and the genesis account of `xrpc_server.cpp:233` |
| `XrpcHandler` | the transaction requests, one step per store call, any number of threads |
| `Faucet` | what `give` promises, as an atomic specification |
| `MCXrpcHandler` | instances for TLC |
| `XrpcHandlerProofs` | type correctness, the inductive invariant of the chains |
| `FaucetProofs` | `give`: granted once, refused for a reason, and the refinement of `Faucet` |
| `TransferProofs` | `transfer_out`: what the server signs is covered, and built on the last unit |
| `CallService` | what a service promises for a call |
| `AsyncService` | `HandleRpcs` and `CallData` over the gRPC runtime (external) |
| `XrpcQueries` | the queries of one account, as further threads over `XrpcHandler` |
| `XrpcHistory` | the queries that answer with a list, and a client that reads page by page |
| `CallRate` | the call counters and reports of both gRPC services, at the grain of a memory access |
| `HttpConnection` | one connection: its chain of reads and its writes |
| `HttpServer` | the accept loop and the `io_service`, composed with the connections; refines `CallService` |
| `XrpcQueriesProofs`, `XrpcHistoryProofs` | what clients may conclude from answers; pages, names and a client that reads all pages |
| `AsyncServiceProofs`, `CallRateProofs` | the types and holders of CallData and the refinement of `CallService`; when a report divides by zero |
| `HttpServerProofs` | the pending accepts, the state of a connection, and the refinement of `CallService` |
| `MCAsyncService`, `MCXrpcQueries`, `MCXrpcHistory`, `MCCallRate`, `MCHttpServer` | instances for TLC |

### Ledger

The decided transactions are one sequence `log`; each entry has the balance
that its unit leaves the sender with. The network has the whole sequence, the
local store the first `applied` entries. `account_delete` makes a store forget
the units of an account up to then: `localFrom[a]` and `netFrom[a]` say how
far, and differ while the message is under way. A digest is the position of the
hashed fields in `hashed`, so equal transactions have equal digests and none can
be named before it exists.

This is what the handlers rely on, and all that the model assumes of code
outside the repository:

- a transaction other than a creation is decided only on top of the unit it
  names as its last digest (handlers fill in `m_last_msg_digest` for this);
- an account that exists is not created again (`xrpc_server.cpp:273`);
- a transfer is taken in at most once by its receiver;
- the local store applies decisions in their order;
- proposals can be lost, delayed, reordered and decided long after; the network
  does *not* check balances.

### XrpcHandler

`pc[w]` names the store call that thread `w` makes next, `tx[w]` the digest of
its transaction. The code between two store calls is in the step of the later
one; `do_transaction` reads nothing and is in the step of the last call.

| Code | Steps |
|---|---|
| `account_create` | `exist_account` (in `check_input`), signature, broadcast: one step |
| `set_property` | key check, last digest, signature, broadcast: one step |
| `account_delete` | local deletion and message: one step; its arrival is `NetworkDelete` |
| `transfer_out` | `transfer_out` (last digest, signature), `transfer_out_balance`, `transfer_out_last_hash` |
| `transfer_in` | `transfer_in`, `transfer_in_last_hash` |
| `give` | `give` (last digest of genesis), `give_exist_account`, `give_receive`, `give_settle` |

`Amount` is a set of integers: `std::stoll` (line 491) takes negative ones, which
pass every comparison with a balance. `NotANumber`, on which it throws, and
`Empty`, which an account creation turns into 0, are two values of their own.
Clients name the accounts of `Deletable` in `account_delete`. An action that is
none ("unknown", lines 154-157) is answered by `action_invalid`. The server holds the keys of three
accounts (`no_hash`): for those it reads the last digest and signs; any other
client sends its last digest, which may be old or of a transaction that is not
decided yet, and a signature that may be wrong. A client names only digests of
its own transactions, and takes in only transfers to itself.

Not in the model: the response text, `m_edge_timestamp`, `m_random_nounce`, the
node type (both kinds of broadcast reach the network), and the unique message
number. `deletions` is a set: two `account_delete` messages for one account that
are under way at once are one. Operators whose comment begins with "Mutant" are faulty variants of the
definition below them, kept to show that the properties can fail.

### AsyncService

An object is its address. A step ends where somebody else can see it: at
`Requestcall` and `Finish`, which hand the address to the runtime, and after the
handler. The handler is one step, as nothing in it touches the CallData. Calls in
`Cancels` may be cancelled at any time; then the event of their `Finish` comes
with `ok` false. The completion queue is first in, first out. Serving a call in `Fatal` ends the process: an exception in a
thread without a `catch`, or a division by zero at line 156. Addresses are reused
after `delete this`, and there are enough for every thread and every call.

### XrpcQueries

`XrpcQueries` EXTENDS `XrpcHandler`: a step is a request step (`Requests`) or a
step of a reader (`Queries`), which leaves all of `XrpcHandler` alone. Queries
with one store call are one step. `account_info` makes three: the snapshot
(line 200), the settled blocks (221), the pending ones (231); `give` reads
the two lists in the opposite order. A query that needs the last unit gets it
from `last_unit` of the local view, as `m_unit_snap.back()` does.

`reply` is the answer of a step. `newest`, `told`, `refused` and `since` are what
clients remember, for the properties: the newest unit they heard of per account,
the last digest they were given and when it was read, the accounts that were
refused a give, and which of those were refused before a request began.

### XrpcHistory

One history is a sequence of blocks, up to what paging and names ask of them.
`account_history` copies the list in one call (line 297); the loop over it is
abstracted to the set of positions in the page, and each `set_property_value`
is two steps, one per account, as each may be a store call. `user_tag`
remembers what was found, and the empty name, too. `num(shown, i)` is the
counter of the loop at the block in position i, and `ItemAfter` the block that
the next item is made of. `Wrap` is the value of an `int` whose largest value is
`IntMax`. `client` reads page 0, 1, ... until it has covered the `count` of the
last answer, while `Settle` puts blocks at the front of the list and
`account_delete` empties it and the names, or deletes another account whose name
is shown.

### CallRate

A call is: the handler, which may throw, the counter, the check, the clock, the
division, the update of the last timestamp. `m_call_num++` is a load and a store,
`grpc_recv_num++` one step. The members of `xrpc_serviceimpl` have no
initialiser, so `Init` lets them have any value; the globals of the asynchronous
service are zero. The counter wraps at `2^Bits`, a round is `Every` calls. The
asynchronous counter is a signed `int`, which would wrap to a negative number:
a remainder of zero is the same for both. `get_timestamp_ms` is `gettimeofday`:
`Tick` advances it, `SetBack` sets it to any earlier time. An exception of the
handler (line 38) leaves a synchronous call before it is counted; in a thread of
the asynchronous service it ends the process.

`counted` and `causes` remember, for the property, what has happened since the
last report: how many calls were counted while the clock showed the time of that
report, and which of these were met: a call was counted while another one was
busy with the plain integer or with a report; a number zero; a clock set back; a
time that nobody set. `update_last` empties both, except for what still goes on:
`crowded`, that the calls that are busy have overlapped, and a clock that is
behind the time it stores.

### HttpConnection and HttpServer

A connection is a record; each action is one asio callback, and callbacks run
one at a time in the thread of `run()`. The bytes of a request are a method, a
blank, the end of the header, and the body, of which only the closing braces
matter; `Receive` takes in the next piece, of any length, when a read is pending
that has not found its delimiter. What is behind the delimiter stays in the
buffer for the next read, as in `asio::streambuf`. A body that is cut, or whole
but no JSON, sets the ErrCode of the parser (`xrpc_handler.cpp:51`) and is
handled all the same, so that its answer may have Result 1 and an ErrCode.

| Code | Action |
|---|---|
| `do_accept`, `handle_accept`, `do_read` | `do_accept(c)`: the accept is replaced and `parse_method` starts its read |
| `parse_method` has no return statement (line 60) | the result is any Boolean; if true, `on_error` writes at once, and `fell` remembers it |
| the callback of `parse_method` | `parse_method(c)`: POST goes on, OPTIONS is answered, nothing follows for others |
| the callback of `on_post` | `on_post(c)`: drops the header |
| the callback of `do_read_http_body` | `do_read_http_body(c)`, or `Exception(c)` when the handler throws |
| `asio::async_write` | `Write`, `write_done(c)`: a second write that starts before the first has ended transmits `m_response` with what is still in it |
| `run` | `genesis_account_create`, `run_accept`, `run_returns` |
| an accept that fails (line 199) | `accept_error`: no new accept |
| a restart of the process | `Restart`: only the store remains |

`m_response` may be written to while a write is pending; that asio's buffer may
move in memory then is not modelled. `201 Error` (line 155) is not either: the
handler's response is never empty. A client that goes away is noticed by the
server at `Disconnect`.

## Runs

| Run | Question | Instance | Result |
|---|---|---|---|
| `give` | `GrantedOnce`, `AlreadyGiveTruthful`, `ImplementsFaucet`: is an account granted once, whatever the interleaving and unless it is deleted? | 2 threads, genesis and one account that may be deleted, 4 transactions, 5 decisions | holds, 428,490 states up to symmetry |
| `transfer` | `TransferOutCovered`: does a `transfer_out` that the server signs overdraw an account? | 2 threads, genesis and one account, amounts 1 and -1, gives beside the transfers, 4 transactions | holds, 145,173 states up to symmetry |
| `requests` | `TypeOK`, `BuiltOnLastUnit` over all requests, inputs and error answers | 2 threads, 3 kinds of account, all of which may be deleted, 2 transactions | holds, 125,653 states up to symmetry |
| `queries` | `NeverBackwards`, `StaleOnlyIfOvertaken`: the queries with one store call beside `account_create`, `transfer_out` and `set_property` | 1 thread, 1 reader, genesis and one client, 4 transactions | holds, 148,324 states |
| `info` | `NeverBackwards`, `GiveOffered`, `RefusalStands`, `StaleOnlyIfOvertaken`: does `account_info` agree with `give` and `transfer_in`? | 1 thread, 1 reader, genesis and one client, 5 transactions, 4 decisions | holds, 823,646 states |
| `history` | `OneNameEach`, `PageIsSlice`, `PageBounded`, `NothingSkipped` | 3 blocks, 4-bit ints, pages of 1 and 2 for the client, six requests that fit, overflow or are negative | holds, 2,726,940 states |
| `rate` | `ZeroIntervalExplained`, both services | 4 calls, reports every 3, a 3-bit counter, 2 ms | holds, 1,081,585 states up to symmetry |
| `http` | `TypeOK`, `AcceptsAccounted`, `OneResponse`, `FlatBodyWhole`, `ImplementsCallService` | 2 clients, 4 messages, 1 exception, 2 failed accepts, 1 restart | holds, 974,673 states up to symmetry |
| `http_live` | `EveryPostServed` | 2 clients with a flat POST, 1 exception, 1 restart, no failed accept | holds, 88,145 states |
| `async` | `TypeOK`, `SoleHolder`, `ListenersConserved`, `ImplementsCallService` | 2 threads, 3 calls, one cancellable and one fatal | holds, 4,095 states up to symmetry |
| `async_live` | `EveryCallAnswered` | 2 threads, 3 calls | holds, 529,588 states |
| `async_cancel` | `EventsOk`: is every event ok, as `GPR_ASSERT(ok)` says? | 2 threads, 2 calls, one cancellable | violated |

What the properties leave out, so that nobody reads more into them:

- `TransferOutCovered` is about `transfer_out` requests. `give` signs a payment of
  genesis without reading its balance (lines 513-570): the server does sign
  overdrafts of genesis, and only the network could refuse them. In the run
  they happen, and later `transfer_out` requests are covered all the same. It is
  not about deleted accounts either: the last-hash check passes when an account is
  gone (line 499), and one that is created anew with the same content has the same
  digest again, with a smaller balance.
- `BuiltOnLastUnit` leaves out deleted accounts for the same reason.
- `NothingSkipped` is about transfers that are still there: a client whose account
  is deleted between two pages has not seen all of them.
- `NeverBackwards` compares an answer with what clients had heard of when the query
  read the unit, not with answers that overtake it on the way.
- `OneResponse` is about connections whose `parse_method` was not taken to fail. For
  the others `ImplementsCallService` says that at most one *result* arrives.
- `EveryPostServed` is about servers whose accepts do not fail; `AcceptsAccounted`
  covers failed ones.
- `FlatBodyWhole` says which bodies reach the handler whole. That the answer to a
  bad body may contradict itself is in the model, but no property forbids it.

Why the bounds are enough. `MaxTx` and `MaxLog` bound the transactions that are
built and decided. In `give`, granting an account twice takes the creations of
genesis and the account and two different gives, four transactions. Genesis may
give to itself, so that a gift, its receipt and a second give are four as well,
and then only `get_settle_blocks` refuses. An account that was deleted is created
anew by the same transaction, so that its second creation and its second gift fit
five decisions. An overdraft takes the creation of genesis and of an account and
two transfers of the whole balance. In `queries` a client that builds on a digest
it was told is refused after genesis, its own creation, a transaction that
overtakes and the one that is stale, four. In `info` a client is paid,
takes it in, hears "give 0", and a give that begins then is refused by the second
read only: genesis, creation, gift, receipt and the new give, five; a
`transfer_in` on a digest it was told can be stale by then. Two threads
give all interleavings of two requests; a third one adds no new pair of reads. In
`queries` and `info` one thread is enough, because the properties relate one
request to one client's memory and to the decisions, which come at any time.
The proofs below have no such bounds.

In `AsyncService` three calls for two threads need an object created after the
start, and reuse addresses. In `requests` the two transactions are the genesis
account and any one more, which is enough for an account to vanish between two
store calls. Three blocks make pages of one and two that a new block shifts, and
six requests cover a page that fits, a wrapped end, a wrapped end and start, and a
negative number. Four calls with a round of three pass a whole round and start the
next one, and a 3-bit counter, which is no multiple of three, wraps in the middle
of a round; each cause that `ZeroIntervalExplained` names makes a division by zero
on its own there, and so does a whole round without any. Two HTTP clients are one
that makes trouble and one that must be served all the same; two failed accepts
are one more than the server starts with, so that it stops.

`give`, `transfer`, `queries` and `info` use a VIEW without `rsp` and `reply`, the
answers a step gives. No step depends on them, and the properties that mention them
are about steps, each of which TLC checks whether or not the state it leads to is
new.

Deadlock is checked in the runs of `XrpcHandler`, `XrpcQueries` and
`XrpcHistory`: some request is always answered. It is not in the others, where
the clients may have made all their calls, or the process has ended.

Fairness is assumed in two runs. In `http_live` the thread of `run()` is
scheduled, asio calls back every operation that is ready, and a client that
stays sends the whole of its message; nothing makes a client connect, stay or
be accepted without an accept pending. That no accept fails is a condition of
the property, not fairness: `AcceptsAccounted` says what happens otherwise. In
`async_live` every thread is scheduled, the runtime
gives a call that was sent to a waiting CallData and transmits each reply. That
is what the operating system and gRPC do; nothing makes a client send. The
requests of `XrpcHandler` are checked for safety only, because no retry makes a
proposal reach the network (the timer at line 912 is compiled out).

**Finding.** `HandleRpcs` asserts `ok` of every event (`xrpc_service.cpp:212`).
A Finish whose call is dead comes back with `ok` false, so a client that cancels
at the wrong time aborts the process, as `async_cancel` shows. The service
runs `sync_run` today (line 257), and `async_run` is commented out.

## Proofs

Every safety property that a passing run checks is also a theorem, for any sets
of accounts, amounts, threads, calls, addresses, connections and messages, any
bounds, any length of a round and any width of an integer. The assumptions are
those that the modules name, which TLC evaluates in every run:
`LedgerConstants`, `HandlerConstants`, `HistoryConstants`, `AsyncConstants`
(finite sets, and addresses enough for every thread and call), `RateConstants`,
`MessageType` and `ServerConstants`. One theorem has a hypothesis of its own, below.

Requests:

- `TypeCorrect` (`XrpcHandlerProofs`): `Spec => []TypeOK`.
- `ChainInvariant` (`XrpcHandlerProofs`), the inductive invariant `IInv` that the
  others rest on. `TypeOK` does not say how units follow each other;
  `ChainInv` says that the units of an account that is not deleted begin with
  its creation and that their digests grow along `log`. A unit that was the last
  one when a transaction was built on it is therefore never the last one again
  once another has followed, and two units never share a predecessor.
  `DeletionInv` says that neither store has forgotten anything unless a deletion
  was requested at this node. `ReceivedWasSent` adds that what was taken in was
  sent before.
- `GrantedOnceHolds` and `FaucetImplemented` (`FaucetProofs`): with `GiveInv`,
  which says of every give under way or proposed that the account was unpaid at
  the unit the give names as its last digest, for as much as the handler has
  checked so far. A payment decided later is a unit of genesis after that one,
  so the give is no longer decided. This is why reading the last digest
  *before* the checks (line 522) matters: the mutant that reads it
  afterwards grants twice.
- `AlreadyGiveTruthfulHolds` (`FaucetProofs`): the refusal at line 553 sees only
  what was taken in, so that it needs `ReceivedWasSent`.
- `TransferOutCoveredHolds` (`TransferProofs`): with `TransferInv`, which says of
  every `transfer_out` request past its balance check that the unit it names as its
  last digest leaves enough. If the balance was read from a later unit, the transfer
  is stale and never decided. Amounts are any integers. Nothing is proved of the
  payments of `give`, nor of deleted accounts.
- `BuiltOnLastUnitHolds` (`TransferProofs`): with `SenderExists`, which says that the
  sender of a transfer past its balance check is still in the store unless it was
  deleted. Without it the last-hash check might pass for want of an account.

Queries (`XrpcQueriesProofs`), over the same `IInv` and `ReceivedWasSent`; the
invariant `QInv` says what the clients' memory stands for in the store:

- `NeverBackwardsHolds`: `NewestShown`, that the newest unit a client heard of is in
  the store, and `QueryStage`, that the snapshot of an `account_info` is.
- `GiveOfferedHolds`: what `account_info` did not find among the settled blocks came
  after the number of decisions it had seen then, `settled`.
- `RefusalStandsHolds`: `RefusedPaid`, that something was sent to an account once it
  was refused, and `GiveSees`: if a give finds nothing to receive for it, then it
  was taken in, and the second read finds that. The reads of
  `account_info` are in the opposite order, which is why this is not symmetric.
- `StaleOnlyIfOvertakenHolds`: `ToldLast`, that a digest that was given out was the one
  of the last unit when it was read.

Histories (`XrpcHistoryProofs`):

- `PageBoundedHolds`: an overflow changes `start_num` and `end_num` by multiples of
  the width of `int`, so that their difference is `per_page` less a multiple of it
  (`PageWidth`), and numbers of transactions are different (`NumbersIn`).
- `PageIsSliceHolds`: the transaction in the i-th place has the number i - 1
  (`OrderNumbers`).
- `OneNameEachHolds`: with `Tags`, that every item shows the name that `user_tag` has,
  and that `user_tag` only grows.
- `NothingSkippedHolds`: with `Reading`: what the client is after, and no deletion has
  removed, is seen already, or
  its number is not on an earlier page than the next one. A block that settles
  makes numbers grow only (`RankGrows`), from the list that was copied to the
  one there is when the answer comes. Its hypothesis `ListsFit` says that
  `MaxBlocks` and one `per_page` of the client fit an `int` together. Without it
  the end of a page overflows before the client is through, and the property
  is false; with 32 bits that takes two thousand million blocks of one account. The
  run satisfies it (3 + 2 blocks, `IntMax` 7).

Services and server:

- `SoleHolderHolds`, `TypeCorrect` (`AsyncServiceProofs`): `ThreadShape` says what a
  thread has in its hands at each step, `NoSharing` that nothing is in two hands,
  two events, or with the runtime as well, and `HeldIsLiving` that the living
  CallData are exactly the held ones. `SoleHolder` counts holders, which is not
  inductive by itself: it does not say which of the threads may go on with one.
- `ListenersConservedHolds`: with the same parts and `Stage`, the status each holder finds.
- `AsyncImplementsCallService`: with `Serving`, that a call belongs to one CallData at
  most, and how far both are.
- `ZeroIntervalExplainedHolds` (`CallRateProofs`), for both services: unless the busy
  calls have overlapped, at most one is busy and the counter is where it left it
  (`OneBusy`); unless there was a cause since the last report, the calls counted
  in its millisecond are at least the place of the counter in its round
  (`CountedSince`), and a report is due when that is a whole round. `OneBusy` does not
  depend on causes, so that a report that was alone starts the next
  interval with none, whatever happened before it.
- `AcceptsAccountedHolds` (`HttpServerProofs`): with `Fresh`, which says that nothing
  has happened before `run()` enters its loop, `AcceptsAccounted` is inductive. Each
  exception leaves one more accept pending, each failed accept one less.
- `TypeCorrect`, `FlatBodyWholeHolds`, `OneResponseHolds`, `HttpImplementsCallService`
  (`HttpServerProofs`): `ConnInv` says of each connection where its chain of reads is
  (`Chain`: which delimiter is awaited says how much of the message was taken out,
  and that the handler has not run), that a first write is the only one
  unless `parse_method` fell into `on_error` (`Single`), and that at most one
  result is in the pending writes and at the client together (`OneResult`), which is
  what overlapping writes from one buffer put at risk.

Only model-checked:

- `EveryCallAnswered` and `EveryPostServed`: liveness under fairness, and `ENABLED`,
  are out of the prover's reach.
- `EventsOk` is false; a counterexample is all there is to say.
- The absence of deadlock, in the runs that check it.

## Not modelled

- `account_snap_delete`, `account_sync` and `trigger_elect`: one call each into
  code that is not in the repository; nothing here says what it does.
- `query_tps` passes on what the store says.
- The retry timer (lines 881-898 and 912-928) is compiled out.
- The number of a proposal message (line 45) is the time in seconds plus `rand()`.
  The comment at line 841 calls it unique; it is so only with some probability.
- base64, hexadecimal and JSON conversions: digests are positions, messages are
  records. A body that was not read completely is told from a complete one.
- Generated protobuf and gRPC code, and `test()` in `xrpc_server.cpp`.

## Plan

Done: all modules of the inventory that are modelled, their runs, and a proof of
each safety property, action property and refinement that a passing run checks.

Next:

1. A theorem about what `IInv` already says and no property states yet: the store
   of this node shows a beginning of the units that the network has, for every
   account that was not deleted.
2. Shorter proofs: the lemmas on `log` growing of `XrpcHandlerProofs` and those on
   the queue of `AsyncServiceProofs` have cases that could share a lemma.
3. `account_snap_delete`, `account_sync` and `trigger_elect`, if their other half
   becomes available.
