----------------------------- MODULE HttpServer -----------------------------
(***************************************************************************)
(* xrpc_server: the accept loop over one io_service, whose callbacks run   *)
(* one at a time in the thread of run(), composed with the connections.    *)
(* An exception of a handler leaves io_service::run and run() goes around  *)
(* its loop; an io_service that has run out of work is stopped, and nobody *)
(* resets it.                                                              *)
(***************************************************************************)
EXTENDS HttpConnection

CONSTANTS StoreError,      \* what update_event may answer besides store_ok
          MaxExceptions,   \* bound: handlers that throw
          MaxErrors,       \* bound: accepts that fail
          MaxRestarts,     \* bound: restarts of the process
          MaxAccepts       \* bound: pending accepts of a stopped io_service

ASSUME ServerConstants ==
    {MaxExceptions, MaxErrors, MaxRestarts, MaxAccepts} \subseteq Nat

VARIABLES main,        \* run(): at "genesis", "accept", in "run", or "exited"
          accepts,     \* pending async_accepts
          stopped,     \* the io_service is stopped
          genesis,     \* the store has the genesis account
          exceptions, errors, restarts   \* how many there were

server == <<main, accepts, stopped, genesis, exceptions, errors, restarts>>
vars == <<conn, server>>

\* Callbacks run inside io_service::run, unless it is stopped.
Serving == main = "run" /\ ~ stopped
-----------------------------------------------------------------------------
(* The server *)

\* What the store answers to the creation of the genesis account.
update_event_answers ==
    IF genesis THEN {"create_account_is_exist"} ELSE {"store_ok"} \cup StoreError

\* Mutant: an account that is already there counts as an error.
genesis_account_create_strict ==
    /\ main = "genesis"
    /\ \E ret \in update_event_answers :
        /\ genesis' = (genesis \/ ret = "store_ok")
        /\ main' = IF ret = "store_ok" THEN "accept" ELSE "exited"
    /\ UNCHANGED <<conn, accepts, stopped, exceptions, errors, restarts>>

\* run() goes on when the account was created or was there; else it returns.
genesis_account_create ==
    /\ main = "genesis"
    /\ \E ret \in update_event_answers :
        /\ genesis' = (genesis \/ ret = "store_ok")
        /\ main' = IF ret \in {"store_ok", "create_account_is_exist"}
                   THEN "accept" ELSE "exited"
    /\ UNCHANGED <<conn, accepts, stopped, exceptions, errors, restarts>>

\* The loop of run() starts an accept each time round and enters the io_service.
run_accept ==
    /\ main = "accept"
    /\ stopped => accepts < MaxAccepts
    /\ accepts' = accepts + 1
    /\ main' = "run"
    /\ UNCHANGED <<conn, stopped, genesis, exceptions, errors, restarts>>

\* io_service::run returns when nothing is pending, and at once when stopped.
run_returns ==
    /\ main = "run"
    /\ \/ stopped
       \/ accepts = 0 /\ \A c \in Conn : ~ Pending(c)
    /\ stopped' = TRUE
    /\ main' = "accept"
    /\ UNCHANGED <<conn, accepts, genesis, exceptions, errors, restarts>>

\* Mutant: serves the connection and starts no new accept.
do_accept_once(c) ==
    /\ Serving /\ accepts > 0 /\ conn[c].client = "waiting"
    /\ handle_accept(c)
    /\ accepts' = accepts - 1
    /\ UNCHANGED <<main, stopped, genesis, exceptions, errors, restarts>>

\* The callback of do_accept: the connection starts to read, and the accept
\* that has ended is replaced by a new one.
do_accept(c) ==
    /\ Serving /\ accepts > 0 /\ conn[c].client = "waiting"
    /\ handle_accept(c)
    /\ UNCHANGED server

\* The callback of do_accept with an error code starts no new accept.
accept_error ==
    /\ Serving /\ accepts > 0 /\ errors < MaxErrors
    /\ accepts' = accepts - 1
    /\ errors' = errors + 1
    /\ UNCHANGED <<conn, main, stopped, genesis, exceptions, restarts>>

\* A callback of a connection that ends normally, or in the catch of run().
Callback(c) ==
    /\ Serving
    /\ \/ parse_method(c) \/ on_post(c) \/ do_read_http_body(c)
       \/ read_error(c) \/ write_done(c)
    /\ UNCHANGED server

Exception(c) ==
    /\ Serving /\ exceptions < MaxExceptions
    /\ handler_throws(c)
    /\ exceptions' = exceptions + 1
    /\ main' = "accept"
    /\ UNCHANGED <<accepts, stopped, genesis, errors, restarts>>

\* The process ends and is started again: only the store remains.
Restart ==
    /\ restarts < MaxRestarts
    /\ restarts' = restarts + 1
    /\ main' = "genesis" /\ accepts' = 0 /\ stopped' = FALSE
    /\ exceptions' = 0 /\ errors' = 0
    /\ ConnectionsLost
    /\ UNCHANGED genesis

Network(c) ==
    /\ Connect(c) \/ Disconnect(c) \/ Receive(c)
    /\ UNCHANGED server
-----------------------------------------------------------------------------
Init ==
    /\ ConnInit
    /\ main = "genesis" /\ accepts = 0 /\ stopped = FALSE /\ genesis = FALSE
    /\ exceptions = 0 /\ errors = 0 /\ restarts = 0

Next ==
    \/ genesis_account_create \/ run_accept \/ run_returns \/ accept_error \/ Restart
    \/ \E c \in Conn : do_accept(c) \/ Callback(c) \/ Exception(c) \/ Network(c)

Spec == Init /\ [][Next]_vars

\* The thread of run() is scheduled, asio calls back every operation that is
\* ready, and a client that stays sends the whole of its message.
FairSpec ==
    /\ Spec
    /\ WF_vars(genesis_account_create) /\ WF_vars(run_accept)
    /\ \A c \in Conn :
        /\ WF_vars(do_accept(c)) /\ WF_vars(Callback(c))
        /\ WF_vars(Receive(c) /\ UNCHANGED server)
-----------------------------------------------------------------------------
(* Properties *)

\* What m_response is made of.
Response == {"options", "403", "Result_1", "Result_1_ErrCode", "Result_0_ErrCode"}

\* Every variable keeps to its type; what the handler gets is never more than
\* the body (xrpc_server.cpp:94-96).
TypeOK ==
    /\ conn \in [Conn -> [client : {"none", "waiting", "open", "gone"},
                          msg : Message \cup {[method |-> "GET", body |-> <<>>]},
                          got : Nat, consumed : Nat,
                          reading : {"no", "space", "end_of_header", "brace"},
                          response : Seq(Response), writing : Seq(Seq(Response)),
                          stream : Seq(Response), fell : BOOLEAN,
                          seen : Seq({"text", "brace"}), executed : Nat]]
    /\ main \in {"genesis", "accept", "run", "exited"}
    /\ stopped \in BOOLEAN /\ genesis \in BOOLEAN
    /\ {accepts, exceptions, errors, restarts} \subseteq Nat

\* One accept is pending, one more for every exception that has left
\* io_service::run, one less for every accept that failed: the server hears
\* nobody only after more accepts have failed than handlers have thrown
\* (xrpc_server.cpp:190-204 and 289-300).
AcceptsAccounted ==
    main \in {"accept", "run"} =>
        IF stopped THEN errors = exceptions + 1
        ELSE accepts + errors + (IF main = "accept" THEN 1 ELSE 0) = exceptions + 1

\* A client gets at most one response, unless parse_method's undefined result
\* was true (xrpc_server.cpp:60-88 and 139-147).
OneResponse ==
    \A c \in Conn : ~ conn[c].fell =>
        Len(conn[c].stream) + Len(FlattenSeq(conn[c].writing)) <= 1

\* A body with a single closing brace, at its end.
Flat(body) == body # <<>> /\ \A i \in DOMAIN body : body[i] = "brace" <=> i = Len(body)

\* However the network cuts a request into pieces, and although the headers
\* and the body share a buffer, the handler gets the whole of a flat body
\* (xrpc_server.cpp:94-105 and 39-47).
FlatBodyWhole ==
    \A c \in Conn : conn[c].executed > 0 /\ Flat(conn[c].msg.body) =>
        conn[c].seen = conn[c].msg.body

IsResult(response) == response \in {"Result_1", "Result_1_ErrCode", "Result_0_ErrCode"}

\* Where there are results among the responses.
Results(responses) == {i \in DOMAIN responses : IsResult(responses[i])}

CallServicePromise == INSTANCE CallService WITH
    Call     <- Conn,
    executed <- [c \in Conn |-> conn[c].executed],
    answers  <- [c \in Conn |->
        [i \in 1..Cardinality(Results(conn[c].stream)) |-> c]]

\* Over HTTP too a request is executed at most once and its result reaches its
\* client at most once, whatever parse_method returns, although writes from
\* m_response may overlap, handlers throw and the process restarts
\* (xrpc_server.cpp:35-57 and 149-173).
ImplementsCallService == CallServicePromise!Spec

\* As long as no accept fails, a POST with a closing brace gets
\* to the handler and a response that was started is delivered, unless the
\* client goes away: a handler that throws for one client, and a restart on a
\* store that has the genesis account, leave nobody else waiting
\* (xrpc_server.cpp:233-304).
EveryPostServed ==
    \A c \in Conn :
        /\ (/\ conn[c].client \in {"waiting", "open"}
            /\ conn[c].msg.method = "POST" /\ Contains(conn[c].msg.body, "brace"))
           ~> (conn[c].executed > 0 \/ conn[c].client = "gone")
        /\ conn[c].writing # <<>> ~> conn[c].writing = <<>>
=============================================================================
