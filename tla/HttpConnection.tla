--------------------------- MODULE HttpConnection ---------------------------
(***************************************************************************)
(* xrpc_connection: one HTTP request per connection, read by a chain of    *)
(* asynchronous reads into the buffer m_request and answered by writes     *)
(* from the buffer m_response.  Each action is one callback, which starts  *)
(* the next operation; HttpServer says when callbacks run.                 *)
(***************************************************************************)
EXTENDS Integers, Sequences, SequencesExt

CONSTANTS Conn,       \* the connections of the clients
          Message     \* what clients send: a method, and a body of which only
                      \* the closing braces matter

ASSUME MessageType ==
    Message \subseteq [method : {"POST", "OPTIONS", "GET"}, body : Seq({"text", "brace"})]

VARIABLE conn
\* conn[c] is a record of the state of connection c:
\*   client              "none", "waiting" for accept, "open" or "gone"
\*   msg                 what the client sends
\*   got, consumed       how much of it m_request has taken in, and dropped
\*   reading             the delimiter of the pending async_read_until, or "no"
\*   response, writing   m_response, and what the pending async_writes transmit
\*   stream              the responses that have reached the client
\*   fell                parse_method returned true
\*   seen, executed      the body the handler got, and how often it was called

Bytes(m) == <<m.method, "space", "end_of_header">> \o m.body

\* The bytes in m_request.
Buffer(c) == SubSeq(Bytes(conn[c].msg), conn[c].consumed + 1, conn[c].got)

\* The pending async_read_until is for this delimiter and has found it.
Found(c, delimiter) ==
    conn[c].reading = delimiter /\ Contains(Buffer(c), delimiter)

\* async_write transmits all of m_response; a write that is already pending
\* has not yet been taken out of it.
Write(r, responses) ==
    [r EXCEPT !.response = @ \o responses,
              !.writing = Append(@, r.response \o responses)]

Pending(c) == conn[c].reading # "no" \/ conn[c].writing # <<>>
-----------------------------------------------------------------------------
(* The callbacks *)

on_options(r) == Write(r, <<"options">>)

on_error(r) == Write(r, <<"403">>)

\* do_read: parse_method starts its read and then ends without a return
\* statement, so that its result is undefined; if it is taken for true,
\* on_error follows at once.
handle_accept(c) ==
    \E result \in BOOLEAN :
        LET r == [conn[c] EXCEPT !.client = "open", !.reading = "space", !.fell = result]
        IN  conn' = [conn EXCEPT ![c] = IF result THEN on_error(r) ELSE r]

\* Mutant: on_error for every method.
parse_method_error(c) ==
    LET method == Head(Buffer(c))
        r == [conn[c] EXCEPT !.reading = IF method = "POST" THEN "end_of_header" ELSE "no"]
    IN  /\ Found(c, "space")
        /\ conn' = [conn EXCEPT ![c] = on_error(r)]

\* The callback of parse_method.  Nothing is taken out of m_request, and
\* nothing follows for other methods: the value that the callback returns for
\* them is lost.
parse_method(c) ==
    LET method == Head(Buffer(c))
        r == [conn[c] EXCEPT !.reading = IF method = "POST" THEN "end_of_header" ELSE "no"]
    IN  /\ Found(c, "space")
        /\ conn' = [conn EXCEPT ![c] = IF method = "OPTIONS" THEN on_options(r) ELSE r]

\* Mutant: takes everything out of m_request, not only the headers.
on_post_all(c) ==
    /\ Found(c, "end_of_header")
    /\ conn' = [conn EXCEPT ![c].consumed = conn[c].got, ![c].reading = "brace"]

\* Mutant: leaves the headers in m_request.
on_post_kept(c) ==
    /\ Found(c, "end_of_header")
    /\ conn' = [conn EXCEPT ![c].reading = "brace"]

\* The callback of on_post takes the headers out of m_request.
on_post(c) ==
    /\ Found(c, "end_of_header")
    /\ \E i \in DOMAIN Buffer(c) :
        /\ Buffer(c)[i] = "end_of_header"
        /\ conn' = [conn EXCEPT ![c].consumed = @ + i, ![c].reading = "brace"]

\* The handler gets all of m_request.  Where that is no JSON, because it was cut
\* or because the client sent none, the constructor of xrpc_handler has set an
\* ErrCode; handle_request runs all the same on what was parsed, and
\* set_result_ok leaves the ErrCode in place.
Answers(c) ==
    {"Result_1_ErrCode", "Result_0_ErrCode"}
        \cup {answer \in {"Result_1"} : Buffer(c) = conn[c].msg.body}

Execute(c) == [conn[c] EXCEPT !.reading = "no", !.seen = Buffer(c), !.executed = @ + 1]

\* The callback of do_read_http_body, and do_write.
do_read_http_body(c) ==
    /\ Found(c, "brace")
    /\ \E answer \in Answers(c) :
        conn' = [conn EXCEPT ![c] = Write(Execute(c), <<answer>>)]

\* Mutant: the read is taken up again, with the body still in m_request.
handler_throws_retry(c) ==
    /\ Found(c, "brace")
    /\ conn' = [conn EXCEPT ![c] = [Execute(c) EXCEPT !.reading = "brace"]]

\* The handler throws (std::stoll, the accessors of json): nothing is written.
handler_throws(c) ==
    /\ Found(c, "brace")
    /\ conn' = [conn EXCEPT ![c] = Execute(c)]

\* The client is gone and the delimiter will not come.
read_error(c) ==
    /\ conn[c].reading # "no"
    /\ conn[c].client = "gone" /\ ~ Contains(Buffer(c), conn[c].reading)
    /\ conn' = [conn EXCEPT ![c].reading = "no"]

\* A write has ended, and asio takes what it has transmitted out of m_response.
write_done(c) ==
    \E i \in DOMAIN conn[c].writing :
        LET data  == conn[c].writing[i]
            gone  == conn[c].client = "gone"
            taken == IF gone THEN 0 ELSE Len(data)
        IN  conn' = [conn EXCEPT
                ![c].writing = RemoveAt(@, i),
                ![c].response = SubSeq(@, taken + 1, Len(@)),
                ![c].stream = IF gone THEN @ ELSE @ \o data]
-----------------------------------------------------------------------------
(* The clients and asio *)

Connect(c) ==
    /\ conn[c].client = "none"
    /\ \E m \in Message : conn' = [conn EXCEPT ![c].client = "waiting", ![c].msg = m]

\* The server learns that the client is gone.
Disconnect(c) ==
    /\ conn[c].client \in {"waiting", "open"}
    /\ conn' = [conn EXCEPT ![c].client = "gone"]

\* The process ends, and with it all its connections.
ConnectionsLost ==
    conn' = [c \in Conn |->
               IF conn[c].client = "none" THEN conn[c]
               ELSE [conn[c] EXCEPT !.client = "gone", !.reading = "no",
                                    !.writing = <<>>]]

\* A pending read takes in the next piece of the message, of any length.
Receive(c) ==
    /\ conn[c].client = "open"
    /\ conn[c].reading # "no" /\ ~ Contains(Buffer(c), conn[c].reading)
    /\ \E n \in (conn[c].got + 1)..Len(Bytes(conn[c].msg)) :
        conn' = [conn EXCEPT ![c].got = n]

ConnInit ==
    conn = [c \in Conn |->
        [client |-> "none", msg |-> [method |-> "GET", body |-> <<>>],
         got |-> 0, consumed |-> 0, reading |-> "no", response |-> <<>>,
         writing |-> <<>>, stream |-> <<>>, fell |-> FALSE, seen |-> <<>>,
         executed |-> 0]]
=============================================================================
