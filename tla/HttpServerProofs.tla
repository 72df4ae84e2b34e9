-------------------------- MODULE HttpServerProofs --------------------------
(***************************************************************************)
(* Theorems about HttpServer, for any connections, messages and bounds:    *)
(* how many accepts are pending, and that every connection is in order     *)
(* (ConnInv), with what follows for its types, its responses, the body its *)
(* handler gets and its implementation of CallService.                     *)
(***************************************************************************)
EXTENDS HttpServer, SequenceTheorems, FiniteSetTheorems, TLAPS

CountersOK ==
    /\ accepts \in Nat /\ exceptions \in Nat /\ errors \in Nat

\* Before run() starts its loop nothing has happened yet; AcceptsAccounted is
\* inductive only together with this.
Fresh ==
    main = "genesis" => /\ accepts = 0 /\ exceptions = 0 /\ errors = 0
                        /\ stopped = FALSE

AcceptsInv == CountersOK /\ Fresh /\ AcceptsAccounted

\* The server starts with nothing pending (xrpc_server.cpp:282-289).
LEMMA AcceptsInit == Init => AcceptsInv
  BY DEF Init, AcceptsInv, CountersOK, Fresh, AcceptsAccounted

\* Each step of the server keeps account of its accepts (xrpc_server.cpp:190-204
\* and 282-304).
LEMMA AcceptsNext == AcceptsInv /\ [Next]_vars => AcceptsInv'
<1> SUFFICES ASSUME AcceptsInv, [Next]_vars
             PROVE  AcceptsInv'
  OBVIOUS
<1> USE DEF AcceptsInv, CountersOK, Fresh, AcceptsAccounted, Serving
<1>1. CASE genesis_account_create
  BY <1>1 DEF genesis_account_create
<1>2. CASE run_accept
  BY <1>2 DEF run_accept
<1>3. CASE run_returns
  BY <1>3 DEF run_returns
<1>4. CASE accept_error
  BY <1>4 DEF accept_error
<1>5. CASE Restart
  BY <1>5 DEF Restart
<1>6. ASSUME NEW c \in Conn, do_accept(c) \/ Callback(c) \/ Network(c)
      PROVE  AcceptsInv'
  BY <1>6 DEF do_accept, Callback, Network, server
<1>7. ASSUME NEW c \in Conn, Exception(c)
      PROVE  AcceptsInv'
  BY <1>7 DEF Exception
<1>8. CASE UNCHANGED vars
  BY <1>8 DEF vars, server
<1>9. QED
  BY <1>1, <1>2, <1>3, <1>4, <1>5, <1>6, <1>7, <1>8 DEF Next

\* However many handlers throw, accepts fail and restarts there are, the pending
\* accepts are accounted for, so that a server on which no accept has failed
\* always has one pending while it runs (xrpc_server.cpp:190-204 and 282-304).
THEOREM AcceptsAccountedHolds == Spec => []AcceptsAccounted
<1>1. AcceptsInv => AcceptsAccounted
  BY DEF AcceptsInv
<1>2. QED
  BY AcceptsInit, AcceptsNext, <1>1, PTL DEF Spec
-----------------------------------------------------------------------------
(* One connection *)

Part == {"text", "brace"}

Byte == {"POST", "OPTIONS", "GET", "space", "end_of_header"} \cup Part

Sent == [method : {"POST", "OPTIONS", "GET"}, body : Seq(Part)]

ConnRecord ==
    [client : {"none", "waiting", "open", "gone"},
     msg : Message \cup {[method |-> "GET", body |-> <<>>]},
     got : Nat, consumed : Nat,
     reading : {"no", "space", "end_of_header", "brace"},
     response : Seq(Response), writing : Seq(Seq(Response)),
     stream : Seq(Response), fell : BOOLEAN,
     seen : Seq(Part), executed : Nat]

\* Where the chain of reads is: what was taken out of m_request when, and that
\* the handler is its end.
Chain(r) ==
    /\ r.client \in {"none", "waiting"} =>
        /\ r.reading = "no" /\ r.executed = 0 /\ ~ r.fell
        /\ r.got = 0 /\ r.consumed = 0
        /\ r.response = <<>> /\ r.writing = <<>> /\ r.stream = <<>>
    /\ r.got <= 3 + Len(r.msg.body)
    /\ r.reading # "no" => r.executed = 0
    /\ r.reading \in {"space", "end_of_header"} => r.consumed = 0
    /\ r.reading = "brace" => r.consumed = 3
    /\ r.executed \in {0, 1}

Whole(r) == r.executed > 0 /\ Flat(r.msg.body) => r.seen = r.msg.body

\* Without on_error at the start, the first write is the only one.
Single(r) ==
    ~ r.fell =>
        /\ r.reading # "no" => r.response = <<>> /\ r.writing = <<>> /\ r.stream = <<>>
        /\ \/ r.writing = <<>> /\ Len(r.stream) <= 1
           \/ /\ r.stream = <<>> /\ Len(r.writing) = 1 /\ Len(r.writing[1]) <= 1

\* A result comes from the handler, and is in one place: in one pending write, or
\* with the client.
OneResult(r) ==
    /\ r.executed = 0 =>
        /\ Results(r.response) = {} /\ Results(r.stream) = {}
        /\ \A i \in DOMAIN r.writing : Results(r.writing[i]) = {}
    /\ \A i, j \in Results(r.stream) : i = j
    /\ \A i \in DOMAIN r.writing : \A k \in Results(r.writing[i]) :
        /\ Results(r.stream) = {}
        /\ \A j \in DOMAIN r.writing : \A l \in Results(r.writing[j]) : i = j /\ k = l

ConnOK(r) == r \in ConnRecord /\ Chain(r) /\ Whole(r) /\ Single(r) /\ OneResult(r)

ConnInv == conn \in [Conn -> ConnRecord] /\ \A c \in Conn : ConnOK(conn[c])

-----------------------------------------------------------------------------
(* What the operators return *)

\* The results of a connection are where they were when the parts that hold them
\* are as they were.
LEMMA SameResults ==
  ASSUME NEW r, NEW s, OneResult(s),
         r.executed = s.executed, r.response = s.response,
         r.writing = s.writing, r.stream = s.stream
  PROVE  OneResult(r)
BY Zenon DEF OneResult

LEMMA FieldTypes ==
  ASSUME NEW r \in ConnRecord
  PROVE  /\ r.client \in {"none", "waiting", "open", "gone"}
         /\ r.msg \in Message \cup {[method |-> "GET", body |-> <<>>]}
         /\ r.got \in Nat /\ r.consumed \in Nat
         /\ r.reading \in {"no", "space", "end_of_header", "brace"}
         /\ r.response \in Seq(Response) /\ r.writing \in Seq(Seq(Response))
         /\ r.stream \in Seq(Response) /\ r.fell \in BOOLEAN
         /\ r.seen \in Seq(Part) /\ r.executed \in Nat
  BY DEF ConnRecord

LEMMA SentType == Message \cup {[method |-> "GET", body |-> <<>>]} \subseteq Sent
<1>1. <<>> \in Seq(Part)
  BY EmptySeq
<1>2. [method |-> "GET", body |-> <<>>] \in Sent
  BY <1>1 DEF Sent
<1>3. Message \subseteq Sent
  BY MessageType DEF Sent, Part
<1>4. QED
  BY <1>2, <1>3

\* The bytes of a message: three that are no part of the body, then the body.
LEMMA BytesOf ==
  ASSUME NEW m \in Sent
  PROVE  /\ Bytes(m) \in Seq(Byte) /\ Len(Bytes(m)) = 3 + Len(m.body)
         /\ Len(m.body) \in Nat
         /\ Bytes(m)[1] = m.method /\ Bytes(m)[2] = "space" /\ Bytes(m)[3] = "end_of_header"
         /\ \A i \in 1..Len(m.body) : m.body[i] \in Part /\ Bytes(m)[3 + i] = m.body[i]
<1> DEFINE head == <<m.method, "space", "end_of_header">>
<1>1. /\ head \in Seq(Byte) /\ Len(head) = 3
      /\ head[1] = m.method /\ head[2] = "space" /\ head[3] = "end_of_header"
  <2>1. m.method \in Byte /\ "space" \in Byte /\ "end_of_header" \in Byte
    BY DEF Sent, Byte
  <2>2. ASSUME NEW S, NEW x \in S, NEW y \in S, NEW z \in S
        PROVE  /\ <<x, y, z>> \in Seq(S) /\ Len(<<x, y, z>>) = 3
               /\ <<x, y, z>>[1] = x /\ <<x, y, z>>[2] = y /\ <<x, y, z>>[3] = z
    OBVIOUS
  <2>3. QED
    BY <2>1, <2>2
<1>2. m.body \in Seq(Part) /\ m.body \in Seq(Byte) /\ Len(m.body) \in Nat
  <2>1. m.body \in Seq(Part) /\ Part \subseteq Byte
    BY DEF Sent, Byte
  <2>2. QED
    BY <2>1, SeqMonotonic, LenProperties
<1>3. \A i \in 1..Len(m.body) : m.body[i] \in Part
  BY <1>2, ElementOfSeq
<1> HIDE DEF head
<1>4. /\ head \o m.body \in Seq(Byte)
      /\ Len(head \o m.body) = 3 + Len(m.body)
      /\ \A i \in 1..(3 + Len(m.body)) :
            (head \o m.body)[i] = IF i <= 3 THEN head[i] ELSE m.body[i - 3]
  <2>1. /\ head \o m.body \in Seq(Byte)
        /\ Len(head \o m.body) = Len(head) + Len(m.body)
        /\ \A i \in 1..(Len(head) + Len(m.body)) :
              (head \o m.body)[i] = IF i <= Len(head) THEN head[i] ELSE m.body[i - Len(head)]
    BY <1>1, <1>2, ConcatProperties, Zenon
  <2>2. QED
    BY <1>1, <2>1
<1>5. Bytes(m) = head \o m.body
  BY DEF Bytes, head
<1>6. \A i \in 1..Len(m.body) : Bytes(m)[3 + i] = m.body[i]
  BY <1>2, <1>4, <1>5
<1>7. QED
  BY <1>1, <1>2, <1>3, <1>4, <1>5, <1>6

\* The results among the responses of one write and of the next.
LEMMA ResultsOfConcat ==
  ASSUME NEW s \in Seq(Response), NEW t \in Seq(Response)
  PROVE  /\ s \o t \in Seq(Response) /\ Len(s \o t) = Len(s) + Len(t)
         /\ \A i : i \in Results(s \o t) <=>
                \/ i \in Results(s)
                \/ i - Len(s) \in Results(t) /\ i \in Nat
<1>1. /\ s \o t \in Seq(Response) /\ Len(s \o t) = Len(s) + Len(t)
      /\ Len(s) \in Nat /\ Len(t) \in Nat
      /\ DOMAIN s = 1..Len(s) /\ DOMAIN t = 1..Len(t)
      /\ DOMAIN (s \o t) = 1..(Len(s) + Len(t))
      /\ \A i \in 1..(Len(s) + Len(t)) :
            (s \o t)[i] = IF i <= Len(s) THEN s[i] ELSE t[i - Len(s)]
  BY ConcatProperties, LenProperties
<1>2. QED
  BY <1>1 DEF Results

\* What m_request holds while the handler's read is pending: the beginning of the
\* body; once a flat body's closing brace is in it, all of the body
\* (xrpc_server.cpp:94-105 and 39-47).
LEMMA BodyRead ==
  ASSUME NEW c \in Conn, ConnOK(conn[c]), Found(c, "brace")
  PROVE  /\ Buffer(c) \in Seq(Part)
         /\ Flat(conn[c].msg.body) => Buffer(c) = conn[c].msg.body
<1> DEFINE m    == conn[c].msg
           body == m.body
           got  == conn[c].got
           b    == Buffer(c)
<1>1. /\ m \in Sent /\ got \in Nat /\ got <= 3 + Len(body) /\ conn[c].consumed = 3
      /\ conn[c].reading = "brace"
  <2>1. <<>> \in Seq(Part)
    BY EmptySeq
  <2>2. conn[c] \in ConnRecord /\ Chain(conn[c]) /\ conn[c].reading = "brace"
    BY DEF ConnOK, Found
  <2>3. m \in Sent /\ got \in Nat
    BY <2>1, <2>2, FieldTypes, SentType
  <2>4. QED
    BY <2>2, <2>3 DEF Chain
<1>2. body \in Seq(Part)
  BY <1>1 DEF Sent
<1>3. /\ Bytes(m) \in Seq(Byte) /\ Len(Bytes(m)) = 3 + Len(body) /\ Len(body) \in Nat
      /\ \A i \in 1..Len(body) : body[i] \in Part /\ Bytes(m)[3 + i] = body[i]
  BY <1>1, BytesOf
<1>4. b = SubSeq(Bytes(m), 4, got)
  BY <1>1 DEF Buffer
<1> HIDE DEF m, body, got, b
<1>5. PICK i \in 1..Len(b) : b[i] = "brace"
  BY DEF Found, Contains, b
<1>6. \A j \in 4..got : Bytes(m)[j] \in Part /\ Bytes(m)[j] = body[j - 3]
  <2>1. ASSUME NEW j \in 4..got PROVE Bytes(m)[j] \in Part /\ Bytes(m)[j] = body[j - 3]
    <3>1. j - 3 \in 1..Len(body) /\ 3 + (j - 3) = j
      BY <1>1, <1>3
    <3>2. QED
      BY <1>3, <3>1
  <2>2. QED
    BY <2>1
<1>7. /\ b \in Seq(Part) /\ Len(b) = IF 4 <= got THEN got - 4 + 1 ELSE 0
      /\ \A j \in 1..(got - 4 + 1) : b[j] = Bytes(m)[4 + j - 1]
  BY <1>1, <1>4, <1>6, SubSeqProperties
<1>8. got >= 4 /\ Len(b) = got - 3 /\ Len(b) <= Len(body)
  BY <1>1, <1>3, <1>5, <1>7
<1>9. \A j \in 1..Len(b) : b[j] = body[j]
  <2>1. ASSUME NEW j \in 1..Len(b) PROVE b[j] = body[j]
    <3>1. j \in 1..(got - 4 + 1) /\ 4 + j - 1 \in 4..got /\ 4 + j - 1 = j + 3
          /\ (j + 3) - 3 = j
      BY <1>1, <1>8
    <3>2. QED
      BY <1>6, <1>7, <3>1
  <2>2. QED
    BY <2>1
<1>10. ASSUME Flat(body) PROVE b = body
  <2>1. i \in DOMAIN body /\ body[i] = "brace"
    BY <1>2, <1>3, <1>5, <1>8, <1>9, LenProperties
  <2>2. i = Len(body)
    BY <1>10, <2>1 DEF Flat
  <2>3. Len(b) = Len(body)
    BY <1>3, <1>8, <2>2
  <2>4. QED
    BY <1>2, <1>7, <1>9, <2>3, SeqEqual
<1>11. QED
  BY <1>7, <1>10 DEF b, body, m

\* A response that is about to be started is a sequence of one.
LEMMA Single1 ==
  ASSUME NEW S, NEW x \in S
  PROVE  /\ <<x>> \in Seq(S) /\ Len(<<x>>) = 1 /\ <<x>>[1] = x /\ DOMAIN <<x>> = 1..1
  OBVIOUS

LEMMA ResultsOfOne ==
  ASSUME NEW x \in Response
  PROVE  Results(<<x>>) \subseteq {1} /\ (~ IsResult(x) => Results(<<x>>) = {})
  BY Single1 DEF Results

LEMMA ResultsOfNone == Results(<<>>) = {}
  BY DEF Results

\* What is left of m_response has no result if m_response had none.
LEMMA ResultsOfRest ==
  ASSUME NEW s \in Seq(Response), NEW n \in Nat
  PROVE  /\ SubSeq(s, n + 1, Len(s)) \in Seq(Response)
         /\ Results(s) = {} => Results(SubSeq(s, n + 1, Len(s))) = {}
<1> DEFINE t == SubSeq(s, n + 1, Len(s))
<1>1. Len(s) \in Nat /\ DOMAIN s = 1..Len(s) /\ \A j \in 1..Len(s) : s[j] \in Response
  BY LenProperties, ElementOfSeq
<1>2. /\ t \in Seq(Response)
      /\ Len(t) = IF n + 1 <= Len(s) THEN Len(s) - (n + 1) + 1 ELSE 0
      /\ \A j \in 1..(Len(s) - (n + 1) + 1) : t[j] = s[n + 1 + j - 1]
  BY <1>1, SubSeqProperties
<1>3. DOMAIN t = 1..Len(t)
  BY <1>2, LenProperties
<1> HIDE DEF t
<1>4. ASSUME Results(s) = {}, NEW j \in DOMAIN t
      PROVE  ~ IsResult(t[j])
  <2>1. j \in 1..(Len(s) - (n + 1) + 1) /\ n + 1 + j - 1 \in 1..Len(s)
    <3>1. j \in 1..Len(t) /\ Len(s) \in Nat
      BY <1>1, <1>3, <1>4
    <3>2. Len(t) = Len(s) - n
      BY <1>2, <3>1
    <3>3. QED
      BY <3>1, <3>2
  <2>2. t[j] = s[n + 1 + j - 1]
    BY <1>2, <2>1
  <2>3. QED
    BY <1>1, <1>4, <2>1, <2>2 DEF Results
<1>5. Results(s) = {} => Results(t) = {}
  BY <1>4 DEF Results
<1>6. QED
  BY <1>2, <1>5 DEF t

\* A write that has ended is taken out of those that are pending.
LEMMA Removed ==
  ASSUME NEW S, NEW s \in Seq(S), NEW i \in 1..Len(s)
  PROVE  /\ RemoveAt(s, i) \in Seq(S) /\ Len(RemoveAt(s, i)) = Len(s) - 1
         /\ \A j \in 1..(Len(s) - 1) :
                RemoveAt(s, i)[j] = IF j < i THEN s[j] ELSE s[j + 1]
<1> DEFINE f == SubSeq(s, 1, i - 1)
           g == SubSeq(s, i + 1, Len(s))
<1>1. Len(s) \in Nat /\ i \in Int /\ 1 <= i /\ i <= Len(s)
      /\ \A j \in 1..Len(s) : s[j] \in S
  BY LenProperties, ElementOfSeq
<1>2. /\ f \in Seq(S) /\ Len(f) = i - 1
      /\ \A j \in 1..(i - 1) : f[j] = s[j]
  <2>1. /\ f \in Seq(S) /\ Len(f) = IF 1 <= i - 1 THEN (i - 1) - 1 + 1 ELSE 0
        /\ \A j \in 1..((i - 1) - 1 + 1) : f[j] = s[1 + j - 1]
    <3>1. i - 1 \in Int /\ \A j \in 1..(i - 1) : s[j] \in S
      BY <1>1
    <3>2. QED
      BY <3>1, SubSeqProperties
  <2>2. QED
    BY <1>1, <2>1
<1>3. /\ g \in Seq(S) /\ Len(g) = Len(s) - i
      /\ \A j \in 1..(Len(s) - i) : g[j] = s[j + i]
  <2>1. /\ g \in Seq(S) /\ Len(g) = IF i + 1 <= Len(s) THEN Len(s) - (i + 1) + 1 ELSE 0
        /\ \A j \in 1..(Len(s) - (i + 1) + 1) : g[j] = s[(i + 1) + j - 1]
    <3>1. i + 1 \in Int /\ \A j \in (i + 1)..Len(s) : s[j] \in S
      BY <1>1
    <3>2. QED
      BY <1>1, <3>1, SubSeqProperties
  <2>2. ASSUME NEW j \in 1..(Len(s) - i) PROVE g[j] = s[j + i]
    <3>1. j \in 1..(Len(s) - (i + 1) + 1) /\ (i + 1) + j - 1 = j + i
      BY <1>1
    <3>2. QED
      BY <2>1, <3>1
  <2>3. QED
    BY <1>1, <2>1, <2>2
<1>4. RemoveAt(s, i) = f \o g
  BY DEF RemoveAt
<1> HIDE DEF f, g
<1>5. /\ f \o g \in Seq(S) /\ Len(f \o g) = Len(f) + Len(g)
      /\ \A j \in 1..(Len(f) + Len(g)) :
            (f \o g)[j] = IF j <= Len(f) THEN f[j] ELSE g[j - Len(f)]
  BY <1>2, <1>3, ConcatProperties, Zenon
<1>6. ASSUME NEW j \in 1..(Len(s) - 1)
      PROVE  (f \o g)[j] = IF j < i THEN s[j] ELSE s[j + 1]
  <2>1. CASE j < i
    <3>1. j \in 1..(i - 1) /\ j <= Len(f) /\ j \in 1..(Len(f) + Len(g))
      BY <1>1, <1>2, <1>3, <2>1
    <3>2. QED
      BY <1>2, <1>5, <2>1, <3>1
  <2>2. CASE ~ (j < i)
    <3>1. /\ j - Len(f) \in 1..(Len(s) - i) /\ ~ (j <= Len(f))
          /\ j \in 1..(Len(f) + Len(g)) /\ (j - Len(f)) + i = j + 1
      BY <1>1, <1>2, <1>3, <2>2
    <3>2. (f \o g)[j] = g[j - Len(f)]
      BY <1>5, <3>1
    <3>3. g[j - Len(f)] = s[(j - Len(f)) + i]
      BY <1>3, <3>1
    <3>4. QED
      BY <2>2, <3>1, <3>2, <3>3
  <2>3. QED
    BY <2>1, <2>2
<1>7. QED
  BY <1>1, <1>2, <1>3, <1>4, <1>5, <1>6

\* Neither the client nor a pending write nor m_response has a result.
NoResult(r) ==
    /\ Results(r.response) = {} /\ Results(r.stream) = {}
    /\ \A i \in DOMAIN r.writing : Results(r.writing[i]) = {}

\* What a started write changes: the response is last in m_response, and the
\* last pending write transmits all of it.
LEMMA Written ==
  ASSUME NEW r \in ConnRecord, NEW x \in Response
  PROVE  /\ Write(r, <<x>>) = [r EXCEPT !.response = r.response \o <<x>>,
                                        !.writing = Append(r.writing, r.response \o <<x>>)]
         /\ Write(r, <<x>>) \in ConnRecord
         /\ r.response \o <<x>> \in Seq(Response)
         /\ Len(r.response \o <<x>>) = Len(r.response) + 1
         /\ Append(r.writing, r.response \o <<x>>) \in Seq(Seq(Response))
         /\ Len(Append(r.writing, r.response \o <<x>>)) = Len(r.writing) + 1
<1>1. /\ r.response \in Seq(Response) /\ r.writing \in Seq(Seq(Response))
      /\ <<x>> \in Seq(Response) /\ Len(<<x>>) = 1
  BY FieldTypes, Single1
<1>2. /\ r.response \o <<x>> \in Seq(Response)
      /\ Len(r.response \o <<x>>) = Len(r.response) + 1
  BY <1>1, ResultsOfConcat
<1>3. /\ Append(r.writing, r.response \o <<x>>) \in Seq(Seq(Response))
      /\ Len(Append(r.writing, r.response \o <<x>>)) = Len(r.writing) + 1
  BY <1>1, <1>2, AppendProperties
<1>4. Write(r, <<x>>) = [r EXCEPT !.response = r.response \o <<x>>,
                                  !.writing = Append(r.writing, r.response \o <<x>>)]
  BY DEF Write, ConnRecord
<1>5. Write(r, <<x>>) \in ConnRecord
  BY <1>2, <1>3, <1>4 DEF ConnRecord
<1>6. QED
  BY <1>2, <1>3, <1>4, <1>5

\* Where there was no result the write that starts brings at most one.
LEMMA WrittenResults ==
  ASSUME NEW r \in ConnRecord, NEW x \in Response, NoResult(r),
         IsResult(x) => r.executed # 0
  PROVE  OneResult(Write(r, <<x>>))
<1> DEFINE w == Write(r, <<x>>)
           d == r.response \o <<x>>
           n == Len(r.writing) + 1
<1>1. /\ w = [r EXCEPT !.response = d, !.writing = Append(r.writing, d)]
      /\ d \in Seq(Response) /\ Append(r.writing, d) \in Seq(Seq(Response))
      /\ Len(Append(r.writing, d)) = n
  BY Written
<1>2. w.stream = r.stream /\ w.executed = r.executed /\ w.response = d
      /\ w.writing = Append(r.writing, d)
  BY <1>1 DEF ConnRecord
<1>3. /\ Len(r.writing) \in Nat /\ DOMAIN r.writing = 1..Len(r.writing)
      /\ r.writing \in Seq(Seq(Response)) /\ r.response \in Seq(Response)
  BY FieldTypes, LenProperties
<1>4. /\ DOMAIN w.writing = 1..n /\ w.writing[n] = d
      /\ \A i \in 1..Len(r.writing) : w.writing[i] = r.writing[i]
  <2>1. /\ Append(r.writing, d)[n] = d
        /\ \A i \in 1..Len(r.writing) : Append(r.writing, d)[i] = r.writing[i]
    <3>1. /\ Append(r.writing, d)[Len(r.writing) + 1] = d
          /\ \A i \in 1..Len(r.writing) : Append(r.writing, d)[i] = r.writing[i]
      BY <1>1, <1>3, AppendProperties
    <3>2. QED
      BY <3>1
  <2>2. DOMAIN Append(r.writing, d) = 1..n
    BY <1>1, LenProperties
  <2>3. QED
    BY <1>2, <2>1, <2>2
<1>5. /\ Results(d) \subseteq {Len(r.response) + 1}
      /\ ~ IsResult(x) => Results(d) = {}
  <2>1. <<x>> \in Seq(Response) /\ Len(r.response) \in Nat
    BY <1>3, Single1, LenProperties
  <2>2. \A i : i \in Results(d) <=>
            \/ i \in Results(r.response)
            \/ i - Len(r.response) \in Results(<<x>>) /\ i \in Nat
    BY <1>3, <2>1, ResultsOfConcat
  <2>3. Results(<<x>>) \subseteq {1} /\ (~ IsResult(x) => Results(<<x>>) = {})
    BY ResultsOfOne
  <2>4. Results(r.response) = {}
    BY DEF NoResult
  <2>5. ASSUME NEW i \in Results(d) PROVE i = Len(r.response) + 1 /\ IsResult(x)
    <3>1. i - Len(r.response) \in Results(<<x>>) /\ i \in Nat
      BY <2>2, <2>4
    <3>2. i - Len(r.response) = 1 /\ IsResult(x)
      BY <2>3, <3>1
    <3>3. QED
      BY <2>1, <3>1, <3>2
  <2>6. QED
    BY <2>5
<1> HIDE DEF w, d, n
<1>6. w.executed = 0 => Results(d) = {}
  BY <1>2, <1>5
<1>7. n \in Nat /\ Len(r.writing) = n - 1
  BY <1>3 DEF n
<1>8. ASSUME NEW i \in DOMAIN w.writing, i # n PROVE Results(w.writing[i]) = {}
  <2>1. i \in 1..Len(r.writing)
    BY <1>4, <1>7, <1>8
  <2>2. QED
    BY <1>3, <1>4, <2>1 DEF NoResult
<1>9. Results(w.stream) = {}
  BY <1>2 DEF NoResult
<1>10. w.executed = 0 => /\ Results(w.response) = {} /\ Results(w.stream) = {}
                         /\ \A i \in DOMAIN w.writing : Results(w.writing[i]) = {}
  BY <1>2, <1>4, <1>6, <1>8, <1>9
<1>11. ASSUME NEW i \in DOMAIN w.writing, NEW k \in Results(w.writing[i]),
              NEW j \in DOMAIN w.writing, NEW l \in Results(w.writing[j])
       PROVE  i = j /\ k = l
  <2>1. i = n /\ j = n
    BY <1>8, <1>11
  <2>2. k \in Results(d) /\ l \in Results(d)
    BY <1>4, <1>11, <2>1
  <2>3. QED
    BY <1>5, <2>1, <2>2
<1>12. QED
  BY <1>9, <1>10, <1>11 DEF OneResult, w
-----------------------------------------------------------------------------
(* Each callback keeps the connection in order *)

LEMMA OneChanges ==
  ASSUME ConnInv, NEW c \in Conn, NEW r, ConnOK(r), conn' = [conn EXCEPT ![c] = r]
  PROVE  ConnInv'
<1>1. conn' \in [Conn -> ConnRecord]
  BY DEF ConnInv, ConnOK
<1>2. ASSUME NEW d \in Conn PROVE ConnOK(conn'[d])
  <2>1. conn'[d] = IF d = c THEN r ELSE conn[d]
    BY DEF ConnInv
  <2>2. QED
    BY <2>1 DEF ConnInv
<1>3. QED
  BY <1>1, <1>2 DEF ConnInv

\* The results of what starts in order: nothing is there before the handler.
LEMMA NothingBefore ==
  ASSUME NEW r, ConnOK(r), r.executed = 0
  PROVE  NoResult(r)
  BY DEF ConnOK, OneResult, NoResult

\* The accept, with or without on_error after it (xrpc_server.cpp:139-147 and
\* 60-88).
LEMMA AcceptKeeps ==
  ASSUME ConnInv, NEW c \in Conn, conn[c].client = "waiting", handle_accept(c)
  PROVE  ConnInv'
<1>1. ConnOK(conn[c])
  BY DEF ConnInv
<1>2. PICK result \in BOOLEAN :
        LET r == [conn[c] EXCEPT !.client = "open", !.reading = "space", !.fell = result]
        IN  conn' = [conn EXCEPT ![c] = IF result THEN on_error(r) ELSE r]
  BY DEF handle_accept
<1> DEFINE r == [conn[c] EXCEPT !.client = "open", !.reading = "space", !.fell = result]
<1>3. /\ conn[c] \in ConnRecord /\ conn[c].executed = 0
      /\ conn[c].got = 0 /\ conn[c].consumed = 0
      /\ conn[c].response = <<>> /\ conn[c].writing = <<>> /\ conn[c].stream = <<>>
      /\ NoResult(conn[c])
  BY <1>1, NothingBefore DEF ConnOK, Chain
<1>4. /\ r \in ConnRecord /\ r.client = "open" /\ r.reading = "space" /\ r.fell = result
      /\ r.executed = 0 /\ r.got = 0 /\ r.consumed = 0 /\ r.msg = conn[c].msg
      /\ r.response = <<>> /\ r.writing = <<>> /\ r.stream = <<>>
  BY <1>3 DEF ConnRecord
<1> HIDE DEF r
<1>5. NoResult(r)
  BY <1>4, ResultsOfNone DEF NoResult
<1>6. Len(r.msg.body) \in Nat
  BY <1>4, FieldTypes, SentType, LenProperties DEF Sent
<1>7. CASE ~ result
  <2>1. Chain(r) /\ Whole(r) /\ Single(r)
    BY <1>4, <1>6, <1>7 DEF Chain, Whole, Single
  <2>2. OneResult(r)
    BY <1>4, <1>5 DEF NoResult, OneResult
  <2>3. ConnOK(r)
    BY <1>4, <2>1, <2>2 DEF ConnOK
  <2>4. conn' = [conn EXCEPT ![c] = r]
    BY <1>2, <1>7 DEF r
  <2>5. QED
    BY <2>3, <2>4, OneChanges
<1>8. CASE result
  <2> DEFINE w == Write(r, <<"403">>)
  <2>1. "403" \in Response /\ ~ IsResult("403")
    BY DEF Response, IsResult
  <2>2. /\ w \in ConnRecord
        /\ w = [r EXCEPT !.response = r.response \o <<"403">>,
                         !.writing = Append(r.writing, r.response \o <<"403">>)]
    BY <1>4, <2>1, Written
  <2>3. /\ w.client = "open" /\ w.reading = "space" /\ w.fell
        /\ w.executed = 0 /\ w.got = 0 /\ w.consumed = 0 /\ w.msg = r.msg
    BY <1>4, <1>8, <2>2 DEF ConnRecord
  <2>4. OneResult(w)
    BY <1>4, <1>5, <2>1, WrittenResults
  <2>5. conn' = [conn EXCEPT ![c] = w]
    BY <1>2, <1>8 DEF r, on_error
  <2> HIDE DEF w
  <2>6. Chain(w) /\ Whole(w) /\ Single(w)
    BY <1>6, <2>3 DEF Chain, Whole, Single
  <2>7. ConnOK(w)
    BY <2>2, <2>4, <2>6 DEF ConnOK
  <2>8. QED
    BY <2>5, <2>7, OneChanges
<1>9. QED
  BY <1>7, <1>8

\* A read that was pending is over, or is for the end of the headers: nothing
\* has been answered.
LEMMA ReadEnds ==
  ASSUME NEW s, ConnOK(s), s.reading # "no", s.reading # "brace",
         NEW next \in {"no", "end_of_header"}, NEW r,
         r = [s EXCEPT !.reading = next]
  PROVE  /\ ConnOK(r) /\ r \in ConnRecord /\ r.executed = 0 /\ NoResult(r)
         /\ r.reading = next
<1>1. /\ s \in ConnRecord /\ s.executed = 0 /\ NoResult(s)
      /\ s.client \notin {"none", "waiting"} /\ s.consumed = 0
      /\ s.reading \in {"no", "space", "end_of_header", "brace"}
  BY NothingBefore, FieldTypes DEF ConnOK, Chain
<1>2. /\ r \in ConnRecord /\ r.reading = next
      /\ r.client = s.client /\ r.msg = s.msg /\ r.got = s.got /\ r.consumed = s.consumed
      /\ r.response = s.response /\ r.writing = s.writing /\ r.stream = s.stream
      /\ r.fell = s.fell /\ r.seen = s.seen /\ r.executed = s.executed
  BY <1>1 DEF ConnRecord
<1>3. Chain(s) /\ Whole(s) /\ Single(s) /\ OneResult(s)
  BY DEF ConnOK
<1>4. Chain(r)
  BY <1>1, <1>2, <1>3 DEF Chain
<1>5. Whole(r) /\ Single(r)
  BY <1>1, <1>2, <1>3 DEF Whole, Single
<1>6. OneResult(r)
  BY <1>2, <1>3, SameResults
<1>7. NoResult(r)
  BY <1>1, <1>2 DEF NoResult
<1>8. QED
  BY <1>1, <1>2, <1>4, <1>5, <1>6, <1>7 DEF ConnOK

\* The response of a connection that has read what it reads: if it is the first
\* one it is the only one.
LEMMA Answered ==
  ASSUME NEW r, ConnOK(r), NoResult(r), r.reading = "no",
         r.client \notin {"none", "waiting"},
         ~ r.fell => r.response = <<>> /\ r.writing = <<>> /\ r.stream = <<>>,
         NEW x \in Response, IsResult(x) => r.executed # 0
  PROVE  ConnOK(Write(r, <<x>>))
<1> DEFINE w == Write(r, <<x>>)
           d == r.response \o <<x>>
<1>1. r \in ConnRecord /\ Chain(r) /\ Whole(r)
  BY DEF ConnOK
<1>2. /\ w \in ConnRecord
      /\ w = [r EXCEPT !.response = d, !.writing = Append(r.writing, d)]
      /\ Len(d) = Len(r.response) + 1
      /\ Len(Append(r.writing, d)) = Len(r.writing) + 1
  BY <1>1, Written
<1>3. /\ w.client = r.client /\ w.reading = "no" /\ w.fell = r.fell /\ w.seen = r.seen
      /\ w.executed = r.executed /\ w.got = r.got /\ w.consumed = r.consumed
      /\ w.msg = r.msg /\ w.stream = r.stream /\ w.writing = Append(r.writing, d)
  BY <1>1, <1>2 DEF ConnRecord
<1>4. OneResult(w)
  BY <1>1, WrittenResults
<1> HIDE DEF w, d
<1>5. ASSUME ~ r.fell PROVE w.stream = <<>> /\ Len(w.writing) = 1 /\ Len(w.writing[1]) <= 1
  <2>1. r.response = <<>> /\ r.writing = <<>> /\ r.stream = <<>>
    BY <1>5
  <2>2. Len(d) = 1 /\ Len(Append(r.writing, d)) = 1
    BY <1>2, <2>1
  <2>3. Append(<<>>, d)[1] = d
    OBVIOUS
  <2>4. w.writing = Append(<<>>, d) /\ w.stream = <<>>
    BY <1>3, <2>1
  <2>5. Append(r.writing, d) = Append(<<>>, d)
    BY <2>1
  <2>6. Len(w.writing) = 1 /\ w.writing[1] = d
    BY <2>2, <2>3, <2>4, <2>5
  <2>7. Len(d) <= 1
    BY <2>2
  <2>8. QED
    BY <2>4, <2>6, <2>7, Zenon
<1>6. Single(w)
  BY <1>3, <1>5 DEF Single
<1>7. Chain(w) /\ Whole(w)
  BY <1>1, <1>3 DEF Chain, Whole
<1>8. QED
  BY <1>2, <1>4, <1>6, <1>7 DEF ConnOK, w

\* The method is read: the headers are next, or OPTIONS is answered
\* (xrpc_server.cpp:60-88).
LEMMA MethodKeeps ==
  ASSUME ConnInv, NEW c \in Conn, parse_method(c)
  PROVE  ConnInv'
<1> DEFINE method == Head(Buffer(c))
           next   == IF method = "POST" THEN "end_of_header" ELSE "no"
           r      == [conn[c] EXCEPT !.reading = next]
<1>1. ConnOK(conn[c]) /\ conn[c].reading = "space"
  BY DEF ConnInv, parse_method, Found
<1>2. conn' = [conn EXCEPT ![c] = IF method = "OPTIONS" THEN on_options(r) ELSE r]
  BY DEF parse_method
<1>3. /\ next \in {"no", "end_of_header"}
      /\ method = "OPTIONS" => next = "no"
  OBVIOUS
<1> HIDE DEF method, next
<1>4. /\ ConnOK(r) /\ r \in ConnRecord /\ r.executed = 0 /\ NoResult(r)
      /\ r.reading = next
      /\ r.client = conn[c].client
  <2>1. conn[c] \in ConnRecord
    BY <1>1 DEF ConnOK
  <2>2. QED
    BY <1>1, <1>3, <2>1, ReadEnds DEF ConnRecord
<1> HIDE DEF r
<1>5. CASE method # "OPTIONS"
  BY <1>2, <1>4, <1>5, OneChanges
<1>6. CASE method = "OPTIONS"
  <2>1. "options" \in Response /\ ~ IsResult("options")
    BY DEF Response, IsResult
  <2>2. /\ ~ r.fell => r.response = <<>> /\ r.writing = <<>> /\ r.stream = <<>>
        /\ r.client \notin {"none", "waiting"}
    <3>1. conn[c] \in ConnRecord /\ Single(conn[c]) /\ Chain(conn[c])
      BY <1>1 DEF ConnOK
    <3>2. /\ r.fell = conn[c].fell /\ r.response = conn[c].response
          /\ r.writing = conn[c].writing /\ r.stream = conn[c].stream
      BY <3>1 DEF r, ConnRecord
    <3>3. QED
      BY <1>1, <1>4, <3>1, <3>2 DEF Single, Chain
  <2>3. r.reading = "no"
    BY <1>3, <1>4, <1>6
  <2>4. ConnOK(Write(r, <<"options">>))
    BY <1>4, <2>1, <2>2, <2>3, Answered
  <2>5. conn' = [conn EXCEPT ![c] = Write(r, <<"options">>)]
    BY <1>2, <1>6 DEF on_options
  <2>6. QED
    BY <2>4, <2>5, OneChanges
<1>7. QED
  BY <1>5, <1>6

\* A read of a client that is gone fails (xrpc_server.cpp:60-105).
LEMMA ReadErrorKeeps ==
  ASSUME ConnInv, NEW c \in Conn, read_error(c)
  PROVE  ConnInv'
<1> DEFINE s == conn[c]
           r == [s EXCEPT !.reading = "no"]
<1>1. ConnOK(s) /\ s \in ConnRecord
  BY DEF ConnInv, ConnOK
<1>2. s.reading # "no" /\ s.client = "gone" /\ conn' = [conn EXCEPT ![c] = r]
  BY DEF read_error
<1> HIDE DEF s
<1>3. /\ r \in ConnRecord /\ r.reading = "no"
      /\ r.client = s.client /\ r.msg = s.msg /\ r.got = s.got /\ r.consumed = s.consumed
      /\ r.response = s.response /\ r.writing = s.writing /\ r.stream = s.stream
      /\ r.fell = s.fell /\ r.seen = s.seen /\ r.executed = s.executed
  BY <1>1 DEF ConnRecord
<1> HIDE DEF r
<1>4. Chain(s) /\ Whole(s) /\ Single(s) /\ OneResult(s)
  BY <1>1 DEF ConnOK
<1>5. Chain(r) /\ Whole(r) /\ Single(r)
  <2>1. Chain(r)
    BY <1>2, <1>3, <1>4 DEF Chain
  <2>2. Whole(r) /\ Single(r)
    BY <1>2, <1>3, <1>4 DEF Whole, Single
  <2> QED BY <2>1, <2>2
<1>6. OneResult(r)
  BY <1>3, <1>4, SameResults
<1>7. ConnOK(r)
  BY <1>3, <1>5, <1>6 DEF ConnOK
<1>8. QED
  BY <1>2, <1>7, OneChanges

\* Nothing but the end of the headers is the end of the headers, so that only
\* the three parts before the body are taken out (xrpc_server.cpp:94-105).
LEMMA HeadersEnd ==
  ASSUME NEW c \in Conn, ConnOK(conn[c]), conn[c].reading = "end_of_header",
         NEW i \in DOMAIN Buffer(c), Buffer(c)[i] = "end_of_header"
  PROVE  i = 3
<1> DEFINE m   == conn[c].msg
           got == conn[c].got
<1>1. /\ m \in Sent /\ got \in Nat /\ got <= 3 + Len(m.body) /\ conn[c].consumed = 0
  BY FieldTypes, SentType DEF ConnOK, Chain
<1>2. /\ Bytes(m) \in Seq(Byte) /\ Len(Bytes(m)) = 3 + Len(m.body) /\ Len(m.body) \in Nat
      /\ Bytes(m)[1] = m.method /\ Bytes(m)[2] = "space"
      /\ \A j \in 1..Len(m.body) : m.body[j] \in Part /\ Bytes(m)[3 + j] = m.body[j]
  BY <1>1, BytesOf
<1>3. Buffer(c) = SubSeq(Bytes(m), 1, got)
  BY <1>1 DEF Buffer
<1> HIDE DEF m, got
<1>4. \A j \in 1..got : Bytes(m)[j] \in Byte
  BY <1>1, <1>2, ElementOfSeq
<1>5. /\ Buffer(c) \in Seq(Byte) /\ Len(Buffer(c)) = IF 1 <= got THEN got - 1 + 1 ELSE 0
      /\ \A j \in 1..(got - 1 + 1) : Buffer(c)[j] = Bytes(m)[1 + j - 1]
  <2>1. \A j \in 1..got : Bytes(m)[j] \in Byte
    BY <1>4
  <2>2. got \in Int /\ 1 \in Int
    BY <1>1
  <2> QED BY <1>3, <2>1, <2>2, SubSeqProperties, SMTT(60)
<1>6. i \in 1..Len(Buffer(c))
  BY <1>5, LenProperties
<1>7. i \in 1..got
  BY <1>1, <1>5, <1>6
<1>8. Bytes(m)[i] = "end_of_header"
  <2>1. i \in 1..(got - 1 + 1) /\ 1 + i - 1 = i
    BY <1>1, <1>7
  <2>2. QED
    BY <1>5, <2>1
<1>9. ASSUME i > 3 PROVE FALSE
  <2>1. i - 3 \in 1..Len(m.body) /\ 3 + (i - 3) = i
    BY <1>1, <1>2, <1>7, <1>9
  <2>2. Bytes(m)[i] \in Part
    BY <1>2, <2>1
  <2>3. QED
    BY <1>8, <2>2 DEF Part
<1>10. i # 1
  BY <1>1, <1>2, <1>8 DEF Sent
<1>11. i # 2
  BY <1>2, <1>8
<1>12. QED
  BY <1>7, <1>9, <1>10, <1>11

\* The headers are taken out of m_request and the body is next
\* (xrpc_server.cpp:94-105).
LEMMA PostKeeps ==
  ASSUME ConnInv, NEW c \in Conn, on_post(c)
  PROVE  ConnInv'
<1> DEFINE s == conn[c]
           r == [s EXCEPT !.consumed = 3, !.reading = "brace"]
<1>1. ConnOK(s) /\ s \in ConnRecord /\ s.reading = "end_of_header"
  BY DEF ConnInv, ConnOK, on_post, Found
<1>2. PICK i \in DOMAIN Buffer(c) :
        /\ Buffer(c)[i] = "end_of_header"
        /\ conn' = [conn EXCEPT ![c].consumed = @ + i, ![c].reading = "brace"]
  BY DEF on_post
<1>3. i = 3
  BY <1>1, <1>2, HeadersEnd
<1>4. Chain(s) /\ Whole(s) /\ Single(s) /\ OneResult(s)
  BY <1>1 DEF ConnOK
<1>5. s.consumed = 0 /\ s.executed = 0 /\ s.client \notin {"none", "waiting"}
  BY <1>1, <1>4 DEF Chain
<1>6. conn' = [conn EXCEPT ![c] = r]
  <2>1. 0 + 3 = 3
    OBVIOUS
  <2>2. conn' = [conn EXCEPT ![c] =
                    [conn[c] EXCEPT !.consumed = conn[c].consumed + 3, !.reading = "brace"]]
    BY <1>2, <1>3 DEF ConnInv
  <2>3. QED
    BY <1>5, <2>1, <2>2
<1> HIDE DEF s
<1>7. /\ r \in ConnRecord /\ r.reading = "brace" /\ r.consumed = 3
      /\ r.client = s.client /\ r.msg = s.msg /\ r.got = s.got
      /\ r.response = s.response /\ r.writing = s.writing /\ r.stream = s.stream
      /\ r.fell = s.fell /\ r.seen = s.seen /\ r.executed = s.executed
  BY <1>1 DEF ConnRecord
<1> HIDE DEF r
<1>8. Chain(r)
  BY <1>4, <1>5, <1>7 DEF Chain
<1>9. Whole(r) /\ Single(r)
  BY <1>1, <1>4, <1>7 DEF Whole, Single
<1>10. OneResult(r)
  BY <1>4, <1>7, SameResults
<1>11. ConnOK(r)
  BY <1>7, <1>8, <1>9, <1>10 DEF ConnOK
<1>12. QED
  BY <1>6, <1>11, OneChanges

\* The handler has run: its result is not written yet.
LEMMA Executed ==
  ASSUME NEW c \in Conn, ConnOK(conn[c]), Found(c, "brace")
  PROVE  /\ Execute(c) \in ConnRecord /\ ConnOK(Execute(c)) /\ NoResult(Execute(c))
         /\ Execute(c).client \notin {"none", "waiting"} /\ Execute(c).executed = 1
         /\ Execute(c).reading = "no"
         /\ conn[c].executed = 0 /\ Execute(c).stream = conn[c].stream
         /\ ~ Execute(c).fell => /\ Execute(c).response = <<>>
                                 /\ Execute(c).writing = <<>> /\ Execute(c).stream = <<>>
<1> DEFINE s == conn[c]
           r == [s EXCEPT !.reading = "no", !.seen = Buffer(c), !.executed = 1]
<1>1. /\ s \in ConnRecord /\ s.reading = "brace"
      /\ Chain(s) /\ Whole(s) /\ Single(s) /\ OneResult(s)
  BY DEF ConnOK, Found
<1>2. s.executed = 0 /\ s.client \notin {"none", "waiting"}
  BY <1>1 DEF Chain
<1>3. Execute(c) = r
  <2>1. 0 + 1 = 1
    OBVIOUS
  <2>2. Execute(c) = [s EXCEPT !.reading = "no", !.seen = Buffer(c),
                               !.executed = s.executed + 1]
    BY DEF Execute
  <2>3. QED
    BY <1>2, <2>1, <2>2
<1>4. Buffer(c) \in Seq(Part) /\ (Flat(s.msg.body) => Buffer(c) = s.msg.body)
  BY BodyRead
<1>5. NoResult(s)
  BY <1>2, NothingBefore
<1> HIDE DEF s
<1>6. /\ r \in ConnRecord /\ r.reading = "no" /\ r.consumed = s.consumed
      /\ r.client = s.client /\ r.msg = s.msg /\ r.got = s.got
      /\ r.response = s.response /\ r.writing = s.writing /\ r.stream = s.stream
      /\ r.fell = s.fell /\ r.seen = Buffer(c) /\ r.executed = 1
  BY <1>1, <1>4 DEF ConnRecord
<1> HIDE DEF r
<1>7. Chain(r)
  BY <1>1, <1>2, <1>6 DEF Chain
<1>8. Whole(r)
  BY <1>4, <1>6 DEF Whole
<1>9. Single(r)
  BY <1>1, <1>6 DEF Single
<1>10. OneResult(r)
  BY <1>1, <1>5, <1>6 DEF OneResult, NoResult
<1>11. NoResult(r)
  BY <1>5, <1>6 DEF NoResult
<1>12. ~ r.fell => r.response = <<>> /\ r.writing = <<>> /\ r.stream = <<>>
  BY <1>1, <1>6 DEF Single
<1>13. ConnOK(r)
  BY <1>6, <1>7, <1>8, <1>9, <1>10 DEF ConnOK
<1>14. s.executed = 0 /\ r.stream = s.stream /\ r.client \notin {"none", "waiting"}
       /\ r.executed = 1 /\ r.reading = "no" /\ r \in ConnRecord
  BY <1>2, <1>6
<1>15. QED
  BY <1>3, <1>11, <1>12, <1>13, <1>14 DEF s

\* The handler throws: nothing is written.
LEMMA ThrowKeeps ==
  ASSUME ConnInv, NEW c \in Conn, handler_throws(c)
  PROVE  ConnInv'
<1>1. ConnOK(conn[c]) /\ Found(c, "brace") /\ conn' = [conn EXCEPT ![c] = Execute(c)]
  BY DEF ConnInv, handler_throws
<1>2. ConnOK(Execute(c))
  BY <1>1, Executed
<1>3. QED
  BY <1>1, <1>2, OneChanges

\* The handler's result is one of the responses.
LEMMA AnswersType ==
  ASSUME NEW c \in Conn, NEW x \in Answers(c)
  PROVE  x \in Response /\ IsResult(x)
  BY DEF Answers, Response, IsResult

\* The handler answers (xrpc_server.cpp:35-57).
LEMMA BodyKeeps ==
  ASSUME ConnInv, NEW c \in Conn, do_read_http_body(c)
  PROVE  ConnInv'
<1>1. PICK x \in Answers(c) : conn' = [conn EXCEPT ![c] = Write(Execute(c), <<x>>)]
  BY DEF do_read_http_body
<1>2. ConnOK(conn[c]) /\ Found(c, "brace")
  BY DEF ConnInv, do_read_http_body
<1>3. /\ ConnOK(Execute(c)) /\ NoResult(Execute(c))
      /\ Execute(c).client \notin {"none", "waiting"} /\ Execute(c).executed = 1
      /\ Execute(c).reading = "no"
      /\ ~ Execute(c).fell => /\ Execute(c).response = <<>>
                              /\ Execute(c).writing = <<>> /\ Execute(c).stream = <<>>
  BY <1>2, Executed
<1>4. x \in Response
  BY AnswersType
<1>5. ConnOK(Write(Execute(c), <<x>>))
  BY <1>3, <1>4, Answered
<1>6. QED
  BY <1>1, <1>5, OneChanges

\* What a write that has ended changes.
LEMMA WriteEnds ==
  ASSUME NEW s, ConnOK(s), NEW i \in DOMAIN s.writing,
         NEW taken \in Nat, NEW got \in BOOLEAN, NEW r,
         r = [s EXCEPT !.writing = RemoveAt(s.writing, i),
                       !.response = SubSeq(s.response, taken + 1, Len(s.response)),
                       !.stream = IF got THEN s.stream \o s.writing[i] ELSE s.stream]
  PROVE  /\ ConnOK(r) /\ r.executed = s.executed
         /\ r.stream = IF got THEN s.stream \o s.writing[i] ELSE s.stream
<1>1. s \in ConnRecord /\ Chain(s) /\ Whole(s) /\ Single(s) /\ OneResult(s)
  BY DEF ConnOK
<1>2. /\ s.writing \in Seq(Seq(Response)) /\ s.response \in Seq(Response)
      /\ s.stream \in Seq(Response)
  BY <1>1, FieldTypes
<1>3. Len(s.writing) \in Nat /\ DOMAIN s.writing = 1..Len(s.writing) /\ i \in 1..Len(s.writing)
  BY <1>2, LenProperties
<1> DEFINE wr == RemoveAt(s.writing, i)
           re == SubSeq(s.response, taken + 1, Len(s.response))
           st == IF got THEN s.stream \o s.writing[i] ELSE s.stream
           d  == s.writing[i]
<1>4. /\ wr \in Seq(Seq(Response)) /\ Len(wr) = Len(s.writing) - 1
      /\ \A j \in 1..(Len(s.writing) - 1) :
            wr[j] = IF j < i THEN s.writing[j] ELSE s.writing[j + 1]
  BY <1>2, <1>3, Removed
<1>5. re \in Seq(Response) /\ (Results(s.response) = {} => Results(re) = {})
  BY <1>2, ResultsOfRest
<1>6. d \in Seq(Response)
  BY <1>2, <1>3, ElementOfSeq
<1>7. st \in Seq(Response)
  BY <1>2, <1>6, ResultsOfConcat
<1> HIDE DEF wr, re, st, d
<1>8. r = [s EXCEPT !.writing = wr, !.response = re, !.stream = st]
  BY DEF wr, re, st
<1>9. /\ r \in ConnRecord /\ r.reading = s.reading /\ r.consumed = s.consumed
      /\ r.client = s.client /\ r.msg = s.msg /\ r.got = s.got
      /\ r.response = re /\ r.writing = wr /\ r.stream = st
      /\ r.fell = s.fell /\ r.seen = s.seen /\ r.executed = s.executed
  BY <1>1, <1>4, <1>5, <1>7, <1>8 DEF ConnRecord
<1>10. s.writing # <<>>
  BY <1>3
<1>11. Chain(r)
  BY <1>1, <1>9, <1>10 DEF Chain
<1>12. Whole(r)
  BY <1>1, <1>9 DEF Whole
<1>13. Single(r)
  <2>1. ASSUME ~ s.fell PROVE s.reading = "no" /\ wr = <<>> /\ Len(st) <= 1
    <3>1. /\ s.reading = "no" /\ s.stream = <<>> /\ Len(s.writing) = 1
          /\ Len(s.writing[1]) <= 1
      BY <1>1, <1>10, <2>1 DEF Single
    <3>2. i = 1 /\ Len(wr) = 0
      BY <1>3, <1>4, <3>1
    <3>3. wr = <<>>
      BY <1>4, <3>2, EmptySeq
    <3>4. Len(st) <= 1
      <4>1. Len(s.stream) = 0
        BY <3>1
      <4>2. Len(s.stream \o d) = Len(s.stream) + Len(d) /\ Len(d) \in Nat
        BY <1>2, <1>6, ResultsOfConcat, LenProperties
      <4>3. Len(d) <= 1
        BY <3>1, <3>2 DEF d
      <4>4. CASE got
        <5>1. st = s.stream \o d
          BY <4>4 DEF st, d
        <5>2. QED
          BY <4>1, <4>2, <4>3, <5>1
      <4>5. CASE ~ got
        BY <4>1, <4>5 DEF st
      <4>6. QED
        BY <4>4, <4>5
    <3>5. QED
      BY <3>1, <3>3, <3>4
  <2>2. ~ r.fell => r.reading = "no" /\ r.writing = <<>> /\ Len(r.stream) <= 1
    BY <1>9, <2>1
  <2>3. QED
    BY <2>2, Zenon DEF Single
<1>14. OneResult(r)
  <2> DEFINE old(j) == IF j < i THEN j ELSE j + 1
  <2>1. ASSUME NEW j \in DOMAIN wr
        PROVE  /\ old(j) \in DOMAIN s.writing /\ old(j) # i /\ wr[j] = s.writing[old(j)]
    <3>1. j \in 1..(Len(s.writing) - 1)
      BY <1>4, <2>1, LenProperties
    <3>2. wr[j] = IF j < i THEN s.writing[j] ELSE s.writing[j + 1]
      BY <1>4, <3>1
    <3>3. wr[j] = s.writing[old(j)]
      BY <3>2
    <3>4. old(j) \in 1..Len(s.writing) /\ old(j) # i
      BY <1>3, <3>1
    <3>5. QED
      BY <1>3, <3>3, <3>4
  <2>2. ASSUME NEW j \in DOMAIN wr, NEW k \in DOMAIN wr, old(j) = old(k) PROVE j = k
    <3>1. j \in Int /\ k \in Int /\ i \in Int
      BY <1>3, <1>4, LenProperties
    <3>2. QED
      BY <2>2, <3>1
  <2> HIDE DEF old
  <2>3. Len(s.stream) \in Nat
    BY <1>2, LenProperties
  <2>4. ASSUME NEW k, k \in Results(st)
        PROVE  \/ k \in Results(s.stream)
               \/ k - Len(s.stream) \in Results(d) /\ k \in Nat
    <3>1. CASE got
      <4>1. st = s.stream \o d
        BY <3>1 DEF st, d
      <4>2. QED
        BY <1>2, <1>6, <2>4, <4>1, ResultsOfConcat
    <3>2. CASE ~ got
      BY <2>4, <3>2 DEF st
    <3>3. QED
      BY <3>1, <3>2
  <2>5. d = s.writing[i]
    BY DEF d
  <2>6. s.executed = 0 => /\ Results(r.response) = {} /\ Results(r.stream) = {}
                          /\ \A j \in DOMAIN r.writing : Results(r.writing[j]) = {}
    <3>1. ASSUME s.executed = 0
          PROVE  /\ Results(s.response) = {} /\ Results(s.stream) = {} /\ Results(d) = {}
                 /\ \A j \in DOMAIN s.writing : Results(s.writing[j]) = {}
      BY <1>1, <2>5, <3>1 DEF OneResult
    <3>2. ASSUME s.executed = 0 PROVE Results(st) = {}
      BY <2>4, <3>1, <3>2
    <3>3. QED
      BY <1>5, <1>9, <2>1, <3>1, <3>2
  <2>7. ASSUME NEW j \in DOMAIN s.writing, NEW k \in Results(s.writing[j])
        PROVE  /\ Results(s.stream) = {}
               /\ \A p \in DOMAIN s.writing : \A l \in Results(s.writing[p]) : j = p /\ k = l
    BY <1>1, <2>7 DEF OneResult
  <2>8. ASSUME NEW k \in Results(st), NEW l \in Results(st) PROVE k = l
    <3>1. CASE k \in Results(s.stream) /\ l \in Results(s.stream)
      BY <1>1, <3>1 DEF OneResult
    <3>2. CASE k \notin Results(s.stream) \/ l \notin Results(s.stream)
      <4>1. Results(d) # {}
        BY <2>4, <3>2
      <4>2. Results(s.stream) = {}
        BY <2>5, <2>7, <4>1
      <4>3. /\ k - Len(s.stream) \in Results(d) /\ l - Len(s.stream) \in Results(d)
            /\ k \in Nat /\ l \in Nat
        BY <2>4, <4>2
      <4>4. k - Len(s.stream) = l - Len(s.stream)
        BY <2>5, <2>7, <4>3
      <4>5. QED
        BY <2>3, <4>3, <4>4
    <3>3. QED
      BY <3>1, <3>2
  <2>9. ASSUME NEW j \in DOMAIN wr, NEW k \in Results(wr[j])
        PROVE  /\ Results(st) = {}
               /\ \A p \in DOMAIN wr : \A l \in Results(wr[p]) : j = p /\ k = l
    <3>1. /\ old(j) \in DOMAIN s.writing /\ old(j) # i /\ k \in Results(s.writing[old(j)])
      BY <2>1, <2>9
    <3>2. Results(s.stream) = {}
      BY <2>7, <3>1
    <3>3. Results(d) = {}
      BY <2>5, <2>7, <3>1
    <3>4. Results(st) = {}
      BY <2>4, <3>2, <3>3
    <3>5. ASSUME NEW p \in DOMAIN wr, NEW l \in Results(wr[p]) PROVE j = p /\ k = l
      <4>1. old(p) \in DOMAIN s.writing /\ l \in Results(s.writing[old(p)])
        BY <2>1, <3>5
      <4>2. old(j) = old(p) /\ k = l
        BY <2>7, <3>1, <4>1
      <4>3. QED
        BY <2>2, <4>2
    <3>6. QED
      BY <3>4, <3>5
  <2>10. \A k, l \in Results(r.stream) : k = l
    BY <1>9, <2>8
  <2>11. \A j \in DOMAIN r.writing : \A k \in Results(r.writing[j]) :
            /\ Results(r.stream) = {}
            /\ \A p \in DOMAIN r.writing : \A l \in Results(r.writing[p]) : j = p /\ k = l
    <3>1. r.writing = wr /\ r.stream = st
      BY <1>9
    <3>2. ASSUME NEW j \in DOMAIN r.writing, NEW k \in Results(r.writing[j])
          PROVE  /\ Results(r.stream) = {}
                 /\ \A p \in DOMAIN r.writing : \A l \in Results(r.writing[p]) :
                        j = p /\ k = l
      <4>1. j \in DOMAIN wr /\ k \in Results(wr[j])
        BY <3>1, <3>2
      <4>2. Results(st) = {}
        BY <2>9, <4>1
      <4>3. ASSUME NEW p \in DOMAIN r.writing, NEW l \in Results(r.writing[p])
            PROVE  j = p /\ k = l
        BY <2>9, <3>1, <4>1, <4>3
      <4>4. QED
        BY <3>1, <4>2, <4>3
    <3>3. QED
      BY <3>2
  <2>12. r.executed = s.executed
    BY <1>9
  <2>13. QED
    BY <2>6, <2>10, <2>11, <2>12, Zenon DEF OneResult
<1>15. ConnOK(r)
  BY <1>9, <1>11, <1>12, <1>13, <1>14 DEF ConnOK
<1>16. QED
  BY <1>9, <1>15 DEF st, d

\* A write ends (xrpc_server.cpp:149-173).
LEMMA WriteKeeps ==
  ASSUME ConnInv, NEW c \in Conn, write_done(c)
  PROVE  ConnInv'
<1>1. PICK i \in DOMAIN conn[c].writing :
        LET data  == conn[c].writing[i]
            gone  == conn[c].client = "gone"
            taken == IF gone THEN 0 ELSE Len(data)
        IN  conn' = [conn EXCEPT
                ![c].writing = RemoveAt(@, i),
                ![c].response = SubSeq(@, taken + 1, Len(@)),
                ![c].stream = IF gone THEN @ ELSE @ \o data]
  BY DEF write_done
<1> DEFINE s     == conn[c]
           got   == s.client # "gone"
           taken == IF s.client = "gone" THEN 0 ELSE Len(s.writing[i])
           r     == [s EXCEPT !.writing = RemoveAt(s.writing, i),
                              !.response = SubSeq(s.response, taken + 1, Len(s.response)),
                              !.stream = IF got THEN s.stream \o s.writing[i] ELSE s.stream]
<1>2. ConnOK(s)
  BY DEF ConnInv
<1>3. taken \in Nat
  <2>1. s.writing \in Seq(Seq(Response))
    BY <1>2, FieldTypes DEF ConnOK
  <2>2. s.writing[i] \in Seq(Response)
    BY <2>1, ElementOfSeq, LenProperties
  <2>3. QED
    BY <2>2, LenProperties
<1>4. conn' = [conn EXCEPT ![c] = r]
  BY <1>1 DEF ConnInv
<1>5. ConnOK(r)
  BY <1>2, <1>3, WriteEnds
<1>6. QED
  BY <1>4, <1>5, OneChanges

\* What the clients and the network do keeps every connection in order.
LEMMA ConnectKeeps ==
  ASSUME ConnInv, NEW c \in Conn, Connect(c)
  PROVE  ConnInv'
<1>1. PICK m \in Message : conn' = [conn EXCEPT ![c].client = "waiting", ![c].msg = m]
  BY DEF Connect
<1> DEFINE s == conn[c]
           r == [s EXCEPT !.client = "waiting", !.msg = m]
<1>2. ConnOK(s) /\ s \in ConnRecord /\ s.client = "none"
  BY DEF ConnInv, ConnOK, Connect
<1>3. conn' = [conn EXCEPT ![c] = r]
  BY <1>1 DEF ConnInv
<1>4. Len(m.body) \in Nat
  BY SentType, LenProperties DEF Sent
<1> HIDE DEF s
<1>5. /\ r \in ConnRecord /\ r.reading = s.reading /\ r.consumed = s.consumed
      /\ r.client = "waiting" /\ r.msg = m /\ r.got = s.got
      /\ r.response = s.response /\ r.writing = s.writing /\ r.stream = s.stream
      /\ r.fell = s.fell /\ r.seen = s.seen /\ r.executed = s.executed
  BY <1>2 DEF ConnRecord
<1> HIDE DEF r
<1>6. Chain(s) /\ Whole(s) /\ Single(s) /\ OneResult(s)
  BY <1>2 DEF ConnOK
<1>7. Chain(r)
  BY <1>2, <1>4, <1>5, <1>6 DEF Chain
<1>8. s.executed = 0
  BY <1>2, <1>6 DEF Chain
<1>9. Whole(r) /\ Single(r)
  BY <1>5, <1>6, <1>8 DEF Whole, Single
<1>10. OneResult(r)
  BY <1>5, <1>6, SameResults
<1>11. ConnOK(r)
  BY <1>5, <1>7, <1>9, <1>10 DEF ConnOK
<1>12. QED
  BY <1>3, <1>11, OneChanges

LEMMA DisconnectKeeps ==
  ASSUME ConnInv, NEW c \in Conn, Disconnect(c)
  PROVE  ConnInv'
<1> DEFINE s == conn[c]
           r == [s EXCEPT !.client = "gone"]
<1>1. ConnOK(s) /\ s \in ConnRecord
  BY DEF ConnInv, ConnOK
<1>2. conn' = [conn EXCEPT ![c] = r]
  BY DEF ConnInv, Disconnect
<1> HIDE DEF s
<1>3. /\ r \in ConnRecord /\ r.reading = s.reading /\ r.consumed = s.consumed
      /\ r.client = "gone" /\ r.msg = s.msg /\ r.got = s.got
      /\ r.response = s.response /\ r.writing = s.writing /\ r.stream = s.stream
      /\ r.fell = s.fell /\ r.seen = s.seen /\ r.executed = s.executed
  BY <1>1 DEF ConnRecord
<1> HIDE DEF r
<1>4. Chain(s) /\ Whole(s) /\ Single(s) /\ OneResult(s)
  BY <1>1 DEF ConnOK
<1>5. Chain(r) /\ Whole(r) /\ Single(r)
  <2>1. Chain(r)
    BY <1>3, <1>4 DEF Chain
  <2>2. Whole(r) /\ Single(r)
    BY <1>3, <1>4 DEF Whole, Single
  <2> QED BY <2>1, <2>2
<1>6. OneResult(r)
  BY <1>3, <1>4, SameResults
<1>7. ConnOK(r)
  BY <1>3, <1>5, <1>6 DEF ConnOK
<1>8. QED
  BY <1>2, <1>7, OneChanges

LEMMA ReceiveKeeps ==
  ASSUME ConnInv, NEW c \in Conn, Receive(c)
  PROVE  ConnInv'
<1>1. PICK n \in (conn[c].got + 1)..Len(Bytes(conn[c].msg)) : conn' = [conn EXCEPT ![c].got = n]
  BY DEF Receive
<1> DEFINE s == conn[c]
           r == [s EXCEPT !.got = n]
<1>2. ConnOK(s) /\ s \in ConnRecord /\ s.client = "open"
  BY DEF ConnInv, ConnOK, Receive
<1>3. conn' = [conn EXCEPT ![c] = r]
  BY <1>1 DEF ConnInv
<1>4. n \in Nat /\ n <= 3 + Len(s.msg.body)
  <2>1. s.got \in Nat /\ s.msg \in Sent
    BY <1>2, FieldTypes, SentType
  <2>2. Len(Bytes(s.msg)) = 3 + Len(s.msg.body) /\ Len(s.msg.body) \in Nat
    BY <2>1, BytesOf
  <2>3. QED
    BY <2>1, <2>2
<1> HIDE DEF s
<1>5. /\ r \in ConnRecord /\ r.reading = s.reading /\ r.consumed = s.consumed
      /\ r.client = "open" /\ r.msg = s.msg /\ r.got = n
      /\ r.response = s.response /\ r.writing = s.writing /\ r.stream = s.stream
      /\ r.fell = s.fell /\ r.seen = s.seen /\ r.executed = s.executed
  BY <1>2, <1>4 DEF ConnRecord
<1> HIDE DEF r
<1>6. Chain(s) /\ Whole(s) /\ Single(s) /\ OneResult(s)
  BY <1>2 DEF ConnOK
<1>7. Chain(r)
  BY <1>4, <1>5, <1>6 DEF Chain
<1>8. Whole(r) /\ Single(r)
  BY <1>5, <1>6 DEF Whole, Single
<1>9. OneResult(r)
  BY <1>5, <1>6, SameResults
<1>10. ConnOK(r)
  BY <1>5, <1>7, <1>8, <1>9 DEF ConnOK
<1>11. QED
  BY <1>3, <1>10, OneChanges

\* The process ends (xrpc_server.cpp:282-289).
LEMMA LostKeeps == ConnInv /\ ConnectionsLost => ConnInv'
<1> SUFFICES ASSUME ConnInv, ConnectionsLost PROVE ConnInv'
  OBVIOUS
<1>1. conn' = [c \in Conn |-> conn'[c]]
  BY DEF ConnectionsLost
<1>2. ASSUME NEW c \in Conn PROVE ConnOK(conn'[c])
  <2> DEFINE s == conn[c]
             r == [s EXCEPT !.client = "gone", !.reading = "no", !.writing = <<>>]
  <2>1. ConnOK(s) /\ s \in ConnRecord
    BY DEF ConnInv, ConnOK
  <2>2. conn'[c] = IF s.client = "none" THEN s ELSE r
    BY DEF ConnectionsLost
  <2> HIDE DEF s
  <2>3. /\ r \in ConnRecord /\ r.reading = "no" /\ r.consumed = s.consumed
        /\ r.client = "gone" /\ r.msg = s.msg /\ r.got = s.got
        /\ r.response = s.response /\ r.writing = <<>> /\ r.stream = s.stream
        /\ r.fell = s.fell /\ r.seen = s.seen /\ r.executed = s.executed
    BY <2>1, EmptySeq DEF ConnRecord
  <2> HIDE DEF r
  <2>4. Chain(s) /\ Whole(s) /\ Single(s) /\ OneResult(s)
    BY <2>1 DEF ConnOK
  <2>5. Chain(r) /\ Whole(r)
    BY <2>3, <2>4 DEF Chain, Whole
  <2>6. Single(r)
    BY <2>3, <2>4 DEF Single
  <2>7. OneResult(r)
    BY <2>3, <2>4 DEF OneResult
  <2>8. ConnOK(r)
    BY <2>3, <2>5, <2>6, <2>7 DEF ConnOK
  <2>9. QED
    BY <2>1, <2>2, <2>8
<1>3. QED
  BY <1>1, <1>2 DEF ConnInv, ConnOK

\* Init has every connection in order (xrpc_server.cpp:282-289).
LEMMA ConnInvInit == Init => ConnInv
<1> SUFFICES ASSUME Init PROVE ConnInv
  OBVIOUS
<1> DEFINE r == [client |-> "none", msg |-> [method |-> "GET", body |-> <<>>],
                 got |-> 0, consumed |-> 0, reading |-> "no", response |-> <<>>,
                 writing |-> <<>>, stream |-> <<>>, fell |-> FALSE, seen |-> <<>>,
                 executed |-> 0]
<1>1. conn = [c \in Conn |-> r]
  BY DEF Init, ConnInit
<1>2. r \in ConnRecord
  BY EmptySeq DEF ConnRecord
<1>3. /\ r.client = "none" /\ r.msg.body = <<>> /\ r.got = 0 /\ r.consumed = 0
      /\ r.reading = "no" /\ r.response = <<>> /\ r.writing = <<>> /\ r.stream = <<>>
      /\ r.fell = FALSE /\ r.executed = 0
  OBVIOUS
<1> HIDE DEF r
<1>4. Chain(r)
  BY <1>3 DEF Chain
<1>5. Whole(r) /\ Single(r)
  BY <1>3 DEF Whole, Single
<1>6. OneResult(r)
  BY <1>3, ResultsOfNone DEF OneResult
<1>7. ConnOK(r)
  BY <1>2, <1>4, <1>5, <1>6 DEF ConnOK
<1>8. QED
  BY <1>1, <1>7 DEF ConnInv, ConnOK

LEMMA ConnInvNext == ConnInv /\ [Next]_vars => ConnInv'
<1> SUFFICES ASSUME ConnInv, [Next]_vars
             PROVE  ConnInv'
  OBVIOUS
<1>1. CASE genesis_account_create \/ run_accept \/ run_returns \/ accept_error
  BY <1>1 DEF genesis_account_create, run_accept, run_returns, accept_error, ConnInv
<1>2. CASE Restart
  BY <1>2, LostKeeps DEF Restart
<1>3. ASSUME NEW c \in Conn, do_accept(c)
      PROVE  ConnInv'
  BY <1>3, AcceptKeeps DEF do_accept
<1>4. ASSUME NEW c \in Conn, Callback(c)
      PROVE  ConnInv'
  BY <1>4, MethodKeeps, PostKeeps, BodyKeeps, ReadErrorKeeps, WriteKeeps DEF Callback
<1>5. ASSUME NEW c \in Conn, Exception(c)
      PROVE  ConnInv'
  BY <1>5, ThrowKeeps DEF Exception
<1>6. ASSUME NEW c \in Conn, Network(c)
      PROVE  ConnInv'
  BY <1>6, ConnectKeeps, DisconnectKeeps, ReceiveKeeps DEF Network
<1>7. CASE UNCHANGED vars
  BY <1>7 DEF vars, ConnInv
<1>8. QED
  BY <1>1, <1>2, <1>3, <1>4, <1>5, <1>6, <1>7 DEF Next

LEMMA ConnInvHolds == Spec => []ConnInv
  BY ConnInvInit, ConnInvNext, PTL DEF Spec
-----------------------------------------------------------------------------
(* The properties of the connections *)

\* Where the server is, and how often it was restarted.
ServerTypes ==
    /\ main \in {"genesis", "accept", "run", "exited"}
    /\ stopped \in BOOLEAN /\ genesis \in BOOLEAN
    /\ restarts \in Nat

LEMMA ServerTypesNext == ServerTypes /\ [Next]_vars => ServerTypes'
<1> SUFFICES ASSUME ServerTypes, [Next]_vars
             PROVE  ServerTypes'
  OBVIOUS
<1>1. CASE genesis_account_create
  BY <1>1 DEF genesis_account_create, ServerTypes
<1>2. CASE run_accept \/ run_returns \/ accept_error
  BY <1>2, Zenon DEF run_accept, run_returns, accept_error, ServerTypes
<1>3. CASE Restart
  <2>1. restarts' \in Nat
    BY <1>3 DEF Restart, ServerTypes
  <2>2. QED
    BY <1>3, <2>1, Zenon DEF Restart, ServerTypes
<1>4. ASSUME NEW c \in Conn, do_accept(c) \/ Callback(c) \/ Exception(c) \/ Network(c)
      PROVE  ServerTypes'
  BY <1>4 DEF do_accept, Callback, Exception, Network, server, ServerTypes
<1>5. CASE UNCHANGED vars
  BY <1>5 DEF vars, server, ServerTypes
<1>6. QED
  BY <1>1, <1>2, <1>3, <1>4, <1>5 DEF Next

\* Every variable keeps to its type, the handler gets a body of the parts that
\* bodies have, and each counter stays a natural number, also the pending accepts,
\* of which one is given up for each that fails (xrpc_server.cpp:94-96 and 190-204).
THEOREM TypeCorrect == Spec => []TypeOK
<1>1. Init => ServerTypes
  <2>1. Init => restarts \in Nat
    BY DEF Init
  <2>2. QED
    BY <2>1, Zenon DEF Init, ServerTypes
<1>2. ASSUME ConnInv, AcceptsInv, ServerTypes
      PROVE  TypeOK
  <2>1. conn \in [Conn -> ConnRecord]
    BY <1>2 DEF ConnInv
  <2>2. {accepts, exceptions, errors, restarts} \subseteq Nat
    BY <1>2 DEF AcceptsInv, CountersOK, ServerTypes
  <2>3. QED
    BY <1>2, <2>1, <2>2, Zenon DEF TypeOK, ServerTypes, ConnRecord, Part
<1>3. QED
  BY <1>1, <1>2, ConnInvInit, ConnInvNext, AcceptsInit, AcceptsNext, ServerTypesNext, PTL
  DEF Spec

\* However the network cuts a request into pieces, the handler gets the whole of a
\* flat body (xrpc_server.cpp:94-105 and 39-47).
THEOREM FlatBodyWholeHolds == Spec => []FlatBodyWhole
<1>1. ConnInv => FlatBodyWhole
  BY DEF ConnInv, ConnOK, Whole, FlatBodyWhole
<1>2. QED
  BY <1>1, ConnInvHolds, PTL

\* What FlattenSeq makes of no pending write and of one.
LEMMA FlattenedOne ==
  /\ FlattenSeq(<<>>) = <<>>
  /\ \A w : FlattenSeq(<<w>>) = w
<1>1. FlattenSeq(<<>>) = <<>>
  BY DEF FlattenSeq
<1>2. ASSUME NEW w PROVE FlattenSeq(<<w>>) = w
  <2> DEFINE Def(f) == f = [i \in 1..1 |-> IF i = 1 THEN <<w>>[i] ELSE f[i - 1] \o <<w>>[i]]
             one == [i \in 1..1 |-> w]
  <2>1. Def(one)
    <3>1. \A i \in 1..1 : i = 1
      OBVIOUS
    <3>2. <<w>>[1] = w
      OBVIOUS
    <3>3. QED
      BY <3>1, <3>2
  <2>2. FlattenSeq(<<w>>) = (CHOOSE f : Def(f))[1]
    BY DEF FlattenSeq
  <2>3. \A f : Def(f) => f[1] = w
    OBVIOUS
  <2> HIDE DEF Def, one
  <2>4. Def(CHOOSE f : Def(f))
    BY <2>1
  <2>5. QED
    BY <2>2, <2>3, <2>4
<1>3. QED
  BY <1>1, <1>2

\* A client gets at most one response, in the stream or in the one pending write,
\* unless parse_method's undefined result was true (xrpc_server.cpp:60-88 and
\* 139-147).
THEOREM OneResponseHolds == Spec => []OneResponse
<1>1. ASSUME NEW r, ConnOK(r), ~ r.fell
      PROVE  Len(r.stream) + Len(FlattenSeq(r.writing)) <= 1
  <2>1. r.writing \in Seq(Seq(Response)) /\ r.stream \in Seq(Response) /\ Single(r)
    BY <1>1, FieldTypes DEF ConnOK
  <2>2. CASE r.writing = <<>> /\ Len(r.stream) <= 1
    <3>1. FlattenSeq(r.writing) = <<>>
      BY <2>2, FlattenedOne
    <3>2. Len(FlattenSeq(r.writing)) = 0 /\ Len(r.stream) \in Nat
      BY <2>1, <3>1, LenProperties
    <3>3. QED
      BY <2>2, <3>2
  <2>3. CASE r.stream = <<>> /\ Len(r.writing) = 1 /\ Len(r.writing[1]) <= 1
    <3> DEFINE w == r.writing[1]
    <3>1. r.writing = <<w>>
      BY <2>1, <2>3
    <3>2. FlattenSeq(r.writing) = w
      BY <3>1, FlattenedOne, Zenon
    <3>3. w \in Seq(Response)
      BY <2>1, <2>3, ElementOfSeq
    <3>4. Len(w) \in Nat /\ Len(r.stream) = 0
      BY <2>3, <3>3, LenProperties
    <3>5. QED
      BY <2>3, <3>2, <3>4
  <2>4. QED
    BY <1>1, <2>1, <2>2, <2>3 DEF Single
<1>2. ConnInv => OneResponse
  BY <1>1 DEF ConnInv, OneResponse
<1>3. QED
  BY <1>2, ConnInvHolds, PTL
-----------------------------------------------------------------------------
(* The abstract service *)

\* The answers a client has got, as CallService counts them.
AnswersTo(c) == [i \in 1..Cardinality(Results(conn[c].stream)) |-> c]

LEMMA NoneCounted ==
  ASSUME NEW c, Results(conn[c].stream) = {}
  PROVE  AnswersTo(c) = <<>>
  BY FS_EmptySet DEF AnswersTo

LEMMA OneCounted ==
  ASSUME NEW c, NEW k \in Results(conn[c].stream),
         \A i, j \in Results(conn[c].stream) : i = j
  PROVE  AnswersTo(c) = <<c>>
<1>1. Results(conn[c].stream) = {k}
  OBVIOUS
<1>2. Cardinality(Results(conn[c].stream)) = 1
  BY <1>1, FS_Singleton
<1>3. QED
  BY <1>2 DEF AnswersTo

\* A step after which each client has the answers that it had, and each request was
\* executed as often as before.
Unseen ==
    \A d \in Conn : /\ conn'[d].executed = conn[d].executed
                    /\ conn'[d].stream = conn[d].stream

LEMMA UnseenByOne ==
  ASSUME ConnInv, NEW c \in Conn, NEW r, conn' = [conn EXCEPT ![c] = r],
         r.executed = conn[c].executed, r.stream = conn[c].stream
  PROVE  Unseen
  BY DEF ConnInv, Unseen

LEMMA WriteUnseen ==
  ASSUME NEW r \in ConnRecord, NEW s
  PROVE  Write(r, s).executed = r.executed /\ Write(r, s).stream = r.stream
  BY DEF Write, ConnRecord

\* Only the handler executes and only a write that ends answers.
LEMMA OthersUnseen ==
  ASSUME ConnInv, NEW c \in Conn,
         \/ handle_accept(c) \/ parse_method(c) \/ on_post(c) \/ read_error(c)
         \/ Connect(c) \/ Disconnect(c) \/ Receive(c)
  PROVE  Unseen
<1>1. conn[c] \in ConnRecord /\ DOMAIN conn = Conn
  BY DEF ConnInv
<1>2. CASE handle_accept(c)
  <2>1. PICK result \in BOOLEAN :
          LET r == [conn[c] EXCEPT !.client = "open", !.reading = "space", !.fell = result]
          IN  conn' = [conn EXCEPT ![c] = IF result THEN on_error(r) ELSE r]
    BY <1>2 DEF handle_accept
  <2> DEFINE r == [conn[c] EXCEPT !.client = "open", !.reading = "space", !.fell = result]
  <2>2. r \in ConnRecord /\ r.executed = conn[c].executed /\ r.stream = conn[c].stream
    BY <1>1 DEF ConnRecord
  <2>3. conn' = [conn EXCEPT ![c] = IF result THEN Write(r, <<"403">>) ELSE r]
    BY <2>1 DEF on_error
  <2> HIDE DEF r
  <2>4. /\ Write(r, <<"403">>).executed = conn[c].executed
        /\ Write(r, <<"403">>).stream = conn[c].stream
    BY <2>2, WriteUnseen
  <2>5. QED
    BY <2>2, <2>3, <2>4, UnseenByOne
<1>3. CASE parse_method(c)
  <2> DEFINE method == Head(Buffer(c))
             next   == IF method = "POST" THEN "end_of_header" ELSE "no"
             r      == [conn[c] EXCEPT !.reading = next]
  <2>1. conn' = [conn EXCEPT ![c] = IF method = "OPTIONS" THEN Write(r, <<"options">>) ELSE r]
    BY <1>3 DEF parse_method, on_options
  <2> HIDE DEF method
  <2>2. r \in ConnRecord /\ r.executed = conn[c].executed /\ r.stream = conn[c].stream
    <3>1. next \in {"no", "space", "end_of_header", "brace"}
      OBVIOUS
    <3> HIDE DEF next
    <3>2. QED
      BY <1>1, <3>1 DEF ConnRecord
  <2> HIDE DEF r
  <2>3. /\ Write(r, <<"options">>).executed = conn[c].executed
        /\ Write(r, <<"options">>).stream = conn[c].stream
    BY <2>2, WriteUnseen
  <2>4. QED
    BY <2>1, <2>2, <2>3, UnseenByOne
<1>4. CASE on_post(c)
  <2>1. PICK i \in DOMAIN Buffer(c) :
          conn' = [conn EXCEPT ![c].consumed = @ + i, ![c].reading = "brace"]
    BY <1>4 DEF on_post
  <2>2. QED
    BY <1>1, <2>1 DEF Unseen, ConnInv, ConnRecord
<1>5. CASE read_error(c)
  BY <1>1, <1>5 DEF read_error, Unseen, ConnInv, ConnRecord
<1>6. CASE Connect(c)
  <2>1. PICK m : conn' = [conn EXCEPT ![c].client = "waiting", ![c].msg = m]
    BY <1>6 DEF Connect
  <2> DEFINE r == [conn[c] EXCEPT !.client = "waiting", !.msg = m]
  <2>2. conn' = [conn EXCEPT ![c] = r]
    BY <1>1, <2>1
  <2>3. r.executed = conn[c].executed /\ r.stream = conn[c].stream
    BY <1>1 DEF ConnRecord
  <2>4. QED
    BY <2>2, <2>3, UnseenByOne
<1>7. CASE Disconnect(c)
  BY <1>1, <1>7 DEF Disconnect, Unseen, ConnInv, ConnRecord
<1>8. CASE Receive(c)
  BY <1>1, <1>8 DEF Receive, Unseen, ConnInv, ConnRecord
<1>9. QED
  BY <1>2, <1>3, <1>4, <1>5, <1>6, <1>7, <1>8

LEMMA LostUnseen == ConnInv /\ ConnectionsLost => Unseen
<1> SUFFICES ASSUME ConnInv, ConnectionsLost, NEW c \in Conn
             PROVE  conn'[c].executed = conn[c].executed /\ conn'[c].stream = conn[c].stream
  BY DEF Unseen
<1> DEFINE r == [conn[c] EXCEPT !.client = "gone", !.reading = "no", !.writing = <<>>]
<1>1. conn'[c] = IF conn[c].client = "none" THEN conn[c] ELSE r
  BY DEF ConnectionsLost
<1>2. r.executed = conn[c].executed /\ r.stream = conn[c].stream
  BY DEF ConnInv, ConnRecord
<1>3. QED
  BY <1>1, <1>2

\* The handler runs once for a connection: the read that it ends was the last.
LEMMA HandlerExecutes ==
  ASSUME ConnInv, NEW c \in Conn, do_read_http_body(c) \/ handler_throws(c)
  PROVE  /\ conn[c].executed = 0
         /\ \A d \in Conn :
              /\ conn'[d].executed = IF d = c THEN 1 ELSE conn[d].executed
              /\ conn'[d].stream = conn[d].stream
<1>1. ConnOK(conn[c]) /\ Found(c, "brace")
  BY DEF ConnInv, do_read_http_body, handler_throws
<1>2. /\ Execute(c) \in ConnRecord /\ Execute(c).executed = 1
      /\ conn[c].executed = 0 /\ Execute(c).stream = conn[c].stream
  BY <1>1, Executed
<1>3. PICK r : /\ conn' = [conn EXCEPT ![c] = r]
               /\ r.executed = 1 /\ r.stream = conn[c].stream
  <2>1. CASE handler_throws(c)
    BY <1>2, <2>1 DEF handler_throws
  <2>2. CASE do_read_http_body(c)
    <3>1. PICK x \in Answers(c) : conn' = [conn EXCEPT ![c] = Write(Execute(c), <<x>>)]
      BY <2>2 DEF do_read_http_body
    <3>2. /\ Write(Execute(c), <<x>>).executed = 1
          /\ Write(Execute(c), <<x>>).stream = conn[c].stream
      BY <1>2, WriteUnseen
    <3>3. QED
      BY <3>1, <3>2
  <2>3. QED
    BY <2>1, <2>2
<1>4. QED
  BY <1>2, <1>3 DEF ConnInv

\* A write that ends brings its client the first result or none.
LEMMA WriteAnswers ==
  ASSUME ConnInv, NEW c \in Conn, write_done(c)
  PROVE  /\ \A d \in Conn : /\ conn'[d].executed = conn[d].executed
                            /\ d # c => conn'[d].stream = conn[d].stream
         /\ \/ Results(conn'[c].stream) = Results(conn[c].stream)
            \/ /\ conn[c].executed = 1 /\ Results(conn[c].stream) = {}
               /\ Results(conn'[c].stream) # {}
<1>1. PICK i \in DOMAIN conn[c].writing :
        LET data  == conn[c].writing[i]
            gone  == conn[c].client = "gone"
            taken == IF gone THEN 0 ELSE Len(data)
        IN  conn' = [conn EXCEPT
                ![c].writing = RemoveAt(@, i),
                ![c].response = SubSeq(@, taken + 1, Len(@)),
                ![c].stream = IF gone THEN @ ELSE @ \o data]
  BY DEF write_done
<1> DEFINE s     == conn[c]
           gone  == s.client = "gone"
           taken == IF gone THEN 0 ELSE Len(s.writing[i])
           st    == IF gone THEN s.stream ELSE s.stream \o s.writing[i]
           r     == [s EXCEPT !.writing = RemoveAt(s.writing, i),
                              !.response = SubSeq(s.response, taken + 1, Len(s.response)),
                              !.stream = st]
<1>2. /\ ConnOK(s) /\ s \in ConnRecord /\ OneResult(s) /\ Chain(s)
      /\ s.writing \in Seq(Seq(Response)) /\ s.stream \in Seq(Response)
  BY FieldTypes DEF ConnInv, ConnOK
<1>3. s.writing[i] \in Seq(Response)
  BY <1>2, ElementOfSeq, LenProperties
<1>4. conn' = [conn EXCEPT ![c] = r]
  BY <1>1 DEF ConnInv
<1>5. r.executed = s.executed /\ r.stream = st
  BY <1>2 DEF ConnRecord
<1> HIDE DEF r, s
<1>6. /\ \A d \in Conn : /\ conn'[d].executed = conn[d].executed
                         /\ d # c => conn'[d].stream = conn[d].stream
      /\ conn'[c].stream = st
  BY <1>4, <1>5 DEF ConnInv, s
<1>7. Len(s.stream) \in Nat
  BY <1>2, LenProperties
<1>8. CASE gone \/ Results(s.writing[i]) = {}
  <2>1. CASE gone
    BY <1>6, <2>1 DEF s
  <2>2. CASE ~ gone /\ Results(s.writing[i]) = {}
    <3>1. \A k : k \in Results(s.stream \o s.writing[i]) <=> k \in Results(s.stream)
      BY <1>2, <1>3, <2>2, ResultsOfConcat
    <3>2. Results(s.stream \o s.writing[i]) = Results(s.stream)
      BY <3>1
    <3>3. QED
      BY <1>6, <2>2, <3>2 DEF s
  <2>3. QED
    BY <1>8, <2>1, <2>2
<1>9. CASE ~ gone /\ Results(s.writing[i]) # {}
  <2>1. PICK k : k \in Results(s.writing[i])
    BY <1>9
  <2>2. Results(s.stream) = {} /\ s.executed # 0
    BY <1>2, <2>1 DEF OneResult, s
  <2>3. s.executed = 1
    BY <1>2, <2>2 DEF Chain
  <2>4. k \in Nat
    BY <1>3, <2>1, LenProperties DEF Results
  <2>5. k + Len(s.stream) \in Nat /\ (k + Len(s.stream)) - Len(s.stream) = k
    BY <1>7, <2>4
  <2>6. k + Len(s.stream) \in Results(s.stream \o s.writing[i])
    BY <1>2, <1>3, <2>1, <2>5, ResultsOfConcat
  <2>7. QED
    BY <1>6, <1>9, <2>2, <2>3, <2>6 DEF s
<1>10. QED
  BY <1>6, <1>8, <1>9

\* Over HTTP too a request is executed at most once and its result reaches its
\* client at most once, for any clients, messages and numbers of errors,
\* exceptions and restarts, although writes may overlap (xrpc_server.cpp:35-57
\* and 149-173).
THEOREM HttpImplementsCallService == Spec => ImplementsCallService
<1> DEFINE executed == [c \in Conn |-> conn[c].executed]
           answers  == [c \in Conn |-> AnswersTo(c)]
<1>1. Init => CallServicePromise!Init
  <2> SUFFICES ASSUME Init PROVE CallServicePromise!Init
    OBVIOUS
  <2>1. ASSUME NEW c \in Conn PROVE conn[c].executed = 0 /\ AnswersTo(c) = <<>>
    <3>1. conn[c].executed = 0 /\ conn[c].stream = <<>>
      BY DEF Init, ConnInit
    <3>2. QED
      BY <3>1, ResultsOfNone, NoneCounted
  <2>2. QED
    BY <2>1 DEF CallServicePromise!Init, AnswersTo
<1>2. ASSUME Unseen PROVE UNCHANGED <<executed, answers>>
  <2>1. executed' = executed
    BY <1>2 DEF Unseen
  <2>2. ASSUME NEW c \in Conn PROVE AnswersTo(c)' = AnswersTo(c)
    BY <1>2 DEF Unseen, AnswersTo
  <2>3. QED
    BY <2>1, <2>2
<1>3. ASSUME ConnInv, NEW c \in Conn, do_read_http_body(c) \/ handler_throws(c)
      PROVE  CallServicePromise!Execute(c)
  <2>1. /\ conn[c].executed = 0
        /\ \A d \in Conn :
             /\ conn'[d].executed = IF d = c THEN 1 ELSE conn[d].executed
             /\ conn'[d].stream = conn[d].stream
    BY <1>3, HandlerExecutes
  <2>2. executed' = [executed EXCEPT ![c] = 1]
    BY <2>1
  <2>3. ASSUME NEW d \in Conn PROVE AnswersTo(d)' = AnswersTo(d)
    BY <2>1 DEF AnswersTo
  <2>4. answers' = answers
    BY <2>3
  <2>5. executed[c] = 0
    BY <2>1
  <2>6. QED
    BY <2>2, <2>4, <2>5, Zenon DEF CallServicePromise!Execute, AnswersTo
<1>4. ASSUME ConnInv, ConnInv', NEW c \in Conn, write_done(c)
      PROVE  CallServicePromise!Answer(c) \/ UNCHANGED <<executed, answers>>
  <2>1. /\ \A d \in Conn : /\ conn'[d].executed = conn[d].executed
                           /\ d # c => conn'[d].stream = conn[d].stream
        /\ \/ Results(conn'[c].stream) = Results(conn[c].stream)
           \/ /\ conn[c].executed = 1 /\ Results(conn[c].stream) = {}
              /\ Results(conn'[c].stream) # {}
    BY <1>4, WriteAnswers
  <2>2. executed' = executed
    BY <2>1
  <2>3. ASSUME NEW d \in Conn, d # c PROVE AnswersTo(d)' = AnswersTo(d)
    BY <2>1, <2>3 DEF AnswersTo
  <2>4. CASE Results(conn'[c].stream) = Results(conn[c].stream)
    <3>1. AnswersTo(c)' = AnswersTo(c)
      BY <2>4 DEF AnswersTo, Results
    <3>2. QED
      BY <2>2, <2>3, <3>1
  <2>5. CASE /\ conn[c].executed = 1 /\ Results(conn[c].stream) = {}
             /\ Results(conn'[c].stream) # {}
    <3>1. AnswersTo(c) = <<>>
      BY <2>5, NoneCounted
    <3>2. \A i, j \in Results(conn'[c].stream) : i = j
      BY <1>4 DEF ConnInv, ConnOK, OneResult
    <3>3. AnswersTo(c)' = <<c>>
      BY <2>5, <3>2, FS_Singleton DEF AnswersTo
    <3>4. answers' = [answers EXCEPT ![c] = <<c>>]
      BY <2>3, <3>3
    <3>5. executed[c] = 1 /\ answers[c] = <<>>
      BY <2>5, <3>1
    <3>6. QED
      BY <2>2, <3>4, <3>5, Zenon DEF CallServicePromise!Answer, AnswersTo
  <2>6. QED
    BY <2>1, <2>4, <2>5, Zenon
<1>5. ASSUME ConnInv, ConnInv', [Next]_vars
      PROVE  [CallServicePromise!Next]_<<executed, answers>>
  <2>1. CASE genesis_account_create \/ run_accept \/ run_returns \/ accept_error
    <3>1. Unseen
      BY <2>1 DEF genesis_account_create, run_accept, run_returns, accept_error, Unseen
    <3>2. QED
      BY <1>2, <3>1
  <2>2. CASE Restart
    <3>1. Unseen
      BY <1>5, <2>2, LostUnseen DEF Restart
    <3>2. QED
      BY <1>2, <3>1
  <2>3. ASSUME NEW c \in Conn, do_accept(c) \/ Network(c)
        PROVE  UNCHANGED <<executed, answers>>
    <3>1. Unseen
      BY <1>5, <2>3, OthersUnseen DEF do_accept, Network
    <3>2. QED
      BY <1>2, <3>1
  <2>4. ASSUME NEW c \in Conn, Exception(c)
        PROVE  CallServicePromise!Execute(c)
    BY <1>3, <1>5, <2>4 DEF Exception
  <2>5. ASSUME NEW c \in Conn, Callback(c)
        PROVE  \/ CallServicePromise!Execute(c) \/ CallServicePromise!Answer(c)
               \/ UNCHANGED <<executed, answers>>
    <3>1. CASE do_read_http_body(c)
      BY <1>3, <1>5, <3>1
    <3>2. CASE write_done(c)
      BY <1>4, <1>5, <3>2
    <3>3. CASE parse_method(c) \/ on_post(c) \/ read_error(c)
      <4>1. Unseen
        BY <1>5, <3>3, OthersUnseen
      <4>2. QED
        BY <1>2, <4>1
    <3>4. QED
      BY <2>5, <3>1, <3>2, <3>3 DEF Callback
  <2>6. CASE UNCHANGED vars
    <3>1. Unseen
      BY <2>6 DEF vars, Unseen
    <3>2. QED
      BY <1>2, <3>1
  <2> HIDE DEF executed, answers
  <2>7. CASE Next
    <3>1. CASE \E c \in Conn : do_accept(c) \/ Callback(c) \/ Exception(c) \/ Network(c)
      <4>1. PICK c \in Conn : do_accept(c) \/ Callback(c) \/ Exception(c) \/ Network(c)
        BY <3>1
      <4>2. \/ CallServicePromise!Execute(c) \/ CallServicePromise!Answer(c)
            \/ UNCHANGED <<executed, answers>>
        BY <2>3, <2>4, <2>5, <4>1
      <4>3. QED
        BY <4>2 DEF CallServicePromise!Next
    <3>2. QED
      BY <2>1, <2>2, <2>7, <3>1 DEF Next
  <2>8. QED
    BY <1>5, <2>6, <2>7
<1>6. QED
  BY <1>1, <1>5, ConnInvHolds, PTL DEF Spec, ImplementsCallService, CallServicePromise!Spec,
     AnswersTo
=============================================================================
