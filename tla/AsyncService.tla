---------------------------- MODULE AsyncService ----------------------------
(***************************************************************************)
(* The asynchronous gRPC service (xrpc_async_serviceimpl): threads running *)
(* HandleRpcs share one completion queue; a CallData object, named by its  *)
(* address, waits for a call, serves it, and deletes itself when the event *)
(* of its Finish comes back.  Any thread may take any event.               *)
(*                                                                         *)
(* A step ends where another thread or the gRPC runtime can see its        *)
(* effect: at Requestcall and Finish, which hand the object's address to   *)
(* the runtime, and at the end of the handler.                             *)
(***************************************************************************)
EXTENDS Integers, Sequences, FiniteSets

CONSTANTS Thread,       \* the threads t1 to t6 of Run
          Address,      \* where CallData objects are allocated
          Call,         \* the calls of the clients
          Cancels,      \* calls that the client may cancel, or lose
          Fatal,        \* calls whose serving ends the process: the handler
                        \* throws in a thread that has no catch, or the rate
                        \* statistic divides by zero (line 156)
          None          \* no object, no call

\* Every object waits for a call, on behalf of a thread, or has one.
ASSUME AsyncConstants ==
    /\ IsFiniteSet(Thread) /\ IsFiniteSet(Address) /\ IsFiniteSet(Call)
    /\ Cardinality(Address) >= Cardinality(Thread) + Cardinality(Call)
    /\ Cancels \subseteq Call /\ Fatal \subseteq Call
    /\ None \notin Address \cup Call

VARIABLES
    pc,         \* per thread: "start", "request", "next", "proceed", "handle"
                \* or "finish", what it does next
    tag,        \* per thread: the CallData whose Proceed it is in
    fresh,      \* per thread: the CallData under construction
    status,     \* per address: status_, or "free" when nothing lives there
    request,    \* per address: the call that request_ is from
    reply,      \* per address: the call that reply_ was computed from
    listening,  \* CallData that Requestcall has handed to the runtime
    finishing,  \* CallData that Finish has handed to the runtime
    queue,      \* the completion queue: events with a tag and the flag ok
    call,       \* per call: "new", "sent", "matched" or "cancelled"
    executed,   \* per call: how often its request was executed
    answers,    \* per call: the replies its client got
    ended       \* why the process ended: "no", "assert_ok" or "fatal"

threadVars  == <<pc, tag, fresh>>
objectVars  == <<status, request, reply>>
runtimeVars == <<listening, finishing, queue>>
clientVars  == <<call, executed, answers>>
vars == <<threadVars, objectVars, runtimeVars, clientVars, ended>>

Running(t, at) == ended = "no" /\ pc[t] = at

To(t, at) == pc' = [pc EXCEPT ![t] = at]
-----------------------------------------------------------------------------
(* The threads *)

\* The constructor of CallData calls Proceed, which sets the status PROCESS
\* before anything else; the thread goes on to Requestcall.
NewCallData(t) ==
    /\ \E s \in Address :
        /\ status[s] = "free"
        /\ status'  = [status EXCEPT ![s] = "PROCESS"]
        /\ request' = [request EXCEPT ![s] = None]
        /\ reply'   = [reply EXCEPT ![s] = None]
        /\ fresh'   = [fresh EXCEPT ![t] = s]
    /\ To(t, "request")
    /\ UNCHANGED <<tag, runtimeVars, clientVars, ended>>

\* HandleRpcs creates a CallData before its loop.
HandleRpcs(t) == Running(t, "start") /\ NewCallData(t)

\* Mutant: goes on with the CallData it has just created.
Requestcall_self(t) ==
    /\ Running(t, "request")
    /\ listening' = listening \cup {fresh[t]}
    /\ tag' = [tag EXCEPT ![t] = IF @ = None THEN None ELSE fresh[t]]
    /\ fresh' = [fresh EXCEPT ![t] = None]
    /\ To(t, IF tag[t] = None THEN "next" ELSE "handle")
    /\ UNCHANGED <<objectVars, finishing, queue, clientVars, ended>>

\* After Requestcall the runtime owns the object; the thread returns from the
\* constructor to its loop, or to the call it was serving.
Requestcall(t) ==
    /\ Running(t, "request")
    /\ listening' = listening \cup {fresh[t]}
    /\ fresh' = [fresh EXCEPT ![t] = None]
    /\ To(t, IF tag[t] = None THEN "next" ELSE "handle")
    /\ UNCHANGED <<tag, objectVars, finishing, queue, clientVars, ended>>

\* cq_->Next and GPR_ASSERT(ok).
TakeEvent(t) ==
    /\ Running(t, "next")
    /\ queue # <<>>
    /\ queue' = Tail(queue)
    /\ \/ /\ Head(queue).ok
          /\ tag' = [tag EXCEPT ![t] = Head(queue).tag]
          /\ To(t, "proceed")
          /\ UNCHANGED ended
       \/ /\ ~ Head(queue).ok
          /\ ended' = "assert_ok"
          /\ UNCHANGED <<pc, tag>>
    /\ UNCHANGED <<fresh, objectVars, listening, finishing, clientVars>>

\* Mutant: serves the call without creating the next CallData.
ProceedProcess_no_spawn(t) ==
    /\ Running(t, "proceed")
    /\ status[tag[t]] = "PROCESS"
    /\ To(t, "handle")
    /\ UNCHANGED <<tag, fresh, objectVars, runtimeVars, clientVars, ended>>

\* Proceed in status PROCESS: a new CallData for the next call comes first.
ProceedProcess(t) ==
    /\ Running(t, "proceed")
    /\ status[tag[t]] = "PROCESS"
    /\ NewCallData(t)

\* Proceed in status FINISH: delete this.
ProceedFinish(t) ==
    /\ Running(t, "proceed")
    /\ status[tag[t]] = "FINISH"
    /\ status' = [status EXCEPT ![tag[t]] = "free"]
    /\ tag' = [tag EXCEPT ![t] = None]
    /\ To(t, "next")
    /\ UNCHANGED <<fresh, request, reply, runtimeVars, clientVars, ended>>

\* Mutant: leaves the status at PROCESS.
Handle_keeps_status(t) ==
    /\ Running(t, "handle")
    /\ LET s == tag[t] IN
        /\ executed' = [executed EXCEPT ![request[s]] = @ + 1]
        /\ reply' = [reply EXCEPT ![s] = request[s]]
        /\ To(t, "finish")
    /\ UNCHANGED <<tag, fresh, status, request, runtimeVars, call, answers, ended>>

\* The handler runs, its response becomes the reply, and the status is FINISH
\* before Finish is called.
Handle(t) ==
    /\ Running(t, "handle")
    /\ LET s == tag[t] IN
        /\ executed' = [executed EXCEPT ![request[s]] = @ + 1]
        /\ \/ /\ request[s] \in Fatal
              /\ ended' = "fatal"
              /\ UNCHANGED <<pc, status, reply>>
           \/ /\ request[s] \notin Fatal
              /\ reply' = [reply EXCEPT ![s] = request[s]]
              /\ status' = [status EXCEPT ![s] = "FINISH"]
              /\ To(t, "finish")
              /\ UNCHANGED ended
    /\ UNCHANGED <<tag, fresh, request, runtimeVars, call, answers>>

\* Mutant: deletes the CallData when Finish returns, not when its event comes.
Finish_deletes(t) ==
    /\ Running(t, "finish")
    /\ finishing' = finishing \cup {tag[t]}
    /\ status' = [status EXCEPT ![tag[t]] = "free"]
    /\ tag' = [tag EXCEPT ![t] = None]
    /\ To(t, "next")
    /\ UNCHANGED <<fresh, request, reply, listening, queue, clientVars, ended>>

\* After responder_.Finish the runtime owns the object again.
Finish(t) ==
    /\ Running(t, "finish")
    /\ finishing' = finishing \cup {tag[t]}
    /\ tag' = [tag EXCEPT ![t] = None]
    /\ To(t, "next")
    /\ UNCHANGED <<fresh, objectVars, listening, queue, clientVars, ended>>

ThreadNext(t) ==
    \/ HandleRpcs(t) \/ Requestcall(t) \/ TakeEvent(t)
    \/ ProceedProcess(t) \/ ProceedFinish(t) \/ Handle(t) \/ Finish(t)
-----------------------------------------------------------------------------
(* The clients and the gRPC runtime, as far as xrpc_service.cpp uses it *)

Send(c) ==
    /\ call[c] = "new"
    /\ call' = [call EXCEPT ![c] = "sent"]
    /\ UNCHANGED <<executed, answers, threadVars, objectVars, runtimeVars, ended>>

Cancel(c) ==
    /\ c \in Cancels /\ call[c] \in {"sent", "matched"}
    /\ call' = [call EXCEPT ![c] = "cancelled"]
    /\ UNCHANGED <<executed, answers, threadVars, objectVars, runtimeVars, ended>>

\* A call is given to a waiting CallData, whose event says ok.
Match(c) ==
    /\ ended = "no" /\ call[c] = "sent"
    /\ \E s \in listening :
        /\ listening' = listening \ {s}
        /\ request' = [request EXCEPT ![s] = c]
        /\ queue' = Append(queue, [tag |-> s, ok |-> TRUE])
    /\ call' = [call EXCEPT ![c] = "matched"]
    /\ UNCHANGED <<threadVars, status, reply, finishing, executed, answers, ended>>

\* The reply goes to the client, or ok is false because the call is dead.
Transmit(s) ==
    LET c     == request[s]
        alive == call[c] = "matched"
    IN  /\ ended = "no" /\ s \in finishing
        /\ finishing' = finishing \ {s}
        /\ queue' = Append(queue, [tag |-> s, ok |-> alive])
        /\ answers' = IF alive THEN [answers EXCEPT ![c] = Append(@, reply[s])]
                               ELSE answers
        /\ UNCHANGED <<threadVars, objectVars, listening, call, executed, ended>>

RuntimeNext ==
    \/ \E c \in Call : Send(c) \/ Cancel(c) \/ Match(c)
    \/ \E s \in Address : Transmit(s)
-----------------------------------------------------------------------------
Init ==
    /\ pc = [t \in Thread |-> "start"]
    /\ tag = [t \in Thread |-> None] /\ fresh = [t \in Thread |-> None]
    /\ status = [s \in Address |-> "free"]
    /\ request = [s \in Address |-> None] /\ reply = [s \in Address |-> None]
    /\ listening = {} /\ finishing = {} /\ queue = <<>>
    /\ call = [c \in Call |-> "new"]
    /\ executed = [c \in Call |-> 0] /\ answers = [c \in Call |-> <<>>]
    /\ ended = "no"

Next == RuntimeNext \/ \E t \in Thread : ThreadNext(t)

Spec == Init /\ [][Next]_vars

\* The scheduler runs every thread, and the runtime hands over every call and
\* transmits every reply.  Nothing makes a client send or cancel.
FairSpec ==
    /\ Spec
    /\ \A t \in Thread : WF_vars(ThreadNext(t))
    /\ \A c \in Call : WF_vars(Match(c))
    /\ \A s \in Address : WF_vars(Transmit(s))
-----------------------------------------------------------------------------
(* Properties *)

Queued == {queue[i].tag : i \in DOMAIN queue}

\* Every variable keeps to its type; a thread handles a request only in a
\* CallData that has got one, and every Proceed finds the status PROCESS or
\* FINISH (the GPR_ASSERT of xrpc_service.cpp:169).
TypeOK ==
    /\ pc \in [Thread -> {"start", "request", "next", "proceed", "handle", "finish"}]
    /\ tag \in [Thread -> Address \cup {None}]
    /\ fresh \in [Thread -> Address \cup {None}]
    /\ status \in [Address -> {"free", "PROCESS", "FINISH"}]
    /\ request \in [Address -> Call \cup {None}]
    /\ reply \in [Address -> Call \cup {None}]
    /\ listening \subseteq Address /\ finishing \subseteq Address
    /\ queue \in Seq([tag : Address, ok : BOOLEAN])
    /\ call \in [Call -> {"new", "sent", "matched", "cancelled"}]
    /\ executed \in [Call -> Nat] /\ answers \in [Call -> Seq(Call)]
    /\ ended \in {"no", "assert_ok", "fatal"}
    /\ \A t \in Thread :
        /\ pc[t] = "handle" => request[tag[t]] \in Call
        /\ pc[t] = "proceed" => status[tag[t]] \in {"PROCESS", "FINISH"}

\* How many may touch the object at s: threads, the runtime, and the takers
\* of its events.
Holders(s) ==
    Cardinality({t \in Thread : tag[t] = s \/ fresh[t] = s})
    + Cardinality({i \in DOMAIN queue : queue[i].tag = s})
    + Cardinality({s} \cap listening) + Cardinality({s} \cap finishing)

\* Exactly one of them holds a living CallData, and none a deleted one: no
\* thread uses a CallData after another one has deleted it, and none leaks
\* (xrpc_service.cpp:137-171, where Requestcall and Finish are the last uses).
SoleHolder ==
    ended = "no" =>
        \A s \in Address : Holders(s) = IF status[s] = "free" THEN 0 ELSE 1

\* A thread that is to create a CallData, or has not handed it over yet.
Owes(t) ==
    \/ pc[t] \in {"start", "request"}
    \/ pc[t] = "proceed" /\ status[tag[t]] = "PROCESS"

\* For every thread there is always one CallData that waits for a call, has
\* got one that no thread took yet, or is about to be created: however many
\* calls were served, the service never stops listening (lines 137 and 202).
ListenersConserved ==
    ended = "no" =>
        Cardinality(listening)
        + Cardinality({s \in Queued : status[s] = "PROCESS"})
        + Cardinality({t \in Thread : Owes(t)}) = Cardinality(Thread)

Promise == INSTANCE CallService

\* Each request is executed at most once and answered at most once, with the
\* reply computed for it, whichever threads take its two events.
ImplementsCallService == Promise!Spec

\* Every call that is sent is answered, provided that none is cancelled and
\* none is fatal.
EveryCallAnswered ==
    \A c \in Call : call[c] = "sent" ~> answers[c] = <<c>>

\* GPR_ASSERT(ok) at xrpc_service.cpp:212: every event that HandleRpcs takes
\* from the completion queue is ok.
EventsOk == ended # "assert_ok"
=============================================================================
