------------------------- MODULE AsyncServiceProofs -------------------------
(***************************************************************************)
(* Theorems about AsyncService, for any threads, addresses and calls: the  *)
(* types, the sole holder of each CallData, the number of listeners, and   *)
(* that the service implements CallService.                                *)
(***************************************************************************)
EXTENDS AsyncService, FiniteSetTheorems, SequenceTheorems, TLAPS

Event == [tag : Address, ok : BOOLEAN]

Tags(q) == {q[i].tag : i \in DOMAIN q}

DistinctTags(q) == \A i, j \in DOMAIN q : q[i].tag = q[j].tag => i = j

Uses(t, s) == tag[t] = s \/ fresh[t] = s

Held(s) ==
    \/ s \in Tags(queue) \/ s \in listening \/ s \in finishing
    \/ \E t \in Thread : Uses(t, s)

\* Which objects a thread has in its hands, by what it does next.
ThreadShape ==
    \A t \in Thread :
        /\ pc[t] \in {"start", "next"} => tag[t] = None
        /\ pc[t] \in {"proceed", "handle", "finish"} => tag[t] \in Address
        /\ fresh[t] \in Address <=> pc[t] = "request"
        /\ tag[t] \in Address => fresh[t] # tag[t]

\* Nobody else has what a thread, the runtime or an event has.
NoSharing ==
    /\ \A t, u \in Thread, s \in Address : Uses(t, s) /\ Uses(u, s) => t = u
    /\ \A t \in Thread, s \in Address :
        Uses(t, s) => s \notin Tags(queue) \cup listening \cup finishing
    /\ Tags(queue) \cap listening = {} /\ Tags(queue) \cap finishing = {}
    /\ listening \cap finishing = {}
    /\ DistinctTags(queue)

\* What is held lives, and what lives is held while the process runs.
HeldIsLiving ==
    \A s \in Address :
        /\ Held(s) => status[s] # "free"
        /\ ended = "no" /\ status[s] # "free" => Held(s)

\* How far an object is that a thread, the runtime or an event has.
Stage ==
    /\ \A s \in listening : status[s] = "PROCESS"
    /\ \A s \in finishing : status[s] = "FINISH"
    /\ \A s \in Tags(queue) : request[s] \in Call
    /\ \A s \in Address : status[s] = "FINISH" => request[s] \in Call
    /\ \A t \in Thread :
        /\ fresh[t] \in Address => status[fresh[t]] = "PROCESS"
        /\ tag[t] \in Address => request[tag[t]] \in Call
        /\ pc[t] \in {"request", "handle"} /\ tag[t] \in Address =>
            status[tag[t]] = "PROCESS"
        /\ pc[t] = "finish" => status[tag[t]] = "FINISH"

\* A call belongs to one object at most, is executed when that object goes on
\* to FINISH, and is answered when the runtime gives the object back.
Serving ==
    /\ \A c \in Call :
        /\ executed[c] \in {0, 1}
        /\ executed[c] = 0 => answers[c] = <<>>
        /\ call[c] \in {"new", "sent"} => executed[c] = 0
    /\ \A s \in Address : status[s] # "free" /\ request[s] \in Call =>
        /\ call[request[s]] \in {"matched", "cancelled"}
        /\ \A r \in Address : status[r] # "free" /\ request[r] = request[s] => r = s
    /\ \A s \in Address : status[s] = "FINISH" =>
        executed[request[s]] = 1 /\ reply[s] = request[s]
    /\ ended = "no" => \A s \in Address :
        status[s] = "PROCESS" /\ request[s] \in Call => executed[request[s]] = 0
    /\ \A s \in finishing : answers[request[s]] = <<>>
    /\ \A t \in Thread : pc[t] = "finish" => answers[request[tag[t]]] = <<>>

IInv ==
    /\ TypeOK /\ ThreadShape /\ NoSharing /\ HeldIsLiving /\ Stage /\ Serving
-----------------------------------------------------------------------------
(* The completion queue *)

\* Appending an event for an object that has none adds its tag
\* (Match and Transmit, the runtime's side of xrpc_service.cpp:211).
LEMMA AppendTag ==
  ASSUME NEW q \in Seq(Event), NEW s \in Address, NEW ok \in BOOLEAN,
         DistinctTags(q), s \notin Tags(q)
  PROVE  /\ Append(q, [tag |-> s, ok |-> ok]) \in Seq(Event)
         /\ Tags(Append(q, [tag |-> s, ok |-> ok])) = Tags(q) \cup {s}
         /\ DistinctTags(Append(q, [tag |-> s, ok |-> ok]))
<1> DEFINE e == [tag |-> s, ok |-> ok]
           a == Append(q, e)
<1>1. e \in Event /\ e.tag = s
  BY DEF Event
<1>2. /\ a \in Seq(Event) /\ Len(a) = Len(q) + 1 /\ Len(q) \in Nat
      /\ \A i \in 1..Len(q) : a[i] = q[i]
      /\ a[Len(q) + 1] = e
  BY <1>1, AppendProperties, LenProperties
<1>3. DOMAIN a = 1..(Len(q) + 1) /\ DOMAIN q = 1..Len(q)
  BY <1>2, LenProperties
<1> HIDE DEF a, e
<1>4. Tags(a) = Tags(q) \cup {s}
  BY <1>1, <1>2, <1>3 DEF Tags
<1>5. DistinctTags(a)
  BY <1>1, <1>2, <1>3 DEF Tags, DistinctTags
<1>6. QED
  BY <1>2, <1>4, <1>5 DEF a, e

\* Taking the first event takes away its tag and no other one
\* (xrpc_service.cpp:211-213).
LEMMA TakeTag ==
  ASSUME NEW q \in Seq(Event), q # <<>>, DistinctTags(q)
  PROVE  /\ Head(q) \in Event /\ Tail(q) \in Seq(Event)
         /\ Head(q).tag \in Tags(q)
         /\ Tags(Tail(q)) = Tags(q) \ {Head(q).tag}
         /\ DistinctTags(Tail(q))
<1>1. /\ Head(q) = q[1] /\ Head(q) \in Event /\ Tail(q) \in Seq(Event)
      /\ Len(q) \in Nat \ {0} /\ Len(Tail(q)) = Len(q) - 1
      /\ \A i \in 1..Len(Tail(q)) : Tail(q)[i] = q[i + 1]
  BY HeadTailProperties, EmptySeq
<1>2. DOMAIN q = 1..Len(q) /\ DOMAIN Tail(q) = 1..(Len(q) - 1)
  BY <1>1, LenProperties
<1>3. ASSUME NEW i \in 1..(Len(q) - 1)
      PROVE  /\ i + 1 \in DOMAIN q /\ Tail(q)[i] = q[i + 1]
             /\ Tail(q)[i].tag # Head(q).tag
  BY <1>1, <1>2 DEF DistinctTags
<1>4. ASSUME NEW j \in DOMAIN q, j # 1
      PROVE  j - 1 \in DOMAIN Tail(q) /\ Tail(q)[j - 1] = q[j]
  <2>1. j - 1 \in 1..(Len(q) - 1) /\ (j - 1) + 1 = j
    BY <1>1, <1>2, <1>4
  <2>2. Tail(q)[j - 1] = q[(j - 1) + 1]
    BY <1>1, <2>1
  <2>3. QED
    BY <1>2, <2>1, <2>2
<1>5. Tags(Tail(q)) \subseteq Tags(q) \ {Head(q).tag}
  BY <1>2, <1>3 DEF Tags
<1>6. Tags(q) \ {Head(q).tag} \subseteq Tags(Tail(q))
  BY <1>1, <1>4 DEF Tags
<1>7. DistinctTags(Tail(q))
  BY <1>1, <1>2, <1>3 DEF DistinctTags
<1>8. 1 \in DOMAIN q
  BY <1>1, <1>2
<1>9. Head(q).tag \in Tags(q)
  BY <1>1, <1>8 DEF Tags
<1>10. QED
  BY <1>1, <1>5, <1>6, <1>7, <1>9

\* The tags of events are addresses.
LEMMA TagsType == ASSUME NEW q \in Seq(Event) PROVE Tags(q) \subseteq Address
<1>1. \A i \in DOMAIN q : q[i] \in Event
  BY LenProperties, ElementOfSeq
<1>2. QED
  BY <1>1 DEF Tags, Event
-----------------------------------------------------------------------------
(* The inductive invariant *)

\* At the start there is no CallData and no call.
LEMMA InitInv == Init => IInv
<1> SUFFICES ASSUME Init PROVE IInv
  OBVIOUS
<1> USE DEF Init
<1>1. TypeOK /\ queue = <<>> /\ Tags(queue) = {} /\ DistinctTags(queue)
  BY AsyncConstants, EmptySeq DEF TypeOK, Tags, DistinctTags
<1>2. ThreadShape /\ NoSharing
  BY <1>1, AsyncConstants DEF ThreadShape, NoSharing, Uses
<1>3. HeldIsLiving /\ Stage /\ Serving
  BY <1>1, AsyncConstants DEF HeldIsLiving, Held, Stage, Serving, Uses
<1>4. QED
  BY <1>1, <1>2, <1>3 DEF IInv

\* A thread creates a CallData, at the start or before it serves a call
\* (xrpc_service.cpp:115-124, 137 and 202).
LEMMA NewCallDataKeeps ==
  ASSUME IInv, NEW t \in Thread, HandleRpcs(t) \/ ProceedProcess(t)
  PROVE  IInv'
<1> USE DEF HandleRpcs, ProceedProcess, Running, NewCallData, To, runtimeVars,
            clientVars
<1>1. PICK s \in Address :
        /\ status[s] = "free"
        /\ status'  = [status EXCEPT ![s] = "PROCESS"]
        /\ request' = [request EXCEPT ![s] = None]
        /\ reply'   = [reply EXCEPT ![s] = None]
        /\ fresh'   = [fresh EXCEPT ![t] = s]
  OBVIOUS
<1>2. /\ pc[t] \in {"start", "proceed"} /\ ended = "no"
      /\ pc[t] = "proceed" => status[tag[t]] = "PROCESS"
      /\ pc' = [pc EXCEPT ![t] = "request"]
      /\ UNCHANGED <<tag, listening, finishing, queue, call, executed, answers, ended>>
  OBVIOUS
<1>3. ~ Held(s)
  BY <1>1 DEF IInv, HeldIsLiving
<1>4. \A u \in Thread : tag[u] # s /\ (fresh[u] = s => FALSE)
  BY <1>3 DEF Held, Uses
<1> HIDE DEF HandleRpcs, ProceedProcess, NewCallData
<1>5. TypeOK'
  BY <1>1, <1>2, <1>4, AsyncConstants DEF IInv, TypeOK, ThreadShape
<1>6. ThreadShape'
  BY <1>1, <1>2, <1>4, AsyncConstants DEF IInv, TypeOK, ThreadShape
<1>7. NoSharing'
  BY <1>1, <1>2, <1>3, <1>4, AsyncConstants
     DEF IInv, TypeOK, ThreadShape, NoSharing, Held, Uses
<1>8. HeldIsLiving'
  BY <1>1, <1>2, <1>3, AsyncConstants
     DEF IInv, TypeOK, ThreadShape, HeldIsLiving, Held, Uses
<1>9. Stage'
  BY <1>1, <1>2, <1>3, AsyncConstants
     DEF IInv, TypeOK, ThreadShape, Stage, Held, Uses
<1>10. Serving'
  BY <1>1, <1>2, <1>3, <1>4, AsyncConstants
     DEF IInv, TypeOK, ThreadShape, Serving, Stage, Held
<1>11. QED
  BY <1>5, <1>6, <1>7, <1>8, <1>9, <1>10 DEF IInv

\* A thread hands its new CallData to the runtime (xrpc_service.cpp:131-132).
LEMMA RequestcallKeeps ==
  ASSUME IInv, NEW t \in Thread, Requestcall(t)
  PROVE  IInv'
<1>1. /\ pc[t] = "request" /\ ended = "no"
      /\ listening' = listening \cup {fresh[t]}
      /\ fresh' = [fresh EXCEPT ![t] = None]
      /\ pc' = [pc EXCEPT ![t] = IF tag[t] = None THEN "next" ELSE "handle"]
      /\ UNCHANGED <<tag, status, request, reply, finishing, queue, call,
                     executed, answers, ended>>
  BY DEF Requestcall, Running, To, objectVars, clientVars
<1>2. /\ fresh[t] \in Address /\ Uses(t, fresh[t]) /\ fresh[t] # None
      /\ tag[t] # fresh[t]
  BY <1>1, AsyncConstants DEF IInv, TypeOK, ThreadShape, Uses
<1>3. TypeOK'
  BY <1>1, <1>2, AsyncConstants DEF IInv, TypeOK, ThreadShape, Stage
<1>4. ThreadShape'
  BY <1>1, <1>2, AsyncConstants DEF IInv, TypeOK, ThreadShape
<1>5. NoSharing'
  BY <1>1, <1>2, AsyncConstants DEF IInv, TypeOK, ThreadShape, NoSharing, Uses
<1>6. HeldIsLiving'
  BY <1>1, <1>2, AsyncConstants DEF IInv, TypeOK, ThreadShape, HeldIsLiving, Held, Uses
<1>7. Stage'
  BY <1>1, <1>2, AsyncConstants DEF IInv, TypeOK, ThreadShape, Stage
<1>8. Serving'
  BY <1>1, <1>2, AsyncConstants DEF IInv, TypeOK, Serving
<1>9. QED
  BY <1>3, <1>4, <1>5, <1>6, <1>7, <1>8 DEF IInv
\* A thread takes an event, or the assertion on it ends the process
\* (xrpc_service.cpp:211-213).
LEMMA TakeEventKeeps ==
  ASSUME IInv, NEW t \in Thread, TakeEvent(t)
  PROVE  IInv'
<1> DEFINE s == Head(queue).tag
<1>1. /\ pc[t] = "next" /\ ended = "no" /\ queue # <<>> /\ queue' = Tail(queue)
      /\ \/ /\ tag' = [tag EXCEPT ![t] = s]
            /\ pc' = [pc EXCEPT ![t] = "proceed"]
            /\ ended' = ended
         \/ /\ ended' = "assert_ok" /\ pc' = pc /\ tag' = tag
      /\ UNCHANGED <<fresh, status, request, reply, listening, finishing, call,
                     executed, answers>>
  BY DEF TakeEvent, Running, To, objectVars, clientVars
<1>2. queue \in Seq(Event) /\ DistinctTags(queue)
  BY DEF IInv, TypeOK, NoSharing, Event
<1>3. /\ s \in Tags(queue) /\ s \in Address /\ Tags(queue)' = Tags(queue) \ {s}
      /\ queue' \in Seq(Event) /\ DistinctTags(queue')
  BY <1>1, <1>2, TakeTag DEF Event
<1> HIDE DEF s
<1>4. /\ Held(s) /\ status[s] \in {"PROCESS", "FINISH"} /\ request[s] \in Call
      /\ tag[t] = None /\ fresh[t] = None
      /\ \A u \in Thread : ~ Uses(u, s)
      /\ s \notin listening \cup finishing
  BY <1>1, <1>3, AsyncConstants
     DEF IInv, Held, HeldIsLiving, NoSharing, Stage, TypeOK, ThreadShape, Uses
<1>5. queue' \in Seq([tag : Address, ok : BOOLEAN])
  BY <1>3 DEF Event
<1>6. CASE ended' = "assert_ok" /\ pc' = pc /\ tag' = tag
  <2>1. TypeOK'
    BY <1>1, <1>5, <1>6 DEF IInv, TypeOK
  <2>2. ThreadShape'
    BY <1>1, <1>6 DEF IInv, ThreadShape
  <2>3. NoSharing'
    BY <1>1, <1>3, <1>6 DEF IInv, NoSharing, Uses
  <2>4. HeldIsLiving'
    BY <1>1, <1>3, <1>6 DEF IInv, HeldIsLiving, Held, Uses
  <2>5. Stage'
    BY <1>1, <1>3, <1>6 DEF IInv, Stage
  <2>6. Serving'
    BY <1>1, <1>6 DEF IInv, Serving
  <2>7. QED
    BY <2>1, <2>2, <2>3, <2>4, <2>5, <2>6 DEF IInv
<1>7. CASE /\ tag' = [tag EXCEPT ![t] = s]
           /\ pc' = [pc EXCEPT ![t] = "proceed"]
           /\ ended' = ended
  <2>1. /\ tag'[t] = s /\ pc'[t] = "proceed" /\ s # None
        /\ \A u \in Thread : u # t => tag'[u] = tag[u] /\ pc'[u] = pc[u]
    BY <1>3, <1>7, AsyncConstants DEF IInv, TypeOK
  <2>2. TypeOK'
    BY <1>1, <1>3, <1>4, <1>5, <1>7, <2>1 DEF IInv, TypeOK
  <2>3. ThreadShape'
    BY <1>1, <1>3, <1>4, <2>1, AsyncConstants DEF IInv, ThreadShape
  <2>4. NoSharing'
    BY <1>1, <1>3, <1>4, <1>7, <2>1, AsyncConstants DEF IInv, NoSharing, Uses
  <2>5. HeldIsLiving'
    BY <1>1, <1>3, <1>4, <1>7, <2>1, AsyncConstants DEF IInv, HeldIsLiving, Held, Uses
  <2>6. Stage'
    BY <1>1, <1>3, <1>4, <2>1, AsyncConstants DEF IInv, Stage
  <2>7. Serving'
    BY <1>1, <1>7, <2>1 DEF IInv, Serving
  <2>8. QED
    BY <2>2, <2>3, <2>4, <2>5, <2>6, <2>7 DEF IInv
<1>8. QED
  BY <1>1, <1>6, <1>7

\* A CallData that has finished deletes itself (xrpc_service.cpp:168-171).
LEMMA ProceedFinishKeeps ==
  ASSUME IInv, NEW t \in Thread, ProceedFinish(t)
  PROVE  IInv'
<1>1. /\ pc[t] = "proceed" /\ ended = "no" /\ status[tag[t]] = "FINISH"
      /\ status' = [status EXCEPT ![tag[t]] = "free"]
      /\ tag' = [tag EXCEPT ![t] = None]
      /\ pc' = [pc EXCEPT ![t] = "next"]
      /\ UNCHANGED <<fresh, request, reply, listening, finishing, queue, call,
                     executed, answers, ended>>
  BY DEF ProceedFinish, Running, To, runtimeVars, clientVars
<1>2. /\ tag[t] \in Address /\ Uses(t, tag[t]) /\ tag[t] # None /\ fresh[t] = None
      /\ tag[t] \notin Tags(queue) \cup listening \cup finishing
      /\ \A u \in Thread : Uses(u, tag[t]) => u = t
  BY <1>1, AsyncConstants DEF IInv, TypeOK, ThreadShape, NoSharing, Uses
<1>3. TypeOK'
  BY <1>1, <1>2, AsyncConstants DEF IInv, TypeOK, ThreadShape, Uses
<1>4. ThreadShape'
  BY <1>1, <1>2, AsyncConstants DEF IInv, TypeOK, ThreadShape
<1>5. NoSharing'
  BY <1>1, <1>2, AsyncConstants DEF IInv, TypeOK, NoSharing, Uses
<1>6. HeldIsLiving'
  BY <1>1, <1>2, AsyncConstants DEF IInv, TypeOK, HeldIsLiving, Held, Uses
<1>7. Stage'
  BY <1>1, <1>2, AsyncConstants DEF IInv, TypeOK, ThreadShape, Stage, Uses
<1>8. Serving'
  BY <1>1, <1>2, AsyncConstants DEF IInv, TypeOK, ThreadShape, Serving, Uses
<1>9. QED
  BY <1>3, <1>4, <1>5, <1>6, <1>7, <1>8 DEF IInv

\* A thread serves the call of its CallData, which ends the process or gives
\* the reply (xrpc_service.cpp:144-166).
LEMMA HandleKeeps ==
  ASSUME IInv, NEW t \in Thread, Handle(t)
  PROVE  IInv'
<1> DEFINE s == tag[t]
<1>1. /\ pc[t] = "handle" /\ ended = "no"
      /\ executed' = [executed EXCEPT ![request[s]] = @ + 1]
      /\ \/ /\ ended' = "fatal" /\ UNCHANGED <<pc, status, reply>>
         \/ /\ reply' = [reply EXCEPT ![s] = request[s]]
            /\ status' = [status EXCEPT ![s] = "FINISH"]
            /\ pc' = [pc EXCEPT ![t] = "finish"]
            /\ UNCHANGED ended
      /\ UNCHANGED <<tag, fresh, request, listening, finishing, queue, call, answers>>
  BY DEF Handle, Running, To, runtimeVars
<1>2. /\ s \in Address /\ Uses(t, s) /\ fresh[t] # s /\ s # None
      /\ status[s] = "PROCESS" /\ request[s] \in Call
      /\ s \notin Tags(queue) \cup listening \cup finishing
      /\ \A u \in Thread : Uses(u, s) => u = t
  BY <1>1, AsyncConstants DEF IInv, TypeOK, ThreadShape, NoSharing, Stage, Uses
<1>3. /\ executed[request[s]] = 0 /\ answers[request[s]] = <<>>
      /\ call[request[s]] \in {"matched", "cancelled"}
      /\ \A r \in Address : status[r] # "free" /\ request[r] = request[s] => r = s
  BY <1>1, <1>2 DEF IInv, Serving
<1> HIDE DEF s
<1>4. TypeOK'
  <2>1. executed' \in [Call -> Nat]
    BY <1>1, <1>2 DEF IInv, TypeOK
  <2>2. \A u \in Thread :
          /\ pc'[u] = "handle" => request[tag[u]] \in Call
          /\ pc'[u] = "proceed" => status'[tag[u]] \in {"PROCESS", "FINISH"}
    BY <1>1, <1>2 DEF IInv, TypeOK, ThreadShape, Uses, s
  <2>3. QED
    BY <1>1, <1>2, <2>1, <2>2 DEF IInv, TypeOK
<1>5. ThreadShape'
  BY <1>1, <1>2, AsyncConstants DEF IInv, TypeOK, ThreadShape, s
<1>6. NoSharing'
  BY <1>1, <1>2, AsyncConstants DEF IInv, TypeOK, NoSharing, Uses
<1>7. HeldIsLiving'
  BY <1>1, <1>2, AsyncConstants DEF IInv, TypeOK, HeldIsLiving, Held, Uses
<1>8. Stage'
  BY <1>1, <1>2, AsyncConstants DEF IInv, TypeOK, ThreadShape, Stage, Uses, s
<1>9. Serving'
  <2> DEFINE c == request[s]
  <2>1. executed' = [executed EXCEPT ![c] = 1] /\ c \in Call /\ executed[c] = 0
    BY <1>1, <1>2, <1>3
  <2>2. \A d \in Call : executed'[d] = IF d = c THEN 1 ELSE executed[d]
    BY <2>1 DEF IInv, TypeOK
  <2>3. \A r \in Address : /\ r # s => status'[r] = status[r] /\ reply'[r] = reply[r]
                           /\ status[r] # "free" /\ request[r] = c => r = s
                           /\ status'[r] # "free" => status[r] # "free"
    BY <1>1, <1>2, <1>3 DEF IInv, TypeOK
  <2>4. /\ UNCHANGED <<request, finishing, answers, call>>
        /\ status'[s] = "FINISH" => reply'[s] = c
        /\ ended' = "no" => status'[s] = "FINISH"
    BY <1>1, <1>2 DEF IInv, TypeOK
  <2>5. \A d \in Call :
          /\ executed'[d] \in {0, 1}
          /\ executed'[d] = 0 => answers'[d] = <<>>
          /\ call'[d] \in {"new", "sent"} => executed'[d] = 0
    BY <1>3, <2>1, <2>2, <2>4 DEF IInv, Serving
  <2>6. \A r \in Address : status'[r] # "free" /\ request'[r] \in Call =>
          /\ call'[request'[r]] \in {"matched", "cancelled"}
          /\ \A q \in Address : status'[q] # "free" /\ request'[q] = request'[r] => q = r
    BY <2>3, <2>4 DEF IInv, Serving
  <2>7. \A r \in Address : status'[r] = "FINISH" =>
          executed'[request'[r]] = 1 /\ reply'[r] = request'[r]
    BY <1>2, <2>1, <2>2, <2>3, <2>4 DEF IInv, Serving, Stage
  <2>8. ended' = "no" => \A r \in Address :
          status'[r] = "PROCESS" /\ request'[r] \in Call => executed'[request'[r]] = 0
    BY <1>1, <1>2, <2>2, <2>3, <2>4 DEF IInv, Serving
  <2>9. \A r \in finishing' : answers'[request'[r]] = <<>>
    BY <2>4 DEF IInv, Serving
  <2>10. \A u \in Thread : pc'[u] = "finish" => answers'[request'[tag'[u]]] = <<>>
    BY <1>1, <1>2, <1>3 DEF IInv, TypeOK, Serving, s
  <2>11. QED
    BY <2>5, <2>6, <2>7, <2>8, <2>9, <2>10 DEF Serving
<1>10. QED
  BY <1>4, <1>5, <1>6, <1>7, <1>8, <1>9 DEF IInv

\* A thread hands its CallData to the runtime with the reply
\* (xrpc_service.cpp:167).
LEMMA FinishKeeps ==
  ASSUME IInv, NEW t \in Thread, Finish(t)
  PROVE  IInv'
<1>1. /\ pc[t] = "finish" /\ ended = "no"
      /\ finishing' = finishing \cup {tag[t]}
      /\ tag' = [tag EXCEPT ![t] = None]
      /\ pc' = [pc EXCEPT ![t] = "next"]
      /\ UNCHANGED <<fresh, status, request, reply, listening, queue, call,
                     executed, answers, ended>>
  BY DEF Finish, Running, To, objectVars, clientVars
<1>2. /\ tag[t] \in Address /\ Uses(t, tag[t]) /\ tag[t] # None /\ fresh[t] = None
      /\ tag[t] \notin Tags(queue) \cup listening \cup finishing
      /\ \A u \in Thread : Uses(u, tag[t]) => u = t
  BY <1>1, AsyncConstants DEF IInv, TypeOK, ThreadShape, NoSharing, Uses
<1>3. TypeOK'
  BY <1>1, <1>2, AsyncConstants DEF IInv, TypeOK
<1>4. ThreadShape'
  BY <1>1, <1>2, AsyncConstants DEF IInv, TypeOK, ThreadShape
<1>5. NoSharing'
  BY <1>1, <1>2, AsyncConstants DEF IInv, TypeOK, NoSharing, Uses
<1>6. HeldIsLiving'
  BY <1>1, <1>2, AsyncConstants DEF IInv, TypeOK, HeldIsLiving, Held, Uses
<1>7. Stage'
  BY <1>1, <1>2, AsyncConstants DEF IInv, TypeOK, Stage
<1>8. Serving'
  BY <1>1, <1>2, AsyncConstants DEF IInv, TypeOK, Serving
<1>9. QED
  BY <1>3, <1>4, <1>5, <1>6, <1>7, <1>8 DEF IInv
\* The clients change nothing but their calls.
LEMMA ClientKeeps ==
  ASSUME IInv, NEW c \in Call, Send(c) \/ Cancel(c)
  PROVE  IInv'
<1>1. /\ \/ call[c] = "new" /\ call' = [call EXCEPT ![c] = "sent"]
         \/ call[c] \in {"sent", "matched"} /\ call' = [call EXCEPT ![c] = "cancelled"]
      /\ UNCHANGED <<pc, tag, fresh, status, request, reply, listening, finishing,
                     queue, executed, answers, ended>>
  BY DEF Send, Cancel, threadVars, objectVars, runtimeVars
<1>2. TypeOK'
  BY <1>1 DEF IInv, TypeOK
<1>3. ThreadShape' /\ NoSharing' /\ HeldIsLiving' /\ Stage'
  BY <1>1 DEF IInv, ThreadShape, NoSharing, HeldIsLiving, Held, Stage, Uses
<1>4. \A d \in Call :
        /\ call[d] \in {"matched", "cancelled"} => call'[d] \in {"matched", "cancelled"}
        /\ call'[d] \in {"new", "sent"} => call[d] \in {"new", "sent"}
  BY <1>1 DEF IInv, TypeOK
<1>5. Serving'
  BY <1>1, <1>4 DEF IInv, Serving
<1>6. QED
  BY <1>2, <1>3, <1>5 DEF IInv

\* The runtime gives a call to a CallData that waits, which is nobody else's
\* (xrpc_service.cpp:131-132).
LEMMA MatchKeeps ==
  ASSUME IInv, NEW c \in Call, Match(c)
  PROVE  IInv'
<1>1. PICK s \in listening :
        /\ listening' = listening \ {s}
        /\ request' = [request EXCEPT ![s] = c]
        /\ queue' = Append(queue, [tag |-> s, ok |-> TRUE])
  BY DEF Match
<1>2. /\ ended = "no" /\ call[c] = "sent" /\ call' = [call EXCEPT ![c] = "matched"]
      /\ UNCHANGED <<pc, tag, fresh, status, reply, finishing, executed, answers,
                     ended>>
  BY DEF Match, threadVars
<1>3. /\ s \in Address /\ s \notin Tags(queue) /\ s \notin finishing
      /\ status[s] = "PROCESS"
      /\ \A t \in Thread : ~ Uses(t, s)
  BY DEF IInv, TypeOK, NoSharing, Stage
<1>4. queue \in Seq(Event) /\ DistinctTags(queue)
  BY DEF IInv, TypeOK, NoSharing, Event
<1>5. /\ queue' \in Seq(Event) /\ DistinctTags(queue')
      /\ Tags(queue)' = Tags(queue) \cup {s}
  BY <1>1, <1>3, <1>4, AppendTag
<1>6. /\ executed[c] = 0 /\ answers[c] = <<>>
      /\ \A r \in Address : status[r] # "free" => request[r] # c
  BY <1>2 DEF IInv, Serving
<1>7. /\ request'[s] = c
      /\ \A r \in Address : r # s => request'[r] = request[r]
      /\ call'[c] = "matched" /\ \A d \in Call : d # c => call'[d] = call[d]
  BY <1>1, <1>2, <1>3 DEF IInv, TypeOK
<1>8. TypeOK'
  <2>1. queue' \in Seq([tag : Address, ok : BOOLEAN])
    BY <1>5 DEF Event
  <2>2. \A t \in Thread : tag[t] # s
    BY <1>3 DEF Uses
  <2>3. QED
    BY <1>1, <1>2, <1>3, <2>1, <2>2 DEF IInv, TypeOK, ThreadShape
<1>9. ThreadShape'
  BY <1>2 DEF IInv, ThreadShape
<1>10. NoSharing'
  BY <1>1, <1>2, <1>3, <1>5 DEF IInv, NoSharing, Uses
<1>11. HeldIsLiving'
  BY <1>1, <1>2, <1>3, <1>5 DEF IInv, HeldIsLiving, Held, Uses
<1>12. \A t \in Thread : tag[t] # s /\ fresh[t] # s
  BY <1>3 DEF Uses
<1>13. Stage'
  <2>1. \A r \in Tags(queue)' : request'[r] \in Call
    BY <1>5, <1>7, TagsType DEF IInv, TypeOK, Stage, Event
  <2>2. \A t \in Thread : tag[t] \in Address => request'[tag[t]] = request[tag[t]]
    BY <1>7, <1>12
  <2>3. \A r \in Address : status'[r] = "FINISH" => request'[r] \in Call
    BY <1>2, <1>3, <1>7 DEF IInv, Stage
  <2>4. \A t \in Thread :
          /\ fresh'[t] \in Address => status'[fresh'[t]] = "PROCESS"
          /\ tag'[t] \in Address => request'[tag'[t]] \in Call
          /\ pc'[t] \in {"request", "handle"} /\ tag'[t] \in Address =>
              status'[tag'[t]] = "PROCESS"
          /\ pc'[t] = "finish" => status'[tag'[t]] = "FINISH"
    BY <1>2, <2>2 DEF IInv, Stage
  <2>5. QED
    BY <1>1, <1>2, <2>1, <2>3, <2>4 DEF IInv, Stage
<1>14. Serving'
  <2>1. \A d \in Call :
          /\ executed[d] \in {0, 1}
          /\ executed[d] = 0 => answers[d] = <<>>
          /\ call'[d] \in {"new", "sent"} => executed[d] = 0
    BY <1>7 DEF IInv, Serving
  <2>2. \A r \in Address : status[r] # "free" /\ request'[r] \in Call =>
          /\ call'[request'[r]] \in {"matched", "cancelled"}
          /\ \A q \in Address : status[q] # "free" /\ request'[q] = request'[r] => q = r
    BY <1>3, <1>6, <1>7 DEF IInv, Serving
  <2>3. \A r \in Address : status[r] = "FINISH" =>
          executed[request'[r]] = 1 /\ reply[r] = request'[r]
    BY <1>3, <1>7 DEF IInv, Serving
  <2>4. \A r \in Address :
          status[r] = "PROCESS" /\ request'[r] \in Call => executed[request'[r]] = 0
    BY <1>2, <1>6, <1>7 DEF IInv, Serving
  <2>5. \A r \in finishing : answers[request'[r]] = <<>>
    <3>1. \A r \in finishing : request'[r] = request[r]
      BY <1>3, <1>7 DEF IInv, TypeOK
    <3>2. QED
      BY <3>1 DEF IInv, Serving
  <2>6. \A t \in Thread : pc[t] = "finish" => answers[request'[tag[t]]] = <<>>
    BY <1>7, <1>12 DEF IInv, ThreadShape, Serving
  <2>7. QED
    BY <1>2, <2>1, <2>2, <2>3, <2>4, <2>5, <2>6 DEF Serving
<1>15. QED
  BY <1>8, <1>9, <1>10, <1>11, <1>13, <1>14 DEF IInv

\* The runtime sends a reply, or not, and gives the CallData back
\* (xrpc_service.cpp:167).
LEMMA TransmitKeeps ==
  ASSUME IInv, NEW s \in Address, Transmit(s)
  PROVE  IInv'
<1> DEFINE c == request[s]
<1>1. /\ ended = "no" /\ s \in finishing /\ finishing' = finishing \ {s}
      /\ queue' = Append(queue, [tag |-> s, ok |-> call[c] = "matched"])
      /\ answers' = IF call[c] = "matched" THEN [answers EXCEPT ![c] = Append(@, reply[s])]
                                           ELSE answers
      /\ UNCHANGED <<pc, tag, fresh, status, request, reply, listening, call,
                     executed, ended>>
  BY DEF Transmit, threadVars, objectVars
<1>2. /\ s \notin Tags(queue) /\ s \notin listening /\ status[s] = "FINISH"
      /\ c \in Call /\ executed[c] = 1 /\ reply[s] = c /\ answers[c] = <<>>
      /\ \A r \in Address : status[r] # "free" /\ request[r] = c => r = s
      /\ \A t \in Thread : ~ Uses(t, s)
  BY <1>1 DEF IInv, TypeOK, NoSharing, Stage, Serving
<1>3. queue \in Seq(Event) /\ DistinctTags(queue)
  BY DEF IInv, TypeOK, NoSharing, Event
<1>4. /\ queue' \in Seq(Event) /\ DistinctTags(queue')
      /\ Tags(queue)' = Tags(queue) \cup {s}
  BY <1>1, <1>2, <1>3, AppendTag
<1>5. answers' = answers \/ answers' = [answers EXCEPT ![c] = <<c>>]
  BY <1>1, <1>2
<1> HIDE DEF c
<1>6. TypeOK'
  <2>1. queue' \in Seq([tag : Address, ok : BOOLEAN])
    BY <1>4 DEF Event
  <2>2. <<c>> \in Seq(Call)
    BY <1>2
  <2>3. QED
    BY <1>1, <1>2, <1>5, <2>1, <2>2 DEF IInv, TypeOK
<1>7. ThreadShape'
  BY <1>1 DEF IInv, ThreadShape
<1>8. NoSharing'
  BY <1>1, <1>2, <1>4 DEF IInv, NoSharing, Uses
<1>9. HeldIsLiving'
  BY <1>1, <1>2, <1>4 DEF IInv, HeldIsLiving, Held, Uses
<1>10. Stage'
  BY <1>1, <1>2, <1>4 DEF IInv, Stage, c
<1>11. Serving'
  <2>1. \A d \in Call : d # c => answers'[d] = answers[d]
    BY <1>5 DEF IInv, TypeOK
  <2>2. \A r \in finishing' : request[r] \in Call /\ request[r] # c
    BY <1>1, <1>2 DEF IInv, TypeOK, Stage
  <2>3. \A t \in Thread : pc[t] = "finish" =>
          request[tag[t]] \in Call /\ request[tag[t]] # c
    BY <1>2 DEF IInv, ThreadShape, Stage, Uses
  <2>4. QED
    BY <1>1, <1>2, <2>1, <2>2, <2>3 DEF IInv, Serving
<1>12. QED
  BY <1>6, <1>7, <1>8, <1>9, <1>10, <1>11 DEF IInv

\* Every step of the service keeps the invariant.
LEMMA NextInv == IInv /\ [Next]_vars => IInv'
<1> SUFFICES ASSUME IInv, [Next]_vars PROVE IInv'
  OBVIOUS
<1>1. ASSUME NEW t \in Thread, ThreadNext(t) PROVE IInv'
  BY <1>1, NewCallDataKeeps, RequestcallKeeps, TakeEventKeeps, ProceedFinishKeeps,
     HandleKeeps, FinishKeeps DEF ThreadNext
<1>2. CASE RuntimeNext
  BY <1>2, ClientKeeps, MatchKeeps, TransmitKeeps DEF RuntimeNext
<1>3. CASE UNCHANGED vars
  <2>1. UNCHANGED <<pc, tag, fresh, status, request, reply, listening, finishing,
                    queue, call, executed, answers, ended>>
    BY <1>3 DEF vars, threadVars, objectVars, runtimeVars, clientVars
  <2>2. QED
    BY <2>1 DEF IInv, TypeOK, ThreadShape, NoSharing, HeldIsLiving, Held, Stage,
                Serving, Uses
<1>4. QED
  BY <1>1, <1>2, <1>3 DEF Next

LEMMA InvHolds == Spec => []IInv
  BY InitInv, NextInv, PTL DEF Spec

\* Whatever threads, clients and runtime do, no thread serves a CallData without
\* a request, and every Proceed finds the status PROCESS or FINISH, so that the
\* assertion of xrpc_service.cpp:169 never fails.
THEOREM TypeCorrect == Spec => []TypeOK
<1>1. IInv => TypeOK
  BY DEF IInv
<1>2. QED
  BY InvHolds, <1>1, PTL-----------------------------------------------------------------------------
(* Holders *)

\* A set without two different elements has at most one.
LEMMA AtMostOne ==
  ASSUME NEW S, \A x, y \in S : x = y
  PROVE  Cardinality(S) = IF S = {} THEN 0 ELSE 1
<1>1. CASE S = {}
  BY <1>1, FS_EmptySet
<1>2. CASE S # {}
  <2>1. PICK x \in S : S = {x}
    BY <1>2
  <2>2. QED
    BY <1>2, <2>1, FS_Singleton
<1>3. QED
  BY <1>1, <1>2

\* However threads, clients and runtime interleave, every living CallData has
\* exactly one holder and a deleted one has none (xrpc_service.cpp:121-172).
THEOREM SoleHolderHolds == Spec => []SoleHolder
<1>1. IInv => SoleHolder
  <2> SUFFICES ASSUME IInv, ended = "no", NEW s \in Address
               PROVE  Holders(s) = IF status[s] = "free" THEN 0 ELSE 1
    BY DEF SoleHolder
  <2> DEFINE users  == {t \in Thread : tag[t] = s \/ fresh[t] = s}
             events == {i \in DOMAIN queue : queue[i].tag = s}
  <2>1. /\ Cardinality(users) = IF users = {} THEN 0 ELSE 1
        /\ users # {} <=> \E t \in Thread : Uses(t, s)
    <3>1. \A t, u \in users : t = u
      BY DEF IInv, NoSharing, Uses
    <3>2. QED
      BY <3>1, AtMostOne DEF Uses
  <2>2. /\ Cardinality(events) = IF events = {} THEN 0 ELSE 1
        /\ events # {} <=> s \in Tags(queue)
    <3>1. \A i, j \in events : i = j
      BY DEF IInv, NoSharing, DistinctTags
    <3>2. QED
      BY <3>1, AtMostOne DEF Tags
  <2>3. Cardinality({s} \cap listening) = IF s \in listening THEN 1 ELSE 0
    <3>1. \A x, y \in {s} \cap listening : x = y
      OBVIOUS
    <3>2. QED
      BY <3>1, AtMostOne
  <2>4. Cardinality({s} \cap finishing) = IF s \in finishing THEN 1 ELSE 0
    <3>1. \A x, y \in {s} \cap finishing : x = y
      OBVIOUS
    <3>2. QED
      BY <3>1, AtMostOne
  <2>5. Holders(s) = Cardinality(users) + Cardinality(events)
                     + Cardinality({s} \cap listening) + Cardinality({s} \cap finishing)
    BY DEF Holders
  <2> HIDE DEF users, events
  <2>6. Held(s) <=> status[s] # "free"
    BY DEF IInv, HeldIsLiving
  <2>7. /\ users # {} => events = {} /\ s \notin listening /\ s \notin finishing
        /\ events # {} => s \notin listening /\ s \notin finishing
        /\ s \in listening => s \notin finishing
    BY <2>1, <2>2 DEF IInv, NoSharing
  <2>8. Held(s) <=> users # {} \/ events # {} \/ s \in listening \/ s \in finishing
    BY <2>1, <2>2 DEF Held
  <2>9. QED
    BY <2>1, <2>2, <2>3, <2>4, <2>5, <2>6, <2>7, <2>8
<1>2. QED
  BY InvHolds, <1>1, PTL
-----------------------------------------------------------------------------
(* Listeners *)

Waiting == {s \in Tags(queue) : status[s] = "PROCESS"}

Owing == {t \in Thread : Owes(t)}

\* ListenersConserved in terms of the sets that the steps change.
LEMMA ListenersByName ==
  ListenersConserved <=>
    (ended = "no" => Cardinality(listening) + Cardinality(Waiting)
                     + Cardinality(Owing) = Cardinality(Thread))
  BY DEF ListenersConserved, Queued, Tags, Waiting, Owing

\* The sets that are counted are finite.
LEMMA CountedAreFinite ==
  ASSUME IInv
  PROVE  /\ IsFiniteSet(listening) /\ IsFiniteSet(Waiting) /\ IsFiniteSet(Owing)
         /\ Cardinality(listening) \in Nat /\ Cardinality(Waiting) \in Nat
         /\ Cardinality(Owing) \in Nat /\ Cardinality(Thread) \in Nat
<1>1. listening \in SUBSET Address /\ Waiting \in SUBSET Address
      /\ Owing \in SUBSET Thread
  <2>1. Tags(queue) \subseteq Address
    BY TagsType DEF IInv, TypeOK, Event
  <2>2. QED
    BY <2>1 DEF IInv, TypeOK, Waiting, Owing
<1>2. IsFiniteSet(listening) /\ IsFiniteSet(Waiting) /\ IsFiniteSet(Owing)
  BY <1>1, AsyncConstants, FS_Subset
<1>3. QED
  BY <1>2, AsyncConstants, FS_CardinalityType

\* Nothing of what is counted changes.
CountedUnchanged ==
    UNCHANGED <<ended, listening>> /\ Waiting' = Waiting /\ Owing' = Owing

\* A new CallData is owed both before and after it is created.
LEMMA NewCallDataCounted ==
  ASSUME IInv, NEW t \in Thread, HandleRpcs(t) \/ ProceedProcess(t)
  PROVE  CountedUnchanged
<1>1. PICK s \in Address :
        /\ status[s] = "free"
        /\ status'  = [status EXCEPT ![s] = "PROCESS"]
  BY DEF HandleRpcs, ProceedProcess, NewCallData
<1>2. /\ pc[t] = "start" \/ (pc[t] = "proceed" /\ status[tag[t]] = "PROCESS")
      /\ pc' = [pc EXCEPT ![t] = "request"]
      /\ UNCHANGED <<tag, queue, listening, ended>>
  <2>1. CASE HandleRpcs(t)
    <3>1. pc[t] = "start" /\ NewCallData(t)
      BY <2>1 DEF HandleRpcs, Running
    <3>2. QED
      BY <3>1 DEF NewCallData, To, runtimeVars
  <2>2. CASE ProceedProcess(t)
    BY <2>2 DEF ProceedProcess, Running, NewCallData, To, runtimeVars
  <2>3. QED
    BY <2>1, <2>2
<1>3. s \notin Tags(queue) /\ \A u \in Thread : tag[u] # s
  BY <1>1 DEF IInv, HeldIsLiving, Held, Uses
<1>4. \A r \in Address : r # s => status'[r] = status[r]
  BY <1>1 DEF IInv, TypeOK
<1>5. Waiting' = Waiting
  BY <1>2, <1>3, <1>4, TagsType DEF IInv, TypeOK, Event, Waiting
<1>6. ASSUME NEW u \in Thread PROVE Owes(u)' <=> Owes(u)
  <2>1. CASE u = t
    BY <1>2, <2>1 DEF IInv, TypeOK, Owes
  <2>2. CASE u # t
    <3>1. pc'[u] = pc[u]
      BY <1>2, <2>2 DEF IInv, TypeOK
    <3>2. pc[u] = "proceed" => status'[tag[u]] = status[tag[u]]
      BY <1>3, <1>4 DEF IInv, ThreadShape
    <3>3. QED
      BY <1>2, <3>1, <3>2 DEF Owes
  <2>3. QED
    BY <2>1, <2>2
<1>7. QED
  BY <1>2, <1>5, <1>6 DEF Owing, CountedUnchanged

\* Requestcall turns a debt into a listener.
LEMMA RequestcallCounted ==
  ASSUME IInv, NEW t \in Thread, Requestcall(t)
  PROVE  /\ fresh[t] \notin listening /\ listening' = listening \cup {fresh[t]}
         /\ t \in Owing /\ Owing' = Owing \ {t}
         /\ Waiting' = Waiting /\ UNCHANGED ended
<1>1. /\ pc[t] = "request" /\ listening' = listening \cup {fresh[t]}
      /\ pc' = [pc EXCEPT ![t] = IF tag[t] = None THEN "next" ELSE "handle"]
      /\ UNCHANGED <<tag, status, queue, ended>>
  BY DEF Requestcall, Running, To, objectVars
<1>2. fresh[t] \notin listening
  BY <1>1 DEF IInv, TypeOK, ThreadShape, NoSharing, Uses
<1>3. pc'[t] \in {"next", "handle"} /\ \A u \in Thread : u # t => pc'[u] = pc[u]
  BY <1>1 DEF IInv, TypeOK
<1>4. Owing' = Owing \ {t} /\ t \in Owing /\ Waiting' = Waiting
  BY <1>1, <1>3 DEF Owing, Owes, Waiting
<1>5. QED
  BY <1>1, <1>2, <1>4

\* Whoever takes the event of a call owes a listener; an event of a Finish
\* counts for nothing.
LEMMA TakeEventCounted ==
  ASSUME IInv, NEW t \in Thread, TakeEvent(t), ended' = "no"
  PROVE  /\ ended = "no" /\ UNCHANGED listening
         /\ \/ Waiting' = Waiting /\ Owing' = Owing
            \/ /\ t \notin Owing /\ Owing' = Owing \cup {t}
               /\ Head(queue).tag \in Waiting
               /\ Waiting' = Waiting \ {Head(queue).tag}
<1> DEFINE s == Head(queue).tag
<1>1. /\ pc[t] = "next" /\ ended = "no" /\ queue # <<>> /\ queue' = Tail(queue)
      /\ tag' = [tag EXCEPT ![t] = s] /\ pc' = [pc EXCEPT ![t] = "proceed"]
      /\ UNCHANGED <<status, listening>>
  BY DEF TakeEvent, Running, To, objectVars
<1>2. queue \in Seq(Event) /\ DistinctTags(queue)
  BY DEF IInv, TypeOK, NoSharing, Event
<1>3. s \in Tags(queue) /\ Tags(queue)' = Tags(queue) \ {s}
  BY <1>1, <1>2, TakeTag
<1> HIDE DEF s
<1>4. /\ pc'[t] = "proceed" /\ tag'[t] = s
      /\ \A u \in Thread : u # t => pc'[u] = pc[u] /\ tag'[u] = tag[u]
  BY <1>1 DEF IInv, TypeOK
<1>5. t \notin Owing
  BY <1>1 DEF Owing, Owes
<1>6. CASE status[s] = "PROCESS"
  <2>1. Owing' = Owing \cup {t}
    BY <1>1, <1>4, <1>6 DEF Owing, Owes
  <2>2. s \in Waiting /\ Waiting' = Waiting \ {s}
    BY <1>1, <1>3, <1>6 DEF Waiting
  <2>3. QED
    BY <1>1, <1>5, <2>1, <2>2 DEF s
<1>7. CASE status[s] # "PROCESS"
  <2>1. Owing' = Owing
    BY <1>1, <1>4, <1>5, <1>7 DEF Owing, Owes
  <2>2. Waiting' = Waiting
    BY <1>1, <1>3, <1>7 DEF Waiting
  <2>3. QED
    BY <1>1, <2>1, <2>2
<1>8. QED
  BY <1>6, <1>7

\* Neither serving a call nor what follows it is counted.
LEMMA ServingCounted ==
  ASSUME IInv, NEW t \in Thread, ProceedFinish(t) \/ Handle(t) \/ Finish(t),
         ended' = "no"
  PROVE  CountedUnchanged
<1>1. ended = "no" /\ UNCHANGED <<ended, listening, queue>>
  BY DEF ProceedFinish, Handle, Finish, Running, To, runtimeVars, objectVars
<1>2. /\ \/ pc[t] = "proceed" /\ status[tag[t]] = "FINISH"
         \/ pc[t] = "handle" \/ pc[t] = "finish"
      /\ \E p \in {"next", "finish"} : pc' = [pc EXCEPT ![t] = p]
      /\ tag' = tag \/ tag' = [tag EXCEPT ![t] = None]
      /\ status' = status \/ \E v \in {"free", "FINISH"} :
                                status' = [status EXCEPT ![tag[t]] = v]
  BY <1>1 DEF ProceedFinish, Handle, Finish, Running, To, objectVars
<1>3. /\ tag[t] \in Address /\ tag[t] \notin Tags(queue)
      /\ \A u \in Thread : tag[u] = tag[t] => u = t
  BY <1>2 DEF IInv, ThreadShape, NoSharing, Uses
<1>4. \A r \in Address : r # tag[t] => status'[r] = status[r]
  BY <1>2 DEF IInv, TypeOK
<1>5. Waiting' = Waiting
  <2>1. Tags(queue) \subseteq Address
    BY TagsType DEF IInv, TypeOK, Event
  <2>2. QED
    BY <1>1, <1>3, <1>4, <2>1 DEF Waiting
<1>6. ASSUME NEW u \in Thread PROVE Owes(u)' <=> Owes(u)
  <2>1. CASE u = t
    BY <1>2, <2>1 DEF IInv, TypeOK, Owes
  <2>2. CASE u # t
    <3>1. pc'[u] = pc[u] /\ tag'[u] = tag[u]
      BY <1>2, <2>2 DEF IInv, TypeOK
    <3>2. pc[u] = "proceed" => status'[tag[u]] = status[tag[u]]
      BY <1>3, <1>4, <2>2 DEF IInv, ThreadShape
    <3>3. QED
      BY <3>1, <3>2 DEF Owes
  <2>3. QED
    BY <2>1, <2>2
<1>7. QED
  BY <1>1, <1>5, <1>6 DEF Owing, CountedUnchanged

\* The runtime turns a listener into an event, and gives back objects that are
\* no listeners any more.
LEMMA RuntimeCounted ==
  ASSUME IInv, RuntimeNext
  PROVE  \/ CountedUnchanged
         \/ /\ ended = "no" /\ Owing' = Owing
            /\ \E s \in listening : /\ listening' = listening \ {s}
                                    /\ s \notin Waiting /\ Waiting' = Waiting \cup {s}
<1>1. ASSUME NEW c \in Call, Send(c) \/ Cancel(c) PROVE CountedUnchanged
  BY <1>1 DEF Send, Cancel, threadVars, objectVars, runtimeVars, CountedUnchanged,
              Waiting, Owing, Owes
<1>2. queue \in Seq(Event) /\ DistinctTags(queue)
  BY DEF IInv, TypeOK, NoSharing, Event
<1>3. ASSUME NEW c \in Call, Match(c)
      PROVE  /\ ended = "no" /\ Owing' = Owing
             /\ \E s \in listening : /\ listening' = listening \ {s}
                                     /\ s \notin Waiting /\ Waiting' = Waiting \cup {s}
  <2>1. PICK s \in listening : /\ listening' = listening \ {s}
                              /\ queue' = Append(queue, [tag |-> s, ok |-> TRUE])
    BY <1>3 DEF Match
  <2>2. ended = "no" /\ UNCHANGED <<pc, tag, status>>
    BY <1>3 DEF Match, threadVars
  <2>3. s \in Address /\ s \notin Tags(queue) /\ status[s] = "PROCESS"
    BY DEF IInv, TypeOK, NoSharing, Stage
  <2>4. Tags(queue)' = Tags(queue) \cup {s}
    BY <1>2, <2>1, <2>3, AppendTag
  <2>5. s \notin Waiting /\ Waiting' = Waiting \cup {s} /\ Owing' = Owing
    BY <2>2, <2>3, <2>4 DEF Waiting, Owing, Owes
  <2>6. QED
    BY <2>1, <2>2, <2>5
<1>4. ASSUME NEW s \in Address, Transmit(s) PROVE CountedUnchanged
  <2>1. /\ s \in finishing /\ UNCHANGED <<pc, tag, status, listening, ended>>
        /\ queue' = Append(queue, [tag |-> s, ok |-> call[request[s]] = "matched"])
    BY <1>4 DEF Transmit, threadVars, objectVars
  <2>2. s \notin Tags(queue) /\ status[s] = "FINISH"
    BY <2>1 DEF IInv, NoSharing, Stage
  <2>3. Tags(queue)' = Tags(queue) \cup {s}
    BY <1>2, <2>1, <2>2, AppendTag
  <2>4. QED
    BY <2>1, <2>2, <2>3 DEF CountedUnchanged, Waiting, Owing, Owes
<1>5. QED
  BY <1>1, <1>3, <1>4 DEF RuntimeNext
\* Each step keeps the sum.
LEMMA ListenersNext ==
  IInv /\ ListenersConserved /\ [Next]_vars => ListenersConserved'
<1> SUFFICES ASSUME IInv, ListenersConserved, [Next]_vars, ended' = "no"
             PROVE  /\ Cardinality(listening') + Cardinality(Waiting')
                         + Cardinality(Owing') = Cardinality(Thread)
  BY DEF ListenersConserved, Queued, Tags, Waiting, Owing
<1>1. /\ IsFiniteSet(listening) /\ IsFiniteSet(Waiting) /\ IsFiniteSet(Owing)
      /\ Cardinality(listening) \in Nat /\ Cardinality(Waiting) \in Nat
      /\ Cardinality(Owing) \in Nat /\ Cardinality(Thread) \in Nat
  BY CountedAreFinite
<1>2. ended = "no" => Cardinality(listening) + Cardinality(Waiting)
                      + Cardinality(Owing) = Cardinality(Thread)
  BY ListenersByName
<1>3. CASE CountedUnchanged
  BY <1>2, <1>3 DEF CountedUnchanged
<1>4. ASSUME NEW t \in Thread, Requestcall(t)
      PROVE  Cardinality(listening') + Cardinality(Waiting')
             + Cardinality(Owing') = Cardinality(Thread)
  <2>1. /\ fresh[t] \notin listening /\ listening' = listening \cup {fresh[t]}
        /\ t \in Owing /\ Owing' = Owing \ {t}
        /\ Waiting' = Waiting /\ ended = "no"
    BY <1>4, RequestcallCounted
  <2>2. Cardinality(Owing \ {t}) = Cardinality(Owing) - 1
    BY <1>1, <2>1, FS_RemoveElement
  <2>3. Cardinality(listening \cup {fresh[t]}) = Cardinality(listening) + 1
    BY <1>1, <2>1, FS_AddElement
  <2>4. QED
    BY <1>1, <1>2, <2>1, <2>2, <2>3
<1>5. ASSUME NEW t \in Thread, TakeEvent(t)
      PROVE  Cardinality(listening') + Cardinality(Waiting')
             + Cardinality(Owing') = Cardinality(Thread)
  <2>1. /\ ended = "no" /\ listening' = listening
        /\ \/ Waiting' = Waiting /\ Owing' = Owing
           \/ /\ t \notin Owing /\ Owing' = Owing \cup {t}
              /\ Head(queue).tag \in Waiting
              /\ Waiting' = Waiting \ {Head(queue).tag}
    BY <1>5, TakeEventCounted
  <2>2. CASE Waiting' = Waiting /\ Owing' = Owing
    BY <1>2, <2>1, <2>2
  <2>3. CASE /\ t \notin Owing /\ Owing' = Owing \cup {t}
             /\ Head(queue).tag \in Waiting
             /\ Waiting' = Waiting \ {Head(queue).tag}
    <3> DEFINE s == Head(queue).tag
    <3>1. Cardinality(Waiting \ {s}) = Cardinality(Waiting) - 1
      BY <1>1, <2>3, FS_RemoveElement
    <3>2. Cardinality(Owing \cup {t}) = Cardinality(Owing) + 1
      BY <1>1, <2>3, FS_AddElement
    <3>3. QED
      BY <1>1, <1>2, <2>1, <2>3, <3>1, <3>2
  <2>4. QED
    BY <2>1, <2>2, <2>3
<1>6. CASE RuntimeNext
  <2>1. ASSUME NEW s \in listening, listening' = listening \ {s}, s \notin Waiting,
               Waiting' = Waiting \cup {s}, ended = "no", Owing' = Owing
        PROVE  Cardinality(listening') + Cardinality(Waiting')
               + Cardinality(Owing') = Cardinality(Thread)
    <3>1. Cardinality(listening \ {s}) = Cardinality(listening) - 1
      BY <1>1, <2>1, FS_RemoveElement
    <3>2. Cardinality(Waiting \cup {s}) = Cardinality(Waiting) + 1
      BY <1>1, <2>1, FS_AddElement
    <3>3. QED
      BY <1>1, <1>2, <2>1, <3>1, <3>2
  <2>2. QED
    BY <1>3, <1>6, <2>1, RuntimeCounted
<1>7. ASSUME NEW t \in Thread, ThreadNext(t)
      PROVE  Cardinality(listening') + Cardinality(Waiting')
             + Cardinality(Owing') = Cardinality(Thread)
  BY <1>3, <1>4, <1>5, <1>7, NewCallDataCounted, ServingCounted DEF ThreadNext
<1>8. CASE UNCHANGED vars
  BY <1>3, <1>8 DEF vars, threadVars, objectVars, runtimeVars, CountedUnchanged,
                    Waiting, Owing, Owes
<1>9. QED
  BY <1>6, <1>7, <1>8 DEF Next

\* However many calls were served, at any time and for each thread one CallData
\* waits for a call, has got one that no thread took yet, or is about to be
\* created: the service never stops listening (xrpc_service.cpp:137 and 202).
THEOREM ListenersConservedHolds == Spec => []ListenersConserved
<1>1. Init => ListenersConserved
  <2> SUFFICES ASSUME Init PROVE ListenersConserved
    OBVIOUS
  <2>1. listening = {} /\ Waiting = {} /\ Owing = Thread
    BY DEF Init, Waiting, Tags, Owing, Owes
  <2>2. Cardinality(Thread) \in Nat
    BY AsyncConstants, FS_CardinalityType
  <2>3. QED
    BY <2>1, <2>2, FS_EmptySet, ListenersByName
<1>2. QED
  BY InvHolds, <1>1, ListenersNext, PTL DEF Spec
-----------------------------------------------------------------------------
(* The abstract service *)

\* The service implements CallService for any threads, addresses and calls: each
\* request is executed at most once and answered at most once, by the reply
\* computed from it, whichever threads take its two events
\* (xrpc_service.cpp:121-172 and 200-214).
THEOREM AsyncImplementsCallService == Spec => ImplementsCallService
<1>1. Init => Promise!Init
  BY DEF Init, Promise!Init
<1>2. ASSUME IInv, [Next]_vars
      PROVE  [Promise!Next]_<<executed, answers>>
  <2>1. ASSUME NEW t \in Thread, Handle(t) PROVE Promise!Execute(request[tag[t]])
        /\ request[tag[t]] \in Call
    <3> DEFINE c == request[tag[t]]
    <3>1. /\ pc[t] = "handle" /\ ended = "no" /\ answers' = answers
          /\ executed' = [executed EXCEPT ![c] = @ + 1]
      BY <2>1 DEF Handle, Running
    <3>2. tag[t] \in Address /\ status[tag[t]] = "PROCESS" /\ c \in Call
      BY <1>2, <3>1 DEF IInv, TypeOK, ThreadShape, Stage
    <3>3. executed[c] = 0
      BY <1>2, <3>1, <3>2 DEF IInv, Serving
    <3>4. QED
      BY <3>1, <3>2, <3>3 DEF Promise!Execute
  <2>2. ASSUME NEW s \in Address, Transmit(s)
        PROVE  \/ UNCHANGED <<executed, answers>>
               \/ Promise!Answer(request[s]) /\ request[s] \in Call
    <3>1. /\ s \in finishing /\ executed' = executed
          /\ \/ answers' = answers
             \/ answers' = [answers EXCEPT ![request[s]] = Append(@, reply[s])]
      BY <2>2 DEF Transmit
    <3>2. /\ status[s] = "FINISH" /\ request[s] \in Call
          /\ executed[request[s]] = 1 /\ reply[s] = request[s]
          /\ answers[request[s]] = <<>>
      BY <1>2, <3>1 DEF IInv, Stage, Serving
    <3>3. QED
      BY <3>1, <3>2 DEF Promise!Answer
  <2>3. ASSUME NEW t \in Thread, ThreadNext(t), ~ Handle(t)
        PROVE  UNCHANGED <<executed, answers>>
    BY <2>3 DEF ThreadNext, HandleRpcs, Requestcall, TakeEvent, ProceedProcess,
                ProceedFinish, Finish, NewCallData, clientVars
  <2>4. ASSUME NEW c \in Call, Send(c) \/ Cancel(c) \/ Match(c)
        PROVE  UNCHANGED <<executed, answers>>
    BY <2>4 DEF Send, Cancel, Match
  <2>5. CASE UNCHANGED vars
    BY <2>5 DEF vars, clientVars
  <2>6. QED
    BY <1>2, <2>1, <2>2, <2>3, <2>4, <2>5 DEF Next, RuntimeNext, Promise!Next
<1>3. QED
  BY InvHolds, <1>1, <1>2, PTL DEF Spec, ImplementsCallService, Promise!Spec
=============================================================================
