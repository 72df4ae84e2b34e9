------------------------------ MODULE CallRate ------------------------------
(***************************************************************************)
(* The statistic that follows a gRPC call: every so many calls one of them *)
(* divides by the milliseconds since the last report, which ends the       *)
(* process when there were none.  The synchronous service                  *)
(* (xrpc_serviceimpl) runs each call in a thread of the gRPC runtime and   *)
(* counts with a plain integer that nobody initialises; the asynchronous   *)
(* one (CallData) counts with an atomic, and its calls are those that      *)
(* AsyncService hands to its threads.  The clock is gettimeofday, which    *)
(* may be set back.                                                        *)
(***************************************************************************)
EXTENDS Naturals

CONSTANTS Call,
          Every,       \* the 1000 calls of a report
          Bits,        \* width of the counter
          MaxClock     \* bound: milliseconds

ASSUME RateConstants ==
    {Every, Bits, MaxClock} \subseteq Nat \ {0}

VARIABLES service,    \* "sync" or "async": which of the two serves
          pc,         \* per call: where its thread is
          local,      \* per call: the value it has in a register
          num,        \* m_call_num, or grpc_recv_num
          last,       \* m_last_timestamp, or grpc_last_timestamp
          clock,      \* get_timestamp_ms
          ended,      \* what ended the process, if anything has
          counted,    \* calls counted at the time `last' since the last report
          crowded,    \* the calls that are counting now have overlapped
          causes      \* since the last report: what may make an interval short

vars == <<service, pc, local, num, last, clock, ended, counted, crowded, causes>>

Goto(c, from, to) ==
    /\ ended = "no"
    /\ pc[c] = from
    /\ UNCHANGED service
    /\ pc' = [pc EXCEPT ![c] = to]

\* Mutant: the remainder may be 1, too.
report_due_twice(c) ==
    (IF service = "sync" THEN num ELSE local[c]) % Every <= 1

\* The synchronous service reads m_call_num again; each call of the asynchronous
\* one looks at the number it got.
report_due(c) ==
    (IF service = "sync" THEN num ELSE local[c]) % Every = 0

\* The calls that another one must not overlap with: those that count with the
\* plain integer; with the atomic, only those that report.
Busy ==
    {c \in Call :
        \/ pc[c] \in {"store", "read_clock", "divide", "update"}
        \/ pc[c] = "check" /\ (service = "sync" \/ report_due(c))}

Cause(name, condition) == IF condition THEN {name} ELSE {}

\* A call begins to count, and looks at the number n.
Begins(n) ==
    /\ counted' = IF clock = last THEN counted + 1 ELSE counted
    /\ crowded' = (Busy # {})
    /\ causes' = causes \cup Cause("overlapped", Busy # {})
                      \cup Cause("started from zero", n = 0)
-----------------------------------------------------------------------------
\* handle_request and get_response; the statistic follows.
handle_request(c) ==
    /\ Goto(c, "handle", "count")
    /\ UNCHANGED <<local, num, last, clock, ended, counted, crowded, causes>>

\* An exception of the handler leaves a synchronous call before it is counted; in a
\* thread of the asynchronous service nobody catches it.
handle_request_throws(c) ==
    /\ Goto(c, "handle", "done")
    /\ ended' = IF service = "async" THEN "exception" ELSE "no"
    /\ UNCHANGED <<local, num, last, clock, counted, crowded, causes>>

\* m_call_num++ loads and stores.
m_call_num_load(c) ==
    /\ service = "sync" /\ Goto(c, "count", "store")
    /\ local' = [local EXCEPT ![c] = num]
    /\ Begins((num + 1) % 2^Bits)
    /\ UNCHANGED <<num, last, clock, ended>>

m_call_num_store(c) ==
    /\ Goto(c, "store", "check")
    /\ num' = (local[c] + 1) % 2^Bits
    /\ UNCHANGED <<local, last, clock, ended, counted, crowded, causes>>

\* grpc_recv_num++ is atomic.
grpc_recv_num_fetch(c) ==
    /\ service = "async" /\ Goto(c, "count", "check")
    /\ local' = [local EXCEPT ![c] = num]
    /\ num' = (num + 1) % 2^Bits
    /\ Begins(num)
    /\ UNCHANGED <<last, clock, ended>>

no_report(c) ==
    /\ Goto(c, "check", "done") /\ ~ report_due(c)
    /\ UNCHANGED <<local, num, last, clock, ended, counted, crowded, causes>>

report(c) ==
    /\ Goto(c, "check", "read_clock") /\ report_due(c)
    /\ UNCHANGED <<local, num, last, clock, ended, counted, crowded, causes>>

new_timestamp(c) ==
    /\ Goto(c, "read_clock", "divide")
    /\ local' = [local EXCEPT ![c] = clock]
    /\ UNCHANGED <<num, last, clock, ended, counted, crowded, causes>>

\* The difference is unsigned: only zero is an error.
divide(c) ==
    /\ Goto(c, "divide", "update")
    /\ ended' = IF local[c] = last THEN "division" ELSE "no"
    /\ UNCHANGED <<local, num, last, clock, counted, crowded, causes>>

\* From here on the calls of the next report count; what concerned this one is
\* over, unless it goes on.
update_last(c) ==
    /\ Goto(c, "update", "done")
    /\ last' = local[c]
    /\ counted' = 0
    /\ causes' = Cause("overlapped", crowded) \cup Cause("set back", clock < local[c])
    /\ UNCHANGED <<local, num, clock, ended, crowded>>

Tick ==
    /\ ended = "no" /\ clock < MaxClock
    /\ clock' = clock + 1
    /\ UNCHANGED <<service, pc, local, num, last, ended, counted, crowded, causes>>

\* gettimeofday is not monotonic.
SetBack ==
    /\ ended = "no"
    /\ clock' \in 1..(clock - 1)
    /\ causes' = causes \cup {"set back"}
    /\ UNCHANGED <<service, pc, local, num, last, ended, counted, crowded>>
-----------------------------------------------------------------------------
\* The members of xrpc_serviceimpl have no initial values; the globals of the
\* asynchronous service are zero.
Init ==
    /\ service \in {"sync", "async"}
    /\ pc = [c \in Call |-> "handle"]
    /\ local = [c \in Call |-> 0]
    /\ num \in IF service = "sync" THEN 0..(2^Bits - 1) ELSE {0}
    /\ last \in IF service = "sync" THEN 0..MaxClock ELSE {0}
    /\ clock = 1
    /\ ended = "no"
    /\ counted = 0
    /\ crowded = FALSE
    /\ causes = Cause("unset", service = "sync")

Next ==
    \/ \E c \in Call :
        \/ handle_request(c) \/ handle_request_throws(c)
        \/ m_call_num_load(c) \/ m_call_num_store(c) \/ grpc_recv_num_fetch(c)
        \/ no_report(c) \/ report(c)
        \/ new_timestamp(c) \/ divide(c) \/ update_last(c)
    \/ Tick \/ SetBack

Spec == Init /\ [][Next]_vars
-----------------------------------------------------------------------------
(* Properties *)

\* The process divides by zero only when a whole round of calls was counted in the
\* millisecond of the last report, after it; or else, since that report, because a
\* call was counted while another counted with the plain integer or reported, the
\* number went back to zero, the clock was set back, or m_last_timestamp had no
\* value yet (xrpc_service.cpp:44-51 and 152-159).  What happened before the last
\* report and did not overlap with it explains nothing.
ZeroIntervalExplained ==
    ended = "division" => counted >= Every \/ causes # {}
=============================================================================
