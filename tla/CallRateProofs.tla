--------------------------- MODULE CallRateProofs ---------------------------
(***************************************************************************)
(* A theorem about CallRate, for any calls, length of a round, width of    *)
(* the counter and bound of the clock: when the statistic divides by zero. *)
(***************************************************************************)
EXTENDS CallRate, FiniteSetTheorems, TLAPS

RateTypes ==
    /\ service \in {"sync", "async"}
    /\ pc \in [Call -> {"handle", "count", "store", "check", "read_clock", "divide",
                        "update", "done"}]
    /\ local \in [Call -> Nat]
    /\ num \in 0..(2^Bits - 1)
    /\ last \in 0..MaxClock /\ clock \in 1..MaxClock
    /\ counted \in Nat /\ crowded \in BOOLEAN
    /\ \A c \in Call :
        /\ pc[c] = "store" => service = "sync"
        /\ pc[c] \in {"divide", "update"} => local[c] \in 1..MaxClock

\* How far the counter is in its round.
Place ==
    IF service = "sync" THEN num % Every
    ELSE IF num = 0 THEN 0 ELSE (num - 1) % Every

\* One call at a time is busy, and the counter is where that call has left it.
OneBusy ==
    ~ crowded =>
        /\ \A c, d \in Busy : c = d
        /\ \A c \in Call :
            /\ pc[c] = "store" => local[c] = num
            /\ pc[c] = "check" /\ c \in Busy /\ service = "async" =>
                local[c] \in 0..(2^Bits - 1) /\ num = (local[c] + 1) % 2^Bits
            /\ pc[c] \in {"read_clock", "divide", "update"} => Place = 0

\* As long as the clock shows the time of the last report, every call since then
\* was counted at that time.
CountedSince ==
    causes = {} =>
        /\ ~ crowded /\ last <= clock
        /\ Busy = {} /\ last = clock => counted >= Place
        /\ \A c \in Call :
            /\ pc[c] = "store" => num # 2^Bits - 1
            /\ pc[c] = "store" /\ last = clock => counted > Place
            /\ pc[c] = "check" /\ c \in Busy /\ last = clock =>
                counted >= IF Place = 0 THEN Every ELSE Place
            /\ pc[c] = "read_clock" /\ last = clock => counted >= Every
            /\ pc[c] = "divide" /\ local[c] = last => counted >= Every

RateInv == RateTypes /\ OneBusy /\ CountedSince /\ ZeroIntervalExplained
-----------------------------------------------------------------------------
(* Arithmetic *)

\* The counter has a positive number of values.
LEMMA WidthType == 2^Bits \in Nat \ {0}
<1> DEFINE S == 1..Bits
<1>1. IsFiniteSet(S) /\ Cardinality(S) = Bits
  BY RateConstants, FS_Interval
<1>2. IsFiniteSet(SUBSET S) /\ Cardinality(SUBSET S) = 2^Bits
  BY <1>1, FS_SUBSET
<1>3. SUBSET S # {}
  OBVIOUS
<1>4. QED
  BY <1>2, <1>3, FS_CardinalityType, FS_EmptySet

\* Quotient and remainder.
LEMMA DivMod ==
  ASSUME NEW k \in Nat, NEW n \in Nat \ {0}
  PROVE  /\ (k \div n) \in Nat /\ (k % n) \in 0..(n - 1)
         /\ k = (n * (k \div n)) + (k % n)
  OBVIOUS

\* They are unique.
LEMMA DivModUnique ==
  ASSUME NEW n \in Nat \ {0}, NEW q \in Nat, NEW r \in 0..(n - 1),
         NEW p \in Nat, NEW t \in 0..(n - 1), (n * q) + r = (n * p) + t
  PROVE  r = t
<1>1. CASE q > p
  <2>1. q - p - 1 \in Nat
    BY <1>1
  <2>2. n * (q - p - 1) >= 0 /\ n * (q - p - 1) = n * q - n * p - n
    BY <2>1
  <2>3. QED
    BY <2>2
<1>2. CASE q < p
  <2>1. p - q - 1 \in Nat
    BY <1>2
  <2>2. n * (p - q - 1) >= 0 /\ n * (p - q - 1) = n * p - n * q - n
    BY <2>1
  <2>3. QED
    BY <2>2
<1>3. QED
  BY <1>1, <1>2

\* What counting one more does to the place in a round
\* (xrpc_service.cpp:44-45 and 152-153).
LEMMA NextInRound ==
  ASSUME NEW k \in Nat, NEW n \in Nat \ {0}
  PROVE  (k + 1) % n = IF (k % n) + 1 = n THEN 0 ELSE (k % n) + 1
<1> DEFINE q == k \div n
           r == k % n
           l == k + 1
           p == l \div n
           t == l % n
<1>1. q \in Nat /\ r \in 0..(n - 1) /\ k = (n * q) + r
  BY DivMod
<1>2. l \in Nat /\ l = k + 1
  OBVIOUS
<1> HIDE DEF l
<1>3. p \in Nat /\ t \in 0..(n - 1) /\ l = (n * p) + t
  BY <1>2, DivMod
<1> HIDE DEF q, r, p, t
<1>4. CASE r + 1 = n
  <2>1. n * (q + 1) = (n * q) + n /\ q + 1 \in Nat
    BY <1>1
  <2>2. (n * (q + 1)) + 0 = (n * p) + t
    BY <1>1, <1>2, <1>3, <1>4, <2>1
  <2>3. t = 0
    BY <1>3, <2>1, <2>2, DivModUnique
  <2>4. QED
    BY <1>2, <1>4, <2>3 DEF r, t
<1>5. CASE r + 1 # n
  <2>1. r + 1 \in 0..(n - 1) /\ (n * q) + (r + 1) = (n * p) + t
    BY <1>1, <1>2, <1>3, <1>5
  <2>2. t = r + 1
    BY <1>1, <1>3, <2>1, DivModUnique
  <2>3. QED
    BY <1>2, <1>5, <2>2 DEF r, t
<1>6. QED
  BY <1>4, <1>5

\* The counter goes up by one, except from its last value to zero.
LEMMA Increment ==
  ASSUME NEW k \in 0..(2^Bits - 1)
  PROVE  /\ (k + 1) % 2^Bits \in 0..(2^Bits - 1)
         /\ k # 2^Bits - 1 => (k + 1) % 2^Bits = k + 1
<1> DEFINE W == 2^Bits
<1>1. W \in Nat \ {0}
  BY WidthType
<1> HIDE DEF W
<1>2. ASSUME NEW j \in 0..(W - 1)
      PROVE  (j + 1) % W \in 0..(W - 1) /\ (j # W - 1 => (j + 1) % W = j + 1)
  BY <1>1
<1>3. QED
  BY <1>2 DEF W
-----------------------------------------------------------------------------
(* When the process divides by zero *)

LEMMA PlaceType == ASSUME RateTypes PROVE Place \in 0..(Every - 1)
<1>1. num \in Nat /\ Every \in Nat \ {0} /\ (num # 0 => num - 1 \in Nat)
  BY WidthType, RateConstants DEF RateTypes
<1>2. num % Every \in 0..(Every - 1)
  BY <1>1
<1>3. num # 0 => (num - 1) % Every \in 0..(Every - 1)
  BY <1>1
<1>4. 0 \in 0..(Every - 1)
  BY <1>1
<1>5. QED
  BY <1>2, <1>3, <1>4 DEF Place

\* Nothing has been counted at the start, and nobody knows when the synchronous
\* service last reported.
LEMMA InitRate == Init => RateInv
<1> SUFFICES ASSUME Init PROVE RateInv
  OBVIOUS
<1>1. RateTypes
  <2>1. num \in 0..(2^Bits - 1)
    BY WidthType DEF Init
  <2>2. MaxClock \in Nat \ {0}
    BY RateConstants
  <2>3. last \in 0..MaxClock /\ clock \in 1..MaxClock /\ clock = 1
    BY <2>2 DEF Init
  <2>4. QED
    BY <2>1, <2>3 DEF Init, RateTypes
<1>2. Busy = {}
  BY DEF Init, Busy
<1>3. OneBusy
  BY <1>2 DEF Init, OneBusy
<1>4. CountedSince
  BY <1>2 DEF Init, CountedSince, Cause
<1>5. QED
  BY <1>1, <1>3, <1>4 DEF Init, RateInv, ZeroIntervalExplained

\* A call that is not busy, and does not become so, goes on.
LEMMA OutsideKeeps ==
  ASSUME RateInv, NEW c \in Call,
         handle_request(c) \/ handle_request_throws(c) \/ (no_report(c) /\ c \notin Busy)
  PROVE  RateInv'
<1>1. /\ pc' = [pc EXCEPT ![c] = "count"] \/ pc' = [pc EXCEPT ![c] = "done"]
      /\ c \notin Busy /\ ended' # "division"
      /\ UNCHANGED <<service, local, num, last, clock, counted, crowded, causes>>
  BY DEF handle_request, handle_request_throws, no_report, Goto, Busy
<1>2. /\ \A d \in Call : d # c => pc'[d] = pc[d]
      /\ pc'[c] \in {"count", "done"}
  BY <1>1 DEF RateInv, RateTypes
<1>3. Busy' = Busy
  BY <1>1, <1>2 DEF Busy, report_due
<1>4. RateTypes'
  BY <1>1, <1>2 DEF RateInv, RateTypes
<1>5. Place' = Place
  BY <1>1 DEF Place
<1>6. OneBusy'
  BY <1>1, <1>2, <1>3, <1>5 DEF RateInv, OneBusy
<1>7. CountedSince'
  BY <1>1, <1>2, <1>3, <1>5 DEF RateInv, CountedSince
<1>8. QED
  BY <1>1, <1>4, <1>6, <1>7 DEF RateInv, ZeroIntervalExplained

\* The synchronous service loads the number (xrpc_service.cpp:44).
LEMMA LoadKeeps ==
  ASSUME RateInv, NEW c \in Call, m_call_num_load(c)
  PROVE  RateInv'
<1>1. /\ service = "sync" /\ ended = "no" /\ pc[c] = "count"
      /\ pc' = [pc EXCEPT ![c] = "store"] /\ local' = [local EXCEPT ![c] = num]
      /\ counted' = IF clock = last THEN counted + 1 ELSE counted
      /\ crowded' = (Busy # {})
      /\ UNCHANGED <<service, num, last, clock, ended>>
  BY DEF m_call_num_load, Goto, Begins
<1>2. causes' = {} => causes = {} /\ Busy = {} /\ (num + 1) % 2^Bits # 0
  BY DEF m_call_num_load, Begins, Cause
<1>3. num \in Nat /\ 2^Bits \in Nat \ {0} /\ num \in 0..(2^Bits - 1)
  BY WidthType DEF RateInv, RateTypes
<1>4. causes' = {} => num # 2^Bits - 1
  <2> DEFINE W == 2^Bits
  <2>1. ASSUME NEW w \in Nat \ {0}, NEW n \in Nat, n = w - 1 PROVE (n + 1) % w = 0
    BY <2>1
  <2>2. QED
    BY <1>2, <1>3, <2>1
<1>5. /\ \A d \in Call : d # c => pc'[d] = pc[d] /\ local'[d] = local[d]
      /\ pc'[c] = "store" /\ local'[c] = num
  BY <1>1 DEF RateInv, RateTypes
<1>6. RateTypes'
  <2>1. counted' \in Nat /\ crowded' \in BOOLEAN
    BY <1>1 DEF RateInv, RateTypes
  <2>2. local' \in [Call -> Nat]
    BY <1>1, <1>3 DEF RateInv, RateTypes
  <2>3. QED
    BY <1>1, <1>5, <2>1, <2>2 DEF RateInv, RateTypes
<1>7. Place' = Place /\ Place = num % Every
  BY <1>1 DEF Place
<1>8. Busy = {} => /\ Busy' = {c}
                   /\ \A d \in Call : d # c => pc'[d] \in {"handle", "count", "done"}
  BY <1>1, <1>5 DEF Busy, report_due, RateInv, RateTypes
<1>9. OneBusy'
  BY <1>1, <1>5, <1>8 DEF OneBusy
<1>10. CountedSince'
  <2>1. ASSUME causes' = {}, last = clock PROVE counted' > Place
    <3>1. counted >= Place /\ counted' = counted + 1
      BY <1>1, <1>2, <2>1 DEF RateInv, CountedSince
    <3>2. QED
      BY <3>1, PlaceType DEF RateInv, RateTypes
  <2>2. causes' = {} => last' <= clock'
    BY <1>1, <1>2 DEF RateInv, CountedSince
  <2>3. QED
    BY <1>1, <1>2, <1>4, <1>5, <1>7, <1>8, <2>1, <2>2 DEF CountedSince
<1>11. QED
  BY <1>1, <1>6, <1>9, <1>10 DEF RateInv, ZeroIntervalExplained

\* The asynchronous service takes a number (xrpc_service.cpp:152).
LEMMA FetchKeeps ==
  ASSUME RateInv, NEW c \in Call, grpc_recv_num_fetch(c)
  PROVE  RateInv'
<1>1. /\ service = "async" /\ ended = "no" /\ pc[c] = "count"
      /\ pc' = [pc EXCEPT ![c] = "check"] /\ local' = [local EXCEPT ![c] = num]
      /\ num' = (num + 1) % 2^Bits
      /\ counted' = IF clock = last THEN counted + 1 ELSE counted
      /\ crowded' = (Busy # {})
      /\ UNCHANGED <<service, last, clock, ended>>
  BY DEF grpc_recv_num_fetch, Goto, Begins
<1>2. causes' = {} => causes = {} /\ Busy = {} /\ num # 0
  BY DEF grpc_recv_num_fetch, Begins, Cause
<1>3. /\ num \in Nat /\ num' \in 0..(2^Bits - 1) /\ num' \in Nat
      /\ num' = 0 \/ num' = num + 1
  <2>1. num \in 0..(2^Bits - 1) /\ 2^Bits \in Nat \ {0}
    BY WidthType DEF RateInv, RateTypes
  <2>2. num' \in 0..(2^Bits - 1) /\ (num # 2^Bits - 1 => num' = num + 1)
    BY <1>1, <2>1, Increment
  <2>3. ASSUME NEW w \in Nat \ {0}, NEW n \in Nat, n = w - 1 PROVE (n + 1) % w = 0
    BY <2>3
  <2>4. num = 2^Bits - 1 => num' = 0
    BY <1>1, <2>1, <2>3
  <2>5. QED
    BY <2>1, <2>2, <2>4
<1>4. /\ \A d \in Call : d # c => pc'[d] = pc[d] /\ local'[d] = local[d]
      /\ pc'[c] = "check" /\ local'[c] = num
  BY <1>1 DEF RateInv, RateTypes
<1>5. RateTypes'
  <2>1. counted' \in Nat /\ crowded' \in BOOLEAN
    BY <1>1 DEF RateInv, RateTypes
  <2>2. local' \in [Call -> Nat]
    BY <1>1, <1>3 DEF RateInv, RateTypes
  <2>3. QED
    BY <1>1, <1>3, <1>4, <2>1, <2>2 DEF RateInv, RateTypes
<1>6. Busy = {} =>
        /\ Busy' = IF num % Every = 0 THEN {c} ELSE {}
        /\ \A d \in Call : d # c => pc'[d] \in {"handle", "count", "check", "done"}
        /\ \A d \in Busy' : d = c
  <2>1. Busy = {} => \A d \in Call : d # c =>
            d \notin Busy' /\ pc'[d] \in {"handle", "count", "check", "done"}
    BY <1>1, <1>4 DEF Busy, report_due, RateInv, RateTypes
  <2>2. c \in Busy' <=> num % Every = 0
    BY <1>1, <1>4 DEF Busy, report_due
  <2>3. Busy' \subseteq Call
    BY DEF Busy
  <2>4. QED
    BY <2>1, <2>2, <2>3
<1>7. OneBusy'
  <2>1. ~ crowded' => Busy = {}
    BY <1>1
  <2>2. num \in 0..(2^Bits - 1)
    BY DEF RateInv, RateTypes
  <2>3. QED
    BY <1>1, <1>4, <1>6, <2>1, <2>2 DEF OneBusy
<1>8. ASSUME causes' = {}, last = clock
      PROVE  /\ num % Every = 0 => counted' >= Every
             /\ num % Every # 0 => counted' >= Place'
             /\ Place' \in 0..(Every - 1)
  <2>1. counted >= Place /\ counted' = counted + 1 /\ Place = (num - 1) % Every
        /\ counted \in Nat
    BY <1>1, <1>2, <1>8 DEF RateInv, RateTypes, CountedSince, Place
  <2>2. num - 1 \in Nat /\ Every \in Nat \ {0}
    BY <1>2, <1>3, <1>8, RateConstants
  <2>3. num % Every = IF ((num - 1) % Every) + 1 = Every THEN 0 ELSE ((num - 1) % Every) + 1
    <3> DEFINE k == num - 1
    <3>1. k \in Nat /\ k + 1 = num
      BY <1>3, <2>2
    <3> HIDE DEF k
    <3>2. num % Every = IF (k % Every) + 1 = Every THEN 0 ELSE (k % Every) + 1
      BY <2>2, <3>1, NextInRound
    <3>3. QED
      BY <3>2 DEF k
  <2>4. Place' = 0 \/ Place' = num % Every
    <3>1. Place' = IF num' = 0 THEN 0 ELSE (num' - 1) % Every
      BY <1>1 DEF Place
    <3>2. num' = num + 1 => num' - 1 = num
      BY <1>3
    <3>3. QED
      BY <1>3, <3>1, <3>2
  <2>5. (num - 1) % Every \in 0..(Every - 1) /\ num % Every \in 0..(Every - 1)
    BY <1>3, <2>2
  <2>6. QED
    BY <2>1, <2>2, <2>3, <2>4, <2>5
<1>9. CountedSince'
  <2>1. causes' = {} => last' <= clock' /\ ~ crowded' /\ Busy = {}
    BY <1>1, <1>2 DEF RateInv, CountedSince
  <2>2. ASSUME causes' = {}, last = clock, num % Every = 0
        PROVE  counted' >= IF Place' = 0 THEN Every ELSE Place'
    BY <1>8, <2>2, RateConstants, <1>5 DEF RateTypes
  <2>3. QED
    BY <1>1, <1>4, <1>6, <1>8, <2>1, <2>2 DEF CountedSince
<1>10. QED
  BY <1>1, <1>5, <1>7, <1>9 DEF RateInv, ZeroIntervalExplained

\* A call that is alone in being busy and goes on to `to' is so still, or nobody is
\* busy.
LEMMA GoesOn ==
  ASSUME RateInv, NEW c \in Call, c \in Busy, NEW to, service' = service,
         pc' = [pc EXCEPT ![c] = to],
         \A d \in Call : d # c => local'[d] = local[d]
  PROVE  /\ pc'[c] = to /\ \A d \in Call : d # c => pc'[d] = pc[d]
         /\ ~ crowded =>
            /\ \A d \in Call : d # c =>
                pc'[d] \in {"handle", "count", "check", "done"} /\ d \notin Busy'
            /\ Busy' \subseteq {c}
            /\ to = "done" => Busy' = {}
<1>1. pc'[c] = to /\ \A d \in Call : d # c => pc'[d] = pc[d]
  BY DEF RateInv, RateTypes
<1>2. ~ crowded => \A d \in Call : d # c => d \notin Busy
  BY DEF RateInv, OneBusy
<1>3. \A d \in Call : d # c => (d \in Busy' <=> d \in Busy)
  BY <1>1 DEF Busy, report_due
<1>4. \A d \in Call : d \notin Busy => pc[d] \in {"handle", "count", "check", "done"}
  BY DEF RateInv, RateTypes, Busy
<1>5. Busy' \subseteq Call /\ (to = "done" => c \notin Busy')
  BY <1>1 DEF Busy
<1>6. QED
  BY <1>1, <1>2, <1>3, <1>4, <1>5

\* The synchronous service stores the number it has counted
\* (xrpc_service.cpp:44).
LEMMA StoreKeeps ==
  ASSUME RateInv, NEW c \in Call, m_call_num_store(c)
  PROVE  RateInv'
<1>1. /\ ended = "no" /\ pc[c] = "store" /\ pc' = [pc EXCEPT ![c] = "check"]
      /\ num' = (local[c] + 1) % 2^Bits
      /\ UNCHANGED <<service, local, last, clock, ended, counted, crowded, causes>>
  BY DEF m_call_num_store, Goto
<1>2. c \in Busy /\ service = "sync" /\ local[c] \in Nat
  BY <1>1 DEF Busy, RateInv, RateTypes
<1>3. /\ pc'[c] = "check" /\ \A d \in Call : d # c => pc'[d] = pc[d]
      /\ ~ crowded =>
            /\ \A d \in Call : d # c =>
                pc'[d] \in {"handle", "count", "check", "done"} /\ d \notin Busy'
            /\ Busy' \subseteq {c}
  BY <1>1, <1>2, GoesOn
<1>4. c \in Busy'
  BY <1>1, <1>2, <1>3 DEF Busy
<1>5. causes = {} => num \in Nat /\ num' = num + 1
  BY <1>1, Increment, WidthType DEF RateInv, RateTypes, OneBusy, CountedSince
<1>6. RateTypes'
  <2>1. num' \in 0..(2^Bits - 1)
    <3> DEFINE W == 2^Bits
    <3>1. W \in Nat \ {0}
      BY WidthType
    <3> HIDE DEF W
    <3>2. (local[c] + 1) % W \in 0..(W - 1)
      BY <1>2, <3>1
    <3>3. QED
      BY <1>1, <3>2 DEF W
  <2>2. QED
    BY <1>1, <1>3, <2>1 DEF RateInv, RateTypes
<1>7. OneBusy'
  BY <1>1, <1>2, <1>3 DEF OneBusy
<1>8. CountedSince'
  <2>1. ASSUME causes = {}, last = clock
        PROVE  counted >= IF Place' = 0 THEN Every ELSE Place'
    <3>1. counted > num % Every /\ counted \in Nat
      BY <1>1, <1>2, <2>1 DEF RateInv, RateTypes, CountedSince, Place
    <3>2. num % Every \in 0..(Every - 1) /\ Every \in Nat \ {0}
      BY <1>5, <2>1, RateConstants, DivMod
    <3>3. num' % Every = IF (num % Every) + 1 = Every THEN 0 ELSE (num % Every) + 1
      BY <1>5, <2>1, RateConstants, NextInRound
    <3>4. Place' = num' % Every
      BY <1>1, <1>2 DEF Place
    <3>5. QED
      BY <3>1, <3>2, <3>3, <3>4
  <2>2. causes = {} => ~ crowded /\ last <= clock
    BY DEF RateInv, CountedSince
  <2>3. QED
    BY <1>1, <1>3, <1>4, <2>1, <2>2 DEF CountedSince
<1>9. QED
  BY <1>1, <1>6, <1>7, <1>8 DEF RateInv, ZeroIntervalExplained

\* A busy call of the synchronous service finds that no report is due
\* (xrpc_service.cpp:45).
LEMMA NoReportKeeps ==
  ASSUME RateInv, NEW c \in Call, no_report(c), c \in Busy
  PROVE  RateInv'
<1>1. /\ ended = "no" /\ pc[c] = "check" /\ pc' = [pc EXCEPT ![c] = "done"]
      /\ ~ report_due(c)
      /\ UNCHANGED <<service, local, num, last, clock, ended, counted, crowded, causes>>
  BY DEF no_report, Goto
<1>2. service = "sync"
  BY <1>1 DEF Busy
<1>3. /\ pc'[c] = "done" /\ \A d \in Call : d # c => pc'[d] = pc[d]
      /\ ~ crowded =>
            /\ \A d \in Call : d # c =>
                pc'[d] \in {"handle", "count", "check", "done"} /\ d \notin Busy'
            /\ Busy' = {}
  BY <1>1, GoesOn
<1>4. RateTypes'
  BY <1>1, <1>3 DEF RateInv, RateTypes
<1>5. Place' = Place /\ Place # 0
  BY <1>1, <1>2 DEF Place, report_due
<1>6. OneBusy'
  BY <1>1, <1>3, <1>5 DEF OneBusy
<1>7. CountedSince'
  BY <1>1, <1>3, <1>5 DEF RateInv, CountedSince
<1>8. QED
  BY <1>1, <1>4, <1>6, <1>7 DEF RateInv, ZeroIntervalExplained

\* A call finds that a report is due (xrpc_service.cpp:45 and 153).
LEMMA ReportKeeps ==
  ASSUME RateInv, NEW c \in Call, report(c)
  PROVE  RateInv'
<1>1. /\ ended = "no" /\ pc[c] = "check" /\ pc' = [pc EXCEPT ![c] = "read_clock"]
      /\ report_due(c)
      /\ UNCHANGED <<service, local, num, last, clock, ended, counted, crowded, causes>>
  BY DEF report, Goto
<1>2. c \in Busy
  BY <1>1 DEF Busy
<1>3. /\ pc'[c] = "read_clock" /\ \A d \in Call : d # c => pc'[d] = pc[d]
      /\ ~ crowded =>
            /\ \A d \in Call : d # c =>
                pc'[d] \in {"handle", "count", "check", "done"} /\ d \notin Busy'
            /\ Busy' \subseteq {c}
  BY <1>1, <1>2, GoesOn
<1>4. c \in Busy'
  BY <1>3 DEF Busy
<1>5. RateTypes'
  BY <1>1, <1>3 DEF RateInv, RateTypes
<1>6. Place' = Place
  BY <1>1 DEF Place
<1>7. ~ crowded => Place = 0
  <2>1. CASE service = "sync"
    BY <1>1, <2>1 DEF Place, report_due
  <2>2. CASE service = "async"
    <3>1. local[c] % Every = 0 /\ local[c] \in Nat
      BY <1>1, <2>2 DEF report_due, RateInv, RateTypes
    <3>2. ASSUME ~ crowded, num # 0 PROVE num - 1 = local[c]
      <4>1. local[c] \in 0..(2^Bits - 1) /\ num = (local[c] + 1) % 2^Bits
        BY <1>1, <1>2, <2>2, <3>2 DEF RateInv, OneBusy
      <4>2. local[c] # 2^Bits - 1
        <5>1. ASSUME NEW w \in Nat \ {0}, NEW n \in Nat, n = w - 1 PROVE (n + 1) % w = 0
          BY <5>1
        <5>2. QED
          BY <3>1, <3>2, <4>1, <5>1, WidthType
      <4>3. num = local[c] + 1
        BY <4>1, <4>2, Increment
      <4>4. QED
        BY <3>1, <4>3
    <3>3. QED
      BY <2>2, <3>1, <3>2 DEF Place
  <2>3. QED
    BY <2>1, <2>2 DEF RateInv, RateTypes
<1>8. OneBusy'
  BY <1>1, <1>3, <1>6, <1>7 DEF OneBusy
<1>9. CountedSince'
  <2>1. causes = {} => ~ crowded /\ last <= clock
    BY DEF RateInv, CountedSince
  <2>2. causes = {} /\ last = clock => counted >= Every
    BY <1>1, <1>2, <1>7, <2>1 DEF RateInv, CountedSince
  <2>3. QED
    BY <1>1, <1>3, <1>4, <2>1, <2>2 DEF CountedSince
<1>10. QED
  BY <1>1, <1>5, <1>8, <1>9 DEF RateInv, ZeroIntervalExplained

\* The report reads the clock (xrpc_service.cpp:47 and 155).
LEMMA ClockKeeps ==
  ASSUME RateInv, NEW c \in Call, new_timestamp(c)
  PROVE  RateInv'
<1>1. /\ ended = "no" /\ pc[c] = "read_clock" /\ pc' = [pc EXCEPT ![c] = "divide"]
      /\ local' = [local EXCEPT ![c] = clock]
      /\ UNCHANGED <<service, num, last, clock, ended, counted, crowded, causes>>
  BY DEF new_timestamp, Goto
<1>2. c \in Busy
  BY <1>1 DEF Busy
<1>3. local'[c] = clock /\ \A d \in Call : d # c => local'[d] = local[d]
  BY <1>1 DEF RateInv, RateTypes
<1>4. /\ pc'[c] = "divide" /\ \A d \in Call : d # c => pc'[d] = pc[d]
      /\ ~ crowded =>
            /\ \A d \in Call : d # c =>
                pc'[d] \in {"handle", "count", "check", "done"} /\ d \notin Busy'
            /\ Busy' \subseteq {c}
  BY <1>1, <1>2, <1>3, GoesOn
<1>5. c \in Busy'
  BY <1>4 DEF Busy
<1>6. RateTypes'
  <2>1. clock \in 1..MaxClock /\ clock \in Nat
    BY RateConstants DEF RateInv, RateTypes
  <2>2. local' \in [Call -> Nat]
    BY <1>1, <2>1 DEF RateInv, RateTypes
  <2>3. QED
    BY <1>1, <1>3, <1>4, <2>1, <2>2 DEF RateInv, RateTypes
<1>7. Place' = Place
  BY <1>1 DEF Place
<1>8. OneBusy'
  BY <1>1, <1>3, <1>4, <1>7 DEF RateInv, OneBusy
<1>9. CountedSince'
  <2>1. causes = {} => ~ crowded /\ last <= clock
    BY DEF RateInv, CountedSince
  <2>2. causes = {} /\ last = clock => counted >= Every
    BY <1>1 DEF RateInv, CountedSince
  <2>3. QED
    BY <1>1, <1>3, <1>4, <1>5, <2>1, <2>2 DEF CountedSince
<1>10. QED
  BY <1>1, <1>6, <1>8, <1>9 DEF RateInv, ZeroIntervalExplained

\* The division ends the process only for the reasons that are named
\* (xrpc_service.cpp:48 and 156).
LEMMA DivideKeeps ==
  ASSUME RateInv, NEW c \in Call, divide(c)
  PROVE  RateInv'
<1>1. /\ ended = "no" /\ pc[c] = "divide" /\ pc' = [pc EXCEPT ![c] = "update"]
      /\ ended' = IF local[c] = last THEN "division" ELSE "no"
      /\ UNCHANGED <<service, local, num, last, clock, counted, crowded, causes>>
  BY DEF divide, Goto
<1>2. c \in Busy
  BY <1>1 DEF Busy
<1>3. /\ pc'[c] = "update" /\ \A d \in Call : d # c => pc'[d] = pc[d]
      /\ ~ crowded =>
            /\ \A d \in Call : d # c =>
                pc'[d] \in {"handle", "count", "check", "done"} /\ d \notin Busy'
            /\ Busy' \subseteq {c}
  BY <1>1, <1>2, GoesOn
<1>4. c \in Busy'
  BY <1>3 DEF Busy
<1>5. RateTypes'
  BY <1>1, <1>3 DEF RateInv, RateTypes
<1>6. Place' = Place
  BY <1>1 DEF Place
<1>7. OneBusy'
  BY <1>1, <1>3, <1>6 DEF RateInv, OneBusy
<1>8. CountedSince'
  <2>1. causes = {} => ~ crowded /\ last <= clock
    BY DEF RateInv, CountedSince
  <2>2. QED
    BY <1>1, <1>3, <1>4, <2>1 DEF CountedSince
<1>9. ZeroIntervalExplained'
  BY <1>1 DEF RateInv, CountedSince, ZeroIntervalExplained
<1>10. QED
  BY <1>5, <1>7, <1>8, <1>9 DEF RateInv

\* The report leaves its time for the next one (xrpc_service.cpp:49 and 157).
LEMMA UpdateKeeps ==
  ASSUME RateInv, NEW c \in Call, update_last(c)
  PROVE  RateInv'
<1>1. /\ ended = "no" /\ pc[c] = "update" /\ pc' = [pc EXCEPT ![c] = "done"]
      /\ last' = local[c] /\ counted' = 0
      /\ causes' = {} => ~ crowded /\ ~ (clock < local[c])
      /\ UNCHANGED <<service, local, num, clock, ended, crowded>>
  BY DEF update_last, Goto, Cause
<1>2. c \in Busy /\ local[c] \in 1..MaxClock /\ clock \in 1..MaxClock /\ MaxClock \in Nat
  BY <1>1, RateConstants DEF Busy, RateInv, RateTypes
<1>3. /\ pc'[c] = "done" /\ \A d \in Call : d # c => pc'[d] = pc[d]
      /\ ~ crowded =>
            /\ \A d \in Call : d # c =>
                pc'[d] \in {"handle", "count", "check", "done"} /\ d \notin Busy'
            /\ Busy' = {}
  BY <1>1, <1>2, GoesOn
<1>4. RateTypes'
  <2>1. last' \in 0..MaxClock /\ counted' \in Nat
    BY <1>1, <1>2
  <2>2. QED
    BY <1>1, <1>3, <2>1 DEF RateInv, RateTypes
<1>5. Place' = Place /\ (~ crowded => Place = 0)
  BY <1>1 DEF Place, RateInv, OneBusy
<1>6. OneBusy'
  BY <1>1, <1>3 DEF OneBusy
<1>7. CountedSince'
  <2>1. causes' = {} => last' <= clock' /\ ~ crowded' /\ counted' >= Place'
    BY <1>1, <1>2, <1>5
  <2>2. QED
    BY <1>1, <1>3, <2>1 DEF CountedSince
<1>8. QED
  BY <1>1, <1>4, <1>6, <1>7 DEF RateInv, ZeroIntervalExplained

\* When the clock goes on, what was counted before does not matter any more; when
\* it is set back, that is a cause.
LEMMA TickKeeps == ASSUME RateInv, Tick \/ SetBack PROVE RateInv'
<1>1. /\ ended = "no" /\ clock' \in 1..MaxClock
      /\ causes' = {} => causes = {} /\ clock' = clock + 1
      /\ UNCHANGED <<service, pc, local, num, last, ended, counted, crowded>>
  <2>1. clock \in 1..MaxClock /\ MaxClock \in Nat
    BY RateConstants DEF RateInv, RateTypes
  <2>2. CASE Tick
    BY <2>1, <2>2 DEF Tick
  <2>3. CASE SetBack
    <3>1. /\ ended = "no" /\ clock' \in 1..(clock - 1)
          /\ causes' = causes \cup {"set back"}
          /\ UNCHANGED <<service, pc, local, num, last, ended, counted, crowded>>
      BY <2>3 DEF SetBack
    <3>2. clock' \in 1..MaxClock
      <4>1. \A k \in 1..(clock - 1) : k \in 1..MaxClock
        BY <2>1
      <4>2. QED
        BY <3>1, <4>1
    <3>3. "set back" \in causes'
      BY <3>1
    <3>4. causes' # {}
      BY <3>3
    <3>5. QED
      BY <3>1, <3>2, <3>4
  <2>4. QED
    BY <2>2, <2>3
<1>2. clock \in 1..MaxClock /\ MaxClock \in Nat /\ last \in 0..MaxClock
  BY RateConstants DEF RateInv, RateTypes
<1>3. RateTypes'
  BY <1>1 DEF RateInv, RateTypes
<1>4. Busy' = Busy /\ Place' = Place
  BY <1>1 DEF Busy, report_due, Place
<1>5. OneBusy'
  BY <1>1, <1>4 DEF RateInv, OneBusy
<1>6. CountedSince'
  <2>1. causes' = {} => last < clock' /\ last <= clock' /\ last # clock'
    BY <1>1, <1>2 DEF RateInv, CountedSince
  <2>2. QED
    BY <1>1, <1>4, <2>1 DEF RateInv, CountedSince
<1>7. QED
  BY <1>1, <1>3, <1>5, <1>6 DEF RateInv, ZeroIntervalExplained

\* Every step keeps the invariant.
LEMMA NextRate == RateInv /\ [Next]_vars => RateInv'
<1> SUFFICES ASSUME RateInv, [Next]_vars PROVE RateInv'
  OBVIOUS
<1>1. CASE UNCHANGED vars
  BY <1>1 DEF vars, RateInv, RateTypes, OneBusy, CountedSince, ZeroIntervalExplained,
              Busy, report_due, Place
<1>2. QED
  BY <1>1, OutsideKeeps, LoadKeeps, FetchKeeps, StoreKeeps, NoReportKeeps, ReportKeeps,
     ClockKeeps, DivideKeeps, UpdateKeeps, TickKeeps DEF Next

\* For any number of calls, length of a round and width of the counter, and a clock
\* that may be set back: the process divides by zero only after a whole round of
\* calls in the millisecond of the last report; or because, since that report, counts
\* have overlapped, the number went back to zero, the clock was set back, or
\* m_last_timestamp had no value yet (xrpc_service.cpp:44-51 and 152-159).
THEOREM ZeroIntervalExplainedHolds == Spec => []ZeroIntervalExplained
<1>1. RateInv => ZeroIntervalExplained
  BY DEF RateInv
<1>2. QED
  BY InitRate, NextRate, <1>1, PTL DEF Spec
=============================================================================
