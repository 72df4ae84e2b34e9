------------------------- MODULE XrpcQueriesProofs -------------------------
(***************************************************************************)
(* Theorems about XrpcQueries, for any accounts, threads, readers and      *)
(* bounds: what a client can conclude from the answers it got, while       *)
(* transactions are requested, decided and applied beside the queries.     *)
(***************************************************************************)
EXTENDS XrpcQueries, XrpcHandlerProofs
-----------------------------------------------------------------------------
(* The inductive invariant *)

Asking == [at : {"get_settle_blocks", "get_receive_blocks"}, account : Account,
           unit : Nat, snap : Nat, floor : Nat, settled : Nat]

QueryTypes ==
    /\ query \in [Reader -> {Idle} \cup Asking]
    /\ \A r \in Reader : query[r] # Idle => query[r].unit \in 1..applied
    /\ newest \in [Account -> Nat]
    /\ told \in [Account -> [digest : Nat, at : Nat]]
    /\ refused \subseteq Account
    /\ since \in [Worker -> SUBSET refused]

\* The store shows unit i of account a.
Shown(a, i) == i \in get_settle_blocks(LocalView, a) /\ exist_account(LocalView, a)

\* Unit i was the last one of a when the store had applied s decisions.
LastUpTo(a, i, s) ==
    /\ s \in 0..applied /\ i \in 1..s
    /\ TxAt(i).sender = a
    /\ \A k \in 1..s : TxAt(k).sender = a => k <= i

\* What clients have heard of is still in the store.
NewestShown == \A a \in Account : ~ Deleted(a) => newest[a] = 0 \/ Shown(a, newest[a])

\* An account_info goes on from the unit of its snapshot; what it did not find
\* among the settled blocks came after it.
StageOK(q) ==
    q # Idle /\ ~ Deleted(q.account) =>
        /\ Shown(q.account, q.unit) /\ q.floor <= q.unit
        /\ LastUpTo(q.account, q.unit, q.snap)
        /\ q.at = "get_receive_blocks" =>
              /\ q.settled <= applied
              /\ \A j \in SettledTransferIn(LocalView, q.account) : j > q.settled

QueryStage == \A r \in Reader : StageOK(query[r])

\* The digest a client was told was that of the last unit at the time.
ToldLast ==
    \A a \in Account : ~ Deleted(a) /\ told[a].digest # Zero =>
        \E i \in 1..applied :
            LastUpTo(a, i, told[a].at) /\ DigestAt(i) = told[a].digest

\* What made account_info say "give": 0 was sent to the account.
RefusedPaid == \A a \in refused : ~ Deleted(a) => SentTo(a) # {}

\* A give that began after that, and has seen nothing to receive, will see that
\* the account has taken a transfer in.
GiveSees ==
    \A w \in Worker :
        LET a == hashed[tx[w]].receiver
        IN  pc[w] = "give_get_settle_blocks" /\ a \in since[w] /\ ~ Deleted(a)
            => SettledTransferIn(LocalView, a) # {}

QInv ==
    /\ IInv /\ ReceivedWasSent /\ QueryTypes /\ NewestShown /\ QueryStage
    /\ ToldLast /\ RefusedPaid /\ GiveSees
-----------------------------------------------------------------------------
(* The store beside the queries *)

LEMMA StepOfHandler == [QueriesNext]_<<vars, queryVars>> => [Next]_vars
  BY DEF QueriesNext, Requests, Queries

\* The beginning of an account's units that was shown stays as it was.
LEMMA ShownStays ==
    ASSUME TypeOK, DeletionInv, [Next]_vars, NEW a \in Account, ~ Deleted(a)'
    PROVE  /\ ~ Deleted(a)
           /\ \A i : Shown(a, i) => Shown(a, i)'
           /\ \A i, s : LastUpTo(a, i, s) => LastUpTo(a, i, s)' /\ DigestAt(i)' = DigestAt(i)
           /\ SentTo(a) # {} => SentTo(a)' # {}
           /\ SettledTransferIn(LocalView, a) # {} => SettledTransferIn(LocalView, a)' # {}
           /\ \A j \in SettledTransferIn(LocalView, a)' :
                 j \in SettledTransferIn(LocalView, a) \/ j > applied
<1>1. ~ Deleted(a) /\ localFrom[a] = 0 /\ localFrom'[a] = 0
  <2>1. ~ Deleted(a) /\ localFrom[a] \in Nat /\ localFrom'[a] \in Nat
    BY StillOpen, TypeNext DEF TypeOK, LedgerTypeOK
  <2> QED BY <2>1 DEF Deleted
<1>2. /\ applied \in Nat /\ applied' \in Nat /\ applied <= applied'
      /\ 1..applied \subseteq 1..Len(log) /\ 1..applied \subseteq 1..applied'
  BY LogGrows
<1>3. \A i \in 1..applied : TxAt(i)' = TxAt(i) /\ DigestAt(i)' = DigestAt(i)
  BY <1>2, LogGrows
<1>4. \A i : Shown(a, i) => Shown(a, i)'
  BY ViewGrows DEF Shown
<1>5. ASSUME NEW i, NEW s, LastUpTo(a, i, s)
      PROVE  LastUpTo(a, i, s)' /\ DigestAt(i)' = DigestAt(i)
  <2>1. s \in 0..applied /\ s \in 0..applied' /\ i \in 1..applied /\ 1..s \subseteq 1..applied
    BY <1>2, <1>5 DEF LastUpTo
  <2>2. \A k \in 1..s : TxAt(k)' = TxAt(k)
    BY <1>3, <2>1
  <2> QED BY <1>3, <1>5, <2>1, <2>2 DEF LastUpTo
<1>6. SentTo(a) # {} => SentTo(a)' # {}
  BY <1>2, <1>3 DEF SentTo
<1>7. SettledTransferIn(LocalView, a) # {} => SettledTransferIn(LocalView, a)' # {}
  BY ViewGrows
<1>8. ASSUME NEW j \in SettledTransferIn(LocalView, a)', ~ (j > applied)
      PROVE  j \in SettledTransferIn(LocalView, a)
  <2>1. j \in 1..applied' /\ TxAt(j)'.sender = a /\ TxAt(j)'.type = "transfer_asset_in"
    BY <1>1, <1>8 DEF SettledTransferIn, get_settle_blocks, LocalView
  <2>2. j \in 1..applied
    BY <1>2, <1>8, <2>1
  <2>3. TxAt(j).sender = a /\ TxAt(j).type = "transfer_asset_in"
    BY <1>3, <2>1, <2>2
  <2> QED BY <1>1, <2>2, <2>3 DEF SettledTransferIn, get_settle_blocks, LocalView
<1> QED BY <1>1, <1>4, <1>5, <1>6, <1>7, <1>8

\* The last unit that the store shows of an account that is not deleted is the last
\* of all that the store has applied.
LEMMA LastUnitShown ==
    ASSUME TypeOK, NEW a \in Account, ~ Deleted(a), NEW i \in last_unit(LocalView, a)
    PROVE  /\ Shown(a, i) /\ LastUpTo(a, i, applied) /\ i \in Nat
           /\ \A k : Shown(a, k) => k <= i
<1>1. localFrom[a] = 0 /\ applied \in Nat
  BY DEF TypeOK, LedgerTypeOK, Deleted
<1>2. \A k : k \in get_settle_blocks(LocalView, a) <=> k \in 1..applied /\ TxAt(k).sender = a
  BY <1>1 DEF get_settle_blocks, LocalView
<1>3. Shown(a, i) /\ \A k \in get_settle_blocks(LocalView, a) : k <= i
  BY DEF last_unit, Shown
<1>4. i \in 1..applied /\ TxAt(i).sender = a
  BY <1>2, <1>3 DEF Shown
<1>5. \A k \in 1..applied : TxAt(k).sender = a => k <= i
  BY <1>2, <1>3
<1>6. applied \in 0..applied /\ i \in Nat
  BY <1>1, <1>4
<1> QED BY <1>3, <1>4, <1>5, <1>6 DEF LastUpTo, Shown

\* An account that is not found was never heard of.
LEMMA NotFound ==
    ASSUME TypeOK, NEW a \in Account, last_unit(LocalView, a) = {}, NEW i, Shown(a, i)
    PROVE  FALSE
  BY LastUnitFound DEF Shown

\* What a transfer_in that the store shows has taken in was sent to the account.
LEMMA SettledWasSent ==
    ASSUME TypeOK, ReceivedWasSent, NEW a \in Account, SettledTransferIn(LocalView, a) # {}
    PROVE  SentTo(a) # {}
<1>1. PICK j \in get_settle_blocks(LocalView, a) : TxAt(j).type = "transfer_asset_in"
  BY DEF SettledTransferIn
<1>2. j \in 1..applied /\ j \in DOMAIN log
  BY <1>1, ViewDecided
<1>3. TxAt(j).sender = a
  BY <1>1 DEF get_settle_blocks
<1>4. PICK k \in 1..(j - 1) : TxAt(k).type = "transfer_asset_out" /\ TxAt(k).receiver = a
  BY <1>1, <1>2, <1>3 DEF ReceivedWasSent
<1>5. applied \in Nat
  BY DEF TypeOK, LedgerTypeOK
<1>6. k \in 1..applied
  BY <1>2, <1>4, <1>5
<1> QED BY <1>4, <1>6 DEF SentTo

\* Where nothing is left to receive all that was sent was taken in.
LEMMA AllTakenIn ==
    ASSUME TypeOK, NEW a \in Account, ~ Deleted(a), get_receive_blocks(LocalView, a) = {},
           NEW k \in SentTo(a)
    PROVE  \E j \in SettledTransferIn(LocalView, a) : TxAt(j).origin = DigestAt(k)
<1>1. localFrom[a] = 0
  BY DEF TypeOK, LedgerTypeOK, Deleted
<1>2. k \in (LocalView.from[a] + 1)..LocalView.upto
  BY <1>1 DEF SentTo, LocalView
<1> QED BY <1>2 DEF get_receive_blocks, SentTo

LEMMA ReceivableWasSent ==
    ASSUME TypeOK, NEW a \in Account, get_receive_blocks(LocalView, a) # {}
    PROVE  SentTo(a) # {}
<1>1. get_receive_blocks(LocalView, a) \subseteq 1..applied
  BY ViewDecided
<1> QED BY <1>1 DEF get_receive_blocks, SentTo
-----------------------------------------------------------------------------
(* The steps of the queries *)

\* An answer computed from the account's last unit, or from none.
FromLastUnit(r, name, a, unit, rest) ==
    /\ Reply(r, name, a, unit, newest[a], rest)
    /\ name = "account_info" => rest.code # "xrpc_ok"
    /\ \/ unit = 0 /\ last_unit(LocalView, a) = {} /\ UNCHANGED told
       \/ /\ unit \in last_unit(LocalView, a)
          /\ \/ UNCHANGED told
             \/ told' = [told EXCEPT ![a] = [digest |-> DigestAt(unit), at |-> applied]]
    /\ UNCHANGED refused

AnswersAtOnce(r) ==
    \E a \in Account : \E name, unit, rest : FromLastUnit(r, name, a, unit, rest)

LEMMA OneStoreCall ==
    ASSUME NEW r \in Reader,
           \/ account_balance(r) \/ last_digest(r) \/ query_property(r)
           \/ query_all_property(r)
    PROVE  AnswersAtOnce(r)
<1>1. ASSUME NEW name \in {"account_balance", "last_digest", "query_property",
                           "query_all_property"},
             NEW a \in Account, account_not_found(r, name, a)
      PROVE  AnswersAtOnce(r)
  BY <1>1 DEF account_not_found, Plain, AnswersAtOnce, FromLastUnit
<1>2. ASSUME NEW name \in {"account_balance", "query_property", "query_all_property"},
             NEW a \in Account, NEW i \in last_unit(LocalView, a), NEW rest,
             Plain(r, name, a, i, rest)
      PROVE  AnswersAtOnce(r)
  BY <1>2 DEF Plain, AnswersAtOnce, FromLastUnit
<1>3. CASE account_balance(r)
  BY <1>1, <1>2, <1>3 DEF account_balance
<1>4. CASE last_digest(r)
  <2>1. PICK a \in Account :
           \/ account_not_found(r, "last_digest", a)
           \/ \E i \in last_unit(LocalView, a) :
                /\ Reply(r, "last_digest", a, i, newest[a], [code |-> "xrpc_ok"])
                /\ told' = [told EXCEPT ![a] = [digest |-> DigestAt(i), at |-> applied]]
                /\ UNCHANGED refused
    BY <1>4 DEF last_digest
  <2>2. CASE \E i \in last_unit(LocalView, a) :
                /\ Reply(r, "last_digest", a, i, newest[a], [code |-> "xrpc_ok"])
                /\ told' = [told EXCEPT ![a] = [digest |-> DigestAt(i), at |-> applied]]
                /\ UNCHANGED refused
    BY <2>2 DEF AnswersAtOnce, FromLastUnit
  <2> QED BY <1>1, <2>1, <2>2
<1>5. CASE query_property(r)
  BY <1>1, <1>2, <1>5 DEF query_property
<1>6. CASE query_all_property(r)
  BY <1>1, <1>2, <1>6 DEF query_all_property
<1> QED BY <1>3, <1>4, <1>5, <1>6

\* The steps of account_info, with what they know of the store.
InfoSteps(r) ==
    LET a == query[r].account
    IN  \/ \E b \in Account : \E i \in last_unit(LocalView, b) : Snapshot(r, b, i)
        \/ /\ query[r].at = "get_settle_blocks"
           /\ SettledTransferIn(LocalView, a) # {} /\ InfoReply(r, 0)
        \/ /\ query[r].at = "get_settle_blocks"
           /\ SettledTransferIn(LocalView, a) = {}
           /\ query' = [query EXCEPT ![r].at = "get_receive_blocks", ![r].settled = applied]
           /\ reply' = NoReply
           /\ UNCHANGED <<newest, told, refused>>
        \/ /\ query[r].at = "get_receive_blocks"
           /\ get_receive_blocks(LocalView, a) # {} /\ InfoReply(r, 0)
        \/ /\ query[r].at = "get_receive_blocks"
           /\ get_receive_blocks(LocalView, a) = {} /\ InfoReply(r, 1)

LEMMA QuerySteps ==
    ASSUME Queries
    PROVE  UNCHANGED <<vars, since>> /\ \E r \in Reader : AnswersAtOnce(r) \/ InfoSteps(r)
<1>1. PICK r \in Reader :
        \/ account_balance(r) \/ last_digest(r) \/ query_property(r)
        \/ query_all_property(r) \/ account_info(r)
        \/ account_info_settle(r) \/ account_info_receive(r)
  BY DEF Queries
<1>2. ASSUME account_info(r)
      PROVE  AnswersAtOnce(r) \/ InfoSteps(r)
  <2>1. PICK a \in Account :
           \/ account_not_found(r, "account_info", a)
           \/ \E i \in last_unit(LocalView, a) : Snapshot(r, a, i)
    BY <1>2 DEF account_info
  <2>2. CASE account_not_found(r, "account_info", a)
    BY <2>2 DEF account_not_found, Plain, AnswersAtOnce, FromLastUnit
  <2>3. CASE \E i \in last_unit(LocalView, a) : Snapshot(r, a, i)
    BY <2>3, Zenon DEF InfoSteps
  <2> QED BY <2>1, <2>2, <2>3
<1>3. account_info_settle(r) => InfoSteps(r)
  BY Zenon DEF account_info_settle, InfoSteps
<1>4. account_info_receive(r) => InfoSteps(r)
  BY DEF account_info_receive, InfoSteps
<1> QED BY <1>1, <1>2, <1>3, <1>4, OneStoreCall DEF Queries
-----------------------------------------------------------------------------
(* Types *)

\* What an account_info under way remembers.
LEMMA AskingType ==
    ASSUME TypeOK, QueryTypes, NEW r \in Reader,
           query[r].at \in {"get_settle_blocks", "get_receive_blocks"}
    PROVE  /\ query[r] # Idle /\ query[r] \in Asking
           /\ query[r].account \in Account
           /\ query[r].unit \in 1..applied /\ query[r].unit \in DOMAIN log
           /\ query[r].floor \in Nat /\ query[r].snap \in Nat /\ query[r].settled \in Nat
           /\ DigestAt(query[r].unit) \in Nat
<1>1. query[r] # Idle /\ query[r] \in {Idle} \cup Asking
  BY DEF QueryTypes, Idle
<1>2. query[r] \in Asking /\ query[r].unit \in 1..applied
  BY <1>1 DEF QueryTypes
<1>3. query[r].unit \in DOMAIN log
  BY <1>2 DEF TypeOK, LedgerTypeOK
<1>4. DigestAt(query[r].unit) \in 1..Len(hashed)
  BY <1>3, TxAtType
<1> QED BY <1>1, <1>2, <1>3, <1>4 DEF Asking

LEMMA LastUnitType ==
    ASSUME TypeOK, NEW a \in Account, NEW i \in last_unit(LocalView, a)
    PROVE  i \in 1..applied /\ i \in Nat /\ DigestAt(i) \in Nat /\ applied \in Nat
<1>1. i \in 1..applied /\ i \in DOMAIN log /\ applied \in Nat
  BY ViewDecided DEF TypeOK, LedgerTypeOK
<1> QED BY <1>1, TxAtType

\* An answer of a unit of the log keeps the types.
LEMMA ReplyType ==
    ASSUME QueryTypes, NEW r \in Reader, NEW name, NEW a \in Account, NEW unit \in Nat,
           NEW floor, NEW rest, Reply(r, name, a, unit, floor, rest),
           NEW digest \in Nat, NEW at \in Nat,
           \/ UNCHANGED told
           \/ told' = [told EXCEPT ![a] = [digest |-> digest, at |-> at]],
           UNCHANGED <<since, applied>>, refused' \subseteq Account, refused \subseteq refused'
    PROVE  QueryTypes'
<1>1. query' \in [Reader -> {Idle} \cup Asking]
  BY DEF Reply, QueryTypes
<1>2. \A v \in Reader : query'[v] # Idle => query'[v].unit \in 1..applied'
  BY DEF Reply, QueryTypes
<1>3. newest' \in [Account -> Nat]
  BY DEF Reply, QueryTypes
<1>4. told' \in [Account -> [digest : Nat, at : Nat]]
  BY DEF QueryTypes
<1>5. since' \in [Worker -> SUBSET refused']
  BY DEF QueryTypes
<1> QED BY <1>1, <1>2, <1>3, <1>4, <1>5 DEF QueryTypes

LEMMA InfoReplyType ==
    ASSUME TypeOK, QueryTypes, NEW r \in Reader, NEW open \in {0, 1}, InfoReply(r, open),
           query[r].at \in {"get_settle_blocks", "get_receive_blocks"},
           UNCHANGED <<since, applied>>
    PROVE  QueryTypes'
<1> DEFINE q == query[r]
<1>1. q.account \in Account /\ q.unit \in Nat /\ q.snap \in Nat /\ DigestAt(q.unit) \in Nat
  BY AskingType DEF Asking
<1>2. PICK rest : Reply(r, "account_info", q.account, q.unit, q.floor, rest)
  BY DEF InfoReply
<1>3. told' = [told EXCEPT ![q.account] = [digest |-> DigestAt(q.unit), at |-> q.snap]]
  BY DEF InfoReply
<1>4. refused' \subseteq Account /\ refused \subseteq refused'
  BY <1>1 DEF InfoReply, QueryTypes
<1> HIDE DEF q
<1> QED BY <1>1, <1>2, <1>3, <1>4, ReplyType

LEMMA QueryTypesNext ==
    ASSUME TypeOK, QueryTypes, [QueriesNext]_<<vars, queryVars>>
    PROVE  QueryTypes'
<1>1. CASE Requests
  <2>1. applied <= applied' /\ applied \in Nat /\ applied' \in Nat
    BY StepOfHandler, LogGrows
  <2>2. \A r \in Reader : query[r] # Idle => query[r].unit \in 1..applied'
    BY <2>1 DEF QueryTypes
  <2>3. since' \in [Worker -> SUBSET refused]
    BY <1>1 DEF Requests, QueryTypes
  <2> QED BY <1>1, <2>2, <2>3 DEF Requests, QueryTypes
<1>2. ASSUME NEW r \in Reader, AnswersAtOnce(r), UNCHANGED <<vars, since>>
      PROVE  QueryTypes'
  <2>1. PICK a \in Account : \E name, unit, rest : FromLastUnit(r, name, a, unit, rest)
    BY <1>2 DEF AnswersAtOnce
  <2> PICK name, unit, rest : FromLastUnit(r, name, a, unit, rest)
    BY <2>1
  <2>2. UNCHANGED <<since, applied>> /\ refused' \subseteq Account /\ refused \subseteq refused'
    BY <1>2 DEF FromLastUnit, vars, ledgerVars, QueryTypes
  <2>3. CASE unit = 0 /\ UNCHANGED told
    BY <2>2, <2>3, ReplyType DEF FromLastUnit
  <2>4. CASE unit \in last_unit(LocalView, a)
    <3>1. unit \in Nat /\ DigestAt(unit) \in Nat /\ applied \in Nat
      BY <2>4, LastUnitType
    <3> QED BY <2>2, <3>1, ReplyType DEF FromLastUnit
  <2> QED BY <2>3, <2>4 DEF FromLastUnit
<1>3. ASSUME NEW r \in Reader, InfoSteps(r), UNCHANGED <<vars, since>>
      PROVE  QueryTypes'
  <2>1. UNCHANGED <<since, applied>>
    BY <1>3 DEF vars, ledgerVars
  <2>2. ASSUME NEW b \in Account, NEW i \in last_unit(LocalView, b), Snapshot(r, b, i)
        PROVE  QueryTypes'
    <3>1. i \in 1..applied /\ i \in Nat /\ applied \in Nat
      BY <2>2, LastUnitType
    <3> DEFINE q == [at |-> "get_settle_blocks", account |-> b, unit |-> i,
                     snap |-> applied, floor |-> newest[b], settled |-> 0]
    <3>2. q \in Asking /\ query' = [query EXCEPT ![r] = q] /\ q.unit \in 1..applied'
      BY <2>1, <2>2, <3>1 DEF Snapshot, Asking, QueryTypes
    <3> HIDE DEF q
    <3>3. query' \in [Reader -> {Idle} \cup Asking]
      BY <3>2 DEF QueryTypes
    <3>4. \A v \in Reader : query'[v] # Idle => query'[v].unit \in 1..applied'
      BY <2>1, <3>2 DEF QueryTypes
    <3> QED BY <2>1, <2>2, <3>3, <3>4 DEF Snapshot, QueryTypes
  <2>3. CASE /\ query[r].at = "get_settle_blocks"
             /\ query' = [query EXCEPT ![r].at = "get_receive_blocks", ![r].settled = applied]
             /\ reply' = NoReply
             /\ UNCHANGED <<newest, told, refused>>
    <3>1. query[r] \in Asking /\ query[r].unit \in 1..applied /\ applied \in Nat
      BY <2>3, AskingType DEF TypeOK, LedgerTypeOK
    <3> DEFINE q == [query[r] EXCEPT !.at = "get_receive_blocks", !.settled = applied]
    <3>2. q \in Asking /\ q.unit = query[r].unit
      BY <3>1 DEF Asking
    <3>3. query' = [query EXCEPT ![r] = q]
      BY <2>3
    <3> HIDE DEF q
    <3>4. query' \in [Reader -> {Idle} \cup Asking]
      BY <3>2, <3>3 DEF QueryTypes
    <3>5. \A v \in Reader : query'[v] # Idle => query'[v].unit \in 1..applied'
      BY <2>1, <3>1, <3>2, <3>3 DEF QueryTypes
    <3> QED BY <2>1, <2>3, <3>4, <3>5 DEF QueryTypes
  <2> QED BY <1>3, <2>1, <2>2, <2>3, InfoReplyType DEF InfoSteps
<1>4. CASE UNCHANGED <<vars, queryVars>>
  BY <1>4 DEF vars, ledgerVars, queryVars, clientVars, QueryTypes
<1> QED BY <1>1, <1>2, <1>3, <1>4, QuerySteps DEF QueriesNext
-----------------------------------------------------------------------------
(* What the queries know of the store stays true *)

LEMMA ReplyNewest ==
    ASSUME QueryTypes, NEW r \in Reader, NEW name, NEW b \in Account, NEW unit \in Nat,
           NEW floor, NEW rest, Reply(r, name, b, unit, floor, rest), NEW a \in Account
    PROVE  newest'[a] = newest[a] \/ (a = b /\ unit > newest[b] /\ newest'[a] = unit)
  BY DEF Reply, QueryTypes

LEMMA NewestShownNext ==
    ASSUME QInv, [QueriesNext]_<<vars, queryVars>>
    PROVE  NewestShown'
<1> USE DEF QInv, IInv
<1>1. SUFFICES ASSUME NEW a \in Account, ~ Deleted(a)', NEW n, n = newest'[a]
               PROVE  n = 0 \/ Shown(a, n)
  <2>1. ASSUME NEW a \in Account, ~ Deleted(a)', NEW n, n = 0 \/ Shown(a, n)
        PROVE  n = 0 \/ Shown(a, n)'
    BY <2>1, ShownStays, StepOfHandler
  <2>2. \A a \in Account : ~ Deleted(a)' => newest'[a] = 0 \/ Shown(a, newest'[a])
    BY <1>1
  <2> QED BY <2>1, <2>2 DEF NewestShown
<1>2. ~ Deleted(a) /\ (newest[a] = 0 \/ Shown(a, newest[a]))
  BY <1>1, ShownStays, StepOfHandler DEF NewestShown
<1>3. CASE newest'[a] = newest[a]
  BY <1>1, <1>2, <1>3
<1>4. ASSUME NEW r \in Reader, AnswersAtOnce(r)
      PROVE  n = 0 \/ Shown(a, n)
  <2>1. PICK b \in Account : \E name, unit, rest : FromLastUnit(r, name, b, unit, rest)
    BY <1>4 DEF AnswersAtOnce
  <2>2. PICK name, unit, rest : FromLastUnit(r, name, b, unit, rest)
    BY <2>1
  <2>3. CASE unit = 0
    BY <1>1, <1>3, <2>2, <2>3, ReplyNewest DEF FromLastUnit, QueryTypes
  <2>4. CASE unit \in last_unit(LocalView, b)
    <3>1. unit \in Nat /\ (a = b => Shown(a, unit))
      BY <1>2, <2>4, LastUnitType, LastUnitShown
    <3> QED BY <1>1, <1>3, <2>2, <3>1, ReplyNewest DEF FromLastUnit
  <2> QED BY <2>2, <2>3, <2>4 DEF FromLastUnit
<1>5. ASSUME NEW r \in Reader, InfoSteps(r)
      PROVE  n = 0 \/ Shown(a, n)
  <2>1. ASSUME NEW open, InfoReply(r, open),
               query[r].at \in {"get_settle_blocks", "get_receive_blocks"}
        PROVE  n = 0 \/ Shown(a, n)
    <3>1. /\ query[r] # Idle /\ query[r].account \in Account /\ query[r].unit \in Nat
          /\ a = query[r].account => Shown(a, query[r].unit)
      BY <1>2, <2>1, AskingType DEF QueryStage, StageOK, Asking
    <3>2. \E rest : Reply(r, "account_info", query[r].account, query[r].unit, query[r].floor, rest)
      BY <2>1 DEF InfoReply
    <3> QED BY <1>1, <1>3, <3>1, <3>2, ReplyNewest
  <2>2. ASSUME NEW b, NEW i, Snapshot(r, b, i)
        PROVE  newest' = newest
    BY <2>2 DEF Snapshot
  <2> QED BY <1>3, <1>5, <2>1, <2>2 DEF InfoSteps
<1>6. CASE Requests
  BY <1>3, <1>6 DEF Requests
<1>7. CASE UNCHANGED <<vars, queryVars>>
  BY <1>3, <1>7 DEF queryVars, clientVars
<1> QED BY <1>4, <1>5, <1>6, <1>7, QuerySteps DEF QueriesNext

LEMMA StageStays ==
    ASSUME TypeOK, DeletionInv, [Next]_vars, NEW q \in {Idle} \cup Asking, StageOK(q)
    PROVE  StageOK(q)'
<1>1. SUFFICES ASSUME q \in Asking, ~ Deleted(q.account)'
               PROVE  /\ Shown(q.account, q.unit)' /\ q.floor <= q.unit
                      /\ LastUpTo(q.account, q.unit, q.snap)'
                      /\ q.at = "get_receive_blocks" =>
                            /\ q.settled <= applied'
                            /\ \A j \in SettledTransferIn(LocalView, q.account)' : j > q.settled
  BY DEF StageOK
<1>2. q # Idle
  BY <1>1 DEF Asking, Idle
<1>3. q.account \in Account /\ q.settled \in Nat
  BY <1>1 DEF Asking
<1>4. /\ ~ Deleted(q.account)
      /\ Shown(q.account, q.unit) => Shown(q.account, q.unit)'
      /\ LastUpTo(q.account, q.unit, q.snap) => LastUpTo(q.account, q.unit, q.snap)'
      /\ \A j \in SettledTransferIn(LocalView, q.account)' :
            j \in SettledTransferIn(LocalView, q.account) \/ j > applied
  BY <1>1, <1>3, ShownStays
<1>5. applied \in Nat /\ applied' \in Nat /\ applied <= applied'
  BY LogGrows
<1>6. \A j \in SettledTransferIn(LocalView, q.account)' : j \in Nat
  <2>1. localFrom'[q.account] \in Nat
    BY <1>3, TypeNext DEF TypeOK, LedgerTypeOK
  <2> QED BY <1>5, <2>1 DEF SettledTransferIn, get_settle_blocks, LocalView
<1>7. ASSUME q.at = "get_receive_blocks"
      PROVE  /\ q.settled <= applied'
             /\ \A j \in SettledTransferIn(LocalView, q.account)' : j > q.settled
  <2>1. q.settled <= applied /\ \A j \in SettledTransferIn(LocalView, q.account) : j > q.settled
    BY <1>2, <1>4, <1>7 DEF StageOK
  <2> QED BY <1>3, <1>4, <1>5, <1>6, <2>1
<1> QED BY <1>2, <1>4, <1>7 DEF StageOK

LEMMA QueryStageNext ==
    ASSUME QInv, [QueriesNext]_<<vars, queryVars>>
    PROVE  QueryStage'
<1> USE DEF QInv, IInv
<1>1. [Next]_vars
  BY StepOfHandler
<1>2. SUFFICES ASSUME NEW v \in Reader, NEW q, q = query'[v]
               PROVE  StageOK(q)'
  <2>1. \A v \in Reader : \A q : q = query'[v] => StageOK(q)'
    BY <1>2
  <2> QED BY <2>1 DEF QueryStage, StageOK
<1>3. CASE q = query[v]
  BY <1>1, <1>3, StageStays DEF QueryStage, QueryTypes
<1>4. CASE q = Idle
  BY <1>4 DEF StageOK
<1>5. ASSUME NEW r \in Reader, NEW name, NEW a, NEW unit, NEW floor, NEW rest,
             Reply(r, name, a, unit, floor, rest)
      PROVE  q = query[v] \/ q = Idle
  BY <1>2, <1>5 DEF Reply, QueryTypes
<1>6. ASSUME NEW r \in Reader, NEW b \in Account, NEW i \in last_unit(LocalView, b),
             Snapshot(r, b, i)
      PROVE  StageOK(q)'
  <2> DEFINE new == [at |-> "get_settle_blocks", account |-> b, unit |-> i,
                     snap |-> applied, floor |-> newest[b], settled |-> 0]
  <2>1. q = query[v] \/ q = new
    BY <1>2, <1>6 DEF Snapshot, QueryTypes
  <2>2. CASE q = new
    <3>1. /\ q.account = b /\ q.unit = i /\ q.snap = applied /\ q.floor = newest[b]
          /\ q.at = "get_settle_blocks"
      BY <2>2
    <3>2. i \in Nat /\ applied \in Nat
      BY <1>6, LastUnitType
    <3>3. ASSUME ~ Deleted(b)
          PROVE  Shown(b, i) /\ LastUpTo(b, i, applied) /\ newest[b] <= i
      <4>1. /\ Shown(b, i) /\ LastUpTo(b, i, applied)
            /\ \A k : Shown(b, k) => k <= i
        BY <1>6, <3>3, LastUnitShown
      <4>2. newest[b] = 0 \/ Shown(b, newest[b])
        BY <3>3 DEF NewestShown
      <4> QED BY <3>2, <4>1, <4>2
    <3>4. StageOK(q)
      BY <3>1, <3>3 DEF StageOK
    <3>5. q \in Asking
      BY <2>2, <3>2 DEF Asking, QueryTypes
    <3> QED BY <1>1, <3>4, <3>5, StageStays
  <2> QED BY <1>3, <2>1, <2>2
<1>7. ASSUME NEW r \in Reader, query[r].at = "get_settle_blocks",
             SettledTransferIn(LocalView, query[r].account) = {},
             query' = [query EXCEPT ![r].at = "get_receive_blocks", ![r].settled = applied]
      PROVE  StageOK(q)'
  <2>1. query[r] \in Asking /\ query[r] # Idle /\ applied \in Nat
    BY <1>7, AskingType DEF TypeOK, LedgerTypeOK
  <2> DEFINE new == [query[r] EXCEPT !.at = "get_receive_blocks", !.settled = applied]
  <2>2. q = query[v] \/ q = new
    BY <1>2, <1>7 DEF QueryTypes
  <2>3. CASE q = new
    <3>1. /\ q.account = query[r].account /\ q.unit = query[r].unit /\ q.floor = query[r].floor
          /\ q.snap = query[r].snap /\ q.settled = applied /\ q \in Asking
      BY <2>1, <2>3 DEF Asking
    <3>2. StageOK(query[r])
      BY DEF QueryStage
    <3>3. StageOK(q)
      BY <1>7, <2>1, <3>1, <3>2 DEF StageOK
    <3> QED BY <1>1, <3>1, <3>3, StageStays
  <2> QED BY <1>3, <2>2, <2>3
<1>8. ASSUME NEW r \in Reader, AnswersAtOnce(r)
      PROVE  StageOK(q)'
  BY <1>3, <1>4, <1>5, <1>8 DEF AnswersAtOnce, FromLastUnit
<1>9. ASSUME NEW r \in Reader, InfoSteps(r)
      PROVE  StageOK(q)'
  <2>1. ASSUME NEW open, InfoReply(r, open)
        PROVE  StageOK(q)'
    <3>1. \E a, unit, floor, rest : Reply(r, "account_info", a, unit, floor, rest)
      BY <2>1 DEF InfoReply
    <3> QED BY <1>3, <1>4, <1>5, <3>1
  <2> QED BY <1>6, <1>7, <1>9, <2>1 DEF InfoSteps
<1>10. CASE Requests
  BY <1>2, <1>3, <1>10 DEF Requests
<1>11. CASE UNCHANGED <<vars, queryVars>>
  BY <1>2, <1>3, <1>11 DEF queryVars
<1> QED BY <1>8, <1>9, <1>10, <1>11, QuerySteps DEF QueriesNext

LEMMA ToldLastNext ==
    ASSUME QInv, [QueriesNext]_<<vars, queryVars>>
    PROVE  ToldLast'
<1> USE DEF QInv, IInv
<1> DEFINE Last(a, d) == \E i \in 1..applied : LastUpTo(a, i, d.at) /\ DigestAt(i) = d.digest
<1>1. [Next]_vars
  BY StepOfHandler
<1>2. ASSUME NEW a \in Account, ~ Deleted(a)', NEW d, Last(a, d)
      PROVE  Last(a, d)'
  <2>1. PICK i \in 1..applied : LastUpTo(a, i, d.at) /\ DigestAt(i) = d.digest
    BY <1>2
  <2>2. LastUpTo(a, i, d.at)' /\ DigestAt(i)' = DigestAt(i)
    BY <1>1, <1>2, <2>1, ShownStays
  <2>3. i \in 1..applied'
    BY <1>1, LogGrows
  <2> QED BY <2>1, <2>2, <2>3
<1>3. SUFFICES ASSUME NEW a \in Account, ~ Deleted(a)', NEW d, d = told'[a], d.digest # Zero
               PROVE  Last(a, d)
  <2>1. \A a \in Account : \A d : ~ Deleted(a)' /\ d = told'[a] /\ d.digest # Zero => Last(a, d)'
    BY <1>2, <1>3
  <2> QED BY <2>1 DEF ToldLast
<1>4. ~ Deleted(a)
  BY <1>1, <1>3, ShownStays
<1>5. CASE d = told[a]
  BY <1>3, <1>4, <1>5 DEF ToldLast
<1>6. ASSUME NEW r \in Reader, AnswersAtOnce(r)
      PROVE  Last(a, d)
  <2>1. PICK b \in Account : \E name, unit, rest : FromLastUnit(r, name, b, unit, rest)
    BY <1>6 DEF AnswersAtOnce
  <2>2. CASE UNCHANGED told
    BY <1>3, <1>5, <2>2
  <2>3. ASSUME NEW unit \in last_unit(LocalView, b),
               told' = [told EXCEPT ![b] = [digest |-> DigestAt(unit), at |-> applied]]
        PROVE  Last(a, d)
    <3>1. d = told[a] \/ (a = b /\ d = [digest |-> DigestAt(unit), at |-> applied])
      BY <1>3, <2>3 DEF QueryTypes
    <3>2. CASE a = b /\ d = [digest |-> DigestAt(unit), at |-> applied]
      <4>1. LastUpTo(a, unit, applied) /\ unit \in 1..applied
        BY <1>4, <2>3, <3>2, LastUnitShown, LastUnitType
      <4> QED BY <3>2, <4>1
    <3> QED BY <1>5, <3>1, <3>2
  <2> QED BY <2>1, <2>2, <2>3 DEF FromLastUnit
<1>7. ASSUME NEW r \in Reader, InfoSteps(r)
      PROVE  Last(a, d)
  <2>1. ASSUME NEW open, InfoReply(r, open),
               query[r].at \in {"get_settle_blocks", "get_receive_blocks"}
        PROVE  Last(a, d)
    <3> DEFINE q == query[r]
    <3>1. q # Idle /\ q.account \in Account /\ q.unit \in 1..applied
      BY <2>1, AskingType
    <3>2. d = told[a] \/ (a = q.account /\ d = [digest |-> DigestAt(q.unit), at |-> q.snap])
      BY <1>3, <2>1, <3>1 DEF InfoReply, QueryTypes
    <3>3. CASE a = q.account /\ d = [digest |-> DigestAt(q.unit), at |-> q.snap]
      <4>1. LastUpTo(a, q.unit, q.snap)
        BY <1>4, <3>1, <3>3 DEF QueryStage, StageOK
      <4> QED BY <3>1, <3>3, <4>1
    <3> QED BY <1>5, <3>2, <3>3
  <2>2. CASE UNCHANGED told
    BY <1>3, <1>5, <2>2
  <2> QED BY <1>7, <2>1, <2>2 DEF InfoSteps, Snapshot
<1>8. CASE Requests
  BY <1>3, <1>5, <1>8 DEF Requests
<1>9. CASE UNCHANGED <<vars, queryVars>>
  BY <1>3, <1>5, <1>9 DEF queryVars, clientVars
<1> QED BY <1>6, <1>7, <1>8, <1>9, QuerySteps DEF QueriesNext

\* What InfoReply knows when it says "give": 0.
LEMMA RefusalPaid ==
    ASSUME QInv, NEW r \in Reader,
           query[r].at \in {"get_settle_blocks", "get_receive_blocks"},
           \/ SettledTransferIn(LocalView, query[r].account) # {}
           \/ get_receive_blocks(LocalView, query[r].account) # {}
    PROVE  SentTo(query[r].account) # {}
<1>1. TypeOK /\ ReceivedWasSent /\ query[r].account \in Account
  BY AskingType DEF QInv, IInv
<1> QED BY <1>1, SettledWasSent, ReceivableWasSent

LEMMA RefusedPaidNext ==
    ASSUME QInv, [QueriesNext]_<<vars, queryVars>>
    PROVE  RefusedPaid'
<1> USE DEF QInv, IInv
<1>1. [Next]_vars
  BY StepOfHandler
<1>2. SUFFICES ASSUME NEW a \in refused', ~ Deleted(a)', a \notin refused
               PROVE  SentTo(a) # {}
  <2>1. ASSUME NEW a \in refused', ~ Deleted(a)' PROVE SentTo(a)' # {}
    <3>1. a \in Account
      BY <2>1, QueryTypesNext DEF QueryTypes
    <3>2. ~ Deleted(a)
      BY <1>1, <2>1, <3>1, ShownStays
    <3>3. SentTo(a) # {}
      BY <1>2, <2>1, <3>2 DEF RefusedPaid
    <3> QED BY <1>1, <2>1, <3>1, <3>3, ShownStays
  <2> QED BY <2>1 DEF RefusedPaid
<1>3. ASSUME NEW r \in Reader, InfoSteps(r)
      PROVE  SentTo(a) # {}
  <2>1. CASE /\ query[r].at \in {"get_settle_blocks", "get_receive_blocks"}
             /\ \/ SettledTransferIn(LocalView, query[r].account) # {}
                \/ get_receive_blocks(LocalView, query[r].account) # {}
             /\ InfoReply(r, 0)
    <3>1. a = query[r].account
      BY <1>2, <2>1 DEF InfoReply
    <3> QED BY <2>1, <3>1, RefusalPaid
  <2>2. CASE InfoReply(r, 1)
    BY <1>2, <2>2 DEF InfoReply
  <2>3. CASE UNCHANGED refused
    BY <1>2, <2>3
  <2> QED BY <1>3, <2>1, <2>2, <2>3 DEF InfoSteps, Snapshot
<1>4. ~ \E r \in Reader : AnswersAtOnce(r)
  BY <1>2 DEF AnswersAtOnce, FromLastUnit
<1>5. CASE Requests
  BY <1>2, <1>5 DEF Requests
<1>6. CASE UNCHANGED <<vars, queryVars>>
  BY <1>2, <1>6 DEF queryVars, clientVars
<1> QED BY <1>3, <1>4, <1>5, <1>6, QuerySteps DEF QueriesNext

LEMMA GiveSeesNext ==
    ASSUME QInv, [QueriesNext]_<<vars, queryVars>>
    PROVE  GiveSees'
<1> USE DEF QInv, IInv
<1>1. [Next]_vars
  BY StepOfHandler
<1>2. SUFFICES ASSUME NEW w \in Worker, NEW a, a = hashed'[tx'[w]].receiver,
                      pc'[w] = "give_get_settle_blocks", a \in since'[w], ~ Deleted(a)'
               PROVE  SettledTransferIn(LocalView, a)' # {}
  BY DEF GiveSees
<1>3. a \in Account
  BY <1>2, QueryTypesNext DEF QueryTypes
<1>4. ~ Deleted(a)
  BY <1>1, <1>2, <1>3, ShownStays
<1>5. HashedGrows
  BY <1>1, TypeNext
<1>6. CASE pc[w] = pc'[w] /\ tx[w] = tx'[w]
  <2>1. since'[w] = since[w]
    <3>1. CASE Requests
      BY <1>2, <1>6, <3>1 DEF Requests
    <3>2. CASE Queries
      BY <3>2 DEF Queries
    <3>3. CASE UNCHANGED <<vars, queryVars>>
      BY <3>3 DEF queryVars, clientVars
    <3> QED BY <3>1, <3>2, <3>3 DEF QueriesNext
  <2>2. tx[w] \in 1..Len(hashed)
    BY <1>2, <1>6, BusyDigest
  <2>3. hashed[tx[w]].receiver = a
    BY <1>2, <1>5, <1>6, <2>2 DEF HashedGrows
  <2>4. SettledTransferIn(LocalView, a) # {}
    BY <1>2, <1>4, <1>6, <2>1, <2>3 DEF GiveSees
  <2> QED BY <1>1, <1>2, <1>3, <2>4, ShownStays
<1>7. CASE HandlerNext(w) /\ pc[w] # pc'[w]
  <2>1. give(w) \/ give_exist_account(w) \/ give_receive(w)
    BY <1>2, <1>7, ThreadEnters DEF GivePc
  <2>2. give_receive(w)
    <3>1. CASE give(w)
      <4>1. \/ \E code : set_result_fail(w, code)
            \/ \E d : Goto(w, "give_exist_account", d)
        BY <3>1 DEF give
      <4> QED BY <1>2, <4>1, GoesOn, Fails
    <3>2. CASE give_exist_account(w)
      BY <1>2, <3>2, GoesOn, Fails DEF give_exist_account
    <3> QED BY <2>1, <3>1, <3>2
  <2>3. /\ get_receive_blocks(LocalView, hashed[tx[w]].receiver) = {}
        /\ Goto(w, "give_get_settle_blocks", tx[w]) /\ UNCHANGED hashed
    BY <1>2, <2>2, Fails DEF give_receive
  <2>4. a = hashed[tx[w]].receiver /\ get_receive_blocks(LocalView, a) = {}
    BY <1>2, <2>3, GoesOn
  <2>5. since'[w] = since[w]
    <3>1. pc[w] # "idle"
      BY <2>2 DEF give_receive
    <3>2. CASE Requests
      BY <3>1, <3>2 DEF Requests
    <3>3. CASE Queries
      BY <3>3 DEF Queries
    <3>4. CASE UNCHANGED <<vars, queryVars>>
      BY <3>4 DEF queryVars, clientVars
    <3> QED BY <3>2, <3>3, <3>4 DEF QueriesNext
  <2>6. a \in refused
    BY <1>2, <2>5 DEF QueryTypes
  <2>7. PICK k \in SentTo(a) : TRUE
    BY <1>4, <2>6 DEF RefusedPaid
  <2>8. SettledTransferIn(LocalView, a) # {}
    BY <1>3, <1>4, <2>4, <2>7, AllTakenIn
  <2> QED BY <1>1, <1>2, <1>3, <2>8, ShownStays
<1>8. CASE HandlerNext(w) /\ pc[w] = pc'[w]
  <2>1. give(w) \/ give_exist_account(w) \/ give_receive(w)
    BY <1>2, <1>8, ThreadEnters DEF GivePc
  <2> QED BY <1>2, <1>8, <2>1 DEF give, give_exist_account, give_receive, Handles
<1> QED BY <1>1, <1>6, <1>7, <1>8, ThreadStep
-----------------------------------------------------------------------------
LEMMA QInvInit == QueriesInit => QInv
<1> SUFFICES ASSUME QueriesInit PROVE QInv
  OBVIOUS
<1>1. IInv /\ ReceivedWasSent
  BY ChainInit, ReceivedWasSentInit DEF QueriesInit
<1>2. QueryTypes
  BY DEF QueriesInit, QueryTypes, NoDigest, Zero
<1>3. NewestShown /\ QueryStage /\ ToldLast /\ RefusedPaid
  BY DEF QueriesInit, NewestShown, QueryStage, StageOK, ToldLast, NoDigest, RefusedPaid
<1>4. GiveSees
  BY DEF QueriesInit, Init, GiveSees
<1> QED BY <1>1, <1>2, <1>3, <1>4 DEF QInv

LEMMA QInvNext == QInv /\ [QueriesNext]_<<vars, queryVars>> => QInv'
<1> SUFFICES ASSUME QInv, [QueriesNext]_<<vars, queryVars>> PROVE QInv'
  OBVIOUS
<1>1. [Next]_vars /\ IInv /\ ReceivedWasSent /\ TypeOK
  BY StepOfHandler DEF QInv, IInv
<1>2. IInv'
  BY <1>1, TypeNext, DeletionNext, ChainNext DEF IInv
<1>3. ReceivedWasSent'
  BY <1>1, ReceivedWasSentNext
<1>4. QueryTypes'
  BY <1>1, QueryTypesNext DEF QInv
<1> QED BY <1>2, <1>3, <1>4, NewestShownNext, QueryStageNext, ToldLastNext,
        RefusedPaidNext, GiveSeesNext DEF QInv

LEMMA QInvariant == QueriesSpec => []QInv
  BY QInvInit, QInvNext, PTL DEF QueriesSpec
-----------------------------------------------------------------------------
(* Theorems *)

\* A client that asks again never hears of an older state of an account, and
\* never that it has vanished, whichever queries it uses and however long an
\* account_info takes after its snapshot, unless the account is deleted
\* (xrpc_handler.cpp:170-238, 337-354 and 738-780).
THEOREM NeverBackwardsHolds == QueriesSpec => NeverBackwards
<1>1. ASSUME QInv, QueriesNext, reply'.query # "none", ~ Deleted(reply'.account)
      PROVE  reply'.unit >= reply'.floor
  <2> USE DEF QInv, IInv
  <2>1. CASE Requests
    BY <1>1, <2>1 DEF Requests, NoReply
  <2>2. ASSUME NEW r \in Reader, AnswersAtOnce(r)
        PROVE  reply'.unit >= reply'.floor
    <3>1. PICK a \in Account : \E name, unit, rest : FromLastUnit(r, name, a, unit, rest)
      BY <2>2 DEF AnswersAtOnce
    <3>2. PICK name, unit, rest : FromLastUnit(r, name, a, unit, rest)
      BY <3>1
    <3>3. reply'.account = a /\ reply'.unit = unit /\ reply'.floor = newest[a]
      BY <3>2 DEF FromLastUnit, Reply
    <3>4. newest[a] \in Nat /\ (newest[a] = 0 \/ Shown(a, newest[a]))
      BY <1>1, <3>3 DEF NewestShown, QueryTypes
    <3>5. CASE unit = 0 /\ last_unit(LocalView, a) = {}
      BY <1>1, <3>3, <3>4, <3>5, NotFound
    <3>6. CASE unit \in last_unit(LocalView, a)
      <4>1. unit \in Nat /\ \A k : Shown(a, k) => k <= unit
        BY <1>1, <3>3, <3>6, LastUnitShown
      <4> QED BY <3>3, <3>4, <4>1
    <3> QED BY <3>2, <3>5, <3>6 DEF FromLastUnit
  <2>3. ASSUME NEW r \in Reader, InfoSteps(r)
        PROVE  reply'.unit >= reply'.floor
    <3>1. ASSUME NEW open, InfoReply(r, open),
                 query[r].at \in {"get_settle_blocks", "get_receive_blocks"}
          PROVE  reply'.unit >= reply'.floor
      <4>1. /\ query[r] # Idle /\ query[r].unit \in 1..applied /\ query[r].floor \in Nat
            /\ query[r].unit \in DOMAIN log
        BY <1>1, <3>1, AskingType
      <4>2. /\ reply'.account = query[r].account /\ reply'.unit = query[r].unit
            /\ reply'.floor = query[r].floor
        BY <3>1 DEF InfoReply, Reply
      <4>3. query[r].floor <= query[r].unit
        BY <1>1, <4>1, <4>2 DEF QueryStage, StageOK
      <4> QED BY <4>1, <4>2, <4>3
    <3>2. CASE reply' = NoReply
      BY <1>1, <3>2 DEF NoReply
    <3> QED BY <2>3, <3>1, <3>2 DEF InfoSteps, Snapshot
  <2> QED BY <1>1, <2>1, <2>2, <2>3, QuerySteps DEF QueriesNext
<1>2. QInv /\ [QueriesNext]_<<vars, queryVars>>
      => [reply'.query # "none" /\ ~ Deleted(reply'.account)
          => reply'.unit >= reply'.floor]_<<vars, queryVars>>
  BY <1>1
<1> QED BY QInvariant, <1>2, PTL DEF QueriesSpec, NeverBackwards

\* account_info says "give": 0 only if something was sent to the account, and 1
\* although something was sent only if the account took it in after the settled
\* blocks were read (xrpc_handler.cpp:218-236).
THEOREM GiveOfferedHolds == QueriesSpec => GiveOffered
<1>1. ASSUME QInv, QueriesNext, reply'.query = "account_info", reply'.data.code = "xrpc_ok",
             ~ Deleted(reply'.account), NEW a, a = reply'.account
      PROVE  IF reply'.data.give = 0
             THEN SentTo(a) # {}
             ELSE \A k \in SentTo(a) : TakenInSince(a, k, reply'.data.settled)
  <2> USE DEF QInv, IInv
  <2>1. ~ Requests
    BY <1>1 DEF Requests, NoReply
  <2>2. ASSUME NEW r \in Reader, AnswersAtOnce(r)
        PROVE  FALSE
    BY <1>1, <2>2 DEF AnswersAtOnce, FromLastUnit, Reply
  <2>3. PICK r \in Reader : InfoSteps(r)
    BY <1>1, <2>1, <2>2, QuerySteps DEF QueriesNext
  <2>4. reply' # NoReply
    BY <1>1 DEF NoReply
  <2>5. ASSUME NEW open, InfoReply(r, open)
        PROVE  /\ a = query[r].account
               /\ reply'.data.give = open /\ reply'.data.settled = query[r].settled
    BY <1>1, <2>5 DEF InfoReply, Reply
  <2>6. CASE /\ query[r].at \in {"get_settle_blocks", "get_receive_blocks"}
             /\ \/ SettledTransferIn(LocalView, query[r].account) # {}
                \/ get_receive_blocks(LocalView, query[r].account) # {}
             /\ InfoReply(r, 0)
    BY <1>1, <2>5, <2>6, RefusalPaid
  <2>7. CASE /\ query[r].at = "get_receive_blocks"
             /\ get_receive_blocks(LocalView, query[r].account) = {} /\ InfoReply(r, 1)
    <3>1. a = query[r].account /\ reply'.data.give = 1 /\ reply'.data.settled = query[r].settled
      BY <2>5, <2>7
    <3>2. query[r] # Idle /\ a \in Account
      BY <1>1, <2>7, <3>1, AskingType
    <3>3. \A j \in SettledTransferIn(LocalView, a) : j > query[r].settled
      BY <1>1, <2>7, <3>1, <3>2 DEF QueryStage, StageOK
    <3>4. ASSUME NEW k \in SentTo(a)
          PROVE  TakenInSince(a, k, query[r].settled)
      <4>1. \E j \in SettledTransferIn(LocalView, a) : TxAt(j).origin = DigestAt(k)
        BY <1>1, <2>7, <3>1, <3>2, <3>4, AllTakenIn
      <4> QED BY <3>3, <4>1 DEF TakenInSince
    <3> QED BY <3>1, <3>4
  <2> QED BY <2>3, <2>4, <2>6, <2>7 DEF InfoSteps, Snapshot
<1>2. QInv /\ [QueriesNext]_<<vars, queryVars>>
      => [reply'.query = "account_info" /\ reply'.data.code = "xrpc_ok"
          /\ ~ Deleted(reply'.account)
          => LET a == reply'.account
             IN  IF reply'.data.give = 0
                 THEN SentTo(a) # {}
                 ELSE \A k \in SentTo(a) : TakenInSince(a, k, reply'.data.settled)
         ]_<<vars, queryVars>>
  BY <1>1
<1> QED BY QInvariant, <1>2, PTL DEF QueriesSpec, GiveOffered

\* The handler step that a thread takes follows from where it is.
LEMMA StepFrom ==
    ASSUME TypeOK, [QueriesNext]_<<vars, queryVars>>, NEW w \in Worker, pc'[w] # pc[w]
    PROVE  /\ pc[w] = "give_get_settle_blocks" => give_settle(w)
           /\ pc[w] = "out_get_last_hash" => transfer_out_last_hash(w)
           /\ pc[w] = "in_get_last_hash" => transfer_in_last_hash(w)
<1>1. HandlerNext(w)
  BY StepOfHandler, ThreadStep
<1> QED BY <1>1 DEF HandlerNext, action_invalid, account_create, set_property, account_delete, transfer_out,
        transfer_out_balance, transfer_out_last_hash, transfer_in, transfer_in_last_hash,
        give, give_exist_account, give_receive, give_settle, Handles

\* Once account_info has said "give": 0, a give that begins afterwards is not
\* proposed (xrpc_handler.cpp:218-236 and 545-565).
THEOREM RefusalStandsHolds == QueriesSpec => RefusalStands
<1>1. ASSUME QInv, QueriesNext, NEW w \in Worker,
             pc[w] = "give_get_settle_blocks", pc'[w] = "idle",
             hashed[tx[w]].receiver \in since[w], ~ Deleted(hashed[tx[w]].receiver)
      PROVE  rsp' # "xrpc_ok"
  <2>1. give_settle(w)
    BY <1>1, StepFrom DEF QInv, IInv
  <2>2. SettledTransferIn(LocalView, hashed[tx[w]].receiver) # {}
    BY <1>1 DEF QInv, GiveSees
  <2> QED BY <2>1, <2>2 DEF give_settle, set_result_fail, Answer
<1>2. QInv /\ [QueriesNext]_<<vars, queryVars>>
      => [\A w \in Worker :
            /\ pc[w] = "give_get_settle_blocks" /\ pc'[w] = "idle"
            /\ hashed[tx[w]].receiver \in since[w]
            /\ ~ Deleted(hashed[tx[w]].receiver)
            => rsp' # "xrpc_ok"]_<<vars, queryVars>>
  BY <1>1
<1> QED BY QInvariant, <1>2, PTL DEF QueriesSpec, RefusalStands

\* A transaction on the digest that a query gave out meets xrpc_last_hash_error
\* only if the store has applied another transaction of the account since then
\* (xrpc_handler.cpp:211, 352, 499 and 634).
THEOREM StaleOnlyIfOvertakenHolds == QueriesSpec => StaleOnlyIfOvertaken
<1>1. ASSUME QInv, QueriesNext, NEW w \in Worker, NEW t, t = hashed[tx[w]],
             pc[w] \in {"out_get_last_hash", "in_get_last_hash"}, pc'[w] = "idle",
             rsp' = "xrpc_last_hash_error",
             t.last # Zero, t.last = told[t.sender].digest, ~ Deleted(t.sender)
      PROVE  \E i \in (told[t.sender].at + 1)..applied : TxAt(i).sender = t.sender
  <2> DEFINE a == t.sender
             at == told[a].at
  <2>1. transfer_out_last_hash(w) \/ transfer_in_last_hash(w)
    BY <1>1, StepFrom DEF QInv, IInv
  <2>2. ~ LastHashMatches(t)
    BY <1>1, <2>1 DEF transfer_out_last_hash, transfer_in_last_hash, do_transaction, Answer
  <2>3. PICK i \in last_unit(LocalView, a) : DigestAt(i) # t.last
    BY <2>2 DEF LastHashMatches
  <2>4. a \in Account
    BY <1>1, BusyDigest, DigestType DEF QInv, IInv
  <2>5. PICK j \in 1..applied : LastUpTo(a, j, at) /\ DigestAt(j) = t.last
    BY <1>1, <2>4 DEF QInv, ToldLast
  <2>6. LastUpTo(a, i, applied) /\ i \in 1..applied /\ applied \in Nat
    BY <1>1, <2>3, <2>4, LastUnitShown, LastUnitType DEF QInv, IInv
  <2>7. at \in 0..applied /\ j \in 1..at /\ TxAt(j).sender = a
        /\ \A k \in 1..at : TxAt(k).sender = a => k <= j
    BY <2>5 DEF LastUpTo
  <2>8. TxAt(i).sender = a /\ j <= i
    BY <2>5, <2>6, <2>7 DEF LastUpTo
  <2>9. i # j
    BY <2>3, <2>5
  <2>10. i \notin 1..at
    BY <2>5, <2>6, <2>7, <2>8, <2>9
  <2>11. i \in (at + 1)..applied
    BY <2>6, <2>7, <2>10
  <2> QED BY <2>8, <2>11
<1>2. QInv /\ [QueriesNext]_<<vars, queryVars>>
      => [\A w \in Worker :
            LET t == hashed[tx[w]]
            IN  /\ pc[w] \in {"out_get_last_hash", "in_get_last_hash"} /\ pc'[w] = "idle"
                /\ rsp' = "xrpc_last_hash_error"
                /\ t.last # Zero /\ t.last = told[t.sender].digest /\ ~ Deleted(t.sender)
                => \E i \in (told[t.sender].at + 1)..applied :
                      TxAt(i).sender = t.sender]_<<vars, queryVars>>
  BY <1>1
<1> QED BY QInvariant, <1>2, PTL DEF QueriesSpec, StaleOnlyIfOvertaken
=============================================================================
