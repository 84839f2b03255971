------------------------------ MODULE ReadApi ------------------------------
(***************************************************************************)
(* The read side of src/api/v1/router.py: a request passes the token gate  *)
(* (JwksCache), the validation of its parameters and the calls of the      *)
(* repositories, one await each, while a seeder and the persistence worker *)
(* write the same tables.  A query that fails is answered with an empty    *)
(* result and not with an error, except on /v1/snapshot.                   *)
(*                                                                         *)
(* Rows are told apart by what the answers depend on: a security by its    *)
(* ticker and sector, a relation by its ends, a tick by symbol and time,   *)
(* an audit row by symbol and outcome, an alarm by id, time and status.    *)
(***************************************************************************)
EXTENDS Selection, SequencesExt, FiniteSets

CONSTANTS
  Requests,   \* HTTP requests in flight
  Tickers,    \* tickers, 1 .. n, in the order of their names
  AlarmIds,   \* ids of alarms, numbers
  Limit,      \* the request's limit parameter
  MaxWrites   \* bound: commits of the writers

VARIABLES
  master,     \* security_master: the sector of every ticker, 0 for no row
  relations,  \* security_relation: pairs of tickers
  ticks,      \* market_tick
  audits,     \* execution_audit, in the order of its times
  alarms,     \* InMemoryAlarmRepository._alarms: the status of every alarm
  moved,      \* securities that a commit took from one sector to another
  writes,     \* commits so far
  req         \* the requests' frames

store == <<master, relations, ticks, audits, alarms, moved, writes>>
vars == <<store, req>>

Sectors == {1, 2}
Times == {1, 2}     \* of a tick
Since == 2          \* where the window of an aggregate begins

\* Tickers are numbered, a page has a row at least (Query(ge=1)).
ParametersOk ==
  /\ IsFiniteSet(Tickers) /\ Tickers # {} /\ Tickers = 1 .. Cardinality(Tickers)
  /\ AlarmIds \in SUBSET Nat /\ IsFiniteSet(AlarmIds)
  /\ Limit \in Nat \ {0} /\ MaxWrites \in Nat

\* What execute() reports of a decision: mode, executed and whether a guard blocked it.
Reports ==
  <<[mode |-> "live",   executed |-> TRUE,  blocked |-> FALSE],
    [mode |-> "live",   executed |-> FALSE, blocked |-> FALSE],
    [mode |-> "shadow", executed |-> FALSE, blocked |-> FALSE],
    [mode |-> "noop",   executed |-> FALSE, blocked |-> FALSE],
    [mode |-> "noop",   executed |-> FALSE, blocked |-> TRUE]>>

Outcomes == {Reports[i] : i \in 1 .. 5}

\* active, or acknowledged or resolved: not shown by default.
Statuses == {"active", "closed"}

\* Two alarms may share a timestamp (occurred_at).
At(a) == a \div 2

\* The process seeds its alarms on first use; nothing changes them afterwards.
SeedAlarms == alarms \in [AlarmIds -> Statuses]

SameSector(m) == {p \in Tickers \X Tickers : p[1] < p[2] /\ m[p[1]] = m[p[2]] /\ m[p[1]] # 0}

\* asked: the sector, ticker, time or symbols of the query; lost: a call failed;
\* traced: the response carries the request's id.
Idle == [pc |-> "idle", route |-> "me", asked |-> <<>>, items |-> <<>>, total |-> 0,
         unacked |-> 0, named |-> {}, todo |-> <<>>, lost |-> FALSE,
         status |-> 0, traced |-> FALSE]

\* The tables are new, or the system has run for a while.
Init ==
  /\ \E used \in BOOLEAN, other \in Sectors :
       /\ master = [t \in Tickers |-> IF ~ used THEN 0 ELSE IF t = 1 THEN 1 ELSE other]
       /\ ticks = IF used THEN [symbol : Tickers, at : {1}] ELSE {}
       /\ audits = IF used THEN [i \in 1 .. 5 |-> [symbol |-> 1, outcome |-> Reports[i]]] ELSE <<>>
  /\ relations = SameSector(master)
  /\ SeedAlarms
  /\ moved = {} /\ writes = 0
  /\ req = [r \in Requests |-> Idle]

-----------------------------------------------------------------------------
\* The writers

Commits == writes < MaxWrites /\ writes' = writes + 1 /\ UNCHANGED <<alarms, req>>

\* upsert_seed commits: rows are inserted or moved to another sector, relations added (the
\* payload's, here those of one sector), none deleted.
Seed(t, s) ==
  /\ Commits
  /\ master' = [master EXCEPT ![t] = s]
  /\ relations' = relations \cup SameSector(master')
  /\ moved' = IF master[t] \in {0, s} THEN moved ELSE moved \cup {t}
  /\ UNCHANGED <<ticks, audits>>

\* insert_batch commits; a key that exists is left alone.
InsertTick(t, at) ==
  /\ Commits
  /\ ticks' = ticks \cup {[symbol |-> t, at |-> at]}
  /\ UNCHANGED <<master, relations, audits, moved>>

InsertAudit(t, outcome) ==
  /\ Commits
  /\ audits' = Append(audits, [symbol |-> t, outcome |-> outcome])
  /\ UNCHANGED <<master, relations, ticks, moved>>

-----------------------------------------------------------------------------
\* The repositories

\* LIMIT n.
First(n, seq) == [i \in 1 .. (IF n < Len(seq) THEN n ELSE Len(seq)) |-> seq[i]]

\* WHERE of the securities, with sector 0 for no filter.
Matching(s) == {t \in Tickers : master[t] # 0 /\ (s = 0 \/ master[t] = s)}

\* ORDER BY ticker.
ByTicker == {p \in Tickers \X Tickers : p[1] < p[2]}

ListSecurities(s) == First(Limit, InOrder(Matching(s), ByTicker))
CountSecurities(s) == Cardinality(Matching(s))
GetSecurity(t) == IF master[t] # 0 THEN <<t>> ELSE <<>>
GetByTickerBatch(ts) == {t \in ts : master[t] # 0}

\* Both ends count for the filter on tickers.
Touching(symbols) ==
  {p \in relations : symbols = <<>> \/ {p[1], p[2]} \cap Range(symbols) # {}}

ByEnds ==
  {e \in relations \X relations :
     e[1][1] < e[2][1] \/ (e[1][1] = e[2][1] /\ e[1][2] < e[2][2])}

ListRelations(symbols) == InOrder(Touching(symbols), ByEnds)

TicksOf(symbols) == {x \in ticks : x.symbol \in Range(symbols)}

\* ORDER BY ts DESC; rows of one instant come in some order, here that of their symbols.
Later ==
  {p \in ticks \X ticks :
     p[1].at > p[2].at \/ (p[1].at = p[2].at /\ p[1].symbol < p[2].symbol)}

ListRecentTape(symbols) == First(Limit, InOrder(TicksOf(symbols), Later))
ListRecentTicks(t) == ListRecentTape(<<t>>)

\* DISTINCT ON (symbol) ... ORDER BY symbol, ts DESC.
SnapshotPerSymbol(symbols) ==
  LET newest == {x \in TicksOf(symbols) : \A y \in TicksOf(<<x.symbol>>) : y.at <= x.at}
  IN InOrder(newest, {p \in newest \X newest : p[1].symbol < p[2].symbol})

\* A bucket for every symbol that was asked for, an empty one without ticks.
AggregateVolume(symbols) ==
  [i \in DOMAIN symbols |->
     [symbol |-> symbols[i], n |-> Cardinality({x \in TicksOf(<<symbols[i]>>) : x.at >= Since})]]

\* The audit rows of a symbol, latest first.
RowsOf(t) == {i \in DOMAIN audits : audits[i].symbol = t}

FetchRecent(t) ==
  LET latest == First(Limit, InOrder(RowsOf(t), {p \in RowsOf(t) \X RowsOf(t) : p[1] > p[2]}))
  IN [k \in DOMAIN latest |-> audits[latest[k]]]

CountOf(outcomes) == Cardinality({i \in 1 .. Len(audits) : audits[i].outcome \in outcomes})

AggregateDecisions ==
  [total   |-> Len(audits),
   live    |-> CountOf({o \in Outcomes : o.mode = "live" /\ o.executed}),
   shadow  |-> CountOf({o \in Outcomes : o.mode = "shadow"}),
   noop    |-> CountOf({o \in Outcomes : o.mode = "noop"}),
   blocked |-> CountOf({o \in Outcomes : o.blocked})]

AggregateBlocked == CountOf({o \in Outcomes : o.blocked})

\* _matches with the default filter: active alarms of the window.
Matched(since) == {a \in AlarmIds : alarms[a] = "active" /\ At(a) >= since}
Newer(a, b) == At(a) > At(b) \/ (At(a) = At(b) /\ a > b)
NewestFirst == {p \in AlarmIds \X AlarmIds : Newer(p[1], p[2])}

Newest(since) == First(Limit, InOrder(Matched(since), NewestFirst))
CountActive == Cardinality({a \in AlarmIds : alarms[a] = "active"})

-----------------------------------------------------------------------------
\* The handlers: how they refuse a parameter, whether an empty list of symbols is answered
\* without a call, and the repository calls they await, in order.

Handler(refuses, symbols, calls) == [refuses |-> refuses, symbols |-> symbols, calls |-> calls]

\* An unknown enum token or a malformed timestamp (_InvalidInput), and a parameter outside its
\* range (RequestValidationError).
InvalidInput == 400
ValidationError == 422

Me              == Handler({}, FALSE, <<>>)
LatestSnapshot  == Handler({}, FALSE, <<"list_entities", "list_edges", "get_by_ticker_batch">>)
SecuritiesDetail == Handler({}, FALSE, <<"get_security">>)

\* Faulty variant: the footer's count is taken first and the rows after it.
SecuritiesListCountFirst ==
  Handler({InvalidInput, ValidationError}, FALSE, <<"count_securities", "list_securities">>)

SecuritiesList ==
  Handler({InvalidInput, ValidationError}, FALSE, <<"list_securities", "count_securities">>)
SecuritiesRelations ==
  Handler({InvalidInput, ValidationError}, FALSE, <<"list_relations">>)
AlarmsList ==
  Handler({InvalidInput, ValidationError}, FALSE, <<"list", "count_active", "get_by_ticker_batch">>)
TicksVolume      == Handler({ValidationError}, TRUE, <<"aggregate_volume">>)
TicksTape        == Handler({ValidationError}, TRUE, <<"list_recent_tape">>)
TicksSnapshot    == Handler({ValidationError}, TRUE, <<"snapshot_per_symbol">>)
TicksRecent      == Handler({ValidationError}, FALSE, <<"list_recent_ticks">>)
MetricsDecisions == Handler({ValidationError}, FALSE, <<"aggregate_decisions_per_minute">>)
MetricsBlocked   == Handler({ValidationError}, FALSE, <<"aggregate_blocked_reasons">>)
AuditRecent      == Handler({ValidationError}, FALSE, <<"fetch_recent">>)

Handlers ==
  [me |-> Me, snapshot |-> LatestSnapshot, detail |-> SecuritiesDetail,
   securities |-> SecuritiesList, relations |-> SecuritiesRelations, alarms |-> AlarmsList,
   volume |-> TicksVolume, tape |-> TicksTape, last |-> TicksSnapshot, recent |-> TicksRecent,
   decisions |-> MetricsDecisions, blocked |-> MetricsBlocked, audit |-> AuditRecent]

Routes == DOMAIN Handlers

\* What a request to the route asks for.
Asked(route) ==
  CASE route = "securities" -> {<<s>> : s \in {0} \cup Sectors}
    [] route \in {"detail", "recent", "audit"} -> {<<t>> : t \in Tickers}
    [] route = "alarms" -> {<<t>> : t \in {At(a) : a \in AlarmIds}}
    [] route \in {"volume", "tape", "last", "relations"} -> BoundedSeq(Tickers, 2)
    [] OTHER -> {<<>>}

-----------------------------------------------------------------------------
\* From the wire to the first call

Step(r, frame) == req' = [req EXCEPT ![r] = frame] /\ UNCHANGED store

\* A response made inside RequestIdMiddleware carries the id.
Answer(r, status, frame) ==
  Step(r, [frame EXCEPT !.pc = "done", !.status = status, !.todo = <<>>, !.traced = TRUE])

\* The catch-all handler answers outside of it, after the id was reset (Starlette runs the
\* handler of Exception in its outermost layer): no header, and "-" in the body.
Crash(r, frame) == Step(r, [frame EXCEPT !.pc = "done", !.status = 500, !.todo = <<>>])

Arrive(r, route) ==
  /\ req[r].pc = "idle"
  /\ \E asked \in Asked(route) :
       Step(r, [Idle EXCEPT !.pc = "gate", !.route = route, !.asked = asked])

\* get_current_user: an HTTPException.
Refused(r) ==
  /\ req[r].pc = "gate"
  /\ \E status \in {401, 500} : Answer(r, status, req[r])

Invalid(r) ==
  /\ req[r].pc = "gate"
  /\ \E status \in Handlers[req[r].route].refuses : Answer(r, status, req[r])

\* A source of more than 64 characters passes _parse_csv and is refused by AlarmListFilters,
\* outside the handler's try.
SourceTooLong(r) ==
  /\ req[r].pc = "gate" /\ req[r].route = "alarms"
  /\ Crash(r, req[r])

Accepted(r) ==
  LET handler == Handlers[req[r].route] IN
  /\ req[r].pc = "gate"
  /\ IF handler.calls = <<>> \/ (handler.symbols /\ req[r].asked = <<>>)
     THEN Answer(r, 200, req[r])
     ELSE Step(r, [req[r] EXCEPT !.pc = "read", !.todo = handler.calls])

-----------------------------------------------------------------------------
\* The calls

\* The ids the rows are looked up by: of the alarms, or of the entities.
Wanted(f) == IF f.route = "alarms" THEN Range(f.items) \cap Tickers ELSE Tickers

\* What the answer knows after a call has returned.
Run(call, f) ==
  CASE call = "list_securities"  -> [f EXCEPT !.items = ListSecurities(f.asked[1])]
    [] call = "count_securities" -> [f EXCEPT !.total = CountSecurities(f.asked[1])]
    [] call = "get_security"     -> [f EXCEPT !.items = GetSecurity(f.asked[1])]
    [] call = "get_by_ticker_batch" -> [f EXCEPT !.named = GetByTickerBatch(Wanted(f))]
    [] call = "list_relations"   -> [f EXCEPT !.items = ListRelations(f.asked)]
    [] call = "list_recent_tape" -> [f EXCEPT !.items = ListRecentTape(f.asked)]
    [] call = "list_recent_ticks" -> [f EXCEPT !.items = ListRecentTicks(f.asked[1])]
    [] call = "snapshot_per_symbol" -> [f EXCEPT !.items = SnapshotPerSymbol(f.asked)]
    [] call = "aggregate_volume" -> [f EXCEPT !.items = AggregateVolume(f.asked)]
    [] call = "fetch_recent"     -> [f EXCEPT !.items = FetchRecent(f.asked[1])]
    [] call = "aggregate_decisions_per_minute" -> [f EXCEPT !.items = <<AggregateDecisions>>]
    [] call = "aggregate_blocked_reasons" -> [f EXCEPT !.total = AggregateBlocked]
    [] call = "list" -> [f EXCEPT !.items = Newest(f.asked[1]), !.total = Cardinality(Matched(f.asked[1]))]
    [] call = "count_active"     -> [f EXCEPT !.unacked = CountActive]
    [] OTHER                     -> f

\* The last call answers; a ticker without a row is not found, and neither is one whose query
\* failed.
Proceed(r, f) ==
  IF Len(f.todo) > 1 THEN Step(r, [f EXCEPT !.todo = Tail(@)])
  ELSE Answer(r, IF f.route = "detail" /\ f.items = <<>> THEN 404 ELSE 200, f)

Query(r) ==
  /\ req[r].pc = "read"
  /\ Proceed(r, Run(Head(req[r].todo), req[r]))

InMemory == {"list", "count_active"}
Intolerant == {"list_entities", "list_edges"}

\* The database does not answer: the repository returns its empty result.
QueryFails(r) ==
  /\ req[r].pc = "read" /\ Head(req[r].todo) \notin InMemory \cup Intolerant
  /\ Proceed(r, [req[r] EXCEPT !.lost = TRUE])

\* list_entities and list_edges let the error through.
SnapshotFails(r) ==
  /\ req[r].pc = "read" /\ Head(req[r].todo) \in Intolerant
  /\ Crash(r, [req[r] EXCEPT !.lost = TRUE])

Handles(r) ==
  Refused(r) \/ Invalid(r) \/ SourceTooLong(r) \/ Accepted(r)
    \/ Query(r) \/ QueryFails(r) \/ SnapshotFails(r)

Next ==
  \/ \E t \in Tickers :
       \/ \E s \in Sectors : Seed(t, s)
       \/ \E at \in Times : InsertTick(t, at)
       \/ \E outcome \in Outcomes : InsertAudit(t, outcome)
  \/ \E r \in Requests : Handles(r) \/ \E route \in Routes : Arrive(r, route)

Spec == Init /\ [][Next]_vars

-----------------------------------------------------------------------------
\* Type correctness of the tables and the requests.
TypeOK ==
  /\ master \in [Tickers -> {0} \cup Sectors] /\ relations \subseteq Tickers \X Tickers
  /\ ticks \subseteq [symbol : Tickers, at : Times]
  /\ audits \in Seq([symbol : Tickers, outcome : Outcomes])
  /\ alarms \in [AlarmIds -> Statuses] /\ writes \in 0 .. MaxWrites /\ moved \subseteq Tickers
  /\ \A r \in Requests :
       /\ req[r].pc \in {"idle", "gate", "read", "done"} /\ req[r].route \in Routes
       /\ req[r].status \in {0, 200, 400, 401, 404, 422, 500}
       /\ req[r].pc = "done" <=> req[r].status # 0

Done(r, route) == req[r].route = route /\ req[r].status = 200

\* The alarm page is the newest Limit of all that match, ties by id, and the counters do not
\* depend on the page (InMemoryAlarmRepository.list, alarms_list).
PageIsTheNewest ==
  \A r \in Requests : Done(r, "alarms") =>
    LET page == Range(req[r].items) IN
    /\ Cardinality(page) = Len(req[r].items)
    /\ \A a \in page : \A b \in Matched(req[r].asked[1]) \ page : Newer(a, b)
    /\ req[r].total > Len(req[r].items) => Len(req[r].items) = Limit
    /\ req[r].unacked >= req[r].total

\* "SHOWING N OF total" shows no row twice and never more than there are, because rows are
\* listed before they are counted and no writer deletes one (securities_list, upsert_seed).
\* Under a filter on the sector a row that a seed has moved to another one may be shown and
\* not counted: "the total count under the same filters" (router.py:432) is that of a later time.
TotalCoversPage ==
  \A r \in Requests : Done(r, "securities") /\ ~ req[r].lost =>
    LET page == Range(req[r].items)
        spared == IF req[r].asked[1] = 0 THEN {} ELSE moved
    IN Cardinality(page) = Len(req[r].items) /\ req[r].total >= Cardinality(page \ spared)

\* The routes that list rows, and the rows they may list.
Lists == {"securities", "detail", "relations", "tape", "recent", "last", "audit"}

Listable(route, asked) ==
  CASE route = "securities" -> {t \in Tickers : master[t] # 0}
    [] route = "detail"     -> {t \in Tickers : master[t] # 0} \cap {asked[1]}
    [] route = "relations"  -> Touching(asked)
    [] route = "audit"      -> {audits[i] : i \in RowsOf(asked[1])}
    [] OTHER                -> TicksOf(asked)

\* A list shows rows of the tables and of what was asked for, and a page at most Limit of them,
\* whatever was committed since it was read: every query reads what no commit takes back
\* (the repositories, upsert_seed, insert_batch).
RowsAreStored ==
  \A r \in Requests : req[r].status \in {200, 404} /\ req[r].route \in Lists =>
    /\ Range(req[r].items) \subseteq Listable(req[r].route, req[r].asked)
    /\ req[r].route \in {"securities", "tape", "recent", "audit"} => Len(req[r].items) <= Limit

\* The answer of an outage is empty.  Of the two queries of /v1/securities one may fail alone:
\* then the rows come with the total 0, or no rows with a total (router.py:449-454).
FailureIsEmpty ==
  \A r \in Requests : req[r].status \in {200, 404} /\ req[r].lost =>
    /\ req[r].route \notin {"alarms", "securities", "snapshot"} =>
         req[r].items = <<>> /\ req[r].total = 0
    /\ req[r].route = "securities" => req[r].items = <<>> \/ req[r].total = 0

\* /v1/ticks/volume has an entry for every symbol asked for, in the order and as often as it
\* was asked for, which no later tick can fall below (aggregate_volume); the last ticks are
\* one per symbol, of symbols that were asked for (snapshot_per_symbol).
TicksAnswerAll ==
  \A r \in Requests :
    /\ Done(r, "volume") /\ ~ req[r].lost =>
         /\ Len(req[r].items) = Len(req[r].asked)
         /\ \A i \in DOMAIN req[r].items :
              /\ req[r].items[i].symbol = req[r].asked[i]
              /\ req[r].items[i].n <= Cardinality(TicksOf(<<req[r].asked[i]>>))
    /\ Done(r, "last") => \A i, j \in DOMAIN req[r].items :
         /\ req[r].items[i] \in TicksOf(req[r].asked)
         /\ i # j => req[r].items[i].symbol # req[r].items[j].symbol

\* The decisions of the health panel add up: every audit row but the failed live orders is in
\* exactly one of live, shadow and noop, and the blocked ones are among the noops
\* (aggregate_decisions_per_minute, OrderExecutor.execute).
MetricsAddUp ==
  \A r \in Requests : Done(r, "decisions") /\ ~ req[r].lost =>
    LET m == req[r].items[1] IN
    m.blocked <= m.noop /\ m.live + m.shadow + m.noop <= m.total /\ m.total <= Len(audits)

\* A database outage turns no read into an error, except the snapshot (the fault-tolerance
\* policy of securities_repo.py:15), and a problem of ours that is not the catch-all's can be
\* traced by its request id.
OutageIsNoError ==
  \A r \in Requests : req[r].pc = "done" =>
    /\ req[r].lost /\ req[r].route # "snapshot" => req[r].status \in {200, 404}
    /\ req[r].status # 500 => req[r].traced

\* The rows, pages and counters that a client reads are the store's, or the empty result of
\* an outage.
ReadsAreHonest ==
  /\ PageIsTheNewest /\ TotalCoversPage /\ RowsAreStored /\ TicksAnswerAll /\ MetricsAddUp
  /\ FailureIsEmpty /\ OutageIsNoError
=============================================================================
