------------------------------ MODULE Process ------------------------------
(***************************************************************************)
(* The API process: app.New opening the stores and loading the keys, main  *)
(* serving requests until a signal, the graceful shutdown and app.Close;   *)
(* with the requests in progress, each a sequence of calls to MySQL and    *)
(* Redis.  A MySQL call holds one connection of a bounded pool while it    *)
(* lasts and has no timeout; a Redis call has the client's.                *)
(***************************************************************************)
EXTENDS Naturals, Sequences, FiniteSets

CONSTANTS
    ReqIds,          \* requests that may arrive
    Kinds,           \* the routes they may be for
    MaxOpenConns,    \* db.SetMaxOpenConns: 25 in the code
    None

VARIABLES
    phase,       \* where main is
    exit,        \* how the process ended: "0", "1" or "killed"; "running" before
    db, rdb,     \* the handles: "none", "open" or "closed"
    listener,    \* "none", "starting", "open" or "closed"
    signals,     \* what the channel done holds: 0 or 1
    reqs         \* ReqIds -> the request

vars == <<phase, exit, db, rdb, listener, signals, reqs>>

\* The calls that each route makes, in order, when none fails.
Calls ==
    [jwks            |-> <<>>,
     login           |-> <<"mysql", "redis">>,
     logout          |-> <<"redis">>,
     refresh         |-> <<"mysql", "mysql">>,
     authorize       |-> <<"mysql", "redis", "redis">>,
     token           |-> <<"mysql", "redis", "mysql", "mysql">>,
     register_client |-> <<"mysql">>]

Phases == {"mysql", "redis", "keys", "notify", "serve", "drain", "close", "stopped",
           "mysql_failed", "redis_failed", "keys_failed"}

Failures == {"mysql_failed", "redis_failed", "keys_failed"}

Request ==
    [pc : {"idle", "ready", "calling", "hung", "done"}, kind : Kinds \cup {None}, next : Nat]

ASSUME KindsAssumption == Kinds # {} /\ Kinds \subseteq DOMAIN Calls
ASSUME PoolAssumption == MaxOpenConns \in Nat \ {0}

-----------------------------------------------------------------------------
(* app.New: each failure closes the handles that were handed over, and the  *)
(* error ends the process.                                                  *)

Fail(at) == phase' = at /\ exit' = "1"

OpenMySQL ==
    /\ phase = "mysql"
    /\ db' = "open" /\ phase' = "redis"
    /\ UNCHANGED <<exit, rdb, listener, signals, reqs>>

\* sqlx.Open refuses the DSN, or the pool is there and its first PING fails.
OpenMySQLFails ==
    /\ phase = "mysql"
    /\ db' \in {"none", "open"}
    /\ Fail("mysql_failed")
    /\ UNCHANGED <<rdb, listener, signals, reqs>>

OpenRedis ==
    /\ phase = "redis"
    /\ rdb' = "open" /\ phase' = "keys"
    /\ UNCHANGED <<exit, db, listener, signals, reqs>>

OpenRedisFails ==
    /\ phase = "redis"
    /\ rdb' = "open" /\ db' = "closed"
    /\ Fail("redis_failed")
    /\ UNCHANGED <<listener, signals, reqs>>

LoadKeys ==
    /\ phase = "keys"
    /\ phase' = "notify"
    /\ UNCHANGED <<exit, db, rdb, listener, signals, reqs>>

KeysFailLeaky ==                                          \* seeded fault
    /\ phase = "keys"
    /\ rdb' = "closed"
    /\ Fail("keys_failed")
    /\ UNCHANGED <<db, listener, signals, reqs>>
LoadKeysFails ==
    /\ phase = "keys"
    /\ rdb' = "closed" /\ db' = "closed"
    /\ Fail("keys_failed")
    /\ UNCHANGED <<listener, signals, reqs>>

-----------------------------------------------------------------------------
(* main *)

Notify ==
    /\ phase = "notify"
    /\ phase' = "serve" /\ listener' = "starting"
    /\ UNCHANGED <<exit, db, rdb, signals, reqs>>

\* The goroutine of ListenAndServe, which a shutdown that came first refuses.
ListenAnyway ==                                           \* seeded fault
    /\ listener = "starting"
    /\ listener' = "open"
    /\ UNCHANGED <<phase, exit, db, rdb, signals, reqs>>
Listen ==
    /\ listener = "starting"
    /\ listener' = IF phase = "serve" THEN "open" ELSE "closed"
    /\ UNCHANGED <<phase, exit, db, rdb, signals, reqs>>

\* The port is taken, or accepting fails: log.Fatalf ends the process.
ListenFails ==
    /\ listener \in {"starting", "open"}
    /\ exit' = "1"
    /\ UNCHANGED <<phase, db, rdb, listener, signals, reqs>>

\* Before signal.Notify a signal kills; after, one is kept and more dropped.
Signal ==
    /\ IF phase \in {"serve", "drain", "close"} THEN signals' = 1 /\ UNCHANGED exit
                                                ELSE exit' = "killed" /\ UNCHANGED signals
    /\ UNCHANGED <<phase, db, rdb, listener, reqs>>

\* srv.Shutdown closes the listener and waits for the requests in progress.
TakeSignal ==
    /\ phase = "serve" /\ signals = 1
    /\ signals' = 0 /\ phase' = "drain"
    /\ listener' = IF listener = "open" THEN "closed" ELSE listener
    /\ UNCHANGED <<exit, db, rdb, reqs>>

InProgress(r) == reqs[r].pc \in {"ready", "calling", "hung"}

Drained == \A r \in ReqIds : ~ InProgress(r)

DrainEnds ==
    /\ phase = "drain" /\ Drained
    /\ phase' = "close"
    /\ UNCHANGED <<exit, db, rdb, listener, signals, reqs>>

\* The context of the shutdown expires; log.Fatalf skips the deferred Close.
NoDeadline == FALSE                                       \* seeded fault
DeadlineSet == TRUE

DrainTimesOut ==
    /\ phase = "drain" /\ DeadlineSet
    /\ exit' = "1"
    /\ UNCHANGED <<phase, db, rdb, listener, signals, reqs>>

Close ==
    /\ phase = "close"
    /\ rdb' = "closed" /\ db' = "closed"
    /\ phase' = "stopped" /\ exit' = "0"
    /\ UNCHANGED <<listener, signals, reqs>>

Kill ==
    /\ exit' = "killed"
    /\ UNCHANGED <<phase, db, rdb, listener, signals, reqs>>

-----------------------------------------------------------------------------
(* Requests *)

CallsOf(r) == Calls[reqs[r].kind]
Store(r) == CallsOf(r)[reqs[r].next]

\* A connection is taken for a call and returned when the call ends.
HeldByRequest(r) ==                                       \* seeded fault
    InProgress(r) /\ \E i \in 1..reqs[r].next :
        /\ i \in DOMAIN CallsOf(r) /\ CallsOf(r)[i] = "mysql"
        /\ i < reqs[r].next \/ reqs[r].pc \in {"calling", "hung"}
Holding(r) == reqs[r].pc \in {"calling", "hung"} /\ Store(r) = "mysql"

FreeConn == Cardinality({r \in ReqIds : Holding(r)}) < MaxOpenConns

MainUnchanged == UNCHANGED <<phase, exit, db, rdb, listener, signals>>

Arrive(r, kind) ==
    /\ listener = "open" /\ reqs[r].pc = "idle"
    /\ reqs' = [reqs EXCEPT ![r] = [pc |-> "ready", kind |-> kind, next |-> 1]]
    /\ MainUnchanged

MakeCall(r) ==
    /\ reqs[r].pc = "ready" /\ reqs[r].next <= Len(CallsOf(r))
    /\ Store(r) = "mysql" => FreeConn
    /\ reqs' = [reqs EXCEPT ![r].pc = "calling"]
    /\ MainUnchanged

CallReturns(r) ==
    /\ reqs[r].pc = "calling"
    /\ reqs' = [reqs EXCEPT ![r].pc = "ready", ![r].next = @ + 1]
    /\ MainUnchanged

\* An error, or a result that answers the request early.
CallEndsRequest(r) ==
    /\ reqs[r].pc = "calling"
    /\ reqs' = [reqs EXCEPT ![r].pc = "done"]
    /\ MainUnchanged

\* A query that MySQL never answers; the DSN sets no timeout.
QueryHangs(r) ==
    /\ reqs[r].pc = "calling" /\ Store(r) = "mysql"
    /\ reqs' = [reqs EXCEPT ![r].pc = "hung"]
    /\ MainUnchanged

\* The client hangs up: r.Context() is cancelled, with it the call that is
\* waiting for a connection, running or hung.
ClientLeaves(r) ==
    /\ InProgress(r)
    /\ reqs' = [reqs EXCEPT ![r].pc = "done"]
    /\ MainUnchanged

Answer(r) ==
    /\ reqs[r].pc = "ready" /\ reqs[r].next > Len(CallsOf(r))
    /\ reqs' = [reqs EXCEPT ![r].pc = "done"]
    /\ MainUnchanged

-----------------------------------------------------------------------------

Init ==
    /\ phase = "mysql" /\ exit = "running"
    /\ db = "none" /\ rdb = "none"
    /\ listener = "none" /\ signals = 0
    /\ reqs = [r \in ReqIds |-> [pc |-> "idle", kind |-> None, next |-> 1]]

New == OpenMySQL \/ OpenMySQLFails \/ OpenRedis \/ OpenRedisFails \/ LoadKeys \/ LoadKeysFails

Main == New \/ Notify \/ TakeSignal \/ DrainEnds \/ DrainTimesOut \/ Close

Handler(r) == MakeCall(r) \/ CallReturns(r) \/ CallEndsRequest(r) \/ Answer(r)

Requests ==
    \E r \in ReqIds :
        \/ \E kind \in Kinds : Arrive(r, kind)
        \/ Handler(r)
        \/ QueryHangs(r)
        \/ ClientLeaves(r)

Running == exit = "running"

Next == Running /\ (Main \/ Listen \/ ListenFails \/ Signal \/ Kill \/ Requests)

Spec == Init /\ [][Next]_vars

\* main, the handlers and Redis go on; MySQL need not answer.
FairSpec ==
    /\ Spec
    /\ WF_vars(Running /\ Main)
    /\ \A r \in ReqIds : WF_vars(Running /\ Handler(r))

-----------------------------------------------------------------------------

TypeOK ==
    /\ phase \in Phases
    /\ exit \in {"running", "0", "1", "killed"}
    /\ db \in {"none", "open", "closed"} /\ rdb \in {"none", "open", "closed"}
    /\ listener \in {"none", "starting", "open", "closed"}
    /\ signals \in {0, 1}
    /\ reqs \in [ReqIds -> Request]

\* What main has opened and closed by each phase, a failure of New included,
\* and when requests can be in progress.
PhaseSound ==
    /\ phase \in {"keys", "notify", "serve", "drain", "close"} => db = "open" /\ rdb = "open"
    /\ phase = "redis" => db = "open"
    /\ listener = "open" => phase = "serve"
    /\ phase \notin {"serve", "drain"} => \A r \in ReqIds : ~ InProgress(r)
    /\ exit = "0" <=> phase = "stopped"
    /\ phase = "stopped" => db = "closed" /\ rdb = "closed"
    /\ phase \in Failures => exit = "1"
    /\ phase \in {"mysql", "mysql_failed"} => rdb = "none"
    /\ phase = "redis_failed" => db = "closed"
    /\ phase = "keys_failed" => db = "closed" /\ rdb = "closed"

\* A request never meets a store before it is opened or after it is closed,
\* however signals, the listener and the shutdown interleave.
StoresOpenWhileServing ==
    \A r \in ReqIds : InProgress(r) => db = "open" /\ rdb = "open"

\* Exit status 0 means a clean stop: every request that was accepted came to
\* its end, and both handles are closed.
CleanExit ==
    exit = "0" => /\ db = "closed" /\ rdb = "closed"
                  /\ \A r \in ReqIds : ~ InProgress(r)

\* The inductive invariant.
IInv == TypeOK /\ PhaseSound /\ StoresOpenWhileServing /\ CleanExit

\* A request waits for a connection only while other requests use them all:
\* it never waits for one that it holds itself, so that with a pool of any
\* size every request ends, unless some query hangs for good.
RequestsEnd ==
    (\A q \in ReqIds : []<>(reqs[q].pc # "hung" \/ ~ Running)) =>
        \A r \in ReqIds : InProgress(r) ~> (~ InProgress(r) \/ ~ Running)

\* This request has a step of its own to take, or its call returns.
CanMove(r) ==
    \/ reqs[r].pc = "calling"
    \/ /\ reqs[r].pc = "ready"
       /\ reqs[r].next <= Len(CallsOf(r)) /\ Store(r) = "mysql" => FreeConn

\* The safety half of RequestsEnd: a request in progress that cannot go on is in
\* a query that hangs, or waits for one that another request is in at this
\* moment; requests between two queries, however many, keep nobody waiting.
PoolNeverStuck ==
    \A r \in ReqIds : InProgress(r) =>
        \/ CanMove(r) \/ reqs[r].pc = "hung"
        \/ \E q \in ReqIds \ {r} : reqs[q].pc \in {"calling", "hung"} /\ Store(q) = "mysql"

\* A signal ends the process, whatever queries hang.
SignalEnds == signals = 1 ~> ~ Running
=============================================================================
