--------------------------- MODULE Commands_proofs ---------------------------
(***************************************************************************)
(* Proofs about the two commands.  cmd/api (Process): for any number of    *)
(* requests and any size of the pool, the order in which the stores are    *)
(* opened, used and closed.  cmd/migrate (Migrate): for any arguments, any *)
(* number of runs, each cut off anywhere or not at all, what the database  *)
(* holds against what goose has recorded.                                  *)
(***************************************************************************)
EXTENDS Process, Migrate, FiniteSetTheorems, TLAPS

-----------------------------------------------------------------------------
(* cmd/api *)

LEMMA InitIInv == Init => IInv
  BY DEF Init, IInv, TypeOK, PhaseSound, Phases, Failures, StoresOpenWhileServing, CleanExit,
         Request, InProgress

\* app.New: no request is in progress before the listener is open.
LEMMA NewIInv ==
    ASSUME IInv, Running, New
    PROVE  IInv'
<1>1. /\ phase \in {"mysql", "redis", "keys"}
      /\ UNCHANGED <<listener, signals, reqs>>
      /\ \A r \in ReqIds : ~ InProgress(r)
      /\ listener # "open"
  BY DEF New, OpenMySQL, OpenMySQLFails, OpenRedis, OpenRedisFails, LoadKeys, LoadKeysFails,
         IInv, PhaseSound
<1>2. TypeOK'
  BY DEF New, OpenMySQL, OpenMySQLFails, OpenRedis, OpenRedisFails, LoadKeys, LoadKeysFails, Fail,
         IInv, TypeOK, Phases
<1>3. \A r \in ReqIds : ~ InProgress(r)'
  BY <1>1 DEF InProgress
<1>4. PhaseSound'
  BY <1>1, <1>3
     DEF New, OpenMySQL, OpenMySQLFails, OpenRedis, OpenRedisFails, LoadKeys, LoadKeysFails, Fail,
         IInv, PhaseSound, Failures, Running
<1>5. StoresOpenWhileServing' /\ CleanExit'
  BY <1>2, <1>4
     DEF TypeOK, PhaseSound, StoresOpenWhileServing, CleanExit, InProgress, Phases, Failures
<1> QED
  BY <1>2, <1>4, <1>5 DEF IInv

\* main and the world around it leave the requests alone.
LEMMA MainIInv ==
    ASSUME IInv, Running,
           Notify \/ TakeSignal \/ DrainEnds \/ DrainTimesOut \/ Close \/ Listen \/ ListenFails
             \/ Signal \/ Kill
    PROVE  IInv'
<1>1. UNCHANGED reqs
  BY DEF Notify, TakeSignal, DrainEnds, DrainTimesOut, Close, Listen, ListenFails, Signal, Kill
<1>2. \A r \in ReqIds : InProgress(r)' <=> InProgress(r)
  BY <1>1 DEF InProgress
<1>3. TypeOK'
  BY DEF Notify, TakeSignal, DrainEnds, DrainTimesOut, Close, Listen, ListenFails, Signal, Kill,
         IInv, TypeOK, Phases
<1>4. PhaseSound'
  BY <1>2
     DEF Notify, TakeSignal, DrainEnds, Drained, DrainTimesOut, Close, Listen, ListenFails, Signal,
         Kill, IInv, TypeOK, PhaseSound, Phases, Failures, Running
<1>5. StoresOpenWhileServing' /\ CleanExit'
  BY <1>3, <1>4
     DEF TypeOK, PhaseSound, StoresOpenWhileServing, CleanExit, InProgress, Phases, Failures
<1> QED
  BY <1>3, <1>4, <1>5 DEF IInv

LEMMA RequestsIInv ==
    ASSUME IInv, Running, Requests
    PROVE  IInv'
<1> PICK r \in ReqIds :
        \/ \E kind \in Kinds : Arrive(r, kind)
        \/ Handler(r)
        \/ QueryHangs(r)
        \/ ClientLeaves(r)
  BY DEF Requests
<1>1. MainUnchanged
  BY DEF Arrive, Handler, MakeCall, CallReturns, CallEndsRequest, Answer, QueryHangs, ClientLeaves
<1>2. phase \in {"serve", "drain"}
  BY DEF Arrive, Handler, MakeCall, CallReturns, CallEndsRequest, Answer, QueryHangs, ClientLeaves,
         InProgress, IInv, PhaseSound
<1>3. reqs' \in [ReqIds -> Request]
  <2>1. reqs[r] \in Request /\ reqs \in [ReqIds -> Request]
    BY DEF IInv, TypeOK
  <2>2. CASE \E kind \in Kinds : Arrive(r, kind)
    BY <2>1, <2>2 DEF Arrive, Request
  <2>3. CASE MakeCall(r) \/ CallEndsRequest(r) \/ Answer(r) \/ QueryHangs(r) \/ ClientLeaves(r)
    BY <2>1, <2>3 DEF MakeCall, CallEndsRequest, Answer, QueryHangs, ClientLeaves, Request
  <2>4. CASE CallReturns(r)
    BY <2>1, <2>4 DEF CallReturns, Request
  <2> QED
    BY <2>2, <2>3, <2>4 DEF Handler
<1>4. TypeOK'
  BY <1>1, <1>3 DEF MainUnchanged, IInv, TypeOK
<1>5. PhaseSound'
  BY <1>1, <1>2 DEF MainUnchanged, IInv, PhaseSound, Failures
<1>6. StoresOpenWhileServing' /\ CleanExit'
  BY <1>4, <1>5
     DEF TypeOK, PhaseSound, StoresOpenWhileServing, CleanExit, InProgress, Phases, Failures
<1> QED
  BY <1>4, <1>5, <1>6 DEF IInv

LEMMA NextIInv ==
    ASSUME IInv, [Next]_vars
    PROVE  IInv'
<1>1. CASE Running /\ Main
  BY <1>1, NewIInv, MainIInv DEF Main
<1>2. CASE Running /\ (Listen \/ ListenFails \/ Signal \/ Kill)
  BY <1>2, MainIInv
<1>3. CASE Running /\ Requests
  BY <1>3, RequestsIInv
<1>4. CASE UNCHANGED vars
  BY <1>4
     DEF vars, IInv, TypeOK, PhaseSound, StoresOpenWhileServing, CleanExit, InProgress
<1> QED
  BY <1>1, <1>2, <1>3, <1>4 DEF Next

\* What New opens and closes and what requests meet, at any number of
\* requests and connections.
THEOREM ProcessInvariance == Spec => []IInv
  BY InitIInv, NextIInv, PTL DEF Spec

\* No request meets a store that is not yet open or closed already.
THEOREM StoresOpenWhileServingHolds == Spec => []StoresOpenWhileServing
<1>1. IInv => StoresOpenWhileServing
  BY DEF IInv
<1> QED
  BY <1>1, ProcessInvariance, PTL

\* An exit with status 0 left no request and no handle behind.
THEOREM CleanExitHolds == Spec => []CleanExit
<1>1. IInv => CleanExit
  BY DEF IInv
<1> QED
  BY <1>1, ProcessInvariance, PTL

\* With a pool of any size and any number of requests, nobody waits for a
\* connection but behind a query of somebody else.
THEOREM PoolNeverStuckHolds == Spec => []PoolNeverStuck
<1>1. ASSUME IInv
      PROVE  PoolNeverStuck
  <2> SUFFICES ASSUME NEW r \in ReqIds, reqs[r].pc = "ready", ~ FreeConn
               PROVE  \E q \in ReqIds \ {r} :
                         reqs[q].pc \in {"calling", "hung"} /\ Store(q) = "mysql"
    BY DEF PoolNeverStuck, CanMove, InProgress
  <2>1. {q \in ReqIds : Holding(q)} # {}
    <3>1. Cardinality({}) < MaxOpenConns
      BY FS_EmptySet, PoolAssumption
    <3> QED
      BY <3>1 DEF FreeConn
  <2>2. PICK q \in ReqIds : Holding(q)
    BY <2>1
  <2> QED
    BY <2>2 DEF Holding
<1> QED
  BY <1>1, ProcessInvariance, PTL

-----------------------------------------------------------------------------
(* cmd/migrate: the SQL files *)

\* What each file adds and drops, statement by statement.
LEMMA Files ==
    /\ Len(Adds[1]) = 2 /\ Adds[1][1] = "users" /\ Adds[1][2] = "refresh_tokens"
    /\ Len(Adds[2]) = 1 /\ Adds[2][1] = "clients"
    /\ Len(Adds[3]) = 1 /\ Adds[3][1] = "client_scope"
    /\ Len(Drops[1]) = 2 /\ Drops[1][1] = "refresh_tokens" /\ Drops[1][2] = "users"
    /\ Len(Drops[2]) = 1 /\ Drops[2][1] = "clients"
    /\ Len(Drops[3]) = 1 /\ Drops[3][1] = "client_scope"
  BY DEF Adds, Drops

LEMMA AppliedIs ==
    /\ Applied(1) = {"users", "refresh_tokens"}
    /\ Applied(2) = {"clients"}
    /\ Applied(3) = {"client_scope"}
  BY DEF Applied, Adds

\* Statement i of version v, with how many there are and what it works on.
LEMMA StatementIs ==
    ASSUME NEW v \in Versions, NEW i \in 1..3
    PROVE  /\ Len(Adds[v]) \in 1..2 /\ Len(Drops[v]) \in 1..2
           /\ i <= Len(Adds[v]) => Adds[v][i] \in Applied(v)
           /\ i <= Len(Drops[v]) => Drops[v][i] \in Applied(v)
           /\ Applied(v) \subseteq Objects
<1>1. v = 1 \/ v = 2 \/ v = 3
  BY DEF Versions
<1>2. i = 1 \/ i = 2 \/ i = 3
  OBVIOUS
<1> QED
  BY <1>1, <1>2, Files, AppliedIs DEF Objects

\* Every object of a version is added by one of its statements.
LEMMA AllAdded ==
    ASSUME NEW v \in Versions, NEW o \in Applied(v)
    PROVE  \E i \in 1..Len(Adds[v]) : Adds[v][i] = o
<1>1. v = 1 \/ v = 2 \/ v = 3
  BY DEF Versions
<1> QED
  BY <1>1, Files, AppliedIs

\* Taking a version down drops nothing of the versions below it.
LEMMA DropsNothingBelow ==
    ASSUME NEW v \in Versions, NEW w \in Versions, v < w, NEW o \in Applied(w)
    PROVE  Applied(v) \cap Dropped(o) = {}
<1>1. (v = 1 /\ w = 2) \/ (v = 1 /\ w = 3) \/ (v = 2 /\ w = 3)
  BY DEF Versions
<1> QED
  BY <1>1, AppliedIs DEF Dropped

LEMMA AppliedAll == Objects = Applied(1) \cup Applied(2) \cup Applied(3)
  BY AppliedIs DEF Objects

\* The highest of the versions recorded, when there is no gap.
LEMMA MaxUpTo ==
    ASSUME NEW n \in Nat
    PROVE  Max({0} \cup 1..n) = n
<1>1. n \in {0} \cup 1..n /\ \A y \in {0} \cup 1..n : n >= y
  OBVIOUS
<1>2. \A m \in {0} \cup 1..n : (\A y \in {0} \cup 1..n : m >= y) => m = n
  BY <1>1
<1> QED
  BY <1>1, <1>2 DEF Max

-----------------------------------------------------------------------------
(* cmd/migrate: what goose has recorded *)

LEMMA CurrentType ==
    ASSUME recorded \subseteq Versions
    PROVE  Current \in 0..3
<1> DEFINE S == {0} \cup recorded
<1>1. S \subseteq 0..3 /\ 0 \in S
  BY DEF Versions
<1>2. \E x \in S : \A y \in S : x >= y
  <2>1. CASE 3 \in S
    BY <1>1, <2>1
  <2>2. CASE 3 \notin S /\ 2 \in S
    BY <1>1, <2>2
  <2>3. CASE 3 \notin S /\ 2 \notin S /\ 1 \in S
    BY <1>1, <2>3
  <2>4. CASE S = {0}
    BY <2>4
  <2> QED
    BY <1>1, <2>1, <2>2, <2>3, <2>4
<1>3. Max(S) \in S
  BY <1>2 DEF Max
<1> QED
  BY <1>1, <1>3 DEF Current

LEMMA CurrentIs ==
    ASSUME NEW n \in 0..3, recorded = 1..n
    PROVE  Current = n
  BY MaxUpTo DEF Current

\* The next version is written on top, the current one is deleted from there.
LEMMA RecordedUpTo ==
    ASSUME NEW n \in 0..3, NEW m \in 0..3, recorded = 1..n,
           \/ m = n /\ recorded' = recorded
           \/ m = n + 1 /\ recorded' = recorded \cup {m}
           \/ n = m + 1 /\ recorded' = recorded \ {n}
    PROVE  recorded' = 1..m /\ Current' = m
<1>1. recorded' = 1..m
  <2>1. n + 1 = m => (1..n) \cup {m} = 1..m
    OBVIOUS
  <2>2. m + 1 = n => (1..n) \ {n} = 1..m
    OBVIOUS
  <2> QED
    BY <2>1, <2>2
<1>2. Max({0} \cup 1..m) = m
  BY MaxUpTo
<1> QED
  BY <1>1, <1>2 DEF Current

-----------------------------------------------------------------------------
(* cmd/migrate: the inductive invariant *)

LEMMA RunFields ==
    ASSUME NEW pc \in {"idle", "connect", "plan", "statement"} \cup Ended,
           NEW command \in Commands \cup {"none"}, NEW version \in 0..3, NEW next \in 0..3
    PROVE  [pc |-> pc, command |-> command, version |-> version, next |-> next] \in Runs
  BY DEF Runs

LEMMA InitMigrateInv == MigrateInit => MigrateInv
<1> SUFFICES ASSUME MigrateInit PROVE MigrateInv
  OBVIOUS
<1>1. MigrateTypeOK
  <2>1. run \in Runs
    BY DEF MigrateInit, Idle, Runs
  <2>2. torn \in BOOLEAN
    BY Zenon DEF MigrateInit
  <2> QED
    BY <2>1, <2>2 DEF MigrateInit, MigrateTypeOK
<1>2. Current = 0
  BY CurrentIs DEF MigrateInit
<1> QED
  BY <1>1, <1>2
     DEF MigrateInit, Idle, MigrateInv, SchemaSound, RunSound, RecordedIsThere, UpCompletes,
         RefusedOnlyWhenTorn

\* What every step that leaves the database alone, and is not inside a
\* migration, preserves.
LEMMA DatabaseUntouched ==
    ASSUME MigrateInv, UNCHANGED <<objects, recorded, torn>>, run.pc # "statement"
    PROVE  SchemaSound' /\ RecordedIsThere'
<1>1. Current' = Current
  BY DEF Current
<1>2. SchemaSound'
  BY <1>1 DEF MigrateInv, SchemaSound
<1>3. ~ torn => \A v \in recorded : Applied(v) \subseteq objects
  BY DEF MigrateInv, RecordedIsThere, TakingDown
<1>4. RecordedIsThere'
  BY <1>3 DEF RecordedIsThere, Applied
<1> QED
  BY <1>2, <1>4

LEMMA CallMigrateInv ==
    ASSUME MigrateInv, NEW command \in Commands, Call(command)
    PROVE  MigrateInv'
<1>1. SchemaSound' /\ RecordedIsThere'
  BY DatabaseUntouched DEF Call, Ended
<1>2. /\ run'.pc \in {"connect", "usage", "ok", "unknown"}
      /\ run'.command = command /\ run'.version = 0 /\ run'.next = 0
      /\ run'.pc = "connect" => command \in {"up", "down"}
      /\ run'.pc = "ok" => command = "create name"
  BY DEF Call, Idle
<1>3. MigrateTypeOK'
  <2>1. run' = [pc |-> run'.pc, command |-> command, version |-> 0, next |-> 0]
    BY DEF Call, Idle
  <2>2. run'.pc \in {"idle", "connect", "plan", "statement"} \cup Ended
    BY <1>2 DEF Ended
  <2>3. [pc |-> run'.pc, command |-> command, version |-> 0, next |-> 0] \in Runs
    <3>1. command \in Commands \cup {"none"} /\ 0 \in 0..3
      OBVIOUS
    <3> QED
      BY <2>2, <3>1, RunFields, Zenon
  <2> QED
    BY <2>1, <2>3 DEF Call, MigrateInv, MigrateTypeOK
<1>4. RunSound' /\ UpCompletes' /\ RefusedOnlyWhenTorn'
  BY <1>2 DEF RunSound, UpCompletes, RefusedOnlyWhenTorn
<1> QED
  BY <1>1, <1>3, <1>4 DEF MigrateInv

LEMMA ConnectMigrateInv ==
    ASSUME MigrateInv, NEW up \in BOOLEAN, Connect(up)
    PROVE  MigrateInv'
<1>1. SchemaSound' /\ RecordedIsThere'
  BY DatabaseUntouched DEF Connect
<1>2. MigrateTypeOK'
  BY DEF Connect, End, MigrateInv, MigrateTypeOK, Runs, Ended
<1>3. run'.pc \in {"plan", "failed"} /\ run'.command = run.command /\ run.command \in {"up", "down"}
  BY DEF Connect, End, MigrateInv, MigrateTypeOK, Runs, RunSound
<1>4. RunSound' /\ UpCompletes' /\ RefusedOnlyWhenTorn'
  BY <1>3 DEF RunSound, UpCompletes, RefusedOnlyWhenTorn
<1> QED
  BY <1>1, <1>2, <1>4 DEF MigrateInv

\* An up that finds nothing left to apply has everything in place.
LEMMA NothingLeft ==
    ASSUME MigrateInv, run.pc = "plan", Current + 1 \notin Versions
    PROVE  ~ torn => objects = Objects /\ recorded = Versions
<1>1. Current = 3
  BY CurrentType DEF MigrateInv, MigrateTypeOK, Versions
<1>2. recorded = 1..3
  BY <1>1 DEF MigrateInv, SchemaSound
<1>3. ~ torn => \A v \in recorded : Applied(v) \subseteq objects
  BY DEF MigrateInv, RecordedIsThere, TakingDown
<1>4. ~ torn => Objects \subseteq objects
  BY <1>2, <1>3, AppliedAll
<1> QED
  BY <1>2, <1>4 DEF MigrateInv, MigrateTypeOK, Versions

LEMMA PlanMigrateInv ==
    ASSUME MigrateInv, Plan
    PROVE  MigrateInv'
<1> DEFINE version == IF run.command = "up" THEN Current + 1 ELSE Current
<1>1. SchemaSound' /\ RecordedIsThere' /\ Current' = Current
  BY DatabaseUntouched DEF Plan, Current
<1>2. run.command \in {"up", "down"} /\ MigrateTypeOK
  BY DEF Plan, MigrateInv, RunSound
<1>3. CASE version \in Versions
  <2>1. run' = [run EXCEPT !.pc = "statement", !.version = version, !.next = 1]
    BY <1>3 DEF Plan
  <2>2. /\ run'.pc = "statement" /\ run'.command = run.command
        /\ run'.version = version /\ run'.next = 1
    BY <1>2, <2>1 DEF MigrateTypeOK, Runs
  <2>3. MigrateTypeOK'
    <3>1. version \in 0..3
      BY <1>3 DEF Versions
    <3>2. run' = [pc |-> "statement", command |-> run.command, version |-> version, next |-> 1]
      BY <1>2, <2>1 DEF MigrateTypeOK, Runs
    <3>3. run' \in Runs
      BY <1>2, <3>1, <3>2, RunFields DEF MigrateTypeOK, Runs
    <3> QED
      BY <1>2, <3>3 DEF MigrateTypeOK, Plan
  <2>4. Len(Statements)' \in 1..2
    BY <1>3, <2>2, StatementIs DEF Statements
  <2>5. RunSound'
    BY <1>1, <1>2, <1>3, <2>2, <2>4 DEF RunSound
  <2>6. UpCompletes' /\ RefusedOnlyWhenTorn'
    BY <2>2 DEF UpCompletes, RefusedOnlyWhenTorn
  <2> QED
    BY <1>1, <2>3, <2>5, <2>6 DEF MigrateInv
<1>4. CASE version \notin Versions
  <2>1. run' = [run EXCEPT !.pc = IF run.command = "up" THEN "ok" ELSE "failed"]
    BY <1>4 DEF Plan, End
  <2>2. run'.command = run.command /\ run'.pc = IF run.command = "up" THEN "ok" ELSE "failed"
    BY <1>2, <2>1 DEF MigrateTypeOK, Runs
  <2>3. MigrateTypeOK'
    BY <1>2, <2>1 DEF MigrateTypeOK, Plan, Runs, Ended
  <2>4. UpCompletes'
    BY <1>4, <2>2, NothingLeft DEF UpCompletes, Plan
  <2>5. RunSound' /\ RefusedOnlyWhenTorn'
    BY <2>2 DEF RunSound, RefusedOnlyWhenTorn
  <2> QED
    BY <1>1, <2>3, <2>4, <2>5 DEF MigrateInv
<1> QED
  BY <1>3, <1>4

-----------------------------------------------------------------------------
(* cmd/migrate: one statement of a migration *)

\* Where a run that is about to execute a statement stands.
LEMMA AtStatement ==
    ASSUME MigrateInv, run.pc = "statement", run.next <= Len(Statements)
    PROVE  /\ run \in Runs /\ run.command \in {"up", "down"} /\ run.version \in Versions
           /\ run.next \in 1..2 /\ Len(Statements) \in 1..2
           /\ Statements[run.next] \in Applied(run.version)
           /\ Statements[run.next] \in Objects
<1>1. /\ run \in Runs /\ run.command \in {"up", "down"} /\ run.version \in Versions
      /\ run.next \in 1..Len(Statements) + 1
  BY DEF MigrateInv, MigrateTypeOK, RunSound
<1>2. Len(Statements) \in 1..2 /\ run.next \in 1..2
  <2>1. Len(Statements) \in 1..2
    BY <1>1, StatementIs DEF Statements
  <2>2. Len(Statements) = 1 \/ Len(Statements) = 2
    BY <2>1
  <2> DEFINE n == Len(Statements)
  <2>3. n \in {1, 2} /\ run.next \in 1..n + 1 /\ run.next <= n
    BY <1>1, <2>2
  <2> HIDE DEF n
  <2>4. run.next \in 1..2
    BY <2>3
  <2> QED
    BY <2>1, <2>4
<1>3. Statements[run.next] \in Applied(run.version)
  <2>1. run.next \in 1..3
    BY <1>2
  <2> QED
    BY <1>1, <2>1, StatementIs DEF Statements
<1>4. Statements[run.next] \in Objects
  <2>1. Applied(run.version) \subseteq Objects
    BY <1>1, StatementIs
  <2> QED
    BY <1>3, <2>1
<1> QED
  BY <1>1, <1>2, <1>3, <1>4

\* The database refuses nothing that goose asks of it in order, unless the
\* columns are there unrecorded or a down was cut off.
LEMMA NotRefused ==
    ASSUME MigrateInv, run.pc = "statement", run.next <= Len(Statements), ~ torn,
           "client_scope" \in objects => 3 \in recorded
    PROVE  IF run.command = "up" THEN CanAdd(Statements[run.next])
           ELSE CanDrop(Statements[run.next])
<1> DEFINE o == Statements[run.next]
<1>1. /\ run.command \in {"up", "down"} /\ run.version \in {1, 2, 3} /\ run.next \in {1, 2}
  BY AtStatement DEF Versions
<1>2. /\ recorded = 1..Current /\ Current \in 0..3
      /\ run.version = (IF run.command = "up" THEN Current + 1 ELSE Current)
      /\ \A i \in 1..run.next - 1 : Statements[i] \in objects <=> run.command = "up"
      /\ \A v \in recorded : TakingDown(v) \/ Applied(v) \subseteq objects
  BY CurrentType DEF MigrateInv, MigrateTypeOK, SchemaSound, RunSound, RecordedIsThere
<1>3. CASE run.command = "up"
  <2>1. Statements = Adds[run.version]
    BY <1>3 DEF Statements
  <2>2. CASE run.version = 1 /\ run.next = 1
    BY <1>3, <2>1, <2>2, Files DEF CanAdd, Needs, Tolerant
  <2>3. CASE run.version = 1 /\ run.next = 2
    <3>1. 1 \in 1..run.next - 1
      BY <2>3
    <3>2. "users" \in objects
      BY <1>2, <1>3, <2>1, <2>3, <3>1, Files
    <3> QED
      BY <1>3, <2>1, <2>3, <3>2, Files DEF CanAdd, Needs, Tolerant
  <2>4. CASE run.version = 2
    BY <1>1, <1>3, <2>1, <2>4, Files DEF CanAdd, Needs, Tolerant
  <2>5. CASE run.version = 3
    <3>1. Current = 2 /\ 1 \in recorded /\ 3 \notin recorded
      BY <1>2, <1>3, <2>5
    <3>2. "refresh_tokens" \in objects
      BY <1>2, <1>3, <3>1, AppliedIs DEF TakingDown
    <3> QED
      BY <1>1, <1>3, <2>1, <2>5, <3>1, <3>2, Files DEF CanAdd, Needs, Tolerant
  <2> QED
    BY <1>1, <2>2, <2>3, <2>4, <2>5
<1>4. CASE run.command = "down"
  <2>1. Statements = Drops[run.version] /\ run.version = Current /\ run.version \in recorded
    BY <1>1, <1>2, <1>4 DEF Statements
  <2>2. CASE run.version = 1 /\ run.next = 1
    BY <1>4, <2>1, <2>2, Files DEF CanDrop, Tolerant
  <2>3. CASE run.version = 1 /\ run.next = 2
    <3>1. 1 \in 1..run.next - 1
      BY <2>3
    <3>2. "refresh_tokens" \notin objects
      BY <1>2, <1>4, <2>1, <2>3, <3>1, Files
    <3> QED
      BY <1>4, <2>1, <2>3, <3>2, Files DEF CanDrop, Tolerant
  <2>4. CASE run.version = 2
    BY <1>1, <1>4, <2>1, <2>4, Files DEF CanDrop, Tolerant
  <2>5. CASE run.version = 3
    <3>1. run.next = 1
      BY <1>1, <2>1, <2>5, Files
    <3>2. "client_scope" \in objects
      BY <1>2, <2>1, <2>5, <3>1, AppliedIs DEF TakingDown
    <3> QED
      BY <1>4, <2>1, <2>5, <3>1, <3>2, Files DEF CanDrop, Tolerant
  <2> QED
    BY <1>1, <2>2, <2>3, <2>4, <2>5
<1> QED
  BY <1>1, <1>3, <1>4

\* A table is added only over the one it refers to, and drops take what refers
\* to it along.
LEMMA NeedsKept ==
    ASSUME NEW o \in Objects, objects \subseteq Objects, \A x \in objects : Needs(x) \subseteq objects
    PROVE  /\ CanAdd(o) => \A x \in objects \cup {o} : Needs(x) \subseteq objects \cup {o}
           /\ CanDrop(o) =>
                \A x \in objects \ Dropped(o) : Needs(x) \subseteq objects \ Dropped(o)
<1>1. CanAdd(o) => \A x \in objects \cup {o} : Needs(x) \subseteq objects \cup {o}
  BY DEF CanAdd
<1>2. ASSUME CanDrop(o), NEW x \in objects \ Dropped(o), NEW y \in Needs(x)
      PROVE  y \in objects \ Dropped(o)
  <2>1. y \in objects
    BY <1>2
  <2>2. (x = "refresh_tokens" /\ y = "users") \/ (x = "client_scope" /\ y = "refresh_tokens")
    BY <1>2 DEF Needs
  <2> QED
    BY <1>2, <2>1, <2>2 DEF CanDrop, Dropped
<1> QED
  BY <1>1, <1>2

LEMMA StatementMigrateInv ==
    ASSUME MigrateInv, NEW outcome \in Outcomes, Statement(outcome)
    PROVE  MigrateInv'
<1> DEFINE o      == Statements[run.next]
           can    == IF run.command = "up" THEN CanAdd(o) ELSE CanDrop(o)
           effect == can /\ outcome # "failed"
<1>1. /\ run \in Runs /\ run.command \in {"up", "down"} /\ run.version \in Versions
      /\ run.next \in 1..2 /\ Len(Statements) \in 1..2 /\ run.next <= Len(Statements)
      /\ o \in Applied(run.version) /\ o \in Objects
      /\ run.pc = "statement"
  BY AtStatement DEF Statement
<1>2. /\ IF ~ can THEN run' = [run EXCEPT !.pc = "refused"]
         ELSE IF outcome = "ok" THEN run' = [run EXCEPT !.next = @ + 1]
         ELSE run' = [run EXCEPT !.pc = "failed"]
      /\ objects' = IF ~ effect THEN objects
                    ELSE IF run.command = "up" THEN objects \cup {o} ELSE objects \ Dropped(o)
      /\ torn' = (torn \/ (run.command = "down" /\ (effect \/ run.next > 1)
                             /\ run'.pc # "statement"))
      /\ recorded' = recorded
  BY DEF Statement, End
<1> HIDE DEF can, effect
<1>3. /\ run'.command = run.command /\ run'.version = run.version
      /\ \/ run'.pc = "refused" /\ ~ can
         \/ run'.pc = "failed" /\ can
         \/ run'.pc = "statement" /\ run'.next = run.next + 1 /\ can /\ outcome = "ok"
  BY <1>1, <1>2 DEF Runs
<1>4. /\ MigrateTypeOK /\ SchemaSound /\ RunSound /\ RecordedIsThere /\ RefusedOnlyWhenTorn
      /\ Current' = Current /\ Current \in 0..3
  BY <1>2, CurrentType DEF MigrateInv, MigrateTypeOK, Current
<1>5. /\ effect /\ run.command = "up" => CanAdd(o) /\ objects' = objects \cup {o}
      /\ effect /\ run.command = "down" => CanDrop(o) /\ objects' = objects \ Dropped(o)
      /\ ~ effect => objects' = objects
  BY <1>2 DEF can, effect
<1>6. MigrateTypeOK'
  <2>1. run' \in Runs
    BY <1>1, <1>2 DEF Runs, Ended
  <2>2. torn' \in BOOLEAN
    BY <1>2, Zenon
  <2>3. objects' \subseteq Objects
    BY <1>1, <1>4, <1>5 DEF MigrateTypeOK
  <2> QED
    BY <1>2, <1>4, <2>1, <2>2, <2>3 DEF MigrateTypeOK
<1>7. SchemaSound'
  <2>1. \A x \in objects' : Needs(x) \subseteq objects'
    BY <1>1, <1>4, <1>5, NeedsKept DEF MigrateTypeOK, SchemaSound
  <2> QED
    BY <1>2, <1>4, <2>1 DEF SchemaSound
<1>8. RunSound'
  <2> SUFFICES ASSUME run'.pc = "statement"
               PROVE  \A i \in 1..run.next : Statements[i] \in objects' <=> run.command = "up"
    <3>1. Statements' = Statements
      BY <1>3 DEF Statements
    <3> QED
      BY <1>1, <1>3, <1>4, <3>1 DEF RunSound
  <2>1. effect
    BY <1>3 DEF effect, Outcomes
  <2> TAKE i \in 1..run.next
  <2>2. CASE i < run.next
    <3>1. i \in 1..run.next - 1
      BY <1>1, <2>2
    <3>2. Statements[i] \in objects <=> run.command = "up"
      BY <1>1, <1>4, <3>1 DEF RunSound
    <3> QED
      BY <1>1, <1>5, <2>1, <3>2
  <2>3. CASE i = run.next
    BY <1>1, <1>5, <2>1, <2>3 DEF Dropped
  <2> QED
    BY <1>1, <2>2, <2>3
<1>9. RecordedIsThere'
  <2> SUFFICES ASSUME ~ torn', NEW v \in recorded
               PROVE  TakingDown(v)' \/ Applied(v) \subseteq objects'
    BY <1>2 DEF RecordedIsThere, Applied
  <2>1. ~ torn /\ (TakingDown(v) \/ Applied(v) \subseteq objects)
    BY <1>2, <1>4 DEF RecordedIsThere
  <2>2. CASE run.command = "up"
    BY <1>5, <2>1, <2>2 DEF TakingDown
  <2>3. CASE run.command = "down" /\ run'.pc = "statement"
    <3>1. CASE v = run.version
      BY <1>1, <1>3, <2>3, <3>1 DEF TakingDown
    <3>2. CASE v # run.version
      <4>1. v \in Versions /\ v < run.version
        BY <1>1, <1>4, <2>3, <3>2 DEF SchemaSound, RunSound, MigrateTypeOK, Versions
      <4>2. Applied(v) \cap Dropped(o) = {}
        BY <1>1, <4>1, DropsNothingBelow
      <4> QED
        BY <1>5, <2>1, <2>3, <3>2, <4>2 DEF TakingDown
    <3> QED
      BY <3>1, <3>2
  <2>4. CASE run.command = "down" /\ run'.pc # "statement"
    <3>1. ~ effect /\ ~ (run.next > 1)
      BY <1>2, <2>4
    <3> QED
      BY <1>5, <2>1, <3>1 DEF TakingDown
  <2> QED
    BY <1>1, <2>2, <2>3, <2>4
<1>10. UpCompletes'
  BY <1>3 DEF UpCompletes
<1>11. RefusedOnlyWhenTorn'
  <2> SUFFICES ASSUME run'.pc = "refused"
               PROVE  torn' \/ ("client_scope" \in objects' /\ 3 \notin recorded')
    BY DEF RefusedOnlyWhenTorn
  <2>1. ~ can
    BY <1>3
  <2>2. torn \/ ("client_scope" \in objects /\ 3 \notin recorded)
    BY <1>1, <2>1, NotRefused DEF can
  <2> QED
    BY <1>2, <2>1, <2>2 DEF effect
<1> QED
  BY <1>6, <1>7, <1>8, <1>9, <1>10, <1>11 DEF MigrateInv

-----------------------------------------------------------------------------
(* cmd/migrate: the version, after the last statement *)

LEMMA RecordMigrateInv ==
    ASSUME MigrateInv, NEW outcome \in Outcomes, Record(outcome)
    PROVE  MigrateInv'
<1>1. /\ run \in Runs /\ run.command \in {"up", "down"} /\ run.version \in Versions
      /\ run.pc = "statement" /\ Len(Statements) \in 1..2 /\ run.next = Len(Statements) + 1
      /\ objects' = objects
  <2>1. /\ run \in Runs /\ run.command \in {"up", "down"} /\ run.version \in Versions
        /\ run.pc = "statement" /\ run.next > Len(Statements)
        /\ run.next \in 1..Len(Statements) + 1 /\ objects' = objects
    BY DEF Record, MigrateInv, MigrateTypeOK, RunSound
  <2>2. Len(Statements) \in 1..2
    BY <2>1, StatementIs DEF Statements
  <2> DEFINE n == Len(Statements)
  <2>3. n \in 1..2 /\ run.next > n /\ run.next \in 1..n + 1
    BY <2>1, <2>2
  <2> HIDE DEF n
  <2>4. run.next = n + 1
    BY <2>3
  <2> QED
    BY <2>1, <2>2, <2>4 DEF n
<1>2. /\ run' = [run EXCEPT !.pc = IF outcome # "ok" THEN "failed"
                                    ELSE IF run.command = "up" THEN "plan" ELSE "ok"]
      /\ recorded' = IF outcome = "failed" THEN recorded
                     ELSE IF run.command = "up" THEN recorded \cup {run.version}
                     ELSE recorded \ {run.version}
      /\ torn' = (torn \/ (run.command = "down" /\ outcome = "failed"))
  BY DEF Record, End
<1>3. /\ run'.command = run.command
      /\ run'.pc \in {"failed", "plan", "ok"}
      /\ run'.pc = "ok" => run.command = "down"
  BY <1>1, <1>2 DEF Runs
<1>4. /\ MigrateTypeOK /\ RecordedIsThere /\ Current \in 0..3 /\ recorded = 1..Current
      /\ \A x \in objects : Needs(x) \subseteq objects
      /\ run.version = (IF run.command = "up" THEN Current + 1 ELSE Current)
      /\ \A i \in 1..run.next - 1 : Statements[i] \in objects <=> run.command = "up"
  BY <1>1, CurrentType DEF MigrateInv, MigrateTypeOK, SchemaSound, RunSound
<1>5. MigrateTypeOK'
  <2>1. run' \in Runs
    BY <1>1, <1>2 DEF Runs, Ended
  <2>2. torn' \in BOOLEAN
    BY <1>2, Zenon
  <2>3. recorded' \subseteq Versions
    BY <1>1, <1>2, <1>4 DEF MigrateTypeOK
  <2> QED
    BY <1>1, <1>4, <2>1, <2>2, <2>3 DEF MigrateTypeOK
<1>6. SchemaSound'
  <2>1. \E m \in 0..3 :
          \/ m = Current /\ recorded' = recorded
          \/ m = Current + 1 /\ recorded' = recorded \cup {m}
          \/ Current = m + 1 /\ recorded' = recorded \ {Current}
    <3>1. CASE outcome = "failed"
      BY <1>2, <1>4, <3>1
    <3>2. CASE outcome # "failed" /\ run.command = "up"
      BY <1>1, <1>2, <1>4, <3>2 DEF Versions
    <3>3. CASE outcome # "failed" /\ run.command = "down"
      <4>1. Current - 1 \in 0..3 /\ Current = (Current - 1) + 1
        BY <1>1, <1>4, <3>3 DEF Versions
      <4>2. recorded' = recorded \ {Current}
        BY <1>2, <1>4, <3>3
      <4> QED
        BY <4>1, <4>2
    <3> QED
      BY <1>1, <3>1, <3>2, <3>3
  <2>2. recorded' = 1..Current'
    BY <1>4, <2>1, RecordedUpTo
  <2> QED
    BY <1>1, <1>4, <2>2 DEF SchemaSound
<1>7. RecordedIsThere'
  <2> SUFFICES ASSUME ~ torn', NEW v \in recorded'
               PROVE  Applied(v) \subseteq objects
    BY <1>1 DEF RecordedIsThere, Applied
  <2>1. \A w \in recorded : TakingDown(w) \/ Applied(w) \subseteq objects
    BY <1>2, <1>4 DEF RecordedIsThere
  <2>2. CASE run.command = "up" /\ v = run.version
    <3>1. \A i \in 1..Len(Adds[v]) : Adds[v][i] \in objects
      BY <1>1, <1>4, <2>2 DEF Statements
    <3> QED
      BY <1>1, <2>2, <3>1, AllAdded
  <2>3. CASE run.command = "up" /\ v # run.version
    BY <1>2, <2>1, <2>3 DEF TakingDown
  <2>4. CASE run.command = "down"
    BY <1>2, <2>1, <2>4 DEF TakingDown
  <2> QED
    BY <1>1, <2>2, <2>3, <2>4
<1>8. RunSound' /\ UpCompletes' /\ RefusedOnlyWhenTorn'
  <2>1. RunSound'
    BY <1>1, <1>3 DEF RunSound
  <2> QED
    BY <1>3, <2>1 DEF UpCompletes, RefusedOnlyWhenTorn
<1> QED
  BY <1>5, <1>6, <1>7, <1>8 DEF MigrateInv

-----------------------------------------------------------------------------
(* cmd/migrate: the theorems *)

LEMMA NextMigrateInv ==
    ASSUME MigrateInv, [MigrateNext]_migrateVars
    PROVE  MigrateInv'
<1>1. CASE \E command \in Commands : Call(command)
  BY <1>1, CallMigrateInv
<1>2. CASE \E up \in BOOLEAN : Connect(up)
  BY <1>2, ConnectMigrateInv
<1>3. CASE Plan
  BY <1>3, PlanMigrateInv
<1>4. CASE \E outcome \in Outcomes : Statement(outcome)
  BY <1>4, StatementMigrateInv
<1>5. CASE \E outcome \in Outcomes : Record(outcome)
  BY <1>5, RecordMigrateInv
<1>6. CASE UNCHANGED migrateVars
  BY <1>6
     DEF migrateVars, MigrateInv, MigrateTypeOK, SchemaSound, RunSound, RecordedIsThere,
         UpCompletes, RefusedOnlyWhenTorn, Current, Statements, TakingDown, Applied
<1> QED
  BY <1>1, <1>2, <1>3, <1>4, <1>5, <1>6 DEF MigrateNext

\* The schema against goose's table, over any number of runs of the command
\* with any arguments, each cut off at any of its steps.
THEOREM MigrateInvariance == MigrateSpec => []MigrateInv
  BY InitMigrateInv, NextMigrateInv, PTL DEF MigrateSpec

\* An up that ends well has applied every migration, unless a down was cut off
\* before it.
THEOREM UpCompletesHolds == MigrateSpec => []UpCompletes
<1>1. MigrateInv => UpCompletes
  BY DEF MigrateInv
<1> QED
  BY <1>1, MigrateInvariance, PTL

\* The database refuses a statement in two situations only.
THEOREM RefusedOnlyWhenTornHolds == MigrateSpec => []RefusedOnlyWhenTorn
<1>1. MigrateInv => RefusedOnlyWhenTorn
  BY DEF MigrateInv
<1> QED
  BY <1>1, MigrateInvariance, PTL
=============================================================================
