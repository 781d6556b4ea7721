------------------------------- MODULE Migrate -------------------------------
(***************************************************************************)
(* The migrate command (cmd/migrate/main.go) over the SQL files of         *)
(* database/migrations, run again and again against one database.          *)
(*                                                                         *)
(* goose runs the statements of one migration after the other and then     *)
(* writes its version into a table.  MySQL commits a schema change at      *)
(* once, so a run that dies or loses the database between a statement and  *)
(* the version leaves the two apart; what the next run makes of that       *)
(* depends on how the SQL is written.  goose and MySQL are external.       *)
(***************************************************************************)
EXTENDS Naturals, Sequences, FiniteSetsExt

CONSTANT
    Commands    \* first arguments the command is called with

VARIABLES
    run,        \* the run of the command: where it is, its command, and what it works on
    objects,    \* tables of the database, and the columns migration 3 adds
    recorded,   \* versions in goose's table
    torn        \* history: a down was cut off after a statement of its migration

migrateVars == <<run, objects, recorded, torn>>

Versions == 1..3
Objects == {"users", "refresh_tokens", "clients", "client_scope"}

Ended == {"ok", "usage", "unknown", "failed", "refused"}

ASSUME CommandsAssumption == "up" \in Commands

-----------------------------------------------------------------------------
(* The SQL files *)

\* What the Up statements of each migration add, in order.
Adds == <<<<"users", "refresh_tokens">>, <<"clients">>, <<"client_scope">>>>

\* Seeded fault: the tables are dropped in the order they were created.
DropsInOrder == Adds \* seeded fault

\* Seeded fault: the Down of migration 3 drops the table, not its columns.
DropsTable == <<<<"refresh_tokens", "users">>, <<"clients">>, <<"refresh_tokens">>>> \* seeded fault

\* What its Down statements drop.
Drops == <<<<"refresh_tokens", "users">>, <<"clients">>, <<"client_scope">>>>

\* The foreign key, and the table that ALTER TABLE needs.
Needs(o) ==
    IF o = "refresh_tokens" THEN {"users"}
    ELSE IF o = "client_scope" THEN {"refresh_tokens"} ELSE {}

\* Seeded fault: CREATE TABLE without IF NOT EXISTS.
NeverTolerant(o) == FALSE \* seeded fault

\* IF NOT EXISTS and IF EXISTS: every table; ADD and DROP COLUMN have neither.
Tolerant(o) == o # "client_scope"

CanAdd(o) == Needs(o) \subseteq objects /\ (o \in objects => Tolerant(o))

\* A table that a foreign key refers to is not dropped.
CanDrop(o) ==
    /\ o \notin objects => Tolerant(o)
    /\ o = "users" => "refresh_tokens" \notin objects

\* Columns go with their table.
Dropped(o) == IF o = "refresh_tokens" THEN {o, "client_scope"} ELSE {o}

-----------------------------------------------------------------------------
(* The command *)

Current == Max({0} \cup recorded)

Idle == [pc |-> "idle", command |-> "none", version |-> 0, next |-> 0]

\* Seeded fault of runWithDB: the error of goose is not fatal.
EndWell(result) == run' = [run EXCEPT !.pc = IF @ = "connect" THEN result ELSE "ok"] \* seeded fault

\* log.Fatalf, or the end of main.
End(result) == run' = [run EXCEPT !.pc = result]

\* main: no argument, a command, create without or with a name, or another.
Call(command) ==
    /\ run.pc \in {"idle"} \cup Ended
    /\ run' = [Idle EXCEPT !.command = command,
                           !.pc = IF command \in {"up", "down"} THEN "connect"
                                  ELSE IF command \in {"none", "create"} THEN "usage"
                                  ELSE IF command = "create name" THEN "ok"
                                  ELSE "unknown"]
    /\ UNCHANGED <<objects, recorded, torn>>

\* runWithDB: open and ping.
Connect(up) ==
    /\ run.pc = "connect"
    /\ IF up THEN run' = [run EXCEPT !.pc = "plan"] ELSE End("failed")
    /\ UNCHANGED <<objects, recorded, torn>>

\* goose, external: up takes the version after the current one until there is
\* none, down takes the current one.
Plan ==
    /\ run.pc = "plan"
    /\ LET version == IF run.command = "up" THEN Current + 1 ELSE Current
       IN IF version \in Versions
          THEN run' = [run EXCEPT !.pc = "statement", !.version = version, !.next = 1]
          ELSE End(IF run.command = "up" THEN "ok" ELSE "failed")
    /\ UNCHANGED <<objects, recorded, torn>>

Statements == IF run.command = "up" THEN Adds[run.version] ELSE Drops[run.version]

\* One statement: run, refused by the database, or cut off before or after it
\* had its effect.
Statement(outcome) ==
    /\ run.pc = "statement" /\ run.next <= Len(Statements)
    /\ LET o      == Statements[run.next]
           can    == IF run.command = "up" THEN CanAdd(o) ELSE CanDrop(o)
           effect == can /\ outcome # "failed"
       IN /\ IF ~ can THEN End("refused")
             ELSE IF outcome = "ok" THEN run' = [run EXCEPT !.next = @ + 1]
             ELSE End("failed")
          /\ objects' = IF ~ effect THEN objects
                        ELSE IF run.command = "up" THEN objects \cup {o}
                        ELSE objects \ Dropped(o)
          /\ torn' = (torn \/ (run.command = "down" /\ (effect \/ run.next > 1)
                                 /\ run'.pc # "statement"))
    /\ UNCHANGED recorded

\* The version is written or deleted; up goes on.
Record(outcome) ==
    /\ run.pc = "statement" /\ run.next > Len(Statements)
    /\ recorded' = IF outcome = "failed" THEN recorded
                   ELSE IF run.command = "up" THEN recorded \cup {run.version}
                   ELSE recorded \ {run.version}
    /\ IF outcome # "ok" THEN End("failed")
       ELSE IF run.command = "up" THEN run' = [run EXCEPT !.pc = "plan"]
       ELSE End("ok")
    /\ torn' = (torn \/ (run.command = "down" /\ outcome = "failed"))
    /\ UNCHANGED objects

Outcomes == {"ok", "failed", "lost"}

MigrateInit == run = Idle /\ objects = {} /\ recorded = {} /\ torn = FALSE

MigrateNext ==
    \/ \E command \in Commands : Call(command)
    \/ \E up \in BOOLEAN : Connect(up)
    \/ Plan
    \/ \E outcome \in Outcomes : Statement(outcome)
    \/ \E outcome \in Outcomes : Record(outcome)

MigrateSpec == MigrateInit /\ [][MigrateNext]_migrateVars

-----------------------------------------------------------------------------
(* Properties *)

Runs ==
    [pc : {"idle", "connect", "plan", "statement"} \cup Ended,
     command : Commands \cup {"none"}, version : 0..3, next : 0..3]

MigrateTypeOK ==
    /\ run \in Runs
    /\ objects \subseteq Objects
    /\ recorded \subseteq Versions
    /\ torn \in BOOLEAN

Applied(v) == {Adds[v][i] : i \in DOMAIN Adds[v]}

\* Versions are recorded without a gap, and no table is there without the one
\* it refers to.
SchemaSound ==
    /\ recorded = 1..Current
    /\ \A o \in objects : Needs(o) \subseteq objects

\* A run works right above what is recorded, or at the top of it; of its
\* migration what it has passed is done.
RunSound ==
    /\ run.pc \in {"connect", "plan", "statement"} => run.command \in {"up", "down"}
    /\ run.pc = "statement" =>
         /\ run.version \in Versions
         /\ run.version = (IF run.command = "up" THEN Current + 1 ELSE Current)
         /\ run.next \in 1..Len(Statements) + 1
         /\ \A i \in 1..run.next - 1 : Statements[i] \in objects <=> run.command = "up"

\* This run is in the middle of taking this version down.
TakingDown(v) ==
    run.pc = "statement" /\ run.command = "down" /\ run.version = v /\ run.next > 1

\* Unless a down was cut off, everything that is recorded is there, but for
\* what a down is at work on.  (More may be: an up that was cut off leaves a
\* table that a later down, starting at the version before, does not drop.)
RecordedIsThere ==
    ~ torn => \A v \in recorded : TakingDown(v) \/ Applied(v) \subseteq objects

\* "Apply all pending migrations" (Makefile): an up that exits without an
\* error leaves every table and column in place, whatever earlier ups were cut
\* off, as long as no down was.
UpCompletes ==
    run.pc = "ok" /\ run.command = "up" /\ ~ torn => objects = Objects /\ recorded = Versions

\* A run that was cut off can be repeated (IF NOT EXISTS, IF EXISTS), and
\* tables are dropped before those they refer to: the database refuses a
\* statement only when the columns of migration 3 were added and its version
\* was not written, or after a down was cut off.
RefusedOnlyWhenTorn ==
    run.pc = "refused" => torn \/ ("client_scope" \in objects /\ 3 \notin recorded)

\* The inductive invariant.
MigrateInv ==
    /\ MigrateTypeOK /\ SchemaSound /\ RunSound /\ RecordedIsThere
    /\ UpCompletes /\ RefusedOnlyWhenTorn
=============================================================================
