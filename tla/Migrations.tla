------------------------------ MODULE Migrations -------------------------------
(***************************************************************************)
(* The migration tool (migrations/run-migrations.ts) with its two          *)
(* migrations: 1 creates user_strategies in PostgreSQL, 2 adds user_id to  *)
(* the trades in SQLite; next to a server that opens the same trades       *)
(* (SqlTradeHistoryStore.initialize, TRADE_DB_PATH) and records into them. *)
(*                                                                         *)
(* The tool runs once at a time.  PostgreSQL runs a migration in a         *)
(* transaction; SQLite commits each statement on its own.                  *)
(***************************************************************************)
EXTENDS Naturals

CONSTANTS MaxNoted, MaxToolFaults, MaxToolRuns (* bounds *)
ASSUME MigrationsAssumption == {MaxNoted, MaxToolFaults, MaxToolRuns} \subseteq Nat

VARIABLES
  pg,       (* PostgreSQL: the version recorded, is user_strategies there  *)
  lite,     (* SQLite: is there a file and schema_migrations in it, the    *)
            (* version, the tables trades and trades_backup and their rows *)
  tool,     (* the command, where it is, the versions it read and its      *)
            (* transaction in PostgreSQL                                   *)
  store,    (* the server: "off", "ready", "broken"                        *)
  noted,    (* trades recorded so far                                      *)
  toolRuns, toolFaults,
  cut,      (* a command ended between two statements of SQLite            *)
  mixed,    (* the server was up while a migration was undone              *)
  refused   (* a command failed though nothing it called did               *)
historyFiles == <<pg, lite, store, noted>>
migrationVars == <<historyFiles, tool, toolRuns, toolFaults, cut, mixed, refused>>

NoTool == [cmd |-> "none", at |-> "idle", pg |-> 0, lite |-> 0, tx |-> [version |-> 0, strategies |-> FALSE]]
Unfiled == [file |-> FALSE, marks |-> FALSE, version |-> 0, trades |-> "none", rows |-> 0, backup |-> "none", saved |-> 0]

(* Nothing yet, or the trades of a release without users.                  *)
MigrationsInit ==
  /\ pg = [version |-> 0, strategies |-> FALSE]
  /\ noted \in 0..1
  /\ lite = IF noted = 0 THEN Unfiled ELSE [Unfiled EXCEPT !.file = TRUE, !.trades = "old", !.rows = 1]
  /\ tool = NoTool /\ store = "off" /\ toolRuns = 0 /\ toolFaults = 0
  /\ cut = FALSE /\ mixed = FALSE /\ refused = FALSE

-----------------------------------------------------------------------------
ToolAt(at) == tool.at = at /\ UNCHANGED <<store, noted, toolRuns>>
ToolGoes(at) == tool' = [tool EXCEPT !.at = at]
ToolEnds == tool' = NoTool
Undoes == tool.cmd = "rollback"
Goes(at) == ToolGoes(at) /\ UNCHANGED <<toolFaults, cut, refused>>
Finishes == ToolEnds /\ UNCHANGED <<toolFaults, cut, refused>>
(* The command fails by what it finds; some of its statements are done.    *)
Refuses(halfway) == ToolEnds /\ refused' = TRUE /\ cut' = (cut \/ halfway) /\ UNCHANGED toolFaults

(* SQLite is migrated when its version is older, undone when it is this.   *)
LitePending(seen) == IF Undoes THEN seen = 2 ELSE seen < 2
ThenLite(seen) == IF LitePending(seen) THEN Goes("lite") ELSE Finishes

RunTool(cmd) ==
  /\ tool.at = "idle" /\ toolRuns < MaxToolRuns /\ toolRuns' = toolRuns + 1
  /\ tool' = [NoTool EXCEPT !.cmd = cmd, !.at = "pgVersion"]
  /\ UNCHANGED <<historyFiles, toolFaults, cut, refused>>

(* getPostgresVersion: an error counts as version 0.                       *)
GetPostgresVersion ==
  /\ ToolAt("pgVersion") /\ UNCHANGED <<pg, lite, cut, refused>>
  /\ \/ tool' = [tool EXCEPT !.at = "liteVersion", !.pg = pg.version] /\ UNCHANGED toolFaults
     \/ /\ toolFaults < MaxToolFaults /\ toolFaults' = toolFaults + 1
        /\ tool' = [tool EXCEPT !.at = "liteVersion", !.pg = 0]

(* getSqliteVersion: the table is made if there is a file; an error counts *)
(* as version 0.                                                           *)
GetSqliteVersion ==
  /\ ToolAt("liteVersion") /\ UNCHANGED <<pg, cut, refused>>
  /\ \E seen \in {lite.version, 0} :
       /\ toolFaults' = toolFaults + (IF seen = lite.version THEN 0 ELSE 1) /\ toolFaults' <= MaxToolFaults
       /\ lite' = [lite EXCEPT !.marks = lite.file]
       /\ LET pgPending == IF Undoes THEN tool.pg = 1 ELSE tool.pg < 1
          IN tool' = IF tool.cmd # "version" /\ pgPending
                     THEN [tool EXCEPT !.at = "pgSql", !.lite = seen, !.tx = pg]
                     ELSE IF tool.cmd # "version" /\ LitePending(seen) THEN [tool EXCEPT !.at = "lite", !.lite = seen]
                     ELSE NoTool

(* Mutant: each statement is committed. *)
PgSqlAlone ==
  /\ ToolAt("pgSql") /\ UNCHANGED <<lite, toolFaults, cut, refused>>
  /\ pg' = [pg EXCEPT !.strategies = ~Undoes] /\ tool' = [tool EXCEPT !.at = "pgRecord", !.tx.strategies = ~Undoes]
(* runPostgresMigration, and the first half of rollback: BEGIN, the SQL,   *)
(* the version, COMMIT.  The trigger of the table exists only once.        *)
PgSql ==
  /\ ToolAt("pgSql") /\ UNCHANGED <<pg, lite>>
  /\ IF ~Undoes /\ tool.tx.strategies THEN Refuses(FALSE)
     ELSE tool' = [tool EXCEPT !.at = "pgRecord", !.tx.strategies = ~Undoes] /\ UNCHANGED <<toolFaults, cut, refused>>
PgRecord ==
  /\ ToolAt("pgRecord") /\ UNCHANGED <<pg, lite, toolFaults, cut, refused>>
  /\ tool' = [tool EXCEPT !.at = "pgCommit", !.tx.version = IF Undoes THEN 0 ELSE 1]
PgCommit == ToolAt("pgCommit") /\ pg' = tool.tx /\ UNCHANGED lite /\ ThenLite(tool.lite)

(* runSqliteMigration: without trades it is recorded as done, if there is  *)
(* a table to record it in.  Opening the database makes the file.          *)
LiteMigrates ==
  /\ ToolAt("lite") /\ ~Undoes /\ UNCHANGED pg
  /\ IF lite.trades # "none" THEN Goes("alter") /\ UNCHANGED lite
     ELSE IF ~lite.marks \/ lite.version = 2 THEN Refuses(FALSE) /\ lite' = [lite EXCEPT !.file = TRUE]
     ELSE lite' = [lite EXCEPT !.version = 2] /\ Finishes
LiteAlters ==
  /\ ToolAt("alter") /\ UNCHANGED pg
  /\ IF lite.trades = "new" THEN Refuses(FALSE) /\ UNCHANGED lite
     ELSE lite' = [lite EXCEPT !.trades = "new"] /\ Goes("record")
LiteRecords == ToolAt("record") /\ UNCHANGED pg /\ lite' = [lite EXCEPT !.version = 2] /\ Finishes

(* rollback, the second half: the table is copied without user_id.         *)
LiteUndoes ==
  /\ ToolAt("lite") /\ Undoes /\ UNCHANGED pg
  /\ IF lite.trades # "none" THEN Goes("backup") /\ UNCHANGED lite
     ELSE lite' = [lite EXCEPT !.version = 0] /\ Finishes
LiteBackup ==
  /\ ToolAt("backup") /\ UNCHANGED pg
  /\ IF lite.backup = "old" THEN Refuses(FALSE) /\ UNCHANGED lite
     ELSE lite' = [lite EXCEPT !.backup = "old", !.saved = 0] /\ Goes("copy")
LiteCopies == ToolAt("copy") /\ UNCHANGED pg /\ lite' = [lite EXCEPT !.saved = lite.rows] /\ Goes("drop")
LiteDrops == ToolAt("drop") /\ UNCHANGED pg /\ lite' = [lite EXCEPT !.trades = "none", !.rows = 0] /\ Goes("rename")
LiteRenames ==
  /\ ToolAt("rename") /\ UNCHANGED pg
  /\ IF lite.trades # "none" THEN Refuses(TRUE) /\ UNCHANGED lite
     ELSE /\ lite' = [lite EXCEPT !.trades = "old", !.rows = lite.saved, !.backup = "none", !.saved = 0]
          /\ Goes("unrecord")
LiteUnrecords == ToolAt("unrecord") /\ UNCHANGED pg /\ lite' = [lite EXCEPT !.version = 0] /\ Finishes

(* A statement fails, or the process ends: the transaction is undone.      *)
ToolFails ==
  /\ tool.at # "idle" /\ toolFaults < MaxToolFaults /\ toolFaults' = toolFaults + 1
  /\ ToolEnds /\ cut' = (cut \/ tool.at \in {"record", "copy", "drop", "rename", "unrecord"})
  /\ UNCHANGED <<historyFiles, toolRuns, refused>>

(* SqlTradeHistoryStore.initialize: an index needs user_id.                *)
StoreOpens ==
  /\ store = "off"
  /\ lite' = [lite EXCEPT !.file = TRUE, !.trades = IF @ = "none" THEN "new" ELSE @]
  /\ store' = IF lite'.trades = "new" THEN "ready" ELSE "broken"
  /\ UNCHANGED <<pg, noted, tool, toolRuns, toolFaults, cut, refused>>
StoreCloses == store # "off" /\ store' = "off" /\ UNCHANGED <<pg, lite, noted, tool, toolRuns, toolFaults, cut, refused>>
(* addTrade, which names user_id.                                          *)
StoreRecords ==
  /\ store # "off" /\ lite.trades = "new" /\ noted < MaxNoted /\ noted' = noted + 1
  /\ lite' = [lite EXCEPT !.rows = @ + 1] /\ UNCHANGED <<pg, store, tool, toolRuns, toolFaults, cut, refused>>

MigrationsNext ==
  /\ \/ \E cmd \in {"migrate", "rollback", "version"} : RunTool(cmd)
     \/ GetPostgresVersion \/ GetSqliteVersion \/ PgSql \/ PgRecord \/ PgCommit
     \/ LiteMigrates \/ LiteAlters \/ LiteRecords
     \/ LiteUndoes \/ LiteBackup \/ LiteCopies \/ LiteDrops \/ LiteRenames \/ LiteUnrecords
     \/ ToolFails \/ StoreOpens \/ StoreCloses \/ StoreRecords
  /\ mixed' = (mixed \/ (store' # "off" /\ tool'.cmd = "rollback"))

-----------------------------------------------------------------------------
(* The recorded version of PostgreSQL is that of its tables, whenever the  *)
(* tool fails or dies; and after any sequence of migrations and rollbacks  *)
(* none of which ended between two statements of SQLite, the trades have   *)
(* the column when that is recorded, and no trade is lost unless the       *)
(* server was up during a rollback (run-migrations.ts).                    *)
SchemaAsRecorded ==
  /\ pg.version = 1 <=> pg.strategies
  /\ tool.at = "idle" /\ ~cut =>
       (lite.version = 2 => lite.trades # "old") /\ (~mixed => lite.rows = noted)

(* The tool does what it is asked to.  It does not hold: on a new machine  *)
(* there is no table to record in, and after the server's first start the  *)
(* column is there already.                                                *)
MigrateCompletes == ~refused

(* The trades survive.  It does not hold for a command that is cut short   *)
(* before the rename, or a server that records during a rollback.          *)
TradesSurvive == tool.at = "idle" => lite.rows = noted
=============================================================================
