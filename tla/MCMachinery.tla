------------------------------ MODULE MCMachinery -----------------------------
(* Model checking of the machinery below the services, of the settings and *)
(* the migrations and of the browser's loops.  The parts share no *)
(* state: each behaviour exercises the one that part names, and Init       *)
(* leaves the others at rest: no action of theirs that is fair is enabled. *)
EXTENDS DeribitClient, Orchestrator, StrategyRunner, BrowserStrategies, TradingStore,
        Settings, Migrations

VARIABLE part
workerVars == <<clientVars, orchestratorVars, runnerVars>>
browserSideVars == <<browserVars, storeVars>>
operatorVars == <<settingsVars, migrationVars>>
allMachinery == <<workerVars, browserSideVars, operatorVars>>

(* Of two services the prefix of the first begins that of the second.      *)
LongerNames == {<<"my", "my.bot">>}

MachineryInit ==
  /\ part \in {"client", "orchestrator", "runner", "browser", "store", "credentials", "alerts",
             "migrations"}
  /\ ClientInit /\ OrchestratorInit /\ RunnerInit /\ BrowserInit /\ StoreInit
  /\ SettingsInit /\ MigrationsInit
  /\ part # "migrations" => noted = 0
  /\ process <=> part = "client"
  /\ part # "browser" => kind = "fast"
  /\ part # "store" => reach = "up" /\ ~runs /\ ~atMarket /\ ~saved

WorkersNext ==
  /\ \/ part = "client" /\ ClientNext /\ UNCHANGED <<orchestratorVars, runnerVars>>
     \/ part = "orchestrator" /\ OrchestratorNext /\ UNCHANGED <<clientVars, runnerVars>>
     \/ part = "runner" /\ RunnerNext /\ UNCHANGED <<clientVars, orchestratorVars>>
  /\ UNCHANGED <<browserSideVars, operatorVars>>
BrowserSideNext ==
  /\ \/ part = "browser" /\ BrowserNext /\ UNCHANGED storeVars
     \/ part = "store" /\ StoreNext /\ UNCHANGED browserVars
  /\ UNCHANGED <<workerVars, operatorVars>>
OperatorNext ==
  /\ \/ part = "credentials" /\ CredentialsNext /\ UNCHANGED migrationVars
     \/ part = "alerts" /\ AlertsNext /\ UNCHANGED migrationVars
     \/ part = "migrations" /\ MigrationsNext /\ UNCHANGED settingsVars
  /\ UNCHANGED <<workerVars, browserSideVars>>

MachineryNext == UNCHANGED part /\ (WorkersNext \/ BrowserSideNext \/ OperatorNext)

MachinerySpec ==
  /\ MachineryInit /\ [][MachineryNext]_<<allMachinery, part>>
  /\ ClientFairness /\ OrchestratorFairness /\ RunnerFairness /\ BrowserFairness /\ StoreFairness

(* The types of the parts together.                                        *)
MachineryTypeOK ==
  ClientTypeOK /\ OrchestratorTypeOK /\ RunnerTypeOK /\ BrowserTypeOK /\ StoreTypeOK

=============================================================================
