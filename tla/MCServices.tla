------------------------------ MODULE MCServices ------------------------------
(* Model checking of the services, executors and clients that share no     *)
(* state: each behaviour exercises the one that part names, and Init       *)
(* leaves the others in one state.                                         *)
EXTENDS Accounts, UserStrategies, Broker, Sizing, Brackets, BrowserClient,
        ThorExecutor, Signals, Candles, ManualOrders, Dashboard, TradeStores, TLC

VARIABLE part
backendVars == <<accountVars, userVars, dashboardVars, historyVars>>
orderVars == <<brokerVars, sized, bracketVars, browserClientVars, deskVars>>
strategyVars == <<thorVars, signalVars, candleVars>>

(* Traders and profits for the two stores of the trade history.            *)
TwoOwners == {<<"razor", "ann">>, <<"thor", "bob">>}
SomeProfits == {0, 2}

ServicesInit ==
  /\ part \in {"accounts", "user", "broker", "sizing", "brackets", "client", "desk", "thor", "signals", "candles", "dashboard",
             "history"}
  /\ AccountsInit /\ UserStrategiesInit
  /\ BrokerInit /\ SizingInit /\ BracketsInit /\ BrowserClientInit
  /\ part # "brackets" => placer.who = "simple" /\ legs = {} /\ entryOrder = "open" /\ ~holding
  /\ part # "broker" => local = "idle"
  /\ DashboardInit /\ TradeStoresInit
  /\ part # "dashboard" => screen = "history"
  /\ DeskInit
  /\ part # "desk" => endpoint = "mock" /\ units = 0
  /\ ThorInit
  /\ IF part = "signals" THEN SignalsInit ELSE verdict = Pending /\ reading = CHOOSE r \in ThorReadings : TRUE
  /\ CandlesInit
  /\ part # "candles" => executorOf = "thor" /\ closes = <<>> /\ minute = Group

BackendNext ==
  \/ part = "accounts" /\ AccountsNext /\ UNCHANGED <<userVars, dashboardVars, historyVars>>
  \/ part = "user" /\ UserStrategiesNext /\ UNCHANGED <<accountVars, dashboardVars, historyVars>>
  \/ part = "dashboard" /\ DashboardNext /\ UNCHANGED <<accountVars, userVars, historyVars>>
  \/ part = "history" /\ TradeStoresNext /\ UNCHANGED <<accountVars, userVars, dashboardVars>>
OrdersNext ==
  \/ part = "broker" /\ BrokerNext /\ UNCHANGED <<sized, bracketVars, browserClientVars, deskVars>>
  \/ part = "sizing" /\ SizingNext /\ UNCHANGED <<brokerVars, bracketVars, browserClientVars, deskVars>>
  \/ part = "brackets" /\ BracketsNext /\ UNCHANGED <<brokerVars, sized, browserClientVars, deskVars>>
  \/ part = "client" /\ BrowserClientNext /\ UNCHANGED <<brokerVars, sized, bracketVars, deskVars>>
  \/ part = "desk" /\ DeskNext /\ UNCHANGED <<brokerVars, sized, bracketVars, browserClientVars>>
StrategiesNext ==
  \/ part = "thor" /\ ThorNext /\ UNCHANGED <<signalVars, candleVars>>
  \/ part = "signals" /\ SignalsNext /\ UNCHANGED <<thorVars, candleVars>>
  \/ part = "candles" /\ CandlesNext /\ UNCHANGED <<thorVars, signalVars>>

ServicesNext ==
  /\ UNCHANGED part
  /\ \/ BackendNext /\ UNCHANGED <<orderVars, strategyVars>>
     \/ OrdersNext /\ UNCHANGED <<backendVars, strategyVars>>
     \/ StrategiesNext /\ UNCHANGED <<backendVars, orderVars>>

ServicesSpec == ServicesInit /\ [][ServicesNext]_<<backendVars, orderVars, strategyVars, part>>

(* The versions of an indicator agree on every series. *)
ASSUME IndicatorsAgree ==
  /\ StrengthsAgreeEverywhere
  /\ \A s \in Series : AveragesAgree(s, SlowPeriod)
  /\ \A c \in {s \in Series : Len(s) = 4}, up \in {0, 20}, down \in {0, 7} :
       RangesAgree([i \in DOMAIN c |-> c[i] + up * (i % 2)], [i \in DOMAIN c |-> c[i] - down], c, 2)
(* Long and short signals are mirror images. *)
ASSUME SignalsMirrored
(* Candles of several minutes part those of one minute. *)
ASSUME CandlesPart ==
  \A k \in 0..7, n \in 2..3 :
    LET minutes == [i \in 1..k |-> i]
        grouping == GetCandles(minutes, n, k)
    IN /\ UNION {grouping[i] : i \in DOMAIN grouping} = 1..k
       /\ \A i, j \in DOMAIN grouping : i < j => \A x \in grouping[i], y \in grouping[j] : x < y

=============================================================================
