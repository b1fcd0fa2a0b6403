-------------------------------- MODULE Dashboard ------------------------------
(***************************************************************************)
(* What the user sees and presses: the position card, the strategy card,   *)
(* the trade table and the analysis dialog, each kept by polls of its own  *)
(* whose answers come when they come, and the routes of server.ts that     *)
(* answer them.  setInterval does not wait for the answer: polls overlap.  *)
(* A screen shares nothing with the others but the backend.                *)
(*                                                                         *)
(* The routes choose a client: the user's own if there is one, else the    *)
(* client of the strategy service.  Exchange accounts, strategy rows and   *)
(* trade records (external) change by themselves; so does what the trading *)
(* store says of the position.  The check for orphan positions asks        *)
(* without a token, is refused every time and never warns: left out.       *)
(***************************************************************************)
EXTENDS Naturals, FiniteSets, Sequences

CONSTANTS
  Screens,      (* of "position", "strategy", "history", "analysis"         *)
  Bots,         (* strategies of the user                                  *)
  ViewPolls,    (* requests in flight                                      *)
  GiveUpAfter,  (* consecutive errors until the analysis is no longer asked: 5 *)
  MaxChanges    (* bound on changes of the backend                         *)
ASSUME DashboardAssumption == GiveUpAfter \in Nat /\ MaxChanges \in Nat

VARIABLES
  screen,   (* what is open                                                *)
  held,     (* account -> number of its position, 0 when flat              *)
  guarded,  (* accounts with a resting stop                                *)
  link,     (* account -> its client: "up", "down", or "none"              *)
  botRows,  (* sequence of the user's strategies, with their status        *)
  dbTrade,  (* strategy of the open trade in the database, or none         *)
  storeView,(* activePosition and strategyStatus of the trading store      *)
  changes,  (* of the backend so far                                       *)
  card,     (* CurrentPositionCard: position, entry and stop shown, and    *)
            (* whether there were any when its effect ran last             *)
  known,    (* useBackendStrategyStatus: rows, as last answered            *)
  dbShown,  (* useOpenPositionFromDB: strategy of the open position        *)
  chosen,   (* selectedStrategy                                            *)
  table,    (* TradeHistoryTable: filter, strategies of the trades listed, and ticked *)
  panel,    (* useBackendAnalysis: strategy, analysis shown, errors        *)
  views     (* poll -> request in flight                                   *)
worldVars == <<held, guarded, link, botRows, dbTrade, storeView, changes>>
shownVars == <<card, known, dbShown, chosen, table, panel>>
dashboardVars == <<screen, worldVars, shownVars, views>>

Holders == {"own", "service"}
Nothing == "none"
NoView == [for |-> "none"]
NoCard == [of |-> Nothing, n |-> 0, entry |-> 0, stop |-> 0, had |-> FALSE, hadStop |-> FALSE]
Emptied == [NoCard EXCEPT !.had = card.had, !.hadStop = card.hadStop]

DashboardInit ==
  /\ screen \in Screens
  /\ held = [a \in Holders |-> 0] /\ guarded = {}
  /\ link \in [own : {"up", "none"}, service : {"up"}]
  /\ screen # "position" => link = [own |-> "up", service |-> "up"]
  /\ botRows \in {<<>>} \cup {<<[name |-> b, status |-> "active"]>> : b \in Bots}
  /\ screen # "analysis" => botRows = <<>>
  /\ dbTrade = Nothing /\ storeView = [position |-> FALSE, status |-> "stopped"] /\ changes = 0
  /\ card = NoCard /\ known = <<>> /\ dbShown = Nothing /\ chosen = Nothing
  /\ table = [filter |-> "all", listed |-> {}, ticked |-> {}]
  /\ panel = [of |-> Nothing, analysis |-> Nothing, errors |-> 0]
  /\ views = [v \in ViewPolls |-> NoView]

-----------------------------------------------------------------------------
(* The backend on its own. *)
WorldTurn == changes < MaxChanges /\ changes' = changes + 1 /\ UNCHANGED <<screen, shownVars, views>>

PositionTurns(a) ==
  /\ screen = "position" /\ WorldTurn /\ UNCHANGED <<link, botRows, dbTrade, storeView>>
  /\ \/ held[a] = 0 /\ held' = [held EXCEPT ![a] = changes'] /\ guarded' \in {guarded, guarded \cup {a}}
     \/ held[a] # 0 /\ held' = [held EXCEPT ![a] = 0] /\ guarded' = guarded \ {a}
     \/ a \in guarded /\ guarded' = guarded \ {a} /\ UNCHANGED held

LinkTurns(a) ==
  /\ screen = "position" /\ WorldTurn /\ UNCHANGED <<held, guarded, botRows, dbTrade, storeView>>
  /\ \E l \in {"up", "down", "none"} \ {link[a]} :
       (a = "service" => l # "none") /\ link' = [link EXCEPT ![a] = l]

Row(b) == {i \in DOMAIN botRows : botRows[i].name = b}
PutStatus(b, s) == IF Row(b) = {} THEN Append(botRows, [name |-> b, status |-> s])
                   ELSE [botRows EXCEPT ![CHOOSE i \in Row(b) : TRUE].status = s]
RowTurns(b) ==
  /\ screen \in {"strategy", "analysis"} /\ WorldTurn /\ UNCHANGED <<held, guarded, link, dbTrade, storeView>>
  /\ \E s \in {"active", "paused", "stopped"} : botRows' = PutStatus(b, s) /\ botRows' # botRows

TradeTurns ==
  /\ screen \in {"strategy", "history"} /\ WorldTurn /\ UNCHANGED <<held, guarded, link, botRows, storeView>>
  /\ dbTrade' \in (Bots \cup {Nothing}) \ {dbTrade}

StoreLooks ==
  /\ screen = "strategy" /\ WorldTurn
  /\ storeView' \in [position : BOOLEAN, status : {"stopped", "analyzing", "paused"}] \ {storeView}
  /\ UNCHANGED <<held, guarded, link, botRows, dbTrade>>

-----------------------------------------------------------------------------
(* Requests. *)
Sends(v, request) == views[v] = NoView /\ views' = [views EXCEPT ![v] = request] /\ UNCHANGED <<screen, worldVars>>
Answered(v) == views' = [views EXCEPT ![v] = NoView]
GoesOn(v, request) == views' = [views EXCEPT ![v] = request]
Waiting(v, for) == views[v].for = for

(* getAnyClient, and the service's client otherwise; it must be connected. *)
ClientFor == IF link["own"] # "none" THEN "own" ELSE "service"
Reachable == link[ClientFor] = "up"

(* fetchPosition: positions, then ticker and orders of the one that is     *)
(* open.  It compares with the position and the stop of the render after   *)
(* which the effect ran: those of the last reconnection, at first none.    *)
ReconnectCard ==
  /\ screen = "position" /\ card' = [card EXCEPT !.had = card.n # 0, !.hadStop = card.stop # 0]
  /\ UNCHANGED <<screen, worldVars, known, dbShown, chosen, table, panel, views>>
AskPositions(v) ==
  screen = "position" /\ Sends(v, [for |-> "positions", had |-> card.had, hadStop |-> card.hadStop]) /\ UNCHANGED shownVars
ReadPositions(v) ==
  /\ Waiting(v, "positions") /\ UNCHANGED <<screen, worldVars, known, dbShown, chosen, table, panel>>
  /\ \/ ~Reachable /\ UNCHANGED card /\ Answered(v)
     \/ /\ Reachable /\ held[ClientFor] = 0 /\ Answered(v)
        /\ card' = IF views[v].had THEN Emptied ELSE [card EXCEPT !.of = Nothing, !.n = 0]
     \/ /\ Reachable /\ held[ClientFor] # 0
        /\ card' = [card EXCEPT !.of = ClientFor, !.n = held[ClientFor]]
        /\ GoesOn(v, [for |-> "ticker", n |-> held[ClientFor], hadStop |-> views[v].hadStop])

(* The ticker comes with the entry price of the position that was read. *)
ReadTicker(v) ==
  /\ Waiting(v, "ticker") /\ UNCHANGED <<screen, worldVars, known, dbShown, chosen, table, panel>>
  /\ \/ ~Reachable /\ UNCHANGED card /\ Answered(v)
     \/ Reachable /\ card' = [card EXCEPT !.entry = views[v].n] /\ GoesOn(v, [for |-> "orders", hadStop |-> views[v].hadStop])
ReadOrders(v) ==
  /\ Waiting(v, "orders") /\ UNCHANGED <<screen, worldVars, known, dbShown, chosen, table, panel>>
  /\ card' = CASE Reachable /\ ClientFor \in guarded -> [card EXCEPT !.stop = held[ClientFor]]
               [] Reachable /\ ClientFor \notin guarded /\ views[v].hadStop -> [card EXCEPT !.stop = 0]
               [] OTHER -> card
  /\ Answered(v)

(* handleClosePositionConfirm: the ticker, the close, and whatever its     *)
(* answer was the card shows no position.  The route checks the client it  *)
(* has chosen and lets the service close with its own.                     *)
PressClose(v) == screen = "position" /\ card.n # 0 /\ Sends(v, [for |-> "price"]) /\ UNCHANGED shownVars
PriceForClose(v) ==
  /\ Waiting(v, "price") /\ UNCHANGED <<screen, worldVars, shownVars>>
  /\ IF Reachable THEN GoesOn(v, [for |-> "close"]) ELSE Answered(v)
CloseRoute(v) ==
  /\ Waiting(v, "close") /\ Answered(v) /\ card' = Emptied
  /\ IF Reachable /\ link["service"] = "up"
     THEN held' = [held EXCEPT !["service"] = 0] /\ guarded' = guarded \ {"service"}
     ELSE UNCHANGED <<held, guarded>>
  /\ UNCHANGED <<screen, link, botRows, dbTrade, storeView, changes, known, dbShown, chosen, table, panel>>

-----------------------------------------------------------------------------
(* getStrategyStatus: the connection, then the rows; what is not active is *)
(* stopped, and an answer that is an error counts as no rows.  Only a      *)
(* request that fails leaves what was known.                               *)
AskStatus(v) == screen \in {"strategy", "analysis"} /\ Sends(v, [for |-> "connection"]) /\ UNCHANGED shownVars
ReadConnection(v) ==
  /\ Waiting(v, "connection") /\ UNCHANGED <<screen, worldVars, shownVars>>
  /\ GoesOn(v, [for |-> "rows"]) \/ Answered(v)
Shown(row) == [row EXCEPT !.status = IF @ = "active" THEN "active" ELSE "stopped"]
ReadRows(v) ==
  /\ Waiting(v, "rows") /\ Answered(v)
  /\ known' \in {known, <<>>, [i \in DOMAIN botRows |-> Shown(botRows[i])]}
  /\ UNCHANGED <<screen, worldVars, card, dbShown, chosen, table, panel>>

(* primaryStrategy is the first active row: the analysis state, by which a *)
(* position would be preferred, is not among the fields that are mapped.   *)
ActiveRows == {i \in DOMAIN known : known[i].status = "active"}
Primary == IF ActiveRows = {} THEN Nothing
           ELSE known[CHOOSE i \in ActiveRows : \A j \in ActiveRows : i <= j].name

(* useOpenPositionFromDB. *)
AskTrade(v) == screen = "strategy" /\ Sends(v, [for |-> "trade"]) /\ UNCHANGED shownVars
ReadTrade(v) ==
  /\ Waiting(v, "trade") /\ Answered(v) /\ dbShown' \in {dbShown, dbTrade}
  /\ UNCHANGED <<screen, worldVars, card, known, chosen, table, panel>>

(* Two effects choose the strategy: that of the open trade, and that of    *)
(* the first active row.                                                   *)
Chooses(b) ==
  /\ screen = "strategy" /\ b \notin {Nothing, chosen} /\ chosen' = b
  /\ UNCHANGED <<screen, worldVars, card, known, dbShown, table, panel, views>>
ChooseRecorded == Chooses(dbShown)
ChooseActive == Chooses(Primary)

(* The status of the strategy card, the button and what pressing it does:  *)
(* stop the first row, whichever that is, or start the chosen strategy.    *)
CardStatus ==
  CASE dbShown # Nothing \/ storeView.position -> "in-position"
    [] dbShown = Nothing /\ ~storeView.position /\ ActiveRows # {} -> "analyzing"
    [] OTHER -> storeView.status
ButtonEnabled == ~storeView.position /\ (chosen # Nothing \/ ActiveRows # {})
PressToggle(v) ==
  /\ screen = "strategy" /\ ButtonEnabled /\ UNCHANGED shownVars
  /\ \/ CardStatus = "analyzing" /\ ActiveRows # {} /\ Sends(v, [for |-> "set", bot |-> known[1].name, to |-> "stopped"])
     \/ CardStatus # "analyzing" /\ chosen # Nothing /\ Sends(v, [for |-> "set", bot |-> chosen, to |-> "active"])
SetRow(v) ==
  /\ Waiting(v, "set") /\ Answered(v) /\ botRows' \in {botRows, PutStatus(views[v].bot, views[v].to)}
  /\ UNCHANGED <<screen, held, guarded, link, dbTrade, storeView, changes, shownVars>>

-----------------------------------------------------------------------------
(* The trade table: whatever was asked for, the answer is listed. *)
FilterTrades(f) ==
  /\ screen = "history" /\ f # table.filter /\ table' = [table EXCEPT !.filter = f]
  /\ UNCHANGED <<screen, worldVars, card, known, dbShown, chosen, panel, views>>
AskTrades(v) == screen = "history" /\ Sends(v, [for |-> "trades", filter |-> table.filter]) /\ UNCHANGED shownVars
Matching(f) == {b \in {dbTrade} \ {Nothing} : f \in {"all", b}}
ReadTrades(v) ==
  /\ Waiting(v, "trades") /\ Answered(v)
  /\ table' \in {table, [table EXCEPT !.listed = Matching(views[v].filter)]}
  /\ UNCHANGED <<screen, worldVars, card, known, dbShown, chosen, panel>>
TickTrade(t) ==
  /\ screen = "history" /\ t \in table.listed
  /\ table' = [table EXCEPT !.ticked = IF t \in @ THEN @ \ {t} ELSE @ \cup {t}]
  /\ UNCHANGED <<screen, worldVars, card, known, dbShown, chosen, panel, views>>
(* toggleSelectAll compares the numbers. *)
TickAll ==
  /\ screen = "history" /\ table.listed # {}
  /\ table' = [table EXCEPT !.ticked =
       IF Cardinality(@) = Cardinality(table.listed) THEN {} ELSE table.listed]
  /\ UNCHANGED <<screen, worldVars, card, known, dbShown, chosen, panel, views>>
(* One request after the other, for what was ticked when it was pressed. *)
PressDelete(v) ==
  /\ screen = "history" /\ table.ticked # {}
  /\ Sends(v, [for |-> "delete", left |-> table.ticked, some |-> FALSE]) /\ UNCHANGED shownVars
DeleteOne(v) ==
  /\ Waiting(v, "delete") /\ UNCHANGED <<screen, held, guarded, link, botRows, storeView, changes, card, known, dbShown, chosen, panel>>
  /\ \/ \E t \in views[v].left, done \in BOOLEAN :
          /\ dbTrade' = (IF done /\ dbTrade = t THEN Nothing ELSE dbTrade)
          /\ GoesOn(v, [views[v] EXCEPT !.left = @ \ {t}, !.some = @ \/ done]) /\ UNCHANGED table
     \/ /\ views[v].left = {} /\ UNCHANGED dbTrade
        /\ IF views[v].some THEN table' = [table EXCEPT !.ticked = {}] /\ GoesOn(v, [for |-> "trades", filter |-> table.filter])
           ELSE UNCHANGED table /\ Answered(v)

-----------------------------------------------------------------------------
(* useBackendAnalysis: its effect runs again when the strategy or the      *)
(* number of errors changes, and cancels the requests of the last one.     *)
Cancelled(set) == [v \in ViewPolls |-> IF v \in set /\ views[v].for = "analysis"
                                       THEN [views[v] EXCEPT !.cancelled = TRUE] ELSE views[v]]
ShowPrimary ==
  /\ screen = "analysis" /\ panel.of # Primary
  /\ panel' = [of |-> Primary, analysis |-> IF Primary = Nothing THEN Nothing ELSE panel.analysis,
               errors |-> IF Primary = Nothing THEN 0 ELSE panel.errors]
  /\ views' = Cancelled(ViewPolls)
  /\ UNCHANGED <<screen, worldVars, card, known, dbShown, chosen, table>>

AskAnalysis(v) ==
  /\ screen = "analysis" /\ panel.of # Nothing /\ panel.errors <= GiveUpAfter
  /\ Sends(v, [for |-> "analysis", bot |-> panel.of, cancelled |-> FALSE]) /\ UNCHANGED shownVars

Counts(v, errors) ==
  views' = [(IF errors = panel.errors THEN views ELSE Cancelled(ViewPolls)) EXCEPT ![v] = NoView]
(* Mutant: an answer is shown without asking whether it was cancelled. *)
ReadAnalysisLate(v) ==
  /\ Waiting(v, "analysis") /\ UNCHANGED <<screen, worldVars, card, known, dbShown, chosen, table>>
  /\ \/ Row(views[v].bot) # {}
        /\ panel' = [panel EXCEPT !.analysis = views[v].bot, !.errors = 0] /\ Counts(v, 0)
     \/ \E analysis \in {panel.analysis, Nothing} :
          panel' = [panel EXCEPT !.analysis = analysis, !.errors = @ + 1] /\ Counts(v, panel.errors + 1)

(* The route answers for a row of the user, with the analysis that the     *)
(* service has or with an empty one; anything else is an error.  What was  *)
(* shown stays, but after an answer that has no analysis.                  *)
ReadAnalysis(v) ==
  /\ Waiting(v, "analysis") /\ UNCHANGED <<screen, worldVars, card, known, dbShown, chosen, table>>
  /\ \/ views[v].cancelled /\ UNCHANGED panel /\ Answered(v)
     \/ /\ ~views[v].cancelled /\ Row(views[v].bot) # {}
        /\ panel' = [panel EXCEPT !.analysis = views[v].bot, !.errors = 0] /\ Counts(v, 0)
     \/ /\ ~views[v].cancelled
        /\ \E analysis \in {panel.analysis, Nothing} :
             panel' = [panel EXCEPT !.analysis = analysis, !.errors = @ + 1] /\ Counts(v, panel.errors + 1)

-----------------------------------------------------------------------------
WorldNext ==
  \/ TradeTurns \/ StoreLooks
  \/ \E a \in Holders : PositionTurns(a) \/ LinkTurns(a)
  \/ \E b \in Bots : RowTurns(b)
TradingNext(v) ==
  \/ AskPositions(v) \/ ReadPositions(v) \/ ReadTicker(v) \/ ReadOrders(v)
  \/ PressClose(v) \/ PriceForClose(v) \/ CloseRoute(v)
  \/ AskStatus(v) \/ ReadConnection(v) \/ ReadRows(v) \/ AskTrade(v) \/ ReadTrade(v)
  \/ PressToggle(v) \/ SetRow(v)
TableNext(v) == AskTrades(v) \/ ReadTrades(v) \/ PressDelete(v) \/ DeleteOne(v)
PanelNext(v) == AskAnalysis(v) \/ ReadAnalysis(v)

DashboardNext ==
  \/ WorldNext \/ ReconnectCard \/ ChooseRecorded \/ ChooseActive \/ TickAll \/ ShowPrimary
  \/ \E f \in Bots \cup {"all"} : FilterTrades(f)
  \/ \E t \in Bots : TickTrade(t)
  \/ \E v \in ViewPolls : TradingNext(v) \/ TableNext(v) \/ PanelNext(v)

DashboardSpec == DashboardInit /\ [][DashboardNext]_dashboardVars

-----------------------------------------------------------------------------
(* An analysis that comes to be shown is that of the strategy selected     *)
(* now, however late the answers of earlier selections are (isCancelled).  *)
AnalysisOfSelected ==
  [][panel'.analysis # panel.analysis => panel'.analysis \in {Nothing, panel'.of}]_panel

=============================================================================
