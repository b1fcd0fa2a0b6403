----------------------------- MODULE TradeStores -------------------------------
(***************************************************************************)
(* The trade history service (services/trade-history.ts) over its two      *)
(* stores: the SQLite table (SqlTradeHistoryStore.ts) and the map used in  *)
(* development (KvTradeHistoryStore.ts).  Every operation of the service   *)
(* is applied to both, side by side; a deployment has one of them.         *)
(*                                                                         *)
(* A price is left out, except the profit and whether the stop price that  *)
(* was last set is the one the store knows.  A trade that is open has no   *)
(* profit; the field is 0 (NULL in SQL).                                   *)
(***************************************************************************)
EXTENDS Integers, Sequences, FiniteSets, FiniteSetsExt, SequencesExt

CONSTANTS
  Owners,           (* pairs of a strategy and a user                      *)
  Profits,          (* pnl of a closed trade                               *)
  Exits,            (* of the exits sl and tp, those whose ids are followed *)
  Guesses,          (* reasons the nearer level gives                      *)
  MaxHistory, MaxTime (* bounds                                            *)

(* An absent filter of a query. *)
AnyOne == "any"

ASSUME HistoryAssumption ==
  /\ IsFiniteSet(Owners) /\ \A owner \in Owners : AnyOne \notin {owner[1], owner[2]}
  /\ Profits \subseteq Int /\ Guesses \subseteq {"sl_hit", "tp_hit", "manual"} /\ Exits \subseteq {"sl", "tp"} /\ {MaxHistory, MaxTime} \subseteq Nat

VARIABLES
  rows,  (* SQL: id -> record                                              *)
  kept,  (* Kv: the records in the order they were added                   *)
  ids,   (* ids given so far                                               *)
  clock, (* Date.now()                                                     *)
  parted (* history: trades closed on records in which the stores differed *)
historyVars == <<rows, kept, ids, clock, parted>>

Reasons == {"sl_hit", "tp_hit", "manual"}
TradeStoresInit == rows = <<>> /\ kept = <<>> /\ ids = 0 /\ clock = 1 /\ parted = {}

-----------------------------------------------------------------------------
(* SqlTradeHistoryStore.updateTrade: an UPDATE of the fields that are      *)
(* defined, which the stop prices are not among; no row, no effect.  Order *)
(* ids that are given join those that are known.                           *)
SqlUpdate(id, updates) ==
  rows' = [i \in DOMAIN rows |->
             IF i # id THEN rows[i]
             ELSE [f \in DOMAIN rows[i] |->
                     IF f \notin DOMAIN updates \/ f = "stopMoved" THEN rows[i][f]
                     ELSE IF f = "known" THEN rows[i].known \cup updates.known
                     ELSE updates[f]]]

(* KvTradeHistoryStore.updateTrade: every field that is given, undefined   *)
(* or not; a missing trade is an error, and nothing changes.               *)
KvUpdate(id, updates) ==
  kept' = [i \in DOMAIN kept |->
             IF kept[i].id # id THEN kept[i]
             ELSE [f \in DOMAIN kept[i] |-> IF f \in DOMAIN updates THEN updates[f] ELSE kept[i][f]]]

UpdateTrade(id, updates) == SqlUpdate(id, updates) /\ KvUpdate(id, updates) /\ UNCHANGED <<ids, clock, parted>>

(* recordTrade *)
RecordHistory(owner, known) ==
  LET trade == [id |-> ids + 1, owner |-> owner, time |-> clock, status |-> "open", reason |-> "none",
                pnl |-> 0, known |-> known, stopMoved |-> FALSE]
  IN /\ ids < MaxHistory /\ ids' = ids + 1
     /\ rows' = [i \in DOMAIN rows \cup {trade.id} |-> IF i = trade.id THEN trade ELSE rows[i]]
     /\ kept' = Append(kept, trade) /\ UNCHANGED <<clock, parted>>

(* deriveExitDetails, of the trade as the store has it: by its orders that *)
(* filled, when both the entry and an exit are among the last hundred      *)
(* trades, else by the nearer of its levels and an estimate of the profit. *)
ExitOf(trade, filled, profit, nearer) ==
  LET hit == filled \cap trade.known
  IN [status |-> "closed", pnl |-> profit[hit],
      reason |-> IF "sl" \in hit THEN "sl_hit" ELSE IF "tp" \in hit THEN "tp_hit" ELSE nearer[trade.stopMoved]]

(* closeTrade, with what trade-finalizer.ts derives from the record of the *)
(* store; the status is not looked at.                                     *)
CloseHistory(id) ==
  LET sql == rows[id]
      kv == kept[CHOOSE k \in DOMAIN kept : kept[k].id = id]
  IN \E filled \in SUBSET Exits, profit \in [SUBSET Exits -> Profits], nearer \in [BOOLEAN -> Guesses] :
       /\ SqlUpdate(id, ExitOf(sql, filled, profit, nearer)) /\ KvUpdate(id, ExitOf(kv, filled, profit, nearer))
       /\ parted' = IF sql.known = kv.known /\ sql.stopMoved = kv.stopMoved THEN parted \ {id} ELSE parted \cup {id}
       /\ UNCHANGED <<ids, clock>>

(* updateOrderIds, either id undefined; updateStops.                       *)
UpdateHistoryIds(id) == \E known \in SUBSET Exits : UpdateTrade(id, [known |-> known])
UpdateHistoryStops(id) == UpdateTrade(id, [stopMoved |-> TRUE])
DeleteHistory(id) ==
  /\ rows' = [i \in DOMAIN rows \ {id} |-> rows[i]]
  /\ kept' = RemoveAt(kept, CHOOSE k \in DOMAIN kept : kept[k].id = id) /\ parted' = parted \ {id}
  /\ UNCHANGED <<ids, clock>>
ClockTicks == clock < MaxTime /\ clock' = clock + 1 /\ UNCHANGED <<rows, kept, ids, parted>>

TradeStoresNext ==
  \/ \E owner \in Owners, known \in SUBSET Exits : RecordHistory(owner, known)
  \/ \E id \in DOMAIN rows : CloseHistory(id) \/ UpdateHistoryIds(id) \/ UpdateHistoryStops(id) \/ DeleteHistory(id)
  \/ ClockTicks

-----------------------------------------------------------------------------
(* The queries.  A limit and an offset of 0 are absent.                    *)
Selected(trade, query) ==
  /\ query.strategy \in {AnyOne, trade.owner[1]} /\ query.status \in {AnyOne, trade.status}
  /\ query.from <= trade.time /\ (query.to # 0 => trade.time <= query.to)
(* The elements of a set, each after those that come before it. *)
Sorted(S, Before(_, _)) ==
  [n \in 1 .. Cardinality(S) |-> CHOOSE x \in S : Cardinality({y \in S : Before(y, x)}) = n - 1]
Page(sorted, query) ==
  LET left == Len(sorted) - query.offset
  IN [n \in 1 .. (IF query.limit = 0 \/ left < query.limit THEN left ELSE query.limit) |-> sorted[n + query.offset]]

(* queryTrades of SQL: ORDER BY entryTime DESC LIMIT OFFSET; among equal   *)
(* times the index gives the last row first.                               *)
SqlRows(query) ==
  LET found == {i \in DOMAIN rows : Selected(rows[i], query) /\ query.user \in {AnyOne, rows[i].owner[2]}}
      page == Page(Sorted(found, LAMBDA i, j : rows[i].time > rows[j].time \/ (rows[i].time = rows[j].time /\ i > j)), query)
  IN [n \in DOMAIN page |-> rows[page[n]]]
(* rowToTrade: a profit of 0 is undefined, as NULL is.                     *)
RowToTrade(row) == [f \in IF row.pnl = 0 THEN DOMAIN row \ {"pnl"} ELSE DOMAIN row |-> row[f]]
SqlQuery(query) == LET found == SqlRows(query) IN [n \in DOMAIN found |-> RowToTrade(found[n])]

(* queryTrades of Kv: the user is not among its filters; the sort is       *)
(* stable.                                                                 *)
KvFound(query) == {i \in DOMAIN kept : Selected(kept[i], query)}
KvSorted(found) == Sorted(found, LAMBDA i, j : kept[i].time > kept[j].time \/ (kept[i].time = kept[j].time /\ i < j))
(* Mutant: the page is cut before the trades are sorted. *)
KvQueryUnsorted(query) ==
  LET page == KvSorted(ToSet(Page(Sorted(KvFound(query), LAMBDA i, j : i < j), query)))
  IN [n \in DOMAIN page |-> kept[page[n]]]
KvQuery(query) ==
  LET page == Page(KvSorted(KvFound(query)), query)
  IN [n \in DOMAIN page |-> kept[page[n]]]

(* getStats: open trades count in the total; no limit.  SQL computes over  *)
(* the rows.                                                               *)
Everything == [strategy |-> AnyOne, user |-> AnyOne, status |-> AnyOne, from |-> 0, to |-> 0, limit |-> 0, offset |-> 0]
Statistics(trades, hits) ==
  LET closed == {t \in trades : t.status = "closed"}
      won == {t \in closed : t.pnl > 0}
      pnls == {t.pnl : t \in closed}
  IN [total |-> Cardinality(trades), won |-> Cardinality(won), lost |-> Cardinality({t \in closed : t.pnl < 0}),
      winRate |-> IF closed = {} THEN 0 ELSE (100 * Cardinality(won)) \div Cardinality(closed),
      pnl |-> MapThenSumSet(LAMBDA t : t.pnl, closed),
      best |-> IF pnls = {} THEN 0 ELSE Max(pnls), worst |-> IF pnls = {} THEN 0 ELSE Min(pnls),
      slHits |-> Cardinality({t \in hits : t.reason = "sl_hit"}),
      tpHits |-> Cardinality({t \in hits : t.reason = "tp_hit"})]
SqlStats(query) == LET found == ToSet(SqlRows(query)) IN Statistics(found, found)
KvStats(query) ==
  LET found == ToSet(KvQuery(query)) IN Statistics(found, {t \in found : t.status = "closed"})
Query(store, query) == IF store = "sql" THEN SqlQuery(query) ELSE KvQuery(query)
Stats(store, query) == IF store = "sql" THEN SqlStats(query) ELSE KvStats(query)

(* getOpenTrade: the most recent open trade of a strategy.                 *)
OpenTradeOf(strategy, store) == Query(store, [Everything EXCEPT !.strategy = strategy, !.status = "open", !.limit = 1])

(* The routes trades/history and trades/stats, and those of one user: the  *)
(* total is the length of the page; statistics take no status, no page.    *)
Pnl(trade) == IF trade.status = "closed" /\ "pnl" \in DOMAIN trade THEN {trade.pnl} ELSE {}
Outcome(trades) ==
  [k \in DOMAIN trades |-> [id |-> trades[k].id, status |-> trades[k].status, reason |-> trades[k].reason, pnl |-> Pnl(trades[k])]]
HistoryAnswer(query, store) == LET page == Query(store, query) IN [trades |-> Outcome(page), total |-> Len(page)]
Statistical(query) == [query EXCEPT !.status = AnyOne, !.limit = 0, !.offset = 0]
StatsAnswer(query, store) == Stats(store, Statistical(query))
OfUser(user, query) == [query EXCEPT !.user = user]
UserHistory(user, query, store) == HistoryAnswer(OfUser(user, query), store)
UserStats(user, query, store) == StatsAnswer(OfUser(user, query), store)

(* What the routes pass on: absent, or parsed, filters. *)
HistoryQueries ==
  {q \in [strategy : {AnyOne} \cup {o[1] : o \in Owners}, user : {AnyOne}, status : {AnyOne, "open", "closed"},
          from : {0, 2}, to : {0, 2}, limit : 0..1, offset : 0..1] : q.offset > 0 => q.limit > 0}

-----------------------------------------------------------------------------
Users == {o[2] : o \in Owners}
(* Two answers, row by row: the same trades with the same status, and,     *)
(* unless the stores closed a trade on records that differed, with the     *)
(* same reason and profit, where SQL leaves a profit of 0 out.             *)
SameOutcomes(sql, kv) ==
  /\ DOMAIN sql = DOMAIN kv
  /\ \A k \in DOMAIN sql :
       /\ sql[k].id = kv[k].id /\ sql[k].status = kv[k].status
       /\ sql[k].id \notin parted => sql[k].reason = kv[k].reason /\ sql[k].pnl = kv[k].pnl \ {0}

(* Whatever the services have recorded, closed, linked and deleted, and    *)
(* whichever store is configured, the trade history answers alike: the     *)
(* same trades in the same order, the same page, the same number of trades *)
(* and the same open trade; the same outcomes and statistics too, for      *)
(* trades that were closed on the same order ids and stop price (Kv loses  *)
(* ids it is given as undefined, SQL does not take a stop that moved), but *)
(* for a profit of 0; and in SQL the histories of the users part that of   *)
(* all.  Not compared: trades of the same millisecond, an offset without a *)
(* limit (an error in SQLite), and the user's history in Kv, which is      *)
(* everybody's.                                                            *)
HistoriesAnswerAlike ==
  (ids > 0 /\ \A i, j \in DOMAIN rows : i # j => rows[i].time # rows[j].time) =>
    /\ \A query \in HistoryQueries :
         LET sql == HistoryAnswer(query, "sql")
             kv == HistoryAnswer(query, "kv")
         IN sql.total = kv.total /\ SameOutcomes(sql.trades, kv.trades)
    /\ \A query \in {q \in HistoryQueries : q.limit = 0 /\ q.status = AnyOne} :
         LET sql == StatsAnswer(query, "sql")
             kv == StatsAnswer(query, "kv")
             history == [u \in Users |-> UserHistory(u, query, "sql").trades]
         IN /\ sql.total = kv.total
            /\ (\A r \in ToSet(SqlRows(Statistical(query))) : r.id \notin parted) => sql = kv
            /\ sql.total = MapThenSumSet(LAMBDA u : UserStats(u, query, "sql").total, Users)
            /\ \A u \in Users : \A k \in DOMAIN history[u] : rows[history[u][k].id].owner[2] = u
    /\ \A owner \in Owners :
         SameOutcomes(Outcome(OpenTradeOf(owner[1], "sql")), Outcome(OpenTradeOf(owner[1], "kv")))
=============================================================================
