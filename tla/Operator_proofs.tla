----------------------------- MODULE Operator_proofs ---------------------------
(***************************************************************************)
(* What is proved of the parts an operator works with, each apart from the *)
(* others.                                                                 *)
(*                                                                         *)
(* The Deribit client of the browser: whenever a connection is lost, a     *)
(* timeout is running or a connect() is to be decided; the argument counts *)
(* the timeouts and numbers the sockets in the order they are made.        *)
(*                                                                         *)
(* Brackets: a call that ends without an error leaves a position that has  *)
(* its stop, or none.                                                      *)
(*                                                                         *)
(* The analysis panel of the dashboard asks for the strategy it is of.     *)
(* When that changes, its effect cancels every request under way; hence    *)
(* each request that is not cancelled is for the strategy of now, however  *)
(* long it takes.                                                          *)
(*                                                                         *)
(* The stops an operator places and replaces cover the position, a restart *)
(* finds the credentials that were saved, and the trade history answers    *)
(* alike from either store.  What sums and folds over all sets and         *)
(* sequences are is shown before that.                                     *)
(***************************************************************************)
EXTENDS BrowserClient, Brackets, Dashboard, ManualOrders, Settings, TradeStores,
        FiniteSetTheorems, SequenceTheorems, WellFoundedInduction, TLAPS

BrowserClientSpec == BrowserClientInit /\ [][BrowserClientNext]_browserClientVars

(* Sockets are made one after the other and stay known; a reconnect that   *)
(* is under way has a timeout to fire or a connect() to be decided.        *)
SocketsInv ==
  /\ DOMAIN socket = Sockets
  /\ \A s \in Sockets : DOMAIN socket[s] = {"link", "step", "by", "hooked", "over", "settled"}
  /\ \E n \in 0 .. MaxSockets : Made = 1 .. n
TimeoutsInv == timeouts \in Nat /\ latest \in BOOLEAN /\ (latest => timeouts > 0)
ReconnectInv == SocketsInv /\ TimeoutsInv /\ LossIsRetried

(* What a step does to the sockets, apart from a new one.                  *)
SameSockets ==
  /\ DOMAIN socket' = Sockets
  /\ \A s \in Sockets :
       /\ DOMAIN socket'[s] = DOMAIN socket[s] /\ socket'[s].by = socket[s].by
       /\ socket'[s].link = "none" <=> socket[s].link = "none"

(* What it does to the timeouts.                                           *)
Retries == \/ retrying' = FALSE /\ UNCHANGED <<timeouts, latest>>
           \/ retrying' = TRUE /\ timeouts' = timeouts + 1 /\ latest' = TRUE

LEMMA SocketsStay == ASSUME ReconnectInv, SameSockets PROVE Made' = Made
BY DEF ReconnectInv, SocketsInv, TimeoutsInv, SameSockets, Made

(* The new socket has a number of its own.                                 *)
LEMMA SocketIsNew ==
  ASSUME ReconnectInv
  PROVE  /\ Cardinality(Made) + 1 \notin Made
         /\ Cardinality(Made) + 1 \in Nat /\ Made \cup {Cardinality(Made) + 1} = 1 .. (Cardinality(Made) + 1)
<1>1. PICK n \in 0 .. MaxSockets : Made = 1 .. n
  BY DEF ReconnectInv, SocketsInv, TimeoutsInv
<1>2. Cardinality(Made) = n
  BY <1>1, FS_Interval
<1> QED BY <1>1, <1>2

LEMMA NewSocketKeeps ==
  ASSUME ReconnectInv, NEW by, NEW sockets, DOMAIN sockets = Sockets, Makes(sockets, by),
         \A s \in Sockets : /\ DOMAIN sockets[s] = DOMAIN socket[s]
                            /\ sockets[s].link = "none" <=> socket[s].link = "none"
  PROVE  /\ SocketsInv'
         /\ \E s \in Made' \ Made : /\ socket'[s].by = by /\ ~socket'[s].settled
                                    /\ \A t \in Made : socket'[t] = sockets[t]
         /\ ws' \in Made' /\ Made \subseteq Made'
<1> DEFINE r == [NoSocket EXCEPT !.link = "opening", !.step = "open", !.by = by, !.hooked = TRUE]
<1>1. PICK s \in Sockets : s = Cardinality(Made) + 1 /\ ws' = s /\ socket' = [sockets EXCEPT ![s] = r]
  BY DEF Makes
<1>2. /\ DOMAIN r = {"link", "step", "by", "hooked", "over", "settled"}
      /\ r.by = by /\ ~r.settled /\ r.link # "none"
  BY DEF NoSocket
<1> HIDE DEF r
<1>3. socket'[s] = r /\ \A t \in Sockets \ {s} : socket'[t] = sockets[t]
  BY <1>1
<1>4. Made' = Made \cup {s}
  BY <1>2, <1>3 DEF Made
<1>5. s \notin Made /\ s \in Nat /\ Made \cup {s} = 1 .. s
  BY <1>1, SocketIsNew
<1>6. Made \subseteq Sockets
  BY DEF Made
<1>7. s \in 0 .. MaxSockets /\ Made' = 1 .. s
  BY <1>4, <1>5 DEF Sockets
<1>8. \A t \in Sockets : DOMAIN socket'[t] = {"link", "step", "by", "hooked", "over", "settled"}
  BY <1>2, <1>3 DEF ReconnectInv, SocketsInv
<1>9. DOMAIN socket' = Sockets
  BY <1>1
<1>10. s \in Made' \ Made /\ \A t \in Made : socket'[t] = sockets[t]
  BY <1>3, <1>4, <1>5, <1>6
<1> QED BY <1>1, <1>2, <1>3, <1>4, <1>7, <1>8, <1>9, <1>10 DEF SocketsInv

(* A step that leaves the sockets as decided as they were, or that retries.*)
LEMMA DecidedKeeps ==
  ASSUME ReconnectInv, SameSockets,
         \/ Retries
         \/ UNCHANGED <<retrying, timeouts, latest>> /\ \A s \in Sockets : socket'[s].settled = socket[s].settled
         \/ /\ UNCHANGED <<timeouts, latest>>
            /\ retrying' = FALSE
  PROVE  ReconnectInv'
<1>1. Made' = Made /\ Made \subseteq Sockets
  BY SocketsStay DEF Made
<1>2. \A s \in Made : socket'[s].by = socket[s].by
  BY <1>1 DEF SameSockets
<1>3. LossIsRetried'
  <2>1. CASE Retries
    BY <2>1 DEF Retries, LossIsRetried, ReconnectInv, SocketsInv, TimeoutsInv
  <2>2. CASE retrying' = FALSE
    BY <2>2 DEF LossIsRetried
  <2>3. CASE UNCHANGED <<retrying, timeouts, latest>> /\ \A s \in Sockets : socket'[s].settled = socket[s].settled
    BY <1>1, <1>2, <2>3 DEF LossIsRetried, Undecided, ReconnectInv, SocketsInv, TimeoutsInv
  <2> QED BY <2>1, <2>2, <2>3
<1>4. timeouts' \in Nat /\ latest' \in BOOLEAN /\ (latest' => timeouts' > 0)
  <2>1. timeouts \in Nat /\ latest \in BOOLEAN /\ (latest => timeouts > 0)
    BY DEF ReconnectInv, SocketsInv, TimeoutsInv
  <2>2. CASE timeouts' = timeouts + 1 /\ latest' = TRUE
    BY <2>1, <2>2
  <2>3. CASE UNCHANGED <<timeouts, latest>>
    BY <2>1, <2>3
  <2> QED BY <2>2, <2>3 DEF Retries
<1> QED BY <1>1, <1>3, <1>4 DEF ReconnectInv, SocketsInv, TimeoutsInv, SameSockets

LEMMA AttemptRetries == ASSUME AttemptReconnect PROVE Retries
BY DEF AttemptReconnect, Retries

(* One that was no reconnect, or decided already, may be settled.          *)
LEMMA SettledKeeps ==
  ASSUME ReconnectInv, SameSockets, NEW s \in Sockets, ~(socket[s].by = "retry" /\ ~socket[s].settled),
         \A t \in Sockets \ {s} : socket'[t].settled = socket[t].settled,
         UNCHANGED <<retrying, timeouts, latest>>
  PROVE  ReconnectInv'
<1>1. Made' = Made /\ Made \subseteq Sockets
  BY SocketsStay DEF Made
<1>2. \A t \in Made : socket'[t].by = socket[t].by
  BY <1>1 DEF SameSockets
<1>3. Undecided \subseteq Undecided'
  BY <1>1, <1>2 DEF Undecided
<1>4. LossIsRetried'
  BY <1>3 DEF LossIsRetried, ReconnectInv, SocketsInv, TimeoutsInv
<1> QED BY <1>1, <1>4 DEF ReconnectInv, SocketsInv, TimeoutsInv, SameSockets

(* A rejection settles a socket; if that was to reconnect, it is tried     *)
(* again.                                                                  *)
LEMMA RejectedKeeps ==
  ASSUME ReconnectInv, SameSockets, NEW s \in Sockets, Rejected(s),
         \A t \in Sockets \ {s} : socket'[t].settled = socket[t].settled
  PROVE  ReconnectInv'
<1>1. CASE socket[s].by = "retry" /\ ~socket[s].settled
  BY <1>1, AttemptRetries, DecidedKeeps DEF Rejected
<1>2. CASE ~(socket[s].by = "retry" /\ ~socket[s].settled)
  BY <1>2, SettledKeeps DEF Rejected, retryVars
<1> QED BY <1>1, <1>2

LEMMA HandleCloseKeeps ==
  ASSUME ReconnectInv, SameSockets, HandleClose \/ UNCHANGED retryVars,
         \A t \in Sockets : socket'[t].settled = socket[t].settled
  PROVE  ReconnectInv'
BY AttemptRetries, DecidedKeeps DEF HandleClose, retryVars

LEMMA SocketStep ==
  ASSUME ReconnectInv, NEW s \in Sockets, SocketEvent(s), s \in Made
  PROVE  ReconnectInv'
<1> USE DEF Over
<1>0. DOMAIN socket = Sockets /\ DOMAIN socket[s] = {"link", "step", "by", "hooked", "over", "settled"}
      /\ socket[s].link # "none"
  BY DEF ReconnectInv, SocketsInv, TimeoutsInv, Made
<1>1. CASE Opens(s)
  <2>1. SameSockets /\ \A t \in Sockets \ {s} : socket'[t].settled = socket[t].settled
    BY <1>0, <1>1 DEF Opens, SameSockets
  <2>2. CASE Rejected(s)
    BY <2>1, <2>2, RejectedKeeps
  <2>3. CASE UNCHANGED retryVars /\ socket'[s].settled = socket[s].settled
    BY <2>1, <2>3, DecidedKeeps DEF retryVars
  <2> QED BY <1>0, <1>1, <2>2, <2>3 DEF Opens
<1>2. CASE Authenticated(s)
  <2>1. SameSockets /\ \A t \in Sockets \ {s} : socket'[t].settled = socket[t].settled
    BY <1>0, <1>2 DEF Authenticated, SameSockets
  <2>2. CASE Rejected(s)
    BY <2>1, <2>2, RejectedKeeps
  <2>3. CASE UNCHANGED retryVars /\ socket'[s].settled = socket[s].settled
    BY <2>1, <2>3, DecidedKeeps DEF retryVars
  <2> QED BY <1>0, <1>2, <2>2, <2>3 DEF Authenticated
<1>3. CASE StepFails(s)
  <2>1. SameSockets /\ \A t \in Sockets \ {s} : socket'[t].settled = socket[t].settled
    BY <1>0, <1>3 DEF StepFails, SameSockets
  <2> QED BY <1>3, <2>1, RejectedKeeps DEF StepFails
<1>4. CASE Succeeds(s)
  <2>1. SameSockets /\ \A t \in Sockets \ {s} : socket'[t].settled = socket[t].settled
    BY <1>0, <1>4 DEF Succeeds, SameSockets
  <2>2. CASE socket[s].by = "retry" /\ ~socket[s].settled
    BY <1>4, <2>1, <2>2, DecidedKeeps DEF Succeeds
  <2>3. CASE ~(socket[s].by = "retry" /\ ~socket[s].settled)
    <3>1. UNCHANGED <<retrying, timeouts, latest>>
      BY <1>4, <2>3 DEF Succeeds
    <3> QED BY <2>1, <2>3, <3>1, SettledKeeps
  <2> QED BY <2>2, <2>3
<1>5. CASE LinkLost(s)
  <2>1. SameSockets /\ \A t \in Sockets \ {s} : socket'[t].settled = socket[t].settled
    BY <1>0, <1>5 DEF LinkLost, SameSockets
  <2>2. CASE Rejected(s)
    BY <2>1, <2>2, RejectedKeeps
  <2>3. CASE UNCHANGED retryVars /\ socket'[s].settled = socket[s].settled
    BY <2>1, <2>3, DecidedKeeps DEF retryVars
  <2> QED BY <1>0, <1>5, <2>2, <2>3 DEF LinkLost
<1>6. CASE OpeningFails(s)
  <2>1. SameSockets /\ \A t \in Sockets \ {s} : socket'[t].settled = socket[t].settled
    BY <1>0, <1>6 DEF OpeningFails, SameSockets
  <2> QED BY <1>6, <2>1, RejectedKeeps DEF OpeningFails
<1>7. CASE CloseEvent(s)
  <2>1. SameSockets /\ \A t \in Sockets : socket'[t].settled = socket[t].settled
    BY <1>0, <1>7 DEF CloseEvent, SameSockets
  <2> QED BY <1>7, <2>1, HandleCloseKeeps DEF CloseEvent
<1> QED BY <1>1, <1>2, <1>3, <1>4, <1>5, <1>6, <1>7 DEF SocketEvent

LEMMA ReconnectKept ==
  ASSUME ReconnectInv, [BrowserClientNext]_browserClientVars
  PROVE  ReconnectInv'
<1>1. ASSUME UNCHANGED <<socket, retrying, timeouts, latest>> PROVE ReconnectInv'
  BY <1>1, DecidedKeeps DEF SameSockets, ReconnectInv, SocketsInv, TimeoutsInv
<1>2. ASSUME NEW s \in Sockets, RejectionRuns(s) PROVE ReconnectInv'
  <2>1. SameSockets /\ \A t \in Sockets \ {s} : socket'[t].settled = socket[t].settled
    BY <1>2 DEF RejectionRuns, SameSockets, Over, ReconnectInv, SocketsInv, TimeoutsInv
  <2> QED BY <1>2, <2>1, RejectedKeeps DEF RejectionRuns
<1>3. CASE UserConnects
  <2>1. Makes(socket, "user") /\ UNCHANGED <<retrying, timeouts, latest>>
    BY <1>3 DEF UserConnects, NewSocket, retryVars
  <2>2. SocketsInv' /\ Made \subseteq Made' /\ \A t \in Made : socket'[t] = socket[t]
    BY <2>1, NewSocketKeeps DEF ReconnectInv, SocketsInv
  <2>3. LossIsRetried'
    BY <2>1, <2>2 DEF LossIsRetried, Undecided, ReconnectInv
  <2> QED BY <2>1, <2>2, <2>3 DEF ReconnectInv, TimeoutsInv
<1>4. CASE TimerFires
  <2>1. Makes(socket, "retry") /\ TimeoutsInv'
    <3>1. /\ Makes(socket, "retry") /\ timeouts > 0 /\ timeouts' = timeouts - 1
          /\ latest' \in {latest, FALSE} /\ (latest' => timeouts' > 0)
      BY <1>4 DEF TimerFires, NewSocket
    <3>2. timeouts' \in Nat
      BY <3>1 DEF ReconnectInv, TimeoutsInv
    <3>3. latest' \in BOOLEAN
      BY <3>1 DEF ReconnectInv, TimeoutsInv
    <3> QED BY <3>1, <3>2, <3>3 DEF TimeoutsInv
  <2>2. SocketsInv' /\ \E t \in Made' : socket'[t].by = "retry" /\ ~socket'[t].settled
    BY <2>1, NewSocketKeeps DEF ReconnectInv, SocketsInv
  <2>3. LossIsRetried'
    BY <2>2 DEF LossIsRetried, Undecided
  <2> QED BY <2>1, <2>2, <2>3 DEF ReconnectInv
<1>5. CASE Stale
  <2>1. SameSockets /\ HandleClose /\ socket' = socket
    BY <1>5 DEF Stale, SameSockets, ReconnectInv, SocketsInv
  <2> QED BY <2>1, HandleCloseKeeps
<1>6. ASSUME Drops PROVE TimeoutsInv' /\ retrying' = FALSE
  <2>1. latest' = FALSE /\ retrying' = FALSE /\ timeouts' = IF latest THEN timeouts - 1 ELSE timeouts
    BY <1>6 DEF Drops
  <2>2. timeouts \in Nat /\ (latest => timeouts > 0)
    BY DEF ReconnectInv, TimeoutsInv
  <2>3. timeouts' \in Nat
    BY <2>1, <2>2
  <2> QED BY <2>1, <2>3 DEF TimeoutsInv
<1>7. /\ DOMAIN Disconnected = Sockets
      /\ \A s \in Sockets : /\ DOMAIN Disconnected[s] = DOMAIN socket[s] /\ Disconnected[s].by = socket[s].by
                            /\ Disconnected[s].link = "none" <=> socket[s].link = "none"
  BY DEF Disconnected, ReconnectInv, SocketsInv
<1>8. CASE ClientDisconnect
  <2>1. SameSockets /\ Drops
    BY <1>7, <1>8 DEF ClientDisconnect, SameSockets
  <2>2. Made' = Made
    BY <2>1, SocketsStay
  <2> QED BY <1>6, <2>1, <2>2 DEF ReconnectInv, SocketsInv, SameSockets, LossIsRetried
<1>9. CASE SetEnvironment
  <2>1. Drops /\ Makes(Disconnected, "user")
    BY <1>9 DEF SetEnvironment
  <2>2. SocketsInv'
    BY <1>7, <2>1, NewSocketKeeps
  <2> QED BY <1>6, <2>1, <2>2 DEF ReconnectInv, LossIsRetried
<1>10. ASSUME NEW c, ApiCall(c) PROVE UNCHANGED <<socket, retrying, timeouts, latest>>
  BY <1>10 DEF ApiCall, QueryCall, BuyOrder, SellOrder, PositionCall, ReadCall, SubscribeCall, Begins,
     CallAgain, CallAnswered, CallFails, retryVars
<1>11. Made \subseteq Sockets /\ Rejections \subseteq Sockets
  BY DEF Made, Rejections
<1> QED BY <1>1, <1>2, <1>3, <1>4, <1>5, <1>8, <1>9, <1>10, <1>11, SocketStep
        DEF BrowserClientNext, browserClientVars, retryVars

LEMMA ReconnectBegins == BrowserClientInit => ReconnectInv
<1> SUFFICES ASSUME BrowserClientInit PROVE ReconnectInv
  OBVIOUS
<1>1. socket = [s \in Sockets |-> NoSocket] /\ NoSocket.link = "none"
      /\ DOMAIN NoSocket = {"link", "step", "by", "hooked", "over", "settled"}
  BY DEF BrowserClientInit, NoSocket
<1>2. Made = 1 .. 0
  BY <1>1 DEF Made
<1>3. SocketsInv
  BY <1>1, <1>2, BrowserClientAssumption DEF SocketsInv
<1> QED BY <1>3 DEF BrowserClientInit, ReconnectInv, TimeoutsInv, LossIsRetried

(* isReconnecting blocks further attempts; it is only set while a timeout  *)
(* will fire or a connect() of a reconnect is to be decided, whatever      *)
(* losses, rejections and changes of environment overlap.                  *)
THEOREM ReconnectNeverStuck == BrowserClientSpec => []LossIsRetried
<1>1. BrowserClientInit => ReconnectInv
  BY ReconnectBegins
<1>2. ReconnectInv /\ [BrowserClientNext]_browserClientVars => ReconnectInv'
  BY ReconnectKept
<1>3. ReconnectInv => LossIsRetried
  BY DEF ReconnectInv
<1> QED BY <1>1, <1>2, <1>3, PTL DEF BrowserClientSpec

(* The types.  A request that was asked went over a socket there is.       *)
CallFields == {"at", "what", "over", "retries"}
CallsTyped ==
  /\ DOMAIN apiCall = ApiCalls
  /\ \A c \in ApiCalls : DOMAIN apiCall[c] = CallFields /\ (apiCall[c].at = "asked" => apiCall[c].over \in Made)

LEMMA OpenIsMade ==
  ASSUME ReconnectInv, NEW s \in {0} \cup Sockets, Open(s)
  PROVE  s \in Made
BY DEF Open, Made

(* Sockets are only added, and this.ws is one of them or null.             *)
LEMMA SocketsGrow ==
  ASSUME ReconnectInv, ws \in {0} \cup Made, [BrowserClientNext]_browserClientVars
  PROVE  Made \subseteq Made' /\ ws' \in {0} \cup Made'
<1>0. DOMAIN socket = Sockets /\ Made \subseteq Sockets /\ Rejections \subseteq Sockets
  BY DEF ReconnectInv, SocketsInv, Made, Rejections
<1>1. ASSUME SameSockets, ws' \in {ws, 0} PROVE Made \subseteq Made' /\ ws' \in {0} \cup Made'
  BY <1>1, SocketsStay
<1>2. /\ DOMAIN Disconnected = Sockets
      /\ \A s \in Sockets : /\ DOMAIN Disconnected[s] = DOMAIN socket[s] /\ Disconnected[s].by = socket[s].by
                            /\ Disconnected[s].link = "none" <=> socket[s].link = "none"
  BY DEF Disconnected, ReconnectInv, SocketsInv
<1>3. CASE UserConnects \/ TimerFires
  BY <1>0, <1>3, NewSocketKeeps DEF UserConnects, TimerFires, NewSocket
<1>4. CASE SetEnvironment
  BY <1>2, <1>4, NewSocketKeeps DEF SetEnvironment
<1>5. CASE ClientDisconnect
  <2>1. SameSockets /\ ws' = 0
    BY <1>2, <1>5 DEF ClientDisconnect, SameSockets
  <2> QED BY <1>1, <2>1
<1>6. ASSUME NEW s \in Sockets, s \in Made, SocketEvent(s) PROVE Made \subseteq Made' /\ ws' \in {0} \cup Made'
  <2>0. DOMAIN socket[s] = {"link", "step", "by", "hooked", "over", "settled"} /\ socket[s].link # "none"
    BY <1>6 DEF ReconnectInv, SocketsInv, Made
  <2>1. ws' = ws
    BY <1>6 DEF SocketEvent, Opens, Authenticated, StepFails, Succeeds, LinkLost, OpeningFails, CloseEvent
  <2>2. \E k : /\ socket' = [socket EXCEPT ![s] = k] /\ DOMAIN k = DOMAIN socket[s] /\ k.by = socket[s].by /\ k.link # "none"
    <3>1. CASE Opens(s) \/ Authenticated(s) \/ StepFails(s) \/ Succeeds(s)
      BY <2>0, <3>1 DEF Opens, Authenticated, StepFails, Succeeds, Over
    <3>2. CASE LinkLost(s) \/ OpeningFails(s) \/ CloseEvent(s)
      BY <2>0, <3>2 DEF LinkLost, OpeningFails, CloseEvent
    <3> QED BY <1>6, <3>1, <3>2 DEF SocketEvent
  <2>3. SameSockets
    BY <1>0, <2>0, <2>2 DEF SameSockets
  <2> QED BY <1>1, <2>1, <2>3
<1>7. ASSUME NEW s \in Sockets, RejectionRuns(s) PROVE Made \subseteq Made' /\ ws' \in {0} \cup Made'
  <2>1. SameSockets
    BY <1>0, <1>7 DEF RejectionRuns, Over, SameSockets
  <2> QED BY <1>1, <1>7, <2>1 DEF RejectionRuns
<1>8. ASSUME UNCHANGED <<ws, socket>> PROVE Made \subseteq Made' /\ ws' \in {0} \cup Made'
  BY <1>0, <1>1, <1>8 DEF SameSockets
<1>9. ASSUME NEW c, ApiCall(c) PROVE UNCHANGED <<ws, socket>>
  BY <1>9 DEF ApiCall, QueryCall, BuyOrder, SellOrder, PositionCall, ReadCall, SubscribeCall, Begins,
     CallAgain, CallAnswered, CallFails
<1>10. Stale \/ UNCHANGED browserClientVars => UNCHANGED <<ws, socket>>
  BY DEF Stale, browserClientVars
<1> QED BY <1>0, <1>3, <1>4, <1>5, <1>6, <1>7, <1>8, <1>9, <1>10 DEF BrowserClientNext

(* What attempts and rejections do to the state shown and to the retries.  *)
RetriesTyped == {retrying, latest} \subseteq BOOLEAN /\ tries \in 0..MaxReconnects
ClientStates == {"Stopped", "Connecting", "Active", "Error"}

LEMMA AttemptTyped ==
  ASSUME RetriesTyped, AttemptReconnect \/ UNCHANGED retryVars
  PROVE  RetriesTyped'
<1>1. CASE AttemptReconnect
  <2>1. \/ retrying' = FALSE /\ UNCHANGED <<latest, tries>>
        \/ retrying' = TRUE /\ latest' = TRUE /\ ~(tries >= MaxReconnects) /\ tries' = tries + 1
    BY <1>1 DEF AttemptReconnect
  <2>2. tries' \in 0..MaxReconnects
    BY <2>1, BrowserClientAssumption DEF RetriesTyped
  <2>3. retrying' \in BOOLEAN /\ latest' \in BOOLEAN
    BY <2>1 DEF RetriesTyped
  <2> QED BY <2>2, <2>3 DEF RetriesTyped
<1>2. CASE UNCHANGED retryVars
  BY <1>2 DEF retryVars, RetriesTyped
<1> QED BY <1>1, <1>2

LEMMA ClosesTyped ==
  ASSUME RetriesTyped, shownState \in ClientStates, HandleClose \/ (\E s : Rejected(s)) \/ UNCHANGED <<shownState, retryVars>>
  PROVE  RetriesTyped' /\ shownState' \in ClientStates
<1>1. /\ AttemptReconnect \/ UNCHANGED retryVars
      /\ shownState' \in {shownState, "Error"}
  BY DEF HandleClose, Rejected, retryVars
<1> QED BY <1>1, AttemptTyped DEF ClientStates

LEMMA ClientMoves ==
  ASSUME RetriesTyped, shownState \in ClientStates, [BrowserClientNext]_browserClientVars
  PROVE  RetriesTyped' /\ shownState' \in ClientStates
<1>1. ASSUME NEW s, RejectionRuns(s) \/ StepFails(s) \/ OpeningFails(s) \/ LinkLost(s) \/ Opens(s) \/ Authenticated(s)
      PROVE  RetriesTyped' /\ shownState' \in ClientStates
  <2>1. Rejected(s) \/ UNCHANGED <<shownState, retryVars>>
    BY <1>1 DEF RejectionRuns, StepFails, OpeningFails, LinkLost, Opens, Authenticated
  <2> QED BY <2>1, ClosesTyped
<1>2. ASSUME NEW s, CloseEvent(s) PROVE RetriesTyped' /\ shownState' \in ClientStates
  BY <1>2, ClosesTyped DEF CloseEvent
<1>3. CASE Stale
  BY <1>3, ClosesTyped DEF Stale
<1>4. ASSUME NEW s, Succeeds(s) PROVE RetriesTyped' /\ shownState' \in ClientStates
  <2>1. tries' = 0 /\ shownState' = "Active" /\ UNCHANGED latest /\ (retrying' = FALSE \/ UNCHANGED retrying)
    BY <1>4 DEF Succeeds
  <2>2. retrying' \in BOOLEAN /\ latest' \in BOOLEAN
    BY <2>1 DEF RetriesTyped
  <2> QED BY <2>1, <2>2, BrowserClientAssumption DEF RetriesTyped, ClientStates
<1>5. CASE UserConnects \/ TimerFires
  <2>1. UNCHANGED <<retrying, tries>> /\ (UNCHANGED latest \/ latest' = FALSE) /\ shownState' = "Connecting"
    BY <1>5 DEF UserConnects, TimerFires, NewSocket, retryVars
  <2>2. retrying' \in BOOLEAN /\ latest' \in BOOLEAN
    BY <2>1 DEF RetriesTyped
  <2> QED BY <2>1, <2>2 DEF RetriesTyped, ClientStates
<1>6. CASE ClientDisconnect \/ SetEnvironment
  <2>1. tries' = 0 /\ retrying' = FALSE /\ latest' = FALSE /\ shownState' \in {"Stopped", "Connecting"}
    BY <1>6 DEF ClientDisconnect, SetEnvironment, Drops
  <2>2. tries' \in 0..MaxReconnects
    BY <2>1, BrowserClientAssumption
  <2>3. retrying' \in BOOLEAN /\ latest' \in BOOLEAN
    BY <2>1
  <2> QED BY <2>1, <2>2, <2>3 DEF RetriesTyped, ClientStates
<1>7. ASSUME NEW c, ApiCall(c) PROVE UNCHANGED <<shownState, retryVars>>
  BY <1>7 DEF ApiCall, QueryCall, BuyOrder, SellOrder, PositionCall, ReadCall, SubscribeCall, Begins,
     CallAgain, CallAnswered, CallFails
<1>8. UNCHANGED browserClientVars => UNCHANGED <<shownState, retryVars>>
  BY DEF browserClientVars, retryVars
<1> QED BY <1>1, <1>2, <1>3, <1>4, <1>5, <1>6, <1>7, <1>8, ClosesTyped DEF BrowserClientNext, SocketEvent

LEMMA FlagsTyped ==
  ASSUME beating \in BOOLEAN, wanted \in BOOLEAN, [BrowserClientNext]_browserClientVars
  PROVE  beating' \in BOOLEAN /\ wanted' \in BOOLEAN
<1>1. ASSUME NEW s, RejectionRuns(s) \/ SocketEvent(s)
      PROVE  (UNCHANGED beating \/ beating' = FALSE \/ beating' = TRUE) /\ UNCHANGED wanted
  BY <1>1 DEF RejectionRuns, SocketEvent, Opens, Authenticated, StepFails, Succeeds, LinkLost, OpeningFails, CloseEvent, HandleClose
<1>2. ASSUME UserConnects \/ TimerFires \/ Stale \/ ClientDisconnect \/ SetEnvironment \/ UNCHANGED browserClientVars
      PROVE  (UNCHANGED beating \/ beating' = FALSE) /\ (UNCHANGED wanted \/ wanted' = FALSE)
  BY <1>2 DEF UserConnects, TimerFires, Stale, HandleClose, ClientDisconnect, SetEnvironment, Drops, browserClientVars
<1>3. ASSUME NEW c, ApiCall(c) PROVE UNCHANGED beating /\ (UNCHANGED wanted \/ wanted' = TRUE)
  BY <1>3 DEF ApiCall, QueryCall, BuyOrder, SellOrder, PositionCall, ReadCall, SubscribeCall, Begins,
     CallAgain, CallAnswered, CallFails
<1> QED BY <1>1, <1>2, <1>3 DEF BrowserClientNext

(* A request is asked over this.ws, which is then open.                    *)
LEMMA CallsKept ==
  ASSUME ReconnectInv, ws \in {0} \cup Made, CallsTyped, [BrowserClientNext]_browserClientVars
  PROVE  CallsTyped'
<1>0. Made \subseteq Made' /\ DOMAIN NotAsked = CallFields /\ NotAsked.at = "none"
  BY SocketsGrow DEF NotAsked, CallFields
<1>1. ASSUME NEW c \in ApiCalls, NEW k, apiCall' = [apiCall EXCEPT ![c] = k],
             DOMAIN k = CallFields, k.at = "asked" => k.over \in Made
      PROVE  CallsTyped'
  BY <1>0, <1>1 DEF CallsTyped
<1>2. ASSUME NEW c \in ApiCalls, NEW k, DOMAIN k = CallFields, k.at # "asked", Asks(c, k) PROVE CallsTyped'
  <2>1. Open(ws) => ws \in Made
    BY OpenIsMade DEF Open, Made
  <2> DEFINE over == [k EXCEPT !.at = "asked", !.over = ws]
  <2> DEFINE again == [k EXCEPT !.at = "backoff", !.retries = @ + 1]
  <2>2. /\ DOMAIN over = CallFields /\ over.at = "asked" /\ over.over = ws
        /\ DOMAIN again = CallFields /\ again.at = "backoff"
    BY <1>2 DEF CallFields
  <2>3. \/ apiCall' = [apiCall EXCEPT ![c] = over] /\ Open(ws)
        \/ apiCall' = [apiCall EXCEPT ![c] = again]
        \/ apiCall' = [apiCall EXCEPT ![c] = NotAsked]
    BY <1>2 DEF Asks
  <2> HIDE DEF over, again
  <2> QED BY <1>0, <1>1, <2>1, <2>2, <2>3
<1>3. ASSUME NEW c \in ApiCalls, NEW what, Begins(c, what) PROVE CallsTyped'
  <2> DEFINE k == [NotAsked EXCEPT !.what = what]
  <2>1. DOMAIN k = CallFields /\ k.at = "none"
    BY DEF NotAsked, CallFields
  <2>2. Asks(c, k)
    BY <1>3 DEF Begins
  <2> HIDE DEF k
  <2> QED BY <1>2, <2>1, <2>2
<1>4. ASSUME NEW c \in ApiCalls, CallAgain(c) PROVE CallsTyped'
  BY <1>2, <1>4 DEF CallAgain, CallsTyped
<1>5. ASSUME NEW c \in ApiCalls, CallAnswered(c) PROVE CallsTyped'
  BY <1>0, <1>1, <1>5 DEF CallAnswered
<1>6. ASSUME NEW c \in ApiCalls, CallFails(c) PROVE CallsTyped'
  <2>1. DOMAIN apiCall' = ApiCalls /\ \A d \in ApiCalls : d # c => apiCall'[d] = apiCall[d]
    BY <1>6 DEF CallFails, CallsTyped
  <2>2. apiCall'[c] = NotAsked \/ \E n : apiCall'[c] = [apiCall[c] EXCEPT !.at = "backoff", !.retries = n]
    BY <1>6 DEF CallFails, CallsTyped
  <2>3. DOMAIN apiCall'[c] = CallFields /\ apiCall'[c].at # "asked"
    BY <1>0, <2>2 DEF CallsTyped, CallFields
  <2> QED BY <1>0, <2>1, <2>3 DEF CallsTyped
<1>7. ASSUME NEW c \in ApiCalls, ApiCall(c) PROVE CallsTyped'
  BY <1>3, <1>4, <1>5, <1>6, <1>7 DEF ApiCall, QueryCall, BuyOrder, SellOrder, PositionCall, ReadCall, SubscribeCall
<1>8. CASE ClientDisconnect \/ SetEnvironment
  <2>1. apiCall' = [c \in ApiCalls |-> IF apiCall[c].at = "asked" THEN NotAsked ELSE apiCall[c]]
    BY <1>8 DEF ClientDisconnect, SetEnvironment, Drops
  <2> QED BY <1>0, <2>1 DEF CallsTyped
<1>9. ASSUME UNCHANGED apiCall PROVE CallsTyped'
  BY <1>0, <1>9 DEF CallsTyped
<1>10. ASSUME NEW s, RejectionRuns(s) \/ SocketEvent(s) PROVE UNCHANGED apiCall
  BY <1>10 DEF RejectionRuns, SocketEvent, Opens, Authenticated, StepFails, Succeeds, LinkLost, OpeningFails, CloseEvent
<1>11. UserConnects \/ TimerFires \/ Stale \/ UNCHANGED browserClientVars => UNCHANGED apiCall
  BY DEF UserConnects, TimerFires, Stale, browserClientVars
<1> QED BY <1>7, <1>8, <1>9, <1>10, <1>11 DEF BrowserClientNext

(* What the exchange sends, it sends over sockets there are.               *)
LEMMA FedKept ==
  ASSUME ReconnectInv, ws \in {0} \cup Made, CallsTyped, fed \subseteq Made, [BrowserClientNext]_browserClientVars
  PROVE  fed' \subseteq Made'
<1>0. Made \subseteq Made' /\ (Open(ws) => ws \in Made)
  BY SocketsGrow, OpenIsMade DEF Open, Made
<1>1. ASSUME NEW s, RejectionRuns(s) \/ SocketEvent(s) PROVE fed' \subseteq Made
  <2>1. fed' = fed \/ fed' = fed \ {s} \/ (Open(ws) /\ fed' = fed \cup {ws})
    BY <1>1 DEF RejectionRuns, SocketEvent, Opens, Authenticated, StepFails, Succeeds, LinkLost, OpeningFails, CloseEvent
  <2> QED BY <1>0, <2>1
<1>2. UserConnects \/ TimerFires \/ Stale \/ ClientDisconnect \/ SetEnvironment \/ UNCHANGED browserClientVars
      => fed' \subseteq fed
  BY DEF UserConnects, TimerFires, Stale, ClientDisconnect, SetEnvironment, Drops, browserClientVars
<1>3. ASSUME NEW c \in ApiCalls, ApiCall(c) PROVE fed' \subseteq Made
  <2>1. fed' = fed \/ (apiCall[c].at = "asked" /\ fed' = fed \cup {apiCall[c].over})
    BY <1>3 DEF ApiCall, QueryCall, BuyOrder, SellOrder, PositionCall, ReadCall, SubscribeCall, Begins,
       CallAgain, CallAnswered, CallFails
  <2> QED BY <2>1 DEF CallsTyped
<1> QED BY <1>0, <1>1, <1>2, <1>3 DEF BrowserClientNext

(* The types hold, with every socket that is used one that was made: this. *)
(* ws, the sockets that feed the channel, and those requests wait on.      *)
THEOREM BrowserClientTypeCorrect == BrowserClientSpec => []BrowserClientTypeOK
<1> DEFINE Inv == ReconnectInv /\ CallsTyped /\ BrowserClientTypeOK
<1>1. BrowserClientInit => Inv
  <2> SUFFICES ASSUME BrowserClientInit PROVE BrowserClientTypeOK /\ CallsTyped
    BY ReconnectBegins
  <2>1. BrowserClientTypeOK
    <3>1. 0 \in 0..MaxReconnects
      BY BrowserClientAssumption
    <3>2. /\ ws = 0 /\ shownState = "Stopped" /\ retrying = FALSE /\ latest = FALSE /\ tries = 0
          /\ beating = FALSE /\ wanted = FALSE /\ fed = {}
      BY DEF BrowserClientInit
    <3>3. {retrying, latest, beating, wanted} \subseteq BOOLEAN /\ ~latest
      BY <3>2
    <3> QED BY <3>1, <3>2, <3>3 DEF BrowserClientTypeOK
  <2>2. CallsTyped
    BY DEF BrowserClientInit, CallsTyped, NotAsked, CallFields
  <2> QED BY <2>1, <2>2
<1>2. Inv /\ [BrowserClientNext]_browserClientVars => Inv'
  <2> SUFFICES ASSUME Inv, [BrowserClientNext]_browserClientVars PROVE Inv'
    OBVIOUS
  <2>1. RetriesTyped /\ shownState \in ClientStates /\ beating \in BOOLEAN /\ wanted \in BOOLEAN
    BY DEF BrowserClientTypeOK, RetriesTyped, ClientStates
  <2>2. ws \in {0} \cup Made /\ fed \subseteq Made
    BY DEF BrowserClientTypeOK
  <2>3. ReconnectInv' /\ CallsTyped' /\ ws' \in {0} \cup Made' /\ fed' \subseteq Made'
    BY <2>2, ReconnectKept, CallsKept, SocketsGrow, FedKept
  <2>4. RetriesTyped' /\ shownState' \in ClientStates
    BY <2>1, ClientMoves
  <2>5. beating' \in BOOLEAN /\ wanted' \in BOOLEAN
    BY <2>1, FlagsTyped
  <2>6. latest' => timeouts' > 0
    BY <2>3 DEF ReconnectInv, TimeoutsInv
  <2> QED BY <2>3, <2>4, <2>5, <2>6 DEF BrowserClientTypeOK, RetriesTyped, ClientStates
<1>3. Inv => BrowserClientTypeOK
  OBVIOUS
<1> QED BY <1>1, <1>2, <1>3, PTL DEF BrowserClientSpec


-----------------------------------------------------------------------------
(* Stop and target behind an entry *)

BracketsSpec == BracketsInit /\ [][BracketsNext]_bracketVars

PlacerFields == {"who", "tries", "round", "mine", "seen", "at"}
EntryStages == {"enter", "entry", "position", "cancelEntry", "limit"}
PairStages == {"checkStop", "target", "checkTarget", "done"}

(* The place in the procedure tells the attempt. *)
PlacerInv ==
  /\ DOMAIN placer = PlacerFields /\ who \in Placers /\ placer.round \in Nat /\ failures \in Nat
  /\ PlacerAt("orders") \/ PlacerAt("positions") \/ PlacerAt("cancel") => who = "advanced" \/ placer.round = 0
  /\ placer.at \in EntryStages => placer.round = 0
  /\ placer.at \in PairStages \cup {"stop", "undo", "look"} => placer.round > 0
  /\ placer.at \in PairStages \cup {"undo"} => who # "advanced"
  /\ PlacerAt("look") => who = "advanced"
  /\ PlacerAt("close") => who # "simple"

(* From the verification of the position on the entry is filled, so that a *)
(* position that is closed stays closed.                                   *)
EntryInv ==
  /\ holding => entryOrder = "filled"
  /\ PlacerAt("enter") => entryOrder = "none"
  /\ \/ placer.round > 0 \/ PlacerAt("limit")
     \/ who # "advanced" /\ (PlacerAt("orders") \/ PlacerAt("positions") \/ PlacerAt("cancel"))
     => entryOrder = "filled"

(* Every attempt that is undone has met a failure; until then the position *)
(* has the stop of this attempt.                                           *)
StopInv ==
  /\ who # "advanced" =>
       /\ placer.at \in PairStages \cup {"stop"} => failures >= placer.round - 1
       /\ PlacerAt("undo") => failures >= placer.round
       /\ (PlacerAt("close") \/ PlacerAt("failed")) /\ placer.round > 0 => failures >= 2
  /\ placer.at \in PairStages /\ holding => Leg("stop", placer.round) \in legs
  /\ who = "advanced" /\ holding /\ placer.round > 0 /\ (\A l \in legs : l.kind # "stop") =>
       /\ PlacerAt("look") \/ PlacerAt("close") => failures >= 1
       /\ PlacerAt("failed") => failures >= 2

BracketInv == PlacerInv /\ EntryInv /\ StopInv

(* A step to another place of the procedure, in the same attempt.          *)
Turns(from, to) ==
  /\ placer.at \in from /\ placer'.at \in to /\ placer'.round = placer.round
  /\ DOMAIN placer' = PlacerFields /\ placer'.who = placer.who
  /\ failures' = failures \/ failures' = failures + 1

LEMMA BracketKept ==
  ASSUME BracketInv, Prepare \/ Attach
  PROVE  BracketInv'
<1>0. DOMAIN placer = PlacerFields
  BY DEF BracketInv, PlacerInv
<1> USE DEF PlacerFields, PlacerAt, Goes, Again, Fault, NoFault, Turns, who
<1>1. CASE EntersMarket
  <2>1. Turns({"enter"}, {"entry", "failed"}) /\ UNCHANGED <<holding, legs>> /\ entryOrder' \in {entryOrder, "open"}
    BY <1>0, <1>1 DEF EntersMarket, Executes, marketVars
  <2>2. ~holding
    BY <2>1 DEF BracketInv, EntryInv
  <2> QED BY <2>1, <2>2 DEF BracketInv, PlacerInv, EntryInv, StopInv, EntryStages, PairStages, Placers
<1>2. CASE VerifyEntry
  <2>1. Turns({"entry"}, {"position", "failed", "entry", "cancelEntry"}) /\ UNCHANGED <<entryOrder, holding, legs>>
    BY <1>0, <1>2 DEF VerifyEntry, marketVars
  <2> QED BY <2>1 DEF BracketInv, PlacerInv, EntryInv, StopInv, EntryStages, PairStages, Placers
<1>3. CASE VerifyPosition
  <2>1. /\ \/ holding /\ Turns({"position"}, {AfterPosition})
           \/ Turns({"position"}, {"position", "failed", "entry", "cancelEntry"})
        /\ UNCHANGED <<entryOrder, holding, legs>>
    BY <1>0, <1>3 DEF VerifyPosition, marketVars
  <2> QED BY <2>1 DEF BracketInv, PlacerInv, EntryInv, StopInv, EntryStages, PairStages, Placers, AfterPosition
<1>4. CASE CancelEntry
  <2>1. Turns({"cancelEntry"}, {"failed"}) /\ UNCHANGED <<holding, legs>> /\ (entryOrder = "filled" => entryOrder' = entryOrder)
    BY <1>0, <1>4 DEF CancelEntry
  <2> QED BY <2>1 DEF BracketInv, PlacerInv, EntryInv, StopInv, EntryStages, PairStages, Placers
<1>5. CASE CleanOrders \/ CleanPositions \/ CleanCancel
  <2>1. /\ Turns({"orders", "positions", "cancel"}, {"positions", "cancel", AfterClean})
        /\ UNCHANGED <<entryOrder, holding>>
    <3>1. CASE CleanOrders
      BY <1>0, <3>1 DEF CleanOrders, CleanEnds, marketVars
    <3>2. CASE CleanPositions
      BY <1>0, <3>2 DEF CleanPositions, CleanEnds, marketVars
    <3>3. CASE CleanCancel
      BY <1>0, <3>3 DEF CleanCancel, CleanEnds, marketVars
    <3> QED BY <1>5, <3>1, <3>2, <3>3
  <2> QED BY <2>1 DEF BracketInv, PlacerInv, EntryInv, StopInv, EntryStages, PairStages, Placers, AfterClean
<1>6. CASE CheckLimit
  <2>1. /\ \/ /\ placer.at = "limit" /\ placer'.at = (IF placer.who = "advanced" THEN "orders" ELSE "stop")
              /\ placer'.round = 1 /\ DOMAIN placer' = PlacerFields /\ placer'.who = placer.who
              /\ failures' = failures \/ failures' = failures + 1
           \/ Turns({"limit"}, {IF placer.who = "razor" THEN "close" ELSE "failed"})
        /\ UNCHANGED <<entryOrder, holding, legs>>
    BY <1>0, <1>6 DEF CheckLimit, marketVars
  <2> QED BY <2>1 DEF BracketInv, PlacerInv, EntryInv, StopInv, EntryStages, PairStages, Placers
<1>7. CASE PlaceStop
  <2> DEFINE stop == Leg("stop", placer.round)
  <2>1. /\ UNCHANGED <<entryOrder, holding>> /\ legs \subseteq legs'
        /\ \/ stop \in legs' /\ Turns({"stop"}, {CASE placer.who = "simple" -> "checkStop"
                                                   [] placer.who = "razor" -> "target" [] OTHER -> "look"})
           \/ Turns({"stop"}, {IF placer.who = "advanced" THEN "look" ELSE "undo"}) /\ failures' = failures + 1
    BY <1>0, <1>7 DEF PlaceStop, Executes
  <2>2. stop.kind = "stop"
    BY DEF Leg
  <2> HIDE DEF stop
  <2> QED BY <2>1, <2>2 DEF BracketInv, PlacerInv, EntryInv, StopInv, EntryStages, PairStages, Placers, stop
<1>8. CASE CheckPlaced("checkStop", "stop", "target") \/ CheckPlaced("checkTarget", "target", "done")
  <2>1. /\ UNCHANGED <<entryOrder, holding, legs>>
        /\ \/ Turns({"checkStop", "checkTarget"}, {"target", "done"})
           \/ Turns({"checkStop", "checkTarget"}, {"undo"}) /\ failures' = failures + 1
    BY <1>0, <1>8 DEF CheckPlaced, marketVars
  <2> QED BY <2>1 DEF BracketInv, PlacerInv, EntryInv, StopInv, EntryStages, PairStages, Placers
<1>9. CASE PlaceTarget
  <2>1. /\ UNCHANGED <<entryOrder, holding>> /\ legs \subseteq legs'
        /\ \/ Turns({"target"}, {"checkTarget", "done"})
           \/ Turns({"target"}, {"undo"}) /\ failures' = failures + 1
    BY <1>0, <1>9 DEF PlaceTarget, Executes
  <2> QED BY <2>1 DEF BracketInv, PlacerInv, EntryInv, StopInv, EntryStages, PairStages, Placers
<1>10. CASE Undo
  <2>1. CASE NextRound /\ UNCHANGED <<entryOrder, holding, legs, failures>>
    <3>1. \/ /\ placer'.at = "stop" /\ placer'.round = placer.round + 1
             /\ DOMAIN placer' = PlacerFields /\ placer'.who = placer.who
          \/ /\ ~(placer.round < BracketTries)
             /\ Turns({"undo"}, {IF placer.who = "razor" THEN "close" ELSE "failed"})
      BY <1>0, <1>10, <2>1 DEF Undo, NextRound
    <3>2. placer.at = "undo" /\ BracketTries \in Nat /\ BracketTries > 1
      BY <1>10, BracketsAssumption DEF Undo
    <3> QED BY <2>1, <3>1, <3>2 DEF BracketInv, PlacerInv, EntryInv, StopInv, EntryStages, PairStages, Placers
  <2>2. CASE ~(NextRound /\ UNCHANGED <<entryOrder, holding, legs, failures>>)
    <3>1. Turns({"undo"}, {"undo"}) /\ UNCHANGED <<entryOrder, holding>>
      BY <1>0, <1>10, <2>2 DEF Undo
    <3> QED BY <3>1 DEF BracketInv, PlacerInv, EntryInv, StopInv, EntryStages, PairStages, Placers
  <2> QED BY <2>1, <2>2
<1>11. CASE LookForPosition
  <2>1. /\ UNCHANGED <<entryOrder, holding, legs>>
        /\ \/ holding /\ Turns({"look"}, {"close"})
           \/ ~holding /\ Turns({"look"}, {"failed"})
           \/ Turns({"look"}, {"failed"}) /\ failures' = failures + 1
    BY <1>0, <1>11 DEF LookForPosition, marketVars
  <2> QED BY <2>1 DEF BracketInv, PlacerInv, EntryInv, StopInv, EntryStages, PairStages, Placers
<1>12. CASE EmergencyClose
  <2>1. /\ UNCHANGED <<entryOrder, legs>> /\ Turns({"close"}, {"failed"})
        /\ \/ holding' = FALSE
           \/ holding' = holding /\ failures' = failures + 1
    BY <1>0, <1>12 DEF EmergencyClose, Executes
  <2> QED BY <2>1 DEF BracketInv, PlacerInv, EntryInv, StopInv, EntryStages, PairStages, Placers
<1> QED BY <1>1, <1>2, <1>3, <1>4, <1>5, <1>6, <1>7, <1>8, <1>9, <1>10, <1>11, <1>12 DEF Prepare, Attach

(* The exchange and the user: what they close stays closed.                *)
LEMMA MarketKept ==
  ASSUME BracketInv, EntryFills \/ EntryDies \/ ClosedElsewhere \/ UNCHANGED bracketVars \/ \E l \in legs : LegExecuted(l)
  PROVE  BracketInv'
<1>1. CASE EntryFills
  <2>1. ~holding /\ entryOrder = "open"
    BY <1>1 DEF BracketInv, EntryInv, EntryFills
  <2> QED BY <1>1, <2>1 DEF EntryFills, BracketInv, PlacerInv, EntryInv, StopInv, PlacerAt, who, PairStages
<1>2. CASE EntryDies \/ ClosedElsewhere \/ UNCHANGED bracketVars
  BY <1>2 DEF EntryDies, ClosedElsewhere, bracketVars, BracketInv, PlacerInv, EntryInv, StopInv, PlacerAt, who
<1>3. ASSUME NEW l \in legs, LegExecuted(l) PROVE BracketInv'
  BY <1>3 DEF LegExecuted, BracketInv, PlacerInv, EntryInv, StopInv, PlacerAt, who
<1> QED BY <1>1, <1>2, <1>3

LEMMA BracketBegins == BracketsInit => BracketInv
<1> SUFFICES ASSUME BracketsInit PROVE BracketInv
  OBVIOUS
<1>1. PICK w \in Placers :
        /\ placer = [who |-> w, tries |-> 0, round |-> 0, mine |-> {}, seen |-> {},
                     at |-> CASE w = "razor" -> "enter" [] w = "simple" -> "entry" [] OTHER -> "orders"]
        /\ entryOrder \in IF w = "razor" THEN {"none"} ELSE {"open", "filled", "cancelled"}
  BY DEF BracketsInit
<1>2. DOMAIN placer = PlacerFields /\ placer.who = w /\ placer.round = 0
      /\ placer.at = CASE w = "razor" -> "enter" [] w = "simple" -> "entry" [] OTHER -> "orders"
  BY <1>1 DEF PlacerFields
<1>3. /\ failures = 0 /\ (holding => entryOrder = "filled") /\ w \in {"simple", "advanced", "razor"}
      /\ placer.at = "enter" => entryOrder = "none"
  BY <1>1, <1>2 DEF BracketsInit, Placers
<1>4. placer.at \in {"enter", "entry", "orders"} /\ (placer.at = "orders" => w = "advanced")
  BY <1>2, <1>3
<1> QED BY <1>2, <1>3, <1>4 DEF BracketInv, PlacerInv, EntryInv, StopInv, EntryStages, PairStages, Placers, PlacerAt, who

(* A procedure that is over, after at most one failed request, leaves no   *)
(* open position without a stop: a pair that fails is placed again, and    *)
(* what cannot be protected is closed (attachBrackets,                     *)
(* attachInitialBracket, executeTrade).                                    *)
THEOREM NeverEndsBare == BracketsSpec => []EndsProtected
<1>1. BracketsInit => BracketInv
  BY BracketBegins
<1>2. BracketInv /\ [BracketsNext]_bracketVars => BracketInv'
  BY BracketKept, MarketKept DEF BracketsNext
<1>3. BracketInv => EndsProtected
  <2>1. Leg("stop", placer.round).kind = "stop"
    BY DEF Leg
  <2> QED BY <2>1 DEF BracketInv, PlacerInv, StopInv, EndsProtected, PairStages, PlacerAt
<1> QED BY <1>1, <1>2, <1>3, PTL DEF BracketsSpec

(* The types.  An order that rests, or is known, is of an earlier trade or *)
(* of an attempt there has been.                                           *)
BracketIds ==
  {Leg("old", n) : n \in Leftovers} \cup {Leg(k, n) : k \in {"stop", "target"}, n \in 1..BracketTries}

(* What a step of the procedure leaves as it must be.                      *)
PlacerGoesOn ==
  /\ placer'.at \in Stages /\ placer'.who = placer.who /\ placer'.round \in 0..BracketTries
  /\ placer'.mine \cup placer'.seen \subseteq BracketIds

LEMMA PlacerStep ==
  ASSUME BracketInv, BracketsTypeOK, Prepare \/ Attach
  PROVE  PlacerGoesOn /\ legs' \subseteq BracketIds
<1> DEFINE M == placer.mine \cup placer.seen \cup legs
<1>0. /\ DOMAIN placer = PlacerFields /\ BracketTries \in Nat /\ BracketTries > 1 /\ M \subseteq BracketIds
      /\ placer.round \in 0..BracketTries /\ placer.at \in Stages
  BY BracketsAssumption DEF BracketInv, PlacerInv, BracketsTypeOK, BracketIds
<1>l. placer.at \in PairStages \cup {"stop"} =>
        Leg("stop", placer.round) \in BracketIds /\ Leg("target", placer.round) \in BracketIds
  <2>1. placer.at \in PairStages \cup {"stop"} => placer.round \in 1..BracketTries
    BY <1>0 DEF BracketInv, PlacerInv
  <2> QED BY <2>1 DEF BracketIds
<1>m. Triggers \subseteq legs
  BY DEF Triggers
<1> USE DEF PlacerFields, PlacerAt, Goes, Again, PlacerGoesOn, Stages, PairStages
<1>1. CASE EntersMarket \/ VerifyEntry \/ VerifyPosition \/ CancelEntry
  <2>1. /\ placer'.at \in Stages /\ UNCHANGED legs
        /\ placer'.who = placer.who /\ placer'.round = placer.round
        /\ placer'.mine = placer.mine /\ placer'.seen = placer.seen
    <3>1. CASE EntersMarket
      BY <1>0, <3>1 DEF EntersMarket, Executes, marketVars
    <3>2. CASE VerifyEntry
      BY <1>0, <3>2 DEF VerifyEntry, marketVars
    <3>3. CASE VerifyPosition
      BY <1>0, <3>3 DEF VerifyPosition, marketVars, AfterPosition
    <3>4. CASE CancelEntry
      BY <1>0, <3>4 DEF CancelEntry
    <3> QED BY <1>1, <3>1, <3>2, <3>3, <3>4
  <2> QED BY <1>0, <2>1
<1>2. CASE CleanOrders \/ CleanPositions \/ CleanCancel
  <2>1. /\ placer'.at \in Stages /\ placer'.who = placer.who /\ placer'.round = placer.round
        /\ placer'.mine = placer.mine /\ placer'.seen \subseteq M /\ legs' \subseteq legs
    <3>1. CASE CleanOrders
      BY <1>0, <1>m, <3>1 DEF CleanOrders, CleanEnds, AfterClean, marketVars
    <3>2. CASE CleanPositions
      <4>1. UNCHANGED legs /\ Oldest(placer.seen) \subseteq placer.seen
        BY <3>2 DEF CleanPositions, marketVars, Oldest
      <4>2. \/ CleanEnds
            \/ \E S \in {placer.seen, Oldest(placer.seen), {}} : placer' = [placer EXCEPT !.at = "cancel", !.seen = S]
        BY <3>2 DEF CleanPositions
      <4>3. CASE CleanEnds
        BY <1>0, <4>1, <4>3 DEF CleanEnds, AfterClean
      <4>4. ASSUME NEW S \in {placer.seen, Oldest(placer.seen), {}},
                   placer' = [placer EXCEPT !.at = "cancel", !.seen = S]
            PROVE  /\ placer'.at = "cancel" /\ placer'.who = placer.who /\ placer'.round = placer.round
                   /\ placer'.mine = placer.mine /\ placer'.seen \subseteq placer.seen
        BY <1>0, <4>1, <4>4
      <4> QED BY <4>1, <4>2, <4>3, <4>4
    <3>3. CASE CleanCancel
      BY <1>0, <3>3 DEF CleanCancel, CleanEnds, AfterClean
    <3> QED BY <1>2, <3>1, <3>2, <3>3
  <2> QED BY <1>0, <2>1
<1>3. CASE CheckLimit
  <2>1. /\ placer'.at \in Stages /\ placer'.who = placer.who /\ placer'.round \in {1, placer.round}
        /\ placer'.mine = placer.mine /\ placer'.seen = placer.seen /\ UNCHANGED legs
    BY <1>0, <1>3 DEF CheckLimit, marketVars
  <2> QED BY <1>0, <2>1
<1>4. CASE PlaceStop
  <2>1. /\ placer'.at \in Stages /\ placer'.who = placer.who /\ placer'.round = placer.round
        /\ placer'.mine \subseteq M \cup {Leg("stop", placer.round)} /\ placer'.seen = placer.seen
        /\ legs' \subseteq M \cup {Leg("stop", placer.round)} /\ placer.at = "stop"
    BY <1>0, <1>4 DEF PlaceStop, Executes, Learns
  <2> QED BY <1>0, <1>l, <2>1
<1>5. CASE CheckPlaced("checkStop", "stop", "target") \/ CheckPlaced("checkTarget", "target", "done")
  <2>1. /\ placer'.at \in Stages /\ placer'.who = placer.who /\ placer'.round = placer.round
        /\ placer'.mine \subseteq M \cup {Leg("stop", placer.round), Leg("target", placer.round)}
        /\ placer'.seen = placer.seen /\ UNCHANGED legs /\ placer.at \in PairStages
    <3>1. CASE CheckPlaced("checkStop", "stop", "target")
      <4>1. /\ placer.at = "checkStop" /\ UNCHANGED legs
            /\ \/ placer' = [placer EXCEPT !.at = "target", !.mine = Learns("stop")]
               \/ placer' = [placer EXCEPT !.at = "undo", !.tries = 0]
        BY <3>1 DEF CheckPlaced, marketVars
      <4>2. /\ placer'.at \in {"target", "undo"} /\ placer'.who = placer.who /\ placer'.round = placer.round
            /\ placer'.mine \in {placer.mine, Learns("stop")} /\ placer'.seen = placer.seen
        BY <1>0, <4>1
      <4> QED BY <4>1, <4>2 DEF Learns
    <3>2. CASE CheckPlaced("checkTarget", "target", "done")
      <4>1. /\ placer.at = "checkTarget" /\ UNCHANGED legs
            /\ \/ placer' = [placer EXCEPT !.at = "done", !.mine = Learns("target")]
               \/ placer' = [placer EXCEPT !.at = "undo", !.tries = 0]
        BY <3>2 DEF CheckPlaced, marketVars
      <4>2. /\ placer'.at \in {"done", "undo"} /\ placer'.who = placer.who /\ placer'.round = placer.round
            /\ placer'.mine \in {placer.mine, Learns("target")} /\ placer'.seen = placer.seen
        BY <1>0, <4>1
      <4> QED BY <4>1, <4>2 DEF Learns
    <3> QED BY <1>5, <3>1, <3>2
  <2> QED BY <1>0, <1>l, <2>1
<1>6. CASE PlaceTarget
  <2>1. /\ placer'.at \in Stages /\ placer'.who = placer.who /\ placer'.round = placer.round
        /\ placer'.mine \subseteq M \cup {Leg("target", placer.round)} /\ placer'.seen = placer.seen
        /\ legs' \subseteq M \cup {Leg("target", placer.round)} /\ placer.at = "target"
    BY <1>0, <1>6 DEF PlaceTarget, Executes, Learns
  <2> QED BY <1>0, <1>l, <2>1
<1>7. CASE Undo
  <2>1. /\ placer'.at \in Stages /\ placer'.who = placer.who
        /\ \/ placer'.round = placer.round
           \/ placer.round < BracketTries /\ placer'.round = placer.round + 1
        /\ placer'.mine \subseteq M /\ placer'.seen = placer.seen /\ legs' \subseteq legs
    <3>1. CASE placer.mine = {}
      <4>1. /\ UNCHANGED legs
            /\ \/ /\ placer.round < BracketTries
                  /\ placer' = [placer EXCEPT !.at = "stop", !.tries = 0, !.round = @ + 1]
               \/ \E to \in {"close", "failed"} : placer' = [placer EXCEPT !.at = to, !.tries = 0]
        BY <1>7, <3>1 DEF Undo, NextRound
      <4>2. ASSUME NEW to \in {"close", "failed"}, placer' = [placer EXCEPT !.at = to, !.tries = 0]
            PROVE  /\ placer'.at = to /\ placer'.who = placer.who /\ placer'.round = placer.round
                   /\ placer'.mine = placer.mine /\ placer'.seen = placer.seen
        BY <1>0, <4>2
      <4>3. ASSUME placer' = [placer EXCEPT !.at = "stop", !.tries = 0, !.round = @ + 1]
            PROVE  /\ placer'.at = "stop" /\ placer'.who = placer.who /\ placer'.round = placer.round + 1
                   /\ placer'.mine = placer.mine /\ placer'.seen = placer.seen
        BY <1>0, <4>3
      <4> QED BY <4>1, <4>2, <4>3
    <3>2. CASE placer.mine # {}
      <4>1. /\ legs' \subseteq legs /\ placer.at = "undo"
            /\ \/ placer' = [placer EXCEPT !.tries = @ + 1]
               \/ \E l \in placer.mine : placer' = [placer EXCEPT !.mine = @ \ {l}, !.tries = 0]
        BY <1>7, <3>2 DEF Undo
      <4>2. ASSUME placer' = [placer EXCEPT !.tries = @ + 1]
            PROVE  /\ placer'.at = placer.at /\ placer'.who = placer.who /\ placer'.round = placer.round
                   /\ placer'.mine = placer.mine /\ placer'.seen = placer.seen
        BY <1>0, <4>2
      <4>3. ASSUME NEW l, placer' = [placer EXCEPT !.mine = @ \ {l}, !.tries = 0]
            PROVE  /\ placer'.at = placer.at /\ placer'.who = placer.who /\ placer'.round = placer.round
                   /\ placer'.mine \subseteq placer.mine /\ placer'.seen = placer.seen
        BY <1>0, <4>3
      <4> QED BY <4>1, <4>2, <4>3
    <3> QED BY <3>1, <3>2
  <2> QED BY <1>0, <2>1
<1>8. CASE LookForPosition \/ EmergencyClose
  <2>1. /\ placer'.at \in Stages /\ placer'.who = placer.who /\ placer'.round = placer.round
        /\ placer'.mine = placer.mine /\ placer'.seen = placer.seen /\ UNCHANGED legs
    BY <1>0, <1>8 DEF LookForPosition, EmergencyClose, Executes, marketVars
  <2> QED BY <1>0, <2>1
<1> QED BY <1>1, <1>2, <1>3, <1>4, <1>5, <1>6, <1>7, <1>8 DEF Prepare, Attach

(* Failures are bounded, and nobody but the exchange fills an entry.       *)
LEMMA FailuresBounded ==
  ASSUME failures \in 0..MaxFailures, Prepare \/ Attach
  PROVE  failures' \in 0..MaxFailures
<1>1. failures' = failures \/ Fault
  BY DEF Prepare, Attach, EntersMarket, VerifyEntry, VerifyPosition, CancelEntry, CleanOrders, CleanPositions, CleanCancel,
         CheckLimit, PlaceStop, CheckPlaced, PlaceTarget, Undo, LookForPosition, EmergencyClose, Executes, NoFault
<1>2. MaxFailures \in Nat
  BY BracketsAssumption
<1> QED BY <1>1, <1>2 DEF Fault

LEMMA MarketTyped ==
  ASSUME BracketsTypeOK, Prepare \/ Attach
  PROVE  entryOrder' \in {"none", "open", "filled", "cancelled"} /\ holding' \in BOOLEAN
<1>1. holding' \in {holding, FALSE} /\ entryOrder' \in {entryOrder, "open", "cancelled"}
  <2>1. CASE Prepare
    BY <2>1 DEF Prepare, EntersMarket, VerifyEntry, VerifyPosition, CancelEntry, CleanOrders, CleanPositions,
                CleanCancel, Executes, marketVars
  <2>2. CASE Attach
    BY <2>2 DEF Attach, CheckLimit, PlaceStop, CheckPlaced, PlaceTarget, Undo, LookForPosition, EmergencyClose,
                Executes, marketVars
  <2> QED BY <2>1, <2>2
<1>2. holding \in BOOLEAN /\ entryOrder \in {"none", "open", "filled", "cancelled"}
  BY DEF BracketsTypeOK
<1>3. holding' \in BOOLEAN
  BY <1>1, <1>2
<1> QED BY <1>1, <1>2, <1>3

LEMMA BracketTypesKept ==
  ASSUME BracketInv, BracketsTypeOK, [BracketsNext]_bracketVars
  PROVE  BracketsTypeOK'
<1>1. CASE Prepare \/ Attach
  <2>1. PlacerGoesOn /\ legs' \subseteq BracketIds
    BY <1>1, PlacerStep
  <2>2. failures' \in 0..MaxFailures
    BY <1>1, FailuresBounded DEF BracketsTypeOK
  <2>3. entryOrder' \in {"none", "open", "filled", "cancelled"} /\ holding' \in BOOLEAN
    BY <1>1, MarketTyped
  <2>4. who' \in Placers /\ placer'.at \in Stages /\ placer'.round \in 0..BracketTries
    BY <2>1 DEF PlacerGoesOn, BracketsTypeOK, who
  <2>5. legs' \cup placer'.mine \cup placer'.seen \subseteq BracketIds
    BY <2>1 DEF PlacerGoesOn
  <2> QED BY <2>2, <2>3, <2>4, <2>5 DEF BracketsTypeOK, BracketIds
<1>2. CASE EntryFills \/ EntryDies \/ ClosedElsewhere \/ UNCHANGED bracketVars \/ \E l \in legs : LegExecuted(l)
  <2>1. placer' = placer /\ failures' = failures /\ legs' \subseteq legs
    BY <1>2 DEF EntryFills, EntryDies, ClosedElsewhere, bracketVars, LegExecuted
  <2>2. holding' \in {holding, TRUE, FALSE} /\ entryOrder' \in {entryOrder, "filled", "cancelled"}
    BY <1>2 DEF EntryFills, EntryDies, ClosedElsewhere, bracketVars, LegExecuted
  <2>3. legs' \cup placer'.mine \cup placer'.seen \subseteq BracketIds
    BY <2>1 DEF BracketsTypeOK, BracketIds
  <2>4. holding \in BOOLEAN /\ entryOrder \in {"none", "open", "filled", "cancelled"}
    BY DEF BracketsTypeOK
  <2>5. holding' \in BOOLEAN
    BY <2>2, <2>4
  <2>6. entryOrder' \in {"none", "open", "filled", "cancelled"}
    BY <2>2, <2>4
  <2>7. placer'.at \in Stages /\ who' \in Placers /\ placer'.round \in 0..BracketTries /\ failures' \in 0..MaxFailures
    BY <2>1 DEF BracketsTypeOK, who
  <2> QED BY <2>3, <2>5, <2>6, <2>7 DEF BracketsTypeOK, BracketIds
<1> QED BY <1>1, <1>2 DEF BracketsNext

(* The types hold in every state of the three procedures: no stage that    *)
(* has no code, and no order of an attempt that was not made.              *)
THEOREM BracketsTypeCorrect == BracketsSpec => []BracketsTypeOK
<1>1. BracketsInit => BracketInv /\ BracketsTypeOK
  <2>1. BracketsInit => BracketsTypeOK
    <3> SUFFICES ASSUME BracketsInit PROVE BracketsTypeOK
      OBVIOUS
    <3>1. PICK w \in Placers :
            /\ placer = [who |-> w, tries |-> 0, round |-> 0, mine |-> {}, seen |-> {},
                         at |-> CASE w = "razor" -> "enter" [] w = "simple" -> "entry" [] OTHER -> "orders"]
            /\ entryOrder \in IF w = "razor" THEN {"none"} ELSE {"open", "filled", "cancelled"}
      BY DEF BracketsInit
    <3>2. /\ placer.who = w /\ placer.round = 0 /\ placer.mine = {} /\ placer.seen = {}
          /\ placer.at \in Stages
      BY <3>1 DEF Stages, Placers
    <3>3. /\ legs \subseteq {Leg("old", n) : n \in Leftovers} /\ failures = 0 /\ holding \in BOOLEAN
          /\ entryOrder \in {"none", "open", "filled", "cancelled"}
      BY <3>1 DEF BracketsInit
    <3>4. BracketTries \in Nat /\ MaxFailures \in Nat
      BY BracketsAssumption
    <3> QED BY <3>2, <3>3, <3>4 DEF BracketsTypeOK, who
  <2> QED BY <2>1, BracketBegins
<1>2. BracketInv /\ BracketsTypeOK /\ [BracketsNext]_bracketVars => BracketInv' /\ BracketsTypeOK'
  BY BracketKept, MarketKept, BracketTypesKept DEF BracketsNext
<1> QED BY <1>1, <1>2, PTL DEF BracketsSpec


-----------------------------------------------------------------------------
AnalysisRequest(r) == DOMAIN r = {"for", "bot", "cancelled"} /\ r.for = "analysis" /\ r.cancelled \in BOOLEAN

ViewShape ==
  /\ DOMAIN panel = {"of", "analysis", "errors"}
  /\ views = [v \in ViewPolls |-> views[v]]
  /\ \A v \in ViewPolls : "for" \in DOMAIN views[v] /\ (views[v].for = "analysis" => AnalysisRequest(views[v]))

AsksForShown == \A v \in ViewPolls : views[v].for = "analysis" /\ ~views[v].cancelled => views[v].bot = panel.of

PanelInv == ViewShape /\ AsksForShown

(* A poll goes on with another request, which is not for an analysis. *)
Moves(v, r) == views' = [views EXCEPT ![v] = r]
IsOther(r) == "for" \in DOMAIN r /\ r.for # "analysis"

(* What the property says of a step. *)
ShowsSelected == panel'.analysis # panel.analysis => panel'.analysis \in {Nothing, panel'.of}

-----------------------------------------------------------------------------
(* A poll whose request is none for an analysis goes on to another. *)
LEMMA OthersKeep ==
  ASSUME PanelInv, NEW v \in ViewPolls, NEW r, Moves(v, r), IsOther(r), UNCHANGED panel
  PROVE  PanelInv' /\ ShowsSelected
<1> USE DEF Moves, IsOther
<1>1. /\ views' = [w \in ViewPolls |-> views'[w]]
      /\ \A w \in ViewPolls : views'[w] = IF w = v THEN r ELSE views[w]
  BY DEF PanelInv, ViewShape
<1> QED BY <1>1 DEF PanelInv, ViewShape, AsksForShown, ShowsSelected

LEMMA AnsweredKeeps ==
  ASSUME PanelInv, NEW v \in ViewPolls, Answered(v), UNCHANGED panel
  PROVE  PanelInv' /\ ShowsSelected
<1>1. Moves(v, NoView) /\ IsOther(NoView)
  BY DEF Answered, Moves, IsOther, NoView
<1> QED BY <1>1, OthersKeep

LEMMA UntouchedKeep == ASSUME PanelInv, UNCHANGED <<views, panel>> PROVE PanelInv' /\ ShowsSelected
BY DEF PanelInv, ViewShape, AsksForShown, ShowsSelected, AnalysisRequest

(* The effect is cleaned up: no request is left that would be shown. *)
LEMMA CancelledAll ==
  ASSUME PanelInv
  PROVE  /\ Cancelled(ViewPolls) = [v \in ViewPolls |-> Cancelled(ViewPolls)[v]]
         /\ \A v \in ViewPolls : /\ "for" \in DOMAIN Cancelled(ViewPolls)[v]
                                 /\ Cancelled(ViewPolls)[v].for = "analysis" =>
                                      AnalysisRequest(Cancelled(ViewPolls)[v]) /\ Cancelled(ViewPolls)[v].cancelled
<1> DEFINE all == Cancelled(ViewPolls)
<1>1. /\ all = [v \in ViewPolls |-> all[v]]
      /\ \A v \in ViewPolls : all[v] = IF views[v].for = "analysis" THEN [views[v] EXCEPT !.cancelled = TRUE] ELSE views[v]
  BY DEF Cancelled
<1> HIDE DEF all
<1>2. SUFFICES ASSUME NEW v \in ViewPolls
               PROVE  "for" \in DOMAIN all[v] /\ (all[v].for = "analysis" => AnalysisRequest(all[v]) /\ all[v].cancelled)
  BY <1>1 DEF all
<1>3. CASE views[v].for = "analysis"
  <2>1. all[v] = [views[v] EXCEPT !.cancelled = TRUE] /\ AnalysisRequest(views[v])
    BY <1>1, <1>3 DEF PanelInv, ViewShape
  <2> QED BY <2>1 DEF AnalysisRequest
<1>4. CASE views[v].for # "analysis"
  BY <1>1, <1>4 DEF PanelInv, ViewShape
<1> QED BY <1>3, <1>4

LEMMA ShowPrimaryKeeps == ASSUME PanelInv, ShowPrimary PROVE PanelInv' /\ ShowsSelected
<1>1. views' = Cancelled(ViewPolls)
  BY DEF ShowPrimary
<1>2. DOMAIN panel' = {"of", "analysis", "errors"} /\ panel'.analysis \in {Nothing, panel.analysis}
  BY DEF ShowPrimary
<1>3. ViewShape' /\ AsksForShown'
  BY <1>1, <1>2, CancelledAll DEF ViewShape, AsksForShown
<1> QED BY <1>2, <1>3 DEF PanelInv, ShowsSelected

LEMMA AskAnalysisKeeps ==
  ASSUME PanelInv, NEW v \in ViewPolls, AskAnalysis(v)
  PROVE  PanelInv' /\ ShowsSelected
<1> DEFINE r == [for |-> "analysis", bot |-> panel.of, cancelled |-> FALSE]
<1>1. views' = [views EXCEPT ![v] = r] /\ UNCHANGED panel
  BY DEF AskAnalysis, Sends, shownVars
<1>2. "for" \in DOMAIN r /\ r.for = "analysis" /\ r.bot = panel.of /\ AnalysisRequest(r)
  BY DEF AnalysisRequest
<1> HIDE DEF r
<1>3. /\ views' = [w \in ViewPolls |-> views'[w]]
      /\ \A w \in ViewPolls : views'[w] = IF w = v THEN r ELSE views[w]
  BY <1>1 DEF PanelInv, ViewShape
<1> QED BY <1>1, <1>2, <1>3 DEF PanelInv, ViewShape, AsksForShown, ShowsSelected

(* The answer is put away, and the errors counted with it. *)
LEMMA CountsKeeps ==
  ASSUME PanelInv, NEW v \in ViewPolls, NEW errors, Counts(v, errors),
         DOMAIN panel' = {"of", "analysis", "errors"}, panel'.of = panel.of
  PROVE  PanelInv'
<1> DEFINE base == IF errors = panel.errors THEN views ELSE Cancelled(ViewPolls)
<1>1. /\ base = [w \in ViewPolls |-> base[w]]
      /\ \A w \in ViewPolls : /\ "for" \in DOMAIN base[w]
                              /\ base[w].for = "analysis" => AnalysisRequest(base[w]) /\ (~base[w].cancelled => base[w].bot = panel.of)
  <2>1. CASE errors = panel.errors
    BY <2>1 DEF PanelInv, ViewShape, AsksForShown
  <2>2. CASE errors # panel.errors
    BY <2>2, CancelledAll
  <2> QED BY <2>1, <2>2
<1>2. views' = [base EXCEPT ![v] = NoView]
  BY DEF Counts
<1> HIDE DEF base
<1>3. /\ views' = [w \in ViewPolls |-> views'[w]]
      /\ \A w \in ViewPolls : views'[w] = IF w = v THEN NoView ELSE base[w]
  BY <1>1, <1>2
<1>4. "for" \in DOMAIN NoView /\ NoView.for # "analysis"
  BY DEF NoView
<1> QED BY <1>1, <1>3, <1>4 DEF PanelInv, ViewShape, AsksForShown

LEMMA ReadAnalysisKeeps ==
  ASSUME PanelInv, NEW v \in ViewPolls, ReadAnalysis(v)
  PROVE  PanelInv' /\ ShowsSelected
<1>1. CASE UNCHANGED panel /\ Answered(v)
  BY <1>1, AnsweredKeeps
<1>2. CASE ~views[v].cancelled /\ panel' = [panel EXCEPT !.analysis = views[v].bot, !.errors = 0] /\ Counts(v, 0)
  <2>1. DOMAIN panel' = {"of", "analysis", "errors"} /\ panel'.of = panel.of /\ panel'.analysis = views[v].bot
    BY <1>2 DEF PanelInv, ViewShape
  <2>2. views[v].bot = panel.of
    BY <1>2 DEF PanelInv, AsksForShown, ReadAnalysis, Waiting
  <2>3. PanelInv'
    BY <1>2, <2>1, CountsKeeps
  <2> QED BY <2>1, <2>2, <2>3 DEF ShowsSelected
<1>3. ASSUME NEW analysis \in {panel.analysis, Nothing},
             panel' = [panel EXCEPT !.analysis = analysis, !.errors = @ + 1], Counts(v, panel.errors + 1)
      PROVE  PanelInv' /\ ShowsSelected
  <2>1. DOMAIN panel' = {"of", "analysis", "errors"} /\ panel'.of = panel.of /\ panel'.analysis = analysis
    BY <1>3 DEF PanelInv, ViewShape
  <2>2. PanelInv'
    BY <1>3, <2>1, CountsKeeps
  <2> QED BY <2>1, <2>2 DEF ShowsSelected
<1> QED BY <1>1, <1>2, <1>3 DEF ReadAnalysis

LEMMA TradingKeeps ==
  ASSUME PanelInv, NEW v \in ViewPolls, TradingNext(v)
  PROVE  PanelInv' /\ ShowsSelected
<1>1. UNCHANGED panel
  BY DEF TradingNext, AskPositions, ReadPositions, ReadTicker, ReadOrders, PressClose, PriceForClose, CloseRoute,
         AskStatus, ReadConnection, ReadRows, AskTrade, ReadTrade, PressToggle, SetRow, shownVars
<1>2. ASSUME NEW r, Moves(v, r), IsOther(r) PROVE PanelInv' /\ ShowsSelected
  BY <1>1, <1>2, OthersKeep
<1>3. CASE Answered(v)
  BY <1>1, <1>3, AnsweredKeeps
<1>4. CASE AskPositions(v)
  <2>1. IsOther([for |-> "positions", had |-> card.had, hadStop |-> card.hadStop])
    BY DEF IsOther
  <2> QED BY <1>2, <1>3, <1>4, <2>1 DEF AskPositions, Sends, Moves
<1>5. CASE ReadPositions(v)
  <2>1. IsOther([for |-> "ticker", n |-> held[ClientFor], hadStop |-> views[v].hadStop])
    BY DEF IsOther
  <2> QED BY <1>2, <1>3, <1>5, <2>1 DEF ReadPositions, GoesOn, Moves
<1>6. CASE ReadTicker(v)
  <2>1. IsOther([for |-> "orders", hadStop |-> views[v].hadStop])
    BY DEF IsOther
  <2> QED BY <1>2, <1>3, <1>6, <2>1 DEF ReadTicker, GoesOn, Moves
<1>7. CASE PressClose(v)
  <2>1. IsOther([for |-> "price"])
    BY DEF IsOther
  <2> QED BY <1>2, <1>3, <1>7, <2>1 DEF PressClose, Sends, Moves
<1>8. CASE PriceForClose(v)
  <2>1. IsOther([for |-> "close"])
    BY DEF IsOther
  <2> QED BY <1>2, <1>3, <1>8, <2>1 DEF PriceForClose, GoesOn, Moves
<1>9. CASE AskStatus(v)
  <2>1. IsOther([for |-> "connection"])
    BY DEF IsOther
  <2> QED BY <1>2, <1>3, <1>9, <2>1 DEF AskStatus, Sends, Moves
<1>10. CASE ReadConnection(v)
  <2>1. IsOther([for |-> "rows"])
    BY DEF IsOther
  <2> QED BY <1>2, <1>3, <1>10, <2>1 DEF ReadConnection, GoesOn, Moves
<1>11. CASE AskTrade(v)
  <2>1. IsOther([for |-> "trade"])
    BY DEF IsOther
  <2> QED BY <1>2, <1>3, <1>11, <2>1 DEF AskTrade, Sends, Moves
<1>12. CASE PressToggle(v)
  <2>1. \A bot, to : IsOther([for |-> "set", bot |-> bot, to |-> to])
    BY DEF IsOther
  <2> QED BY <1>2, <1>12, <2>1 DEF PressToggle, Sends, Moves
<1> QED BY <1>3, <1>4, <1>5, <1>6, <1>7, <1>8, <1>9, <1>10, <1>11, <1>12
     DEF TradingNext, ReadOrders, CloseRoute, ReadRows, ReadTrade, SetRow

LEMMA TableKeeps ==
  ASSUME PanelInv, NEW v \in ViewPolls, TableNext(v)
  PROVE  PanelInv' /\ ShowsSelected
<1>1. UNCHANGED panel
  BY DEF TableNext, AskTrades, ReadTrades, PressDelete, DeleteOne, shownVars
<1>2. ASSUME NEW r, Moves(v, r), IsOther(r) PROVE PanelInv' /\ ShowsSelected
  BY <1>1, <1>2, OthersKeep
<1>3. CASE Answered(v)
  BY <1>1, <1>3, AnsweredKeeps
<1>4. IsOther([for |-> "trades", filter |-> table.filter])
  BY DEF IsOther
<1>5. CASE AskTrades(v)
  BY <1>2, <1>4, <1>5 DEF AskTrades, Sends, Moves
<1>6. CASE PressDelete(v)
  <2>1. IsOther([for |-> "delete", left |-> table.ticked, some |-> FALSE])
    BY DEF IsOther
  <2> QED BY <1>2, <1>6, <2>1 DEF PressDelete, Sends, Moves
<1>7. CASE DeleteOne(v)
  <2>1. "for" \in DOMAIN views[v] /\ views[v].for = "delete"
    BY <1>7 DEF DeleteOne, Waiting, PanelInv, ViewShape
  <2>2. ASSUME NEW t, NEW done, GoesOn(v, [views[v] EXCEPT !.left = @ \ {t}, !.some = @ \/ done])
        PROVE  PanelInv' /\ ShowsSelected
    <3> DEFINE r == [views[v] EXCEPT !.left = @ \ {t}, !.some = @ \/ done]
    <3>1. IsOther(r)
      BY <2>1 DEF IsOther
    <3>2. Moves(v, r)
      BY <2>2 DEF GoesOn, Moves
    <3> HIDE DEF r
    <3> QED BY <1>2, <3>1, <3>2
  <2>3. CASE GoesOn(v, [for |-> "trades", filter |-> table.filter])
    BY <1>2, <1>4, <2>3 DEF GoesOn, Moves
  <2> QED BY <1>3, <1>7, <2>2, <2>3 DEF DeleteOne
<1> QED BY <1>3, <1>5, <1>6, <1>7 DEF TableNext, ReadTrades

LEMMA PanelInvStep == PanelInv /\ [DashboardNext]_dashboardVars => PanelInv' /\ ShowsSelected
<1> SUFFICES ASSUME PanelInv, [DashboardNext]_dashboardVars PROVE PanelInv' /\ ShowsSelected
  OBVIOUS
<1>1. CASE UNCHANGED dashboardVars
  BY <1>1, UntouchedKeep DEF dashboardVars, shownVars
<1>2. CASE WorldNext
  BY <1>2, UntouchedKeep
     DEF WorldNext, TradeTurns, StoreLooks, PositionTurns, LinkTurns, RowTurns, WorldTurn, shownVars
<1>3. CASE ReconnectCard \/ ChooseRecorded \/ ChooseActive \/ TickAll
  BY <1>3, UntouchedKeep DEF ReconnectCard, ChooseRecorded, ChooseActive, Chooses, TickAll
<1>4. ASSUME NEW f, FilterTrades(f) \/ TickTrade(f) PROVE PanelInv' /\ ShowsSelected
  BY <1>4, UntouchedKeep DEF FilterTrades, TickTrade
<1> QED BY <1>1, <1>2, <1>3, <1>4, ShowPrimaryKeeps, TradingKeeps, TableKeeps, AskAnalysisKeeps, ReadAnalysisKeeps
     DEF DashboardNext, PanelNext

LEMMA PanelInvInit == DashboardInit => PanelInv
BY DEF DashboardInit, PanelInv, ViewShape, AsksForShown, NoView

(* An analysis that comes to be shown is that of the strategy selected     *)
(* now, however late the answers of earlier selections are (isCancelled in *)
(* use-backend-analysis.ts).                                               *)
THEOREM ShowsAnalysisOfSelected == DashboardSpec => AnalysisOfSelected
<1>1. PanelInv /\ [DashboardNext]_dashboardVars => [ShowsSelected]_panel
  BY PanelInvStep
<1> QED BY <1>1, PanelInvInit, PanelInvStep, PTL DEF DashboardSpec, AnalysisOfSelected, ShowsSelected

-----------------------------------------------------------------------------
(* Sums over a set.  They are folds, defined by recursion on the set: what *)
(* they are for every set follows from a least counterexample.             *)
Picked(s) == CHOOSE x \in s : TRUE
SumStep(v, g, s) == IF s = {} THEN 0 ELSE v[Picked(s)] + g[s \ {Picked(s)}]
IsSum(v, g, S) == g = [s \in SUBSET S |-> SumStep(v, g, s)]

LEMMA LeastNumber ==
  ASSUME NEW T \in SUBSET Nat, T # {}
  PROVE  \E n \in T : \A m \in T : n <= m
<1>1. PICK n \in T : \A m \in T : <<m, n>> \notin OpToRel(<, Nat)
  BY NatLessThanWellFounded, WFMin
<1>2. \A m \in T : ~(m < n)
  BY <1>1 DEF OpToRel
<1> QED BY <1>2

LEMMA PickedOut ==
  ASSUME NEW s, IsFiniteSet(s), s # {}
  PROVE  /\ Picked(s) \in s /\ IsFiniteSet(s \ {Picked(s)})
         /\ Cardinality(s) \in Nat /\ Cardinality(s) > 0 /\ Cardinality(s \ {Picked(s)}) = Cardinality(s) - 1
<1>1. Picked(s) \in s
  BY DEF Picked
<1> QED BY <1>1, FS_CardinalityType, FS_EmptySet, FS_RemoveElement

(* A sum is defined: by recursion up to every size.                        *)
LEMMA SumExists ==
  ASSUME NEW S, IsFiniteSet(S), NEW v
  PROVE  \E g : IsSum(v, g, S)
<1> DEFINE Small(n) == {s \in SUBSET S : Cardinality(s) <= n}
           Upto(g, n) == g = [s \in Small(n) |-> SumStep(v, g, s)]
           Bad == {n \in Nat : ~ \E g : Upto(g, n)}
<1>f. \A s \in SUBSET S : IsFiniteSet(s) /\ Cardinality(s) \in Nat
  BY FS_Subset, FS_CardinalityType
<1>1. Bad = {}
  <2> SUFFICES ASSUME Bad # {} PROVE FALSE
    OBVIOUS
  <2>1. PICK n \in Bad : \A m \in Bad : n <= m
    BY LeastNumber
  <2>2. n # 0
    <3>1. \A s \in Small(0) : s = {}
      BY <1>f, FS_EmptySet
    <3>2. Upto([s \in Small(0) |-> 0], 0)
      BY <3>1 DEF SumStep
    <3>3. \E g : Upto(g, 0)
      BY <3>2
    <3> HIDE DEF Upto
    <3> QED BY <2>1, <3>3
  <2>3. n - 1 \in Nat /\ n - 1 \notin Bad
    <3>1. n \in Nat /\ n - 1 \in Nat /\ ~(n <= n - 1)
      BY <2>1, <2>2
    <3> HIDE DEF Bad
    <3> QED BY <2>1, <3>1
  <2>4. PICK h : Upto(h, n - 1)
    BY <2>3
  <2> DEFINE g == [s \in Small(n) |-> SumStep(v, h, s)]
  <2>5. ASSUME NEW s \in Small(n)
        PROVE  SumStep(v, h, s) = SumStep(v, g, s)
    <3>1. CASE s = {}
      BY <3>1 DEF SumStep
    <3>2. CASE s # {}
      <4> DEFINE t == s \ {Picked(s)}
      <4>1. t \in SUBSET S /\ Cardinality(t) = Cardinality(s) - 1 /\ Cardinality(s) \in Nat
        BY <1>f, <3>2, PickedOut
      <4>2. t \in Small(n - 1) /\ t \in Small(n)
        BY <4>1
      <4>3. h[t] = g[t]
        BY <2>4, <4>2
      <4> QED BY <3>2, <4>3 DEF SumStep
    <3> QED BY <3>1, <3>2
  <2>6. Upto(g, n)
    BY <2>5
  <2> QED BY <2>1, <2>6
<1>2. Small(Cardinality(S)) = SUBSET S
  BY <1>f, FS_Subset
<1>3. PICK g : Upto(g, Cardinality(S))
  BY <1>1, <1>f
<1>4. IsSum(v, g, S)
  BY <1>2, <1>3 DEF IsSum
<1> QED BY <1>4

(* Any element may be taken out first. *)
LEMMA SumWithout ==
  ASSUME NEW S, IsFiniteSet(S), NEW v, NEW g, IsSum(v, g, S), \A x \in S : v[x] \in Int
  PROVE  /\ g[{}] = 0
         /\ \A s \in SUBSET S : g[s] \in Int /\ \A x \in s : g[s] = v[x] + g[s \ {x}]
<1> DEFINE Fine(s) == g[s] \in Int /\ \A x \in s : g[s] = v[x] + g[s \ {x}]
           Bad == {n \in Nat : \E s \in SUBSET S : Cardinality(s) = n /\ ~ Fine(s)}
<1>d. \A s \in SUBSET S : g[s] = SumStep(v, g, s)
  BY DEF IsSum
<1>f. \A s \in SUBSET S : IsFiniteSet(s) /\ Cardinality(s) \in Nat
  BY FS_Subset, FS_CardinalityType
<1>0. g[{}] = 0
  BY <1>d DEF SumStep
<1>1. Bad = {}
  <2> SUFFICES ASSUME Bad # {} PROVE FALSE
    OBVIOUS
  <2>1. PICK n \in Bad : \A m \in Bad : n <= m
    BY LeastNumber
  <2>2. PICK s \in SUBSET S : Cardinality(s) = n /\ ~ Fine(s)
    BY <2>1
  <2>3. s # {}
    BY <1>0, <2>2
  <2> DEFINE p == Picked(s)
  <2>4. p \in s /\ p \in S /\ g[s] = v[p] + g[s \ {p}] /\ v[p] \in Int
    BY <1>d, <2>3, <1>f, <2>2, PickedOut DEF SumStep
  <2>5. ASSUME NEW x \in s PROVE s \ {x} \in SUBSET S /\ Fine(s \ {x})
    <3>1. s \ {x} \in SUBSET S /\ Cardinality(s \ {x}) = n - 1
      BY <1>f, <2>2, FS_RemoveElement
    <3>2. n \in Nat /\ n > 0 /\ n - 1 \in Nat /\ ~(n <= n - 1)
      <4>1. Cardinality(s \ {x}) \in Nat
        BY <1>f, <3>1
      <4> QED BY <2>1, <3>1, <4>1
    <3>3. n - 1 \notin Bad
      <4> HIDE DEF Bad
      <4> QED BY <2>1, <3>2
    <3> HIDE DEF Fine
    <3> QED BY <3>1, <3>2, <3>3
  <2> HIDE DEF p
  <2>6. g[s] \in Int
    BY <2>4, <2>5
  <2>7. ASSUME NEW x \in s PROVE g[s] = v[x] + g[s \ {x}]
    <3>1. CASE x = p
      BY <2>4, <3>1
    <3>2. CASE x # p
      <4>1. x \in s \ {p} /\ p \in s \ {x} /\ (s \ {p}) \ {x} = (s \ {x}) \ {p}
        BY <2>4, <3>2
      <4> DEFINE r == (s \ {p}) \ {x}
      <4>2. g[s \ {p}] = v[x] + g[r]
        BY <2>4, <2>5, <4>1
      <4>3. g[s \ {x}] = v[p] + g[r]
        BY <2>5, <4>1
      <4>4. r \in SUBSET S /\ v[x] \in Int /\ g[s \ {x}] \in Int
        BY <2>5
      <4>5. g[r] \in Int
        <5>1. r = (s \ {x}) \ {p} /\ v[p] + g[r] \in Int
          BY <4>1, <4>3, <4>4
        <5>2. Cardinality(r) \in Nat /\ Cardinality(r) < n
          <6>1. Cardinality(s \ {x}) = n - 1 /\ Cardinality(r) = Cardinality(s \ {x}) - 1
            <7>1. IsFiniteSet(s) /\ IsFiniteSet(s \ {x}) /\ x \in s /\ p \in s \ {x}
              BY <1>f, <2>2, <2>5, <4>1
            <7>2. Cardinality(s \ {x}) = Cardinality(s) - 1
              BY <7>1, FS_RemoveElement
            <7>3. Cardinality((s \ {x}) \ {p}) = Cardinality(s \ {x}) - 1
              BY <7>1, FS_RemoveElement
            <7> QED BY <2>2, <4>1, <7>2, <7>3
          <6>2. n \in Nat /\ Cardinality(r) \in Nat
            BY <1>f, <2>1, <4>4
          <6> QED BY <6>1, <6>2
        <5>3. Cardinality(r) \notin Bad
          <6>1. n \in Nat
            BY <2>1
          <6> HIDE DEF Bad, r
          <6> QED BY <2>1, <5>2, <6>1
        <5> HIDE DEF r
        <5> QED BY <4>4, <5>2, <5>3
      <4> HIDE DEF r
      <4> QED BY <2>4, <4>2, <4>3, <4>4, <4>5
    <3> QED BY <3>1, <3>2
  <2> QED BY <2>2, <2>6, <2>7
<1> HIDE DEF Fine
<1>2. \A s \in SUBSET S : Fine(s)
  BY <1>1, <1>f
<1> QED BY <1>0, <1>2 DEF Fine

(* The sum of the amounts of stops. *)
SumOf(S) == MapThenSumSet(LAMBDA s : s.amount, S)
AmountStep(g, s) == IF s = {} THEN 0 ELSE Picked(s).amount + g[s \ {Picked(s)}]
TheAmount(S) == CHOOSE g : g = [s \in SUBSET S |-> AmountStep(g, s)]

LEMMA AmountIs ==
  ASSUME NEW S
  PROVE  SumOf(S) = TheAmount(S)[S]
BY DEF SumOf, MapThenSumSet, MapThenFoldSet, AmountStep, TheAmount, Picked

LEMMA AmountSum ==
  ASSUME NEW S, IsFiniteSet(S)
  PROVE  IsSum([t \in S |-> t.amount], TheAmount(S), S)
<1> DEFINE v == [t \in S |-> t.amount]
<1>1. ASSUME NEW g, NEW s \in SUBSET S PROVE AmountStep(g, s) = SumStep(v, g, s)
  <2>1. CASE s = {}
    BY <2>1 DEF AmountStep, SumStep
  <2>2. CASE s # {}
    <3>1. Picked(s) \in s
      BY <2>2 DEF Picked
    <3>2. v[Picked(s)] = Picked(s).amount
      BY <3>1
    <3> HIDE DEF v
    <3> QED BY <2>2, <3>2 DEF AmountStep, SumStep
  <2> QED BY <2>1, <2>2
<1> HIDE DEF v
<1>2. ASSUME NEW g PROVE IsSum(v, g, S) <=> g = [s \in SUBSET S |-> AmountStep(g, s)]
  <2>1. [s \in SUBSET S |-> AmountStep(g, s)] = [s \in SUBSET S |-> SumStep(v, g, s)]
    BY <1>1
  <2> QED BY <2>1 DEF IsSum
<1>3. \E g : IsSum(v, g, S)
  BY SumExists
<1>4. \E g : g = [s \in SUBSET S |-> AmountStep(g, s)]
  BY <1>2, <1>3
<1>5. TheAmount(S) = [s \in SUBSET S |-> AmountStep(TheAmount(S), s)]
  BY <1>4 DEF TheAmount
<1> QED BY <1>2, <1>5 DEF v

(* Of positive amounts the sum is at least their number. *)
LEMMA SumAtLeast ==
  ASSUME NEW S, IsFiniteSet(S), \A x \in S : x.amount \in Nat /\ x.amount > 0
  PROVE  SumOf(S) \in Nat /\ Cardinality(S) <= SumOf(S)
<1> DEFINE g == TheAmount(S)
           Low(s) == g[s] \in Nat /\ Cardinality(s) <= g[s]
           Bad == {n \in Nat : \E s \in SUBSET S : Cardinality(s) = n /\ ~ Low(s)}
           v == [t \in S |-> t.amount]
<1>d. \A s \in SUBSET S : g[s] = SumStep(v, g, s)
  BY AmountSum DEF IsSum
<1>f. \A s \in SUBSET S : IsFiniteSet(s) /\ Cardinality(s) \in Nat
  BY FS_Subset, FS_CardinalityType
<1> HIDE DEF g
<1>1. Bad = {}
  <2> SUFFICES ASSUME Bad # {} PROVE FALSE
    OBVIOUS
  <2>1. PICK n \in Bad : \A m \in Bad : n <= m
    BY LeastNumber
  <2>2. PICK s \in SUBSET S : Cardinality(s) = n /\ ~ Low(s)
    BY <2>1
  <2>3. s # {}
    <3>1. g[{}] = 0 /\ Cardinality({}) = 0
      BY <1>d, FS_EmptySet DEF SumStep
    <3> QED BY <2>2, <3>1
  <2> DEFINE t == s \ {Picked(s)}
  <2>4. Picked(s) \in S /\ t \in SUBSET S /\ Cardinality(t) = n - 1 /\ n > 0 /\ n \in Nat
    BY <1>f, <2>2, <2>3, PickedOut
  <2>5. Low(t)
    BY <2>1, <2>4, <1>f
  <2>6. g[s] = v[Picked(s)] + g[t] /\ v[Picked(s)] = Picked(s).amount
    BY <2>3, <2>4, <1>d DEF SumStep
  <2> QED BY <2>2, <2>4, <2>5, <2>6
<1>2. Low(S)
  BY <1>1, <1>f
<1> QED BY <1>2, AmountIs DEF g

(* Sums over sets whose elements have the same values one by one.          *)
LEMMA SumSame ==
  ASSUME NEW A, IsFiniteSet(A), NEW v, NEW g, IsSum(v, g, A), \A x \in A : v[x] \in Int,
         NEW B, IsFiniteSet(B), NEW w, NEW h, IsSum(w, h, B), \A x \in B : w[x] \in Int,
         NEW f \in Bijection(A, B), \A x \in A : v[x] = w[f[x]]
  PROVE  g[A] = h[B]
<1> DEFINE Image(s) == {f[x] : x \in s}
           Bad == {n \in Nat : \E s \in SUBSET A : Cardinality(s) = n /\ g[s] # h[Image(s)]}
<1>0. /\ f \in [A -> B] /\ (\A x, y \in A : f[x] = f[y] => x = y) /\ (\A b \in B : \E x \in A : f[x] = b)
  BY DEF Bijection, Injection, Surjection, IsInjective
<1>1. \A s \in SUBSET A : IsFiniteSet(s) /\ Cardinality(s) \in Nat /\ Image(s) \in SUBSET B
  BY <1>0, FS_Subset, FS_CardinalityType
<1>2. g[{}] = 0 /\ \A s \in SUBSET A : \A x \in s : g[s] = v[x] + g[s \ {x}]
  BY SumWithout
<1>3. h[{}] = 0 /\ \A s \in SUBSET B : \A x \in s : h[s] = w[x] + h[s \ {x}]
  BY SumWithout
<1>4. Bad = {}
  <2> SUFFICES ASSUME Bad # {} PROVE FALSE
    OBVIOUS
  <2>1. PICK n \in Bad : \A m \in Bad : n <= m
    BY LeastNumber
  <2>2. PICK s \in SUBSET A : Cardinality(s) = n /\ g[s] # h[Image(s)]
    BY <2>1
  <2>3. s # {}
    <3>1. Image({}) = {}
      OBVIOUS
    <3> QED BY <1>2, <1>3, <2>2, <3>1
  <2>4. PICK x \in s : TRUE
    BY <2>3
  <2> DEFINE t == s \ {x}
  <2>5. x \in A /\ t \in SUBSET A /\ Cardinality(t) = n - 1 /\ n - 1 \in Nat /\ ~(n <= n - 1)
    <3>1. t \in SUBSET A /\ Cardinality(t) = n - 1
      BY <1>1, <2>2, FS_RemoveElement
    <3> QED BY <1>1, <2>1, <3>1
  <2>6. g[t] = h[Image(t)]
    <3>1. n - 1 \notin Bad
      <4> HIDE DEF Bad, t
      <4> QED BY <2>1, <2>5
    <3> HIDE DEF Image, t
    <3> QED BY <2>5, <3>1
  <2>7. f[x] \in Image(s) /\ Image(t) = Image(s) \ {f[x]} /\ Image(s) \in SUBSET B
    BY <1>0, <1>1
  <2>8. g[s] = v[x] + g[t] /\ h[Image(s)] = w[f[x]] + h[Image(t)]
    <3>1. g[s] = v[x] + g[t]
      BY <1>2
    <3>2. h[Image(s)] = w[f[x]] + h[Image(s) \ {f[x]}]
      <4> HIDE DEF Image
      <4> QED BY <1>3, <2>7
    <3> QED BY <2>7, <3>1, <3>2
  <2> QED BY <2>2, <2>5, <2>6, <2>8
<1>5. Image(A) = B
  BY <1>0
<1> QED BY <1>1, <1>4, <1>5

(* The sizes of the parts of a set add up to its own.                      *)
LEMMA SumOfParts ==
  ASSUME NEW U, IsFiniteSet(U), NEW F, IsFiniteSet(F), NEW part,
         \A u \in U : part[u] \in SUBSET F,
         \A u, w \in U : u # w => part[u] \cap part[w] = {},
         NEW v, \A u \in U : v[u] = Cardinality(part[u]),
         NEW g, IsSum(v, g, U)
  PROVE  g[U] = Cardinality(UNION {part[u] : u \in U})
<1> DEFINE All(s) == UNION {part[u] : u \in s}
           Bad == {n \in Nat : \E s \in SUBSET U : Cardinality(s) = n /\ g[s] # Cardinality(All(s))}
<1>0. \A u \in U : IsFiniteSet(part[u]) /\ v[u] \in Int
  BY FS_Subset, FS_CardinalityType
<1>1. \A s \in SUBSET U : IsFiniteSet(s) /\ Cardinality(s) \in Nat /\ IsFiniteSet(All(s)) /\ Cardinality(All(s)) \in Nat
  <2> TAKE s \in SUBSET U
  <2>1. All(s) \in SUBSET F
    OBVIOUS
  <2> HIDE DEF All
  <2> QED BY <2>1, FS_Subset, FS_CardinalityType
<1>2. g[{}] = 0 /\ \A s \in SUBSET U : \A x \in s : g[s] = v[x] + g[s \ {x}]
  <2>1. \A u \in U : v[u] \in Int
    BY <1>0
  <2> QED BY <2>1, SumWithout
<1>3. Bad = {}
  <2> SUFFICES ASSUME Bad # {} PROVE FALSE
    OBVIOUS
  <2>1. PICK n \in Bad : \A m \in Bad : n <= m
    BY LeastNumber
  <2>2. PICK s \in SUBSET U : Cardinality(s) = n /\ g[s] # Cardinality(All(s))
    BY <2>1
  <2>3. s # {}
    <3>1. All({}) = {}
      OBVIOUS
    <3> QED BY <1>2, <2>2, <3>1, FS_EmptySet
  <2>4. PICK x \in s : TRUE
    BY <2>3
  <2> DEFINE t == s \ {x}
  <2>5. x \in U /\ t \in SUBSET U /\ Cardinality(t) = n - 1 /\ n - 1 \in Nat /\ ~(n <= n - 1)
    <3>1. t \in SUBSET U /\ Cardinality(t) = n - 1
      BY <1>1, <2>2, FS_RemoveElement
    <3>2. Cardinality(t) \in Nat /\ n \in Nat
      BY <1>1, <2>1, <3>1
    <3> HIDE DEF Bad
    <3> QED BY <3>1, <3>2
  <2>6. g[t] = Cardinality(All(t))
    <3>1. n - 1 \notin Bad
      <4> HIDE DEF Bad, t
      <4> QED BY <2>1, <2>5
    <3> HIDE DEF All, t
    <3> QED BY <2>5, <3>1
  <2>7. All(s) = part[x] \cup All(t) /\ part[x] \cap All(t) = {}
    BY <2>4, <2>5
  <2> HIDE DEF All
  <2>8. Cardinality(All(s)) = Cardinality(part[x]) + Cardinality(All(t))
    <3>1. Cardinality(part[x] \cup All(t)) = Cardinality(part[x]) + Cardinality(All(t)) - Cardinality(part[x] \cap All(t))
      BY <1>0, <1>1, <2>5, FS_Union
    <3>2. Cardinality(part[x]) \in Int /\ Cardinality(All(t)) \in Int /\ Cardinality(part[x] \cap All(t)) = 0
      <4>1. Cardinality(part[x]) \in Int
        BY <1>0, <2>5, FS_CardinalityType
      <4>2. Cardinality(All(t)) \in Int
        BY <1>1, <2>5
      <4> QED BY <2>7, <4>1, <4>2, FS_EmptySet
    <3> QED BY <2>7, <3>1, <3>2
  <2>9. g[s] = v[x] + g[t] /\ v[x] = Cardinality(part[x])
    BY <1>2, <2>5
  <2> QED BY <2>2, <2>6, <2>8, <2>9
<1> QED BY <1>1, <1>3

-----------------------------------------------------------------------------
(* A sequence from which one element was taken. *)
LEMMA RemovedAt ==
  ASSUME NEW X, NEW q \in Seq(X), NEW k \in 1 .. Len(q)
  PROVE  LET g == RemoveAt(q, k)
         IN /\ g \in Seq(X) /\ DOMAIN g = 1 .. (Len(q) - 1)
            /\ \A j \in 1 .. (Len(q) - 1) : g[j] = q[IF j < k THEN j ELSE j + 1]
<1> DEFINE n == Len(q)
           a == SubSeq(q, 1, k - 1)
           b == SubSeq(q, k + 1, n)
           g == RemoveAt(q, k)
<1>0. k \in Nat /\ n \in Nat /\ 1 <= k /\ k <= n /\ n - k \in Nat /\ k - 1 \in Nat /\ DOMAIN q = 1 .. n
  OBVIOUS
<1>1. a \in Seq(X) /\ Len(a) = k - 1 /\ \A j \in 1 .. (k - 1) : a[j] = q[j]
  BY <1>0
<1>2. b \in Seq(X) /\ Len(b) = n - k
  <2>1. \A i \in (k + 1) .. n : q[i] \in X
    BY <1>0
  <2>2. k + 1 \in Int /\ n \in Int
    BY <1>0
  <2>3. b \in Seq(X) /\ Len(b) = IF k + 1 <= n THEN n - (k + 1) + 1 ELSE 0
    BY <2>1, <2>2, SubSeqProperties, ZenonT(40)
  <2> HIDE DEF b, n
  <2> QED BY <1>0, <2>3
<1>3. \A j \in 1 .. (n - k) : b[j] = q[k + j]
  BY <1>0
<1>4. g = a \o b
  BY DEF RemoveAt
<1> HIDE DEF a, b, n, g
<1>5. /\ g \in Seq(X) /\ Len(g) = n - 1 /\ DOMAIN g = 1 .. (n - 1)
      /\ \A i \in 1 .. (n - 1) : g[i] = IF i <= k - 1 THEN a[i] ELSE b[i - (k - 1)]
  <2>1. /\ a \o b \in Seq(X) /\ Len(a \o b) = Len(a) + Len(b)
        /\ \A i \in 1 .. (Len(a) + Len(b)) : (a \o b)[i] = IF i <= Len(a) THEN a[i] ELSE b[i - Len(a)]
    BY <1>1, <1>2, ConcatProperties, ZenonT(40)
  <2>2. Len(a) + Len(b) = n - 1
    BY <1>0, <1>1, <1>2
  <2>3. DOMAIN g = 1 .. Len(g)
    BY <1>4, <2>1
  <2> QED BY <1>1, <1>4, <2>1, <2>2, <2>3
<1>6. ASSUME NEW j \in 1 .. (n - 1) PROVE g[j] = q[IF j < k THEN j ELSE j + 1]
  <2>1. CASE j < k
    BY <1>0, <1>1, <1>5, <2>1
  <2>2. CASE ~(j < k)
    <3>1. j - (k - 1) \in 1 .. (n - k) /\ k + (j - (k - 1)) = j + 1
      BY <1>0, <2>2
    <3>2. g[j] = b[j - (k - 1)]
      BY <1>0, <1>5, <2>2
    <3> QED BY <1>3, <2>2, <3>1, <3>2
  <2> QED BY <2>1, <2>2
<1> QED BY <1>5, <1>6 DEF g, n

-----------------------------------------------------------------------------
DeskSpec == DeskInit /\ [][DeskNext]_deskVars

(* A request that has cancelled the stop it saw and is to place another. *)
Replacing == {c \in DeskCalls : Awaits(c, "place") /\ desk[c].saw # 0}

DeskTyped ==
  /\ endpoint \in {"deribit", "mock"} /\ units \in Nat /\ serial \in Nat /\ deskFaults \in Nat
  /\ IsFiniteSet(stopOrders) /\ \A s \in stopOrders : s.id \in 1..serial /\ s.amount \in Nat /\ s.amount > 0
  /\ \A s, o \in stopOrders : s.id = o.id => s = o
  /\ DOMAIN desk = DeskCalls /\ \A c \in DeskCalls : DOMAIN desk[c] = {"op", "at", "size", "saw", "slip"}
  /\ \A c \in DeskCalls : desk[c].at \in {"orders", "price", "cancel", "place"} => desk[c].size \in Nat /\ desk[c].size > 0
  /\ IsFiniteSet(Replacing)

(* One Fast Test runs at a time, and ends as "stopped" only at the mock    *)
(* client, where there is never a position.                                *)
TestsAlone ==
  /\ endpoint = "mock" => units = 0
  /\ fastTest = "stopped" => endpoint = "mock"
  /\ \A c \in DeskCalls : desk[c].at \in {"entry", "verify", "monitor"} =>
       /\ fastTest = "active" /\ (Awaits(c, "monitor") => endpoint = "mock")
       /\ \A d \in DeskCalls : desk[d].at \in {"entry", "verify", "monitor"} => d = c

(* There are as many stops as units, counting those that are being         *)
(* replaced: whatever amounts were read, each is over one unit at least.   *)
EachUnitStopped ==
  (deskFaults = 0 /\ fastTest = "none") => units <= Cardinality(stopOrders) + Cardinality(Replacing)

DeskInv == DeskTyped /\ TestsAlone /\ EachUnitStopped

-----------------------------------------------------------------------------
Placed == Cardinality(stopOrders)
Others(c) == DOMAIN desk' = DeskCalls /\ \A d \in DeskCalls : d # c => desk'[d] = desk[d]
WellKept(r) ==
  /\ DOMAIN r = {"op", "at", "size", "saw", "slip"}
  /\ r.at \in {"orders", "price", "cancel", "place"} => r.size \in Nat /\ r.size > 0

LEMMA StopCounts ==
  ASSUME DeskTyped
  PROVE  Placed \in Nat /\ Cardinality(Replacing) \in Nat
BY FS_CardinalityType DEF DeskTyped, Placed

(* What one request does changes the number of replacements by one at most. *)
LEMMA ReplacingThen ==
  ASSUME DeskTyped, NEW c \in DeskCalls, Others(c)
  PROVE  /\ IsFiniteSet(Replacing') /\ Cardinality(Replacing') \in Nat
         /\ Cardinality(Replacing') >= Cardinality(Replacing) - 1
         /\ (c \notin Replacing => Cardinality(Replacing') >= Cardinality(Replacing))
         /\ (c \notin Replacing /\ c \in Replacing' => Cardinality(Replacing') = Cardinality(Replacing) + 1)
<1>f. IsFiniteSet(Replacing) /\ Cardinality(Replacing) \in Nat
  BY StopCounts DEF DeskTyped
<1>1. CASE c \in Replacing'
  <2>1. Replacing' = Replacing \cup {c}
    BY <1>1 DEF Others, Replacing, Awaits
  <2>2. /\ IsFiniteSet(Replacing')
        /\ Cardinality(Replacing') = IF c \in Replacing THEN Cardinality(Replacing) ELSE Cardinality(Replacing) + 1
    BY <2>1, <1>f, FS_AddElement
  <2> QED BY <2>2, <1>1, <1>f
<1>2. CASE c \notin Replacing'
  <2>1. Replacing' = Replacing \ {c}
    BY <1>2 DEF Others, Replacing, Awaits
  <2>2. CASE c \in Replacing
    <3>1. IsFiniteSet(Replacing') /\ Cardinality(Replacing') = Cardinality(Replacing) - 1
      BY <2>1, <2>2, <1>f, FS_RemoveElement
    <3> QED BY <3>1, <2>2, <1>2, <1>f, FS_CardinalityType
  <2>3. CASE c \notin Replacing
    <3>1. Replacing' = Replacing
      BY <2>1, <2>3
    <3> QED BY <3>1, <2>3, <1>2, <1>f
  <2> QED BY <2>2, <2>3
<1> QED BY <1>1, <1>2

LEMMA StopPlacedAdds ==
  ASSUME DeskTyped, NEW a \in Nat, a > 0, StopPlaced(a)
  PROVE  /\ serial' \in Nat /\ IsFiniteSet(stopOrders') /\ Placed' = Placed + 1
         /\ \A s \in stopOrders' : s.id \in 1..serial' /\ s.amount \in Nat /\ s.amount > 0
         /\ \A s, o \in stopOrders' : s.id = o.id => s = o
<1> DEFINE new == [id |-> serial', amount |-> a]
<1>1. new.id = serial' /\ new.amount = a
  OBVIOUS
<1>2. stopOrders' = stopOrders \cup {new} /\ serial' = serial + 1
  BY DEF StopPlaced
<1> HIDE DEF new
<1>3. \A s \in stopOrders : s.id # serial' /\ s.id \in 1..serial'
  BY <1>2 DEF DeskTyped
<1>4. new \notin stopOrders /\ IsFiniteSet(stopOrders)
  BY <1>1, <1>3 DEF DeskTyped
<1>5. Placed' = Placed + 1 /\ IsFiniteSet(stopOrders')
  BY <1>2, <1>4, FS_AddElement DEF Placed
<1>6. serial' \in Nat /\ serial' \in 1..serial'
  BY <1>2 DEF DeskTyped
<1>7. \A s, o \in stopOrders' : s.id = o.id => s = o
  BY <1>1, <1>2, <1>3 DEF DeskTyped
<1> QED BY <1>1, <1>2, <1>3, <1>5, <1>6, <1>7 DEF DeskTyped

LEMMA StopGone ==
  ASSUME DeskTyped, NEW T, T \subseteq stopOrders, stopOrders' = stopOrders \ T, UNCHANGED serial,
         \A s, o \in T : s = o
  PROVE  /\ serial' \in Nat /\ IsFiniteSet(stopOrders') /\ Placed' >= Placed - 1 /\ Placed' \in Nat
         /\ \A s \in stopOrders' : s.id \in 1..serial' /\ s.amount \in Nat /\ s.amount > 0
         /\ \A s, o \in stopOrders' : s.id = o.id => s = o
<1>1. IsFiniteSet(stopOrders) /\ Placed \in Nat
  BY StopCounts DEF DeskTyped
<1>2. CASE T = {}
  <2>1. stopOrders' = stopOrders
    BY <1>2
  <2>2. Placed' = Placed
    BY <2>1 DEF Placed
  <2> QED BY <1>1, <2>1, <2>2 DEF DeskTyped
<1>3. ASSUME NEW s \in T PROVE stopOrders' = stopOrders \ {s} /\ s \in stopOrders
  BY <1>3
<1>4. CASE T # {}
  <2>1. PICK s \in stopOrders : stopOrders' = stopOrders \ {s}
    BY <1>3, <1>4
  <2>2. IsFiniteSet(stopOrders') /\ Placed' = Placed - 1
    BY <1>1, <2>1, FS_RemoveElement DEF Placed
  <2>3. Placed' \in Nat
    BY <2>2, FS_CardinalityType DEF Placed
  <2> QED BY <1>1, <2>1, <2>2, <2>3 DEF DeskTyped
<1> QED BY <1>2, <1>4

(* The exchange stays, and the request replaces nothing. *)
LEMMA ReadingKeeps ==
  ASSUME DeskTyped, EachUnitStopped, NEW c \in DeskCalls, Others(c), c \notin Replacing, WellKept(desk'[c]),
         UNCHANGED <<endpoint, deskMarket>>, deskFaults' \in {deskFaults, deskFaults + 1},
         fastTest' = "none" => fastTest = "none"
  PROVE  DeskTyped' /\ EachUnitStopped'
<1>1. IsFiniteSet(Replacing') /\ Cardinality(Replacing') \in Nat /\ Cardinality(Replacing') >= Cardinality(Replacing)
  BY ReplacingThen
<1>2. DeskTyped'
  BY <1>1 DEF DeskTyped, Others, WellKept, deskMarket
<1>3. deskFaults' = 0 => deskFaults = 0
  BY DEF DeskTyped
<1>4. stopOrders' = stopOrders /\ units' = units /\ units \in Nat /\ Cardinality(stopOrders) \in Nat
      /\ Cardinality(Replacing) \in Nat
  BY StopCounts DEF deskMarket, DeskTyped, Placed
<1>5. ASSUME deskFaults' = 0, fastTest' = "none"
      PROVE  units' <= Cardinality(stopOrders') + Cardinality(Replacing')
  <2>1. units <= Cardinality(stopOrders) + Cardinality(Replacing)
    BY <1>3, <1>5 DEF EachUnitStopped
  <2> QED BY <1>1, <1>4, <2>1
<1> QED BY <1>2, <1>5 DEF EachUnitStopped

LEMMA ReadingSteps ==
  ASSUME DeskTyped, EachUnitStopped, NEW c \in DeskCalls,
         \/ AddStop(c) \/ EnsureStop(c) \/ SyncPosition(c) \/ FindPosition(c) \/ FindStop(c) \/ FindPrice(c)
         \/ QueryTrade(c) \/ LinkStop(c)
  PROVE  DeskTyped' /\ EachUnitStopped'
<1> USE DEF Awaits, GoesTo, Replies, Errors, DeskFault, Requested, Reads, NoRequest, WellKept, Others
<1>t. /\ DOMAIN desk = DeskCalls /\ DOMAIN desk[c] = {"op", "at", "size", "saw", "slip"} /\ units \in Nat
      /\ desk[c].at \in {"orders", "price", "cancel", "place"} => desk[c].size \in Nat /\ desk[c].size > 0
  BY DEF DeskTyped
<1>1. CASE AddStop(c) \/ EnsureStop(c) \/ SyncPosition(c)
  <2>1. Others(c) /\ WellKept(desk'[c])
    BY <1>1, <1>t DEF AddStop, EnsureStop, SyncPosition
  <2>2. Awaits(c, "idle") /\ UNCHANGED <<endpoint, deskMarket, fastTest, deskFaults>>
    BY <1>1 DEF AddStop, EnsureStop, SyncPosition
  <2> QED BY <2>1, <2>2, ReadingKeeps DEF Replacing
<1>2. CASE FindPosition(c)
  <2>1. Others(c) /\ WellKept(desk'[c])
    BY <1>2, <1>t DEF FindPosition
  <2> QED BY <1>2, <2>1, ReadingKeeps DEF Replacing, FindPosition
<1>3. CASE FindStop(c)
  <2>1. Others(c) /\ WellKept(desk'[c])
    BY <1>3, <1>t DEF FindStop
  <2>2. Awaits(c, "orders") /\ UNCHANGED <<endpoint, deskMarket, fastTest>> /\ deskFaults' \in {deskFaults, deskFaults + 1}
    BY <1>3 DEF FindStop
  <2> QED BY <2>1, <2>2, ReadingKeeps DEF Replacing
<1>4. CASE FindPrice(c)
  <2>1. Others(c) /\ WellKept(desk'[c])
    BY <1>4, <1>t DEF FindPrice
  <2> QED BY <1>4, <2>1, ReadingKeeps DEF Replacing, FindPrice
<1>5. CASE QueryTrade(c) \/ LinkStop(c)
  <2>1. Others(c) /\ WellKept(desk'[c])
    BY <1>5, <1>t DEF QueryTrade, LinkStop
  <2> QED BY <1>5, <2>1, ReadingKeeps DEF Replacing, QueryTrade, LinkStop
<1> QED BY <1>1, <1>2, <1>3, <1>4, <1>5

LEMMA TestingSteps ==
  ASSUME DeskTyped, EachUnitStopped, NEW c \in DeskCalls, FastTest(c) \/ FastTestVerifies(c) \/ FastTestMonitor(c)
  PROVE  DeskTyped' /\ EachUnitStopped'
<1> USE DEF Awaits, GoesTo, Replies, Aborts, DeskFault, Requested, NoRequest, WellKept, Others
<1>t. DOMAIN desk = DeskCalls /\ DOMAIN desk[c] = {"op", "at", "size", "saw", "slip"}
  BY DEF DeskTyped
<1>1. Others(c) /\ WellKept(desk'[c]) /\ desk[c].at # "place"
  BY <1>t DEF FastTest, FastTestVerifies, FastTestMonitor
<1>2. UNCHANGED <<endpoint, deskMarket>> /\ deskFaults' \in {deskFaults, deskFaults + 1} /\ (fastTest' = "none" => fastTest = "none")
  BY DEF FastTest, FastTestVerifies, FastTestMonitor
<1> QED BY <1>1, <1>2, ReadingKeeps DEF Replacing

(* A position is bought, at the exchange, only with a fault or as long as  *)
(* the Fast Test is not "none", or with its stop.                          *)
LEMMA EntryKeeps ==
  ASSUME DeskTyped, TestsAlone, EachUnitStopped, NEW c \in DeskCalls, FastTestEnters(c)
  PROVE  DeskTyped' /\ EachUnitStopped'
<1> USE DEF Awaits, GoesTo, Replies, Aborts, DeskFault, NoRequest, WellKept, Others, Bought
<1>t. DOMAIN desk = DeskCalls /\ DOMAIN desk[c] = {"op", "at", "size", "saw", "slip"} /\ units \in Nat /\ deskFaults \in Nat
  BY DEF DeskTyped
<1>1. Others(c) /\ WellKept(desk'[c])
  BY <1>t DEF FastTestEnters
<1>2. UNCHANGED <<endpoint, stopOrders, serial>> /\ units' \in Nat /\ deskFaults' \in Nat /\ fastTest' # "none"
  <2>1. fastTest = "active"
    BY DEF FastTestEnters, TestsAlone
  <2> QED BY <1>t, <2>1 DEF FastTestEnters
<1>3. IsFiniteSet(Replacing')
  BY <1>1, ReplacingThen
<1>4. DeskTyped'
  BY <1>1, <1>2, <1>3 DEF DeskTyped
<1> QED BY <1>2, <1>4 DEF EachUnitStopped

LEMMA TestOrderKeeps ==
  ASSUME DeskTyped, TestsAlone, EachUnitStopped, NEW c \in DeskCalls, TestOrder(c)
  PROVE  DeskTyped' /\ EachUnitStopped'
<1>1. UNCHANGED <<endpoint, slips, desk, fastTest>> /\ Replacing' = Replacing /\ units \in Nat
  BY DEF TestOrder, Replacing, Awaits, DeskTyped
<1>2. deskFaults' \in Nat /\ (deskFaults' = 0 => deskFaults = 0)
  BY DEF TestOrder, DeskFault, DeskTyped
<1>c. Placed \in Nat /\ Cardinality(Replacing) \in Nat
  BY StopCounts
<1>3. CASE endpoint = "mock"
  <2>1. UNCHANGED <<units, stopOrders, serial>> /\ units = 0
    BY <1>3 DEF TestOrder, Bought, TestsAlone
  <2>2. DeskTyped'
    BY <1>1, <1>2, <2>1 DEF DeskTyped
  <2>3. Placed' = Placed /\ Cardinality(Replacing') = Cardinality(Replacing)
    BY <1>1, <2>1 DEF Placed
  <2> QED BY <1>c, <2>1, <2>2, <2>3 DEF EachUnitStopped, Placed
<1>4. CASE endpoint # "mock"
  <2>1. units' = units + 1 /\ StopPlaced(1)
    BY <1>4 DEF TestOrder, Bought
  <2>2. /\ serial' \in Nat /\ IsFiniteSet(stopOrders') /\ Placed' = Placed + 1
        /\ \A s \in stopOrders' : s.id \in 1..serial' /\ s.amount \in Nat /\ s.amount > 0
        /\ \A s, o \in stopOrders' : s.id = o.id => s = o
    BY <2>1, StopPlacedAdds
  <2>3. DeskTyped'
    BY <1>1, <1>2, <2>1, <2>2 DEF DeskTyped
  <2> QED BY <1>1, <1>2, <1>c, <2>1, <2>2, <2>3 DEF EachUnitStopped, Placed
<1> QED BY <1>3, <1>4

LEMMA CancelKeeps ==
  ASSUME DeskTyped, EachUnitStopped, NEW c \in DeskCalls, CancelOld(c)
  PROVE  DeskTyped' /\ EachUnitStopped'
<1> DEFINE T == {s \in stopOrders : s.id = desk[c].saw}
<1>t. DOMAIN desk = DeskCalls /\ DOMAIN desk[c] = {"op", "at", "size", "saw", "slip"} /\ units \in Nat /\ deskFaults \in Nat
  BY DEF DeskTyped
<1>1. /\ Awaits(c, "cancel") /\ UNCHANGED <<endpoint, units, serial, fastTest>>
      /\ desk' = [desk EXCEPT ![c].at = "place"]
  BY DEF CancelOld, GoesTo
<1>2. Others(c) /\ WellKept(desk'[c]) /\ c \notin Replacing /\ desk'[c].at = "place" /\ desk'[c].saw = desk[c].saw
  BY <1>t, <1>1 DEF DeskTyped, Awaits, Others, WellKept, Replacing
<1>3. IsFiniteSet(Replacing') /\ Cardinality(Replacing') \in Nat
  BY <1>2, ReplacingThen
<1>c. Placed \in Nat /\ Cardinality(Replacing) \in Nat
  BY StopCounts
<1>4. CASE DeskFault /\ UNCHANGED stopOrders
  <2>1. deskFaults' = deskFaults + 1
    BY <1>4 DEF DeskFault
  <2>2. DeskTyped'
    BY <1>t, <1>1, <1>2, <1>3, <1>4, <2>1 DEF DeskTyped, Others, WellKept
  <2> QED BY <1>t, <2>1, <2>2 DEF EachUnitStopped
<1>5. CASE stopOrders' = {s \in stopOrders : s.id # desk[c].saw} /\ UNCHANGED deskFaults
  <2>1. stopOrders' = stopOrders \ T /\ T \subseteq stopOrders /\ \A s, o \in T : s = o
    BY <1>5 DEF DeskTyped
  <2>2. /\ serial' \in Nat /\ IsFiniteSet(stopOrders') /\ Placed' >= Placed - 1 /\ Placed' \in Nat
        /\ \A s \in stopOrders' : s.id \in 1..serial' /\ s.amount \in Nat /\ s.amount > 0
        /\ \A s, o \in stopOrders' : s.id = o.id => s = o
    <3> HIDE DEF T
    <3> QED BY <1>1, <2>1, StopGone
  <2>3. DeskTyped'
    BY <1>t, <1>1, <1>2, <1>3, <1>5, <2>2 DEF DeskTyped, Others, WellKept
  <2>4. Placed' + Cardinality(Replacing') >= Placed + Cardinality(Replacing)
    <3>1. CASE desk[c].saw = 0
      <4>1. T = {}
        BY <3>1 DEF DeskTyped
      <4>2. Placed' = Placed
        BY <2>1, <4>1 DEF Placed
      <4> QED BY <1>2, <1>3, <1>c, <4>2, ReplacingThen
    <3>2. CASE desk[c].saw # 0
      <4>1. c \in Replacing'
        BY <1>2, <3>2 DEF Replacing, Awaits
      <4>2. Cardinality(Replacing') = Cardinality(Replacing) + 1
        BY <1>2, <4>1, ReplacingThen
      <4> QED BY <1>c, <2>2, <4>2
    <3> QED BY <3>1, <3>2
  <2> QED BY <1>t, <1>1, <1>3, <1>5, <1>c, <2>2, <2>3, <2>4 DEF EachUnitStopped, Placed
<1> QED BY <1>1, <1>4, <1>5 DEF CancelOld

LEMMA PlaceKeeps ==
  ASSUME DeskTyped, EachUnitStopped, NEW c \in DeskCalls, PlaceManualStop(c)
  PROVE  DeskTyped' /\ EachUnitStopped'
<1>t. /\ DOMAIN desk = DeskCalls /\ DOMAIN desk[c] = {"op", "at", "size", "saw", "slip"} /\ units \in Nat /\ deskFaults \in Nat
      /\ desk[c].size \in Nat /\ desk[c].size > 0
  BY DEF DeskTyped, PlaceManualStop, Awaits
<1>1. UNCHANGED <<endpoint, units, fastTest>> /\ deskFaults' \in {deskFaults, deskFaults + 1}
  BY DEF PlaceManualStop, Errors, DeskFault
<1>2. Others(c) /\ WellKept(desk'[c])
  BY <1>t DEF PlaceManualStop, Errors, Replies, NoRequest, Others, WellKept
<1>3. /\ IsFiniteSet(Replacing') /\ Cardinality(Replacing') \in Nat
      /\ Cardinality(Replacing') >= Cardinality(Replacing) - 1
  BY <1>2, ReplacingThen
<1>c. Placed \in Nat /\ Cardinality(Replacing) \in Nat
  BY StopCounts
<1>4. StopPlaced(desk[c].size) \/ UNCHANGED <<stopOrders, serial>>
  BY DEF PlaceManualStop
<1>5. DeskTyped'
  <2>1. CASE StopPlaced(desk[c].size)
    <3>1. /\ serial' \in Nat /\ IsFiniteSet(stopOrders')
          /\ \A s \in stopOrders' : s.id \in 1..serial' /\ s.amount \in Nat /\ s.amount > 0
          /\ \A s, o \in stopOrders' : s.id = o.id => s = o
      BY <1>t, <2>1, StopPlacedAdds
    <3> QED BY <1>t, <1>1, <1>2, <1>3, <3>1 DEF DeskTyped, Others, WellKept
  <2>2. CASE UNCHANGED <<stopOrders, serial>>
    BY <1>t, <1>1, <1>2, <1>3, <2>2 DEF DeskTyped, Others, WellKept
  <2> QED BY <1>4, <2>1, <2>2
<1>6. CASE deskFaults' = deskFaults + 1
  BY <1>t, <1>5, <1>6 DEF EachUnitStopped
<1>7. CASE units > 0 /\ StopPlaced(desk[c].size) /\ UNCHANGED deskFaults
  <2>1. Placed' = Placed + 1
    BY <1>t, <1>7, StopPlacedAdds
  <2> QED BY <1>t, <1>1, <1>3, <1>c, <1>5, <1>7, <2>1 DEF EachUnitStopped, Placed
<1>8. CASE units = 0
  <2>1. Placed' \in Nat
    BY <1>5, FS_CardinalityType DEF DeskTyped, Placed
  <2> QED BY <1>1, <1>3, <1>5, <1>8, <2>1 DEF EachUnitStopped, Placed
<1> QED BY <1>6, <1>7, <1>8 DEF PlaceManualStop, Errors, DeskFault

LEMMA ExitKeeps ==
  ASSUME DeskTyped, TestsAlone, EachUnitStopped, StopHit \/ OtherExit \/ DeleteTrade \/ FastTestCleanup
  PROVE  DeskTyped' /\ EachUnitStopped'
<1>1. UNCHANGED <<endpoint, serial, desk, deskFaults>> /\ Replacing' = Replacing /\ units \in Nat
  BY DEF StopHit, OtherExit, DeleteTrade, FastTestCleanup, deskMarket, Replacing, Awaits, DeskTyped
<1>c. Placed \in Nat /\ Cardinality(Replacing) \in Nat
  BY StopCounts
<1>2. CASE StopHit
  <2>1. PICK s \in stopOrders : /\ stopOrders' = stopOrders \ {s} /\ UNCHANGED fastTest
                                /\ units' = IF s.amount < units THEN units - s.amount ELSE 0
    BY <1>2 DEF StopHit
  <2>2. s.amount \in Nat /\ s.amount > 0
    BY DEF DeskTyped
  <2>3. units' \in Nat /\ (units' = 0 \/ units' <= units - 1)
    BY <1>1, <2>1, <2>2
  <2>4. /\ serial' \in Nat /\ IsFiniteSet(stopOrders') /\ Placed' >= Placed - 1 /\ Placed' \in Nat
        /\ \A x \in stopOrders' : x.id \in 1..serial' /\ x.amount \in Nat /\ x.amount > 0
        /\ \A x, o \in stopOrders' : x.id = o.id => x = o
    BY <1>1, <2>1, StopGone
  <2>5. DeskTyped'
    BY <1>1, <2>3, <2>4 DEF DeskTyped
  <2> QED BY <1>1, <1>c, <2>1, <2>3, <2>4, <2>5 DEF EachUnitStopped, Placed
<1>3. CASE OtherExit \/ DeleteTrade \/ FastTestCleanup
  <2>1. UNCHANGED stopOrders /\ units' \in Nat /\ (units' = 0 \/ (units' = units /\ UNCHANGED fastTest))
    <3>1. CASE OtherExit
      BY <3>1 DEF OtherExit
    <3>2. CASE DeleteTrade
      BY <1>1, <3>2 DEF DeleteTrade, deskMarket
    <3>3. CASE FastTestCleanup
      <4>1. units = 0
        BY <3>3 DEF FastTestCleanup, TestsAlone
      <4>2. units' = units /\ stopOrders' = stopOrders
        BY <3>3 DEF FastTestCleanup, deskMarket
      <4> QED BY <4>1, <4>2
    <3> QED BY <1>3, <3>1, <3>2, <3>3
  <2>2. DeskTyped'
    BY <1>1, <2>1 DEF DeskTyped
  <2>3. Placed' = Placed /\ Cardinality(Replacing') = Cardinality(Replacing)
    BY <1>1, <2>1 DEF Placed
  <2> QED BY <1>1, <1>c, <2>1, <2>2, <2>3 DEF EachUnitStopped, Placed
<1> QED BY <1>2, <1>3

LEMMA TestsAloneStep ==
  ASSUME DeskTyped, TestsAlone, DeskNext
  PROVE  TestsAlone'
<1> DEFINE Testing(c) == desk[c].at \in {"entry", "verify", "monitor"}
<1>t. DOMAIN desk = DeskCalls /\ \A c \in DeskCalls : DOMAIN desk[c] = {"op", "at", "size", "saw", "slip"}
  BY DEF DeskTyped
<1>m. (endpoint = "mock" => units = 0)' /\ endpoint' = endpoint
  <2>1. ASSUME NEW c \in DeskCalls,
               \/ AddStop(c) \/ EnsureStop(c) \/ SyncPosition(c) \/ FastTest(c) \/ FindPosition(c)
               \/ FindStop(c) \/ FindPrice(c) \/ QueryTrade(c) \/ FastTestVerifies(c)
        PROVE  UNCHANGED <<endpoint, units>>
    BY <2>1 DEF AddStop, EnsureStop, SyncPosition, FastTest, FindPosition, FindStop, FindPrice, QueryTrade,
           FastTestVerifies, Reads, deskMarket
  <2>2. ASSUME NEW c \in DeskCalls, CancelOld(c) \/ PlaceManualStop(c) \/ LinkStop(c) \/ FastTestMonitor(c)
        PROVE  UNCHANGED <<endpoint, units>>
    BY <2>2 DEF CancelOld, PlaceManualStop, LinkStop, FastTestMonitor, deskMarket
  <2>3. ASSUME NEW c \in DeskCalls, TestOrder(c) \/ FastTestEnters(c)
        PROVE  UNCHANGED endpoint /\ (endpoint = "mock" => UNCHANGED units)
    BY <2>3 DEF TestOrder, FastTestEnters, Bought
  <2>4. CASE StopHit \/ OtherExit \/ DeleteTrade \/ FastTestCleanup
    <3>1. UNCHANGED endpoint /\ (units' = 0 \/ units' = units \/ \E s \in stopOrders : s.amount < units)
      BY <2>4 DEF StopHit, OtherExit, DeleteTrade, FastTestCleanup, deskMarket
    <3>2. units = 0 => ~ \E s \in stopOrders : s.amount < units
      BY DEF DeskTyped
    <3> QED BY <3>1, <3>2 DEF TestsAlone
  <2> QED BY <2>1, <2>2, <2>3, <2>4 DEF DeskNext, TestsAlone
(* A request that does not test. *)
<1>1. ASSUME NEW c \in DeskCalls, ~Testing(c), Others(c), ~Testing(c)', UNCHANGED fastTest
      PROVE  TestsAlone'
  BY <1>m, <1>1 DEF TestsAlone, Others, Awaits
<1>2. ASSUME NEW c \in DeskCalls,
             AddStop(c) \/ EnsureStop(c) \/ SyncPosition(c) \/ FindPosition(c) \/ FindStop(c) \/ FindPrice(c)
      PROVE  TestsAlone'
  <2>1. ~Testing(c) /\ Others(c) /\ ~Testing(c)' /\ UNCHANGED fastTest
    BY <1>2, <1>t DEF AddStop, EnsureStop, SyncPosition, FindPosition, FindStop, FindPrice, Requested, Replies,
        Errors, GoesTo, Awaits, Reads, NoRequest, Others
  <2> QED BY <2>1, <1>1
<1>3. ASSUME NEW c \in DeskCalls, CancelOld(c) \/ PlaceManualStop(c) \/ QueryTrade(c) \/ LinkStop(c)
      PROVE  TestsAlone'
  <2>1. ~Testing(c) /\ Others(c) /\ ~Testing(c)' /\ UNCHANGED fastTest
    BY <1>3, <1>t DEF CancelOld, PlaceManualStop, QueryTrade, LinkStop, Replies, Errors, GoesTo, Awaits, Reads, NoRequest, Others
  <2> QED BY <2>1, <1>1
<1>4. ASSUME NEW c \in DeskCalls, TestOrder(c) PROVE TestsAlone'
  BY <1>4, <1>m DEF TestOrder, TestsAlone, Awaits
<1>5. ASSUME NEW c \in DeskCalls, FastTest(c) PROVE TestsAlone'
  <2>1. fastTest = "none" /\ Others(c) /\ desk'[c].at \in {"entry", "idle"} /\ (desk'[c].at = "entry" => fastTest' = "active")
        /\ fastTest' \in {"active", "error"}
    BY <1>5, <1>t DEF FastTest, Requested, Aborts, Replies, NoRequest, Awaits, Others
  <2>2. \A d \in DeskCalls : ~Testing(d)
    BY <2>1 DEF TestsAlone
  <2> QED BY <1>m, <2>1, <2>2 DEF TestsAlone, Others, Awaits
<1>6. ASSUME NEW c \in DeskCalls, FastTestEnters(c) \/ FastTestVerifies(c) \/ FastTestMonitor(c)
      PROVE  TestsAlone'
  <2>1. Testing(c) /\ Others(c)
    BY <1>6, <1>t DEF FastTestEnters, FastTestVerifies, FastTestMonitor, Awaits, GoesTo, Aborts, Replies, Others
  <2>2. /\ Testing(c)' => fastTest' = fastTest /\ (desk'[c].at = "monitor" => endpoint = "mock")
        /\ fastTest' = "stopped" => Awaits(c, "monitor") \/ fastTest = "stopped"
    BY <1>6, <1>t DEF FastTestEnters, FastTestVerifies, FastTestMonitor, Awaits, GoesTo, Aborts, Replies, NoRequest
  <2>3. \A d \in DeskCalls : Testing(d)' => d = c
    BY <2>1 DEF TestsAlone, Others
  <2> QED BY <1>m, <2>1, <2>2, <2>3 DEF TestsAlone, Others, Awaits
<1>7. CASE StopHit \/ OtherExit \/ DeleteTrade \/ FastTestCleanup
  <2>1. UNCHANGED desk /\ fastTest' \in {fastTest, "none"} /\ (fastTest = "active" => fastTest' = "active")
    BY <1>7 DEF StopHit, OtherExit, DeleteTrade, FastTestCleanup
  <2> QED BY <1>m, <2>1 DEF TestsAlone, Awaits
<1> QED BY <1>2, <1>3, <1>4, <1>5, <1>6, <1>7 DEF DeskNext

LEMMA DeskInvStep ==
  ASSUME DeskInv, [DeskNext]_deskVars
  PROVE  DeskInv'
<1>1. CASE DeskNext
  <2>1. TestsAlone'
    BY <1>1, TestsAloneStep DEF DeskInv
  <2>2. DeskTyped' /\ EachUnitStopped'
    BY <1>1, ReadingSteps, TestingSteps, EntryKeeps, TestOrderKeeps, CancelKeeps, PlaceKeeps, ExitKeeps DEF DeskInv, DeskNext
  <2> QED BY <2>1, <2>2 DEF DeskInv
<1>2. CASE UNCHANGED deskVars
  BY <1>2 DEF DeskInv, DeskTyped, TestsAlone, EachUnitStopped, Replacing, Awaits, deskVars, deskMarket
<1> QED BY <1>1, <1>2

LEMMA DeskInvInit == DeskInit => DeskInv
<1> SUFFICES ASSUME DeskInit PROVE DeskInv
  OBVIOUS
<1>1. desk = [c \in DeskCalls |-> NoRequest] /\ units \in 0..1 /\ serial = 1 /\ fastTest = "none"
  BY DEF DeskInit
<1>2. Replacing = {}
  BY <1>1 DEF Replacing, Awaits, NoRequest
<1>3. PICK s \in SUBSET {1} : stopOrders = {[id |-> i, amount |-> 1] : i \in s} /\ (units = 0 => s = {})
  BY DEF DeskInit
<1> DEFINE first == [id |-> 1, amount |-> 1]
<1>4. stopOrders = {} \/ stopOrders = {first}
  <2>1. s = {} \/ s = {1}
    BY <1>3
  <2> QED BY <1>3, <2>1
<1>5. first.id = 1 /\ first.amount = 1
  OBVIOUS
<1> HIDE DEF first
<1>6. IsFiniteSet({}) /\ Cardinality({}) = 0 /\ IsFiniteSet({first}) /\ Cardinality({first}) = 1
  BY FS_EmptySet, FS_Singleton
<1>7. DeskTyped
  <2>1. \A c \in DeskCalls : desk[c] = NoRequest
    BY <1>1
  <2>2. deskFaults \in Nat /\ endpoint \in {"deribit", "mock"}
    BY DEF DeskInit
  <2>3. \A x \in stopOrders : x = first
    BY <1>4
  <2>4. IsFiniteSet(stopOrders) /\ IsFiniteSet(Replacing)
    BY <1>2, <1>4, <1>6
  <2>5. 1 \in 1..serial
    BY <1>1
  <2> QED BY <1>1, <1>5, <2>1, <2>2, <2>3, <2>4, <2>5 DEF DeskTyped, NoRequest
<1>8. TestsAlone
  BY <1>1 DEF TestsAlone, Awaits, NoRequest, DeskInit
<1>9. EachUnitStopped
  <2>1. deskFaults = 0 => stopOrders # {} \/ units = 0
    BY <1>1 DEF DeskInit
  <2>2. Cardinality(Replacing) = 0 /\ Cardinality(stopOrders) \in 0..1 /\ (stopOrders # {} => Cardinality(stopOrders) = 1)
    BY <1>2, <1>4, <1>6
  <2>3. units \in Nat /\ units <= 1
    BY <1>1
  <2> QED BY <2>1, <2>2, <2>3 DEF EachUnitStopped
<1> QED BY <1>7, <1>8, <1>9 DEF DeskInv

(* However the requests of the operator overlap, read, cancel and place,   *)
(* the stops at the exchange cover the position when none failed and no    *)
(* request is between its cancel and its new stop (add-sl of server.ts).   *)
THEOREM StopsCover == DeskSpec => []StopsCoverPosition
<1>1. DeskInv => StopsCoverPosition
  <2> SUFFICES ASSUME DeskInv, deskFaults = 0, fastTest = "none", Replacing = {}
               PROVE  units <= SumOf(stopOrders)
    BY DEF StopsCoverPosition, SumOf, Replacing
  <2>1. units <= Cardinality(stopOrders) /\ units \in Nat /\ Cardinality(stopOrders) \in Nat
    BY FS_EmptySet, StopCounts DEF DeskInv, EachUnitStopped, DeskTyped, Placed
  <2>2. SumOf(stopOrders) \in Nat /\ Cardinality(stopOrders) <= SumOf(stopOrders)
    BY SumAtLeast DEF DeskInv, DeskTyped
  <2> QED BY <2>1, <2>2
<1> QED BY <1>1, DeskInvInit, DeskInvStep, PTL DEF DeskSpec

-----------------------------------------------------------------------------
(* The credentials in the .env file.  Parsing and building it are folds,   *)
(* recursive functions on the sets of its lines: that they are defined and *)
(* what they make of a file follows from a least counterexample.  The      *)
(* parser only moves the lines of services that have no section of their   *)
(* own (Joining), so that each Plain service keeps what it had, and        *)
(* building drops nothing.                                                 *)
SettingsSpec == SettingsInit /\ [][CredentialsNext \/ AlertsNext]_settingsVars

Section == [name : Services \cup {"General"}, vars : UNION {[S -> Nat] : S \in (SUBSET Services) \ {{}}}]

(* A section holds the credential of its service, of others only such as   *)
(* have no section of their own, and no two are of one service.            *)
InOrder(q) ==
  /\ q \in Seq(Section)
  /\ \A i \in DOMAIN q : \A s \in Plain : s \in DOMAIN q[i].vars <=> q[i].name = s
  /\ \A i, j \in DOMAIN q : q[i].name \in Plain /\ q[i].name = q[j].name => i = j

ValueIn(q, service) ==
  LET at == {i \in DOMAIN q : service \in DOMAIN q[i].vars}
  IN IF at = {} THEN 0 ELSE q[CHOOSE i \in at : \A j \in at : i <= j].vars[service]

EditsTyped ==
  /\ DOMAIN runtime = Services /\ versions \in Nat /\ met \in BOOLEAN /\ unsure \subseteq Services
  /\ DOMAIN edit = SettingCalls
  /\ \A c \in SettingCalls :
       /\ DOMAIN edit[c] = {"at", "op", "service", "version", "write"} /\ edit[c].version \in Nat
       /\ edit[c].at \in {"idle", "read", "open", "write"}
       /\ edit[c].at # "idle" => edit[c].op \in {"save", "delete"} /\ edit[c].service \in Services

(* The file is in order, and what is to be written is, whatever overlaps.  *)
FilesInOrder ==
  InOrder(env) /\ \A c \in SettingCalls : edit[c].at \in {"open", "write"} => InOrder(edit[c].write)

EditsAlone == \A c, d \in SettingCalls : Editing(c) /\ Editing(d) => c = d

(* Of a service that is not unsure, the file has what is in use, but for   *)
(* the one a save is about to write.                                       *)
FileRight ==
  \A s \in Plain \ unsure :
    (\A c \in SettingCalls : edit[c].at = "open" /\ edit[c].op = "save" => edit[c].service # s)
      => ValueIn(env, s) = runtime[s]

(* What is to be written agrees with the environment, but for what a       *)
(* deletion is to clear there.                                             *)
WriteRight(c) ==
  \A s \in Plain : s \notin unsure \/ s = edit[c].service =>
    ValueIn(edit[c].write, s) = IF edit[c].op = "delete" /\ edit[c].service = s THEN 0 ELSE runtime[s]

SettingsInv ==
  /\ EditsTyped /\ FilesInOrder
  /\ met => unsure = Services
  /\ ~met => /\ EditsAlone
             /\ (\A c \in SettingCalls : edit[c].at # "write") => FileRight
             /\ \A c \in SettingCalls : edit[c].at \in {"open", "write"} => WriteRight(c)

-----------------------------------------------------------------------------
(* A fold over a file: its sections are parsed, or built again. *)
Joined(sections, s) ==
  IF s.name \notin Odd THEN Append(sections, s)
  ELSE IF sections = Empty THEN <<[name |-> "General", vars |-> s.vars]>>
  ELSE [sections EXCEPT ![Len(sections)].vars =
          [x \in DOMAIN @ \cup DOMAIN s.vars |-> IF x \in DOMAIN s.vars THEN s.vars[x] ELSE @[x]]]
Built(file, s) == IF DOMAIN s.vars = {} THEN file ELSE Append(file, s)
Step(k, f, s) == IF k = "parse" THEN Joined(f, s) ELSE Built(f, s)
OneOn(k, g, q, s) == IF s = {} THEN Empty ELSE Step(k, g[s \ {Max(s)}], q[Max(s)])
Folds(k, g, q, D) == g = [s \in D |-> OneOn(k, g, q, s)]
TheFold(k, q) == CHOOSE g : Folds(k, g, q, SUBSET DOMAIN q)

LEMMA ParseIs ==
  ASSUME NEW q
  PROVE  ParseEnvFile(q) = TheFold("parse", q)[DOMAIN q]
<1>1. \A g, D : Folds("parse", g, q, D) <=> g = [s \in D |-> IF s = {} THEN Empty ELSE Joined(g[s \ {Max(s)}], q[Max(s)])]
  BY DEF Folds, OneOn, Step
<1>2. TheFold("parse", q) =
        (CHOOSE g : g = [s \in SUBSET DOMAIN q |-> IF s = {} THEN Empty ELSE Joined(g[s \ {Max(s)}], q[Max(s)])])
  BY <1>1 DEF TheFold
<1> QED BY <1>2 DEF ParseEnvFile, FoldLeft, MapThenFoldSet, Joined

LEMMA BuildIs ==
  ASSUME NEW q
  PROVE  BuildEnvFile(q) = TheFold("build", q)[DOMAIN q]
<1>1. \A g, D : Folds("build", g, q, D) <=> g = [s \in D |-> IF s = {} THEN Empty ELSE Built(g[s \ {Max(s)}], q[Max(s)])]
  BY DEF Folds, OneOn, Step
<1>2. TheFold("build", q) =
        (CHOOSE g : g = [s \in SUBSET DOMAIN q |-> IF s = {} THEN Empty ELSE Built(g[s \ {Max(s)}], q[Max(s)])])
  BY <1>1 DEF TheFold
<1> QED BY <1>2 DEF BuildEnvFile, FoldLeft, MapThenFoldSet, Built

LEMMA MaxOf ==
  ASSUME NEW n \in Nat, NEW s, s \subseteq 1..n, s # {}
  PROVE  Max(s) \in s /\ \A x \in s : x <= Max(s)
<1> DEFINE Bounds == {m \in Nat : \A x \in s : x <= m}
<1>1. n \in Bounds /\ s \subseteq Nat
  OBVIOUS
<1>2. PICK m \in Bounds : \A o \in Bounds : m <= o
  BY <1>1, LeastNumber
<1>3. m \in s
  <2> SUFFICES ASSUME m \notin s PROVE FALSE
    OBVIOUS
  <2>1. \A x \in s : x <= m - 1
    BY <1>1, <1>2
  <2>2. m - 1 \in Nat
    <3>1. PICK x \in s : x \in Nat /\ x <= m - 1 /\ m \in Nat
      BY <1>1, <1>2, <2>1
    <3> QED BY <3>1
  <2>3. m - 1 \in Bounds
    BY <2>1, <2>2
  <2>4. m \in Nat
    BY <1>2
  <2> HIDE DEF Bounds
  <2> QED BY <1>2, <2>3, <2>4
<1>4. \E x \in s : \A y \in s : x >= y
  BY <1>1, <1>2, <1>3
<1>5. Max(s) \in s /\ \A y \in s : Max(s) >= y
  BY <1>4 DEF Max
<1> QED BY <1>1, <1>5

LEMMA FoldDefined ==
  ASSUME NEW k, NEW q, NEW n \in Nat, DOMAIN q = 1..n
  PROVE  Folds(k, TheFold(k, q), q, SUBSET DOMAIN q)
<1> DEFINE Small(i) == {s \in SUBSET DOMAIN q : Cardinality(s) <= i}
           Bad == {i \in Nat : ~ \E g : Folds(k, g, q, Small(i))}
<1>f. IsFiniteSet(DOMAIN q) /\ \A s \in SUBSET DOMAIN q : IsFiniteSet(s) /\ Cardinality(s) \in Nat
  <2>1. IsFiniteSet(1..n)
    BY FS_Interval
  <2> QED BY <2>1, FS_Subset, FS_CardinalityType
<1>1. Bad = {}
  <2> SUFFICES ASSUME Bad # {} PROVE FALSE
    OBVIOUS
  <2>1. PICK i \in Bad : \A m \in Bad : i <= m
    BY LeastNumber
  <2>2. i # 0
    <3>1. \A s \in Small(0) : s = {}
      BY <1>f, FS_EmptySet
    <3>2. Folds(k, [s \in Small(0) |-> Empty], q, Small(0))
      BY <3>1 DEF Folds, OneOn
    <3> QED BY <2>1, <3>2
  <2>3. i - 1 \in Nat /\ i - 1 \notin Bad
    <3>1. i \in Nat /\ i - 1 \in Nat /\ ~(i <= i - 1)
      BY <2>1, <2>2
    <3> HIDE DEF Bad
    <3> QED BY <2>1, <3>1
  <2>4. PICK h : Folds(k, h, q, Small(i - 1))
    BY <2>3
  <2> DEFINE g == [s \in Small(i) |-> OneOn(k, h, q, s)]
  <2>5. ASSUME NEW s \in Small(i)
        PROVE  OneOn(k, h, q, s) = OneOn(k, g, q, s)
    <3>1. CASE s = {}
      BY <3>1 DEF OneOn
    <3>2. CASE s # {}
      <4> DEFINE t == s \ {Max(s)}
      <4>1. Max(s) \in s
        BY <3>2, MaxOf
      <4>2. Cardinality(t) = Cardinality(s) - 1 /\ Cardinality(s) \in Nat /\ Cardinality(t) \in Nat /\ t \in SUBSET DOMAIN q
        BY <1>f, <4>1, FS_RemoveElement
      <4>3. t \in Small(i - 1) /\ t \in Small(i)
        BY <4>2
      <4>4. h[t] = g[t]
        BY <2>4, <4>3 DEF Folds
      <4> QED BY <3>2, <4>4 DEF OneOn
    <3> QED BY <3>1, <3>2
  <2>6. Folds(k, g, q, Small(i))
    BY <2>5 DEF Folds
  <2> QED BY <2>1, <2>6
<1>2. Small(Cardinality(DOMAIN q)) = SUBSET DOMAIN q
  BY <1>f, FS_Subset
<1>3. \E g : Folds(k, g, q, SUBSET DOMAIN q)
  BY <1>1, <1>2, <1>f
<1> QED BY <1>3 DEF TheFold

(* What a fold has made of the first i sections. *)
So(k, q, i) == TheFold(k, q)[1..i]

LEMMA FoldSteps ==
  ASSUME NEW k, NEW q, NEW n \in Nat, DOMAIN q = 1..n
  PROVE  /\ So(k, q, 0) = Empty
         /\ \A i \in 1..n : So(k, q, i) = Step(k, So(k, q, i - 1), q[i])
<1>1. \A s \in SUBSET DOMAIN q : TheFold(k, q)[s] = OneOn(k, TheFold(k, q), q, s)
  <2> DEFINE g == TheFold(k, q)
  <2>1. Folds(k, g, q, SUBSET DOMAIN q)
    BY FoldDefined
  <2> HIDE DEF g
  <2>2. \A s \in SUBSET DOMAIN q : g[s] = OneOn(k, g, q, s)
    BY <2>1 DEF Folds
  <2> QED BY <2>2 DEF g
<1>2. 1..0 = {}
  OBVIOUS
<1>3. So(k, q, 0) = Empty
  BY <1>1, <1>2 DEF So, OneOn
<1>4. ASSUME NEW i \in 1..n PROVE So(k, q, i) = Step(k, So(k, q, i - 1), q[i])
  <2>1. 1..i # {} /\ 1..i \subseteq 1..n /\ i \in 1..i
    OBVIOUS
  <2>2. Max(1..i) = i
    <3>1. Max(1..i) \in 1..i /\ \A x \in 1..i : x <= Max(1..i)
      BY <2>1, MaxOf
    <3> QED BY <2>1, <3>1
  <2>3. (1..i) \ {i} = 1..(i - 1)
    OBVIOUS
  <2> QED BY <1>1, <2>1, <2>2, <2>3 DEF So, OneOn
<1> QED BY <1>3, <1>4

Has(q, s, v) == \E i \in DOMAIN q : q[i].name = s /\ q[i].vars[s] = v

LEMMA SectionIs ==
  ASSUME NEW x \in Section
  PROVE  /\ DOMAIN x = {"name", "vars"} /\ x.name \in Services \cup {"General"}
         /\ DOMAIN x.vars \subseteq Services /\ DOMAIN x.vars # {} /\ x.vars \in [DOMAIN x.vars -> Nat]
<1>1. PICK S \in (SUBSET Services) \ {{}} : x.vars \in [S -> Nat]
  BY DEF Section
<1> QED BY <1>1 DEF Section

LEMMA SectionOf ==
  ASSUME NEW name \in Services \cup {"General"}, NEW vars, DOMAIN vars \subseteq Services, DOMAIN vars # {},
         vars \in [DOMAIN vars -> Nat]
  PROVE  [name |-> name, vars |-> vars] \in Section
BY DEF Section

LEMMA ValueIs ==
  ASSUME NEW q, InOrder(q), NEW s \in Plain
  PROVE  /\ \A v : Has(q, s, v) => ValueIn(q, s) = v
         /\ (~ \E v : Has(q, s, v)) => ValueIn(q, s) = 0
<1> DEFINE at == {i \in DOMAIN q : s \in DOMAIN q[i].vars}
<1>1. \A i \in DOMAIN q : i \in at <=> q[i].name = s
  BY DEF InOrder
<1>2. \A i, j \in at : i = j
  BY <1>1 DEF InOrder
<1>3. DOMAIN q \subseteq Nat
  BY DEF InOrder
<1>4. ASSUME NEW i \in at PROVE ValueIn(q, s) = q[i].vars[s]
  <2>1. \A j \in at : i <= j
    BY <1>2, <1>3
  <2>2. (CHOOSE o \in at : \A j \in at : o <= j) = i
    BY <1>2, <2>1
  <2> QED BY <2>2 DEF ValueIn
<1>5. at = {} => ValueIn(q, s) = 0
  BY DEF ValueIn
<1> QED BY <1>1, <1>4, <1>5 DEF Has

LEMMA SameValue ==
  ASSUME NEW p, NEW q, InOrder(p), InOrder(q), NEW s \in Plain, \A v : Has(p, s, v) <=> Has(q, s, v)
  PROVE  ValueIn(p, s) = ValueIn(q, s)
<1>1. CASE \E v : Has(p, s, v)
  BY <1>1, ValueIs
<1>2. CASE ~ \E v : Has(p, s, v)
  BY <1>2, ValueIs
<1> QED BY <1>1, <1>2

LEMMA BuildKeeps ==
  ASSUME NEW q, InOrder(q)
  PROVE  BuildEnvFile(q) = q
<1> DEFINE n == Len(q)
           Bad == {i \in Nat : i <= n /\ So("build", q, i) # SubSeq(q, 1, i)}
<1>1. q \in Seq(Section) /\ n \in Nat /\ DOMAIN q = 1..n
  BY DEF InOrder
<1>2. /\ So("build", q, 0) = Empty
      /\ \A i \in 1..n : So("build", q, i) = Step("build", So("build", q, i - 1), q[i])
  BY <1>1, FoldSteps
<1>3. Bad = {}
  <2> SUFFICES ASSUME Bad # {} PROVE FALSE
    OBVIOUS
  <2>1. PICK i \in Bad : \A m \in Bad : i <= m
    BY LeastNumber
  <2>2. i \in Nat /\ i <= n /\ So("build", q, i) # SubSeq(q, 1, i)
    BY <2>1
  <2>3. i # 0
    <3>1. SubSeq(q, 1, 0) = << >>
      BY <1>1
    <3> QED BY <1>2, <2>2, <3>1 DEF Empty
  <2>4. i \in 1..n /\ i - 1 \in Nat /\ i - 1 <= n /\ ~(i <= i - 1)
    BY <1>1, <2>2, <2>3
  <2>5. So("build", q, i - 1) = SubSeq(q, 1, i - 1)
    BY <2>1, <2>4
  <2>6. DOMAIN q[i].vars # {}
    BY <1>1, <2>4, SectionIs
  <2>7. So("build", q, i) = Append(SubSeq(q, 1, i - 1), q[i])
    BY <1>2, <2>4, <2>5, <2>6 DEF Step, Built
  <2>8. Append(SubSeq(q, 1, i - 1), q[i]) = SubSeq(q, 1, i)
    BY <1>1, <2>4
  <2> QED BY <2>2, <2>7, <2>8
<1>4. So("build", q, n) = SubSeq(q, 1, n)
  BY <1>1, <1>3
<1>5. SubSeq(q, 1, n) = q
  BY <1>1
<1> QED BY <1>1, <1>4, <1>5, BuildIs DEF So

-----------------------------------------------------------------------------
LEMMA Joining ==
  ASSUME NEW f, InOrder(f), \A j \in DOMAIN f : f[j].name \notin Odd,
         NEW x \in Section, \A s \in Plain : s \in DOMAIN x.vars <=> x.name = s,
         x.name \in Plain => \A j \in DOMAIN f : f[j].name # x.name
  PROVE  /\ InOrder(Joined(f, x)) /\ \A j \in DOMAIN Joined(f, x) : Joined(f, x)[j].name \notin Odd
         /\ \A s \in Plain : \A v : Has(Joined(f, x), s, v) <=> Has(f, s, v) \/ (x.name = s /\ x.vars[s] = v)
<1> DEFINE g == Joined(f, x)
           n == Len(f)
<1>0. f \in Seq(Section) /\ n \in Nat /\ DOMAIN f = 1..n /\ Plain \cap Odd = {} /\ "General" \notin Plain \cup Odd
  BY SettingsAssumption DEF InOrder
<1>x. /\ DOMAIN x.vars \subseteq Services /\ DOMAIN x.vars # {} /\ x.vars \in [DOMAIN x.vars -> Nat]
      /\ x.name \in Services \cup {"General"}
  BY SectionIs
<1>1. CASE x.name \notin Odd
  <2>1. g = Append(f, x)
    BY <1>1 DEF Joined
  <2> HIDE DEF g
  <2>2. /\ g \in Seq(Section) /\ DOMAIN g = 1..(n + 1) /\ g[n + 1] = x /\ \A j \in 1..n : g[j] = f[j]
    BY <1>0, <2>1
  <2>3. \A j \in DOMAIN g : (g[j] = x /\ j = n + 1) \/ (j \in DOMAIN f /\ g[j] = f[j])
    BY <1>0, <2>2
  <2>4. InOrder(g)
    BY <1>0, <2>2, <2>3 DEF InOrder
  <2>5. \A j \in DOMAIN g : g[j].name \notin Odd
    BY <1>1, <2>3
  <2>6. \A s \in Plain : \A v : Has(g, s, v) <=> Has(f, s, v) \/ (x.name = s /\ x.vars[s] = v)
    BY <1>0, <2>2, <2>3 DEF Has
  <2> QED BY <2>4, <2>5, <2>6 DEF g
<1>2. CASE x.name \in Odd /\ f = Empty
  <2> DEFINE y == [name |-> "General", vars |-> x.vars]
  <2>1. g = <<y>>
    BY <1>2 DEF Joined
  <2>2. y \in Section /\ y.name = "General"
    BY <1>x, SectionOf
  <2>3. y.vars = x.vars /\ \A s \in Plain : s \notin DOMAIN y.vars
    BY <1>0, <1>2
  <2> HIDE DEF y, g
  <2>4. g \in Seq(Section) /\ DOMAIN g = {1} /\ g[1] = y
    BY <2>1, <2>2
  <2>5. InOrder(g) /\ \A j \in DOMAIN g : g[j].name \notin Odd
    BY <1>0, <2>2, <2>3, <2>4 DEF InOrder
  <2>6. \A s \in Plain : \A v : ~Has(g, s, v) /\ ~Has(f, s, v) /\ x.name # s
    BY <1>0, <1>2, <2>2, <2>4 DEF Has, Empty
  <2> QED BY <2>5, <2>6 DEF g
<1>3. CASE x.name \in Odd /\ f # Empty
  <2> DEFINE old == f[n].vars
             all == [z \in DOMAIN old \cup DOMAIN x.vars |-> IF z \in DOMAIN x.vars THEN x.vars[z] ELSE old[z]]
             y == [f[n] EXCEPT !.vars = all]
  <2>0. n \in 1..n /\ f[n] \in Section
    <3>1. n # 0
      BY <1>0, <1>3 DEF Empty
    <3> QED BY <1>0, <3>1
  <2>1. g = [f EXCEPT ![n] = y]
    BY <1>3 DEF Joined
  <2>2. DOMAIN f[n] = {"name", "vars"} /\ f[n].name \in Services \cup {"General"} /\ DOMAIN old \subseteq Services
        /\ DOMAIN old # {} /\ old \in [DOMAIN old -> Nat]
    BY <2>0, SectionIs
  <2>3. /\ DOMAIN all = DOMAIN old \cup DOMAIN x.vars /\ all \in [DOMAIN all -> Nat]
        /\ \A z \in Plain : z \notin DOMAIN x.vars
        /\ \A z \in DOMAIN old : z \notin DOMAIN x.vars => all[z] = old[z]
    BY <1>0, <1>3, <1>x, <2>2
  <2> HIDE DEF all
  <2>4. y = [name |-> f[n].name, vars |-> all]
    <3>1. f[n] = [name |-> f[n].name, vars |-> f[n].vars]
      BY <2>0 DEF Section
    <3> QED BY <2>2, <3>1
  <2>5. y \in Section /\ y.name = f[n].name /\ y.vars = all
    <3>1. DOMAIN all \subseteq Services /\ DOMAIN all # {}
      BY <1>x, <2>2, <2>3
    <3>2. [name |-> f[n].name, vars |-> all] \in Section
      BY <2>2, <2>3, <3>1, SectionOf
    <3> QED BY <2>4, <3>2
  <2>6. \A z \in Plain : (z \in DOMAIN y.vars <=> z \in DOMAIN old) /\ (z \in DOMAIN old => y.vars[z] = old[z])
    BY <2>3, <2>5
  <2> HIDE DEF y, g
  <2>7. g \in Seq(Section) /\ DOMAIN g = 1..n /\ g[n] = y /\ \A j \in 1..n : j # n => g[j] = f[j]
    BY <1>0, <2>0, <2>1, <2>5
  <2>8. \A j \in DOMAIN f : /\ g[j].name = f[j].name
                            /\ \A z \in Plain : /\ z \in DOMAIN g[j].vars <=> z \in DOMAIN f[j].vars
                                                /\ z \in DOMAIN f[j].vars => g[j].vars[z] = f[j].vars[z]
    BY <1>0, <2>0, <2>5, <2>6, <2>7
  <2>9. InOrder(g) /\ \A j \in DOMAIN g : g[j].name \notin Odd
    BY <1>0, <2>7, <2>8, ZenonT(30) DEF InOrder
  <2>10. \A s \in Plain : \A v : Has(g, s, v) <=> Has(f, s, v)
    <3>1. \A j \in DOMAIN f : \A s \in Plain : f[j].name = s => s \in DOMAIN f[j].vars
      BY DEF InOrder
    <3>2. ASSUME NEW j \in DOMAIN f, NEW s \in Plain, NEW v
          PROVE  (g[j].name = s /\ g[j].vars[s] = v) <=> (f[j].name = s /\ f[j].vars[s] = v)
      BY <2>8, <3>1
    <3>3. DOMAIN g = DOMAIN f
      BY <1>0, <2>7
    <3> HIDE DEF n, old
    <3>4. ASSUME NEW s \in Plain, NEW v PROVE Has(g, s, v) <=> Has(f, s, v)
      <4>1. \A j \in DOMAIN f : (g[j].name = s /\ g[j].vars[s] = v) <=> (f[j].name = s /\ f[j].vars[s] = v)
        BY <3>2
      <4> QED BY <3>3, <4>1 DEF Has
    <3> QED BY <3>4
  <2> QED BY <1>0, <1>3, <2>9, <2>10 DEF g
<1> QED BY <1>1, <1>2, <1>3

LEMMA ParseKeeps ==
  ASSUME NEW q, InOrder(q)
  PROVE  /\ InOrder(ParseEnvFile(q)) /\ \A j \in DOMAIN ParseEnvFile(q) : ParseEnvFile(q)[j].name \notin Odd
         /\ \A s \in Plain : ValueIn(ParseEnvFile(q), s) = ValueIn(q, s)
<1> DEFINE n == Len(q)
           f(i) == So("parse", q, i)
           HasFirst(s, v, i) == \E j \in 1..i : q[j].name = s /\ q[j].vars[s] = v
           Parsed(i) == /\ InOrder(f(i)) /\ \A j \in DOMAIN f(i) : f(i)[j].name \notin Odd
                        /\ \A s \in Plain : \A v : Has(f(i), s, v) <=> HasFirst(s, v, i)
           Bad == {i \in Nat : i <= n /\ ~Parsed(i)}
<1>1. q \in Seq(Section) /\ n \in Nat /\ DOMAIN q = 1..n
  BY DEF InOrder
<1>2. f(0) = Empty /\ \A i \in 1..n : f(i) = Joined(f(i - 1), q[i])
  <2>1. /\ So("parse", q, 0) = Empty
        /\ \A i \in 1..n : So("parse", q, i) = Step("parse", So("parse", q, i - 1), q[i])
    BY <1>1, FoldSteps
  <2> QED BY <2>1 DEF Step
<1>3. Parsed(0)
  <2>1. DOMAIN Empty = {} /\ Empty \in Seq(Section) /\ 1..0 = {}
    BY DEF Empty
  <2> QED BY <1>2, <2>1 DEF InOrder, Has
<1>4. ASSUME NEW i \in 1..n, Parsed(i - 1) PROVE Parsed(i)
  <2>1. q[i] \in Section /\ \A s \in Plain : s \in DOMAIN q[i].vars <=> q[i].name = s
    BY <1>1 DEF InOrder
  <2>2. q[i].name \in Plain => \A j \in DOMAIN f(i - 1) : f(i - 1)[j].name # q[i].name
    <3> SUFFICES ASSUME q[i].name \in Plain, NEW j \in DOMAIN f(i - 1), f(i - 1)[j].name = q[i].name PROVE FALSE
      OBVIOUS
    <3>1. Has(f(i - 1), q[i].name, f(i - 1)[j].vars[q[i].name])
      BY DEF Has
    <3>2. PICK o \in 1..(i - 1) : q[o].name = q[i].name
      BY <1>4, <3>1
    <3>3. o \in DOMAIN q /\ i \in DOMAIN q /\ o # i
      BY <1>1
    <3> QED BY <3>2, <3>3 DEF InOrder
  <2>3. /\ InOrder(Joined(f(i - 1), q[i]))
        /\ \A j \in DOMAIN Joined(f(i - 1), q[i]) : Joined(f(i - 1), q[i])[j].name \notin Odd
        /\ \A s \in Plain : \A v : Has(Joined(f(i - 1), q[i]), s, v) <=>
                                     Has(f(i - 1), s, v) \/ (q[i].name = s /\ q[i].vars[s] = v)
    <3> HIDE DEF f
    <3> QED BY <1>4, <2>1, <2>2, Joining
  <2>4. \A s, v : HasFirst(s, v, i) <=> HasFirst(s, v, i - 1) \/ (q[i].name = s /\ q[i].vars[s] = v)
    <3>1. 1..i = (1..(i - 1)) \cup {i}
      OBVIOUS
    <3> QED BY <3>1
  <2>5. f(i) = Joined(f(i - 1), q[i])
    BY <1>2
  <2> HIDE DEF f, HasFirst
  <2> QED BY <1>4, <2>3, <2>4, <2>5
<1>5. Bad = {}
  <2> SUFFICES ASSUME Bad # {} PROVE FALSE
    OBVIOUS
  <2>1. PICK i \in Bad : \A m \in Bad : i <= m
    BY LeastNumber
  <2> HIDE DEF Parsed
  <2>2. i \in 1..n /\ i - 1 \in Nat /\ i - 1 <= n /\ ~(i <= i - 1) /\ ~Parsed(i)
    BY <1>1, <1>3, <2>1
  <2>3. Parsed(i - 1)
    BY <2>1, <2>2
  <2> QED BY <1>4, <2>2, <2>3
<1>6. Parsed(n)
  <2> HIDE DEF Parsed
  <2> QED BY <1>1, <1>5
<1>7. ParseEnvFile(q) = f(n)
  BY <1>1, ParseIs DEF So
<1>8. ASSUME NEW s \in Plain PROVE \A v : Has(f(n), s, v) <=> Has(q, s, v)
  BY <1>1, <1>6 DEF Has
<1> HIDE DEF f
<1>9. ASSUME NEW s \in Plain PROVE ValueIn(f(n), s) = ValueIn(q, s)
  BY <1>6, <1>8, SameValue
<1> QED BY <1>6, <1>7, <1>9

LEMMA SavedValue ==
  ASSUME NEW q, InOrder(q), \A j \in DOMAIN q : q[j].name \notin Odd, NEW service \in Services, NEW version \in Nat
  PROVE  /\ InOrder(Saved(q, service, version))
         /\ \A s \in Plain : ValueIn(Saved(q, service, version), s) = IF s = service THEN version ELSE ValueIn(q, s)
<1> DEFINE g == Saved(q, service, version)
           n == Len(q)
<1>0. q \in Seq(Section) /\ n \in Nat /\ DOMAIN q = 1..n /\ Plain \cap Odd = {}
  BY SettingsAssumption DEF InOrder
<1>1. InOrder(g) /\ \A s \in Plain : \A v : Has(g, s, v) <=> IF s = service THEN v = version ELSE Has(q, s, v)
  <2>1. CASE \E i \in DOMAIN q : q[i].name = service
    <3>1. PICK k \in DOMAIN q : q[k].name = service
      BY <2>1
    <3>2. service \in Plain /\ \A i \in DOMAIN q : q[i].name = service => i = k
      BY <3>1 DEF InOrder, Services
    <3> DEFINE new == With(q[k].vars, service, version)
               y == [q[k] EXCEPT !.vars = new]
    <3>3. q[k] \in Section /\ service \in DOMAIN q[k].vars /\ q[k] = [name |-> q[k].name, vars |-> q[k].vars]
      <4>1. q[k] \in Section
        BY <1>0, <3>1
      <4>2. q[k] = [name |-> q[k].name, vars |-> q[k].vars]
        BY <4>1 DEF Section
      <4> QED BY <3>1, <3>2, <4>1, <4>2 DEF InOrder
    <3>4. DOMAIN q[k].vars \subseteq Services /\ q[k].vars \in [DOMAIN q[k].vars -> Nat]
          /\ q[k].name \in Services \cup {"General"}
      BY <3>3, SectionIs
    <3>5. /\ DOMAIN new = DOMAIN q[k].vars /\ new[service] = version /\ new \in [DOMAIN new -> Nat]
          /\ \A z \in DOMAIN new : z # service => new[z] = q[k].vars[z]
      BY <3>3, <3>4 DEF With
    <3>6. y = [name |-> q[k].name, vars |-> new] /\ DOMAIN new # {} /\ DOMAIN new \subseteq Services
      BY <3>3, <3>4, <3>5
    <3>7. g = [i \in DOMAIN q |-> IF q[i].name # service THEN q[i] ELSE [q[i] EXCEPT !.vars = With(@, service, version)]]
      BY <2>1 DEF Saved
    <3>8. DOMAIN g = DOMAIN q /\ \A i \in DOMAIN q : g[i] = IF i = k THEN y ELSE q[i]
      BY <3>1, <3>2, <3>7
    <3> HIDE DEF new
    <3>9. y \in Section /\ y.name = q[k].name /\ y.vars = new
      BY <3>4, <3>5, <3>6, SectionOf
    <3> HIDE DEF y
    <3>10. g \in Seq(Section)
      BY <1>0, <3>7, <3>8, <3>9
    <3> HIDE DEF g, n
    <3>11. InOrder(g)
      <4>1. \A i \in DOMAIN q : g[i].name = q[i].name /\ DOMAIN g[i].vars = DOMAIN q[i].vars
        BY <3>5, <3>8, <3>9
      <4> QED BY <3>8, <3>10, <4>1 DEF InOrder
    <3>12. ASSUME NEW s \in Plain, NEW v PROVE Has(g, s, v) <=> IF s = service THEN v = version ELSE Has(q, s, v)
      <4>1. CASE s = service
        BY <3>1, <3>2, <3>5, <3>8, <3>9, <4>1 DEF Has
      <4>2. CASE s # service
        BY <3>1, <3>8, <3>9, <4>2 DEF Has
      <4> QED BY <4>1, <4>2
    <3> QED BY <3>11, <3>12
  <2>2. CASE ~ \E i \in DOMAIN q : q[i].name = service
    <3> DEFINE new == With(<<>>, service, version)
               y == [name |-> service, vars |-> new]
    <3>1. DOMAIN new = {service} /\ new[service] = version /\ new \in [DOMAIN new -> Nat]
      <4>1. DOMAIN <<>> = {}
        OBVIOUS
      <4> QED BY <4>1 DEF With
    <3>2. g = Append(q, y)
      BY <2>2 DEF Saved
    <3> HIDE DEF new
    <3>3. y \in Section /\ y.name = service /\ y.vars = new
      BY <3>1, SectionOf
    <3> HIDE DEF y, g
    <3>4. g \in Seq(Section) /\ DOMAIN g = 1..(n + 1) /\ g[n + 1] = y /\ \A i \in 1..n : g[i] = q[i]
      BY <1>0, <3>2, <3>3
    <3>5. \A j \in DOMAIN g : (g[j] = y /\ j = n + 1) \/ (j \in DOMAIN q /\ g[j] = q[j])
      BY <1>0, <3>4
    <3>6. DOMAIN q \subseteq DOMAIN g /\ n + 1 \in DOMAIN g
      BY <1>0, <3>4
    <3> HIDE DEF n
    <3>7. InOrder(g)
      BY <2>2, <3>1, <3>3, <3>4, <3>5 DEF InOrder
    <3>8. ASSUME NEW s \in Plain, NEW v PROVE Has(g, s, v) <=> IF s = service THEN v = version ELSE Has(q, s, v)
      <4>1. CASE s = service
        BY <2>2, <3>1, <3>3, <3>4, <3>5, <3>6, <4>1 DEF Has
      <4>2. CASE s # service
        BY <1>0, <3>3, <3>4, <3>5, <3>6, <4>2 DEF Has
      <4> QED BY <4>1, <4>2
    <3> QED BY <3>7, <3>8
  <2> QED BY <2>1, <2>2
<1> HIDE DEF g, n
<1>2. ASSUME NEW s \in Plain PROVE ValueIn(g, s) = IF s = service THEN version ELSE ValueIn(q, s)
  <2>1. CASE s = service
    <3>1. Has(g, s, version)
      BY <1>1, <2>1
    <3> QED BY <1>1, <2>1, <3>1, ValueIs
  <2>2. CASE s # service
    BY <1>1, <2>2, SameValue
  <2> QED BY <2>1, <2>2
<1> QED BY <1>1, <1>2 DEF g

LEMMA DeletedValue ==
  ASSUME NEW q, InOrder(q), NEW service \in Plain, \E i \in DOMAIN q : q[i].name = service
  PROVE  /\ InOrder(Deleted(q, service))
         /\ \A s \in Plain : ValueIn(Deleted(q, service), s) = IF s = service THEN 0 ELSE ValueIn(q, s)
<1> DEFINE g == Deleted(q, service)
           n == Len(q)
           k == CHOOSE i \in DOMAIN q : q[i].name = service
<1>0. q \in Seq(Section) /\ n \in Nat /\ DOMAIN q = 1..n
  BY DEF InOrder
<1>1. k \in 1..n /\ q[k].name = service /\ \A i \in DOMAIN q : q[i].name = service => i = k
  BY <1>0 DEF InOrder
<1>2. g = RemoveAt(q, k)
  BY DEF Deleted
<1> HIDE DEF g, k
<1>3. g \in Seq(Section) /\ DOMAIN g = 1..(n - 1) /\ \A j \in 1..(n - 1) : g[j] = q[IF j < k THEN j ELSE j + 1]
  BY <1>0, <1>1, <1>2, RemovedAt
<1> DEFINE from(j) == IF j < k THEN j ELSE j + 1
<1>4. \A j \in DOMAIN g : from(j) \in DOMAIN q /\ from(j) # k /\ g[j] = q[from(j)]
  BY <1>0, <1>1, <1>3
<1>5. \A i, j \in DOMAIN g : from(i) = from(j) => i = j
  BY <1>0, <1>1, <1>3
<1>6. \A i \in DOMAIN q : i # k => \E j \in DOMAIN g : from(j) = i
  <2> TAKE i \in DOMAIN q
  <2>1. CASE i < k
    BY <1>0, <1>1, <1>3, <2>1
  <2>2. CASE i > k
    <3>1. i - 1 \in DOMAIN g /\ from(i - 1) = i
      BY <1>0, <1>1, <1>3, <2>2
    <3> QED BY <3>1
  <2> QED BY <1>0, <1>1, <2>1, <2>2
<1> HIDE DEF from, n
<1>7. InOrder(g)
  BY <1>3, <1>4, <1>5 DEF InOrder
<1>8. ASSUME NEW s \in Plain, NEW v PROVE Has(g, s, v) <=> s # service /\ Has(q, s, v)
  <2>1. ASSUME Has(g, s, v) PROVE s # service /\ Has(q, s, v)
    BY <1>1, <1>4, <2>1 DEF Has
  <2>2. ASSUME s # service, Has(q, s, v) PROVE Has(g, s, v)
    <3>1. PICK i \in DOMAIN q : q[i].name = s /\ q[i].vars[s] = v
      BY <2>2 DEF Has
    <3>2. PICK j \in DOMAIN g : from(j) = i
      BY <1>1, <1>6, <2>2, <3>1
    <3> QED BY <1>4, <3>1, <3>2 DEF Has
  <2> QED BY <2>1, <2>2
<1>9. ASSUME NEW s \in Plain PROVE ValueIn(g, s) = IF s = service THEN 0 ELSE ValueIn(q, s)
  <2>1. CASE s = service
    BY <1>7, <1>8, <2>1, ValueIs
  <2>2. CASE s # service
    <3>1. \A v : Has(g, s, v) <=> Has(q, s, v)
      BY <1>8, <2>2
    <3> QED BY <1>7, <2>2, <3>1, SameValue
  <2> QED BY <2>1, <2>2
<1> QED BY <1>7, <1>9 DEF g

-----------------------------------------------------------------------------
LEMMA FileIs == \A s : InFile(s) = ValueIn(env, s)
BY DEF InFile, ValueIn

(* While requests overlap no service is sure, and nothing is to be shown.  *)
LEMMA MetKeeps ==
  ASSUME EditsTyped', FilesInOrder', met', unsure' = Services
  PROVE  SettingsInv'
BY DEF SettingsInv

LEMMA ReadsEnvKeeps ==
  ASSUME SettingsInv, NEW c \in SettingCalls, NEW op \in {"save", "delete"}, NEW service \in Services,
         NEW version \in Nat, versions' \in Nat, ReadsEnv(c, op, service, version)
  PROVE  SettingsInv'
<1>t. EditsTyped /\ FilesInOrder
  BY DEF SettingsInv
<1> DEFINE r == [NoEdit EXCEPT !.at = "read", !.op = op, !.service = service, !.version = version]
<1>1. /\ edit[c].at = "idle" /\ edit' = [edit EXCEPT ![c] = r] /\ UNCHANGED <<env, runtime>>
      /\ met' = (met \/ \E d \in SettingCalls : edit[d].at # "idle")
      /\ unsure' = IF \E d \in SettingCalls : edit[d].at # "idle" THEN Services ELSE unsure
  BY DEF ReadsEnv, Editing
<1>2. r.at = "read" /\ r.op = op /\ r.service = service /\ r.version = version
      /\ DOMAIN r = {"at", "op", "service", "version", "write"}
  BY DEF NoEdit
<1> HIDE DEF r
<1>3. DOMAIN edit' = SettingCalls /\ edit'[c] = r /\ \A d \in SettingCalls : d # c => edit'[d] = edit[d]
  BY <1>1, <1>t DEF EditsTyped
<1>4. EditsTyped'
  BY <1>t, <1>1, <1>2, <1>3 DEF EditsTyped
<1>5. FilesInOrder'
  BY <1>t, <1>1, <1>2, <1>3 DEF FilesInOrder
<1>6. CASE met'
  <2>1. unsure' = Services
    BY <1>1, <1>6 DEF SettingsInv
  <2> QED BY <1>4, <1>5, <1>6, <2>1, MetKeeps
<1>7. ASSUME ~met' PROVE EditsAlone' /\ FileRight' /\ \A d \in SettingCalls : edit'[d].at \notin {"open", "write"}
  <2>1. ~met /\ unsure' = unsure /\ \A d \in SettingCalls : edit[d].at = "idle"
    BY <1>1, <1>7, <1>t DEF EditsTyped
  <2>2. FileRight
    BY <2>1 DEF SettingsInv
  <2>3. EditsAlone'
    BY <1>3, <2>1 DEF EditsAlone, Editing
  <2>4. \A d \in SettingCalls : edit'[d].at \notin {"open", "write"}
    BY <1>2, <1>3, <2>1
  <2> QED BY <1>1, <2>1, <2>2, <2>3, <2>4 DEF FileRight
<1> QED BY <1>4, <1>5, <1>6, <1>7 DEF SettingsInv

(* A request ends.  The file is to be right about the services that are    *)
(* sure then, unless requests overlapped.                                  *)
LEMMA EndsKeeps ==
  ASSUME SettingsInv, NEW c \in SettingCalls, edit[c].at # "idle", Ends(c), versions' = versions,
         DOMAIN runtime' = Services, InOrder(env'), unsure' \subseteq Services, met => unsure' = Services,
         ~met => \A s \in Plain \ unsure' : ValueIn(env', s) = runtime'[s]
  PROVE  SettingsInv'
<1>t. EditsTyped /\ FilesInOrder
  BY DEF SettingsInv
<1>1. /\ edit' = [edit EXCEPT ![c] = NoEdit] /\ edit'[c] = NoEdit /\ NoEdit.at = "idle" /\ DOMAIN edit' = SettingCalls
      /\ \A d \in SettingCalls : d # c => edit'[d] = edit[d]
      /\ met' = (met /\ \E d \in SettingCalls \ {c} : edit[d].at # "idle")
  BY <1>t DEF Ends, Editing, EditsTyped, NoEdit
<1>2. EditsTyped'
  BY <1>t, <1>1 DEF EditsTyped, NoEdit
<1>3. FilesInOrder'
  BY <1>t, <1>1 DEF FilesInOrder
<1>4. CASE met'
  BY <1>1, <1>2, <1>3, <1>4, MetKeeps
<1>5. CASE ~met'
  <2>1. \A d \in SettingCalls : edit'[d].at = "idle"
    <3>1. \A d \in SettingCalls : d # c => edit[d].at = "idle"
      <4>1. CASE met
        BY <1>1, <1>5, <4>1
      <4>2. CASE ~met
        BY <4>2 DEF SettingsInv, EditsAlone, Editing
      <4> QED BY <4>1, <4>2
    <3> QED BY <1>1, <3>1
  <2>2. \A s \in Plain \ unsure' : ValueIn(env', s) = runtime'[s]
    BY DEF Services
  <2>3. FileRight'
    BY <2>2 DEF FileRight
  <2> QED BY <1>2, <1>3, <1>5, <2>1, <2>3 DEF SettingsInv, EditsAlone, Editing
<1> QED BY <1>4, <1>5

(* What a request makes of the sections it has read, all of the file or,   *)
(* of a save, none; sure are the services its sections are right about.    *)
LEMMA EditsKeeps ==
  ASSUME SettingsInv, NEW c \in SettingCalls, edit[c].at = "read", NEW q, InOrder(q),
         \A j \in DOMAIN q : q[j].name \notin Odd, Edits(c, q), UNCHANGED <<env, versions>>,
         unsure' \subseteq Services, unsure \subseteq unsure',
         \A s \in Plain \ unsure' : (s = edit[c].service /\ edit[c].op = "save") \/ ValueIn(q, s) = ValueIn(env, s)
  PROVE  SettingsInv'
<1> DEFINE service == edit[c].service
           there == \E i \in DOMAIN q : q[i].name = service
           save == /\ edit[c].op = "save" /\ runtime' = [runtime EXCEPT ![service] = edit[c].version] /\ met' = met
                   /\ edit' = [edit EXCEPT ![c].at = "open", ![c].write = BuildEnvFile(Saved(q, service, edit[c].version))]
           delete == /\ edit[c].op # "save" /\ UNCHANGED runtime /\ there /\ met' = met
                     /\ edit' = [edit EXCEPT ![c].at = "open", ![c].write = BuildEnvFile(Deleted(q, service))]
           nothing == UNCHANGED runtime /\ Ends(c)
<1>t. EditsTyped /\ FilesInOrder
  BY DEF SettingsInv
<1>1. save \/ delete \/ nothing
  BY DEF Edits
<1>e. ~met => \A s \in Plain \ unsure : ValueIn(env, s) = runtime[s]
  <2> SUFFICES ASSUME ~met PROVE \A s \in Plain \ unsure : ValueIn(env, s) = runtime[s]
    OBVIOUS
  <2>1. \A d \in SettingCalls : edit[d].at \notin {"open", "write"}
    BY DEF SettingsInv, EditsAlone, Editing
  <2> QED BY <2>1 DEF SettingsInv, FileRight
<1>z. ASSUME nothing PROVE SettingsInv'
  <2>1. \A s \in Plain \ unsure' : s \in Plain \ unsure
    OBVIOUS
  <2> QED BY <1>t, <1>z, <1>e, <2>1, EndsKeeps DEF SettingsInv, EditsTyped, FilesInOrder
<1> SUFFICES ASSUME save \/ delete PROVE SettingsInv'
  BY <1>1, <1>z
<1>s. service \in Services /\ edit[c].version \in Nat /\ edit[c].op \in {"save", "delete"}
  BY <1>t DEF EditsTyped
<1>2. /\ DOMAIN edit' = SettingCalls /\ \A d \in SettingCalls : d # c => edit'[d] = edit[d]
      /\ edit'[c].at = "open" /\ edit'[c].op = edit[c].op /\ edit'[c].service = service
      /\ DOMAIN edit'[c] = DOMAIN edit[c] /\ edit'[c].version = edit[c].version
  BY <1>t DEF EditsTyped
<1>4. EditsTyped'
  <2>1. DOMAIN runtime' = Services /\ met' = met
    BY <1>t DEF EditsTyped
  <2> QED BY <1>t, <1>s, <1>2, <2>1 DEF EditsTyped
<1>a. save => LET new == Saved(q, service, edit[c].version)
              IN /\ edit'[c].write = new /\ InOrder(new)
                 /\ \A s \in Plain : ValueIn(new, s) = IF s = service THEN edit[c].version ELSE ValueIn(q, s)
  <2> SUFFICES ASSUME save
               PROVE  LET new == Saved(q, service, edit[c].version)
                      IN /\ edit'[c].write = new /\ InOrder(new)
                         /\ \A s \in Plain : ValueIn(new, s) = IF s = service THEN edit[c].version ELSE ValueIn(q, s)
    OBVIOUS
  <2> DEFINE new == Saved(q, service, edit[c].version)
  <2>1. InOrder(new) /\ \A s \in Plain : ValueIn(new, s) = IF s = service THEN edit[c].version ELSE ValueIn(q, s)
    BY <1>s, SavedValue
  <2>2. BuildEnvFile(new) = new
    BY <2>1, BuildKeeps
  <2> HIDE DEF new
  <2>3. edit'[c].write = new
    BY <1>t, <2>2 DEF EditsTyped, new
  <2> QED BY <2>1, <2>3 DEF new
<1>b. delete => LET new == Deleted(q, service)
                IN /\ edit'[c].write = new /\ InOrder(new)
                   /\ \A s \in Plain : ValueIn(new, s) = IF s = service THEN 0 ELSE ValueIn(q, s)
  <2> SUFFICES ASSUME delete
               PROVE  LET new == Deleted(q, service)
                      IN /\ edit'[c].write = new /\ InOrder(new)
                         /\ \A s \in Plain : ValueIn(new, s) = IF s = service THEN 0 ELSE ValueIn(q, s)
    OBVIOUS
  <2> DEFINE new == Deleted(q, service)
  <2>0. service \in Plain
    BY <1>s DEF Services
  <2>1. InOrder(new) /\ \A s \in Plain : ValueIn(new, s) = IF s = service THEN 0 ELSE ValueIn(q, s)
    BY <2>0, DeletedValue
  <2>2. BuildEnvFile(new) = new
    BY <2>1, BuildKeeps
  <2> HIDE DEF new
  <2>3. edit'[c].write = new
    BY <1>t, <2>2 DEF EditsTyped, new
  <2> QED BY <2>1, <2>3 DEF new
<1> HIDE DEF save, delete
<1>5. FilesInOrder'
  <2>1. InOrder(edit'[c].write)
    BY <1>a, <1>b
  <2>2. \A d \in SettingCalls : edit'[d].at \in {"open", "write"} => InOrder(edit'[d].write)
    BY <1>t, <1>2, <2>1 DEF FilesInOrder
  <2> QED BY <1>t, <2>2 DEF FilesInOrder
<1>6. CASE met
  <2>1. met' /\ unsure' = Services
    BY <1>6 DEF SettingsInv, save, delete
  <2> QED BY <1>4, <1>5, <2>1, MetKeeps
<1>7. CASE ~met
  <2>1. \A d \in SettingCalls : d # c => edit[d].at = "idle"
    BY <1>7 DEF SettingsInv, EditsAlone, Editing
  <2>2. \A s \in Plain \ unsure' : s \in Plain \ unsure /\ ValueIn(env, s) = runtime[s]
    BY <1>e, <1>7
  <2>3. EditsAlone' /\ \A d \in SettingCalls : edit'[d].at # "idle" => d = c
    BY <1>2, <2>1 DEF EditsAlone, Editing
  <2>4. ~met'
    BY <1>7 DEF save, delete
  <2>5. CASE save
    <3>1. \A s \in Plain : runtime'[s] = IF s = service THEN edit[c].version ELSE runtime[s]
      BY <1>t, <2>5 DEF EditsTyped, Services, save
    <3>2. edit'[c].at = "open" /\ edit'[c].op = "save" /\ edit'[c].service = service
      BY <1>2, <2>5 DEF save
    <3>3. WriteRight(c)'
      BY <1>a, <2>2, <2>5, <3>1, <3>2 DEF WriteRight
    <3>4. FileRight'
      BY <2>2, <3>1, <3>2 DEF FileRight
    <3> QED BY <1>4, <1>5, <2>3, <2>4, <3>3, <3>4 DEF SettingsInv
  <2>6. CASE delete
    <3>1. runtime' = runtime /\ edit[c].op = "delete"
      BY <1>s, <2>6 DEF delete
    <3>2. edit'[c].at = "open" /\ edit'[c].op = "delete" /\ edit'[c].service = service
      BY <1>2, <3>1
    <3>3. WriteRight(c)'
      BY <1>b, <2>2, <2>6, <3>1, <3>2 DEF WriteRight
    <3>4. FileRight'
      BY <2>2, <3>1, <3>2 DEF FileRight
    <3> QED BY <1>4, <1>5, <2>3, <2>4, <3>3, <3>4 DEF SettingsInv
  <2> QED BY <2>5, <2>6
<1> QED BY <1>6, <1>7

LEMMA RewritesKeeps ==
  ASSUME SettingsInv, NEW c \in SettingCalls, Rewrites(c)
  PROVE  SettingsInv'
<1> DEFINE q == ParseEnvFile(env)
<1>1. edit[c].at = "read" /\ Edits(c, q) /\ UNCHANGED <<env, versions>> /\ unsure' = unsure
  BY DEF Rewrites
<1>2. InOrder(env) /\ unsure \subseteq Services
  BY DEF SettingsInv, FilesInOrder, EditsTyped
<1>3. InOrder(q) /\ (\A j \in DOMAIN q : q[j].name \notin Odd) /\ \A s \in Plain : ValueIn(q, s) = ValueIn(env, s)
  BY <1>2, ParseKeeps
<1> HIDE DEF q
<1> QED BY <1>1, <1>2, <1>3, EditsKeeps

LEMMA ReadFailsKeeps ==
  ASSUME SettingsInv, NEW c \in SettingCalls, ReadFails(c)
  PROVE  SettingsInv'
<1>1. /\ edit[c].at = "read" /\ Edits(c, Empty) /\ UNCHANGED <<env, versions>>
      /\ unsure' = IF edit[c].op = "save" THEN unsure \cup (Services \ {edit[c].service}) ELSE unsure
  BY DEF ReadFails
<1>2. unsure \subseteq Services /\ edit[c].op \in {"save", "delete"} /\ InOrder(env)
  BY <1>1 DEF SettingsInv, EditsTyped, FilesInOrder
<1>3. CASE edit[c].op = "save"
  <2>1. InOrder(Empty) /\ DOMAIN Empty = {}
    BY DEF InOrder, Empty
  <2>2. \A s \in Plain \ unsure' : s = edit[c].service
    BY <1>1, <1>3 DEF Services
  <2>3. unsure' \subseteq Services /\ unsure \subseteq unsure'
    BY <1>1, <1>2, <1>3
  <2> QED BY <1>1, <1>3, <2>1, <2>2, <2>3, EditsKeeps
<1>4. CASE edit[c].op = "delete"
  <2>1. runtime' = runtime /\ unsure' = unsure /\ Ends(c)
    BY <1>1, <1>4 DEF Edits, Empty
  <2>2. ~met => \A s \in Plain \ unsure : ValueIn(env, s) = runtime[s]
    <3>1. ~met => \A d \in SettingCalls : edit[d].at \notin {"open", "write"}
      BY <1>1 DEF SettingsInv, EditsAlone, Editing
    <3> QED BY <3>1 DEF SettingsInv, FileRight
  <2> QED BY <1>1, <1>2, <2>1, <2>2, EndsKeeps DEF SettingsInv, EditsTyped
<1> QED BY <1>2, <1>3, <1>4

LEMMA OpensKeeps ==
  ASSUME SettingsInv, NEW c \in SettingCalls, OpensEnv(c)
  PROVE  SettingsInv'
<1>t. EditsTyped /\ FilesInOrder
  BY DEF SettingsInv
<1>1. /\ edit[c].at = "open" /\ env' = Empty /\ edit' = [edit EXCEPT ![c].at = "write"]
      /\ UNCHANGED <<runtime, versions, met, unsure>>
  BY DEF OpensEnv
<1>2. /\ DOMAIN edit' = SettingCalls /\ (\A d \in SettingCalls : d # c => edit'[d] = edit[d])
      /\ edit'[c].at = "write" /\ edit'[c].op = edit[c].op /\ edit'[c].service = edit[c].service
      /\ edit'[c].write = edit[c].write /\ edit'[c].version = edit[c].version /\ DOMAIN edit'[c] = DOMAIN edit[c]
  BY <1>1, <1>t DEF EditsTyped
<1>3. EditsTyped'
  BY <1>t, <1>1, <1>2 DEF EditsTyped
<1>4. FilesInOrder'
  <2>1. InOrder(Empty)
    BY DEF InOrder, Empty
  <2>2. InOrder(edit[c].write)
    BY <1>t, <1>1 DEF FilesInOrder
  <2> QED BY <1>t, <1>1, <1>2, <2>1, <2>2 DEF FilesInOrder
<1>5. CASE met
  BY <1>1, <1>3, <1>4, <1>5, MetKeeps DEF SettingsInv
<1>6. CASE ~met
  <2>1. EditsAlone' /\ \A d \in SettingCalls : edit'[d].at # "idle" => d = c
    BY <1>1, <1>2, <1>6 DEF SettingsInv, EditsAlone, Editing
  <2>2. WriteRight(c)'
    <3>1. WriteRight(c)
      BY <1>1, <1>6 DEF SettingsInv
    <3> QED BY <1>1, <1>2, <3>1 DEF WriteRight
  <2> QED BY <1>1, <1>2, <1>3, <1>4, <1>6, <2>1, <2>2 DEF SettingsInv
<1> QED BY <1>5, <1>6

LEMMA WritesKeeps ==
  ASSUME SettingsInv, NEW c \in SettingCalls, Writes(c)
  PROVE  SettingsInv'
<1>t. EditsTyped /\ FilesInOrder
  BY DEF SettingsInv
<1> DEFINE service == edit[c].service
<1>1. /\ edit[c].at = "write" /\ env' = edit[c].write /\ Ends(c) /\ versions' = versions
      /\ runtime' = [s \in Services |-> IF edit[c].op = "delete" /\ s \in Under(service) THEN 0 ELSE runtime[s]]
      /\ unsure' = IF met THEN unsure
                   ELSE (IF edit[c].op = "delete" THEN unsure \cup Under(service) ELSE unsure) \ {service}
  BY DEF Writes, Settled
<1>2. InOrder(env') /\ DOMAIN runtime' = Services
  BY <1>t, <1>1 DEF FilesInOrder
<1>3. service \in Services /\ Under(service) \subseteq Services /\ service \in Under(service)
  BY <1>t, <1>1 DEF EditsTyped, Under
<1>4. unsure' \subseteq Services /\ (met => unsure' = Services)
  BY <1>t, <1>1, <1>3 DEF SettingsInv, EditsTyped
<1>5. ASSUME ~met, NEW s \in Plain \ unsure' PROVE ValueIn(env', s) = runtime'[s]
  <2>1. WriteRight(c) /\ s \in Services
    BY <1>1, <1>5 DEF SettingsInv, Services
  <2>2. s \notin unsure \/ s = service
    BY <1>1, <1>5
  <2>3. edit[c].op = "delete" => (s \in Under(service) <=> s = service)
    BY <1>1, <1>3, <1>5
  <2> QED BY <1>1, <2>1, <2>2, <2>3 DEF WriteRight
<1> QED BY <1>1, <1>2, <1>4, <1>5, EndsKeeps

LEMMA WriteFailsKeeps ==
  ASSUME SettingsInv, NEW c \in SettingCalls, EnvWriteFails(c)
  PROVE  SettingsInv'
<1>t. EditsTyped /\ FilesInOrder
  BY DEF SettingsInv
<1>1. /\ edit[c].at \in {"open", "write"} /\ Ends(c) /\ UNCHANGED <<env, runtime, versions>>
      /\ edit[c].at = "write" => unsure' = Services
      /\ edit[c].at = "open" => unsure' = IF edit[c].op = "save" THEN unsure \cup {edit[c].service} ELSE unsure
  BY DEF EnvWriteFails
<1>2. unsure' \subseteq Services /\ (met => unsure' = Services)
  BY <1>t, <1>1 DEF SettingsInv, EditsTyped
<1>3. ASSUME ~met, NEW s \in Plain \ unsure' PROVE ValueIn(env', s) = runtime'[s]
  <2>1. edit[c].at = "open" /\ s \notin unsure /\ (edit[c].op = "save" => s # edit[c].service)
    BY <1>1, <1>3 DEF Services
  <2>2. FileRight /\ \A d \in SettingCalls : edit[d].at = "open" => d = c
    BY <1>3, <2>1 DEF SettingsInv, EditsAlone, Editing
  <2> QED BY <1>1, <2>1, <2>2 DEF FileRight
<1> QED BY <1>t, <1>1, <1>2, <1>3, EndsKeeps DEF EditsTyped, FilesInOrder

LEMMA RestartKeeps ==
  ASSUME SettingsInv, Restarts
  PROVE  SettingsInv'
<1>1. /\ met' = FALSE /\ unsure' = {} /\ UNCHANGED <<env, versions>>
      /\ runtime' = [s \in Services |-> InFile(s)] /\ edit' = [c \in SettingCalls |-> NoEdit]
  BY DEF Restarts
<1>2. EditsTyped'
  BY <1>1 DEF SettingsInv, EditsTyped, NoEdit
<1>3. \A c \in SettingCalls : edit'[c].at = "idle"
  BY <1>1 DEF NoEdit
<1>4. FilesInOrder'
  BY <1>1, <1>3 DEF SettingsInv, FilesInOrder
<1>5. \A s \in Plain : runtime'[s] = ValueIn(env, s)
  BY <1>1, FileIs DEF Services
<1>6. FileRight'
  BY <1>1, <1>5 DEF FileRight
<1> QED BY <1>1, <1>2, <1>3, <1>4, <1>6 DEF SettingsInv, EditsAlone, Editing

(* Whatever services are configured and edited, and whatever fails: of the *)
(* services that no overlap, failed call or longer name leaves unsure, a   *)
(* restart finds in the file what was in use (credentials-manager.ts).     *)
THEOREM CredentialsReturn == SettingsSpec => []CredentialsPersist
<1>1. SettingsInit => SettingsInv
  <2> SUFFICES ASSUME SettingsInit PROVE SettingsInv
    OBVIOUS
  <2>1. /\ env = Empty /\ runtime = [s \in Services |-> 0] /\ edit = [c \in SettingCalls |-> NoEdit]
        /\ versions = 0 /\ met = FALSE /\ unsure = {}
    BY DEF SettingsInit
  <2>2. DOMAIN Empty = {} /\ Empty \in Seq(Section)
    BY DEF Empty
  <2>3. InOrder(env) /\ \A s \in Plain : ValueIn(env, s) = 0
    BY <2>1, <2>2 DEF InOrder, ValueIn
  <2>4. \A c \in SettingCalls : edit[c].at = "idle"
    BY <2>1 DEF NoEdit
  <2>5. FilesInOrder /\ EditsAlone /\ FileRight
    BY <2>1, <2>3, <2>4 DEF FilesInOrder, EditsAlone, Editing, FileRight, Services
  <2>6. EditsTyped
    BY <2>1 DEF EditsTyped, NoEdit
  <2> QED BY <2>1, <2>4, <2>5, <2>6 DEF SettingsInv
<1>2. SettingsInv /\ [CredentialsNext \/ AlertsNext]_settingsVars => SettingsInv'
  <2> SUFFICES ASSUME SettingsInv, [CredentialsNext \/ AlertsNext]_settingsVars PROVE SettingsInv'
    OBVIOUS
  <2>1. ASSUME NEW c \in SettingCalls, NEW s \in Services, SaveCredentials(c, s) \/ DeleteCredentials(c, s)
        PROVE  SettingsInv'
    <3>1. versions \in Nat
      BY DEF SettingsInv, EditsTyped
    <3> QED BY <2>1, <3>1, ReadsEnvKeeps DEF SaveCredentials, DeleteCredentials
  <2>2. CASE AlertsNext \/ UNCHANGED settingsVars
    BY <2>2 DEF AlertsNext, settingsVars, fileVars, SettingsInv, EditsTyped, FilesInOrder, EditsAlone, Editing,
                FileRight, WriteRight
  <2> QED BY <2>1, <2>2, RewritesKeeps, ReadFailsKeeps, OpensKeeps, WritesKeeps, WriteFailsKeeps, RestartKeeps
          DEF CredentialsNext
<1>3. SettingsInv => CredentialsPersist
  <2> SUFFICES ASSUME SettingsInv, \A c \in SettingCalls : ~Editing(c), NEW s \in Plain \ unsure
               PROVE  InFile(s) = GetCredentials(s)[s]
    BY DEF CredentialsPersist
  <2>1. ~met
    BY DEF SettingsInv, Services
  <2>2. \A c \in SettingCalls : edit[c].at = "idle"
    BY DEF Editing
  <2>3. ValueIn(env, s) = runtime[s]
    BY <2>1, <2>2 DEF SettingsInv, FileRight
  <2>4. s \in Under(s)
    BY DEF Under
  <2> QED BY <2>3, <2>4, FileIs DEF GetCredentials
<1> QED BY <1>1, <1>2, <1>3, PTL DEF SettingsSpec

-----------------------------------------------------------------------------
(* The trade history.  The stores keep the same trades (SameTrades), in    *)
(* another order; when no two are of the same time, both orders by time    *)
(* are that of the ranks.                                                  *)
HistorySpec == TradeStoresInit /\ [][TradeStoresNext]_historyVars

(* A trade as a store keeps it.  Of one trade the stores may differ in the *)
(* order ids and in the stop price, and so in how it ended when it was     *)
(* closed on records that differed.                                        *)
TradeRecord ==
  [id : Nat, owner : Owners, time : Nat, status : {"open", "closed"}, reason : Reasons \cup {"none"},
   pnl : Int, known : SUBSET Exits, stopMoved : BOOLEAN]
Alike(p, r, t) ==
  /\ r.id = t.id /\ r.owner = t.owner /\ r.time = t.time /\ r.status = t.status
  /\ r.id \notin p => r.reason = t.reason /\ r.pnl = t.pnl

HistoryTyped ==
  /\ ids \in Nat /\ clock \in Nat /\ DOMAIN rows \subseteq 1 .. ids
  /\ \A i \in DOMAIN rows : rows[i] \in TradeRecord /\ rows[i].id = i /\ (rows[i].status = "open" => rows[i].reason = "none")
  /\ kept \in Seq(TradeRecord)

(* Both stores hold the same trades, each once.                            *)
SameTrades ==
  /\ \A k \in DOMAIN kept : kept[k].id \in DOMAIN rows /\ Alike(parted, rows[kept[k].id], kept[k])
  /\ \A i \in DOMAIN rows : \E k \in DOMAIN kept : kept[k].id = i
  /\ \A j, k \in DOMAIN kept : kept[j].id = kept[k].id => j = k

StoresInv == HistoryTyped /\ SameTrades

LEMMA StoresInvInit == TradeStoresInit => StoresInv
<1> SUFFICES ASSUME TradeStoresInit PROVE StoresInv
  OBVIOUS
<1>1. rows = <<>> /\ kept = <<>> /\ DOMAIN rows = {} /\ DOMAIN kept = {} /\ kept \in Seq(TradeRecord) /\ ids = 0 /\ clock = 1
  BY DEF TradeStoresInit
<1> QED BY <1>1 DEF StoresInv, HistoryTyped, SameTrades

LEMMA Records ==
  ASSUME StoresInv
  PROVE  /\ kept \in Seq(TradeRecord) /\ Len(kept) \in Nat /\ DOMAIN kept = 1 .. Len(kept)
         /\ \A k \in DOMAIN kept : kept[k] \in TradeRecord /\ kept[k].id \in DOMAIN rows /\ rows[kept[k].id] \in TradeRecord
BY DEF StoresInv, HistoryTyped, SameTrades

LEMMA RecordKeeps ==
  ASSUME StoresInv, NEW owner \in Owners, NEW linked \in SUBSET Exits, RecordHistory(owner, linked)
  PROVE  StoresInv'
<1> DEFINE trade == [id |-> ids + 1, owner |-> owner, time |-> clock, status |-> "open", reason |-> "none",
                     pnl |-> 0, known |-> linked, stopMoved |-> FALSE]
           n == Len(kept)
<1>1. /\ ids' = ids + 1 /\ clock' = clock /\ kept' = Append(kept, trade) /\ parted' = parted
      /\ rows' = [i \in DOMAIN rows \cup {ids + 1} |-> IF i = ids + 1 THEN trade ELSE rows[i]]
  BY DEF RecordHistory
<1>2. trade \in TradeRecord /\ trade.id = ids + 1 /\ trade.status = "open" /\ trade.reason = "none" /\ ids \in Nat /\ clock \in Nat
  BY DEF StoresInv, HistoryTyped, TradeRecord
<1> HIDE DEF trade
<1>3. kept \in Seq(TradeRecord) /\ n \in Nat /\ DOMAIN kept = 1 .. n
  BY Records
<1>4. /\ kept' \in Seq(TradeRecord) /\ DOMAIN kept' = 1 .. (n + 1) /\ kept'[n + 1] = trade
      /\ \A k \in 1 .. n : kept'[k] = kept[k]
  BY <1>1, <1>2, <1>3
<1>5. HistoryTyped'
  <2>1. /\ DOMAIN rows' = DOMAIN rows \cup {ids + 1} /\ rows'[ids + 1] = trade /\ ids + 1 \notin DOMAIN rows
        /\ \A i \in DOMAIN rows : rows'[i] = rows[i]
    BY <1>1, <1>2 DEF StoresInv, HistoryTyped
  <2> QED BY <1>1, <1>2, <1>4, <2>1 DEF StoresInv, HistoryTyped, TradeRecord
<1>6. SameTrades'
  <2>1. /\ DOMAIN rows' = DOMAIN rows \cup {ids + 1} /\ rows'[ids + 1] = trade /\ ids + 1 \notin DOMAIN rows
        /\ \A i \in DOMAIN rows : rows'[i] = rows[i]
    BY <1>1, <1>2 DEF StoresInv, HistoryTyped
  <2>2. Alike(parted, trade, trade)
    BY DEF Alike
  <2>3. ASSUME NEW k \in DOMAIN kept' PROVE kept'[k].id \in DOMAIN rows' /\ Alike(parted, rows'[kept'[k].id], kept'[k])
    <3>1. CASE k = n + 1
      BY <1>2, <1>4, <2>1, <2>2, <3>1
    <3>2. CASE k # n + 1
      <4>1. k \in DOMAIN kept /\ kept'[k] = kept[k]
        BY <1>3, <1>4, <3>2
      <4>2. kept[k].id \in DOMAIN rows /\ Alike(parted, rows[kept[k].id], kept[k])
        BY <4>1 DEF StoresInv, SameTrades
      <4> QED BY <2>1, <4>1, <4>2
    <3> QED BY <3>1, <3>2
  <2>4. ASSUME NEW i \in DOMAIN rows' PROVE \E k \in DOMAIN kept' : kept'[k].id = i
    <3>1. CASE i = ids + 1
      BY <1>2, <1>3, <1>4, <3>1
    <3>2. CASE i # ids + 1
      <4>1. PICK k \in DOMAIN kept : kept[k].id = i
        BY <2>1, <3>2 DEF StoresInv, SameTrades
      <4>2. k \in DOMAIN kept' /\ kept'[k] = kept[k]
        BY <1>3, <1>4
      <4> QED BY <4>1, <4>2
    <3> QED BY <3>1, <3>2
  <2>5. ASSUME NEW j \in DOMAIN kept', NEW k \in DOMAIN kept', kept'[j].id = kept'[k].id PROVE j = k
    <3>1. \A l \in DOMAIN kept' : l # n + 1 => l \in DOMAIN kept /\ kept'[l] = kept[l] /\ kept[l].id # ids + 1
      <4>1. \A l \in DOMAIN kept : kept[l].id # ids + 1
        BY <2>1 DEF StoresInv, SameTrades
      <4> QED BY <1>3, <1>4, <4>1
    <3>2. CASE j = n + 1 \/ k = n + 1
      BY <1>2, <1>4, <2>5, <3>1, <3>2
    <3>3. CASE j # n + 1 /\ k # n + 1
      BY <2>5, <3>1, <3>3 DEF StoresInv, SameTrades
    <3> QED BY <3>2, <3>3
  <2> QED BY <1>1, <2>3, <2>4, <2>5 DEF SameTrades
<1> QED BY <1>5, <1>6 DEF StoresInv

LEMMA DeleteKeeps ==
  ASSUME StoresInv, NEW id \in DOMAIN rows, DeleteHistory(id)
  PROVE  StoresInv'
<1> DEFINE n == Len(kept)
           k == CHOOSE l \in DOMAIN kept : kept[l].id = id
           from(j) == IF j < k THEN j ELSE j + 1
<1>1. /\ ids' = ids /\ clock' = clock /\ kept' = RemoveAt(kept, k) /\ parted' = parted \ {id}
      /\ rows' = [i \in DOMAIN rows \ {id} |-> rows[i]]
  BY DEF DeleteHistory
<1>2. kept \in Seq(TradeRecord) /\ n \in Nat /\ DOMAIN kept = 1 .. n
  BY Records
<1>3. k \in 1 .. n /\ kept[k].id = id /\ \A l \in DOMAIN kept : kept[l].id = id => l = k
  BY <1>2 DEF StoresInv, SameTrades
<1> HIDE DEF k
<1>4. /\ kept' \in Seq(TradeRecord) /\ DOMAIN kept' = 1 .. (n - 1)
      /\ \A j \in 1 .. (n - 1) : kept'[j] = kept[from(j)]
  BY <1>1, <1>2, <1>3, RemovedAt
<1>5. \A j \in DOMAIN kept' : from(j) \in DOMAIN kept /\ from(j) # k /\ kept'[j] = kept[from(j)] /\ kept'[j].id # id
  BY <1>2, <1>3, <1>4
<1>6. \A i, j \in DOMAIN kept' : from(i) = from(j) => i = j
  BY <1>2, <1>3, <1>4
<1>7. \A i \in DOMAIN kept : i # k => \E j \in DOMAIN kept' : from(j) = i
  <2> TAKE i \in DOMAIN kept
  <2>1. CASE i < k
    BY <1>2, <1>3, <1>4, <2>1
  <2>2. CASE i > k
    <3>1. i - 1 \in DOMAIN kept' /\ from(i - 1) = i
      BY <1>2, <1>3, <1>4, <2>2
    <3> QED BY <3>1
  <2> QED BY <1>2, <1>3, <2>1, <2>2
<1> HIDE DEF from, n
<1>8. DOMAIN rows' = DOMAIN rows \ {id} /\ \A i \in DOMAIN rows' : rows'[i] = rows[i]
  BY <1>1
<1>9. HistoryTyped'
  BY <1>1, <1>4, <1>8 DEF StoresInv, HistoryTyped, TradeRecord
<1>10. SameTrades'
  <2>1. ASSUME NEW j \in DOMAIN kept' PROVE kept'[j].id \in DOMAIN rows' /\ Alike(parted', rows'[kept'[j].id], kept'[j])
    <3>1. /\ kept[from(j)].id \in DOMAIN rows /\ Alike(parted, rows[kept[from(j)].id], kept[from(j)])
          /\ kept'[j] = kept[from(j)] /\ kept'[j].id # id
      BY <1>5 DEF StoresInv, SameTrades
    <3>2. kept'[j].id \in DOMAIN rows' /\ rows'[kept'[j].id] = rows[kept[from(j)].id]
      BY <1>8, <3>1
    <3> QED BY <1>1, <3>1, <3>2 DEF Alike
  <2>2. ASSUME NEW i \in DOMAIN rows' PROVE \E j \in DOMAIN kept' : kept'[j].id = i
    <3>1. PICK l \in DOMAIN kept : kept[l].id = i
      BY <1>8 DEF StoresInv, SameTrades
    <3>2. l # k
      BY <1>3, <1>8, <3>1
    <3> QED BY <1>5, <1>7, <3>1, <3>2
  <2>3. ASSUME NEW i \in DOMAIN kept', NEW j \in DOMAIN kept', kept'[i].id = kept'[j].id PROVE i = j
    BY <1>5, <1>6, <2>3 DEF StoresInv, SameTrades
  <2> QED BY <2>1, <2>2, <2>3 DEF SameTrades
<1> QED BY <1>9, <1>10 DEF StoresInv

(* What an update keeps, of whatever fields but the id, the owner and the  *)
(* time of the record.                                                     *)
LEMMA UpdateKeeps ==
  ASSUME StoresInv, NEW id, NEW U, NEW V, SqlUpdate(id, U), KvUpdate(id, V), ids' = ids, clock' = clock,
         DOMAIN U = DOMAIN V, DOMAIN U \subseteq {"status", "reason", "pnl", "known", "stopMoved"},
         "status" \in DOMAIN U => U.status = "closed" /\ V.status = "closed",
         "reason" \in DOMAIN U => {U.reason, V.reason} \subseteq Reasons /\ "status" \in DOMAIN U,
         "pnl" \in DOMAIN U => {U.pnl, V.pnl} \subseteq Int,
         "known" \in DOMAIN U => {U.known, V.known} \subseteq SUBSET Exits,
         "stopMoved" \in DOMAIN U => {U.stopMoved, V.stopMoved} \subseteq BOOLEAN,
         \A i : i # id => (i \in parted' <=> i \in parted),
         id \notin parted' => /\ ("reason" \in DOMAIN U => U.reason = V.reason)
                             /\ ("pnl" \in DOMAIN U => U.pnl = V.pnl)
                             /\ (id \notin parted \/ {"reason", "pnl"} \subseteq DOMAIN U)
  PROVE  StoresInv'
<1> DEFINE Sql(r) == [f \in DOMAIN r |-> IF f \notin DOMAIN U \/ f = "stopMoved" THEN r[f]
                                         ELSE IF f = "known" THEN r.known \cup U.known ELSE U[f]]
           Kv(t) == [f \in DOMAIN t |-> IF f \in DOMAIN V THEN V[f] ELSE t[f]]
<1>1. /\ ids' = ids /\ clock' = clock
      /\ rows' = [i \in DOMAIN rows |-> IF i # id THEN rows[i] ELSE Sql(rows[i])]
      /\ kept' = [k \in DOMAIN kept |-> IF kept[k].id # id THEN kept[k] ELSE Kv(kept[k])]
  BY DEF SqlUpdate, KvUpdate
<1>2. ASSUME NEW r \in TradeRecord, r.status = "open" => r.reason = "none"
      PROVE  Sql(r) \in TradeRecord /\ Sql(r).id = r.id /\ (Sql(r).status = "open" => Sql(r).reason = "none")
  BY <1>2 DEF TradeRecord
<1>3. ASSUME NEW t \in TradeRecord
      PROVE  Kv(t) \in TradeRecord /\ Kv(t).id = t.id
  BY DEF TradeRecord
<1>4. ASSUME NEW r \in TradeRecord, NEW t \in TradeRecord, Alike(parted, r, t), r.id = id
      PROVE  Alike(parted', Sql(r), Kv(t))
  BY <1>4 DEF TradeRecord, Alike
<1> HIDE DEF Sql, Kv
<1>5. kept \in Seq(TradeRecord) /\ Len(kept) \in Nat /\ DOMAIN kept = 1 .. Len(kept)
  BY Records
<1>6. /\ DOMAIN kept' = DOMAIN kept
      /\ \A k \in DOMAIN kept : kept'[k] \in TradeRecord /\ kept'[k].id = kept[k].id
  BY <1>1, <1>3, <1>5
<1>7. kept' \in Seq(TradeRecord)
  BY <1>1, <1>5, <1>6
<1>8. /\ DOMAIN rows' = DOMAIN rows
      /\ \A i \in DOMAIN rows : rows'[i] \in TradeRecord /\ rows'[i].id = i /\ (rows'[i].status = "open" => rows'[i].reason = "none")
  BY <1>1, <1>2 DEF StoresInv, HistoryTyped
<1>9. HistoryTyped'
  BY <1>1, <1>7, <1>8 DEF StoresInv, HistoryTyped, TradeRecord
<1>10. ASSUME NEW k \in DOMAIN kept
       PROVE  Alike(parted', rows'[kept[k].id], kept'[k])
  <2>1. /\ kept[k].id \in DOMAIN rows /\ Alike(parted, rows[kept[k].id], kept[k])
        /\ rows[kept[k].id] \in TradeRecord /\ kept[k] \in TradeRecord /\ rows[kept[k].id].id = kept[k].id
    BY <1>5 DEF StoresInv, HistoryTyped, SameTrades
  <2>2. CASE kept[k].id = id
    BY <1>1, <1>4, <2>1, <2>2
  <2>3. CASE kept[k].id # id
    BY <1>1, <2>1, <2>3 DEF Alike
  <2> QED BY <2>2, <2>3
<1>11. SameTrades'
  BY <1>6, <1>8, <1>10 DEF StoresInv, SameTrades
<1> QED BY <1>9, <1>11 DEF StoresInv

LEMMA StoresInvStep == StoresInv /\ [TradeStoresNext]_historyVars => StoresInv'
<1> SUFFICES ASSUME StoresInv, [TradeStoresNext]_historyVars PROVE StoresInv'
  OBVIOUS
<1>1. CASE \E owner \in Owners, linked \in SUBSET Exits : RecordHistory(owner, linked)
  BY <1>1, RecordKeeps
<1>2. ASSUME NEW id \in DOMAIN rows, CloseHistory(id) PROVE StoresInv'
  <2> DEFINE sql == rows[id]
             kv == kept[CHOOSE k \in DOMAIN kept : kept[k].id = id]
  <2>1. PICK filled \in SUBSET Exits, profit \in [SUBSET Exits -> Profits], nearer \in [BOOLEAN -> Guesses] :
          /\ SqlUpdate(id, ExitOf(sql, filled, profit, nearer)) /\ KvUpdate(id, ExitOf(kv, filled, profit, nearer))
          /\ parted' = IF sql.known = kv.known /\ sql.stopMoved = kv.stopMoved THEN parted \ {id} ELSE parted \cup {id}
          /\ ids' = ids /\ clock' = clock
    BY <1>2 DEF CloseHistory
  <2>2. sql \in TradeRecord /\ kv \in TradeRecord
    BY Records DEF StoresInv, HistoryTyped, SameTrades
  <2> HIDE DEF sql, kv
  <2> DEFINE U == ExitOf(sql, filled, profit, nearer)
             V == ExitOf(kv, filled, profit, nearer)
  <2>3. DOMAIN U = {"status", "reason", "pnl"} /\ DOMAIN V = DOMAIN U /\ U.status = "closed" /\ V.status = "closed"
    BY DEF ExitOf
  <2>4. ASSUME NEW t \in TradeRecord
        PROVE  ExitOf(t, filled, profit, nearer).pnl \in Int /\ ExitOf(t, filled, profit, nearer).reason \in Reasons
    <3>1. filled \cap t.known \in SUBSET Exits /\ t.stopMoved \in BOOLEAN
      BY DEF TradeRecord
    <3>2. profit[filled \cap t.known] \in Int /\ nearer[t.stopMoved] \in Reasons
      BY <3>1, HistoryAssumption DEF Reasons
    <3> QED BY <3>2 DEF ExitOf, Reasons
  <2>5. id \notin parted' => U = V
    BY <2>1 DEF ExitOf
  <2>6. \A i : i # id => (i \in parted' <=> i \in parted)
    BY <2>1
  <2>7. U.pnl \in Int /\ V.pnl \in Int /\ U.reason \in Reasons /\ V.reason \in Reasons
    BY <2>2, <2>4
  <2>8. SqlUpdate(id, U) /\ KvUpdate(id, V) /\ ids' = ids /\ clock' = clock
    BY <2>1
  <2> HIDE DEF U, V
  <2> QED BY <2>3, <2>5, <2>6, <2>7, <2>8, UpdateKeeps
<1>3. ASSUME NEW id \in DOMAIN rows, UpdateHistoryIds(id) PROVE StoresInv'
  <2>1. PICK linked \in SUBSET Exits : UpdateTrade(id, [known |-> linked])
    BY <1>3 DEF UpdateHistoryIds
  <2> DEFINE updates == [known |-> linked]
  <2>2. DOMAIN updates = {"known"} /\ updates.known \in SUBSET Exits
    OBVIOUS
  <2>3. SqlUpdate(id, updates) /\ KvUpdate(id, updates) /\ ids' = ids /\ clock' = clock /\ parted' = parted
    BY <2>1 DEF UpdateTrade
  <2> HIDE DEF updates
  <2> QED BY <2>2, <2>3, UpdateKeeps
<1>4. ASSUME NEW id \in DOMAIN rows, UpdateHistoryStops(id) PROVE StoresInv'
  <2> DEFINE updates == [stopMoved |-> TRUE]
  <2>1. DOMAIN updates = {"stopMoved"} /\ updates.stopMoved = TRUE
    OBVIOUS
  <2>2. SqlUpdate(id, updates) /\ KvUpdate(id, updates) /\ ids' = ids /\ clock' = clock /\ parted' = parted
    BY <1>4 DEF UpdateHistoryStops, UpdateTrade
  <2> HIDE DEF updates
  <2> QED BY <2>1, <2>2, UpdateKeeps
<1>5. ASSUME NEW id \in DOMAIN rows, DeleteHistory(id) PROVE StoresInv'
  BY <1>5, DeleteKeeps
<1>6. CASE ClockTicks
  BY <1>6 DEF ClockTicks, StoresInv, HistoryTyped, SameTrades, Alike, TradeRecord
<1>7. CASE UNCHANGED historyVars
  BY <1>7 DEF historyVars, StoresInv, HistoryTyped, SameTrades, Alike, TradeRecord
<1> QED BY <1>1, <1>2, <1>3, <1>4, <1>5, <1>6, <1>7 DEF TradeStoresNext

-----------------------------------------------------------------------------
(* Sorting.  The rank of an element is how many are above it; when no two  *)
(* are level, each rank below the number of elements is that of one.       *)
Above(S, at, x) == {y \in S : at[y] > at[x]}
Rank(S, at, x) == Cardinality(Above(S, at, x))
Levels(S, at) ==
  /\ IsFiniteSet(S) /\ \A x \in S : at[x] \in Int
  /\ \A x, y \in S : at[x] = at[y] => x = y

LEMMA RankBound ==
  ASSUME NEW S, NEW at, Levels(S, at)
  PROVE  /\ Cardinality(S) \in Nat
         /\ \A x \in S : Rank(S, at, x) \in 0 .. (Cardinality(S) - 1)
         /\ \A x, y \in S : Rank(S, at, x) = Rank(S, at, y) => x = y
<1>1. Cardinality(S) \in Nat
  BY FS_CardinalityType DEF Levels
<1>2. \A x \in S : IsFiniteSet(Above(S, at, x)) /\ Rank(S, at, x) \in Nat
  BY FS_Subset, FS_CardinalityType DEF Levels, Above, Rank
<1>3. ASSUME NEW x \in S PROVE Rank(S, at, x) <= Cardinality(S) - 1
  <2>1. IsFiniteSet(S \ {x}) /\ Cardinality(S \ {x}) = Cardinality(S) - 1
    BY FS_RemoveElement DEF Levels
  <2>2. Above(S, at, x) \in SUBSET (S \ {x})
    BY DEF Above, Levels
  <2> QED BY <2>1, <2>2, FS_Subset DEF Rank
<1>4. ASSUME NEW x \in S, NEW y \in S, at[x] > at[y] PROVE Rank(S, at, x) < Rank(S, at, y)
  <2>1. x \in Above(S, at, y)
    BY <1>4 DEF Above
  <2>2. /\ IsFiniteSet(Above(S, at, y) \ {x})
        /\ Cardinality(Above(S, at, y) \ {x}) = Rank(S, at, y) - 1
    BY <1>2, <2>1, FS_RemoveElement DEF Rank
  <2>3. Above(S, at, x) \in SUBSET (Above(S, at, y) \ {x})
    BY <1>4 DEF Above, Levels
  <2>4. Rank(S, at, x) <= Rank(S, at, y) - 1
    BY <2>2, <2>3, FS_Subset DEF Rank
  <2> QED BY <1>2, <2>4
<1>5. ASSUME NEW x \in S, NEW y \in S, Rank(S, at, x) = Rank(S, at, y) PROVE x = y
  <2>1. ~(at[x] > at[y]) /\ ~(at[y] > at[x])
    BY <1>2, <1>4, <1>5
  <2>2. at[x] \in Int /\ at[y] \in Int
    BY DEF Levels
  <2>3. at[x] = at[y]
    BY <2>1, <2>2
  <2> QED BY <2>3 DEF Levels
<1> QED BY <1>1, <1>2, <1>3, <1>5

LEMMA RankMeets ==
  ASSUME NEW S, NEW at, Levels(S, at), NEW n \in 1 .. Cardinality(S)
  PROVE  \E x \in S : Rank(S, at, x) = n - 1
<1> DEFINE c == Cardinality(S)
           r == [x \in S |-> Rank(S, at, x) + 1]
<1>1. c \in Nat /\ \A x \in S : Rank(S, at, x) \in 0 .. (c - 1)
  BY RankBound
<1>2. \A x, y \in S : Rank(S, at, x) = Rank(S, at, y) => x = y
  BY RankBound
<1>3. IsFiniteSet(1 .. c) /\ Cardinality(1 .. c) = c
  BY <1>1, FS_Interval
<1> HIDE DEF c
<1>4. r \in Injection(S, 1 .. c)
  <2>1. \A x \in S : Rank(S, at, x) + 1 \in 1 .. c /\ Rank(S, at, x) \in Int
    BY <1>1
  <2>2. r \in [S -> 1 .. c]
    BY <2>1
  <2>3. \A x, y \in S : r[x] = r[y] => Rank(S, at, x) = Rank(S, at, y)
    BY <2>1
  <2> QED BY <1>2, <2>2, <2>3 DEF Injection, IsInjective
<1>5. r \in Surjection(S, 1 .. c)
  BY <1>3, <1>4, FS_Injection DEF c
<1>6. PICK x \in S : r[x] = n
  BY <1>5 DEF Surjection, c
<1>7. Rank(S, at, x) + 1 = n /\ Rank(S, at, x) \in Int
  BY <1>1, <1>6
<1> QED BY <1>7

(* Of two sets whose elements are level one by one, the ranks are the same.*)
LEMMA RankSame ==
  ASSUME NEW S, NEW at, Levels(S, at), NEW T, NEW by, NEW f \in Bijection(S, T),
         \A x \in S : at[x] = by[f[x]]
  PROVE  /\ Levels(T, by) /\ Cardinality(T) = Cardinality(S)
         /\ \A x \in S : Rank(T, by, f[x]) = Rank(S, at, x)
<1>1. /\ f \in [S -> T] /\ (\A x, y \in S : f[x] = f[y] => x = y) /\ (\A t \in T : \E x \in S : f[x] = t)
  BY DEF Bijection, Injection, Surjection, IsInjective
<1>2. IsFiniteSet(T) /\ Cardinality(T) = Cardinality(S)
  BY FS_Bijection DEF Levels, ExistsBijection
<1>3. Levels(T, by)
  BY <1>1, <1>2 DEF Levels
<1>4. ASSUME NEW x \in S PROVE Rank(T, by, f[x]) = Rank(S, at, x)
  <2> DEFINE A == Above(S, at, x)
             B == Above(T, by, f[x])
             g == [y \in A |-> f[y]]
  <2>1. A \in SUBSET S /\ IsFiniteSet(A)
    BY FS_Subset DEF Levels, Above
  <2>2. \A y \in A : f[y] \in B
    BY <1>1 DEF Above
  <2>3. \A t \in B : \E y \in A : f[y] = t
    BY <1>1 DEF Above
  <2> HIDE DEF A, B
  <2>4. g \in [A -> B] /\ (\A y, z \in A : g[y] = g[z] => y = z) /\ (\A t \in B : \E y \in A : g[y] = t)
    BY <1>1, <2>1, <2>2, <2>3
  <2>5. g \in Bijection(A, B)
    BY <2>4 DEF Bijection, Injection, Surjection, IsInjective
  <2> QED BY <2>1, <2>5, FS_Bijection DEF ExistsBijection, Rank, A, B
<1> QED BY <1>2, <1>3, <1>4

-----------------------------------------------------------------------------
LEMMA ShortSeq ==
  ASSUME NEW X, NEW m \in Int, NEW f \in [1 .. m -> X]
  PROVE  f \in Seq(X)
<1>1. CASE m >= 0
  BY <1>1
<1>2. CASE ~(m >= 0)
  <2>1. 1 .. m = 1 .. 0
    BY <1>2
  <2>2. f \in [1 .. 0 -> X]
    BY <2>1
  <2> QED BY <2>2
<1> QED BY <1>1, <1>2

(* What a query finds in each store, and its times.                        *)
SqlFound(query) == {i \in DOMAIN rows : Selected(rows[i], query) /\ query.user \in {AnyOne, rows[i].owner[2]}}
SqlTimes == [i \in DOMAIN rows |-> rows[i].time]
KvTimes == [k \in DOMAIN kept |-> kept[k].time]
SqlSorted(S) == Sorted(S, LAMBDA i, j : rows[i].time > rows[j].time \/ (rows[i].time = rows[j].time /\ i > j))
DistinctTimes == \A i, j \in DOMAIN rows : i # j => rows[i].time # rows[j].time

(* A sequence that is ordered by rank. *)
Ordered(s, S, at) ==
  /\ s \in Seq(S) /\ Len(s) = Cardinality(S)
  /\ \A n \in 1 .. Cardinality(S) : s[n] \in S /\ Rank(S, at, s[n]) = n - 1

LEMMA SqlLevels ==
  ASSUME StoresInv, DistinctTimes, NEW S \in SUBSET DOMAIN rows
  PROVE  Levels(S, SqlTimes)
<1>1. IsFiniteSet(S)
  <2>1. ids \in Nat /\ S \in SUBSET (1 .. ids)
    BY DEF StoresInv, HistoryTyped
  <2>2. IsFiniteSet(1 .. ids)
    BY <2>1, FS_Interval
  <2> QED BY <2>1, <2>2, FS_Subset
<1>2. \A x \in S : SqlTimes[x] = rows[x].time /\ rows[x].time \in Int
  BY DEF SqlTimes, StoresInv, HistoryTyped, TradeRecord
<1> QED BY <1>1, <1>2 DEF Levels, DistinctTimes

LEMMA KvLevels ==
  ASSUME StoresInv, DistinctTimes, NEW S \in SUBSET DOMAIN kept
  PROVE  Levels(S, KvTimes)
<1>1. IsFiniteSet(S)
  <2>1. Len(kept) \in Nat /\ S \in SUBSET (1 .. Len(kept))
    BY Records
  <2>2. IsFiniteSet(1 .. Len(kept))
    BY <2>1, FS_Interval
  <2> QED BY <2>1, <2>2, FS_Subset
<1>2. \A k \in S : /\ KvTimes[k] = kept[k].time /\ kept[k].time \in Int
                   /\ kept[k].id \in DOMAIN rows /\ rows[kept[k].id].time = kept[k].time
  <2>1. ASSUME NEW k \in S PROVE k \in DOMAIN kept
    OBVIOUS
  <2>2. ASSUME NEW k \in S PROVE KvTimes[k] = kept[k].time
    BY <2>1 DEF KvTimes
  <2>3. ASSUME NEW k \in S PROVE kept[k].time \in Int
    BY <2>1, Records DEF TradeRecord
  <2>4. ASSUME NEW k \in S PROVE kept[k].id \in DOMAIN rows /\ rows[kept[k].id].time = kept[k].time
    BY <2>1 DEF StoresInv, SameTrades, Alike
  <2> QED BY <2>2, <2>3, <2>4
<1>3. \A j, k \in S : KvTimes[j] = KvTimes[k] => j = k
  <2> TAKE j, k \in S
  <2> HAVE KvTimes[j] = KvTimes[k]
  <2>1. kept[j].id = kept[k].id
    BY <1>2 DEF DistinctTimes
  <2> QED BY <2>1 DEF StoresInv, SameTrades
<1> QED BY <1>1, <1>2, <1>3 DEF Levels

LEMMA SqlOrdered ==
  ASSUME StoresInv, DistinctTimes, NEW S \in SUBSET DOMAIN rows
  PROVE  Ordered(SqlSorted(S), S, SqlTimes)
<1> DEFINE before(x) == {y \in S : rows[y].time > rows[x].time \/ (rows[y].time = rows[x].time /\ y > x)}
           s == SqlSorted(S)
           c == Cardinality(S)
<1>1. s = [n \in 1 .. c |-> CHOOSE x \in S : Cardinality(before(x)) = n - 1]
  BY DEF SqlSorted, Sorted
<1>2. c \in Nat
  BY SqlLevels, RankBound
<1>3. ASSUME NEW x \in S PROVE before(x) = Above(S, SqlTimes, x)
  <2>1. \A y \in S : SqlTimes[y] = rows[y].time
    BY DEF SqlTimes
  <2>2. \A y \in S : rows[y].time = rows[x].time => y = x
    BY DEF DistinctTimes
  <2>3. ~(x > x)
    BY DEF StoresInv, HistoryTyped
  <2> QED BY <2>1, <2>2, <2>3 DEF Above
<1> HIDE DEF before, s
<1>4. ASSUME NEW n \in 1 .. c PROVE s[n] \in S /\ Rank(S, SqlTimes, s[n]) = n - 1
  <2>1. PICK x \in S : Rank(S, SqlTimes, x) = n - 1
    BY SqlLevels, RankMeets
  <2>2. Cardinality(before(x)) = n - 1
    BY <1>3, <2>1 DEF Rank
  <2>3. s[n] = CHOOSE y \in S : Cardinality(before(y)) = n - 1
    BY <1>1
  <2>4. s[n] \in S /\ Cardinality(before(s[n])) = n - 1
    BY <2>2, <2>3
  <2> QED BY <1>3, <2>4 DEF Rank
<1>5. s \in Seq(S) /\ Len(s) = c
  BY <1>1, <1>2, <1>4
<1> QED BY <1>4, <1>5 DEF Ordered, s

LEMMA KvOrdered ==
  ASSUME StoresInv, DistinctTimes, NEW S \in SUBSET DOMAIN kept
  PROVE  Ordered(KvSorted(S), S, KvTimes)
<1> DEFINE before(x) == {y \in S : kept[y].time > kept[x].time \/ (kept[y].time = kept[x].time /\ y < x)}
           s == KvSorted(S)
           c == Cardinality(S)
<1>1. s = [n \in 1 .. c |-> CHOOSE x \in S : Cardinality(before(x)) = n - 1]
  BY DEF KvSorted, Sorted
<1>2. c \in Nat
  BY KvLevels, RankBound
<1>3. ASSUME NEW x \in S PROVE before(x) = Above(S, KvTimes, x)
  <2>1. \A y \in S : KvTimes[y] = kept[y].time
    BY DEF KvTimes
  <2>2. \A y \in S : kept[y].time = kept[x].time => y = x
    BY <2>1, KvLevels DEF Levels
  <2>3. ~(x < x)
    BY Records
  <2> QED BY <2>1, <2>2, <2>3 DEF Above
<1> HIDE DEF before, s
<1>4. ASSUME NEW n \in 1 .. c PROVE s[n] \in S /\ Rank(S, KvTimes, s[n]) = n - 1
  <2>1. PICK x \in S : Rank(S, KvTimes, x) = n - 1
    BY KvLevels, RankMeets
  <2>2. Cardinality(before(x)) = n - 1
    BY <1>3, <2>1 DEF Rank
  <2>3. s[n] = CHOOSE y \in S : Cardinality(before(y)) = n - 1
    BY <1>1
  <2>4. s[n] \in S /\ Cardinality(before(s[n])) = n - 1
    BY <2>2, <2>3
  <2> QED BY <1>3, <2>4 DEF Rank
<1>5. s \in Seq(S) /\ Len(s) = c
  BY <1>1, <1>2, <1>4
<1> QED BY <1>4, <1>5 DEF Ordered, s

(* A page of the whole. *)
PageSize(query, c) ==
  LET left == c - query.offset IN IF query.limit = 0 \/ left < query.limit THEN left ELSE query.limit
LEMMA PageIs ==
  ASSUME NEW S, NEW at, NEW s, Ordered(s, S, at), Cardinality(S) \in Nat, NEW query, query.offset \in Nat, query.limit \in Nat
  PROVE  LET m == PageSize(query, Cardinality(S))
         IN /\ m \in Int /\ DOMAIN Page(s, query) = 1 .. m
            /\ \A n \in 1 .. m : /\ n + query.offset \in 1 .. Cardinality(S)
                                 /\ Page(s, query)[n] = s[n + query.offset]
                                 /\ Page(s, query)[n] \in S
<1> DEFINE c == Cardinality(S)
           m == PageSize(query, c)
<1>1. Page(s, query) = [n \in 1 .. m |-> s[n + query.offset]]
  BY DEF Page, PageSize, Ordered
<1>2. m \in Int /\ \A n \in 1 .. m : n + query.offset \in 1 .. c
  BY DEF PageSize
<1> HIDE DEF m, c
<1> QED BY <1>1, <1>2 DEF Ordered, m, c

-----------------------------------------------------------------------------
(* A query for all users answers with the same trades in the same order.   *)
LEMMA SameFound ==
  ASSUME StoresInv, NEW query, query.user = AnyOne
  PROVE  [k \in KvFound(query) |-> kept[k].id] \in Bijection(KvFound(query), SqlFound(query))
<1> DEFINE K == KvFound(query)
           R == SqlFound(query)
           f == [k \in K |-> kept[k].id]
<1>1. ASSUME NEW k \in DOMAIN kept PROVE kept[k].id \in DOMAIN rows /\ (Selected(kept[k], query) <=> Selected(rows[kept[k].id], query))
  BY DEF StoresInv, SameTrades, Alike, Selected
<1>2. \A k \in K : kept[k].id \in R
  BY <1>1 DEF KvFound, SqlFound
<1>3. \A i \in R : \E k \in K : kept[k].id = i
  BY <1>1 DEF KvFound, SqlFound, StoresInv, SameTrades
<1>4. \A j, k \in K : kept[j].id = kept[k].id => j = k
  BY DEF KvFound, StoresInv, SameTrades
<1> HIDE DEF K, R
<1> QED BY <1>2, <1>3, <1>4 DEF Bijection, Injection, Surjection, IsInjective, K, R

LEMMA SameAnswer ==
  ASSUME StoresInv, DistinctTimes, NEW query, query.user = AnyOne, query.offset \in Nat, query.limit \in Nat
  PROVE  \E m \in Int :
           /\ DOMAIN SqlRows(query) = 1 .. m /\ DOMAIN KvQuery(query) = 1 .. m
           /\ SqlRows(query) \in Seq(TradeRecord) /\ KvQuery(query) \in Seq(TradeRecord)
           /\ \A n \in 1 .. m : /\ Alike(parted, SqlRows(query)[n], KvQuery(query)[n])
                                /\ \E k \in DOMAIN kept : KvQuery(query)[n] = kept[k] /\ SqlRows(query)[n] = rows[kept[k].id]
<1> DEFINE K == KvFound(query)
           R == SqlFound(query)
           f == [k \in K |-> kept[k].id]
           s == SqlSorted(R)
           t == KvSorted(K)
           c == Cardinality(R)
           m == PageSize(query, c)
<1>1. K \in SUBSET DOMAIN kept /\ R \in SUBSET DOMAIN rows
  BY DEF KvFound, SqlFound
<1>2. Ordered(s, R, SqlTimes) /\ Ordered(t, K, KvTimes)
  BY <1>1, SqlOrdered, KvOrdered
<1>3. Levels(R, SqlTimes) /\ Levels(K, KvTimes)
  BY <1>1, SqlLevels, KvLevels
<1>4. f \in Bijection(K, R)
  BY SameFound
<1>5. \A k \in K : KvTimes[k] = SqlTimes[f[k]]
  <2> TAKE k \in K
  <2>1. k \in DOMAIN kept /\ kept[k].id \in DOMAIN rows /\ rows[kept[k].id].time = kept[k].time
    BY <1>1 DEF StoresInv, SameTrades, Alike
  <2> QED BY <2>1 DEF KvTimes, SqlTimes
<1>6. SqlRows(query) = [n \in DOMAIN Page(s, query) |-> rows[Page(s, query)[n]]]
  BY DEF SqlRows, SqlFound, SqlSorted
<1>7. KvQuery(query) = [n \in DOMAIN Page(t, query) |-> kept[Page(t, query)[n]]]
  BY DEF KvQuery
<1>f. f \in [K -> R]
  BY <1>4 DEF Bijection, Injection
<1> HIDE DEF K, R, f, s, t
<1>8. /\ c \in Nat /\ Cardinality(K) = c
      /\ \A k \in K : Rank(R, SqlTimes, f[k]) = Rank(K, KvTimes, k)
  BY <1>3, <1>4, <1>5, RankSame, RankBound
<1>9. ASSUME NEW n \in 1 .. c PROVE s[n] = f[t[n]] /\ t[n] \in K /\ s[n] \in R
  <2>1. s[n] \in R /\ t[n] \in K /\ Rank(R, SqlTimes, s[n]) = n - 1 /\ Rank(K, KvTimes, t[n]) = n - 1
    BY <1>2, <1>8 DEF Ordered
  <2>2. f[t[n]] \in R /\ Rank(R, SqlTimes, f[t[n]]) = n - 1
    BY <1>f, <1>8, <2>1
  <2> QED BY <1>3, <2>1, <2>2, RankBound
<1>10. /\ m \in Int /\ DOMAIN Page(s, query) = 1 .. m /\ DOMAIN Page(t, query) = 1 .. m
       /\ \A n \in 1 .. m : /\ n + query.offset \in 1 .. c
                            /\ Page(s, query)[n] = s[n + query.offset]
                            /\ Page(t, query)[n] = t[n + query.offset]
  BY <1>2, <1>8, PageIs
<1> HIDE DEF m, c
<1>11. DOMAIN SqlRows(query) = 1 .. m /\ DOMAIN KvQuery(query) = 1 .. m
  BY <1>6, <1>7, <1>10
<1>12. ASSUME NEW n \in 1 .. m
       PROVE  /\ SqlRows(query)[n] \in TradeRecord /\ KvQuery(query)[n] \in TradeRecord
              /\ Alike(parted, SqlRows(query)[n], KvQuery(query)[n])
              /\ \E k \in DOMAIN kept : KvQuery(query)[n] = kept[k] /\ SqlRows(query)[n] = rows[kept[k].id]
  <2> DEFINE k == t[n + query.offset]
  <2>1. n + query.offset \in 1 .. c /\ k \in K /\ s[n + query.offset] = f[k]
    BY <1>9, <1>10
  <2>2. k \in DOMAIN kept /\ f[k] = kept[k].id
    BY <1>1, <2>1 DEF f
  <2>3. SqlRows(query)[n] = rows[kept[k].id] /\ KvQuery(query)[n] = kept[k]
    <3>1. n \in DOMAIN Page(s, query) /\ n \in DOMAIN Page(t, query)
      BY <1>10
    <3>2. SqlRows(query)[n] = rows[Page(s, query)[n]] /\ KvQuery(query)[n] = kept[Page(t, query)[n]]
      BY <1>6, <1>7, <3>1, ZenonT(30)
    <3> QED BY <1>10, <2>1, <2>2, <3>2
  <2> HIDE DEF k
  <2> QED BY <2>2, <2>3, Records DEF StoresInv, SameTrades
<1>13. SqlRows(query) \in Seq(TradeRecord) /\ KvQuery(query) \in Seq(TradeRecord)
  <2>1. SqlRows(query) \in [1 .. m -> TradeRecord]
    BY <1>6, <1>11, <1>12
  <2>2. KvQuery(query) \in [1 .. m -> TradeRecord]
    BY <1>7, <1>11, <1>12
  <2> QED BY <1>10, <2>1, <2>2, ShortSeq
<1> QED BY <1>10, <1>11, <1>12, <1>13

-----------------------------------------------------------------------------
(* Statistics.  They are of sets of records which are alike one by one.    *)
AlikeSets(A, B) ==
  /\ IsFiniteSet(A) /\ A \subseteq TradeRecord /\ B \subseteq TradeRecord
  /\ \A r, s \in A : r.id = s.id => r = s
  /\ \A r, s \in B : r.id = s.id => r = s
  /\ \A r \in A : \E t \in B : Alike(parted, r, t)
  /\ \A t \in B : \E r \in A : Alike(parted, r, t)
Partner(A, B) == [r \in A |-> CHOOSE t \in B : t.id = r.id]

LEMMA PartnerIs ==
  ASSUME NEW A, NEW B, AlikeSets(A, B)
  PROVE  /\ Partner(A, B) \in Bijection(A, B) /\ \A r \in A : Alike(parted, r, Partner(A, B)[r])
         /\ IsFiniteSet(B) /\ Cardinality(B) = Cardinality(A)
<1> DEFINE f == Partner(A, B)
<1>1. ASSUME NEW r \in A PROVE f[r] \in B /\ Alike(parted, r, f[r])
  <2>1. PICK t \in B : Alike(parted, r, t)
    BY DEF AlikeSets
  <2>2. t.id = r.id
    BY <2>1 DEF Alike
  <2>3. f[r] \in B /\ f[r].id = r.id
    BY <2>2 DEF Partner
  <2>4. f[r] = t
    BY <2>2, <2>3 DEF AlikeSets
  <2> QED BY <2>1, <2>4
<1>2. f \in [A -> B]
  BY <1>1 DEF Partner
<1>3. ASSUME NEW r \in A, NEW s \in A, f[r] = f[s] PROVE r = s
  BY <1>1, <1>3 DEF Alike, AlikeSets
<1>4. ASSUME NEW t \in B PROVE \E r \in A : f[r] = t
  <2>1. PICK r \in A : Alike(parted, r, t)
    BY DEF AlikeSets
  <2>2. f[r] = t
    BY <1>1, <2>1 DEF Alike, AlikeSets
  <2> QED BY <2>2
<1>5. f \in Bijection(A, B)
  BY <1>2, <1>3, <1>4 DEF Bijection, Injection, Surjection, IsInjective
<1>6. IsFiniteSet(B) /\ Cardinality(B) = Cardinality(A)
  BY <1>5, FS_Bijection DEF AlikeSets, ExistsBijection
<1> QED BY <1>1, <1>5, <1>6

(* The sum of the profits. *)
PnlOf(S) == MapThenSumSet(LAMBDA t : t.pnl, S)
PnlStep(g, s) == IF s = {} THEN 0 ELSE Picked(s).pnl + g[s \ {Picked(s)}]
ThePnl(S) == CHOOSE g : g = [s \in SUBSET S |-> PnlStep(g, s)]

LEMMA PnlIs ==
  ASSUME NEW S
  PROVE  PnlOf(S) = ThePnl(S)[S]
BY DEF PnlOf, MapThenSumSet, MapThenFoldSet, PnlStep, ThePnl, Picked

LEMMA PnlSum ==
  ASSUME NEW S, IsFiniteSet(S)
  PROVE  IsSum([t \in S |-> t.pnl], ThePnl(S), S)
<1> DEFINE v == [t \in S |-> t.pnl]
<1>1. ASSUME NEW g, NEW s \in SUBSET S PROVE PnlStep(g, s) = SumStep(v, g, s)
  <2>1. CASE s = {}
    BY <2>1 DEF PnlStep, SumStep
  <2>2. CASE s # {}
    <3>1. Picked(s) \in s
      BY <2>2 DEF Picked
    <3>2. v[Picked(s)] = Picked(s).pnl
      BY <3>1
    <3> HIDE DEF v
    <3> QED BY <2>2, <3>2 DEF PnlStep, SumStep
  <2> QED BY <2>1, <2>2
<1> HIDE DEF v
<1>2. ASSUME NEW g PROVE IsSum(v, g, S) <=> g = [s \in SUBSET S |-> PnlStep(g, s)]
  <2>1. [s \in SUBSET S |-> PnlStep(g, s)] = [s \in SUBSET S |-> SumStep(v, g, s)]
    BY <1>1
  <2> QED BY <2>1 DEF IsSum
<1>3. \E g : IsSum(v, g, S)
  BY SumExists
<1>4. \E g : g = [s \in SUBSET S |-> PnlStep(g, s)]
  BY <1>2, <1>3
<1>5. ThePnl(S) = [s \in SUBSET S |-> PnlStep(ThePnl(S), s)]
  BY <1>4 DEF ThePnl
<1> QED BY <1>2, <1>5 DEF v

LEMMA SamePnl ==
  ASSUME NEW A, NEW B, AlikeSets(A, B), \A r \in A : r.id \notin parted
  PROVE  PnlOf(A) = PnlOf(B)
<1> DEFINE v == [t \in A |-> t.pnl]
           w == [t \in B |-> t.pnl]
           f == Partner(A, B)
<1>1. IsFiniteSet(A) /\ IsFiniteSet(B) /\ f \in Bijection(A, B) /\ \A r \in A : Alike(parted, r, f[r])
  BY PartnerIs DEF AlikeSets
<1>2. IsSum(v, ThePnl(A), A) /\ IsSum(w, ThePnl(B), B)
  BY <1>1, PnlSum
<1>3. (\A x \in A : v[x] \in Int) /\ (\A x \in B : w[x] \in Int)
  BY DEF AlikeSets, TradeRecord
<1>4. \A x \in A : v[x] = w[f[x]]
  <2> TAKE x \in A
  <2>1. f[x] \in B /\ x.pnl = f[x].pnl
    BY <1>1 DEF Bijection, Injection, Alike
  <2> HIDE DEF f
  <2> QED BY <2>1
<1> HIDE DEF v, w, f
<1>5. ThePnl(A)[A] = ThePnl(B)[B]
  BY <1>1, <1>2, <1>3, <1>4, SumSame
<1> QED BY <1>5, PnlIs

LEMMA PartsAlike ==
  ASSUME NEW A, NEW B, AlikeSets(A, B), NEW C \in SUBSET A, NEW D \in SUBSET B,
         \A r \in A, t \in B : Alike(parted, r, t) => (r \in C <=> t \in D)
  PROVE  AlikeSets(C, D)
<1>1. IsFiniteSet(C)
  BY FS_Subset DEF AlikeSets
<1>2. \A r \in C : \E t \in D : Alike(parted, r, t)
  BY DEF AlikeSets
<1>3. \A t \in D : \E r \in C : Alike(parted, r, t)
  BY DEF AlikeSets
<1> QED BY <1>1, <1>2, <1>3 DEF AlikeSets

LEMMA SameStatistics ==
  ASSUME NEW A, NEW B, AlikeSets(A, B), \A r \in A : r.status = "open" => r.reason = "none",
         \A r \in A : r.id \notin parted
  PROVE  Statistics(A, A) = Statistics(B, {t \in B : t.status = "closed"})
<1> DEFINE closed(S) == {t \in S : t.status = "closed"}
           won(S) == {t \in S : t.pnl > 0}
           lost(S) == {t \in S : t.pnl < 0}
           sl(S) == {t \in S : t.reason = "sl_hit"}
           tp(S) == {t \in S : t.reason = "tp_hit"}
           pnls(S) == {t.pnl : t \in S}
<1>1. AlikeSets(closed(A), closed(B))
  BY PartsAlike DEF Alike
<1>2. AlikeSets(won(closed(A)), won(closed(B))) /\ AlikeSets(lost(closed(A)), lost(closed(B)))
  <2>1. \A r \in closed(A), t \in closed(B) : Alike(parted, r, t) => r.pnl = t.pnl
    BY DEF Alike
  <2> HIDE DEF closed
  <2>2. AlikeSets(won(closed(A)), won(closed(B)))
    BY <1>1, <2>1, PartsAlike
  <2>3. AlikeSets(lost(closed(A)), lost(closed(B)))
    BY <1>1, <2>1, PartsAlike
  <2> QED BY <2>2, <2>3
<1>3. AlikeSets(sl(A), sl(closed(B))) /\ AlikeSets(tp(A), tp(closed(B)))
  <2>1. \A r \in A : r.status # "closed" => r.reason \notin {"sl_hit", "tp_hit"}
    BY DEF AlikeSets, TradeRecord
  <2>2. AlikeSets(sl(A), sl(closed(B)))
    BY <2>1, PartsAlike DEF Alike
  <2>3. AlikeSets(tp(A), tp(closed(B)))
    BY <2>1, PartsAlike DEF Alike
  <2> QED BY <2>2, <2>3
<1>4. closed(A) = {} <=> closed(B) = {}
  <2> HIDE DEF closed
  <2> QED BY <1>1 DEF AlikeSets
<1>5. pnls(closed(A)) = pnls(closed(B))
  <2>0. \A r \in closed(A) : r.id \notin parted
    OBVIOUS
  <2> HIDE DEF closed
  <2>1. \A r \in closed(A) : \E t \in closed(B) : t.pnl = r.pnl
    BY <1>1, <2>0 DEF AlikeSets, Alike
  <2>2. \A t \in closed(B) : \E r \in closed(A) : t.pnl = r.pnl
    BY <1>1, <2>0 DEF AlikeSets, Alike
  <2> QED BY <2>1, <2>2
<1>6. PnlOf(closed(A)) = PnlOf(closed(B))
  <2>1. \A r \in closed(A) : r.id \notin parted
    OBVIOUS
  <2> HIDE DEF closed
  <2> QED BY <1>1, <2>1, SamePnl
<1>7. Statistics(A, A) =
        [total |-> Cardinality(A), won |-> Cardinality(won(closed(A))), lost |-> Cardinality(lost(closed(A))),
         winRate |-> IF closed(A) = {} THEN 0 ELSE (100 * Cardinality(won(closed(A)))) \div Cardinality(closed(A)),
         pnl |-> PnlOf(closed(A)),
         best |-> IF pnls(closed(A)) = {} THEN 0 ELSE Max(pnls(closed(A))),
         worst |-> IF pnls(closed(A)) = {} THEN 0 ELSE Min(pnls(closed(A))),
         slHits |-> Cardinality(sl(A)), tpHits |-> Cardinality(tp(A))]
  BY Zenon DEF Statistics, PnlOf
<1>8. Statistics(B, closed(B)) =
        [total |-> Cardinality(B), won |-> Cardinality(won(closed(B))), lost |-> Cardinality(lost(closed(B))),
         winRate |-> IF closed(B) = {} THEN 0 ELSE (100 * Cardinality(won(closed(B)))) \div Cardinality(closed(B)),
         pnl |-> PnlOf(closed(B)),
         best |-> IF pnls(closed(B)) = {} THEN 0 ELSE Max(pnls(closed(B))),
         worst |-> IF pnls(closed(B)) = {} THEN 0 ELSE Min(pnls(closed(B))),
         slHits |-> Cardinality(sl(closed(B))), tpHits |-> Cardinality(tp(closed(B)))]
  BY Zenon DEF Statistics, PnlOf
<1>9. /\ Cardinality(A) = Cardinality(B) /\ Cardinality(closed(A)) = Cardinality(closed(B))
      /\ Cardinality(won(closed(A))) = Cardinality(won(closed(B)))
      /\ Cardinality(lost(closed(A))) = Cardinality(lost(closed(B)))
      /\ Cardinality(sl(A)) = Cardinality(sl(closed(B))) /\ Cardinality(tp(A)) = Cardinality(tp(closed(B)))
  <2> HIDE DEF closed, won, lost, sl, tp
  <2> QED BY <1>1, <1>2, <1>3, PartnerIs
<1> HIDE DEF closed, won, lost, sl, tp, pnls
<1>10. Statistics(A, A) = Statistics(B, closed(B))
  BY <1>4, <1>5, <1>6, <1>7, <1>8, <1>9
<1> QED BY <1>10 DEF closed

-----------------------------------------------------------------------------
LEMMA SameSets ==
  ASSUME StoresInv, DistinctTimes, NEW query, query.user = AnyOne, query.offset \in Nat, query.limit \in Nat
  PROVE  /\ AlikeSets(ToSet(SqlRows(query)), ToSet(KvQuery(query)))
         /\ \A r \in ToSet(SqlRows(query)) : r.status = "open" => r.reason = "none"
<1> DEFINE sql == SqlRows(query)
           kv == KvQuery(query)
<1>1. PICK m \in Int :
        /\ DOMAIN sql = 1 .. m /\ DOMAIN kv = 1 .. m
        /\ sql \in Seq(TradeRecord) /\ kv \in Seq(TradeRecord)
        /\ \A n \in 1 .. m : /\ Alike(parted, sql[n], kv[n])
                             /\ \E k \in DOMAIN kept : kv[n] = kept[k] /\ sql[n] = rows[kept[k].id]
  BY SameAnswer
<1> HIDE DEF sql, kv
<1>2. \A n \in 1 .. m : sql[n] \in TradeRecord /\ kv[n] \in TradeRecord
  BY <1>1
<1>3. ToSet(sql) = {sql[n] : n \in 1 .. m} /\ ToSet(kv) = {kv[n] : n \in 1 .. m}
  BY <1>1 DEF ToSet
<1>4. IsFiniteSet(ToSet(sql))
  <2> DEFINE f == [n \in 1 .. m |-> sql[n]]
  <2>1. f \in Surjection(1 .. m, ToSet(sql))
    BY <1>3 DEF Surjection
  <2>2. IsFiniteSet(1 .. m)
    BY FS_Interval
  <2> HIDE DEF f
  <2> QED BY <2>1, <2>2, FS_Surjection
<1>0. \A r \in ToSet(sql) : r = rows[r.id] /\ (r.status = "open" => r.reason = "none")
  <2> TAKE r \in ToSet(sql)
  <2>1. PICK n \in 1 .. m : r = sql[n]
    BY <1>3
  <2>2. PICK k \in DOMAIN kept : sql[n] = rows[kept[k].id]
    BY <1>1
  <2>3. kept[k].id \in DOMAIN rows
    BY Records
  <2> QED BY <2>1, <2>2, <2>3 DEF StoresInv, HistoryTyped
<1>5. \A r, s \in ToSet(sql) : r.id = s.id => r = s
  BY <1>0
<1>6. \A r, s \in ToSet(kv) : r.id = s.id => r = s
  BY <1>1, <1>3 DEF StoresInv, SameTrades
<1> QED BY <1>0, <1>1, <1>2, <1>3, <1>4, <1>5, <1>6 DEF AlikeSets, sql, kv

(* Without a page, SQL answers with all it finds. *)
LEMMA SqlAll ==
  ASSUME StoresInv, DistinctTimes, NEW query, query.offset = 0, query.limit = 0
  PROVE  /\ DOMAIN SqlRows(query) = 1 .. Cardinality(SqlFound(query))
         /\ \A n \in DOMAIN SqlRows(query) : \E i \in SqlFound(query) : SqlRows(query)[n] = rows[i]
         /\ ToSet(SqlRows(query)) = {rows[i] : i \in SqlFound(query)}
<1> DEFINE R == SqlFound(query)
           s == SqlSorted(R)
           c == Cardinality(R)
<1>1. R \in SUBSET DOMAIN rows
  BY DEF SqlFound
<1>2. SqlRows(query) = [n \in DOMAIN Page(s, query) |-> rows[Page(s, query)[n]]]
  BY DEF SqlRows, SqlFound, SqlSorted
<1> HIDE DEF R
<1>3. Ordered(s, R, SqlTimes) /\ Levels(R, SqlTimes)
  BY <1>1, SqlOrdered, SqlLevels
<1>4. c \in Nat /\ \A i \in R : Rank(R, SqlTimes, i) \in 0 .. (c - 1)
  BY <1>3, RankBound
<1> HIDE DEF s
<1>5. /\ DOMAIN Page(s, query) = 1 .. c
      /\ \A n \in 1 .. c : Page(s, query)[n] = s[n] /\ s[n] \in R
  <2>1. PageSize(query, c) = c
    BY <1>4 DEF PageSize
  <2>2. \A n \in 1 .. c : n + query.offset = n
    BY <1>4
  <2> HIDE DEF c
  <2>3. query.offset \in Nat /\ query.limit \in Nat
    OBVIOUS
  <2> QED BY <1>3, <1>4, <2>1, <2>2, <2>3, PageIs DEF c
<1> HIDE DEF c
<1>6. /\ DOMAIN SqlRows(query) = 1 .. c
      /\ \A n \in 1 .. c : SqlRows(query)[n] = rows[s[n]] /\ s[n] \in R
  BY <1>2, <1>5
<1>7. ASSUME NEW i \in R PROVE \E n \in 1 .. c : s[n] = i
  <2> DEFINE n == Rank(R, SqlTimes, i) + 1
  <2>1. n \in 1 .. c /\ n - 1 = Rank(R, SqlTimes, i)
    BY <1>4
  <2> HIDE DEF n
  <2>2. s[n] \in R /\ Rank(R, SqlTimes, s[n]) = Rank(R, SqlTimes, i)
    BY <1>3, <2>1 DEF Ordered, c
  <2>3. s[n] = i
    BY <1>3, <2>2, RankBound
  <2> QED BY <2>1, <2>3
<1>8. ToSet(SqlRows(query)) = {rows[i] : i \in R}
  BY <1>6, <1>7 DEF ToSet
<1> QED BY <1>6, <1>8 DEF R, c

(* The totals of the users. *)
TotalOf(query, u) == UserStats(u, query, "sql").total
TotalStep(query, g, s) == IF s = {} THEN 0 ELSE UserStats(Picked(s), query, "sql").total + g[s \ {Picked(s)}]
TheTotals(query, S) == CHOOSE g : g = [s \in SUBSET S |-> TotalStep(query, g, s)]

LEMMA TotalsAre ==
  ASSUME NEW query, NEW S
  PROVE  MapThenSumSet(LAMBDA u : UserStats(u, query, "sql").total, S) = TheTotals(query, S)[S]
BY DEF MapThenSumSet, MapThenFoldSet, TotalStep, TheTotals, Picked

LEMMA TotalsSum ==
  ASSUME NEW query, NEW S, IsFiniteSet(S)
  PROVE  IsSum([u \in S |-> TotalOf(query, u)], TheTotals(query, S), S)
<1> DEFINE v == [u \in S |-> TotalOf(query, u)]
<1>1. ASSUME NEW g, NEW s \in SUBSET S PROVE TotalStep(query, g, s) = SumStep(v, g, s)
  <2>1. CASE s = {}
    BY <2>1 DEF TotalStep, SumStep
  <2>2. CASE s # {}
    <3>1. Picked(s) \in s
      BY <2>2 DEF Picked
    <3>2. v[Picked(s)] = TotalOf(query, Picked(s))
      BY <3>1
    <3> HIDE DEF v
    <3> QED BY <2>2, <3>2 DEF TotalStep, SumStep, TotalOf
  <2> QED BY <2>1, <2>2
<1> HIDE DEF v
<1>2. ASSUME NEW g PROVE IsSum(v, g, S) <=> g = [s \in SUBSET S |-> TotalStep(query, g, s)]
  <2>1. [s \in SUBSET S |-> TotalStep(query, g, s)] = [s \in SUBSET S |-> SumStep(v, g, s)]
    BY <1>1
  <2> QED BY <2>1 DEF IsSum
<1>3. \E g : g = [s \in SUBSET S |-> TotalStep(query, g, s)]
  <2>1. \E g : IsSum(v, g, S)
    BY SumExists
  <2> QED BY <1>2, <2>1
<1>4. TheTotals(query, S) = [s \in SUBSET S |-> TotalStep(query, TheTotals(query, S), s)]
  BY <1>3 DEF TheTotals
<1> QED BY <1>2, <1>4 DEF v

LEMMA UsersFinite == IsFiniteSet(Users) /\ AnyOne \notin Users
<1> DEFINE f == [o \in Owners |-> o[2]]
<1>1. f \in Surjection(Owners, Users)
  BY DEF Users, Surjection
<1>2. IsFiniteSet(Owners) /\ \A o \in Owners : o[2] # AnyOne
  BY HistoryAssumption
<1> HIDE DEF f
<1> QED BY <1>1, <1>2, FS_Surjection DEF Users

LEMMA QueryFields ==
  ASSUME NEW query \in HistoryQueries
  PROVE  /\ query.user = AnyOne /\ query.offset \in Nat /\ query.limit \in Nat
         /\ query = [strategy |-> query.strategy, user |-> query.user, status |-> query.status, from |-> query.from,
                     to |-> query.to, limit |-> query.limit, offset |-> query.offset]
         /\ query.offset > 0 => query.limit > 0
BY DEF HistoryQueries

LEMMA StatisticalFields ==
  ASSUME NEW query \in HistoryQueries, NEW u
  PROVE  /\ Statistical(query).user = AnyOne /\ Statistical(query).offset = 0 /\ Statistical(query).limit = 0
         /\ Statistical(OfUser(u, query)).user = u
         /\ Statistical(OfUser(u, query)).offset = 0 /\ Statistical(OfUser(u, query)).limit = 0
         /\ OfUser(u, query).user = u /\ OfUser(u, query).offset = query.offset /\ OfUser(u, query).limit = query.limit
         /\ \A r : Selected(r, Statistical(OfUser(u, query))) <=> Selected(r, Statistical(query))
<1> DEFINE q == Statistical(query)
           p == Statistical(OfUser(u, query))
<1>1. /\ q.user = AnyOne /\ q.offset = 0 /\ q.limit = 0 /\ p.user = u /\ p.offset = 0 /\ p.limit = 0
      /\ p.strategy = q.strategy /\ p.status = q.status /\ p.from = q.from /\ p.to = q.to
  BY QueryFields DEF Statistical, OfUser
<1>2. OfUser(u, query).user = u /\ OfUser(u, query).offset = query.offset /\ OfUser(u, query).limit = query.limit
  BY QueryFields DEF OfUser
<1> HIDE DEF p, q
<1>3. \A r : Selected(r, p) <=> Selected(r, q)
  BY <1>1 DEF Selected
<1> QED BY <1>1, <1>2, <1>3 DEF p, q

(* The users part the total. *)
LEMMA TotalsAddUp ==
  ASSUME StoresInv, DistinctTimes, NEW query \in HistoryQueries
  PROVE  StatsAnswer(query, "sql").total = MapThenSumSet(LAMBDA u : UserStats(u, query, "sql").total, Users)
<1> DEFINE Q(u) == Statistical(OfUser(u, query))
           P(u) == {rows[i] : i \in SqlFound(Q(u))}
           part == [u \in Users |-> P(u)]
           F == {rows[i] : i \in SqlFound(Statistical(query))}
           v == [u \in Users |-> TotalOf(query, u)]
<1>1. ToSet(SqlRows(Statistical(query))) = F
  BY StatisticalFields, SqlAll
<1>2. ASSUME NEW u \in Users PROVE ToSet(SqlRows(Q(u))) = P(u)
  BY StatisticalFields, SqlAll
<1>3. StatsAnswer(query, "sql").total = Cardinality(F)
  BY <1>1 DEF StatsAnswer, Stats, SqlStats, Statistics, Statistical
<1>4. ASSUME NEW u \in Users PROVE TotalOf(query, u) = Cardinality(P(u))
  BY <1>2 DEF TotalOf, UserStats, StatsAnswer, Stats, SqlStats, Statistics, Statistical
<1>5. ASSUME NEW u \in Users PROVE P(u) = {r \in F : r.owner[2] = u}
  BY StatisticalFields, UsersFinite DEF SqlFound
<1>6. IsFiniteSet(F)
  <2>1. Statistical(query).user = AnyOne /\ Statistical(query).offset \in Nat /\ Statistical(query).limit \in Nat
    BY StatisticalFields
  <2> QED BY <1>1, <2>1, SameSets DEF AlikeSets
<1>7. \A r \in F : r.owner[2] \in Users
  BY DEF SqlFound, StoresInv, HistoryTyped, TradeRecord, Users
<1> HIDE DEF P, F
<1>8. UNION {part[u] : u \in Users} = F
  BY <1>5, <1>7
<1>9. /\ \A u \in Users : part[u] \in SUBSET F /\ v[u] = Cardinality(part[u])
      /\ \A u, w \in Users : u # w => part[u] \cap part[w] = {}
  BY <1>4, <1>5
<1>10. IsSum(v, TheTotals(query, Users), Users)
  BY UsersFinite, TotalsSum
<1> HIDE DEF part, v
<1>11. TheTotals(query, Users)[Users] = Cardinality(F)
  BY <1>6, <1>8, <1>9, <1>10, UsersFinite, SumOfParts
<1> QED BY <1>3, <1>11, TotalsAre

LEMMA StatisticsAnswerAlike ==
  ASSUME StoresInv, DistinctTimes, NEW query \in HistoryQueries,
         \A r \in ToSet(SqlRows(Statistical(query))) : r.id \notin parted
  PROVE  StatsAnswer(query, "sql") = StatsAnswer(query, "kv")
<1> DEFINE q == Statistical(query)
<1>1. q.user = AnyOne /\ q.offset \in Nat /\ q.limit \in Nat
  BY StatisticalFields
<1> HIDE DEF q
<1>2. Statistics(ToSet(SqlRows(q)), ToSet(SqlRows(q)))
        = Statistics(ToSet(KvQuery(q)), {t \in ToSet(KvQuery(q)) : t.status = "closed"})
  <2> DEFINE A == ToSet(SqlRows(q))
             B == ToSet(KvQuery(q))
  <2>1. AlikeSets(A, B) /\ (\A r \in A : r.status = "open" => r.reason = "none") /\ \A r \in A : r.id \notin parted
    BY <1>1, SameSets DEF q
  <2> HIDE DEF A, B
  <2>2. Statistics(A, A) = Statistics(B, {t \in B : t.status = "closed"})
    BY <2>1, SameStatistics
  <2> QED BY <2>2 DEF A, B
<1> QED BY <1>2 DEF StatsAnswer, Stats, SqlStats, KvStats, Statistical, q

(* The trades found are as many, whatever became of them. *)
LEMMA AsManyFound ==
  ASSUME StoresInv, DistinctTimes, NEW query \in HistoryQueries
  PROVE  StatsAnswer(query, "sql").total = StatsAnswer(query, "kv").total
<1> DEFINE q == Statistical(query)
<1>1. q.user = AnyOne /\ q.offset \in Nat /\ q.limit \in Nat
  BY StatisticalFields
<1> HIDE DEF q
<1>2. Cardinality(ToSet(SqlRows(q))) = Cardinality(ToSet(KvQuery(q)))
  <2>1. AlikeSets(ToSet(SqlRows(q)), ToSet(KvQuery(q)))
    BY <1>1, SameSets
  <2> QED BY <2>1, PartnerIs
<1> QED BY <1>2 DEF StatsAnswer, Stats, SqlStats, KvStats, Statistics, q

LEMMA OutcomesAlike ==
  ASSUME StoresInv, DistinctTimes, NEW query, query.user = AnyOne, query.offset \in Nat, query.limit \in Nat
  PROVE  /\ SameOutcomes(Outcome(SqlQuery(query)), Outcome(KvQuery(query)))
         /\ Len(SqlQuery(query)) = Len(KvQuery(query))
<1> DEFINE sql == SqlRows(query)
           kv == KvQuery(query)
           given == [n \in DOMAIN sql |-> RowToTrade(sql[n])]
<1>1. PICK m \in Int :
        /\ DOMAIN sql = 1 .. m /\ DOMAIN kv = 1 .. m
        /\ sql \in Seq(TradeRecord) /\ kv \in Seq(TradeRecord)
        /\ \A n \in 1 .. m : Alike(parted, sql[n], kv[n])
  BY SameAnswer
<1>2. SqlQuery(query) = given
  BY DEF SqlQuery
<1> HIDE DEF sql, kv
<1>3. ASSUME NEW r \in TradeRecord
      PROVE  /\ RowToTrade(r).id = r.id /\ RowToTrade(r).status = r.status /\ RowToTrade(r).reason = r.reason
             /\ Pnl(RowToTrade(r)) = Pnl(r) \ {0}
  <2>1. DOMAIN r = {"id", "owner", "time", "status", "reason", "pnl", "known", "stopMoved"}
    BY DEF TradeRecord
  <2>2. CASE r.pnl = 0
    <3>1. DOMAIN RowToTrade(r) = DOMAIN r \ {"pnl"} /\ \A f \in DOMAIN r \ {"pnl"} : RowToTrade(r)[f] = r[f]
      BY <2>2 DEF RowToTrade
    <3> QED BY <2>1, <2>2, <3>1 DEF Pnl
  <2>3. CASE r.pnl # 0
    <3>1. DOMAIN RowToTrade(r) = DOMAIN r /\ \A f \in DOMAIN r : RowToTrade(r)[f] = r[f]
      BY <2>3 DEF RowToTrade
    <3> QED BY <2>1, <2>3, <3>1 DEF Pnl
  <2> QED BY <2>2, <2>3
<1>4. ASSUME NEW n \in 1 .. m
      PROVE  /\ Outcome(given)[n].id = Outcome(kv)[n].id /\ Outcome(given)[n].status = Outcome(kv)[n].status
             /\ Outcome(given)[n].id \notin parted =>
                  /\ Outcome(given)[n].reason = Outcome(kv)[n].reason
                  /\ Outcome(given)[n].pnl = Outcome(kv)[n].pnl \ {0}
  <2>1. sql[n] \in TradeRecord /\ kv[n] \in TradeRecord /\ Alike(parted, sql[n], kv[n]) /\ n \in DOMAIN sql /\ n \in DOMAIN kv
    BY <1>1
  <2>2. Outcome(given)[n] = [id |-> RowToTrade(sql[n]).id, status |-> RowToTrade(sql[n]).status,
                             reason |-> RowToTrade(sql[n]).reason, pnl |-> Pnl(RowToTrade(sql[n]))]
    BY <2>1 DEF Outcome
  <2>3. Outcome(kv)[n] = [id |-> kv[n].id, status |-> kv[n].status, reason |-> kv[n].reason, pnl |-> Pnl(kv[n])]
    BY <2>1 DEF Outcome
  <2>4. sql[n].id \notin parted => Pnl(sql[n]) = Pnl(kv[n])
    <3>1. DOMAIN sql[n] = DOMAIN kv[n]
      BY <2>1 DEF TradeRecord
    <3> QED BY <2>1, <3>1 DEF Pnl, Alike
  <2> QED BY <1>3, <2>1, <2>2, <2>3, <2>4 DEF Alike
<1>5. DOMAIN Outcome(given) = 1 .. m /\ DOMAIN Outcome(kv) = 1 .. m
  BY <1>1 DEF Outcome
<1>6. Len(given) = Len(kv)
  <2>1. DOMAIN given = 1 .. m /\ m \in Int
    BY <1>1
  <2> HIDE DEF given
  <2>2. Len(kv) \in Nat /\ DOMAIN kv = 1 .. Len(kv) /\ Len(kv) = IF m < 0 THEN 0 ELSE m
    BY <1>1
  <2>3. given = [n \in 1 .. m |-> RowToTrade(sql[n])]
    BY <1>1 DEF given
  <2>4. DOMAIN given = 1 .. Len(kv)
    BY <2>1, <2>2, <1>1
  <2> QED BY <2>2, <2>4
<1> HIDE DEF given
<1>7. SameOutcomes(Outcome(given), Outcome(kv))
  BY <1>4, <1>5 DEF SameOutcomes
<1> QED BY <1>2, <1>6, <1>7 DEF kv

LEMMA StoresAnswer ==
  ASSUME StoresInv
  PROVE  HistoriesAnswerAlike
<1> SUFFICES ASSUME DistinctTimes
             PROVE  /\ \A query \in HistoryQueries :
                         /\ HistoryAnswer(query, "sql").total = HistoryAnswer(query, "kv").total
                         /\ SameOutcomes(HistoryAnswer(query, "sql").trades, HistoryAnswer(query, "kv").trades)
                    /\ \A query \in {q \in HistoryQueries : q.limit = 0 /\ q.status = AnyOne} :
                         /\ StatsAnswer(query, "sql").total = StatsAnswer(query, "kv").total
                         /\ (\A r \in ToSet(SqlRows(Statistical(query))) : r.id \notin parted)
                              => StatsAnswer(query, "sql") = StatsAnswer(query, "kv")
                         /\ StatsAnswer(query, "sql").total = MapThenSumSet(LAMBDA u : UserStats(u, query, "sql").total, Users)
                         /\ \A u \in Users : \A k \in DOMAIN UserHistory(u, query, "sql").trades :
                              rows[UserHistory(u, query, "sql").trades[k].id].owner[2] = u
                    /\ \A owner \in Owners :
                         SameOutcomes(Outcome(OpenTradeOf(owner[1], "sql")), Outcome(OpenTradeOf(owner[1], "kv")))
  BY DEF HistoriesAnswerAlike, DistinctTimes
<1>1. ASSUME NEW query \in HistoryQueries
      PROVE  /\ HistoryAnswer(query, "sql").total = HistoryAnswer(query, "kv").total
             /\ SameOutcomes(HistoryAnswer(query, "sql").trades, HistoryAnswer(query, "kv").trades)
  BY QueryFields, OutcomesAlike DEF HistoryAnswer, Query
<1>2. ASSUME NEW query \in HistoryQueries, query.limit = 0, NEW u \in Users, NEW k \in DOMAIN UserHistory(u, query, "sql").trades
      PROVE  rows[UserHistory(u, query, "sql").trades[k].id].owner[2] = u
  <2> DEFINE q == OfUser(u, query)
  <2>1. q.user = u /\ q.offset = 0 /\ q.limit = 0
    BY <1>2, StatisticalFields, QueryFields
  <2>2. UserHistory(u, query, "sql").trades = Outcome(SqlQuery(q))
    BY DEF UserHistory, HistoryAnswer, Query
  <2> HIDE DEF q
  <2>3. k \in DOMAIN SqlRows(q) /\ Outcome(SqlQuery(q))[k].id = RowToTrade(SqlRows(q)[k]).id
    BY <1>2, <2>2 DEF Outcome, SqlQuery
  <2>4. PICK i \in SqlFound(q) : SqlRows(q)[k] = rows[i]
    BY <2>1, <2>3, SqlAll
  <2>5. i \in DOMAIN rows /\ rows[i] \in TradeRecord /\ rows[i].id = i /\ rows[i].owner[2] = u
    BY <2>1, UsersFinite DEF SqlFound, StoresInv, HistoryTyped
  <2>6. RowToTrade(rows[i]).id = i
    BY <2>5 DEF RowToTrade, TradeRecord
  <2> QED BY <2>2, <2>3, <2>4, <2>5, <2>6
<1>3. ASSUME NEW owner \in Owners
      PROVE  SameOutcomes(Outcome(OpenTradeOf(owner[1], "sql")), Outcome(OpenTradeOf(owner[1], "kv")))
  <2> DEFINE q == [Everything EXCEPT !.strategy = owner[1], !.status = "open", !.limit = 1]
  <2>1. q.user = AnyOne /\ q.offset \in Nat /\ q.limit \in Nat
    BY DEF Everything
  <2> HIDE DEF q
  <2> QED BY <2>1, OutcomesAlike DEF OpenTradeOf, Query, q
<1> QED BY <1>1, <1>2, <1>3, StatisticsAnswerAlike, AsManyFound, TotalsAddUp

(* Whatever was recorded, closed, linked and deleted, for any owners, the  *)
(* stores of the trade history answer with the same trades, and with the   *)
(* same outcomes and statistics where the trades were closed on records    *)
(* that agreed.                                                            *)
THEOREM StoresAgree == HistorySpec => []HistoriesAnswerAlike
<1>1. StoresInv => HistoriesAnswerAlike
  BY StoresAnswer
<1> QED BY <1>1, StoresInvInit, StoresInvStep, PTL DEF HistorySpec

=============================================================================
