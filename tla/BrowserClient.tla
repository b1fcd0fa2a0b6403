----------------------------- MODULE BrowserClient ----------------------------
(***************************************************************************)
(* The WebSocket client of the browser (lib/deribitClient.ts), which the   *)
(* browser's strategies and its Deribit broker use: connect with its       *)
(* authentication, the loss of the socket, the stale check, reconnecting   *)
(* with a bound on attempts, disconnect and setEnvironment, subscriptions, *)
(* and requests with their timeout and their retries.                      *)
(*                                                                         *)
(* An attempt to reconnect does not close the socket it replaces: several  *)
(* sockets may live, and every request goes over the latest, this.ws.      *)
(* Back-off times, tokens and payloads are left out; one channel stands    *)
(* for all.                                                                *)
(***************************************************************************)
EXTENDS Naturals, FiniteSets

CONSTANTS
  MaxReconnects, (* MAX_RECONNECT_ATTEMPTS: 10                             *)
  RetryLimit,    (* MAX_RETRIES: 5                                         *)
  ApiCalls,      (* calls that may be in flight                            *)
  MaxSockets, MaxLosses, MaxUserCalls (* bounds                            *)

ASSUME BrowserClientAssumption ==
  {MaxReconnects, RetryLimit, MaxSockets, MaxLosses, MaxUserCalls} \subseteq Nat

VARIABLES
  ws,        (* this.ws: the latest socket, 0 for null                     *)
  socket,    (* socket -> its life and that of its connect()               *)
  shownState,(* currentState                                               *)
  retrying,  (* isReconnecting                                             *)
  timeouts,    (* reconnect timeouts that will fire                          *)
  latest,    (* reconnectTimeout is one of them                            *)
  tries,     (* reconnectAttempts                                          *)
  beating,   (* the heartbeat and the stale check run                      *)
  wanted,    (* activeSubscriptions has the channel                        *)
  fed,       (* sockets over which the exchange sends it                   *)
  apiCall,   (* call -> where it is                                        *)
  losses, userCalls
retryVars == <<retrying, timeouts, latest, tries>>
browserClientVars == <<ws, socket, shownState, retryVars, beating, wanted, fed, apiCall, losses, userCalls>>

NoSocket == [link |-> "none", step |-> "none", by |-> "user", hooked |-> FALSE, over |-> 0, settled |-> FALSE]
NotAsked == [at |-> "none", what |-> "once", over |-> 0, retries |-> 0]
Sockets == 1..MaxSockets
Open(s) == s # 0 /\ socket[s].link = "open"
Made == {s \in Sockets : socket[s].link # "none"}
Lost == losses < MaxLosses /\ losses' = losses + 1
BoundsKept == UNCHANGED <<losses, userCalls>>

BrowserClientInit ==
  /\ ws = 0 /\ socket = [s \in Sockets |-> NoSocket] /\ shownState = "Stopped"
  /\ retrying = FALSE /\ timeouts = 0 /\ latest = FALSE /\ tries = 0 /\ beating = FALSE
  /\ wanted = FALSE /\ fed = {} /\ apiCall = [c \in ApiCalls |-> NotAsked]
  /\ losses = 0 /\ userCalls = 0

-----------------------------------------------------------------------------
(* attemptReconnect *)
AttemptReconnect ==
  IF tries >= MaxReconnects THEN retrying' = FALSE /\ UNCHANGED <<timeouts, latest, tries>>
  ELSE retrying' = TRUE /\ timeouts' = timeouts + 1 /\ latest' = TRUE /\ tries' = tries + 1

(* handleClose *)
HandleClose ==
  /\ beating' = FALSE
  /\ IF shownState # "Stopped" /\ ~retrying
     THEN AttemptReconnect /\ shownState' = IF tries >= MaxReconnects THEN "Error" ELSE shownState
     ELSE UNCHANGED <<shownState, retryVars>>

(* connect: a new socket becomes this.ws. *)
Makes(sockets, by) ==
  \E s \in Sockets :
    /\ s = Cardinality(Made) + 1 /\ ws' = s
    /\ socket' = [sockets EXCEPT ![s] = [NoSocket EXCEPT !.link = "opening", !.step = "open", !.by = by, !.hooked = TRUE]]
NewSocket(by) == Makes(socket, by) /\ shownState' = "Connecting"

(* Mutant: a reconnect that fails leaves isReconnecting set.               *)
RejectedStuck(s) ==
  /\ shownState' = "Error"
  /\ IF socket[s].by = "retry" /\ ~socket[s].settled /\ ~retrying THEN AttemptReconnect ELSE UNCHANGED retryVars
(* connect() is rejected; a reconnect then attempts the next one.          *)
Rejected(s) ==
  /\ shownState' = "Error"
  /\ IF socket[s].by = "retry" /\ ~socket[s].settled THEN AttemptReconnect ELSE UNCHANGED retryVars
Over(s) == socket' = [socket EXCEPT ![s].step = "over", ![s].settled = TRUE]

UserConnects ==
  /\ userCalls < MaxUserCalls /\ userCalls' = userCalls + 1
  /\ NewSocket("user")
  /\ UNCHANGED <<retryVars, beating, wanted, fed, apiCall, losses>>

(* The timeout fires: the last one set, or one whose handle is gone. *)
TimerFires ==
  /\ timeouts > 0 /\ timeouts' = timeouts - 1
  /\ latest' \in {l \in {latest, FALSE} : l => timeouts' > 0}
  /\ NewSocket("retry")
  /\ UNCHANGED <<retrying, tries, beating, wanted, fed, apiCall>> /\ BoundsKept

(* onopen: authenticate goes over this.ws, which may be a later socket. *)
Opens(s) ==
  /\ socket[s].link = "opening" /\ UNCHANGED <<ws, beating, wanted, fed, apiCall>> /\ BoundsKept
  /\ IF ws = s \/ Open(ws)
     THEN /\ socket' = [socket EXCEPT ![s].link = "open", ![s].step = "auth", ![s].over = ws]
          /\ UNCHANGED <<shownState, retryVars>>
     ELSE socket' = [socket EXCEPT ![s].link = "open", ![s].step = "over", ![s].settled = TRUE] /\ Rejected(s)

(* The answer to authenticate, then to testConnection; or none in time. *)
Authenticated(s) ==
  /\ socket[s].step = "auth" /\ Open(socket[s].over)
  /\ UNCHANGED <<ws, beating, wanted, fed, apiCall>> /\ BoundsKept
  /\ IF Open(ws) THEN socket' = [socket EXCEPT ![s].step = "test", ![s].over = ws] /\ UNCHANGED <<shownState, retryVars>>
     ELSE Over(s) /\ Rejected(s)
StepFails(s) ==
  /\ socket[s].step \in {"auth", "test"} /\ Over(s) /\ Rejected(s)
  /\ UNCHANGED <<ws, beating, wanted, fed, apiCall>> /\ BoundsKept

(* Tested: connected.  A reconnect is over and subscribes again. *)
Succeeds(s) ==
  /\ socket[s].step = "test" /\ Open(socket[s].over) /\ Over(s)
  /\ tries' = 0 /\ beating' = TRUE /\ shownState' = "Active"
  /\ IF socket[s].by = "retry" /\ ~socket[s].settled
     THEN /\ retrying' = FALSE
          /\ fed' \in {fed} \cup (IF wanted /\ Open(ws) THEN {fed \cup {ws}} ELSE {})
     ELSE UNCHANGED <<retrying, fed>>
  /\ UNCHANGED <<ws, timeouts, latest, wanted, apiCall>> /\ BoundsKept

-----------------------------------------------------------------------------
(* The socket is lost, with an error event (which rejects a connect() that *)
(* is not settled) or without; the close event follows.                    *)
LinkLost(s) ==
  /\ Open(s) /\ Lost /\ fed' = fed \ {s}
  /\ \/ socket' = [socket EXCEPT ![s].link = "closing"] /\ UNCHANGED <<shownState, retryVars>>
     \/ socket' = [socket EXCEPT ![s].link = "closing", ![s].settled = TRUE] /\ Rejected(s)
  /\ UNCHANGED <<ws, beating, wanted, apiCall, userCalls>>
OpeningFails(s) ==
  /\ socket[s].link = "opening" \/ socket[s].link = "aborted"
  /\ socket[s].link = "opening" => Lost
  /\ socket[s].link = "aborted" => UNCHANGED losses
  /\ socket' = [socket EXCEPT ![s].link = "closing", ![s].step = "over", ![s].settled = TRUE] /\ Rejected(s)
  /\ UNCHANGED <<ws, beating, wanted, fed, apiCall, userCalls>>
CloseEvent(s) ==
  /\ socket[s].link = "closing" /\ socket' = [socket EXCEPT ![s].link = "shut"]
  /\ IF socket[s].hooked THEN HandleClose ELSE UNCHANGED <<beating, shownState, retryVars>>
  /\ UNCHANGED <<ws, wanted, fed, apiCall>> /\ BoundsKept

(* No heartbeat was answered for a minute. *)
Stale ==
  /\ beating /\ Lost /\ HandleClose
  /\ UNCHANGED <<ws, socket, wanted, fed, apiCall, userCalls>>

-----------------------------------------------------------------------------
(* disconnect: only the last timeout and this.ws are taken care of; the    *)
(* requests in flight are rejected, those of a connect() included.         *)
Disconnected ==
  [s \in Sockets |->
     LET k == socket[s]
         aside == IF k.step \in {"auth", "test"} THEN [k EXCEPT !.step = "rejected"] ELSE k
     IN IF s # ws THEN aside
        ELSE [aside EXCEPT !.hooked = FALSE,
                           !.link = CASE @ = "opening" -> "aborted" [] @ \in {"open", "closing"} -> "shut" [] OTHER -> @]]
Drops ==
  /\ userCalls < MaxUserCalls /\ userCalls' = userCalls + 1
  /\ beating' = FALSE /\ timeouts' = (IF latest THEN timeouts - 1 ELSE timeouts) /\ latest' = FALSE
  /\ retrying' = FALSE /\ tries' = 0 /\ wanted' = FALSE /\ fed' = fed \ {ws}
  /\ apiCall' = [c \in ApiCalls |-> IF apiCall[c].at = "asked" THEN NotAsked ELSE apiCall[c]]
  /\ UNCHANGED losses
ClientDisconnect == Drops /\ ws' = 0 /\ socket' = Disconnected /\ shownState' = "Stopped"

(* setEnvironment: disconnect, and connect again if it was connected. *)
SetEnvironment == Open(ws) /\ Drops /\ Makes(Disconnected, "user") /\ shownState' = "Connecting"

(* The rejections of disconnect run right after it. *)
RejectionRuns(s) ==
  /\ socket[s].step = "rejected" /\ Over(s) /\ Rejected(s)
  /\ UNCHANGED <<ws, beating, wanted, fed, apiCall>> /\ BoundsKept

-----------------------------------------------------------------------------
(* callRPC: three read methods are retried, all others are tried once.     *)
Asks(c, k) ==
  apiCall' = [apiCall EXCEPT ![c] =
    IF Open(ws) THEN [k EXCEPT !.at = "asked", !.over = ws]
    ELSE IF k.what = "retryable" /\ k.retries < RetryLimit THEN [k EXCEPT !.at = "backoff", !.retries = @ + 1]
    ELSE NotAsked]
Begins(c, what) ==
  /\ apiCall[c].at = "none" /\ userCalls < MaxUserCalls /\ userCalls' = userCalls + 1
  /\ Asks(c, [NotAsked EXCEPT !.what = what])
  /\ UNCHANGED <<ws, socket, shownState, retryVars, beating, wanted, fed, losses>>
QueryCall(c) == Begins(c, "retryable")
BuyOrder(c) == Begins(c, "once")
SellOrder(c) == Begins(c, "once")
PositionCall(c) == Begins(c, "once")
ReadCall(c) == Begins(c, "once")
SubscribeCall(c) == Begins(c, "subscribe")

CallAgain(c) ==
  /\ apiCall[c].at = "backoff" /\ Asks(c, apiCall[c])
  /\ UNCHANGED <<ws, socket, shownState, retryVars, beating, wanted, fed>> /\ BoundsKept
CallAnswered(c) ==
  /\ apiCall[c].at = "asked" /\ Open(apiCall[c].over)
  /\ apiCall' = [apiCall EXCEPT ![c] = NotAsked]
  /\ IF apiCall[c].what = "subscribe" THEN wanted' = TRUE /\ fed' = fed \cup {apiCall[c].over} ELSE UNCHANGED <<wanted, fed>>
  /\ UNCHANGED <<ws, socket, shownState, retryVars, beating>> /\ BoundsKept
CallFails(c) ==
  /\ apiCall[c].at = "asked"
  /\ apiCall' = [apiCall EXCEPT ![c] =
       IF @.what = "retryable" /\ @.retries < RetryLimit THEN [@ EXCEPT !.at = "backoff", !.retries = @ + 1] ELSE NotAsked]
  /\ UNCHANGED <<ws, socket, shownState, retryVars, beating, wanted, fed>> /\ BoundsKept

-----------------------------------------------------------------------------
SocketEvent(s) ==
  Opens(s) \/ Authenticated(s) \/ StepFails(s) \/ Succeeds(s) \/ LinkLost(s) \/ OpeningFails(s) \/ CloseEvent(s)
ApiCall(c) ==
  \/ QueryCall(c) \/ BuyOrder(c) \/ SellOrder(c) \/ PositionCall(c) \/ ReadCall(c) \/ SubscribeCall(c)
  \/ CallAgain(c) \/ CallAnswered(c) \/ CallFails(c)
Rejections == {s \in Sockets : socket[s].step = "rejected"}

BrowserClientNext ==
  \/ \E s \in Rejections : RejectionRuns(s)
  \/ /\ Rejections = {}
     /\ \/ UserConnects \/ TimerFires \/ Stale \/ ClientDisconnect \/ SetEnvironment
        \/ \E s \in Made : SocketEvent(s)
        \/ \E c \in ApiCalls : ApiCall(c)

-----------------------------------------------------------------------------
BrowserClientTypeOK ==
  /\ ws \in {0} \cup Made /\ shownState \in {"Stopped", "Connecting", "Active", "Error"}
  /\ {retrying, latest, beating, wanted} \subseteq BOOLEAN /\ tries \in 0..MaxReconnects
  /\ latest => timeouts > 0
  /\ fed \subseteq Made

(* isReconnecting blocks every further attempt, so that it must not stay   *)
(* set: whatever connects, losses, rejections and environment changes      *)
(* overlap, it is only set while a timeout will fire or an attempt is      *)
(* still to be decided.                                                    *)
Undecided == {s \in Made : socket[s].by = "retry" /\ ~socket[s].settled}
LossIsRetried == retrying => timeouts > 0 \/ Undecided # {}

(* A disconnect lasts until the user connects again. *)
DisconnectLasts == ws = 0 /\ Rejections = {} => shownState = "Stopped"

=============================================================================
