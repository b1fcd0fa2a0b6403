----------------------------- MODULE DeribitClient -----------------------------
(***************************************************************************)
(* The WebSocket client of deribit-client.ts: connection, authentication,  *)
(* reconnects behind a circuit breaker, requests with their timeouts, and  *)
(* ticker subscriptions.  The exchange (external) answers the requests of  *)
(* an open socket in any order, with a result or an error, or never; a     *)
(* closed socket loses its answers.                                        *)
(***************************************************************************)
EXTENDS Naturals, FiniteSets, Sequences, Functions

CONSTANTS
  Channels,    (* ticker channels                                          *)
  MaxAttempts, (* maxReconnectAttempts                                     *)
  MaxDrops,    (* bound on connections that break after they were opened   *)
  MaxCalls     (* bound on calls of the application                        *)

ASSUME ClientAssumption ==
  /\ MaxAttempts \in Nat \ {0}
  /\ {MaxDrops, MaxCalls} \subseteq Nat

VARIABLES
  link,     (* this.ws and what connect() awaits on it                     *)
  timer,    (* reconnectTimer or circuitBreakerResetTimer                  *)
  attempts, (* reconnectAttempts                                           *)
  closing,  (* the close event of a socket given up by disconnect() is due *)
  lastId,   (* messageId: ids given out so far                             *)
  pending,  (* pendingRequests: id -> what was asked                       *)
  wire,     (* ids the exchange may still answer on this socket            *)
  subs,     (* subscriptions: channels with a callback                     *)
  feed,     (* channels the exchange sends on this socket                  *)
  bare,     (* resubscribeAll failed on this socket                        *)
  userOff,  (* disconnect() was called                                     *)
  process,  (* the Node process runs: an unhandled rejection ends it       *)
  drops, calls

linkVars == <<link, timer, attempts, closing, bare>>
requestVars == <<lastId, pending, wire>>
feedVars == <<subs, feed>>
clientVars == <<linkVars, requestVars, feedVars, userOff, process, drops, calls>>

(* off: ws is null; lame: open, but authentication has failed.             *)
Open == {"auth", "resub", "up", "lame"}
Authenticated == {"resub", "up"}
Links == Open \cup {"off", "connecting", "closed"}

Request == [what: {"auth", "resub", "heartbeat", "test", "call"}, chans: SUBSET Channels]
           \cup [what: {"info", "sub"}, chans: {{ch} : ch \in Channels}]
Ask(what, chans) == [what |-> what, chans |-> chans]

ClientInit ==
  /\ link = "connecting" /\ timer = "none" /\ attempts = 0 /\ closing = FALSE /\ bare = FALSE
  /\ lastId = 0 /\ pending = <<>> /\ wire = {}
  /\ subs = {} /\ feed = {}
  /\ userOff = FALSE /\ process \in BOOLEAN
  /\ drops = 0 /\ calls = 0

-----------------------------------------------------------------------------
(* Requests *)

Without(f, ids) == Restrict(f, DOMAIN f \ ids)

(* sendRequest on an open socket, after the requests of `settled` are gone *)
SendAfter(settled, rs) ==
  LET ids == (lastId + 1)..(lastId + Len(rs)) IN
    /\ lastId' = lastId + Len(rs)
    /\ pending' = [i \in (DOMAIN pending \ settled) \cup ids |->
                     IF i \in ids THEN rs[i - lastId] ELSE pending[i]]
    /\ wire' = (wire \ settled) \cup ids

(* Nothing catches the rejection of the public/test that answers a         *)
(* test_request: unhandledRejection shuts the server down.                 *)
Reject(ids) == process' = (process /\ \A i \in ids : pending[i].what # "test")

(* Mutant: connect() does not restore the subscriptions. *)
AuthenticatedBare(i) ==
  /\ link' = "up" /\ attempts' = 0
  /\ SendAfter({i}, <<Ask("heartbeat", {})>>)
  /\ UNCHANGED <<timer, closing, bare, feedVars>>

(* The rest of connect() after authenticate(), up to its next await.       *)
AfterAuth(i) ==
  /\ IF subs = {}
       THEN /\ link' = "up" /\ attempts' = 0
            /\ SendAfter({i}, <<Ask("heartbeat", {})>>)
       ELSE /\ link' = "resub" /\ UNCHANGED attempts
            /\ SendAfter({i}, <<Ask("heartbeat", {}), Ask("resub", subs)>>)
  /\ UNCHANGED <<timer, closing, bare, feedVars>>

(* What the continuation of a request does.  connect() reports success     *)
(* once resubscribeAll has returned, whether or not it succeeded.          *)
Resolved(i) ==
  LET r == pending[i] IN
  CASE r.what = "auth" -> AfterAuth(i)
    [] r.what = "resub" ->
         /\ link' = "up" /\ attempts' = 0 /\ feed' = feed \cup r.chans
         /\ SendAfter({i}, <<>>) /\ UNCHANGED <<timer, closing, bare, subs>>
    [] r.what = "info" ->
         /\ subs' = subs \cup r.chans
         /\ SendAfter({i}, <<Ask("sub", r.chans)>>) /\ UNCHANGED <<linkVars, feed>>
    [] r.what = "sub" ->
         /\ feed' = feed \cup r.chans
         /\ SendAfter({i}, <<>>) /\ UNCHANGED <<linkVars, subs>>
    [] OTHER -> SendAfter({i}, <<>>) /\ UNCHANGED <<linkVars, feedVars>>

Rejected(i) ==
  LET r == pending[i] IN
  /\ CASE r.what = "auth" -> link' = "lame" /\ UNCHANGED <<attempts, bare, subs>>
       [] r.what = "resub" -> link' = "up" /\ attempts' = 0 /\ bare' = TRUE /\ UNCHANGED subs
       [] r.what = "sub" -> subs' = subs \ r.chans /\ UNCHANGED <<link, attempts, bare>>
       [] OTHER -> UNCHANGED <<link, attempts, bare, subs>>
  /\ Reject({i})
  /\ UNCHANGED <<timer, closing>>

(* handleMessage: an answer with an id that is no longer pending (its      *)
(* request has timed out) is dropped.                                      *)
Answer(i) ==
  /\ i \in wire
  /\ IF i \in DOMAIN pending
       THEN \/ Resolved(i) /\ UNCHANGED process
            \/ Rejected(i) /\ SendAfter({i}, <<>>) /\ UNCHANGED feed
       ELSE wire' = wire \ {i} /\ UNCHANGED <<linkVars, lastId, pending, feedVars, process>>
  /\ UNCHANGED <<userOff, drops, calls>>

(* 30 s without an answer.  The exchange may have done what was asked.     *)
Timeout(i) ==
  /\ i \in DOMAIN pending
  /\ Rejected(i)
  /\ pending' = Without(pending, {i})
  /\ \/ UNCHANGED feed
     \/ pending[i].what \in {"sub", "resub"} /\ feed' = feed \cup pending[i].chans
  /\ UNCHANGED <<lastId, wire, userOff, drops, calls>>

-----------------------------------------------------------------------------
(* Connection *)

(* scheduleReconnect, and openCircuitBreaker after the last attempt.  A    *)
(* connect() that was waiting for resubscribeAll still reports success,    *)
(* and a reconnect then clears the counter.                                *)
ScheduleReconnect ==
  /\ timer' = IF attempts >= MaxAttempts THEN "breaker" ELSE "reconnect"
  /\ attempts' = IF link = "resub" /\ attempts > 0 THEN 0
                 ELSE IF attempts >= MaxAttempts THEN attempts ELSE attempts + 1

(* Mutant: a close event leaves the requests of the socket pending. *)
CleanupNothing ==
  /\ wire' = {} /\ feed' = {}
  /\ UNCHANGED <<pending, subs, process>>

(* cleanup: every pending request is rejected; the continuations of those  *)
(* of subscribeTicker drop the callback.                                   *)
CleanupRequests ==
  /\ Reject(DOMAIN pending)
  /\ subs' = subs \ UNION {pending[i].chans : i \in {j \in DOMAIN pending : pending[j].what = "sub"}}
  /\ pending' = <<>> /\ wire' = {} /\ feed' = {}

(* The close event.  credentials is never cleared, so it always leads to   *)
(* another attempt.                                                        *)
OnClose ==
  /\ CleanupRequests
  /\ ScheduleReconnect
  /\ link' = "closed" /\ bare' = FALSE

Drop ==
  /\ link \in Open
  /\ drops < MaxDrops
  /\ drops' = drops + 1
  /\ OnClose
  /\ UNCHANGED <<closing, lastId, userOff, calls>>

(* error, then close *)
ConnectFails ==
  /\ link = "connecting"
  /\ OnClose
  /\ UNCHANGED <<closing, lastId, userOff, drops, calls>>

(* open: authenticate() sends the first request of the socket. *)
Opened ==
  /\ link = "connecting"
  /\ link' = "auth"
  /\ SendAfter({}, <<Ask("auth", {})>>)
  /\ UNCHANGED <<timer, attempts, closing, bare, feedVars, userOff, process, drops, calls>>

ReconnectTimer ==
  /\ timer = "reconnect"
  /\ timer' = "none" /\ link' = "connecting"
  /\ UNCHANGED <<attempts, closing, bare, requestVars, feedVars, userOff, process, drops, calls>>

(* Mutant: the breaker closes again without an attempt. *)
BreakerResetOnly ==
  /\ timer = "breaker"
  /\ timer' = "none" /\ attempts' = 0
  /\ UNCHANGED <<link, closing, bare, requestVars, feedVars, userOff, process, drops, calls>>

BreakerTimer ==
  /\ timer = "breaker"
  /\ timer' = "none" /\ attempts' = 0 /\ link' = "connecting"
  /\ UNCHANGED <<closing, bare, requestVars, feedVars, userOff, process, drops, calls>>

(* disconnect(), which a client gets once: the timers and requests are     *)
(* cleaned up and ws is null; its close event comes later.                 *)
Disconnect ==
  /\ ~userOff
  /\ CleanupRequests
  /\ timer' = "none" /\ link' = "off" /\ bare' = FALSE
  /\ closing' = (link # "closed")
  /\ userOff' = TRUE
  /\ attempts' = IF link = "resub" THEN 0 ELSE attempts
  /\ UNCHANGED <<lastId, drops, calls>>

LateClose ==
  /\ closing
  /\ closing' = FALSE
  /\ CleanupRequests
  /\ ScheduleReconnect
  /\ UNCHANGED <<link, bare, lastId, userOff, drops, calls>>

-----------------------------------------------------------------------------
(* Calls of the application; without an open socket (or, where it is       *)
(* needed, authentication) they throw and change nothing.                  *)

Call ==
  /\ calls < MaxCalls
  /\ calls' = calls + 1
  /\ UNCHANGED <<linkVars, userOff, process, drops>>

PlaceOrder ==
  /\ link \in Authenticated
  /\ Call /\ SendAfter({}, <<Ask("call", {})>>) /\ UNCHANGED feedVars

SubscribeTicker(ch) ==
  /\ link \in Open
  /\ Call /\ SendAfter({}, <<Ask("info", {ch})>>) /\ UNCHANGED feedVars

(* The exchange asks for a sign of life. *)
TestRequest ==
  /\ link \in Authenticated
  /\ Call /\ SendAfter({}, <<Ask("test", {})>>) /\ UNCHANGED feedVars

ClientNext ==
  /\ process
  /\ \/ \E i \in wire : Answer(i)
     \/ \E i \in DOMAIN pending : Timeout(i)
     \/ Drop \/ ConnectFails \/ Opened \/ ReconnectTimer \/ BreakerTimer
     \/ Disconnect \/ LateClose \/ PlaceOrder \/ TestRequest
     \/ \E ch \in Channels : SubscribeTicker(ch)

(* Timers fire, requests are answered or time out, the socket that was     *)
(* given up closes, and a connection attempt succeeds or fails.            *)
ClientFairness ==
  /\ WF_clientVars(process /\ (ReconnectTimer \/ BreakerTimer))
  /\ WF_clientVars(process /\ LateClose)
  /\ WF_clientVars(process /\ (Opened \/ ConnectFails))
  /\ WF_clientVars(process /\ \E i \in DOMAIN pending : Timeout(i) \/ Answer(i))

ClientSpec == ClientInit /\ [][ClientNext]_clientVars

-----------------------------------------------------------------------------
ClientTypeOK ==
  /\ link \in Links /\ timer \in {"none", "reconnect", "breaker"} /\ attempts \in 0..MaxAttempts
  /\ {closing, bare, userOff, process} \subseteq BOOLEAN
  /\ lastId \in Nat /\ IsFiniteSet(wire) /\ wire \subseteq 1..lastId
  /\ DOMAIN pending \subseteq 1..lastId /\ \A i \in DOMAIN pending : pending[i] \in Request
  /\ subs \subseteq Channels /\ feed \subseteq Channels
  /\ drops \in 0..MaxDrops /\ calls \in 0..MaxCalls

(* There is one way forward at a time: a timer is armed only while there   *)
(* is no socket and none still has to close, so that close events, timers  *)
(* and the breaker never start two connections of one client.              *)
OneLink ==
  /\ timer # "none" => link \in {"off", "closed"} /\ ~closing
  /\ closing => link = "off"

(* No request outlives its socket: what is pending can still be answered,  *)
(* so a reconnect neither leaves a caller to its 30 s timeout nor lets an  *)
(* answer of the new socket reach a request of the old one.                *)
PendingOnOpenSocket == DOMAIN pending # {} => link \in Open

(* Once connect() has resolved, whatever number of drops and reconnects    *)
(* came before, every channel with a callback is fed or being subscribed,  *)
(* unless resubscribeAll failed and said so only in the log.               *)
SubscriptionsRestored ==
  link = "up" /\ ~bare =>
    \A ch \in subs : \/ ch \in feed
                     \/ \E i \in DOMAIN pending : pending[i] = Ask("sub", {ch})

(* The circuit breaker delays but never ends the attempts to reconnect: a  *)
(* lost connection is always followed by another attempt.                  *)
KeepsTrying ==
  (link = "closed" /\ process) ~> (link = "connecting" \/ userOff \/ ~process)

(* "Only reconnect if we have credentials (prevents reconnect after manual *)
(* disconnect)": after disconnect() the client opens no connection.        *)
DisconnectStaysDown == userOff => link \in {"off", "closed"}

(* "Enable for 24/7 trading": losing the connection costs at most the      *)
(* requests in flight, never the server process.                           *)
LossSurvived == process

=============================================================================
