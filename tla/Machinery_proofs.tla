--------------------------- MODULE Machinery_proofs ----------------------------
(***************************************************************************)
(* What is proved of the machinery below the services, for any number of   *)
(* calls, drops, jobs, entries, trades and faults.                         *)
(*                                                                         *)
(* The WebSocket client: no request outlives its socket, and a client that *)
(* is up has its subscriptions restored.  There is one way forward at a    *)
(* time (OneLink), so that a timer or a late close event never finds an    *)
(* open socket; a socket starts without pending requests; and the one      *)
(* request that renews the subscriptions is pending exactly while          *)
(* connect() waits for it.                                                 *)
(*                                                                         *)
(* The orchestrator's queue never starts more workers than the tier        *)
(* allows.  processQueue counts them in one step and registers the new one *)
(* in a later one; one job is in hand at a time, and nobody else spawns: a *)
(* health check does so only for a crashed worker.                         *)
(* A job that runs has a worker, also next to health checks that act on    *)
(* what they found when they began.                                        *)
(*                                                                         *)
(* The strategy runner opens one position in a calm run, and the migration *)
(* tool records what is there: their invariants are explained below.       *)
(***************************************************************************)
EXTENDS DeribitClient, Orchestrator, StrategyRunner, Migrations,
        FiniteSetTheorems, WellFoundedInduction, TLAPS

Fed(ch) ==
  ch \in feed \/ \E i \in DOMAIN pending : pending[i] = Ask("sub", {ch})

Renewed(ch) == \E i \in DOMAIN pending : pending[i].what = "resub" /\ ch \in pending[i].chans

RequestsTyped ==
  /\ link \in Links /\ lastId \in Nat /\ subs \subseteq Channels
  /\ DOMAIN pending \subseteq 1..lastId
  /\ \A i \in DOMAIN pending : pending[i] \in Request

(* connect() waits for one request at a time. *)
AwaitsOne ==
  /\ \A i \in DOMAIN pending : pending[i].what \in {"auth", "resub"} => link = pending[i].what
  /\ \A i, j \in DOMAIN pending :
       pending[i].what \in {"auth", "resub"} /\ pending[j].what = pending[i].what => i = j

Renewing == link = "resub" => \A ch \in subs : Fed(ch) \/ Renewed(ch)

Restored == link = "up" /\ ~bare => \A ch \in subs : Fed(ch)

ClientInv ==
  /\ RequestsTyped /\ OneLink /\ PendingOnOpenSocket
  /\ AwaitsOne /\ Renewing /\ Restored

-----------------------------------------------------------------------------
(* What sendRequest makes of the pending requests, for none, one and two.  *)
LEMMA SendNone ==
  ASSUME RequestsTyped, NEW S, SendAfter(S, <<>>)
  PROVE  /\ lastId' = lastId /\ DOMAIN pending' = DOMAIN pending \ S
         /\ \A i \in DOMAIN pending' : pending'[i] = pending[i]
<1>1. Len(<<>>) = 0 /\ (lastId + 1)..(lastId + 0) = {}
  BY DEF RequestsTyped
<1> QED BY <1>1 DEF RequestsTyped, SendAfter

LEMMA SendOne ==
  ASSUME RequestsTyped, NEW S, NEW r, SendAfter(S, <<r>>)
  PROVE  /\ lastId' = lastId + 1 /\ lastId' \notin DOMAIN pending
         /\ DOMAIN pending' = (DOMAIN pending \ S) \cup {lastId'} /\ pending'[lastId'] = r
         /\ \A i \in DOMAIN pending \ S : pending'[i] = pending[i]
<1>1. (lastId + 1)..(lastId + Len(<<r>>)) = {lastId + 1}
  BY DEF RequestsTyped
<1> QED BY <1>1 DEF RequestsTyped, SendAfter

LEMMA SendTwo ==
  ASSUME RequestsTyped, NEW S, NEW r, NEW q, SendAfter(S, <<r, q>>)
  PROVE  /\ lastId' = lastId + 2 /\ {lastId + 1, lastId + 2} \cap DOMAIN pending = {}
         /\ DOMAIN pending' = (DOMAIN pending \ S) \cup {lastId + 1, lastId + 2}
         /\ pending'[lastId + 1] = r /\ pending'[lastId + 2] = q
         /\ \A i \in DOMAIN pending \ S : pending'[i] = pending[i]
<1>1. (lastId + 1)..(lastId + Len(<<r, q>>)) = {lastId + 1, lastId + 2}
  BY DEF RequestsTyped
<1> QED BY <1>1 DEF RequestsTyped, SendAfter

-----------------------------------------------------------------------------
LEMMA InitClientInv == ClientInit => ClientInv
BY DEF ClientInit, ClientInv, RequestsTyped, OneLink, PendingOnOpenSocket, AwaitsOne,
       Renewing, Restored, Links, Open

(* Every request is gone, and no socket is open. *)
LEMMA ClosedKeeps ==
  ASSUME ClientInv, pending' = <<>>, lastId' = lastId, subs' \subseteq subs,
         link' \in {"off", "closed"}, OneLink'
  PROVE  ClientInv'
BY DEF ClientInv, RequestsTyped, PendingOnOpenSocket, AwaitsOne, Renewing, Restored, Links

LEMMA OnCloseKeeps ==
  ASSUME ClientInv, OnClose, UNCHANGED <<closing, lastId>>, link \in Open \cup {"connecting"}
  PROVE  ClientInv'
<1>1. OneLink'
  BY DEF ClientInv, OneLink, OnClose, Open
<1> QED BY <1>1, ClosedKeeps DEF OnClose, CleanupRequests

LEMMA DisconnectKeeps == ASSUME ClientInv, Disconnect PROVE ClientInv'
<1>1. OneLink'
  BY DEF ClientInv, OneLink, Disconnect
<1> QED BY <1>1, ClosedKeeps DEF Disconnect, CleanupRequests

LEMMA LateCloseKeeps == ASSUME ClientInv, LateClose PROVE ClientInv'
<1>1. OneLink' /\ link' = "off"
  BY DEF ClientInv, OneLink, LateClose
<1> QED BY <1>1, ClosedKeeps DEF LateClose, CleanupRequests

(* A timer fires only without a socket, hence without requests. *)
LEMMA TimerKeeps == ASSUME ClientInv, ReconnectTimer \/ BreakerTimer PROVE ClientInv'
<1>1. link \in {"off", "closed"} /\ ~closing /\ DOMAIN pending = {}
  BY DEF ClientInv, OneLink, PendingOnOpenSocket, ReconnectTimer, BreakerTimer, Open
<1> QED
  BY <1>1 DEF ReconnectTimer, BreakerTimer, ClientInv, RequestsTyped, OneLink, PendingOnOpenSocket,
              AwaitsOne, Renewing, Restored, Links, requestVars, feedVars

LEMMA OpenedKeeps == ASSUME ClientInv, Opened PROVE ClientInv'
<1>1. DOMAIN pending = {} /\ timer = "none" /\ ~closing
  BY DEF ClientInv, OneLink, PendingOnOpenSocket, Opened, Open
<1>2. /\ lastId' = lastId + 1 /\ DOMAIN pending' = {lastId'}
      /\ pending'[lastId'] = Ask("auth", {})
  BY <1>1, SendOne DEF ClientInv, Opened
<1>3. Ask("auth", {}) \in Request
  BY DEF Ask, Request
<1> QED
  BY <1>1, <1>2, <1>3 DEF Opened, ClientInv, RequestsTyped, OneLink, PendingOnOpenSocket, AwaitsOne,
              Renewing, Restored, Links, Open, Ask, feedVars

-----------------------------------------------------------------------------
(* What holds while the socket is open, when requests leave and others     *)
(* come: the cases of an answer and of a call.                             *)
LEMMA OpenKeeps ==
  ASSUME ClientInv, link \in Open, link' \in Open, timer' = timer, closing' = closing
  PROVE  OneLink' /\ PendingOnOpenSocket' /\ link' \in Links
BY DEF ClientInv, OneLink, PendingOnOpenSocket, Links, Open

(* The answer to authenticate(). *)
LEMMA AuthResolvedKeeps ==
  ASSUME ClientInv, NEW i \in DOMAIN pending, pending[i].what = "auth", AfterAuth(i)
  PROVE  ClientInv'
<1>1. link = "auth" /\ \A j \in DOMAIN pending \ {i} : pending[j].what \notin {"auth", "resub"}
  BY DEF ClientInv, AwaitsOne
<1>2. CASE subs = {}
  <2>1. /\ DOMAIN pending' = (DOMAIN pending \ {i}) \cup {lastId'} /\ lastId' = lastId + 1
        /\ pending'[lastId'] = Ask("heartbeat", {})
        /\ \A j \in DOMAIN pending \ {i} : pending'[j] = pending[j]
    BY <1>2, SendOne DEF AfterAuth, ClientInv
  <2>2. Ask("heartbeat", {}) \in Request
    BY DEF Ask, Request
  <2>3. OneLink' /\ PendingOnOpenSocket' /\ link' \in Links
    BY <1>1, <1>2, OpenKeeps DEF AfterAuth, Open
  <2>4. RequestsTyped'
    BY <1>2, <2>1, <2>2, <2>3 DEF AfterAuth, ClientInv, RequestsTyped, feedVars
  <2> QED
    BY <1>1, <1>2, <2>1, <2>3, <2>4 DEF AfterAuth, ClientInv, AwaitsOne, Renewing, Restored, feedVars, Ask
<1>3. CASE subs # {}
  <2>1. /\ DOMAIN pending' = (DOMAIN pending \ {i}) \cup {lastId + 1, lastId + 2} /\ lastId' = lastId + 2
        /\ pending'[lastId + 1] = Ask("heartbeat", {}) /\ pending'[lastId + 2] = Ask("resub", subs)
        /\ \A j \in DOMAIN pending \ {i} : pending'[j] = pending[j]
    BY <1>3, SendTwo DEF AfterAuth, ClientInv
  <2>2. Ask("heartbeat", {}) \in Request /\ Ask("resub", subs) \in Request
    BY DEF Ask, Request, ClientInv, RequestsTyped
  <2>3. OneLink' /\ PendingOnOpenSocket' /\ link' \in Links
    BY <1>1, <1>3, OpenKeeps DEF AfterAuth, Open
  <2>4. RequestsTyped'
    BY <1>3, <2>1, <2>2, <2>3 DEF AfterAuth, ClientInv, RequestsTyped, feedVars
  <2>5. Renewing'
    BY <1>3, <2>1 DEF AfterAuth, Renewing, Renewed, feedVars, Ask
  <2> QED
    BY <1>1, <1>3, <2>1, <2>3, <2>4, <2>5 DEF AfterAuth, ClientInv, AwaitsOne, Restored, feedVars, Ask
<1> QED BY <1>2, <1>3

(* The answer to the subscriptions renewed. *)
LEMMA ResubResolvedKeeps ==
  ASSUME ClientInv, NEW i \in DOMAIN pending, pending[i].what = "resub", Resolved(i)
  PROVE  ClientInv'
<1>1. link = "resub" /\ \A j \in DOMAIN pending \ {i} : pending[j].what \notin {"auth", "resub"}
  BY DEF ClientInv, AwaitsOne
<1>2. /\ link' = "up" /\ feed' = feed \cup pending[i].chans /\ SendAfter({i}, <<>>)
      /\ UNCHANGED <<timer, closing, subs>>
  BY DEF Resolved
<1>3. /\ lastId' = lastId /\ DOMAIN pending' = DOMAIN pending \ {i}
      /\ \A j \in DOMAIN pending' : pending'[j] = pending[j]
  BY <1>2, SendNone DEF ClientInv
<1>4. OneLink' /\ PendingOnOpenSocket' /\ link' \in Links
  BY <1>1, <1>2, OpenKeeps DEF Open
<1>5. RequestsTyped'
  BY <1>2, <1>3, <1>4 DEF ClientInv, RequestsTyped
<1>6. ASSUME NEW ch \in subs PROVE Fed(ch)'
  <2>1. CASE Renewed(ch)
    <3>1. ch \in pending[i].chans
      BY <1>1, <2>1 DEF Renewed
    <3> QED BY <1>2, <3>1 DEF Fed
  <2>2. CASE ch \in feed
    BY <1>2, <2>2 DEF Fed
  <2>3. ASSUME NEW j \in DOMAIN pending, pending[j] = Ask("sub", {ch}) PROVE Fed(ch)'
    <3>1. j \in DOMAIN pending'
      BY <1>3, <2>3 DEF Ask
    <3> QED BY <1>3, <2>3, <3>1 DEF Fed, Ask
  <2> QED BY <1>1, <2>1, <2>2, <2>3 DEF ClientInv, Renewing, Fed
<1> QED
  BY <1>1, <1>2, <1>3, <1>4, <1>5, <1>6 DEF ClientInv, AwaitsOne, Renewing, Restored

(* The answer to the first request of subscribeTicker: the callback is     *)
(* kept and the second is sent.                                            *)
LEMMA InfoResolvedKeeps ==
  ASSUME ClientInv, NEW i \in DOMAIN pending, pending[i].what = "info", Resolved(i)
  PROVE  ClientInv'
<1>0. PICK c \in Channels : pending[i].chans = {c}
  BY DEF ClientInv, RequestsTyped, Request
<1>1. link \in Open
  BY DEF ClientInv, PendingOnOpenSocket
<1>2. /\ SendAfter({i}, <<Ask("sub", {c})>>) /\ subs' = subs \cup {c}
      /\ UNCHANGED <<link, timer, closing, bare, feed>>
  BY <1>0 DEF Resolved, linkVars
<1>3. /\ DOMAIN pending' = (DOMAIN pending \ {i}) \cup {lastId'} /\ lastId' = lastId + 1
      /\ pending'[lastId'] = Ask("sub", {c})
      /\ \A j \in DOMAIN pending \ {i} : pending'[j] = pending[j]
  BY <1>2, SendOne DEF ClientInv
<1>4. OneLink' /\ PendingOnOpenSocket' /\ link' \in Links
  BY <1>1, <1>2, OpenKeeps
<1>5. RequestsTyped'
  <2>1. Ask("sub", {c}) \in Request
    BY DEF Ask, Request
  <2> QED BY <1>2, <1>3, <1>4, <2>1 DEF ClientInv, RequestsTyped
<1>6. \A ch \in subs : (Fed(ch) => Fed(ch)') /\ (Renewed(ch) => Renewed(ch)')
  BY <1>2, <1>3 DEF Fed, Renewed, Ask
<1>7. Fed(c)'
  BY <1>3 DEF Fed
<1>8. AwaitsOne'
  BY <1>2, <1>3 DEF ClientInv, AwaitsOne, Ask
<1> QED
  BY <1>2, <1>4, <1>5, <1>6, <1>7, <1>8 DEF ClientInv, Renewing, Restored

LEMMA SubResolvedKeeps ==
  ASSUME ClientInv, NEW i \in DOMAIN pending, pending[i].what \notin {"auth", "resub", "info"}, Resolved(i)
  PROVE  ClientInv'
<1>1. link \in Open
  BY DEF ClientInv, PendingOnOpenSocket
<1>2. /\ SendAfter({i}, <<>>) /\ UNCHANGED <<link, timer, closing, bare, subs>> /\ feed \subseteq feed'
      /\ pending[i].what = "sub" => pending[i].chans \subseteq feed'
  BY DEF Resolved, linkVars, feedVars
<1>3. /\ lastId' = lastId /\ DOMAIN pending' = DOMAIN pending \ {i}
      /\ \A j \in DOMAIN pending' : pending'[j] = pending[j]
  BY <1>2, SendNone DEF ClientInv
<1>4. OneLink' /\ PendingOnOpenSocket' /\ link' \in Links
  BY <1>1, <1>2, OpenKeeps
<1>5. RequestsTyped'
  BY <1>2, <1>3, <1>4 DEF ClientInv, RequestsTyped
<1>6. \A ch \in subs : (Fed(ch) => Fed(ch)') /\ (Renewed(ch) => Renewed(ch)')
  BY <1>2, <1>3 DEF Fed, Renewed, Ask
<1>8. AwaitsOne'
  BY <1>2, <1>3 DEF ClientInv, AwaitsOne
<1> QED
  BY <1>2, <1>4, <1>5, <1>6, <1>8 DEF ClientInv, Renewing, Restored

LEMMA ResolvedKeeps ==
  ASSUME ClientInv, NEW i \in DOMAIN pending, Resolved(i) PROVE ClientInv'
BY AuthResolvedKeeps, ResubResolvedKeeps, InfoResolvedKeeps, SubResolvedKeeps DEF Resolved

(* A rejection, by an answer or by the timeout.                            *)
LEMMA RejectedKeeps ==
  ASSUME ClientInv, NEW i \in DOMAIN pending, Rejected(i), feed \subseteq feed', lastId' = lastId,
         DOMAIN pending' = DOMAIN pending \ {i},
         \A j \in DOMAIN pending' : pending'[j] = pending[j]
  PROVE  ClientInv'
<1>1. link \in Open
  BY DEF ClientInv, PendingOnOpenSocket
<1>2. UNCHANGED <<timer, closing>> /\ subs' \subseteq subs /\ link' \in Open
  BY <1>1 DEF Rejected, Open
<1>3. OneLink' /\ PendingOnOpenSocket' /\ link' \in Links
  BY <1>1, <1>2, OpenKeeps
<1>4. RequestsTyped'
  BY <1>2, <1>3 DEF ClientInv, RequestsTyped
<1>5. CASE pending[i].what \in {"auth", "resub"}
  BY <1>3, <1>4, <1>5 DEF Rejected, ClientInv, AwaitsOne, Renewing, Restored
<1>6. CASE pending[i].what \notin {"auth", "resub"}
  <2>1. UNCHANGED <<link, bare>> /\ (pending[i].what = "sub" => subs' = subs \ pending[i].chans)
    BY <1>6 DEF Rejected
  <2>2. \A ch \in subs' : (Fed(ch) => Fed(ch)') /\ (Renewed(ch) => Renewed(ch)')
    BY <1>2, <1>6, <2>1 DEF Fed, Renewed, Ask
  <2>3. AwaitsOne'
    BY <2>1 DEF ClientInv, AwaitsOne
  <2> QED BY <1>2, <1>3, <1>4, <2>1, <2>2, <2>3 DEF ClientInv, Renewing, Restored
<1> QED BY <1>5, <1>6

LEMMA AnswerKeeps == ASSUME ClientInv, NEW i \in wire, Answer(i) PROVE ClientInv'
<1>1. CASE i \notin DOMAIN pending
  BY <1>1 DEF Answer, ClientInv, RequestsTyped, OneLink, PendingOnOpenSocket, AwaitsOne, Renewing,
              Restored, Renewed, Fed, linkVars, feedVars
<1>2. CASE i \in DOMAIN pending /\ Resolved(i)
  BY <1>2, ResolvedKeeps
<1>3. CASE i \in DOMAIN pending /\ Rejected(i) /\ SendAfter({i}, <<>>) /\ UNCHANGED feed
  BY <1>3, SendNone, RejectedKeeps DEF ClientInv
<1> QED BY <1>1, <1>2, <1>3 DEF Answer

LEMMA TimeoutKeeps == ASSUME ClientInv, NEW i \in DOMAIN pending, Timeout(i) PROVE ClientInv'
<1>1. /\ DOMAIN pending' = DOMAIN pending \ {i}
      /\ \A j \in DOMAIN pending' : pending'[j] = pending[j]
  BY DEF Timeout, Without, Restrict
<1>2. feed \subseteq feed'
  BY DEF Timeout
<1> QED BY <1>1, <1>2, RejectedKeeps DEF Timeout

(* Calls of the application and of the exchange: one more request. *)
LEMMA CallKeeps ==
  ASSUME ClientInv, link \in Open, Call, UNCHANGED feedVars,
         NEW r \in Request, r.what \notin {"auth", "resub"}, SendAfter({}, <<r>>)
  PROVE  ClientInv'
<1>1. /\ DOMAIN pending' = DOMAIN pending \cup {lastId'} /\ lastId' = lastId + 1
      /\ pending'[lastId'] = r /\ \A j \in DOMAIN pending : pending'[j] = pending[j]
  <2>1. RequestsTyped /\ DOMAIN pending \ {} = DOMAIN pending
    BY DEF ClientInv
  <2> QED BY <2>1, SendOne, Zenon
<1>2. OneLink' /\ PendingOnOpenSocket' /\ link' \in Links
  BY OpenKeeps DEF Call, linkVars
<1>3. RequestsTyped'
  BY <1>1, <1>2 DEF ClientInv, RequestsTyped, feedVars
<1>4. \A ch \in subs : (Fed(ch) => Fed(ch)') /\ (Renewed(ch) => Renewed(ch)')
  BY <1>1 DEF Fed, Renewed, feedVars
<1>5. AwaitsOne'
  BY <1>1 DEF ClientInv, AwaitsOne, Call, linkVars
<1> QED BY <1>2, <1>3, <1>4, <1>5 DEF ClientInv, Renewing, Restored, Call, linkVars, feedVars

LEMMA CallsKeep ==
  ASSUME ClientInv, PlaceOrder \/ TestRequest \/ \E ch \in Channels : SubscribeTicker(ch)
  PROVE  ClientInv'
<1>1. CASE PlaceOrder \/ TestRequest
  BY <1>1, CallKeeps DEF PlaceOrder, TestRequest, Ask, Request, Authenticated, Open
<1>2. ASSUME NEW ch \in Channels, SubscribeTicker(ch) PROVE ClientInv'
  BY <1>2, CallKeeps DEF SubscribeTicker, Ask, Request
<1> QED BY <1>1, <1>2

LEMMA ClientInvStep == ClientInv /\ [ClientNext]_clientVars => ClientInv'
<1> SUFFICES ASSUME ClientInv, [ClientNext]_clientVars PROVE ClientInv'
  OBVIOUS
<1>1. CASE Drop
  BY <1>1, OnCloseKeeps DEF Drop
<1>2. CASE ConnectFails
  BY <1>2, OnCloseKeeps DEF ConnectFails
<1>3. CASE UNCHANGED clientVars
  BY <1>3 DEF ClientInv, RequestsTyped, OneLink, PendingOnOpenSocket, AwaitsOne, Renewing,
              Restored, Renewed, Fed, clientVars, linkVars, requestVars, feedVars
<1> QED
  BY <1>1, <1>2, <1>3, AnswerKeeps, TimeoutKeeps, OpenedKeeps, TimerKeeps, DisconnectKeeps, LateCloseKeeps,
     CallsKeep DEF ClientNext

LEMMA ClientInvAlways == ClientSpec => []ClientInv
BY InitClientInv, ClientInvStep, PTL DEF ClientSpec

-----------------------------------------------------------------------------
(* No request outlives its socket (cleanup in deribit-client.ts), for any  *)
(* number of calls, drops and attempts.                                    *)
THEOREM NoRequestOutlivesSocket == ClientSpec => []PendingOnOpenSocket
BY ClientInvAlways, PTL DEF ClientInv

(* Timers, late close events and the breaker never start two connections.  *)
THEOREM OneWayForward == ClientSpec => []OneLink
BY ClientInvAlways, PTL DEF ClientInv

(* Every channel with a callback is fed again, or being subscribed, once   *)
(* connect() has resolved, unless resubscribeAll itself failed.            *)
THEOREM AlwaysRestored == ClientSpec => []SubscriptionsRestored
<1>1. ClientInv => SubscriptionsRestored
  BY DEF ClientInv, Restored, Fed, SubscriptionsRestored
<1> QED BY <1>1, ClientInvAlways, PTL

-----------------------------------------------------------------------------
(* Types of the rest: the counters stay within their bounds.               *)
RestTyped ==
  /\ timer \in {"none", "reconnect", "breaker"} /\ attempts \in 0 .. MaxAttempts
  /\ closing \in BOOLEAN /\ bare \in BOOLEAN /\ userOff \in BOOLEAN /\ process \in BOOLEAN
  /\ IsFiniteSet(wire) /\ wire \subseteq 1 .. lastId /\ feed \subseteq Channels
  /\ drops \in 0 .. MaxDrops /\ calls \in 0 .. MaxCalls

LEMMA ChansOf == ASSUME NEW r \in Request PROVE r.chans \subseteq Channels
BY DEF Request

LEMMA SendWire ==
  ASSUME RequestsTyped, RestTyped, NEW S, NEW rs, Len(rs) \in Nat, SendAfter(S, rs)
  PROVE  IsFiniteSet(wire') /\ wire' \subseteq 1 .. lastId'
<1> DEFINE new == (lastId + 1) .. (lastId + Len(rs))
<1>1. wire' = (wire \ S) \cup new /\ lastId' = lastId + Len(rs)
  BY DEF SendAfter
<1>2. IsFiniteSet(new)
  BY FS_Interval DEF RequestsTyped
<1>3. IsFiniteSet(wire \ S)
  BY FS_Subset DEF RestTyped
<1>4. new \subseteq 1 .. lastId' /\ 1 .. lastId \subseteq 1 .. lastId'
  BY <1>1 DEF RequestsTyped
<1> HIDE DEF new
<1>5. IsFiniteSet((wire \ S) \cup new)
  BY <1>2, <1>3, FS_Union
<1> QED BY <1>1, <1>4, <1>5 DEF RestTyped

LEMMA AnswerTyped ==
  ASSUME RequestsTyped, RestTyped, NEW i \in wire, Answer(i)
  PROVE  RestTyped'
<1>0. 0 \in 0 .. MaxAttempts /\ Len(<<>>) \in Nat
  BY ClientAssumption
<1>1. CASE i \in DOMAIN pending /\ Resolved(i) /\ UNCHANGED process
  <2> DEFINE r == pending[i]
  <2>1. r.chans \subseteq Channels
    BY <1>1, ChansOf DEF RequestsTyped
  <2>2. UNCHANGED <<timer, closing, bare, userOff, process, drops, calls>> /\ attempts' \in {attempts, 0}
    BY <1>1 DEF Answer, Resolved, AfterAuth, linkVars
  <2>3. feed' \subseteq Channels
    BY <1>1, <2>1 DEF Resolved, AfterAuth, feedVars, RestTyped
  <2>4. \/ SendAfter({i}, <<>>) \/ SendAfter({i}, <<Ask("heartbeat", {})>>) \/ SendAfter({i}, <<Ask("sub", r.chans)>>)
        \/ SendAfter({i}, <<Ask("heartbeat", {}), Ask("resub", subs)>>)
    BY <1>1 DEF Resolved, AfterAuth
  <2> HIDE DEF r
  <2>5. /\ Len(<<Ask("heartbeat", {})>>) \in Nat /\ Len(<<Ask("sub", r.chans)>>) \in Nat
        /\ Len(<<Ask("heartbeat", {}), Ask("resub", subs)>>) \in Nat
    OBVIOUS
  <2>6. IsFiniteSet(wire') /\ wire' \subseteq 1 .. lastId'
    BY <1>0, <2>4, <2>5, SendWire
  <2> QED BY <1>0, <2>2, <2>3, <2>6 DEF RestTyped
<1>2. CASE i \in DOMAIN pending /\ Rejected(i) /\ SendAfter({i}, <<>>) /\ UNCHANGED feed
  <2>1. /\ UNCHANGED <<timer, closing, userOff, drops, calls, feed>> /\ attempts' \in {attempts, 0} /\ bare' \in {bare, TRUE}
        /\ process' \in BOOLEAN
    BY <1>2 DEF Answer, Rejected, Reject, RestTyped
  <2>2. IsFiniteSet(wire') /\ wire' \subseteq 1 .. lastId'
    BY <1>0, <1>2, SendWire
  <2> QED BY <1>0, <2>1, <2>2 DEF RestTyped
<1>3. CASE i \notin DOMAIN pending
  <2>1. wire' = wire \ {i} /\ UNCHANGED <<linkVars, lastId, feedVars, process, userOff, drops, calls>>
    BY <1>3 DEF Answer
  <2> QED BY <2>1, FS_Subset DEF RestTyped, linkVars, feedVars
<1> QED BY <1>1, <1>2, <1>3 DEF Answer

LEMMA NoneYet == /\ 0 \in 0 .. MaxAttempts /\ 0 \in 0 .. MaxDrops /\ 0 \in 0 .. MaxCalls
                 /\ IsFiniteSet({})
BY FS_EmptySet, ClientAssumption

LEMMA TimeoutTyped ==
  ASSUME RequestsTyped, RestTyped, NEW i \in DOMAIN pending, Timeout(i)
  PROVE  RestTyped'
<1>1. /\ UNCHANGED <<timer, closing, userOff, drops, calls, wire, lastId>> /\ attempts' \in {attempts, 0}
      /\ bare' \in {bare, TRUE} /\ process' \in BOOLEAN
  BY DEF Timeout, Rejected, Reject, RestTyped
<1>2. pending[i].chans \subseteq Channels
  BY ChansOf DEF RequestsTyped
<1>3. feed' \subseteq Channels
  BY <1>2 DEF Timeout, RestTyped
<1> QED BY <1>1, <1>3, NoneYet DEF RestTyped

LEMMA RestTypedStep ==
  ASSUME RequestsTyped, RestTyped, [ClientNext]_clientVars
  PROVE  RestTyped'
<1>e. wire' = {} => IsFiniteSet(wire') /\ wire' \subseteq 1 .. lastId'
  BY FS_EmptySet
<1>s. ASSUME ScheduleReconnect
      PROVE  timer' \in {"none", "reconnect", "breaker"} /\ attempts' \in 0 .. MaxAttempts
  BY <1>s, ClientAssumption DEF ScheduleReconnect, RestTyped
<1>c. ASSUME CleanupRequests
      PROVE  wire' = {} /\ feed' = {} /\ process' \in BOOLEAN
  BY <1>c DEF CleanupRequests, Reject, RestTyped
<1>1. CASE Drop
  <2>1. drops' \in 0 .. MaxDrops
    BY <1>1, ClientAssumption DEF Drop, RestTyped
  <2> QED BY <1>1, <2>1, <1>e, <1>s, <1>c, NoneYet DEF Drop, OnClose, RestTyped
<1>2. CASE ConnectFails
  BY <1>2, <1>e, <1>s, <1>c DEF ConnectFails, OnClose, RestTyped
<1>3. CASE Opened
  <2>1. Len(<<Ask("auth", {})>>) \in Nat
    OBVIOUS
  <2>2. IsFiniteSet(wire') /\ wire' \subseteq 1 .. lastId'
    BY <1>3, <2>1, SendWire DEF Opened
  <2> QED BY <1>3, <2>2 DEF Opened, RestTyped, feedVars
<1>4. CASE ReconnectTimer \/ BreakerTimer
  BY <1>4, NoneYet DEF ReconnectTimer, BreakerTimer, RestTyped, requestVars, feedVars
<1>5. CASE Disconnect
  BY <1>5, <1>e, <1>c, NoneYet DEF Disconnect, RestTyped
<1>6. CASE LateClose
  BY <1>6, <1>e, <1>s, <1>c DEF LateClose, RestTyped
<1>7. ASSUME NEW r, Call, SendAfter({}, <<r>>), UNCHANGED feedVars PROVE RestTyped'
  <2>1. Len(<<r>>) \in Nat
    OBVIOUS
  <2>2. IsFiniteSet(wire') /\ wire' \subseteq 1 .. lastId'
    BY <1>7, <2>1, SendWire
  <2> QED BY <1>7, <2>2, ClientAssumption DEF Call, RestTyped, linkVars, feedVars
<1>8. CASE UNCHANGED clientVars
  BY <1>8 DEF clientVars, linkVars, requestVars, feedVars, RestTyped
<1> QED BY <1>1, <1>2, <1>3, <1>4, <1>5, <1>6, <1>7, <1>8, AnswerTyped, TimeoutTyped
     DEF ClientNext, PlaceOrder, TestRequest, SubscribeTicker

(* Ids stay below the counter, so that no answer is taken for that of a    *)
(* later request, and the attempts never pass their maximum.               *)
THEOREM ClientTypeCorrect == ClientSpec => []ClientTypeOK
<1>1. ClientInit => RestTyped
  BY NoneYet DEF ClientInit, RestTyped
<1>2. ClientInv /\ RestTyped /\ [ClientNext]_clientVars => RestTyped'
  BY RestTypedStep DEF ClientInv
<1>3. ClientInv /\ RestTyped => ClientTypeOK
  BY DEF ClientInv, RequestsTyped, RestTyped, ClientTypeOK
<1> QED BY <1>1, <1>2, <1>3, ClientInvAlways, PTL DEF ClientSpec

-----------------------------------------------------------------------------
WorkersTyped ==
  /\ spawned \in Nat /\ DOMAIN workers \subseteq 1 .. spawned
  /\ stalls \in Nat /\ top \in Nat /\ ent.max \in Nat /\ ent.max <= top /\ Smallest(Tiers) <= top
  /\ DOMAIN proc = {"pc", "j"} /\ proc.pc \in {"idle", "check", "spawn"}

(* No worker was marked: nobody has crashed, and no health check is awake. *)
AllQuiet ==
  /\ \A w \in DOMAIN workers : workers[w].status # "crashed"
  /\ \A h \in HealthChecks : health[h].pc = "asleep"

(* A place is kept for the worker that is being spawned. *)
PlaceKept == Count <= top /\ (proc.pc = "spawn" => Count + 1 <= top)

QueueInv == WorkersTyped /\ (stalls = 0 => AllQuiet /\ PlaceKept)

-----------------------------------------------------------------------------
LEMMA SmallestIsMember ==
  ASSUME NEW S \in SUBSET Nat, S # {}
  PROVE  Smallest(S) \in S
<1>1. PICK x \in S : \A y \in S : <<y, x>> \notin OpToRel(<, Nat)
  BY NatLessThanWellFounded, WFMin
<1>2. \A y \in S : ~(y < x)
  BY <1>1 DEF OpToRel
<1>3. \A y \in S : x <= y
  BY <1>2
<1> QED BY <1>3 DEF Smallest

LEMMA TiersAreLimits == Smallest(Tiers) \in Nat /\ Tiers \subseteq Nat
BY OrchestratorAssumption, SmallestIsMember

LEMMA CountIsNat ==
  ASSUME WorkersTyped
  PROVE  IsFiniteSet(DOMAIN workers) /\ Count \in Nat
<1>1. IsFiniteSet(1 .. spawned)
  BY FS_Interval DEF WorkersTyped
<1>2. IsFiniteSet(DOMAIN workers)
  BY <1>1, FS_Subset DEF WorkersTyped
<1> QED BY <1>2, FS_CardinalityType DEF Count

(* A worker that is spawned has an id that nobody had. *)
LEMMA SpawnAdds ==
  ASSUME WorkersTyped, NEW j, NEW r, Spawn(j, r)
  PROVE  /\ spawned' = spawned + 1 /\ spawned' \in Nat /\ DOMAIN workers' \subseteq 1 .. spawned'
         /\ Count' = Count + 1
         /\ \A w \in DOMAIN workers' :
               \/ w \in DOMAIN workers /\ workers'[w] = workers[w]
               \/ workers'[w].status = "running"
<1> DEFINE new == [job |-> j, status |-> "running", restarts |-> r]
<1>1. spawned' = spawned + 1 /\ workers' = Put2(workers, spawned + 1, new)
  BY DEF Spawn
<1>2. new.status = "running"
  OBVIOUS
<1> HIDE DEF new
<1>3. /\ DOMAIN workers' = DOMAIN workers \cup {spawned + 1}
      /\ \A w \in DOMAIN workers' : workers'[w] = IF w = spawned + 1 THEN new ELSE workers[w]
  BY <1>1 DEF Put2
<1>4. spawned + 1 \notin DOMAIN workers
  BY DEF WorkersTyped
<1>5. Count' = Count + 1
  BY <1>3, <1>4, CountIsNat, FS_AddElement DEF Count
<1>6. spawned' \in Nat /\ DOMAIN workers' \subseteq 1 .. spawned'
  BY <1>1, <1>3 DEF WorkersTyped
<1> QED BY <1>1, <1>2, <1>3, <1>5, <1>6

(* Steps that neither spawn nor admit a job, and mark nobody. *)
LEMMA QueueKeeps ==
  ASSUME QueueInv, UNCHANGED <<spawned, stalls>>, DOMAIN workers' = DOMAIN workers,
         \A w \in DOMAIN workers : workers'[w].status # "crashed" \/ workers[w].status = "crashed",
         DOMAIN proc' = {"pc", "j"}, proc'.pc \in {"idle", "check", "spawn"},
         proc'.pc = "spawn" => proc.pc = "spawn" \/ Count + 1 <= top,
         top' \in Nat, ent'.max \in Nat, ent'.max <= top', top <= top',
         stalls = 0 => UNCHANGED health
  PROVE  QueueInv'
<1>1. WorkersTyped'
  BY TiersAreLimits DEF QueueInv, WorkersTyped
<1>2. Count' = Count /\ Count \in Nat /\ top \in Nat
  BY CountIsNat DEF Count, QueueInv, WorkersTyped
<1>3. ASSUME stalls = 0 PROVE AllQuiet' /\ PlaceKept'
  <2>1. AllQuiet'
    BY <1>3 DEF QueueInv, AllQuiet
  <2>2. PlaceKept'
    BY <1>2, <1>3 DEF QueueInv, PlaceKept
  <2> QED BY <2>1, <2>2
<1> QED BY <1>1, <1>3 DEF QueueInv

LEMMA ProcessingKeeps ==
  ASSUME QueueInv, Processing, DOMAIN proc' = {"pc", "j"}, proc'.pc \in {"idle", "check", "spawn"}
  PROVE  QueueInv'
<1> USE DEF QueueInv, WorkersTyped
<1>1. CASE ProcessTake
  BY <1>1, QueueKeeps DEF ProcessTake
(* Count < max: there is a place. *)
<1>2. CASE ProcessCheck
  <2>1. UNCHANGED <<spawned, stalls, workers, health, ent, top>>
    BY <1>2 DEF ProcessCheck
  <2>2. Count \in Nat
    BY CountIsNat
  <2>3. proc'.pc = "spawn" => Count + 1 <= top
    <3>1. CASE Entitled(Count)
      BY <2>2, <3>1 DEF Entitled
    <3>2. CASE ~Entitled(Count)
      BY <1>2, <3>2 DEF ProcessCheck, NoJob
    <3> QED BY <3>1, <3>2
  <2> QED BY <2>1, <2>3, QueueKeeps
<1>3. CASE ProcessSpawn
  <2>1. UNCHANGED <<health, ent, top, stalls>> /\ proc'.pc = "idle" /\ proc.pc = "spawn"
    BY <1>3 DEF ProcessSpawn, NoJob
  <2>2. CASE UNCHANGED <<workers, spawned>>
    BY <2>1, <2>2, QueueKeeps
  <2>3. CASE Spawn(proc.j, 0)
    <3>1. /\ spawned' \in Nat /\ DOMAIN workers' \subseteq 1 .. spawned'
          /\ Count' = Count + 1
          /\ \A w \in DOMAIN workers' :
                (w \in DOMAIN workers /\ workers'[w] = workers[w]) \/ workers'[w].status = "running"
      BY <2>3, SpawnAdds
    <3>2. WorkersTyped'
      BY <2>1, <3>1
    <3>3. ASSUME stalls = 0 PROVE AllQuiet' /\ PlaceKept'
      <4>1. AllQuiet'
        BY <2>1, <3>1, <3>3 DEF AllQuiet
      <4>2. PlaceKept'
        BY <2>1, <3>1, <3>3 DEF PlaceKept
      <4> QED BY <4>1, <4>2
    <3> QED BY <2>1, <3>2, <3>3
  <2> QED BY <1>3, <2>2, <2>3 DEF ProcessSpawn
<1> QED BY <1>1, <1>2, <1>3 DEF Processing

(* A health check does something only after a stall. *)
LEMMA HealthKeeps ==
  ASSUME QueueInv, NEW h \in HealthChecks, HealthBegin(h) \/ HealthNext(h) \/ HealthSpawn(h) \/ HealthEnd(h)
  PROVE  QueueInv'
<1>1. stalls # 0
  <2> SUFFICES ASSUME stalls = 0 PROVE FALSE
    OBVIOUS
  <2>1. health[h].pc = "asleep" /\ \A w \in DOMAIN workers : workers[w].status # "crashed"
    BY DEF QueueInv, AllQuiet
  <2> QED BY <2>1 DEF HealthBegin, HealthNext, HealthSpawn, HealthEnd
<1>2. UNCHANGED <<proc, ent, top, stalls>>
  BY DEF HealthBegin, HealthNext, HealthSpawn, HealthEnd
<1>3. spawned' \in Nat /\ DOMAIN workers' \subseteq 1 .. spawned'
  <2>1. spawned \in Nat /\ DOMAIN workers \subseteq 1 .. spawned
    BY DEF QueueInv, WorkersTyped
  <2>2. CASE UNCHANGED <<workers, spawned>>
    BY <2>1, <2>2
  <2>3. ASSUME NEW w, workers' = Forget(workers, w), UNCHANGED spawned
        PROVE  spawned' \in Nat /\ DOMAIN workers' \subseteq 1 .. spawned'
    BY <2>1, <2>3 DEF Forget
  <2>4. ASSUME NEW j, NEW r, Spawn(j, r)
        PROVE  spawned' \in Nat /\ DOMAIN workers' \subseteq 1 .. spawned'
    BY <2>4, SpawnAdds DEF QueueInv
  <2>5. CASE HealthNext(h)
    BY <2>2, <2>3, <2>5 DEF HealthNext
  <2>6. CASE HealthSpawn(h)
    BY <2>2, <2>4, <2>6 DEF HealthSpawn
  <2> QED BY <2>2, <2>5, <2>6 DEF HealthBegin, HealthEnd
<1> QED BY <1>1, <1>2, <1>3 DEF QueueInv, WorkersTyped

LEMMA QueueInvStep == QueueInv /\ [OrchestratorNext]_orchestratorVars => QueueInv'
<1> SUFFICES ASSUME QueueInv, [OrchestratorNext]_orchestratorVars PROVE QueueInv'
  OBVIOUS
<1> USE DEF QueueInv, WorkersTyped
<1>1. CASE UNCHANGED orchestratorVars
  BY <1>1, QueueKeeps DEF orchestratorVars
<1>2. CASE StartRunner
  BY <1>2, QueueKeeps DEF StartRunner
<1>3. CASE Expire
  <2>1. ent'.max = Smallest(Tiers)
    BY <1>3 DEF Expire
  <2> QED BY <1>3, <2>1, TiersAreLimits, QueueKeeps DEF Expire
<1>4. ASSUME NEW t \in Tiers, Upgrade(t) PROVE QueueInv'
  <2>1. t \in Nat /\ ent'.max = t /\ top' = IF t > top THEN t ELSE top
    BY <1>4, TiersAreLimits DEF Upgrade
  <2>2. top' \in Nat /\ ent'.max <= top' /\ top <= top'
    BY <2>1
  <2> QED BY <1>4, <2>1, <2>2, QueueKeeps DEF Upgrade
<1>5. ASSUME NEW w \in DOMAIN workers, StopRunner(w) PROVE QueueInv'
  <2>1. /\ DOMAIN workers' = DOMAIN workers
        /\ \A v \in DOMAIN workers : workers'[v].status # "crashed" \/ workers[v].status = "crashed"
    BY <1>5 DEF StopRunner
  <2> QED BY <1>5, <2>1, QueueKeeps DEF StopRunner
<1>6. ASSUME NEW w \in DOMAIN workers, MarkStale(w) PROVE QueueInv'
  BY <1>6 DEF MarkStale
<1>7. CASE Processing
  <2>1. DOMAIN proc' = {"pc", "j"} /\ proc'.pc \in {"idle", "check", "spawn"}
    BY <1>7 DEF Processing, ProcessTake, ProcessCheck, ProcessSpawn, NoJob
  <2> QED BY <1>7, <2>1, ProcessingKeeps
<1> QED BY <1>1, <1>2, <1>3, <1>4, <1>5, <1>6, <1>7, HealthKeeps DEF OrchestratorNext

LEMMA QueueInvInit == OrchestratorInit => QueueInv
<1> SUFFICES ASSUME OrchestratorInit PROVE QueueInv
  OBVIOUS
<1>1. DOMAIN workers = {} /\ Count = 0
  BY FS_EmptySet DEF OrchestratorInit, Count
<1> QED BY <1>1, TiersAreLimits
     DEF OrchestratorInit, QueueInv, WorkersTyped, AllQuiet, PlaceKept, NoJob, Asleep

(* Stopped workers count as well, so that there are no more live ones.     *)
LEMMA QueueInvSuffices == QueueInv => QueueNeverOverbooks
<1> SUFFICES ASSUME QueueInv, stalls = 0 PROVE LiveCount <= top
  BY DEF QueueNeverOverbooks
<1>1. LiveCount \in Nat /\ LiveCount <= Count
  BY CountIsNat, FS_Subset, FS_CardinalityType DEF LiveCount, Count, QueueInv
<1> QED BY <1>1, CountIsNat DEF QueueInv, PlaceKept, WorkersTyped

(* While no worker was restarted, a user never has more workers than the   *)
(* highest limit he ever had (processQueue's lock around checkEntitlement  *)
(* and spawnWorker), however many jobs he queued.                          *)
THEOREM NeverOverbooked == OrchestratorSpec => []QueueNeverOverbooks
BY QueueInvInit, QueueInvStep, QueueInvSuffices, PTL DEF OrchestratorSpec

-----------------------------------------------------------------------------
(* Jobs and their workers *)
JobStatus == {"queued", "running", "stopped", "failed", "crashed"}
WorkerRecord == [job : DOMAIN job, status : {"running", "crashed", "stopped"}, restarts : 0 .. RestartLimit]
FoundRecord == [id : 1 .. spawned, job : DOMAIN job, restarts : 0 .. RestartLimit]

JobsTyped ==
  /\ job \in Seq(JobStatus) /\ jobOrder \in Seq(Nat) /\ \A i \in DOMAIN jobOrder : jobOrder[i] \in DOMAIN job
  /\ spawned \in Nat /\ DOMAIN workers \subseteq 1 .. spawned /\ \A w \in DOMAIN workers : workers[w] \in WorkerRecord
  /\ DOMAIN proc = {"pc", "j"} /\ (proc.pc # "idle" => proc.j \in DOMAIN job)
  /\ DOMAIN health = HealthChecks
  /\ \A h \in HealthChecks :
       /\ DOMAIN health[h] = {"pc", "todo", "w", "restarts"} /\ health[h].todo \subseteq FoundRecord
       /\ health[h].pc = "spawn" => health[h].w \in DOMAIN job /\ health[h].restarts \in 0 .. RestartLimit

(* What a health check found is what the worker was: an id is not given    *)
(* out again.                                                              *)
FoundAsWas ==
  \A h \in HealthChecks : \A x \in health[h].todo : x.id \in DOMAIN workers => workers[x.id].job = x.job

(* A job that is running has a worker, or one is being spawned for it.     *)
HasWorker(j) == \E w \in DOMAIN workers : workers[w].job = j /\ Live(w)
BeingSpawned(j) ==
  \/ proc.pc = "spawn" /\ proc.j = j
  \/ \E h \in HealthChecks : health[h].pc = "spawn" /\ health[h].w = j
RunsSomewhere == \A j \in DOMAIN job : job[j] = "running" => HasWorker(j) \/ BeingSpawned(j)

JobsInv == JobsTyped /\ FoundAsWas /\ RunsSomewhere

LEMMA JobGets ==
  ASSUME JobsTyped, NEW j \in DOMAIN job, NEW v \in JobStatus, job' = [job EXCEPT ![j] = v]
  PROVE  /\ job' \in Seq(JobStatus) /\ DOMAIN job' = DOMAIN job /\ job'[j] = v
         /\ \A i \in DOMAIN job : i # j => job'[i] = job[i]
  BY DEF JobsTyped

LEMMA SpawnGives ==
  ASSUME JobsTyped, NEW j, NEW r, Spawn(j, r)
  PROVE  /\ spawned' = spawned + 1 /\ spawned' \notin DOMAIN workers
         /\ DOMAIN workers' = DOMAIN workers \cup {spawned'}
         /\ workers'[spawned'] = [job |-> j, status |-> "running", restarts |-> r]
         /\ \A w \in DOMAIN workers : workers'[w] = workers[w]
<1> DEFINE new == [job |-> j, status |-> "running", restarts |-> r]
<1>1. spawned' = spawned + 1 /\ workers' = Put2(workers, spawned', new)
  BY DEF Spawn
<1>2. spawned' \notin DOMAIN workers
  BY <1>1 DEF JobsTyped
<1> HIDE DEF new
<1>3. DOMAIN workers' = DOMAIN workers \cup {spawned'} /\ workers'[spawned'] = new
      /\ \A w \in DOMAIN workers : workers'[w] = workers[w]
  BY <1>1, <1>2 DEF Put2
<1> QED BY <1>1, <1>2, <1>3 DEF new

(* Workers and health checks as they are, and no job begins to run. *)
LEMMA JobsStay ==
  ASSUME JobsInv, UNCHANGED <<workers, spawned, health>>,
         job' \in Seq(JobStatus), DOMAIN job \subseteq DOMAIN job', jobOrder' \in Seq(Nat),
         \A i \in DOMAIN jobOrder' : jobOrder'[i] \in DOMAIN job',
         DOMAIN proc' = {"pc", "j"}, proc'.pc # "idle" => proc'.j \in DOMAIN job',
         \A j \in DOMAIN job' : job'[j] = "running" =>
           (j \in DOMAIN job /\ job[j] = "running" /\ (proc.pc = "spawn" /\ proc.j = j => proc' = proc)) \/
           (proc'.pc = "spawn" /\ proc'.j = j)
  PROVE  JobsInv'
<1>1. JobsTyped'
  <2>1. \A w \in DOMAIN workers' : workers'[w] \in WorkerRecord'
    BY DEF JobsInv, JobsTyped, WorkerRecord
  <2>2. ASSUME NEW h \in HealthChecks
        PROVE  /\ DOMAIN health'[h] = {"pc", "todo", "w", "restarts"} /\ health'[h].todo \subseteq FoundRecord'
               /\ health'[h].pc = "spawn" => health'[h].w \in DOMAIN job' /\ health'[h].restarts \in 0 .. RestartLimit
    BY DEF JobsInv, JobsTyped, FoundRecord
  <2> QED BY <2>1, <2>2 DEF JobsInv, JobsTyped
<1>2. FoundAsWas'
  BY DEF JobsInv, FoundAsWas
<1>3. RunsSomewhere'
  BY DEF JobsInv, RunsSomewhere, HasWorker, BeingSpawned, Live
<1> QED BY <1>1, <1>2, <1>3 DEF JobsInv

LEMMA QueueKeepsJobs ==
  ASSUME JobsInv, StartRunner \/ ProcessTake \/ ProcessCheck
  PROVE  JobsInv'
<1>t. /\ job \in Seq(JobStatus) /\ jobOrder \in Seq(Nat) /\ \A i \in DOMAIN jobOrder : jobOrder[i] \in DOMAIN job
      /\ DOMAIN proc = {"pc", "j"} /\ (proc.pc # "idle" => proc.j \in DOMAIN job)
  BY DEF JobsInv, JobsTyped
<1>1. CASE StartRunner
  <2>1. /\ job' = Append(job, "queued") /\ jobOrder' = Append(jobOrder, Len(job'))
        /\ UNCHANGED <<proc, workers, spawned, health>>
    BY <1>1 DEF StartRunner
  <2>2. /\ job' \in Seq(JobStatus) /\ Len(job') = Len(job) + 1 /\ job'[Len(job) + 1] = "queued"
        /\ \A j \in DOMAIN job : job'[j] = job[j]
    BY <1>t, <2>1 DEF JobStatus
  <2>3. DOMAIN job' = DOMAIN job \cup {Len(job')} /\ Len(job') \in Nat
    BY <1>t, <2>2
  <2>4. jobOrder' \in Seq(Nat) /\ \A i \in DOMAIN jobOrder' : jobOrder'[i] \in DOMAIN job'
    <3>1. /\ jobOrder' \in Seq(Nat) /\ Len(jobOrder') = Len(jobOrder) + 1 /\ jobOrder'[Len(jobOrder) + 1] = Len(job')
          /\ \A i \in 1 .. Len(jobOrder) : jobOrder'[i] = jobOrder[i]
      BY <1>t, <2>1, <2>3
    <3>2. DOMAIN jobOrder' = 1 .. Len(jobOrder') /\ DOMAIN jobOrder = 1 .. Len(jobOrder) /\ Len(jobOrder) \in Nat
      BY <1>t, <3>1
    <3>3. ASSUME NEW i \in DOMAIN jobOrder' PROVE jobOrder'[i] \in DOMAIN job'
      <4>1. i \in DOMAIN jobOrder \/ i = Len(jobOrder) + 1
        BY <3>1, <3>2
      <4> QED BY <1>t, <2>3, <3>1, <3>2, <4>1
    <3> QED BY <3>1, <3>3
  <2>5. \A j \in DOMAIN job' : job'[j] = "running" => j \in DOMAIN job /\ job[j] = "running"
    BY <1>t, <2>2, <2>3
  <2> QED BY <1>t, <2>1, <2>2, <2>3, <2>4, <2>5, JobsStay
<1>2. CASE ProcessTake
  <2>1. /\ jobOrder # <<>> /\ proc = NoJob /\ proc' = [pc |-> "check", j |-> Head(jobOrder)]
        /\ jobOrder' = Tail(jobOrder) /\ UNCHANGED <<job, workers, spawned, health>>
    BY <1>2 DEF ProcessTake
  <2>2. /\ Head(jobOrder) \in DOMAIN job /\ jobOrder' \in Seq(Nat)
        /\ \A i \in DOMAIN jobOrder' : jobOrder'[i] \in DOMAIN job
    <3>1. /\ Len(jobOrder) # 0 /\ Head(jobOrder) = jobOrder[1] /\ jobOrder' \in Seq(Nat)
          /\ Len(jobOrder') = Len(jobOrder) - 1 /\ \A i \in 1 .. Len(jobOrder') : jobOrder'[i] = jobOrder[i + 1]
      BY <1>t, <2>1
    <3>2. DOMAIN jobOrder' = 1 .. Len(jobOrder') /\ DOMAIN jobOrder = 1 .. Len(jobOrder) /\ Len(jobOrder) \in Nat
      BY <1>t, <3>1
    <3>3. 1 \in DOMAIN jobOrder /\ \A i \in DOMAIN jobOrder' : i + 1 \in DOMAIN jobOrder
      BY <3>1, <3>2
    <3> QED BY <1>t, <3>1, <3>2, <3>3
  <2>3. DOMAIN proc' = {"pc", "j"} /\ proc'.j \in DOMAIN job /\ proc.pc = "idle"
    BY <2>1, <2>2 DEF NoJob
  <2> QED BY <1>t, <2>1, <2>2, <2>3, JobsStay
<1>3. CASE ProcessCheck
  <2>1. proc.pc = "check" /\ proc.j \in DOMAIN job /\ UNCHANGED <<jobOrder, workers, spawned, health>>
    BY <1>t, <1>3 DEF ProcessCheck
  <2>2. CASE Entitled(Count)
    <3>1. job' = [job EXCEPT ![proc.j] = "running"] /\ proc' = [proc EXCEPT !.pc = "spawn"]
      BY <1>3, <2>2 DEF ProcessCheck
    <3>2. DOMAIN proc' = {"pc", "j"} /\ proc'.pc = "spawn" /\ proc'.j = proc.j
      BY <1>t, <3>1
    <3>3. /\ job' \in Seq(JobStatus) /\ DOMAIN job' = DOMAIN job
          /\ \A i \in DOMAIN job : i # proc.j => job'[i] = job[i]
      BY <2>1, <3>1, JobGets DEF JobsInv, JobStatus
    <3> QED BY <1>t, <2>1, <3>2, <3>3, JobsStay
  <2>3. CASE ~Entitled(Count)
    <3>1. job' = [job EXCEPT ![proc.j] = "failed"] /\ proc' = NoJob
      BY <1>3, <2>3 DEF ProcessCheck
    <3>2. DOMAIN proc' = {"pc", "j"} /\ proc'.pc = "idle"
      BY <3>1 DEF NoJob
    <3>3. /\ job' \in Seq(JobStatus) /\ DOMAIN job' = DOMAIN job /\ job'[proc.j] = "failed"
          /\ \A i \in DOMAIN job : i # proc.j => job'[i] = job[i]
      BY <2>1, <3>1, JobGets DEF JobsInv, JobStatus
    <3> QED BY <1>t, <2>1, <3>2, <3>3, JobsStay
  <2> QED BY <2>2, <2>3
<1> QED BY <1>1, <1>2, <1>3

(* A worker is spawned: for the job in hand, or for one whose worker a     *)
(* health check has forgotten.                                             *)
LEMMA SpawningKeepsJobs ==
  ASSUME JobsInv, NEW j \in DOMAIN job, NEW r \in 0 .. RestartLimit, Spawn(j, r),
         job' \in Seq(JobStatus), DOMAIN job' = DOMAIN job, \A i \in DOMAIN job : i # j => job'[i] = job[i],
         UNCHANGED jobOrder, DOMAIN proc' = {"pc", "j"}, proc'.pc # "idle" => proc' = proc, DOMAIN health' = HealthChecks,
         \A h \in HealthChecks :
           /\ DOMAIN health'[h] = {"pc", "todo", "w", "restarts"} /\ health'[h].todo = health[h].todo
           /\ health'[h].pc = "spawn" => health'[h] = health[h],
         \A i \in DOMAIN job : i # j /\ BeingSpawned(i) => BeingSpawned(i)'
  PROVE  JobsInv'
<1>s. /\ spawned' = spawned + 1 /\ spawned' \notin DOMAIN workers /\ DOMAIN workers' = DOMAIN workers \cup {spawned'}
      /\ workers'[spawned'] = [job |-> j, status |-> "running", restarts |-> r]
      /\ \A w \in DOMAIN workers : workers'[w] = workers[w]
  BY SpawnGives DEF JobsInv
<1>t. spawned \in Nat /\ DOMAIN workers \subseteq 1 .. spawned /\ (\A h \in HealthChecks : health[h].todo \subseteq FoundRecord)
  BY DEF JobsInv, JobsTyped
<1>1. JobsTyped'
  <2>1. spawned' \in Nat /\ DOMAIN workers' \subseteq 1 .. spawned' /\ FoundRecord \subseteq FoundRecord'
    BY <1>s, <1>t DEF FoundRecord
  <2>2. \A w \in DOMAIN workers' : workers'[w] \in WorkerRecord'
    <3>1. [job |-> j, status |-> "running", restarts |-> r] \in WorkerRecord
      BY DEF WorkerRecord
    <3>2. WorkerRecord' = WorkerRecord
      BY DEF WorkerRecord
    <3> QED BY <1>s, <3>1, <3>2 DEF JobsInv, JobsTyped
  <2>3. ASSUME NEW h \in HealthChecks
        PROVE  /\ DOMAIN health'[h] = {"pc", "todo", "w", "restarts"} /\ health'[h].todo \subseteq FoundRecord'
               /\ health'[h].pc = "spawn" => health'[h].w \in DOMAIN job' /\ health'[h].restarts \in 0 .. RestartLimit
    BY <1>t, <2>1 DEF JobsInv, JobsTyped
  <2>4. /\ jobOrder' \in Seq(Nat) /\ (\A i \in DOMAIN jobOrder' : jobOrder'[i] \in DOMAIN job')
        /\ (proc'.pc # "idle" => proc'.j \in DOMAIN job')
    BY DEF JobsInv, JobsTyped
  <2> QED BY <2>1, <2>2, <2>3, <2>4 DEF JobsTyped
<1>2. FoundAsWas'
  <2> SUFFICES ASSUME NEW h \in HealthChecks, NEW x \in health[h].todo, x.id \in DOMAIN workers'
               PROVE  workers'[x.id].job = x.job
    BY DEF FoundAsWas
  <2>1. x.id \in 1 .. spawned
    BY <1>t DEF FoundRecord
  <2>2. x.id \in DOMAIN workers
    BY <1>s, <1>t, <2>1
  <2> QED BY <1>s, <2>2 DEF JobsInv, FoundAsWas
<1>3. RunsSomewhere'
  <2> SUFFICES ASSUME NEW i \in DOMAIN job, job'[i] = "running" PROVE HasWorker(i)' \/ BeingSpawned(i)'
    BY DEF RunsSomewhere
  <2>1. CASE i = j
    BY <1>s, <2>1 DEF HasWorker, Live
  <2>2. CASE i # j
    <3>1. HasWorker(i) \/ BeingSpawned(i)
      BY <2>2 DEF JobsInv, RunsSomewhere
    <3>2. HasWorker(i) => HasWorker(i)'
      BY <1>s DEF HasWorker, Live
    <3> QED BY <2>2, <3>1, <3>2
  <2> QED BY <2>1, <2>2
<1> QED BY <1>1, <1>2, <1>3 DEF JobsInv

LEMMA ProcessSpawnKeepsJobs == ASSUME JobsInv, ProcessSpawn PROVE JobsInv'
<1>t. /\ job \in Seq(JobStatus) /\ jobOrder \in Seq(Nat) /\ (\A i \in DOMAIN jobOrder : jobOrder[i] \in DOMAIN job)
      /\ proc.pc = "spawn" /\ proc.j \in DOMAIN job /\ proc' = NoJob /\ UNCHANGED <<jobOrder, health>>
      /\ DOMAIN NoJob = {"pc", "j"} /\ NoJob.pc = "idle"
  BY DEF JobsInv, JobsTyped, ProcessSpawn, NoJob
<1>1. CASE job' = [job EXCEPT ![proc.j] = "failed"] /\ UNCHANGED <<workers, spawned>>
  <2>1. /\ job' \in Seq(JobStatus) /\ DOMAIN job' = DOMAIN job /\ job'[proc.j] = "failed"
        /\ \A i \in DOMAIN job : i # proc.j => job'[i] = job[i]
    BY <1>t, <1>1, JobGets DEF JobsInv, JobStatus
  <2> QED BY <1>t, <1>1, <2>1, JobsStay
<1>2. CASE Spawn(proc.j, 0) /\ UNCHANGED job
  <2>1. 0 \in 0 .. RestartLimit
    BY OrchestratorAssumption
  <2>2. \A i \in DOMAIN job : i # proc.j /\ BeingSpawned(i) => BeingSpawned(i)'
    BY <1>t DEF BeingSpawned
  <2>3. DOMAIN health = HealthChecks /\ \A h \in HealthChecks : DOMAIN health[h] = {"pc", "todo", "w", "restarts"}
    BY DEF JobsInv, JobsTyped
  <2> QED BY <1>t, <1>2, <2>1, <2>2, <2>3, SpawningKeepsJobs
<1> QED BY <1>1, <1>2 DEF ProcessSpawn

(* No worker is spawned: some may be forgotten, marked or stopped. *)
LEMMA NothingSpawned ==
  ASSUME JobsInv, UNCHANGED <<spawned, proc, jobOrder>>, job' \in Seq(JobStatus), DOMAIN job' = DOMAIN job,
         DOMAIN workers' \subseteq DOMAIN workers,
         \A w \in DOMAIN workers' : workers'[w] \in WorkerRecord /\ workers'[w].job = workers[w].job,
         DOMAIN health' = HealthChecks,
         \A h \in HealthChecks :
           /\ DOMAIN health'[h] = {"pc", "todo", "w", "restarts"} /\ health'[h].todo \subseteq FoundRecord
           /\ health'[h].pc = "spawn" => health'[h].w \in DOMAIN job /\ health'[h].restarts \in 0 .. RestartLimit,
         \A h \in HealthChecks : \A x \in health'[h].todo :
           x \in health[h].todo \/ (x.id \in DOMAIN workers => workers[x.id].job = x.job),
         \A i \in DOMAIN job : job'[i] = "running" =>
           /\ job[i] = "running" /\ (BeingSpawned(i) => BeingSpawned(i)')
           /\ HasWorker(i) => HasWorker(i)' \/ BeingSpawned(i)'
  PROVE  JobsInv'
<1>1. JobsTyped'
  <2>1. FoundRecord' = FoundRecord /\ WorkerRecord' = WorkerRecord
    BY DEF FoundRecord, WorkerRecord
  <2> QED BY <2>1 DEF JobsInv, JobsTyped
<1>2. FoundAsWas'
  BY DEF JobsInv, FoundAsWas
<1>3. RunsSomewhere'
  BY DEF JobsInv, RunsSomewhere
<1> QED BY <1>1, <1>2, <1>3 DEF JobsInv

LEMMA HealthKeepsJobs ==
  ASSUME JobsInv, NEW h \in HealthChecks, HealthBegin(h) \/ HealthNext(h) \/ HealthSpawn(h) \/ HealthEnd(h)
  PROVE  JobsInv'
<1>t. /\ job \in Seq(JobStatus) /\ spawned \in Nat /\ DOMAIN workers \subseteq 1 .. spawned
      /\ (\A w \in DOMAIN workers : workers[w] \in WorkerRecord) /\ DOMAIN health = HealthChecks
      /\ \A g \in HealthChecks :
           /\ DOMAIN health[g] = {"pc", "todo", "w", "restarts"} /\ health[g].todo \subseteq FoundRecord
           /\ health[g].pc = "spawn" => health[g].w \in DOMAIN job /\ health[g].restarts \in 0 .. RestartLimit
  BY DEF JobsInv, JobsTyped
<1>1. CASE HealthBegin(h)
  <2> DEFINE found == {[id |-> w, job |-> workers[w].job, restarts |-> workers[w].restarts] :
                         w \in {v \in DOMAIN workers : workers[v].status = "crashed"}}
  <2>1. /\ health[h] = Asleep /\ health' = [health EXCEPT ![h].pc = "next", ![h].todo = found]
        /\ UNCHANGED <<job, jobOrder, proc, workers, spawned>>
    BY <1>1 DEF HealthBegin
  <2>2. \A x \in found : x \in FoundRecord /\ x.id \in DOMAIN workers /\ workers[x.id].job = x.job
    BY <1>t DEF WorkerRecord, FoundRecord
  <2> HIDE DEF found
  <2>3. /\ DOMAIN health' = HealthChecks /\ DOMAIN health'[h] = {"pc", "todo", "w", "restarts"}
        /\ health'[h].pc = "next" /\ health'[h].todo = found
        /\ \A g \in HealthChecks : g # h => health'[g] = health[g]
    BY <1>t, <2>1
  <2>4. \A i \in DOMAIN job : (BeingSpawned(i) => BeingSpawned(i)') /\ (HasWorker(i) => HasWorker(i)')
    BY <2>1, <2>3 DEF BeingSpawned, HasWorker, Live, Asleep
  <2> QED BY <1>t, <2>1, <2>2, <2>3, <2>4, NothingSpawned
<1>2. CASE HealthNext(h)
  <2>1. PICK w \in health[h].todo :
          IF ent.active /\ Count <= ent.max /\ w.restarts < RestartLimit
            THEN /\ workers' = Forget(workers, w.id)
                 /\ health' = [health EXCEPT ![h] = [pc |-> "spawn", todo |-> @.todo \ {w}, w |-> w.job,
                       restarts |-> IF w.id \in DOMAIN workers THEN w.restarts + 1 ELSE 1]]
                 /\ UNCHANGED job
            ELSE /\ job' = [job EXCEPT ![w.job] = "crashed"]
                 /\ health' = [health EXCEPT ![h].todo = @ \ {w}]
                 /\ UNCHANGED workers
    BY <1>2 DEF HealthNext
  <2>2. health[h].pc = "next" /\ UNCHANGED <<jobOrder, proc, spawned>>
    BY <1>2 DEF HealthNext
  <2>3. w \in FoundRecord /\ w.job \in DOMAIN job /\ (w.id \in DOMAIN workers => workers[w.id].job = w.job)
    BY <1>t DEF FoundRecord, JobsInv, FoundAsWas
  <2>4. CASE ent.active /\ Count <= ent.max /\ w.restarts < RestartLimit
    <3>1. /\ DOMAIN workers' = DOMAIN workers \ {w.id} /\ UNCHANGED job
          /\ \A v \in DOMAIN workers' : workers'[v] = workers[v]
      BY <2>1, <2>4 DEF Forget
    <3>2. /\ DOMAIN health' = HealthChecks /\ DOMAIN health'[h] = {"pc", "todo", "w", "restarts"}
          /\ health'[h].pc = "spawn" /\ health'[h].todo = health[h].todo \ {w} /\ health'[h].w = w.job
          /\ health'[h].restarts \in {w.restarts + 1, 1}
          /\ \A g \in HealthChecks : g # h => health'[g] = health[g]
      BY <1>t, <2>1, <2>4
    <3>3. health'[h].restarts \in 0 .. RestartLimit
      BY <2>3, <2>4, <3>2, OrchestratorAssumption DEF FoundRecord
    <3>4. ASSUME NEW i \in DOMAIN job
          PROVE  (BeingSpawned(i) => BeingSpawned(i)') /\ (HasWorker(i) => HasWorker(i)' \/ BeingSpawned(i)')
      <4>1. BeingSpawned(i) => BeingSpawned(i)'
        BY <2>2, <3>2 DEF BeingSpawned
      <4>2. i = w.job => BeingSpawned(i)'
        BY <3>2 DEF BeingSpawned
      <4>3. i # w.job /\ HasWorker(i) => HasWorker(i)'
        BY <2>3, <3>1 DEF HasWorker, Live
      <4> QED BY <4>1, <4>2, <4>3
    <3> QED BY <1>t, <2>2, <2>3, <3>1, <3>2, <3>3, <3>4, NothingSpawned
  <2>5. CASE ~(ent.active /\ Count <= ent.max /\ w.restarts < RestartLimit)
    <3>1. /\ job' = [job EXCEPT ![w.job] = "crashed"] /\ health' = [health EXCEPT ![h].todo = @ \ {w}]
          /\ UNCHANGED workers
      BY <2>1, <2>5
    <3>2. /\ DOMAIN health' = HealthChecks /\ DOMAIN health'[h] = {"pc", "todo", "w", "restarts"}
          /\ health'[h].pc = "next" /\ health'[h].todo = health[h].todo \ {w}
          /\ \A g \in HealthChecks : g # h => health'[g] = health[g]
      BY <1>t, <2>2, <3>1
    <3>3. /\ job' \in Seq(JobStatus) /\ DOMAIN job' = DOMAIN job /\ job'[w.job] = "crashed"
          /\ \A i \in DOMAIN job : i # w.job => job'[i] = job[i]
      BY <2>3, <3>1, JobGets DEF JobsInv, JobStatus
    <3>4. \A i \in DOMAIN job : (BeingSpawned(i) => BeingSpawned(i)') /\ (HasWorker(i) => HasWorker(i)')
      BY <2>2, <3>1, <3>2 DEF BeingSpawned, HasWorker, Live
    <3> QED BY <1>t, <2>2, <3>1, <3>2, <3>3, <3>4, NothingSpawned
  <2> QED BY <2>4, <2>5
<1>3. CASE HealthSpawn(h)
  <2> DEFINE j == health[h].w
  <2>1. /\ health[h].pc = "spawn" /\ j \in DOMAIN job /\ health[h].restarts \in 0 .. RestartLimit
        /\ health' = [health EXCEPT ![h].pc = "next"] /\ UNCHANGED <<jobOrder, proc>>
        /\ \/ Spawn(j, health[h].restarts) /\ job' = [job EXCEPT ![j] = "running"]
           \/ job' = [job EXCEPT ![j] = "crashed"] /\ UNCHANGED <<workers, spawned>>
    BY <1>t, <1>3 DEF HealthSpawn
  <2>2. /\ DOMAIN health' = HealthChecks /\ DOMAIN health'[h] = {"pc", "todo", "w", "restarts"}
        /\ health'[h].pc = "next" /\ health'[h].todo = health[h].todo
        /\ \A g \in HealthChecks : g # h => health'[g] = health[g]
    BY <1>t, <2>1
  <2>3. \A i \in DOMAIN job : i # j /\ BeingSpawned(i) => BeingSpawned(i)'
    BY <2>1, <2>2 DEF BeingSpawned
  <2>4. DOMAIN proc = {"pc", "j"}
    BY DEF JobsInv, JobsTyped
  <2> HIDE DEF j
  <2>5. ASSUME NEW v \in JobStatus, job' = [job EXCEPT ![j] = v]
        PROVE  /\ job' \in Seq(JobStatus) /\ DOMAIN job' = DOMAIN job /\ job'[j] = v
               /\ \A i \in DOMAIN job : i # j => job'[i] = job[i]
    BY <2>1, <2>5, JobGets DEF JobsInv
  <2>6. CASE Spawn(j, health[h].restarts) /\ job' = [job EXCEPT ![j] = "running"]
    <3>1. "running" \in JobStatus
      BY DEF JobStatus
    <3> QED BY <1>t, <2>1, <2>2, <2>3, <2>4, <2>5, <2>6, <3>1, SpawningKeepsJobs
  <2>7. CASE job' = [job EXCEPT ![j] = "crashed"] /\ UNCHANGED <<workers, spawned>>
    <3>1. "crashed" \in JobStatus
      BY DEF JobStatus
    <3>2. \A i \in DOMAIN job : HasWorker(i) => HasWorker(i)'
      BY <2>7 DEF HasWorker, Live
    <3>3. /\ job' \in Seq(JobStatus) /\ DOMAIN job' = DOMAIN job /\ job'[j] = "crashed"
          /\ \A i \in DOMAIN job : i # j => job'[i] = job[i]
      BY <2>5, <2>7, <3>1
    <3> QED BY <1>t, <2>1, <2>2, <2>3, <2>7, <3>2, <3>3, NothingSpawned
  <2> QED BY <2>1, <2>6, <2>7
<1>4. CASE HealthEnd(h)
  <2>1. /\ health[h].pc = "next" /\ health' = [health EXCEPT ![h] = Asleep]
        /\ UNCHANGED <<job, jobOrder, proc, workers, spawned>>
    BY <1>4 DEF HealthEnd
  <2>2. /\ DOMAIN health' = HealthChecks /\ DOMAIN health'[h] = {"pc", "todo", "w", "restarts"}
        /\ health'[h].pc = "asleep" /\ health'[h].todo = {}
        /\ \A g \in HealthChecks : g # h => health'[g] = health[g]
    BY <1>t, <2>1 DEF Asleep
  <2>3. \A i \in DOMAIN job : (BeingSpawned(i) => BeingSpawned(i)') /\ (HasWorker(i) => HasWorker(i)')
    BY <2>1, <2>2 DEF BeingSpawned, HasWorker, Live
  <2> QED BY <1>t, <2>1, <2>2, <2>3, NothingSpawned
<1> QED BY <1>1, <1>2, <1>3, <1>4

LEMMA WorkerKeepsJobs ==
  ASSUME JobsInv, NEW w \in DOMAIN workers, MarkStale(w) \/ StopRunner(w)
  PROVE  JobsInv'
<1>t. /\ job \in Seq(JobStatus) /\ workers[w] \in WorkerRecord /\ workers[w].job \in DOMAIN job
      /\ \A v \in DOMAIN workers : workers[v] \in WorkerRecord
  BY DEF JobsInv, JobsTyped, WorkerRecord
<1>h. /\ DOMAIN health = HealthChecks
      /\ \A g \in HealthChecks :
           /\ DOMAIN health[g] = {"pc", "todo", "w", "restarts"} /\ health[g].todo \subseteq FoundRecord
           /\ health[g].pc = "spawn" => health[g].w \in DOMAIN job /\ health[g].restarts \in 0 .. RestartLimit
  BY DEF JobsInv, JobsTyped
<1>u. UNCHANGED <<jobOrder, proc, spawned, health>>
  BY DEF MarkStale, StopRunner
<1>w. ASSUME NEW st \in {"crashed", "stopped"}, workers' = [workers EXCEPT ![w].status = st]
      PROVE  /\ DOMAIN workers' = DOMAIN workers
             /\ workers'[w].status = st
             /\ \A v \in DOMAIN workers : workers'[v] \in WorkerRecord /\ workers'[v].job = workers[v].job
             /\ \A v \in DOMAIN workers : v # w => workers'[v] = workers[v]
  BY <1>t, <1>w DEF WorkerRecord
<1>b. \A i \in DOMAIN job : BeingSpawned(i) => BeingSpawned(i)'
  BY <1>u DEF BeingSpawned
<1>1. CASE MarkStale(w)
  <2>1. workers' = [workers EXCEPT ![w].status = "crashed"] /\ UNCHANGED job
    BY <1>1 DEF MarkStale
  <2>2. \A i \in DOMAIN job : HasWorker(i) => HasWorker(i)'
    BY <1>w, <2>1 DEF HasWorker, Live
  <2> QED BY <1>t, <1>h, <1>u, <1>w, <1>b, <2>1, <2>2, NothingSpawned
<1>2. CASE StopRunner(w)
  <2>1. workers' = [workers EXCEPT ![w].status = "stopped"] /\ job' = [job EXCEPT ![workers[w].job] = "stopped"]
    BY <1>2 DEF StopRunner
  <2>2. /\ job' \in Seq(JobStatus) /\ DOMAIN job' = DOMAIN job /\ job'[workers[w].job] = "stopped"
        /\ \A i \in DOMAIN job : i # workers[w].job => job'[i] = job[i]
    BY <1>t, <2>1, JobGets DEF JobsInv, JobStatus
  <2>3. \A i \in DOMAIN job : i # workers[w].job /\ HasWorker(i) => HasWorker(i)'
    BY <1>w, <2>1 DEF HasWorker, Live
  <2> QED BY <1>t, <1>h, <1>u, <1>w, <1>b, <2>1, <2>2, <2>3, NothingSpawned
<1> QED BY <1>1, <1>2

LEMMA JobsInvStep == JobsInv /\ [OrchestratorNext]_orchestratorVars => JobsInv'
<1> SUFFICES ASSUME JobsInv, [OrchestratorNext]_orchestratorVars PROVE JobsInv'
  OBVIOUS
<1>1. ASSUME UNCHANGED <<job, jobOrder, proc, workers, spawned, health>> PROVE JobsInv'
  BY <1>1, JobsStay DEF JobsInv, JobsTyped
<1> QED BY <1>1, QueueKeepsJobs, ProcessSpawnKeepsJobs, HealthKeepsJobs, WorkerKeepsJobs
     DEF OrchestratorNext, Processing, Upgrade, Expire, orchestratorVars

LEMMA JobsInvInit == OrchestratorInit => JobsInv
<1> SUFFICES ASSUME OrchestratorInit PROVE JobsInv
  OBVIOUS
<1>1. /\ job = <<>> /\ jobOrder = <<>> /\ workers = <<>> /\ spawned = 0 /\ proc = NoJob
      /\ health = [h \in HealthChecks |-> Asleep]
  BY DEF OrchestratorInit
<1>2. DOMAIN job = {} /\ DOMAIN workers = {} /\ DOMAIN jobOrder = {} /\ job \in Seq(JobStatus) /\ jobOrder \in Seq(Nat)
  BY <1>1
<1> QED BY <1>1, <1>2 DEF JobsInv, JobsTyped, FoundAsWas, RunsSomewhere, NoJob, Asleep

(* Between spawns, a job the queue calls running has a worker, over         *)
(* overlapping health checks that act on what the workers were when they    *)
(* began, failing spawns, stops and changes of the subscription.            *)
THEOREM RunningIsServed == OrchestratorSpec => []RunningJobsHaveWorkers
<1>1. JobsInv => RunningJobsHaveWorkers
  BY DEF JobsInv, JobsTyped, RunsSomewhere, HasWorker, BeingSpawned, RunningJobsHaveWorkers
<1> QED BY <1>1, JobsInvInit, JobsInvStep, PTL DEF OrchestratorSpec

(* No worker is restarted more often than the limit allows, whatever the   *)
(* health check still knows of it.                                         *)
THEOREM JobsTypeCorrect == OrchestratorSpec => []OrchestratorTypeOK
<1>1. JobsInv => OrchestratorTypeOK
  BY DEF JobsInv, JobsTyped, WorkerRecord, JobStatus, OrchestratorTypeOK
<1> QED BY <1>1, JobsInvInit, JobsInvStep, PTL DEF OrchestratorSpec

-----------------------------------------------------------------------------
(* The strategy runner.  A tick opens a position only when none is held,   *)
(* but asks for that long before its order, and the store learns of the    *)
(* entry only after it.  What makes up for it while nothing overlaps: one  *)
(* tick is out at a time and it is out only while nothing is held; what is *)
(* live is held or in the hands of that tick; and a monitor that has seen  *)
(* no bracket has seen the truth, because what is live keeps a leg.        *)
RunnerSpec == RunnerInit /\ [][RunnerNext]_runnerVars

RunnerTyped ==
  /\ entries \in Nat /\ stops \in Nat /\ live \subseteq Nat \ {0} /\ monitors \subseteq Nat \ {0}
  /\ DOMAIN evalTick = EvalTicks /\ DOMAIN starting = StartCalls /\ DOMAIN looks = 1 .. MaxEntries
  /\ \A t \in EvalTicks :
       /\ DOMAIN evalTick[t] = {"pc", "e"}
       /\ evalTick[t].pc = "idle" => evalTick[t] = TickFree
       /\ evalTick[t].pc = "placed" => evalTick[t].e \in Nat \ {0}
  /\ \A e \in 1 .. MaxEntries : looks[e] \subseteq BOOLEAN

(* A live position keeps a stop or a target.                               *)
LiveKeepsLeg == \A e \in live : bracket \cap Legs(e) # {}

(* One start is under way, and only while the runner is not running; while *)
(* it is not, nothing happens.                                             *)
OneStart ==
  /\ \A s1, s2 \in StartCalls : starting[s1] # "idle" /\ starting[s2] # "idle" => s1 = s2
  /\ \A s \in StartCalls : starting[s] # "idle" => ~running
  /\ ~running => loops = 0 /\ held = 0 /\ live = {} /\ monitors = {}
  /\ ~running => \A t \in EvalTicks : evalTick[t] = TickFree

(* One tick is out, and only while no position is held.                    *)
OneTick ==
  /\ \A t1, t2 \in EvalTicks : evalTick[t1] # TickFree /\ evalTick[t2] # TickFree => t1 = t2
  /\ \A t \in EvalTicks : evalTick[t] # TickFree => held = 0

LiveIsHeld ==
  \A e \in live : held = e \/ \E t \in EvalTicks : evalTick[t].pc = "placed" /\ evalTick[t].e = e

(* The monitor is the held position's, and has one answer to come.         *)
LooksTrue ==
  /\ monitors \subseteq {held}
  /\ \A e \in 1 .. MaxEntries : looks[e] # {} => e \in monitors
  /\ \A e \in 1 .. MaxEntries : \A a, b \in looks[e] : a = b
  /\ \A e \in 1 .. MaxEntries : FALSE \in looks[e] => live = {}

Calm == ~crowded /\ stops = 0
RunnerInv == RunnerTyped /\ LiveKeepsLeg /\ (Calm => OneStart /\ OneTick /\ LiveIsHeld /\ LooksTrue)

-----------------------------------------------------------------------------
LEMMA RunnerInitially == RunnerInit => RunnerInv
<1> SUFFICES ASSUME RunnerInit PROVE RunnerInv
  OBVIOUS
<1>1. /\ \A t \in EvalTicks : evalTick[t] = TickFree
      /\ \A s \in StartCalls : starting[s] = "idle"
      /\ \A e \in 1 .. MaxEntries : looks[e] = {}
  BY DEF RunnerInit
<1>2. RunnerTyped
  BY <1>1 DEF RunnerInit, RunnerTyped, TickFree
<1>3. LiveKeepsLeg /\ OneStart /\ OneTick /\ LiveIsHeld /\ LooksTrue
  BY <1>1 DEF RunnerInit, LiveKeepsLeg, OneStart, OneTick, LiveIsHeld, LooksTrue
<1> QED BY <1>2, <1>3 DEF RunnerInv

(* After a stop or a restart nothing more is claimed than the types.       *)
LEMMA RunnerEnds ==
  ASSUME RunnerInv, StopRunning \/ RunnerRestarts
  PROVE  RunnerInv'
<1>1. stops' = stops + 1 /\ entries' = entries /\ live' = live /\ bracket' = bracket /\ crowded' = crowded
  BY DEF StopRunning, RunnerRestarts, exchangeVars
<1>2. RunnerTyped'
  <2>1. CASE StopRunning
    BY <1>1, <2>1 DEF RunnerInv, RunnerTyped, StopRunning, watchVars, TickFree
  <2>2. CASE RunnerRestarts
    <3>1. /\ \A t \in EvalTicks : evalTick'[t] = TickFree
          /\ \A e \in 1 .. MaxEntries : looks'[e] = {}
      BY <2>2 DEF RunnerRestarts
    <3>2. DOMAIN evalTick' = EvalTicks /\ DOMAIN starting' = StartCalls /\ DOMAIN looks' = 1 .. MaxEntries
      BY <2>2 DEF RunnerRestarts
    <3>3. running' = FALSE /\ monitors' = {}
      BY <2>2 DEF RunnerRestarts
    <3>4. DOMAIN TickFree = {"pc", "e"} /\ TickFree.pc = "idle"
      BY DEF TickFree
    <3> QED BY <1>1, <3>1, <3>2, <3>3, <3>4 DEF RunnerInv, RunnerTyped
  <2> QED BY <2>1, <2>2
<1> QED BY <1>1, <1>2 DEF RunnerInv, RunnerTyped, LiveKeepsLeg, Legs, Calm

LEMMA RunnerStarts ==
  ASSUME RunnerInv, NEW s \in StartCalls,
         StartRequested(s) \/ StartRefused(s) \/ StartReconcile(s) \/ StartDone(s)
  PROVE  RunnerInv'
<1>1. /\ UNCHANGED <<entries, live, bracket, evalTick, monitors, looks, stops>>
      /\ DOMAIN starting' = StartCalls
      /\ \A x \in StartCalls : x # s => starting'[x] = starting[x]
  BY DEF StartRequested, StartRefused, StartReconcile, StartDone, RunnerInv, RunnerTyped, exchangeVars, watchVars
<1>2. RunnerTyped' /\ LiveKeepsLeg'
  BY <1>1 DEF RunnerInv, RunnerTyped, LiveKeepsLeg, Legs, TickFree
<1>3. CASE StartRequested(s)
  <2>1. /\ running' = running /\ ~running /\ loops' = loops /\ held' = held
        /\ crowded' = (crowded \/ Starting # {} \/ Busy # {})
    BY <1>3 DEF StartRequested
  <2>2. Calm' => Calm /\ Starting = {}
    BY <1>1, <2>1 DEF Calm
  <2>3. Calm' => OneStart'
    BY <1>1, <2>1, <2>2 DEF RunnerInv, OneStart, Starting, TickFree
  <2> QED BY <1>1, <1>2, <2>1, <2>2, <2>3 DEF RunnerInv, OneTick, LiveIsHeld, LooksTrue, TickFree
<1>4. CASE StartRefused(s) \/ StartReconcile(s)
  <2>1. /\ running' = running /\ starting[s] = "balance" /\ loops' = loops /\ held' \in {held, 0}
        /\ crowded' = crowded
    BY <1>4 DEF StartRefused, StartReconcile, loopVars
  <2>2. Calm' => Calm /\ ~running' /\ held' = held
    BY <1>1, <2>1 DEF Calm, RunnerInv, OneStart
  <2>3. Calm' => OneStart'
    BY <1>1, <2>1, <2>2 DEF RunnerInv, OneStart, TickFree
  <2> QED BY <1>1, <1>2, <2>2, <2>3 DEF RunnerInv, OneTick, LiveIsHeld, LooksTrue, TickFree
<1>5. CASE StartDone(s)
  <2>1. /\ starting[s] = "reconciled" /\ starting'[s] = "idle" /\ held' = held /\ crowded' = crowded /\ running' = TRUE
    BY <1>5 DEF StartDone, RunnerInv, RunnerTyped
  <2>2. Calm' => Calm /\ \A x \in StartCalls : starting'[x] = "idle"
    BY <1>1, <2>1 DEF Calm, RunnerInv, OneStart
  <2>3. Calm' => OneStart'
    BY <2>1, <2>2 DEF OneStart
  <2> QED BY ZenonT(40), <1>1, <1>2, <2>1, <2>2, <2>3 DEF RunnerInv, OneTick, LiveIsHeld, LooksTrue, TickFree
<1> QED BY <1>3, <1>4, <1>5

-----------------------------------------------------------------------------
(* What a tick leaves alone, and where it may be afterwards.               *)
LEMMA TickLeaves ==
  ASSUME RunnerInv, NEW t \in EvalTicks, Evaluate(t)
  PROVE  /\ UNCHANGED <<loopVars, stops, looks>> /\ (Calm' => Calm)
         /\ DOMAIN evalTick' = EvalTicks
         /\ \A x \in EvalTicks : x # t => evalTick'[x] = evalTick[x]
<1>1. UNCHANGED <<loopVars, stops, looks>>
  BY DEF Evaluate, TickBegin, TickEnds, TickSignal, TickPlaced, TickOrder, TickMoves, watchVars
<1>2. (crowded => crowded') /\ \E at : evalTick' = [evalTick EXCEPT ![t] = at]
  <2>1. CASE TickBegin(t)
    BY <2>1 DEF TickBegin, TickMoves
  <2>2. CASE TickEnds(t) \/ TickSignal(t)
    BY <2>2 DEF TickEnds, TickSignal, TickMoves
  <2>3. CASE TickPlaced(t)
    BY <2>3 DEF TickPlaced
  <2>4. ASSUME NEW a \in BOOLEAN, TickOrder(t, a)
        PROVE  (crowded => crowded') /\ \E at : evalTick' = [evalTick EXCEPT ![t] = at]
    BY <2>4 DEF TickOrder
  <2> QED BY <2>1, <2>2, <2>3, <2>4 DEF Evaluate
<1> QED BY <1>1, <1>2 DEF RunnerInv, RunnerTyped, Calm

(* Before the order.                                                       *)
LEMMA TickWaits ==
  ASSUME RunnerInv, NEW t \in EvalTicks, Evaluate(t), TickBegin(t) \/ TickEnds(t) \/ TickSignal(t)
  PROVE  RunnerInv'
<1>0. UNCHANGED <<loopVars, watchVars, held, stops, exchangeVars>>
  BY DEF TickBegin, TickEnds, TickSignal, TickMoves
<1>1. /\ evalTick[t].pc \in {"idle", "candles", "instrument"}
      /\ evalTick'[t] = TickFree
         \/ evalTick'[t] = [evalTick[t] EXCEPT !.pc = "candles"]
         \/ evalTick'[t] = [evalTick[t] EXCEPT !.pc = "instrument"]
  BY DEF TickBegin, TickEnds, TickSignal, TickMoves, RunnerInv, RunnerTyped
<1>2. DOMAIN evalTick'[t] = {"pc", "e"} /\ evalTick'[t].pc # "placed"
      /\ (evalTick'[t].pc = "idle" => evalTick'[t] = TickFree)
  BY <1>1 DEF RunnerInv, RunnerTyped, TickFree
<1>3. RunnerTyped'
  BY <1>0, <1>2, TickLeaves DEF RunnerInv, RunnerTyped, loopVars, watchVars, exchangeVars, TickFree
<1>4. LiveKeepsLeg'
  BY <1>0 DEF RunnerInv, LiveKeepsLeg, Legs, exchangeVars
<1>5. ASSUME Calm'
      PROVE  evalTick[t] # TickFree \/ (running /\ held = 0 /\ Busy = {})
  <2>1. CASE TickBegin(t)
    <3>1. loops > 0 /\ held = 0 /\ crowded' = (crowded \/ Busy # {})
      BY <2>1 DEF TickBegin
    <3>2. Calm /\ Busy = {}
      BY <1>5, <3>1, TickLeaves DEF Calm
    <3>3. running
      BY <3>1, <3>2 DEF RunnerInv, RunnerTyped, OneStart
    <3> QED BY <3>1, <3>2, <3>3
  <2>2. CASE TickEnds(t) \/ TickSignal(t)
    BY <2>2 DEF TickEnds, TickSignal, TickMoves, TickFree
  <2> QED BY <2>1, <2>2
<1>6. ASSUME Calm'
      PROVE  OneStart'
  BY <1>0, <1>5, <1>6, TickLeaves DEF RunnerInv, OneStart, loopVars, watchVars, exchangeVars, TickFree
<1>7. ASSUME Calm'
      PROVE  OneTick'
  BY <1>0, <1>5, <1>7, TickLeaves DEF RunnerInv, OneTick, Busy, TickFree
<1>8. ASSUME Calm'
      PROVE  LiveIsHeld' /\ LooksTrue'
  <2>1. Calm /\ \A x \in EvalTicks : evalTick[x].pc = "placed" => x # t /\ evalTick'[x] = evalTick[x]
    BY <1>1, <1>8, TickLeaves
  <2> QED BY <1>0, <2>1 DEF RunnerInv, LiveIsHeld, LooksTrue, watchVars, exchangeVars
<1> QED BY <1>3, <1>4, <1>6, <1>7, <1>8 DEF RunnerInv

(* The order is executed.                                                  *)
LEMMA TickOrders ==
  ASSUME RunnerInv, NEW t \in EvalTicks, NEW answered \in BOOLEAN, Evaluate(t), TickOrder(t, answered)
  PROVE  RunnerInv'
<1>1. /\ evalTick[t].pc = "instrument" /\ entries' = entries + 1 /\ entries' \in Nat \ {0}
      /\ live' = live \cup {entries'} /\ bracket' = bracket \cup Legs(entries')
      /\ evalTick'[t] = (IF answered THEN [pc |-> "placed", e |-> entries'] ELSE TickFree)
      /\ crowded' = (crowded \/ ~answered) /\ UNCHANGED <<watchVars, held>>
  BY DEF TickOrder, RunnerInv, RunnerTyped
<1>2. /\ DOMAIN evalTick'[t] = {"pc", "e"}
      /\ evalTick'[t].pc = "idle" => evalTick'[t] = TickFree
      /\ evalTick'[t].pc = "placed" => evalTick'[t].e = entries'
      /\ answered => evalTick'[t].pc = "placed"
  BY <1>1 DEF TickFree
<1>3. RunnerTyped'
  <2>1. /\ entries' \in Nat /\ live' \subseteq Nat \ {0}
        /\ UNCHANGED <<stops, looks, monitors, starting>> /\ DOMAIN evalTick' = EvalTicks
    BY <1>1, TickLeaves DEF RunnerInv, RunnerTyped, loopVars, watchVars
  <2>2. ASSUME NEW x \in EvalTicks
        PROVE  /\ DOMAIN evalTick'[x] = {"pc", "e"}
               /\ evalTick'[x].pc = "idle" => evalTick'[x] = TickFree
               /\ evalTick'[x].pc = "placed" => evalTick'[x].e \in Nat \ {0}
    <3>1. CASE x = t
      BY <1>1, <1>2, <3>1
    <3>2. CASE x # t
      BY <3>2, TickLeaves DEF RunnerInv, RunnerTyped
    <3> QED BY <3>1, <3>2
  <2>3. TickFree' = TickFree
    BY DEF TickFree
  <2> QED BY <2>1, <2>2, <2>3 DEF RunnerInv, RunnerTyped
<1>4. LiveKeepsLeg'
  <2>1. Legs(entries') # {} /\ Legs(entries') \subseteq bracket'
    <3>1. <<entries', "stop">> \in Legs(entries')
      BY DEF Legs
    <3> QED BY <1>1, <3>1
  <2> QED BY <1>1, <2>1 DEF RunnerInv, LiveKeepsLeg, Legs
<1>5. ASSUME Calm'
      PROVE  OneStart' /\ OneTick' /\ LiveIsHeld' /\ LooksTrue'
  <2>1. Calm /\ answered
    BY <1>1, <1>5, TickLeaves DEF Calm
  <2>2. evalTick[t] # TickFree /\ held = 0 /\ running /\ \A x \in EvalTicks : x # t => evalTick[x] = TickFree
    BY <1>1, <2>1 DEF RunnerInv, OneStart, OneTick, TickFree, RunnerTyped
  <2>3. live = {} /\ monitors = {}
    BY <1>1, <2>1, <2>2 DEF RunnerInv, RunnerTyped, LiveIsHeld, LooksTrue, TickFree
  <2>4. OneStart'
    BY <2>1, <2>2, TickLeaves DEF RunnerInv, OneStart, loopVars
  <2>5. OneTick'
    BY <1>1, <2>2, TickLeaves DEF OneTick
  <2>6. LiveIsHeld'
    BY <1>1, <1>2, <2>1, <2>3 DEF LiveIsHeld
  <2>7. LooksTrue'
    BY <1>1, <2>1, <2>3, TickLeaves DEF RunnerInv, RunnerTyped, LooksTrue, watchVars
  <2> QED BY <2>4, <2>5, <2>6, <2>7
<1> QED BY <1>3, <1>4, <1>5 DEF RunnerInv

(* The store is told, and the monitor begins.                              *)
LEMMA TickIsPlaced ==
  ASSUME RunnerInv, NEW t \in EvalTicks, Evaluate(t), TickPlaced(t)
  PROVE  RunnerInv'
<1>1. /\ evalTick[t].pc = "placed" /\ held' = evalTick[t].e /\ held' \in Nat \ {0}
      /\ monitors' = monitors \cup {held'}
      /\ evalTick'[t] = TickFree /\ UNCHANGED <<looks, exchangeVars, crowded>>
  BY DEF TickPlaced, RunnerInv, RunnerTyped
<1>2. RunnerTyped'
  <2>1. DOMAIN TickFree = {"pc", "e"} /\ TickFree.pc = "idle"
    BY DEF TickFree
  <2>2. /\ DOMAIN evalTick' = EvalTicks /\ UNCHANGED <<entries, stops, live, looks, starting>>
        /\ \A x \in EvalTicks : x # t => evalTick'[x] = evalTick[x]
    BY <1>1, TickLeaves DEF loopVars, exchangeVars
  <2>3. monitors' \subseteq Nat \ {0}
    BY <1>1 DEF RunnerInv, RunnerTyped
  <2>4. \A x \in EvalTicks :
          /\ DOMAIN evalTick'[x] = {"pc", "e"}
          /\ evalTick'[x].pc = "idle" => evalTick'[x] = TickFree
          /\ evalTick'[x].pc = "placed" => evalTick'[x].e \in Nat \ {0}
    BY <1>1, <2>1, <2>2 DEF RunnerInv, RunnerTyped
  <2> QED BY <2>2, <2>3, <2>4 DEF RunnerInv, RunnerTyped
<1>3. LiveKeepsLeg'
  BY <1>1 DEF RunnerInv, LiveKeepsLeg, Legs, exchangeVars
<1>4. ASSUME Calm'
      PROVE  OneStart' /\ OneTick' /\ LiveIsHeld' /\ LooksTrue'
  <2>1. Calm
    BY <1>4, TickLeaves
  <2>2. evalTick[t] # TickFree /\ held = 0 /\ running /\ \A x \in EvalTicks : x # t => evalTick[x] = TickFree
    BY <1>1, <2>1 DEF RunnerInv, OneStart, OneTick, TickFree, RunnerTyped
  <2>3. monitors = {}
    BY <2>1, <2>2 DEF RunnerInv, RunnerTyped, LooksTrue
  <2>4. OneStart'
    BY <2>1, <2>2, TickLeaves DEF RunnerInv, OneStart, loopVars
  <2>5. OneTick'
    BY <1>1, <2>2, TickLeaves DEF OneTick, TickFree
  <2>6. \A e \in live : e = held'
    <3>1. \A e \in live : \E x \in EvalTicks : evalTick[x].pc = "placed" /\ evalTick[x].e = e
      BY <2>1, <2>2 DEF RunnerInv, RunnerTyped, LiveIsHeld
    <3>2. TickFree.pc # "placed"
      BY DEF TickFree
    <3> QED BY <1>1, <2>2, <3>1, <3>2
  <2>7. LiveIsHeld'
    BY <1>1, <2>6 DEF LiveIsHeld, exchangeVars
  <2>8. LooksTrue'
    BY <1>1, <2>1, <2>3, TickLeaves DEF RunnerInv, RunnerTyped, LooksTrue, exchangeVars
  <2> QED BY <2>4, <2>5, <2>7, <2>8
<1> QED BY <1>2, <1>3, <1>4 DEF RunnerInv

-----------------------------------------------------------------------------
LEMMA MonitorSteps ==
  ASSUME RunnerInv, NEW e \in 1 .. MaxEntries, Watch(e)
  PROVE  RunnerInv'
<1>1. UNCHANGED <<loopVars, evalTick, exchangeVars, stops>>
  BY DEF Watch, MonitorStops, MonitorLooks, MonitorSees
<1>2. LiveKeepsLeg'
  BY <1>1 DEF RunnerInv, LiveKeepsLeg, Legs, exchangeVars
<1>3. CASE MonitorStops(e)
  <2>1. ~running /\ e \in monitors /\ monitors' = monitors \ {e} /\ UNCHANGED <<held, looks, crowded>>
    BY <1>3 DEF MonitorStops
  <2>2. ~Calm
    BY <2>1 DEF RunnerInv, OneStart
  <2>3. RunnerTyped'
    BY <1>1, <2>1 DEF RunnerInv, RunnerTyped, loopVars, exchangeVars, TickFree
  <2> QED BY <1>1, <1>2, <2>1, <2>2, <2>3 DEF RunnerInv, Calm
<1>4. CASE MonitorLooks(e)
  <2> DEFINE seen == bracket # {}
  <2>1. /\ e \in monitors /\ DOMAIN looks' = 1 .. MaxEntries /\ looks'[e] = looks[e] \cup {seen}
        /\ \A x \in 1 .. MaxEntries : x # e => looks'[x] = looks[x]
        /\ crowded' = (crowded \/ looks[e] # {}) /\ UNCHANGED <<held, monitors>>
    BY <1>4 DEF MonitorLooks, RunnerInv, RunnerTyped
  <2>2. seen \in BOOLEAN /\ (~seen => live = {})
    BY DEF RunnerInv, LiveKeepsLeg
  <2> HIDE DEF seen
  <2>3. RunnerTyped'
    BY <1>1, <2>1, <2>2 DEF RunnerInv, RunnerTyped, loopVars, exchangeVars, TickFree
  <2>4. ASSUME Calm'
        PROVE  OneStart' /\ OneTick' /\ LiveIsHeld' /\ LooksTrue'
    <3>1. Calm /\ looks[e] = {} /\ looks'[e] = {seen}
      BY <1>1, <2>1, <2>4 DEF Calm
    <3>2. OneStart' /\ OneTick' /\ LiveIsHeld'
      BY <1>1, <2>1, <3>1 DEF RunnerInv, OneStart, OneTick, LiveIsHeld, loopVars, exchangeVars, TickFree
    <3>3. LooksTrue'
      <4>1. \A x \in 1 .. MaxEntries : looks'[x] # {} => x \in monitors'
        BY <2>1, <3>1 DEF RunnerInv, LooksTrue
      <4>2. \A x \in 1 .. MaxEntries : \A a, b \in looks'[x] : a = b
        BY <2>1, <3>1 DEF RunnerInv, LooksTrue
      <4>3. \A x \in 1 .. MaxEntries : FALSE \in looks'[x] => live' = {}
        <5>1. FALSE \in looks'[e] => live = {}
          BY <2>2, <3>1
        <5> QED BY <1>1, <2>1, <3>1, <5>1 DEF RunnerInv, LooksTrue, exchangeVars
      <4> QED BY <2>1, <3>1, <4>1, <4>2, <4>3 DEF RunnerInv, LooksTrue
    <3> QED BY <3>2, <3>3
  <2> QED BY <1>2, <2>3, <2>4 DEF RunnerInv
<1>5. CASE MonitorSees(e)
  <2>1. PICK seen \in looks[e] :
          /\ looks' = [looks EXCEPT ![e] = @ \ {seen}]
          /\ IF seen THEN UNCHANGED <<monitors, held>> ELSE MonitorClears(e)
          /\ crowded' = crowded
    BY <1>5 DEF MonitorSees
  <2>2. /\ DOMAIN looks' = 1 .. MaxEntries /\ looks'[e] = looks[e] \ {seen} /\ seen \in BOOLEAN
        /\ \A x \in 1 .. MaxEntries : x # e => looks'[x] = looks[x]
    BY <2>1 DEF RunnerInv, RunnerTyped
  <2>3. monitors' = (IF seen THEN monitors ELSE monitors \ {e}) /\ held' = IF seen THEN held ELSE 0
    BY <2>1 DEF MonitorClears
  <2>4. RunnerTyped'
    BY <1>1, <2>1, <2>2, <2>3 DEF RunnerInv, RunnerTyped, loopVars, exchangeVars, TickFree
  <2>5. ASSUME Calm'
        PROVE  OneStart' /\ OneTick' /\ LiveIsHeld' /\ LooksTrue'
    <3>1. Calm
      BY <1>1, <2>1, <2>5 DEF Calm
    <3>2. looks'[e] = {} /\ e \in monitors /\ monitors = {e} /\ held = e
      BY <2>1, <2>2, <3>1 DEF RunnerInv, LooksTrue
    <3>3. ~seen => live = {}
      <4>1. FALSE \in looks[e] => live = {}
        BY <3>1 DEF RunnerInv, LooksTrue
      <4>2. seen \in looks[e] /\ (seen \/ seen = FALSE)
        BY <2>1, <2>2
      <4> QED BY <4>1, <4>2
    <3>4. OneStart'
      BY <1>1, <2>3, <3>1, <3>2 DEF RunnerInv, OneStart, loopVars, exchangeVars, TickFree
    <3>5. OneTick'
      BY <1>1, <2>3, <3>1 DEF RunnerInv, OneTick, TickFree
    <3>6. LiveIsHeld'
      BY <1>1, <2>3, <3>1, <3>3 DEF RunnerInv, LiveIsHeld, exchangeVars
    <3>7. LooksTrue'
      BY <1>1, <2>2, <2>3, <3>1, <3>2 DEF RunnerInv, LooksTrue, exchangeVars
    <3> QED BY <3>4, <3>5, <3>6, <3>7
  <2> QED BY <1>2, <2>4, <2>5 DEF RunnerInv
<1> QED BY <1>3, <1>4, <1>5 DEF Watch

(* Filling one position's leg takes its legs alone; cancelling one leaves  *)
(* the other.                                                              *)
LEMMA LegSteps ==
  ASSUME RunnerInv, NEW e \in 1 .. MaxEntries, LegFills(e) \/ LegCancelled(e)
  PROVE  RunnerInv'
<1>1. /\ UNCHANGED <<loopVars, held, evalTick, watchVars, entries, stops, crowded>>
      /\ live' \subseteq live
  BY DEF LegFills, LegCancelled
<1>2. LiveKeepsLeg'
  <2>1. CASE LegFills(e)
    <3>1. live' = live \ {e} /\ bracket' = bracket \ Legs(e)
      BY <2>1 DEF LegFills
    <3>2. \A x \in live' : Legs(x) \cap Legs(e) = {}
      BY <3>1 DEF Legs
    <3> QED BY <3>1, <3>2 DEF RunnerInv, LiveKeepsLeg, Legs
  <2>2. CASE LegCancelled(e)
    <3>1. PICK leg \in Legs(e) : bracket' = bracket \ {leg} /\ Legs(e) \subseteq bracket /\ live' = live
      BY <2>2 DEF LegCancelled
    <3>2. <<e, "stop">> \in Legs(e) /\ <<e, "target">> \in Legs(e)
      BY DEF Legs
    <3>3. <<e, "stop">> # <<e, "target">>
      OBVIOUS
    <3>4. bracket' \cap Legs(e) # {}
      BY <3>1, <3>2, <3>3
    <3>5. \A x \in live : x # e => leg \notin Legs(x)
      BY <3>1 DEF Legs
    <3>6. ASSUME NEW x \in live
          PROVE  bracket' \cap Legs(x) # {}
      BY <3>1, <3>4, <3>5 DEF RunnerInv, LiveKeepsLeg
    <3> QED BY <3>1, <3>6 DEF LiveKeepsLeg, Legs
  <2> QED BY <2>1, <2>2
<1>3. RunnerTyped'
  BY <1>1 DEF RunnerInv, RunnerTyped, loopVars, watchVars, TickFree
<1>4. Calm' => Calm
  BY <1>1 DEF Calm
<1>5. Calm' => OneStart' /\ OneTick'
  BY <1>1, <1>4 DEF RunnerInv, OneStart, OneTick, loopVars, watchVars, TickFree
<1>6. Calm' => LiveIsHeld' /\ LooksTrue'
  BY <1>1, <1>4 DEF RunnerInv, LiveIsHeld, LooksTrue, watchVars
<1> QED BY <1>2, <1>3, <1>5, <1>6 DEF RunnerInv

LEMMA RunnerStep == RunnerInv /\ [RunnerNext]_runnerVars => RunnerInv'
<1> SUFFICES ASSUME RunnerInv, [RunnerNext]_runnerVars PROVE RunnerInv'
  OBVIOUS
<1>1. CASE UNCHANGED runnerVars
  <2>1. /\ UNCHANGED <<running, loops, ownLoop, held, evalTick, starting, monitors, looks>>
        /\ UNCHANGED <<entries, live, bracket, stops, crowded>>
    BY <1>1 DEF runnerVars, loopVars, exchangeVars, watchVars
  <2>2. RunnerTyped'
    BY <2>1 DEF RunnerInv, RunnerTyped, TickFree
  <2>3. LiveKeepsLeg' /\ (Calm' => Calm)
    BY <2>1 DEF RunnerInv, LiveKeepsLeg, Legs, Calm
  <2>4. Calm' => OneStart' /\ OneTick' /\ LiveIsHeld' /\ LooksTrue'
    BY <2>1, <2>3, ZenonT(30) DEF RunnerInv, OneStart, OneTick, LiveIsHeld, LooksTrue, TickFree
  <2> QED BY <2>2, <2>3, <2>4 DEF RunnerInv
<1>2. CASE StopRunning \/ RunnerRestarts
  BY <1>2, RunnerEnds
<1>3. ASSUME NEW s \in StartCalls, StartRequested(s) \/ StartRefused(s) \/ StartReconcile(s) \/ StartDone(s)
      PROVE  RunnerInv'
  BY <1>3, RunnerStarts
<1>4. ASSUME NEW t \in EvalTicks, Evaluate(t)
      PROVE  RunnerInv'
  <2>1. \/ TickBegin(t) \/ TickEnds(t) \/ TickSignal(t) \/ TickPlaced(t)
        \/ \E a \in BOOLEAN : TickOrder(t, a)
    BY <1>4 DEF Evaluate
  <2> QED BY <1>4, <2>1, TickWaits, TickOrders, TickIsPlaced
<1>5. ASSUME NEW e \in 1 .. MaxEntries, Watch(e) \/ LegFills(e) \/ LegCancelled(e)
      PROVE  RunnerInv'
  BY <1>5, MonitorSteps, LegSteps
<1> QED BY <1>1, <1>2, <1>3, <1>4, <1>5 DEF RunnerNext

(* Two live positions would both be the held one, or both in the hands of  *)
(* the one tick that is out, or one of each though a tick is out only      *)
(* while nothing is held.                                                  *)
LEMMA CalmHasOneLive == RunnerInv => RunnerNeverDoubles
<1> SUFFICES ASSUME RunnerInv, Calm PROVE Cardinality(live) <= 1
  BY DEF RunnerNeverDoubles, Calm
<1>1. ASSUME NEW x \in live, NEW y \in live
      PROVE  x = y
  <2>1. \A t \in EvalTicks : evalTick[t].pc = "placed" => evalTick[t] # TickFree
    BY DEF TickFree
  <2>2. \A t \in EvalTicks : evalTick[t].pc = "placed" => held = 0
    BY <2>1 DEF RunnerInv, OneTick
  <2>3. \A e \in live : e # 0
    BY DEF RunnerInv, RunnerTyped
  <2>4. CASE held # 0
    BY <2>2, <2>4 DEF RunnerInv, LiveIsHeld
  <2>5. CASE held = 0
    BY <2>1, <2>3, <2>5 DEF RunnerInv, OneTick, LiveIsHeld
  <2> QED BY <2>4, <2>5
<1>2. CASE live = {}
  BY <1>2, FS_EmptySet
<1>3. CASE live # {}
  <2>1. PICK x \in live : live = {x}
    BY <1>1, <1>3
  <2> QED BY <2>1, FS_Singleton
<1> QED BY <1>2, <1>3

(* A runner whose ticks, starts and looks do not overlap never opens a     *)
(* second position in one run, whatever is cancelled of its bracket, for   *)
(* any number of ticks, starts and entries (StrategyRunner.tick,           *)
(* monitorPosition).                                                       *)
THEOREM RunnerOpensOne == RunnerSpec => []RunnerNeverDoubles
<1>1. RunnerSpec => []RunnerInv
  BY RunnerInitially, RunnerStep, PTL DEF RunnerSpec
<1> QED BY <1>1, CalmHasOneLive, PTL

(* The types, without any calm: what rests of a bracket is of a live       *)
(* position, and what is held or watched was entered.                      *)
PlacedEntered ==
  /\ DOMAIN evalTick = EvalTicks
  /\ \A t \in EvalTicks :
       DOMAIN evalTick[t] = {"pc", "e"} /\ (evalTick[t].pc = "placed" => evalTick[t].e \in 1..entries)
RunnerTypes == PlacedEntered /\ RunnerTypeOK

(* Steps of the runner alone, as far as the types see them.                *)
LEMMA RunnerAlone ==
  ASSUME RunnerTypeOK, UNCHANGED <<entries, live, bracket>>, running' \in BOOLEAN,
         held' \in 0..entries, monitors' \subseteq 1..entries,
         \A t \in EvalTicks : evalTick'[t].pc \in {"idle", "candles", "instrument", "placed"}
  PROVE  RunnerTypeOK'
<1>1. bracket' \subseteq UNION {Legs(e) : e \in live'}
  BY DEF RunnerTypeOK, Legs
<1> QED BY <1>1 DEF RunnerTypeOK

LEMMA RunnerTypesKept ==
  ASSUME RunnerTypes, [RunnerNext]_runnerVars
  PROVE  RunnerTypes'
<1>0. /\ DOMAIN TickFree = {"pc", "e"} /\ TickFree.pc = "idle" /\ entries \in Nat
      /\ TickFree' = TickFree
  BY DEF TickFree, RunnerTypes, RunnerTypeOK
<1>1. CASE UNCHANGED runnerVars
  BY <1>1 DEF runnerVars, RunnerTypes, PlacedEntered, RunnerTypeOK, Legs
<1>2. ASSUME UNCHANGED <<exchangeVars, monitors>>, evalTick' = evalTick, running' \in BOOLEAN, held' \in {held, 0}
      PROVE  RunnerTypes'
  BY <1>0, <1>2 DEF RunnerTypes, PlacedEntered, RunnerTypeOK, Legs, exchangeVars
<1>3. ASSUME NEW s \in StartCalls,
             StartRequested(s) \/ StartRefused(s) \/ StartReconcile(s) \/ StartDone(s)
      PROVE  RunnerTypes'
  <2>1. /\ UNCHANGED <<exchangeVars, monitors>> /\ evalTick' = evalTick
        /\ running' \in {running, TRUE} /\ held' \in {held, 0}
    BY <1>3 DEF StartRequested, StartRefused, StartReconcile, StartDone, watchVars, exchangeVars
  <2> QED BY <1>2, <2>1 DEF RunnerTypes, RunnerTypeOK
<1>4. CASE StopRunning
  BY <1>2, <1>4 DEF StopRunning, watchVars
<1>5. CASE RunnerRestarts
  <2>1. /\ DOMAIN evalTick' = EvalTicks /\ \A t \in EvalTicks : evalTick'[t] = TickFree
        /\ running' = FALSE /\ held' = 0 /\ monitors' = {} /\ UNCHANGED exchangeVars
    BY <1>5 DEF RunnerRestarts
  <2>2. PlacedEntered'
    BY <1>0, <2>1 DEF PlacedEntered
  <2>3. \A t \in EvalTicks : evalTick'[t].pc = "idle"
    BY <1>0, <2>1
  <2>4. RunnerTypeOK'
    <3>1. UNCHANGED <<entries, live, bracket>> /\ running' \in BOOLEAN
      BY <2>1 DEF exchangeVars
    <3>2. held' \in 0..entries /\ monitors' \subseteq 1..entries
      BY <1>0, <2>1
    <3>3. \A t \in EvalTicks : evalTick'[t].pc \in {"idle", "candles", "instrument", "placed"}
      BY <2>3
    <3> QED BY <3>1, <3>2, <3>3, RunnerAlone DEF RunnerTypes
  <2> QED BY <2>2, <2>4 DEF RunnerTypes
<1>6. ASSUME NEW t \in EvalTicks, TickBegin(t) \/ TickEnds(t) \/ TickSignal(t) PROVE RunnerTypes'
  <2>1. UNCHANGED <<running, held, monitors, exchangeVars>>
    BY <1>6 DEF TickBegin, TickEnds, TickSignal, TickMoves, loopVars, watchVars
  <2>2. \E r : /\ evalTick' = [evalTick EXCEPT ![t] = r]
               /\ r = TickFree \/ r = [evalTick[t] EXCEPT !.pc = "candles"]
                  \/ r = [evalTick[t] EXCEPT !.pc = "instrument"]
    BY <1>6 DEF TickBegin, TickEnds, TickSignal, TickMoves
  <2> QED BY <1>0, <2>1, <2>2 DEF RunnerTypes, PlacedEntered, RunnerTypeOK, Legs, exchangeVars
<1>7. ASSUME NEW t \in EvalTicks, NEW a \in BOOLEAN, TickOrder(t, a) PROVE RunnerTypes'
  <2>1. /\ entries < MaxEntries /\ entries' = entries + 1 /\ live' = live \cup {entries'}
        /\ bracket' = bracket \cup Legs(entries')
        /\ evalTick' = [evalTick EXCEPT ![t] = IF a THEN [pc |-> "placed", e |-> entries'] ELSE TickFree]
        /\ UNCHANGED <<running, held, monitors>>
    BY <1>7 DEF TickOrder, loopVars, watchVars
  <2>2. entries' \in 0..MaxEntries /\ entries' \in 1..entries' /\ 1..entries \subseteq 1..entries' /\ held \in 0..entries'
    BY <1>0, <2>1, RunnerAssumption DEF RunnerTypes, RunnerTypeOK
  <2>3. /\ DOMAIN evalTick' = EvalTicks
        /\ \A u \in EvalTicks : evalTick'[u] = evalTick[u] \/ evalTick'[u] = TickFree \/ evalTick'[u] = [pc |-> "placed", e |-> entries']
    BY <2>1 DEF RunnerTypes, PlacedEntered
  <2>4. PlacedEntered'
    BY <1>0, <2>2, <2>3 DEF RunnerTypes, PlacedEntered
  <2>5. \A u \in EvalTicks : evalTick'[u].pc \in {"idle", "candles", "instrument", "placed"}
    BY <1>0, <2>3 DEF RunnerTypes, RunnerTypeOK
  <2>6. bracket' \subseteq UNION {Legs(e) : e \in live'}
    BY <2>1 DEF RunnerTypes, RunnerTypeOK
  <2> QED BY <2>1, <2>2, <2>4, <2>5, <2>6 DEF RunnerTypes, RunnerTypeOK, Legs
<1>8. ASSUME NEW t \in EvalTicks, TickPlaced(t) PROVE RunnerTypes'
  <2>1. /\ evalTick[t].pc = "placed" /\ held' = evalTick[t].e /\ monitors' = monitors \cup {held'}
        /\ evalTick' = [evalTick EXCEPT ![t] = TickFree] /\ UNCHANGED <<running, exchangeVars>>
    BY <1>8 DEF TickPlaced, loopVars
  <2>2. held' \in 1..entries
    BY <2>1 DEF RunnerTypes, PlacedEntered
  <2>3. \A u \in EvalTicks : evalTick'[u] = evalTick[u] \/ evalTick'[u] = TickFree
    BY <2>1 DEF RunnerTypes, PlacedEntered
  <2>4. DOMAIN evalTick' = EvalTicks /\ UNCHANGED <<entries, live, bracket>>
    BY <2>1 DEF RunnerTypes, PlacedEntered, exchangeVars
  <2>5. PlacedEntered'
    BY <1>0, <2>3, <2>4 DEF RunnerTypes, PlacedEntered
  <2>6. \A u \in EvalTicks : evalTick'[u].pc \in {"idle", "candles", "instrument", "placed"}
    BY <1>0, <2>3 DEF RunnerTypes, RunnerTypeOK
  <2>7. RunnerTypeOK'
    <3>1. running' \in BOOLEAN /\ held' \in 0..entries /\ monitors' \subseteq 1..entries
      <4>1. held' \in 0..entries
        BY <1>0, <2>2
      <4>2. running \in BOOLEAN /\ monitors \subseteq 1..entries
        BY DEF RunnerTypes, RunnerTypeOK
      <4> QED BY <2>1, <2>2, <4>1, <4>2
    <3> QED BY <2>4, <2>6, <3>1, RunnerAlone DEF RunnerTypes
  <2> QED BY <2>5, <2>7 DEF RunnerTypes
<1>9. ASSUME NEW e, Watch(e) PROVE RunnerTypes'
  <2>1. /\ UNCHANGED <<running, evalTick, exchangeVars>> /\ monitors' \subseteq monitors /\ held' \in {held, 0}
    BY <1>9 DEF Watch, MonitorStops, MonitorLooks, MonitorSees, MonitorClears, loopVars
  <2> QED BY <1>0, <2>1 DEF RunnerTypes, PlacedEntered, RunnerTypeOK, Legs, exchangeVars
<1>10. ASSUME NEW e, LegFills(e) \/ LegCancelled(e) PROVE RunnerTypes'
  <2>1. /\ UNCHANGED <<running, evalTick, monitors, held, entries>>
        /\ \/ live' = live \ {e} /\ bracket' = bracket \ Legs(e)
           \/ live' = live /\ bracket' \subseteq bracket
    BY <1>10 DEF LegFills, LegCancelled, loopVars, watchVars
  <2>2. bracket' \subseteq UNION {Legs(d) : d \in live'}
    BY <2>1 DEF RunnerTypes, RunnerTypeOK
  <2> QED BY <2>1, <2>2 DEF RunnerTypes, PlacedEntered, RunnerTypeOK, Legs
<1> QED BY <1>1, <1>3, <1>4, <1>5, <1>6, <1>7, <1>8, <1>9, <1>10 DEF RunnerNext, Evaluate

(* The types hold in every state of a worker, calm or not: what rests of a *)
(* bracket is of a live position, and what is placed was entered.          *)
THEOREM RunnerTypeCorrect == RunnerSpec => []RunnerTypeOK
<1>1. RunnerInit => RunnerTypes
  <2>1. DOMAIN TickFree = {"pc", "e"} /\ TickFree.pc = "idle"
    BY DEF TickFree
  <2> SUFFICES ASSUME RunnerInit PROVE RunnerTypes
    OBVIOUS
  <2>2. DOMAIN evalTick = EvalTicks /\ \A t \in EvalTicks : evalTick[t] = TickFree
    BY DEF RunnerInit
  <2>3. PlacedEntered
    BY <2>1, <2>2 DEF PlacedEntered
  <2>4. RunnerTypeOK
    <3>1. running = FALSE /\ held = 0 /\ entries = 0 /\ monitors = {} /\ live = {} /\ bracket = {}
      BY DEF RunnerInit
    <3>2. \A t \in EvalTicks : evalTick[t].pc \in {"idle", "candles", "instrument", "placed"}
      BY <2>1, <2>2
    <3>3. entries \in 0..MaxEntries /\ held \in 0..entries
      BY <3>1, RunnerAssumption
    <3> QED BY <3>1, <3>2, <3>3 DEF RunnerTypeOK
  <2> QED BY <2>3, <2>4 DEF RunnerTypes
<1>2. RunnerTypes /\ [RunnerNext]_runnerVars => RunnerTypes'
  BY RunnerTypesKept
<1>3. RunnerTypes => RunnerTypeOK
  BY DEF RunnerTypes
<1> QED BY <1>1, <1>2, <1>3, PTL DEF RunnerSpec


-----------------------------------------------------------------------------
(* The migration tool.  A transaction of PostgreSQL changes the table and  *)
(* the version together; in SQLite each statement has its own invariant,   *)
(* and between the drop of the trades and the rename of their copy the     *)
(* copy is what holds every trade.                                         *)
MigrationsSpec == MigrationsInit /\ [][MigrationsNext]_migrationVars

MigrationsTyped ==
  /\ DOMAIN tool = {"cmd", "at", "pg", "lite", "tx"} /\ DOMAIN tool.tx = {"version", "strategies"}
  /\ DOMAIN pg = {"version", "strategies"}
  /\ DOMAIN lite = {"file", "marks", "version", "trades", "rows", "backup", "saved"}

(* What the transaction will leave, statement by statement.                *)
PgTogether ==
  /\ pg.version = 1 <=> pg.strategies
  /\ tool.at \in {"pgRecord", "pgCommit"} => (tool.tx.strategies <=> ~Undoes)
  /\ tool.at = "pgCommit" => (tool.tx.version = 1 <=> tool.tx.strategies)

(* The column is there before it is recorded, and is unrecorded last.      *)
RecordedLast ==
  /\ tool.at = "record" => lite.trades = "new"
  /\ ~cut /\ tool.at # "unrecord" => (lite.version = 2 => lite.trades # "old")

(* A rollback without the server keeps every trade, in the table or in     *)
(* its copy.                                                               *)
TradesKept ==
  /\ tool.at \in {"backup", "copy", "drop", "rename"} => Undoes
  /\ ~mixed /\ Undoes => store = "off"
  /\ ~mixed /\ ~cut =>
       /\ tool.at # "rename" => lite.rows = noted
       /\ tool.at \in {"drop", "rename"} => lite.saved = noted

MigrationsInv == MigrationsTyped /\ PgTogether /\ RecordedLast /\ TradesKept

LEMMA ToolMoves ==
  ASSUME MigrationsTyped, NEW at, ToolGoes(at)
  PROVE  /\ DOMAIN tool' = DOMAIN tool /\ DOMAIN tool'.tx = {"version", "strategies"}
         /\ tool'.at = at /\ tool'.cmd = tool.cmd /\ tool'.tx = tool.tx /\ (Undoes' <=> Undoes)
  BY DEF MigrationsTyped, ToolGoes, Undoes

LEMMA ToolIsOver ==
  ASSUME ToolEnds
  PROVE  /\ DOMAIN tool' = {"cmd", "at", "pg", "lite", "tx"} /\ DOMAIN tool'.tx = {"version", "strategies"}
         /\ tool'.at = "idle" /\ ~Undoes'
  BY DEF ToolEnds, NoTool, Undoes

LEMMA MigrationsInitially == MigrationsInit => MigrationsInv
<1> SUFFICES ASSUME MigrationsInit PROVE MigrationsInv
  OBVIOUS
<1>1. /\ DOMAIN tool = {"cmd", "at", "pg", "lite", "tx"} /\ DOMAIN tool.tx = {"version", "strategies"}
      /\ tool.at = "idle" /\ tool.cmd = "none"
  BY DEF MigrationsInit, NoTool
<1>2. DOMAIN pg = {"version", "strategies"} /\ pg.version = 0 /\ pg.strategies = FALSE
  BY DEF MigrationsInit
<1>3. /\ DOMAIN lite = {"file", "marks", "version", "trades", "rows", "backup", "saved"}
      /\ lite.version = 0 /\ lite.rows = noted
  <2>1. noted \in {0, 1}
    BY DEF MigrationsInit
  <2>2. CASE noted = 0
    BY <2>2 DEF MigrationsInit, Unfiled
  <2>3. CASE noted = 1
    BY <2>3 DEF MigrationsInit, Unfiled
  <2> QED BY <2>1, <2>2, <2>3
<1> QED BY <1>1, <1>2, <1>3 DEF MigrationsInv, MigrationsTyped, PgTogether, RecordedLast, TradesKept, Undoes

-----------------------------------------------------------------------------
(* What the command and the server do to mixed.                            *)
Mixes == mixed' = (mixed \/ (store' # "off" /\ tool'.cmd = "rollback"))

LEMMA RollbackAlone ==
  ASSUME Mixes
  PROVE  (~mixed' => ~mixed) /\ (~mixed' /\ Undoes' => store' = "off")
  BY DEF Mixes, Undoes

(* A command that is over claims less.                                     *)
LEMMA ToolEnding ==
  ASSUME MigrationsInv, Mixes, ToolEnds, DOMAIN pg' = DOMAIN pg, pg'.version = 1 <=> pg'.strategies,
         DOMAIN lite' = DOMAIN lite, lite'.rows = lite.rows, noted' = noted,
         cut => cut', tool.at = "rename" => cut',
         ~cut' => (lite'.version = 2 => lite'.trades # "old")
  PROVE  MigrationsInv'
<1>1. MigrationsTyped'
  BY ToolIsOver DEF MigrationsInv, MigrationsTyped
<1>2. PgTogether' /\ RecordedLast'
  BY ToolIsOver DEF PgTogether, RecordedLast
<1>3. TradesKept'
  BY ToolIsOver, RollbackAlone DEF MigrationsInv, TradesKept
<1> QED BY <1>1, <1>2, <1>3 DEF MigrationsInv

(* A command that goes on, with what it did to SQLite.                     *)
LEMMA ToolGoing ==
  ASSUME MigrationsInv, Mixes, NEW at, ToolGoes(at), at \notin {"pgRecord", "pgCommit"},
         UNCHANGED <<pg, store, noted>>, cut' <=> cut, DOMAIN lite' = DOMAIN lite,
         at = "record" => lite'.trades = "new",
         ~cut /\ at # "unrecord" => (lite'.version = 2 => lite'.trades # "old"),
         at \in {"backup", "copy", "drop", "rename"} => Undoes,
         ~mixed /\ ~cut /\ at # "rename" => lite'.rows = noted,
         ~mixed /\ ~cut /\ at \in {"drop", "rename"} => lite'.saved = noted
  PROVE  MigrationsInv'
<1>0. MigrationsTyped
  BY DEF MigrationsInv
<1>1. MigrationsTyped'
  BY <1>0, ToolMoves DEF MigrationsTyped
<1>2. PgTogether'
  BY <1>0, ToolMoves DEF MigrationsInv, PgTogether
<1>3. RecordedLast' /\ TradesKept'
  BY <1>0, ToolMoves, RollbackAlone DEF MigrationsInv, RecordedLast, TradesKept
<1> QED BY <1>1, <1>2, <1>3 DEF MigrationsInv

(* A command that is where SQLite's tables are as they were.               *)
LEMMA ToolElsewhere ==
  ASSUME MigrationsInv, Mixes, UNCHANGED <<pg, store, noted, cut>>, DOMAIN tool' = DOMAIN tool,
         DOMAIN tool'.tx = {"version", "strategies"},
         DOMAIN lite' = DOMAIN lite, lite'.version = lite.version, lite'.trades = lite.trades, lite'.rows = lite.rows,
         tool.at \notin {"rename", "unrecord"},
         tool'.at \notin {"record", "backup", "copy", "drop", "rename", "unrecord"},
         tool'.at \in {"pgRecord", "pgCommit"} => (tool'.tx.strategies <=> ~Undoes'),
         tool'.at = "pgCommit" => (tool'.tx.version = 1 <=> tool'.tx.strategies)
  PROVE  MigrationsInv'
<1>1. MigrationsTyped'
  BY DEF MigrationsInv, MigrationsTyped
<1>2. PgTogether'
  BY DEF MigrationsInv, PgTogether
<1>3. RecordedLast' /\ TradesKept'
  BY RollbackAlone DEF MigrationsInv, RecordedLast, TradesKept
<1> QED BY <1>1, <1>2, <1>3 DEF MigrationsInv

-----------------------------------------------------------------------------
LEMMA PgSteps ==
  ASSUME MigrationsInv, Mixes,
         \/ \E cmd \in {"migrate", "rollback", "version"} : RunTool(cmd)
         \/ GetPostgresVersion \/ GetSqliteVersion \/ PgSql \/ PgRecord \/ PgCommit
  PROVE  MigrationsInv'
<1>0. /\ DOMAIN tool = {"cmd", "at", "pg", "lite", "tx"} /\ DOMAIN tool.tx = {"version", "strategies"}
      /\ DOMAIN pg = {"version", "strategies"}
      /\ DOMAIN lite = {"file", "marks", "version", "trades", "rows", "backup", "saved"}
  BY DEF MigrationsInv, MigrationsTyped
<1>1. ASSUME NEW cmd, RunTool(cmd)
      PROVE  MigrationsInv'
  <2>1. tool.at = "idle" /\ UNCHANGED <<pg, lite, store, noted, cut>>
    BY <1>1 DEF RunTool, historyFiles
  <2>2. DOMAIN tool' = DOMAIN tool /\ DOMAIN tool'.tx = {"version", "strategies"} /\ tool'.at = "pgVersion"
    BY <1>0, <1>1 DEF RunTool, NoTool
  <2> QED BY <2>1, <2>2, ToolElsewhere
<1>2. CASE GetPostgresVersion
  <2>1. tool.at = "pgVersion" /\ UNCHANGED <<pg, lite, store, noted, cut>>
    BY <1>2 DEF GetPostgresVersion, ToolAt
  <2>2. DOMAIN tool' = DOMAIN tool /\ DOMAIN tool'.tx = {"version", "strategies"} /\ tool'.at = "liteVersion"
    BY <1>0, <1>2 DEF GetPostgresVersion
  <2> QED BY <2>1, <2>2, ToolElsewhere
<1>3. CASE GetSqliteVersion
  <2>1. tool.at = "liteVersion" /\ UNCHANGED <<pg, store, noted, cut>>
    BY <1>3 DEF GetSqliteVersion, ToolAt
  <2>2. lite' = [lite EXCEPT !.marks = lite.file]
    BY <1>3 DEF GetSqliteVersion
  <2>3. \E seen : \/ tool' = [tool EXCEPT !.at = "pgSql", !.lite = seen, !.tx = pg]
                  \/ tool' = [tool EXCEPT !.at = "lite", !.lite = seen] \/ tool' = NoTool
    BY <1>3 DEF GetSqliteVersion
  <2>4. DOMAIN tool' = DOMAIN tool /\ DOMAIN tool'.tx = {"version", "strategies"} /\ tool'.at \in {"pgSql", "lite", "idle"}
    <3>1. CASE tool' = NoTool
      BY <1>0, <3>1 DEF NoTool
    <3>2. ASSUME NEW seen, tool' = [tool EXCEPT !.at = "pgSql", !.lite = seen, !.tx = pg]
          PROVE  DOMAIN tool' = DOMAIN tool /\ tool'.tx = pg /\ tool'.at = "pgSql"
      BY <1>0, <3>2
    <3>3. ASSUME NEW seen, tool' = [tool EXCEPT !.at = "lite", !.lite = seen]
          PROVE  DOMAIN tool' = DOMAIN tool /\ tool'.tx = tool.tx /\ tool'.at = "lite"
      BY <1>0, <3>3
    <3> QED BY <1>0, <2>3, <3>1, <3>2, <3>3
  <2>5. /\ DOMAIN lite' = DOMAIN lite /\ lite'.version = lite.version /\ lite'.trades = lite.trades
        /\ lite'.rows = lite.rows
    BY <1>0, <2>2
  <2> QED BY <2>1, <2>4, <2>5, ToolElsewhere
<1>4. CASE PgSql
  <2>1. tool.at = "pgSql" /\ UNCHANGED <<pg, lite, store, noted>>
    BY <1>4 DEF PgSql, ToolAt
  <2>2. CASE Refuses(FALSE)
    <3>1. ToolEnds /\ (cut' <=> cut)
      BY <2>2 DEF Refuses
    <3>2. ~cut' => (lite'.version = 2 => lite'.trades # "old")
      BY <2>1, <3>1 DEF MigrationsInv, RecordedLast
    <3>3. pg'.version = 1 <=> pg'.strategies
      BY <2>1 DEF MigrationsInv, PgTogether
    <3> QED BY <2>1, <3>1, <3>2, <3>3, ToolEnding
  <2>3. CASE tool' = [tool EXCEPT !.at = "pgRecord", !.tx.strategies = ~Undoes] /\ UNCHANGED cut
    <3>1. /\ DOMAIN tool' = DOMAIN tool /\ DOMAIN tool'.tx = {"version", "strategies"} /\ tool'.at = "pgRecord"
          /\ tool'.cmd = tool.cmd /\ tool'.tx.strategies = ~Undoes
      BY <1>0, <2>3
    <3>2. tool'.tx.strategies <=> ~Undoes'
      BY <3>1 DEF Undoes
    <3> QED BY <2>1, <2>3, <3>1, <3>2, ToolElsewhere
  <2> QED BY <1>4, <2>2, <2>3 DEF PgSql
<1>5. CASE PgRecord
  <2>1. tool.at = "pgRecord" /\ UNCHANGED <<pg, lite, store, noted, cut>>
    BY <1>5 DEF PgRecord, ToolAt
  <2>2. /\ DOMAIN tool' = DOMAIN tool /\ DOMAIN tool'.tx = {"version", "strategies"} /\ tool'.at = "pgCommit"
        /\ tool'.cmd = tool.cmd /\ tool'.tx.strategies = tool.tx.strategies
        /\ tool'.tx.version = IF Undoes THEN 0 ELSE 1
    BY <1>0, <1>5 DEF PgRecord
  <2>3. (tool'.tx.strategies <=> ~Undoes') /\ (tool'.tx.version = 1 <=> tool'.tx.strategies)
    BY <2>1, <2>2 DEF MigrationsInv, PgTogether, Undoes
  <2> QED BY <2>1, <2>2, <2>3, ToolElsewhere
<1>6. CASE PgCommit
  <2>1. tool.at = "pgCommit" /\ UNCHANGED <<lite, store, noted, cut>> /\ pg' = tool.tx
    BY <1>6 DEF PgCommit, ToolAt, ThenLite, Goes, Finishes
  <2>2. pg'.version = 1 <=> pg'.strategies
    BY <2>1 DEF MigrationsInv, PgTogether
  <2>3. ToolGoes("lite") \/ ToolEnds
    BY <1>6 DEF PgCommit, ThenLite, Goes, Finishes
  <2>4. DOMAIN tool' = DOMAIN tool /\ DOMAIN tool'.tx = {"version", "strategies"} /\ tool'.at \in {"lite", "idle"}
    BY <1>0, <2>3, ToolMoves, ToolIsOver DEF MigrationsInv
  <2>5. MigrationsTyped' /\ PgTogether'
    BY <1>0, <2>1, <2>2, <2>4 DEF MigrationsTyped, PgTogether
  <2>6. RecordedLast' /\ TradesKept'
    BY <2>1, <2>4, RollbackAlone DEF MigrationsInv, RecordedLast, TradesKept
  <2> QED BY <2>5, <2>6 DEF MigrationsInv
<1> QED BY <1>1, <1>2, <1>3, <1>4, <1>5, <1>6

-----------------------------------------------------------------------------
(* The statements of SQLite, of a migration and of a rollback.             *)
LEMMA LiteSteps ==
  ASSUME MigrationsInv, Mixes,
         \/ LiteMigrates \/ LiteAlters \/ LiteRecords
         \/ LiteUndoes \/ LiteBackup \/ LiteCopies \/ LiteDrops \/ LiteRenames \/ LiteUnrecords
  PROVE  MigrationsInv'
<1>0. /\ DOMAIN lite = {"file", "marks", "version", "trades", "rows", "backup", "saved"}
      /\ DOMAIN tool = {"cmd", "at", "pg", "lite", "tx"}
  BY DEF MigrationsInv, MigrationsTyped
<1>a. UNCHANGED <<pg, store, noted>> /\ (cut => cut') /\ (pg'.version = 1 <=> pg'.strategies)
  <2>1. UNCHANGED <<pg, store, noted>>
    BY DEF LiteMigrates, LiteAlters, LiteRecords, LiteUndoes, LiteBackup, LiteCopies, LiteDrops, LiteRenames,
           LiteUnrecords, ToolAt
  <2>2. cut => cut'
    BY DEF LiteMigrates, LiteAlters, LiteRecords, LiteUndoes, LiteBackup, LiteCopies, LiteDrops, LiteRenames,
           LiteUnrecords, Goes, Finishes, Refuses
  <2> QED BY <2>1, <2>2 DEF MigrationsInv, PgTogether
<1>1. CASE LiteMigrates
  <2>1. /\ DOMAIN lite' = DOMAIN lite /\ lite'.rows = lite.rows /\ lite'.trades = lite.trades
        /\ lite'.version = lite.version \/ (lite'.version = 2 /\ lite.trades = "none")
        /\ tool.at = "lite" /\ (cut' <=> cut) /\ (ToolGoes("alter") \/ ToolEnds)
    BY <1>0, <1>1 DEF LiteMigrates, ToolAt, Goes, Finishes, Refuses
  <2>2. ~cut => (lite'.version = 2 => lite'.trades # "old")
    BY <2>1 DEF MigrationsInv, RecordedLast
  <2>3. ~mixed /\ ~cut => lite'.rows = noted
    BY <2>1 DEF MigrationsInv, TradesKept
  <2> QED BY <1>a, <2>1, <2>2, <2>3, ToolEnding, ToolGoing
<1>2. CASE LiteAlters
  <2>1. /\ DOMAIN lite' = DOMAIN lite /\ lite'.rows = lite.rows /\ lite'.trades = "new"
        /\ tool.at = "alter" /\ (cut' <=> cut) /\ (ToolGoes("record") \/ ToolEnds)
    BY <1>0, <1>2 DEF LiteAlters, ToolAt, Goes, Refuses
  <2>2. ~mixed /\ ~cut => lite'.rows = noted
    BY <2>1 DEF MigrationsInv, TradesKept
  <2> QED BY <1>a, <2>1, <2>2, ToolEnding, ToolGoing
<1>3. CASE LiteRecords
  <2>1. /\ DOMAIN lite' = DOMAIN lite /\ lite'.rows = lite.rows /\ lite'.trades = lite.trades
        /\ tool.at = "record" /\ (cut' <=> cut) /\ ToolEnds
    BY <1>0, <1>3 DEF LiteRecords, ToolAt, Finishes
  <2>2. lite'.trades # "old"
    BY <2>1 DEF MigrationsInv, RecordedLast
  <2> QED BY <1>a, <2>1, <2>2, ToolEnding
<1>4. CASE LiteUndoes
  <2>1. /\ DOMAIN lite' = DOMAIN lite /\ lite'.rows = lite.rows /\ lite'.trades = lite.trades
        /\ lite'.version = lite.version \/ lite'.version = 0
        /\ tool.at = "lite" /\ (cut' <=> cut) /\ Undoes /\ (ToolGoes("backup") \/ ToolEnds)
    BY <1>0, <1>4 DEF LiteUndoes, ToolAt, Goes, Finishes
  <2>2. ~cut => (lite'.version = 2 => lite'.trades # "old")
    BY <2>1 DEF MigrationsInv, RecordedLast
  <2>3. ~mixed /\ ~cut => lite'.rows = noted
    BY <2>1 DEF MigrationsInv, TradesKept
  <2> QED BY <1>a, <2>1, <2>2, <2>3, ToolEnding, ToolGoing
<1>5. CASE LiteBackup
  <2>1. /\ DOMAIN lite' = DOMAIN lite /\ lite'.rows = lite.rows /\ lite'.trades = lite.trades
        /\ lite'.version = lite.version
        /\ tool.at = "backup" /\ (cut' <=> cut) /\ (ToolGoes("copy") \/ ToolEnds)
    BY <1>0, <1>5 DEF LiteBackup, ToolAt, Goes, Refuses
  <2>2. ~cut => (lite'.version = 2 => lite'.trades # "old")
    BY <2>1 DEF MigrationsInv, RecordedLast
  <2>3. Undoes /\ (~mixed /\ ~cut => lite'.rows = noted)
    BY <2>1 DEF MigrationsInv, TradesKept
  <2> QED BY <1>a, <2>1, <2>2, <2>3, ToolEnding, ToolGoing
<1>6. CASE LiteCopies
  <2>1. /\ DOMAIN lite' = DOMAIN lite /\ lite'.rows = lite.rows /\ lite'.trades = lite.trades
        /\ lite'.version = lite.version /\ lite'.saved = lite.rows
        /\ tool.at = "copy" /\ (cut' <=> cut) /\ ToolGoes("drop")
    BY <1>0, <1>6 DEF LiteCopies, ToolAt, Goes
  <2>2. ~cut => (lite'.version = 2 => lite'.trades # "old")
    BY <2>1 DEF MigrationsInv, RecordedLast
  <2>3. Undoes /\ (~mixed /\ ~cut => lite'.rows = noted)
    BY <2>1 DEF MigrationsInv, TradesKept
  <2> QED BY <1>a, <2>1, <2>2, <2>3, ToolGoing
<1>7. CASE LiteDrops
  <2>1. /\ DOMAIN lite' = DOMAIN lite /\ lite'.trades = "none" /\ lite'.saved = lite.saved
        /\ tool.at = "drop" /\ (cut' <=> cut) /\ ToolGoes("rename")
    BY <1>0, <1>7 DEF LiteDrops, ToolAt, Goes
  <2>2. Undoes /\ (~mixed /\ ~cut => lite'.saved = noted)
    BY <2>1 DEF MigrationsInv, TradesKept
  <2> QED BY <1>a, <2>1, <2>2, ToolGoing
<1>8. CASE LiteRenames
  <2>1. CASE lite.trades # "none"
    <3>1. cut' /\ ToolEnds /\ lite' = lite
      BY <1>8, <2>1 DEF LiteRenames, Refuses
    <3> QED BY <1>a, <3>1, ToolEnding
  <2>2. CASE lite.trades = "none"
    <3>1. /\ DOMAIN lite' = DOMAIN lite /\ lite'.rows = lite.saved
          /\ tool.at = "rename" /\ (cut' <=> cut) /\ ToolGoes("unrecord")
      BY <1>0, <1>8, <2>2 DEF LiteRenames, ToolAt, Goes
    <3>2. ~mixed /\ ~cut => lite'.rows = noted
      BY <3>1 DEF MigrationsInv, TradesKept
    <3> QED BY <1>a, <3>1, <3>2, ToolGoing
  <2> QED BY <2>1, <2>2
<1>9. CASE LiteUnrecords
  <2>1. /\ DOMAIN lite' = DOMAIN lite /\ lite'.rows = lite.rows /\ lite'.version = 0
        /\ tool.at = "unrecord" /\ (cut' <=> cut) /\ ToolEnds
    BY <1>0, <1>9 DEF LiteUnrecords, ToolAt, Finishes
  <2> QED BY <1>a, <2>1, ToolEnding
<1> QED BY <1>1, <1>2, <1>3, <1>4, <1>5, <1>6, <1>7, <1>8, <1>9

-----------------------------------------------------------------------------
(* A failure between two statements of SQLite is what cut records.         *)
LEMMA ToolFailing ==
  ASSUME MigrationsInv, Mixes, ToolFails
  PROVE  MigrationsInv'
<1>1. UNCHANGED <<pg, lite, store, noted>> /\ ToolEnds
  BY DEF ToolFails, historyFiles
<1>2. cut' <=> cut \/ tool.at \in {"record", "copy", "drop", "rename", "unrecord"}
  BY DEF ToolFails
<1>3. ~cut' => (lite'.version = 2 => lite'.trades # "old")
  BY <1>1, <1>2 DEF MigrationsInv, RecordedLast
<1>4. pg'.version = 1 <=> pg'.strategies
  BY <1>1 DEF MigrationsInv, PgTogether
<1> QED BY <1>1, <1>2, <1>3, <1>4, ToolEnding

(* The server makes the table with the column, and records only while it   *)
(* is up: not during a rollback.                                           *)
LEMMA StoreSteps ==
  ASSUME MigrationsInv, Mixes, StoreOpens \/ StoreCloses \/ StoreRecords
  PROVE  MigrationsInv'
<1>0. DOMAIN lite = {"file", "marks", "version", "trades", "rows", "backup", "saved"}
  BY DEF MigrationsInv, MigrationsTyped
<1>1. UNCHANGED <<pg, tool, cut>>
  BY DEF StoreOpens, StoreCloses, StoreRecords
<1>2. MigrationsTyped'
  BY <1>0, <1>1 DEF MigrationsInv, MigrationsTyped, StoreOpens, StoreCloses, StoreRecords
<1>3. PgTogether'
  BY <1>1 DEF MigrationsInv, PgTogether, Undoes
<1>4. /\ lite'.version = lite.version /\ lite'.saved = lite.saved
      /\ lite'.trades = lite.trades \/ lite'.trades = "new"
  BY <1>0 DEF StoreOpens, StoreCloses, StoreRecords
<1>5. RecordedLast'
  BY <1>1, <1>4 DEF MigrationsInv, RecordedLast
<1>6. TradesKept'
  <2>1. tool.at \in {"backup", "copy", "drop", "rename"} => Undoes
    BY DEF MigrationsInv, TradesKept
  <2>2. CASE StoreOpens \/ StoreCloses
    <3>1. lite'.rows = lite.rows /\ noted' = noted
      BY <1>0, <2>2 DEF StoreOpens, StoreCloses
    <3> QED BY <1>1, <1>4, <2>1, <3>1, RollbackAlone DEF MigrationsInv, TradesKept, Undoes
  <2>3. CASE StoreRecords
    <3>1. lite'.rows = lite.rows + 1 /\ noted' = noted + 1 /\ store' = store /\ store # "off"
      BY <1>0, <2>3 DEF StoreRecords
    <3>2. ~mixed' => ~mixed /\ ~Undoes
      BY <1>1, <3>1, RollbackAlone DEF Undoes
    <3> QED BY <1>1, <1>4, <2>1, <3>1, <3>2 DEF MigrationsInv, TradesKept, Undoes
  <2> QED BY <2>2, <2>3
<1> QED BY <1>2, <1>3, <1>5, <1>6 DEF MigrationsInv

LEMMA MigrationsStep == MigrationsInv /\ [MigrationsNext]_migrationVars => MigrationsInv'
<1>1. ASSUME MigrationsInv, UNCHANGED migrationVars
      PROVE  MigrationsInv'
  BY <1>1 DEF MigrationsInv, MigrationsTyped, PgTogether, RecordedLast, TradesKept, Undoes, migrationVars, historyFiles
<1>2. ASSUME MigrationsInv, MigrationsNext
      PROVE  MigrationsInv'
  BY <1>2, PgSteps, LiteSteps, ToolFailing, StoreSteps DEF MigrationsNext, Mixes
<1> QED BY <1>1, <1>2

(* After any sequence of migrations and rollbacks, failing or dying where  *)
(* they may, PostgreSQL's version is that of its tables; and as long as no *)
(* command ended between two statements of SQLite, recorded means there,   *)
(* and no trade is lost unless the server was up during a rollback         *)
(* (run-migrations.ts).                                                    *)
THEOREM VersionsTell == MigrationsSpec => []SchemaAsRecorded
<1>1. MigrationsSpec => []MigrationsInv
  BY MigrationsInitially, MigrationsStep, PTL DEF MigrationsSpec
<1>2. MigrationsInv => SchemaAsRecorded
  BY DEF MigrationsInv, PgTogether, RecordedLast, TradesKept, SchemaAsRecorded
<1> QED BY <1>1, <1>2, PTL

=============================================================================
