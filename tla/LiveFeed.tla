------------------------------- MODULE LiveFeed -------------------------------
(***************************************************************************)
(* Realtime values: the WebSocket of the API (backend/app/api/routes/      *)
(* ws.py) and the live client of the web application (frontend/src/api/    *)
(* live.ts), for one point.  Readings are numbered; the database promises  *)
(* what PointValues says, which Recorder implements: the row may lag       *)
(* behind what was published.                                              *)
(*                                                                         *)
(* The server closes with 4401 a connection whose token expires, and       *)
(* refuses the handshake of one that has expired: HTTP 403, which a        *)
(* browser reports as 1006.  The task _pump that relays the values ends    *)
(* with an error of Redis, and nothing looks after it.                     *)
(***************************************************************************)
EXTENDS Integers, Sequences

CONSTANTS
  Widgets,       \* listeners of the point
  FeedReadings,   \* bound on the readings
  MaxChanges,    \* bound on the listeners that come and go
  MaxTroubles    \* bound on lost connections, expiries and failed refreshes

VARIABLES
  published, row,     \* last reading on the channel; reading in point_latest
  cookie,             \* is the access token of the browser valid?
  (* client *)
  listeners, alarms,  \* widgets of the point; is there an alarm listener?
  socket,             \* "none", "connecting", "open"
  retry, timer,       \* is cancelRetry set? is a timer running?
  reconnecting,
  shown,              \* value each widget shows
  (* the connection *)
  up, down,           \* messages to the server, values to the client
  closing,            \* 0, or the code the client is about to see
  (* server: Connection *)
  conn,               \* [alive, pump, expired, subscribed, task, snapshot, since, sent]
  queue,              \* messages of pubsub that _pump has not read
  changes, troubles,
  (* history *)
  lag,                \* was the last value sent older than one it had to bring?
  late                \* widgets that joined a point already subscribed

client == <<listeners, alarms, socket, retry, timer, reconnecting, shown>>
wire == <<up, down, closing>>
server == <<conn, queue>>
feedVars == <<published, row, cookie, client, wire, server, changes, troubles, lag, late>>

NoConn == [alive |-> FALSE, pump |-> FALSE, expired |-> FALSE, subscribed |-> FALSE,
           task |-> "idle",
           snapshot |-> 0, since |-> 0, sent |-> 0]

Database == INSTANCE PointValues WITH taken <- published, latest <- row, samples <- {}

FeedInit ==
  /\ Database!Init
  /\ cookie = TRUE
  /\ listeners = {} /\ alarms = FALSE
  /\ socket = "none" /\ retry = FALSE /\ timer = FALSE /\ reconnecting = FALSE
  /\ shown = [w \in Widgets |-> 0]
  /\ up = <<>> /\ down = <<>> /\ closing = 0
  /\ conn = NoConn /\ queue = <<>>
  /\ changes = 0 /\ troubles = 0
  /\ lag = FALSE /\ late = {}

Trouble == troubles < MaxTroubles /\ troubles' = troubles + 1
Change == changes < MaxChanges /\ changes' = changes + 1

-----------------------------------------------------------------------------
(* The collector publishes a reading, and flushes its rows. *)
Publish ==
  /\ published < FeedReadings
  /\ Database!Take
  /\ queue' = IF conn.subscribed THEN Append(queue, published + 1) ELSE queue
  /\ UNCHANGED <<cookie, client, wire, conn, changes, troubles, lag, late>>

Flush ==
  /\ row < published
  /\ Database!Write
  /\ UNCHANGED <<cookie, client, wire, server, changes, troubles, lag, late>>

-----------------------------------------------------------------------------
Wanted == listeners /= {} \/ alarms

(* connect() *)
Connect ==
  /\ socket' = "connecting"
  /\ retry' = FALSE /\ reconnecting' = FALSE
  /\ up' = <<>> /\ down' = <<>> /\ closing' = 0

(* disconnect(): the server finds its side closed and drops it. *)
Disconnect ==
  /\ socket' = "none" /\ retry' = FALSE /\ timer' = FALSE
  /\ up' = <<>> /\ down' = <<>> /\ closing' = 0
  /\ conn' = NoConn /\ queue' = <<>>
  /\ UNCHANGED reconnecting

(* Nothing is under way that would bring a connection. *)
Unconnected == socket = "none" /\ ~retry /\ ~reconnecting

Say(request) == up' = IF socket = "open" THEN Append(up, request) ELSE up

(* subscribe(): the first listener of the point asks the server. *)
Listen(w) ==
  /\ w \notin listeners /\ Change
  /\ listeners' = listeners \cup {w}
  /\ shown' = [shown EXCEPT ![w] = 0]
  /\ late' = IF listeners = {} THEN late \ {w} ELSE late \cup {w}
  /\ IF Unconnected
     THEN Connect /\ UNCHANGED timer
     ELSE /\ IF listeners = {} THEN Say("subscribe") ELSE UNCHANGED up
          /\ UNCHANGED <<socket, retry, timer, reconnecting, down, closing>>
  /\ UNCHANGED <<published, row, cookie, alarms, server, troubles, lag>>

Unlisten(w) ==
  /\ w \in listeners /\ Change
  /\ listeners' = listeners \ {w}
  /\ IF listeners = {w} /\ ~alarms
     THEN Disconnect
     ELSE /\ IF listeners = {w} THEN Say("unsubscribe") ELSE UNCHANGED up
          /\ UNCHANGED <<socket, retry, timer, reconnecting, down, closing, server>>
  /\ UNCHANGED <<published, row, cookie, alarms, shown, troubles, lag, late>>

(* subscribeAlarms() *)
ListenAlarms ==
  /\ ~alarms /\ Change
  /\ alarms' = TRUE
  /\ IF Unconnected
     THEN Connect /\ UNCHANGED timer
     ELSE UNCHANGED <<socket, retry, timer, reconnecting, wire>>
  /\ UNCHANGED <<published, row, cookie, listeners, shown, server, troubles, lag, late>>

UnlistenAlarms ==
  /\ alarms /\ Change
  /\ alarms' = FALSE
  /\ IF listeners = {}
     THEN Disconnect
     ELSE UNCHANGED <<socket, retry, timer, reconnecting, wire, server>>
  /\ UNCHANGED <<published, row, cookie, listeners, shown, troubles, lag, late>>

(* What onopen asks for. *)
Resumed == IF listeners /= {} THEN <<"subscribe">> ELSE <<>>

OnOpen ==
  /\ socket = "connecting" /\ conn.alive /\ closing = 0
  /\ socket' = "open"
  /\ up' = Resumed
  /\ UNCHANGED <<published, row, cookie, listeners, alarms, retry, timer, reconnecting, shown,
                 down, closing, server, changes, troubles, lag, late>>

(* dispatch() *)
OnMessage ==
  /\ socket = "open" /\ down /= <<>>
  /\ down' = Tail(down)
  /\ shown' = [w \in Widgets |-> IF w \in listeners THEN Head(down) ELSE shown[w]]
  /\ late' = late \ listeners
  /\ UNCHANGED <<published, row, cookie, listeners, alarms, socket, retry, timer, reconnecting,
                 up, closing, server, changes, troubles, lag>>

(* onclose, then reconnect() up to its wait: for the refresh after 4401,   *)
(* for a timer otherwise.                                                  *)
OnClose ==
  /\ closing /= 0 /\ down = <<>>
  /\ socket' = "none"
  /\ up' = <<>> /\ closing' = 0
  /\ IF Wanted /\ closing = 4401
     THEN reconnecting' = TRUE /\ UNCHANGED <<retry, timer>>
     ELSE /\ retry' = Wanted /\ timer' = Wanted
          /\ UNCHANGED reconnecting
  /\ UNCHANGED <<published, row, cookie, listeners, alarms, shown, down, server,
                 changes, troubles, lag, late>>

(* The answer of POST /auth/refresh. *)
RefreshEnds(renewed) ==
  /\ reconnecting
  /\ IF renewed THEN cookie' = TRUE /\ UNCHANGED troubles ELSE Trouble /\ UNCHANGED cookie
  /\ IF renewed /\ Wanted
     THEN Connect /\ UNCHANGED timer
     ELSE /\ reconnecting' = FALSE /\ retry' = TRUE /\ timer' = TRUE
          /\ UNCHANGED <<socket, wire>>
  /\ UNCHANGED <<published, row, listeners, alarms, shown, server, changes, lag, late>>

(* Mutant of RetryCleared: a timer nobody wants leaves cancelRetry set. *)
RetryClearedNot == TRUE

RetryCleared == FALSE

TimerFires ==
  /\ timer
  /\ timer' = FALSE
  /\ IF Wanted
     THEN Connect
     ELSE retry' = RetryCleared /\ UNCHANGED <<socket, reconnecting, wire>>
  /\ UNCHANGED <<published, row, cookie, listeners, alarms, shown, server, changes, troubles, lag,
                 late>>

-----------------------------------------------------------------------------
(* realtime(): the handshake, accepted or refused. *)
Accept ==
  /\ socket = "connecting" /\ ~conn.alive /\ closing = 0
  /\ IF cookie
     THEN conn' = [NoConn EXCEPT !.alive = TRUE, !.pump = TRUE] /\ UNCHANGED closing
     ELSE closing' = 1006 /\ UNCHANGED conn
  /\ UNCHANGED <<published, row, cookie, client, up, down, queue, changes, troubles, lag, late>>

(* Mutant of Subscribed: the row is read before Redis is subscribed. *)
SubscribedLate == [conn EXCEPT !.task = "snapshot", !.snapshot = row, !.since = published]

(* _subscribe, up to the Redis subscription. *)
Subscribed == [conn EXCEPT !.task = "reading", !.subscribed = TRUE, !.since = published, !.sent = 0]

ReceiveSubscribe ==
  /\ conn.alive /\ conn.task = "idle"
  /\ up /= <<>> /\ Head(up) = "subscribe"
  /\ up' = Tail(up)
  /\ conn' = IF conn.subscribed THEN conn ELSE Subscribed
  /\ UNCHANGED <<published, row, cookie, client, down, closing, queue, changes, troubles, lag,
                 late>>

(* History: the newest value sent; is n older than it, or than what was    *)
(* published before the subscription?                                      *)
Best(n) == IF n > conn.sent THEN n ELSE conn.sent
Behind(n) == n < conn.sent \/ n < conn.since

ReadRow ==
  /\ conn.task = "reading"
  /\ conn' = [conn EXCEPT !.task = "snapshot", !.snapshot = row]
  /\ UNCHANGED <<published, row, cookie, client, wire, queue, changes, troubles, lag, late>>

SendRow ==
  /\ conn.task = "snapshot"
  /\ conn' = [conn EXCEPT !.task = "idle", !.subscribed = TRUE, !.sent = Best(conn.snapshot)]
  /\ down' = IF conn.snapshot > 0 THEN Append(down, conn.snapshot) ELSE down
  /\ lag' = Behind(IF conn.snapshot > 0 THEN conn.snapshot ELSE conn.sent)
  /\ UNCHANGED <<published, row, cookie, client, up, closing, queue, changes, troubles, late>>

(* _unsubscribe *)
ReceiveUnsubscribe ==
  /\ conn.alive /\ conn.task = "idle"
  /\ up /= <<>> /\ Head(up) = "unsubscribe"
  /\ up' = Tail(up)
  /\ conn' = [conn EXCEPT !.subscribed = FALSE]
  /\ UNCHANGED <<published, row, cookie, client, down, closing, queue, changes, troubles, lag,
                 late>>

(* _pump: a message goes on to the client, or the token has expired. *)
Pump ==
  /\ conn.pump /\ ~conn.expired /\ closing = 0
  /\ queue /= <<>>
  /\ down' = Append(down, Head(queue))
  /\ queue' = Tail(queue)
  /\ conn' = [conn EXCEPT !.sent = Best(Head(queue))]
  /\ lag' = Behind(Head(queue))
  /\ UNCHANGED <<published, row, cookie, client, up, closing, changes, troubles, late>>

PumpExpires ==
  /\ conn.pump /\ conn.expired /\ closing = 0
  /\ closing' = 4401
  /\ conn' = NoConn /\ queue' = <<>>
  /\ UNCHANGED <<published, row, cookie, client, up, down, changes, troubles, lag, late>>

(* get_message fails: the task ends, the connection stays. *)
PumpFails ==
  /\ conn.pump /\ closing = 0 /\ Trouble
  /\ conn' = [conn EXCEPT !.pump = FALSE]
  /\ UNCHANGED <<published, row, cookie, client, wire, queue, changes, lag, late>>

-----------------------------------------------------------------------------
(* The access token ends, on the open connection too. *)
TokenExpires ==
  /\ cookie /\ Trouble
  /\ cookie' = FALSE
  /\ conn' = [conn EXCEPT !.expired = conn.alive]
  /\ UNCHANGED <<published, row, client, wire, queue, changes, lag, late>>

(* The network or the server drops the connection, with what it carried. *)
Drop ==
  /\ socket /= "none" /\ closing = 0 /\ Trouble
  /\ closing' = 1006
  /\ up' = <<>> /\ down' = <<>>
  /\ conn' = NoConn /\ queue' = <<>>
  /\ UNCHANGED <<published, row, cookie, client, changes, lag, late>>

ClientSteps == OnOpen \/ OnMessage \/ OnClose \/ TimerFires \/ RefreshEnds(TRUE)

ServerSteps ==
  Accept \/ ReceiveSubscribe \/ ReadRow \/ SendRow \/ ReceiveUnsubscribe \/ Pump \/ PumpExpires

FeedNext ==
  \/ Publish \/ Flush
  \/ \E w \in Widgets : Listen(w) \/ Unlisten(w)
  \/ ListenAlarms \/ UnlistenAlarms
  \/ ClientSteps \/ RefreshEnds(FALSE)
  \/ ServerSteps
  \/ PumpFails \/ TokenExpires \/ Drop

FeedSpec == FeedInit /\ [][FeedNext]_feedVars

(* The browser and the server go on; timers fire. *)
FeedFairness == WF_feedVars(ClientSteps) /\ WF_feedVars(ServerSteps)

FairFeedSpec == FeedSpec /\ FeedFairness

-----------------------------------------------------------------------------
(* As long as somebody listens there is one way, and one only, to a        *)
(* connection: a socket, a timer or a refresh under way.  When nobody does *)
(* there is no socket, and at most a refresh that disconnect() could not   *)
(* stop, or the timer it sets (connect, reconnect, disconnect, whatever    *)
(* comes and goes during their waits).                                     *)
Ways == (IF socket /= "none" THEN 1 ELSE 0) + (IF timer THEN 1 ELSE 0)
        + (IF reconnecting THEN 1 ELSE 0)

OneWayBack == Ways <= 1 /\ (IF Wanted THEN Ways = 1 ELSE socket = "none")

(* With a token that is valid the client ends by being connected, and      *)
(* every widget that was there when the point was subscribed by showing    *)
(* the last reading, unless the row of the snapshot was behind what was    *)
(* published, an older value was sent after a newer one (lag), or _pump    *)
(* has ended.                                                              *)
FeedSettles ==
  <>[](Wanted /\ cookie =>
         /\ socket = "open"
         /\ lag \/ ~conn.pump \/ \A w \in listeners \ late : shown[w] = published)

(* "les valeurs se resynchronisent seules": with a session that can be     *)
(* refreshed, the client ends by being connected again.                    *)
Reconnects == <>[](Wanted => socket = "open")
=============================================================================
