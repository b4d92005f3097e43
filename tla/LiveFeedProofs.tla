--------------------------- MODULE LiveFeedProofs ---------------------------
(***************************************************************************)
(* OneWayBack and ShownWhenQuiet, for any number of widgets, readings,     *)
(* changes and troubles.                                                   *)
(*                                                                         *)
(* Neither is inductive.  For the first, a close that the client has yet   *)
(* to see must belong to its socket (Announced), a connection the server   *)
(* holds to a socket of the client (Held), and cancelRetry must tell that  *)
(* a timer is running (Cancellable), since connect() looks at the first    *)
(* and the timer fires whatever it says.  For the second, see FeedInv.     *)
(***************************************************************************)
EXTENDS LiveFeed, SequenceTheorems, TLAPS

Tasks == {"idle", "reading", "snapshot"}

Conns == [alive : BOOLEAN, pump : BOOLEAN, expired : BOOLEAN, subscribed : BOOLEAN, task : Tasks,
          snapshot : Nat, since : Nat, sent : Nat]

ClientTypes ==
  /\ socket \in {"none", "connecting", "open"}
  /\ retry \in BOOLEAN /\ timer \in BOOLEAN /\ reconnecting \in BOOLEAN /\ alarms \in BOOLEAN

ServerTypes ==
  /\ published \in Nat /\ row \in Nat
  /\ conn \in Conns
  /\ queue \in Seq(Nat)

(* Never two ways to a connection, one while somebody listens, and no      *)
(* socket when nobody does.                                                *)
AtMostOne ==
  /\ socket /= "none" => ~timer /\ ~reconnecting
  /\ ~(timer /\ reconnecting)

AtLeastOne == Wanted => socket /= "none" \/ timer \/ reconnecting
Released == ~Wanted => socket = "none"

Cancellable == retry = timer
Announced == closing /= 0 => socket /= "none" /\ ~conn.alive
Held == (conn.alive => socket /= "none") /\ (conn.pump => conn.alive)

WaysApart ==
  /\ ClientTypes
  /\ AtMostOne /\ AtLeastOne /\ Released /\ Cancellable /\ Announced /\ Held

WayInv == ServerTypes /\ WaysApart

USE DEF Conns, Tasks

LEMMA InitWay == FeedInit => WayInv
<1> SUFFICES ASSUME FeedInit PROVE WayInv
  OBVIOUS
<1>1. ClientTypes
  BY DEF FeedInit, ClientTypes
<1>2. ServerTypes
  BY DEF FeedInit, Database!Init, NoConn, ServerTypes
<1>3. ~conn.alive /\ ~conn.pump
  BY DEF FeedInit, NoConn
<1>4. AtMostOne /\ AtLeastOne /\ Released /\ Cancellable
  BY Zenon DEF FeedInit, AtMostOne, AtLeastOne, Released, Wanted, Cancellable
<1>5. Announced /\ Held
  BY <1>3, Zenon DEF FeedInit, Announced, Held
<1> QED
  BY <1>1, <1>2, <1>4, <1>5 DEF WayInv, WaysApart

(* What the server does keeps its part of the types. *)
LEMMA ServerTyped ==
  ASSUME WayInv, [FeedNext]_feedVars
  PROVE  ServerTypes'
<1> USE DEF WayInv, WaysApart, ServerTypes
<1>q. ASSUME queue /= <<>>
      PROVE  Head(queue) \in Nat /\ Tail(queue) \in Seq(Nat)
  BY <1>q
<1>n. NoConn \in Conns /\ <<>> \in Seq(Nat)
  BY DEF NoConn
<1>1. CASE Publish
  BY <1>1 DEF Publish, Database!Take
<1>2. CASE Flush
  BY <1>2 DEF Flush, Database!Write, server
<1>3. ASSUME NEW w \in Widgets, Listen(w) PROVE ServerTypes'
  BY <1>3 DEF Listen, server
<1>4. ASSUME NEW w \in Widgets, Unlisten(w) PROVE ServerTypes'
  BY <1>4, <1>n DEF Unlisten, Disconnect, server
<1>5. CASE ListenAlarms
  BY <1>5 DEF ListenAlarms, server
<1>6. CASE UnlistenAlarms
  BY <1>6, <1>n DEF UnlistenAlarms, Disconnect, server
<1>7. CASE ClientSteps \/ RefreshEnds(FALSE)
  BY <1>7 DEF ClientSteps, OnOpen, OnMessage, OnClose, TimerFires, RefreshEnds, server
<1>a. [NoConn EXCEPT !.alive = TRUE, !.pump = TRUE] \in Conns
  BY <1>n
<1>8. CASE Accept
  <2>1. conn' \in Conns
    <3>1. conn' = conn \/ conn' = [NoConn EXCEPT !.alive = TRUE, !.pump = TRUE]
      BY <1>8, Zenon DEF Accept
    <3> QED
      BY <3>1, <1>a, Zenon
  <2> QED
    BY <1>8, <2>1 DEF Accept
<1>9. CASE ReceiveSubscribe
  BY <1>9 DEF ReceiveSubscribe, Subscribed
<1>10. CASE ReadRow
  BY <1>10 DEF ReadRow
<1>11. CASE SendRow
  BY <1>11 DEF SendRow, Best
<1>12. CASE ReceiveUnsubscribe
  BY <1>12 DEF ReceiveUnsubscribe
<1>13. CASE Pump
  BY <1>13, <1>q DEF Pump, Best
<1>14. CASE PumpExpires
  BY <1>14, <1>n DEF PumpExpires
<1>15. CASE PumpFails
  BY <1>15 DEF PumpFails
<1>16. CASE TokenExpires
  BY <1>16 DEF TokenExpires
<1>17. CASE Drop
  BY <1>17, <1>n DEF Drop
<1>18. CASE UNCHANGED feedVars
  BY <1>18 DEF feedVars, server
<1> QED
  BY <1>1, <1>2, <1>3, <1>4, <1>5, <1>6, <1>7, <1>8, <1>9, <1>10, <1>11, <1>12, <1>13, <1>14,
     <1>15, <1>16, <1>17, <1>18 DEF FeedNext, ServerSteps

(* The connection of the server, where a step leaves it or ends it. *)
LEMMA NoneHeld == ~NoConn.alive /\ ~NoConn.pump
BY DEF NoConn

(* Every step keeps the ways to a connection apart. *)
LEMMA WayStep ==
  ASSUME WayInv, [FeedNext]_feedVars
  PROVE  WaysApart'
<1> USE DEF WayInv, WaysApart, ClientTypes, AtMostOne, AtLeastOne, Released, Wanted, Cancellable,
            Announced, Held
<1>c. conn \in Conns
  BY DEF ServerTypes
<1>1. CASE Publish
  BY <1>1 DEF Publish, client, wire
<1>2. CASE Flush
  BY <1>2 DEF Flush, client, wire, server
<1>3. ASSUME NEW w \in Widgets, Listen(w)
      PROVE  WaysApart'
  BY <1>3 DEF Listen, Unconnected, Connect, server
<1>4. ASSUME NEW w \in Widgets, Unlisten(w)
      PROVE  WaysApart'
  BY <1>4, NoneHeld DEF Unlisten, Disconnect, server
<1>5. CASE ListenAlarms
  BY <1>5 DEF ListenAlarms, Unconnected, Connect, server, wire
<1>6. CASE UnlistenAlarms
  BY <1>6, NoneHeld DEF UnlistenAlarms, Disconnect, server, wire
<1>7. CASE OnOpen
  BY <1>7 DEF OnOpen, server
<1>8. CASE OnMessage
  BY <1>8 DEF OnMessage, server
<1>9. CASE OnClose
  <2>1. ~timer /\ ~retry /\ ~reconnecting /\ ~conn.alive /\ ~conn.pump
    BY <1>9 DEF OnClose
  <2>2. UNCHANGED <<conn, listeners, alarms>> /\ closing' = 0 /\ socket' = "none"
    BY <1>9 DEF OnClose, server
  <2>3. CASE Wanted /\ closing = 4401
    <3>1. reconnecting' = TRUE /\ retry' = retry /\ timer' = timer
      BY <1>9, <2>3 DEF OnClose
    <3> QED
      BY <2>1, <2>2, <3>1
  <2>4. CASE ~(Wanted /\ closing = 4401)
    <3>1. reconnecting' = reconnecting
      BY <1>9, <2>4 DEF OnClose
    <3>2. CASE Wanted
      <4>1. retry' = TRUE /\ timer' = TRUE
        <5> HIDE DEF Wanted
        <5>1. retry' = Wanted /\ timer' = Wanted
          BY <1>9, <2>4 DEF OnClose
        <5> QED
          BY <5>1, <3>2, Zenon
      <4> QED
        BY <2>1, <2>2, <3>1, <4>1
    <3>3. CASE ~Wanted
      <4>1. retry' = FALSE /\ timer' = FALSE
        BY <1>9, <2>4, <3>3 DEF OnClose
      <4> QED
        BY <2>1, <2>2, <3>1, <3>3, <4>1
    <3> QED
      BY <3>2, <3>3
  <2> QED
    BY <2>3, <2>4
<1>10. ASSUME NEW renewed \in BOOLEAN, RefreshEnds(renewed)
       PROVE  WaysApart'
  BY <1>10 DEF RefreshEnds, Connect, server, wire
<1>11. CASE TimerFires
  BY <1>11 DEF TimerFires, RetryCleared, Connect, server, wire
<1>12. CASE Accept
  <2>1. conn' = conn \/ (conn'.alive /\ conn'.pump /\ closing' = closing)
    BY <1>12, NoneHeld DEF Accept, NoConn
  <2>2. socket = "connecting" /\ UNCHANGED client /\ ~conn.alive
    BY <1>12 DEF Accept
  <2>3. ClientTypes' /\ AtMostOne' /\ AtLeastOne' /\ Released' /\ Cancellable'
    BY <2>2 DEF client
  <2>4. Announced'
    BY <1>12, <2>1, <2>2 DEF Accept, client
  <2>5. Held'
    BY <2>1, <2>2 DEF client
  <2> QED
    BY <2>3, <2>4, <2>5
<1>13. CASE ReceiveSubscribe
  BY <1>13, <1>c DEF ReceiveSubscribe, Subscribed, client
<1>14. CASE ReadRow
  BY <1>14, <1>c DEF ReadRow, client, wire
<1>15. CASE SendRow
  BY <1>15, <1>c DEF SendRow, client
<1>16. CASE ReceiveUnsubscribe
  BY <1>16, <1>c DEF ReceiveUnsubscribe, client
<1>17. CASE Pump
  BY <1>17, <1>c DEF Pump, client
<1>18. CASE PumpExpires
  BY <1>18, NoneHeld DEF PumpExpires, client
<1>19. CASE PumpFails
  BY <1>19, <1>c DEF PumpFails, client, wire
<1>20. CASE TokenExpires
  BY <1>20, <1>c DEF TokenExpires, client, wire
<1>21. CASE Drop
  BY <1>21, NoneHeld DEF Drop, client
<1>22. CASE UNCHANGED feedVars
  BY <1>22 DEF feedVars, server, client, wire
<1> QED
  BY <1>1, <1>2, <1>3, <1>4, <1>5, <1>6, <1>7, <1>8, <1>9, <1>10, <1>11, <1>12, <1>13, <1>14,
     <1>15, <1>16, <1>17, <1>18, <1>19, <1>20, <1>21, <1>22 DEF FeedNext, ClientSteps, ServerSteps

(* WayInv holds for ever: in particular cancelRetry is set exactly while a *)
(* timer runs, so that connect() never leaves one behind (live.ts).        *)
THEOREM WayInvHolds == FeedSpec => []WayInv
<1>1. WayInv /\ [FeedNext]_feedVars => WayInv'
  BY ServerTyped, WayStep DEF WayInv
<1> QED
  BY InitWay, <1>1, PTL DEF FeedSpec

LEMMA WayInvCounts == WayInv => OneWayBack
<1> SUFFICES ASSUME WayInv PROVE OneWayBack
  OBVIOUS
<1>1. AtMostOne /\ AtLeastOne /\ Released /\ ClientTypes
  BY DEF WayInv, WaysApart
<1>2. CASE socket /= "none"
  BY <1>1, <1>2 DEF AtMostOne, Released, OneWayBack, Ways
<1>3. CASE socket = "none"
  BY <1>1, <1>3 DEF AtMostOne, AtLeastOne, ClientTypes, OneWayBack, Ways
<1> QED
  BY <1>2, <1>3

(* Whatever widgets and alarm listeners come and go while a socket opens,  *)
(* a timer waits or a refresh is under way, and whatever the server, the   *)
(* network and the token do, the live client never has two ways to a       *)
(* connection, has one while somebody listens, and no socket when nobody   *)
(* does (connect, disconnect, reconnect and onclose of live.ts).           *)
THEOREM OneWayBackHolds == FeedSpec => []OneWayBack
BY WayInvHolds, WayInvCounts, PTL

-----------------------------------------------------------------------------
(* What the screen shows once everything sent has arrived: the safety part *)
(* of FeedSettles.  It rests on what is under way between the two ends:    *)
(* the requests alternate and end with what the client wants (Agreed), the *)
(* last reading published is the last one sent, or waits in the queue      *)
(* (Caught), and the last one sent waits for the client, or is shown       *)
(* (Arrived).                                                              *)
Requests == {"subscribe", "unsubscribe"}

FeedTypes ==
  /\ up \in Seq(Requests) /\ down \in Seq(Nat)
  /\ shown \in [Widgets -> Nat] /\ listeners \subseteq Widgets /\ lag \in BOOLEAN

(* Nothing is newer than what was published. *)
Bounded ==
  /\ row <= published /\ conn.snapshot <= published /\ conn.since <= published
  /\ conn.sent <= published
  /\ \A i \in 1..Len(queue) : queue[i] \in 1..published
  /\ \A i \in 1..Len(down) : down[i] <= published
  /\ \A w \in Widgets : shown[w] <= published

(* A subscription belongs to a connection, a snapshot to a subscription.   *)
Tasked ==
  /\ ~conn.alive \/ socket = "connecting" => ~conn.subscribed
  /\ conn.task # "idle" => conn.subscribed

(* Values wait for _pump in the order in which they were published.        *)
Sorted == \A i, j \in 1..Len(queue) : i < j => queue[i] < queue[j]

(* While a snapshot is under way, what waits is newer than what was sent.  *)
Ahead == conn.task # "idle" /\ queue # <<>> => conn.sent < queue[1]

(* The last value was sent or is the last that waits, unless none came     *)
(* since the subscription.                                                 *)
Caught ==
  conn.subscribed =>
    \/ published = conn.since \/ conn.sent = published
    \/ queue # <<>> /\ queue[Len(queue)] = published

(* The snapshot brought what was published before the subscription.        *)
Brought == conn.subscribed /\ conn.task = "idle" /\ ~lag => conn.since <= conn.sent

(* What was sent last is last on the connection, or on the screen.         *)
Arrived ==
  conn.subscribed /\ up = <<>> /\ (~lag \/ conn.task # "idle") /\ conn.sent > 0 =>
    IF down = <<>> THEN \A w \in listeners \ late : shown[w] = conn.sent
    ELSE down[Len(down)] = conn.sent

(* Requests alternate, and end with what the listeners want.               *)
Agreed ==
  /\ socket # "open" => up = <<>>
  /\ socket = "open" /\ conn.alive =>
       /\ up = <<>> => (conn.subscribed <=> listeners # {})
       /\ up # <<>> =>
            /\ up[1] = "unsubscribe" <=> conn.subscribed
            /\ up[Len(up)] = "subscribe" <=> listeners # {}
            /\ \A i \in 1..(Len(up) - 1) : up[i] # up[i + 1]

OnTheWay == Bounded /\ Tasked /\ Sorted /\ Ahead /\ Caught /\ Brought /\ Arrived

FeedInv == WayInv /\ FeedTypes /\ OnTheWay /\ Agreed

(* The ends of a queue, when a message is added and when one is taken.     *)
LEMMA AddedLast ==
  ASSUME NEW S, NEW s \in Seq(S), NEW e \in S
  PROVE  /\ Append(s, e) \in Seq(S) /\ Append(s, e) # <<>>
         /\ Len(s) \in Nat /\ Len(Append(s, e)) = Len(s) + 1
         /\ \A i \in 1..Len(s) : Append(s, e)[i] = s[i]
         /\ Append(s, e)[Len(s) + 1] = e
         /\ s = <<>> => Len(s) = 0
         /\ s # <<>> => Len(s) >= 1
<1>1. Len(s) \in Nat /\ (s = <<>> <=> Len(s) = 0)
  BY EmptySeq
<1> QED BY <1>1, AppendProperties

LEMMA TakenFirst ==
  ASSUME NEW S, NEW s \in Seq(S), s # <<>>
  PROVE  /\ Head(s) = s[1] /\ Head(s) \in S /\ Tail(s) \in Seq(S)
         /\ Len(s) \in Nat /\ Len(s) >= 1 /\ Len(Tail(s)) = Len(s) - 1
         /\ \A i \in 1..(Len(s) - 1) : Tail(s)[i] = s[i + 1]
         /\ Tail(s) = <<>> <=> Len(s) = 1
<1>1. Len(s) \in Nat /\ Len(s) # 0
  BY EmptySeq
<1>2. /\ Head(s) \in S /\ Tail(s) \in Seq(S) /\ Len(Tail(s)) = Len(s) - 1
      /\ \A i \in 1..Len(Tail(s)) : Tail(s)[i] = s[i + 1]
  BY HeadTailProperties
<1>3. Tail(s) = <<>> <=> Len(Tail(s)) = 0
  BY <1>2, EmptySeq
<1>4. Head(s) = s[1]
  OBVIOUS
<1> QED BY <1>1, <1>2, <1>3, <1>4

LEMMA ConnFields ==
  ASSUME FeedInv
  PROVE  /\ conn.alive \in BOOLEAN /\ conn.pump \in BOOLEAN /\ conn.subscribed \in BOOLEAN
         /\ conn.task \in Tasks /\ conn.snapshot \in Nat /\ conn.since \in Nat
         /\ conn.sent \in Nat /\ published \in Nat /\ row \in Nat /\ queue \in Seq(Nat)
BY DEF FeedInv, WayInv, ServerTypes

LEMMA NoConnFields ==
  /\ ~NoConn.subscribed /\ NoConn.task = "idle" /\ ~NoConn.alive /\ ~NoConn.pump
  /\ NoConn.snapshot = 0 /\ NoConn.since = 0 /\ NoConn.sent = 0
BY DEF NoConn

LEMMA InitFeed == FeedInit => FeedInv
<1> SUFFICES ASSUME FeedInit PROVE FeedTypes /\ OnTheWay /\ Agreed
  BY InitWay DEF FeedInv
<1>1. /\ up = <<>> /\ down = <<>> /\ queue = <<>> /\ shown = [w \in Widgets |-> 0]
      /\ listeners = {} /\ lag = FALSE /\ conn = NoConn /\ socket = "none"
      /\ published = 0 /\ row = 0
  BY DEF FeedInit, Database!Init
<1>2. FeedTypes
  <2>1. shown \in [Widgets -> Nat]
    BY <1>1
  <2>2. lag \in BOOLEAN
    BY <1>1, Zenon
  <2> QED BY <1>1, <2>1, <2>2 DEF FeedTypes
<1>3. Bounded /\ Sorted
  <2>1. Len(queue) = 0 /\ Len(down) = 0
    BY <1>1
  <2>2. \A w \in Widgets : shown[w] = 0
    BY <1>1
  <2> QED BY <1>1, <2>1, <2>2, NoConnFields DEF Bounded, Sorted
<1>4. Tasked /\ Ahead /\ Caught /\ Brought /\ Arrived /\ Agreed
  BY <1>1, NoConnFields DEF Tasked, Ahead, Caught, Brought, Arrived, Agreed
<1> QED BY <1>2, <1>3, <1>4 DEF OnTheWay

(* A step that leaves the client without a subscription. *)
LEMMA Unsubscribed ==
  ASSUME FeedInv, published' = published, row' = row,
         \A w \in Widgets : shown'[w] \in {0, shown[w]},
         queue' \in {queue, <<>>}, down' \in {down, <<>>},
         ~conn'.subscribed, conn'.task = "idle", conn'.snapshot \in 0..published,
         conn'.since \in 0..published, conn'.sent \in 0..published
  PROVE  OnTheWay'
<1>1. /\ row <= published /\ published \in Nat
      /\ \A i \in 1..Len(queue) : queue[i] \in 1..published
      /\ \A i \in 1..Len(down) : down[i] <= published
      /\ \A w \in Widgets : shown[w] <= published
  BY ConnFields DEF FeedInv, OnTheWay, Bounded
<1>2. Bounded'
  <2>1. \A w \in Widgets : shown'[w] <= published
    BY <1>1
  <2> QED BY <1>1, <2>1 DEF Bounded
<1>3. Sorted'
  BY DEF FeedInv, OnTheWay, Sorted
<1>4. Tasked' /\ Ahead' /\ Caught' /\ Brought' /\ Arrived'
  BY DEF Tasked, Ahead, Caught, Brought, Arrived
<1> QED BY <1>2, <1>3, <1>4 DEF OnTheWay

(* A step of which the values on their way notice nothing. *)
LEMMA GoesOn ==
  ASSUME FeedInv, published' = published, row' \in 0..published, queue' = queue, down' = down,
         conn'.subscribed = conn.subscribed, conn'.task = conn.task,
         conn'.snapshot = conn.snapshot, conn'.since = conn.since, conn'.sent = conn.sent,
         lag' = lag, ~conn'.alive \/ socket' = "connecting" => ~conn.subscribed,
         \A w \in Widgets : shown'[w] \in {0, shown[w]},
         conn.subscribed /\ up' = <<>> => up = <<>>,
         conn.subscribed /\ up' = <<>> => \A w \in listeners' \ late' :
           w \in listeners \ late /\ shown'[w] = shown[w]
  PROVE  OnTheWay'
<1>1. Bounded'
  <2>1. Bounded /\ shown \in [Widgets -> Nat] /\ published \in Nat
    BY ConnFields DEF FeedInv, OnTheWay, FeedTypes
  <2>2. \A w \in Widgets : shown'[w] <= published
    BY <2>1 DEF Bounded
  <2>3. row' <= published
    BY <2>1
  <2> QED BY <2>1, <2>2, <2>3 DEF Bounded
<1>2. Tasked' /\ Sorted' /\ Ahead' /\ Caught'
  BY DEF FeedInv, OnTheWay, Tasked, Sorted, Ahead, Caught
<1>3. Brought' /\ Arrived'
  <2>1. ~lag' <=> ~lag
    BY Zenon
  <2> QED BY <2>1 DEF FeedInv, OnTheWay, Brought, Arrived
<1> QED BY <1>1, <1>2, <1>3 DEF OnTheWay

-----------------------------------------------------------------------------
(* The requests of the client, and what the server makes of them. *)
Untouched ==
  /\ UNCHANGED <<up, socket>> /\ (listeners' = {} <=> listeners = {})
  /\ conn'.alive = conn.alive /\ conn'.subscribed = conn.subscribed

LEMMA AgreedUntouched ==
  ASSUME FeedInv, Untouched
  PROVE  Agreed'
BY DEF FeedInv, Agreed, Untouched

LEMMA StillListened ==
  ASSUME UNCHANGED <<up, socket, conn>>, listeners # {}, listeners' # {}
  PROVE  Untouched
BY DEF Untouched

(* A request is appended when the first listener comes, or the last goes.  *)
LEMMA AgreedSaid ==
  ASSUME FeedInv, NEW request \in Requests, up' = Append(up, request), socket = "open",
         socket' = socket, conn' = conn, (listeners = {}) # (listeners' = {}),
         request = "subscribe" <=> listeners' # {}
  PROVE  Agreed'
<1>1. up \in Seq(Requests) /\ Agreed /\ conn.subscribed \in BOOLEAN
  BY ConnFields DEF FeedInv, FeedTypes
<1>2. /\ up' # <<>> /\ Len(up) \in Nat /\ Len(up') = Len(up) + 1
      /\ \A i \in 1..Len(up) : up'[i] = up[i]
      /\ up'[Len(up) + 1] = request
      /\ up = <<>> => Len(up) = 0
      /\ up # <<>> => Len(up) >= 1
  BY <1>1, AddedLast
<1>3. SUFFICES ASSUME conn.alive
               PROVE  /\ up'[1] = "unsubscribe" <=> conn.subscribed
                      /\ up'[Len(up')] = "subscribe" <=> listeners' # {}
                      /\ \A i \in 1..(Len(up') - 1) : up'[i] # up'[i + 1]
  BY <1>2 DEF Agreed
<1>4. up'[Len(up')] = "subscribe" <=> listeners' # {}
  BY <1>2
<1>5. CASE up = <<>>
  <2>1. conn.subscribed <=> listeners # {}
    BY <1>1, <1>3, <1>5 DEF Agreed
  <2>2. up'[1] = request /\ Len(up') = 1
    BY <1>2, <1>5
  <2>3. up'[1] = "unsubscribe" <=> conn.subscribed
    BY <2>1, <2>2 DEF Requests
  <2> QED BY <1>4, <2>2, <2>3
<1>6. CASE up # <<>>
  <2>1. /\ up[1] = "unsubscribe" <=> conn.subscribed
        /\ up[Len(up)] = "subscribe" <=> listeners # {}
        /\ \A i \in 1..(Len(up) - 1) : up[i] # up[i + 1]
    BY <1>1, <1>3, <1>6 DEF Agreed
  <2>2. up'[1] = up[1]
    BY <1>2, <1>6
  <2>3. up[Len(up)] # request
    <3>1. up[Len(up)] \in Requests
      BY <1>1, <1>2, <1>6
    <3> QED BY <2>1, <3>1 DEF Requests
  <2>4. \A i \in 1..(Len(up') - 1) : up'[i] # up'[i + 1]
    BY <1>2, <2>1, <2>3
  <2> QED BY <1>4, <2>1, <2>2, <2>4
<1> QED BY <1>5, <1>6

(* The server takes a request in the order they were sent. *)
LEMMA AgreedHeard ==
  ASSUME FeedInv, up # <<>>, up' = Tail(up), UNCHANGED <<listeners, socket>>,
         socket = "open", conn'.alive = conn.alive, conn'.alive,
         conn'.subscribed <=> Head(up) = "subscribe"
  PROVE  Agreed'
<1>1. up \in Seq(Requests) /\ Agreed
  BY DEF FeedInv, FeedTypes
<1>2. /\ Head(up) = up[1] /\ Head(up) \in Requests /\ Len(up) \in Nat /\ Len(up) >= 1
      /\ Len(up') = Len(up) - 1 /\ \A i \in 1..(Len(up) - 1) : up'[i] = up[i + 1]
      /\ up' = <<>> <=> Len(up) = 1
      /\ up' \in Seq(Requests)
  BY <1>1, TakenFirst
<1>3. /\ up[Len(up)] = "subscribe" <=> listeners # {}
      /\ \A i \in 1..(Len(up) - 1) : up[i] # up[i + 1]
  BY <1>1 DEF Agreed
<1>4. CASE Len(up) = 1
  <2>1. up' = <<>> /\ up[Len(up)] = Head(up)
    BY <1>2, <1>4
  <2>2. conn'.subscribed <=> listeners' # {}
    BY <1>3, <2>1
  <2> QED BY <2>1, <2>2 DEF Agreed
<1>5. CASE Len(up) # 1
  <2>1. /\ 1 \in 1..(Len(up) - 1) /\ up'[1] = up[2] /\ up[1] # up[2] /\ up[2] \in Requests
    BY <1>1, <1>2, <1>3, <1>5
  <2>2. up'[1] = "unsubscribe" <=> conn'.subscribed
    BY <1>2, <2>1 DEF Requests
  <2>3. up'[Len(up')] = up[Len(up)]
    BY <1>2, <1>5
  <2>4. \A i \in 1..(Len(up') - 1) : up'[i] # up'[i + 1]
    BY <1>2, <1>3
  <2> QED BY <1>2, <1>3, <1>5, <2>2, <2>3, <2>4 DEF Agreed
<1> QED BY <1>4, <1>5

-----------------------------------------------------------------------------
(* The values on their way, step by step. *)
LEMMA ValueBounds ==
  ASSUME FeedInv
  PROVE  /\ OnTheWay /\ WayInv /\ published \in Nat /\ row \in 0..published
         /\ conn.snapshot \in 0..published /\ conn.since \in 0..published
         /\ conn.sent \in 0..published /\ shown \in [Widgets -> Nat]
         /\ ~conn.subscribed => conn.task = "idle"
BY ConnFields DEF FeedInv, OnTheWay, Bounded, Tasked, FeedTypes

LEMMA FeedPublish ==
  ASSUME FeedInv, Publish
  PROVE  OnTheWay'
<1>1. /\ published' = published + 1 /\ row' = row
      /\ queue' = IF conn.subscribed THEN Append(queue, published + 1) ELSE queue
      /\ UNCHANGED <<listeners, socket, shown, up, down, conn, lag, late>>
  BY DEF Publish, Database!Take, client, wire
<1>2. OnTheWay /\ published \in Nat /\ queue \in Seq(Nat) /\ row \in 0..published
      /\ conn.sent \in 0..published
  BY ValueBounds, ConnFields
<1>3. /\ Len(queue) \in Nat
      /\ queue = <<>> => Len(queue) = 0
      /\ queue # <<>> => Len(queue) >= 1
      /\ conn.subscribed =>
           /\ Len(queue') = Len(queue) + 1 /\ queue' # <<>>
           /\ \A i \in 1..Len(queue) : queue'[i] = queue[i]
           /\ queue'[Len(queue) + 1] = published + 1
  BY <1>1, <1>2, AddedLast
<1>4. /\ \A i \in 1..Len(queue) : queue[i] \in 1..published
      /\ \A i \in 1..Len(down) : down[i] \in Nat /\ down[i] <= published
      /\ \A w \in Widgets : shown[w] \in Nat /\ shown[w] <= published
  BY <1>2 DEF OnTheWay, Bounded, FeedInv, FeedTypes
<1>5. Bounded'
  <2>1. \A i \in 1..Len(queue') : queue'[i] \in 1..published'
    BY <1>1, <1>2, <1>3, <1>4
  <2>2. /\ \A i \in 1..Len(down') : down'[i] <= published'
        /\ \A w \in Widgets : shown'[w] <= published'
    BY <1>1, <1>2, <1>4
  <2>3. /\ row <= published /\ conn.snapshot <= published /\ conn.since <= published
        /\ conn.sent <= published
    BY <1>2 DEF OnTheWay, Bounded
  <2>4. /\ row \in Nat /\ conn.snapshot \in Nat /\ conn.since \in Nat /\ conn.sent \in Nat
    BY ValueBounds
  <2>5. /\ row <= published' /\ conn.snapshot <= published' /\ conn.since <= published'
        /\ conn.sent <= published'
    BY <1>1, <1>2, <2>3, <2>4
  <2> QED BY <1>1, <2>1, <2>2, <2>5 DEF Bounded
<1>6. Sorted'
  <2> SUFFICES ASSUME NEW i \in 1..Len(queue'), NEW j \in 1..Len(queue'), i < j
               PROVE  queue'[i] < queue'[j]
    BY DEF Sorted
  <2>1. CASE j \in 1..Len(queue)
    <3>1. i \in 1..Len(queue) /\ queue'[i] = queue[i] /\ queue'[j] = queue[j]
      BY <1>1, <1>3, <2>1
    <3> QED BY <1>2, <2>1, <3>1 DEF OnTheWay, Sorted
  <2>2. CASE j \notin 1..Len(queue)
    <3>1. conn.subscribed /\ j = Len(queue) + 1 /\ i \in 1..Len(queue)
      BY <1>1, <1>3, <2>2
    <3> QED BY <1>2, <1>3, <1>4, <3>1
  <2> QED BY <2>1, <2>2
<1>7. Ahead'
  <2>1. CASE conn.subscribed /\ queue = <<>>
    BY <1>1, <1>2, <1>3, <2>1 DEF Ahead
  <2>2. CASE conn.subscribed /\ queue # <<>>
    BY <1>1, <1>2, <1>3, <2>2 DEF OnTheWay, Ahead
  <2>3. CASE ~conn.subscribed
    BY <1>1, <2>3, ValueBounds DEF Ahead
  <2> QED BY <2>1, <2>2, <2>3
<1>8. Caught'
  BY <1>1, <1>3 DEF Caught
<1>9. Tasked' /\ Brought' /\ Arrived'
  BY <1>1, <1>2 DEF OnTheWay, Tasked, Brought, Arrived
<1> QED BY <1>5, <1>6, <1>7, <1>8, <1>9 DEF OnTheWay

(* dispatch() shows a value to those that listen. *)
LEMMA FeedOnMessage ==
  ASSUME FeedInv, OnMessage
  PROVE  OnTheWay' /\ Untouched
<1>1. /\ down # <<>> /\ down' = Tail(down) /\ late' = late \ listeners
      /\ shown' = [w \in Widgets |-> IF w \in listeners THEN Head(down) ELSE shown[w]]
      /\ UNCHANGED <<published, row, queue, listeners, socket, up, conn, lag>>
  BY DEF OnMessage, server
<1>2. OnTheWay /\ published \in Nat /\ down \in Seq(Nat) /\ listeners \subseteq Widgets
  BY ValueBounds DEF FeedInv, FeedTypes
<1>3. /\ Head(down) = down[1] /\ Len(down) \in Nat /\ Len(down) >= 1
      /\ Len(down') = Len(down) - 1 /\ \A i \in 1..(Len(down) - 1) : down'[i] = down[i + 1]
      /\ down' = <<>> <=> Len(down) = 1
  BY <1>1, <1>2, TakenFirst
<1>4. Bounded'
  <2>1. \A i \in 1..Len(down) : down[i] <= published
    BY <1>2 DEF OnTheWay, Bounded
  <2>2. \A i \in 1..Len(down') : down'[i] <= published
    BY <1>3, <2>1
  <2>3. \A w \in Widgets : shown'[w] <= published
    <3>1. \A w \in Widgets : shown[w] <= published
      BY <1>2 DEF OnTheWay, Bounded
    <3>2. Head(down) <= published
      BY <1>3, <2>1
    <3> QED BY <1>1, <3>1, <3>2
  <2> QED BY <1>1, <1>2, <2>2, <2>3 DEF OnTheWay, Bounded
<1>5. Tasked' /\ Sorted' /\ Ahead' /\ Caught' /\ Brought'
  BY <1>1, <1>2 DEF OnTheWay, Tasked, Sorted, Ahead, Caught, Brought
<1>6. Arrived'
  <2>1. SUFFICES ASSUME conn.subscribed, up = <<>>, ~lag \/ conn.task # "idle", conn.sent > 0
                 PROVE  IF down' = <<>> THEN \A w \in listeners : shown'[w] = conn.sent
                        ELSE down'[Len(down')] = conn.sent
    BY <1>1 DEF Arrived
  <2>2. down[Len(down)] = conn.sent
    BY <1>1, <1>2, <2>1 DEF OnTheWay, Arrived
  <2> QED BY <1>1, <1>2, <1>3, <2>2
<1> QED BY <1>1, <1>4, <1>5, <1>6 DEF OnTheWay, Untouched

(* A request that the server takes is what the connection lacks. *)
LEMMA Heard ==
  ASSUME FeedInv, conn.alive, up # <<>>
  PROVE  socket = "open" /\ (Head(up) = "unsubscribe" <=> conn.subscribed)
<1>1. up \in Seq(Requests) /\ Agreed
  BY DEF FeedInv, FeedTypes
<1>2. Head(up) = up[1]
  BY <1>1, TakenFirst
<1> QED BY <1>1, <1>2 DEF Agreed

LEMMA FeedReceiveSubscribe ==
  ASSUME FeedInv, ReceiveSubscribe
  PROVE  OnTheWay' /\ Agreed'
<1>1. /\ conn.alive /\ conn.task = "idle" /\ up # <<>> /\ Head(up) = "subscribe" /\ up' = Tail(up)
      /\ conn' = IF conn.subscribed THEN conn ELSE Subscribed
      /\ UNCHANGED <<published, row, queue, down, shown, listeners, late, lag, socket>>
  BY DEF ReceiveSubscribe, client
<1>2. /\ OnTheWay /\ published \in Nat /\ row \in 0..published /\ conn.snapshot \in 0..published
      /\ queue \in Seq(Nat)
  BY ValueBounds, ConnFields
<1>3. socket = "open" /\ ~conn.subscribed
  BY <1>1, Heard
<1>4. /\ conn'.alive = conn.alive /\ conn'.subscribed /\ conn'.task = "reading"
      /\ conn'.snapshot = conn.snapshot /\ conn'.since = published /\ conn'.sent = 0
  BY <1>1, <1>3 DEF Subscribed, FeedInv, WayInv, ServerTypes
<1>5. Agreed'
  BY <1>1, <1>3, <1>4, AgreedHeard
<1>6. Bounded' /\ Sorted'
  <2>1. Bounded /\ Sorted
    BY <1>2 DEF OnTheWay
  <2> QED BY <1>1, <1>2, <1>4, <2>1 DEF Bounded, Sorted
<1>7. Ahead'
  <2>1. queue # <<>> => queue[1] \in 1..published
    <3>1. queue # <<>> => 1 \in 1..Len(queue)
      BY <1>2, AddedLast
    <3> QED BY <1>2, <3>1 DEF OnTheWay, Bounded
  <2> QED BY <1>1, <1>2, <1>4, <2>1 DEF Ahead
<1>8. Tasked' /\ Caught' /\ Brought'
  BY <1>1, <1>3, <1>4 DEF Tasked, Caught, Brought
<1>9. Arrived'
  <2>1. ~(conn'.sent > 0)
    BY <1>4
  <2> QED BY <2>1, Zenon DEF Arrived
<1> QED BY <1>5, <1>6, <1>7, <1>8, <1>9 DEF OnTheWay

LEMMA FeedReceiveUnsubscribe ==
  ASSUME FeedInv, ReceiveUnsubscribe
  PROVE  OnTheWay' /\ Agreed'
<1>1. /\ conn.alive /\ conn.task = "idle" /\ up # <<>> /\ Head(up) = "unsubscribe" /\ up' = Tail(up)
      /\ conn' = [conn EXCEPT !.subscribed = FALSE]
      /\ UNCHANGED <<published, row, queue, down, shown, listeners, late, lag, socket>>
  BY DEF ReceiveUnsubscribe, client
<1>2. socket = "open"
  BY <1>1, Heard
<1>3. /\ conn'.alive = conn.alive /\ ~conn'.subscribed /\ conn'.task = "idle"
      /\ conn'.snapshot = conn.snapshot /\ conn'.since = conn.since /\ conn'.sent = conn.sent
  BY <1>1 DEF FeedInv, WayInv, ServerTypes
<1>4. Agreed'
  BY <1>1, <1>2, <1>3, AgreedHeard
<1>5. OnTheWay'
  BY <1>1, <1>3, ValueBounds, Unsubscribed
<1> QED BY <1>4, <1>5

LEMMA FeedReadRow ==
  ASSUME FeedInv, ReadRow
  PROVE  OnTheWay' /\ Untouched
<1>1. /\ conn.task = "reading" /\ conn' = [conn EXCEPT !.task = "snapshot", !.snapshot = row]
      /\ UNCHANGED <<published, row, queue, up, down, shown, listeners, late, lag, socket>>
  BY DEF ReadRow, client, wire
<1>2. /\ conn'.alive = conn.alive /\ conn'.subscribed = conn.subscribed /\ conn'.task = "snapshot"
      /\ conn'.snapshot = row /\ conn'.since = conn.since /\ conn'.sent = conn.sent
  BY <1>1 DEF FeedInv, WayInv, ServerTypes
<1>3. OnTheWay /\ row \in 0..published /\ published \in Nat
  BY ValueBounds
<1>4. Bounded' /\ Sorted'
  BY <1>1, <1>2, <1>3 DEF OnTheWay, Bounded, Sorted
<1>5. Tasked' /\ Ahead' /\ Caught' /\ Brought'
  BY <1>1, <1>2, <1>3 DEF OnTheWay, Tasked, Ahead, Caught, Brought
<1>6. Arrived'
  BY <1>1, <1>2, <1>3 DEF OnTheWay, Arrived
<1> QED BY <1>1, <1>2, <1>4, <1>5, <1>6 DEF OnTheWay, Untouched

(* What is sent is the newest of its subscription, or is marked as behind. *)
LEMMA FeedSendRow ==
  ASSUME FeedInv, SendRow
  PROVE  OnTheWay' /\ Untouched
<1>1. /\ conn.task = "snapshot"
      /\ conn' = [conn EXCEPT !.task = "idle", !.subscribed = TRUE, !.sent = Best(conn.snapshot)]
      /\ down' = IF conn.snapshot > 0 THEN Append(down, conn.snapshot) ELSE down
      /\ lag' = Behind(IF conn.snapshot > 0 THEN conn.snapshot ELSE conn.sent)
      /\ UNCHANGED <<published, row, queue, up, shown, listeners, late, socket>>
  BY DEF SendRow, client
<1>2. /\ OnTheWay /\ published \in Nat /\ conn.snapshot \in 0..published
      /\ conn.since \in 0..published /\ conn.sent \in 0..published /\ conn.subscribed
  BY <1>1, ValueBounds
<1>3. /\ conn'.alive = conn.alive /\ conn'.subscribed = conn.subscribed /\ conn'.task = "idle"
      /\ conn'.snapshot = conn.snapshot /\ conn'.since = conn.since
      /\ conn'.sent = Best(conn.snapshot)
  BY <1>1, <1>2 DEF FeedInv, WayInv, ServerTypes
<1>4. /\ Best(conn.snapshot) \in 0..published /\ Best(conn.snapshot) >= conn.snapshot
      /\ Best(conn.snapshot) >= conn.sent
      /\ conn.snapshot >= conn.sent => Best(conn.snapshot) = conn.snapshot
  BY <1>2 DEF Best
<1>5. ~lag' => LET n == IF conn.snapshot > 0 THEN conn.snapshot ELSE conn.sent
               IN ~(n < conn.sent) /\ ~(n < conn.since)
  <2>1. ~lag' => ~Behind(IF conn.snapshot > 0 THEN conn.snapshot ELSE conn.sent)
    BY <1>1, Zenon
  <2> QED BY <2>1 DEF Behind
<1>6. down \in Seq(Nat) /\ conn.snapshot \in Nat
  BY <1>2 DEF FeedInv, FeedTypes
<1>7. conn.snapshot > 0 =>
        /\ down' # <<>> /\ Len(down) \in Nat /\ Len(down') = Len(down) + 1
        /\ \A i \in 1..Len(down) : down'[i] = down[i]
        /\ down'[Len(down')] = conn.snapshot
  BY <1>1, <1>6, AddedLast
<1>8. Bounded'
  <2>1. \A i \in 1..Len(down') : down'[i] <= published
    <3>1. \A i \in 1..Len(down) : down[i] <= published
      BY <1>2 DEF OnTheWay, Bounded
    <3>2. CASE conn.snapshot > 0
      BY <1>2, <1>7, <3>1, <3>2
    <3>3. CASE ~(conn.snapshot > 0)
      BY <1>1, <3>1, <3>3
    <3> QED BY <3>2, <3>3
  <2> QED BY <1>1, <1>2, <1>3, <1>4, <2>1 DEF OnTheWay, Bounded
<1>9. Caught'
  BY <1>1, <1>2, <1>3, <1>4 DEF OnTheWay, Caught
<1>10. Brought'
  <2>1. ~lag' => conn.since <= Best(conn.snapshot)
    BY <1>2, <1>4, <1>5
  <2> QED BY <1>3, <2>1 DEF Brought
<1>11. Arrived'
  <2> SUFFICES ASSUME up = <<>>, ~lag', conn'.sent > 0
               PROVE  IF down' = <<>> THEN \A w \in listeners \ late : shown[w] = conn'.sent
                      ELSE down'[Len(down')] = conn'.sent
    BY <1>1, <1>3 DEF Arrived
  <2>1. CASE conn.snapshot > 0
    BY <1>2, <1>3, <1>4, <1>5, <1>7, <2>1
  <2>2. CASE ~(conn.snapshot > 0)
    <3>1. conn'.sent = conn.sent /\ down' = down
      BY <1>1, <1>2, <1>3, <2>2 DEF Best
    <3> QED BY <1>1, <1>2, <3>1 DEF OnTheWay, Arrived
  <2> QED BY <2>1, <2>2
<1>12. Tasked' /\ Sorted' /\ Ahead'
  BY <1>1, <1>2, <1>3 DEF OnTheWay, Tasked, Sorted, Ahead
<1> QED BY <1>1, <1>3, <1>8, <1>9, <1>10, <1>11, <1>12 DEF OnTheWay, Untouched

LEMMA FeedPump ==
  ASSUME FeedInv, Pump
  PROVE  OnTheWay' /\ Untouched
<1>1. /\ queue # <<>> /\ down' = Append(down, Head(queue)) /\ queue' = Tail(queue)
      /\ conn' = [conn EXCEPT !.sent = Best(Head(queue))] /\ lag' = Behind(Head(queue))
      /\ UNCHANGED <<published, row, up, shown, listeners, late, socket>>
  BY DEF Pump, client
<1>2. /\ OnTheWay /\ published \in Nat /\ conn.since \in 0..published
      /\ conn.sent \in 0..published /\ queue \in Seq(Nat) /\ down \in Seq(Nat)
  BY ValueBounds, ConnFields DEF FeedInv, FeedTypes
<1>0. PICK n \in Nat : n = Head(queue)
  BY <1>1, <1>2, TakenFirst
<1>3. PICK l \in Nat \ {0} :
        /\ l = Len(queue) /\ n = queue[1] /\ Len(queue') = l - 1
        /\ \A i \in 1..(l - 1) : queue'[i] = queue[i + 1]
        /\ queue' = <<>> <=> l = 1
  <2>1. /\ Head(queue) = queue[1] /\ Len(queue) \in Nat /\ Len(queue) >= 1
        /\ Len(queue') = Len(queue) - 1
        /\ \A i \in 1..(Len(queue) - 1) : queue'[i] = queue[i + 1]
        /\ queue' = <<>> <=> Len(queue) = 1
    BY <1>1, <1>2, TakenFirst
  <2> QED BY <1>0, <2>1
<1>4. n \in 1..published
  BY <1>2, <1>3 DEF OnTheWay, Bounded
<1>5. PICK k \in Nat :
        /\ k = Len(down) /\ down' # <<>> /\ Len(down') = k + 1
        /\ \A i \in 1..k : down'[i] = down[i]
        /\ down'[k + 1] = n
  <2>1. down' = Append(down, n)
    BY <1>0, <1>1
  <2>2. /\ Append(down, n) # <<>> /\ Len(down) \in Nat
        /\ Len(Append(down, n)) = Len(down) + 1
        /\ \A i \in 1..Len(down) : Append(down, n)[i] = down[i]
        /\ Append(down, n)[Len(down) + 1] = n
    <3>1. down \in Seq(Nat) /\ n \in Nat
      BY <1>2
    <3> QED BY <3>1, AddedLast
  <2> QED BY <2>1, <2>2
<1>6. /\ conn'.alive = conn.alive /\ conn'.subscribed = conn.subscribed /\ conn'.task = conn.task
      /\ conn'.snapshot = conn.snapshot /\ conn'.since = conn.since /\ conn'.sent = Best(n)
  BY <1>0, <1>1 DEF FeedInv, WayInv, ServerTypes
<1>7. /\ Best(n) \in 1..published /\ Best(n) >= n /\ Best(n) >= conn.sent
      /\ n >= conn.sent => Best(n) = n
  BY <1>2, <1>4 DEF Best
<1>8. ~lag' => ~(n < conn.sent) /\ ~(n < conn.since)
  <2>1. ~lag' => ~Behind(n)
    BY <1>0, <1>1, Zenon
  <2> QED BY <2>1 DEF Behind
<1>9. Bounded'
  <2>1. \A i \in 1..Len(down') : down'[i] <= published
    <3>1. \A i \in 1..k : down[i] <= published
      BY <1>2, <1>5 DEF OnTheWay, Bounded
    <3>2. \A i \in 1..(k + 1) : i \in 1..k \/ i = k + 1
      OBVIOUS
    <3>3. n <= published
      BY <1>2, <1>4
    <3>4. \A i \in 1..(k + 1) : down'[i] <= published
      BY <1>5, <3>1, <3>2, <3>3
    <3> QED BY <1>5, <3>4
  <2>2. \A i \in 1..Len(queue') : queue'[i] \in 1..published
    <3>1. \A i \in 1..l : queue[i] \in 1..published
      BY <1>2, <1>3 DEF OnTheWay, Bounded
    <3>2. \A i \in 1..(l - 1) : i + 1 \in 1..l
      OBVIOUS
    <3>3. \A i \in 1..(l - 1) : queue'[i] \in 1..published
      BY <1>3, <3>1, <3>2
    <3> QED BY <1>3, <3>3
  <2>3. /\ row <= published /\ conn.snapshot <= published /\ conn.since <= published
        /\ \A w \in Widgets : shown[w] <= published
    BY <1>2 DEF OnTheWay, Bounded
  <2>4. UNCHANGED <<row, published, shown>>
    BY <1>1
  <2>5. conn'.sent <= published
    BY <1>2, <1>6, <1>7
  <2> QED BY <1>6, <2>1, <2>2, <2>3, <2>4, <2>5 DEF Bounded
<1>10. Sorted'
  <2> SUFFICES ASSUME NEW i \in 1..(l - 1), NEW j \in 1..(l - 1), i < j
               PROVE  queue'[i] < queue'[j]
    BY <1>3 DEF Sorted
  <2>1. i + 1 \in 1..l /\ j + 1 \in 1..l /\ i + 1 < j + 1
    OBVIOUS
  <2> QED BY <1>2, <1>3, <2>1 DEF OnTheWay, Sorted
<1>11. Ahead'
  <2> SUFFICES ASSUME conn.task # "idle", queue' # <<>>
               PROVE  Best(n) < queue'[1]
    BY <1>6 DEF Ahead
  <2>1. l >= 2 /\ queue'[1] = queue[2] /\ queue[2] \in Nat
    BY <1>2, <1>3
  <2>2. n < queue[2]
    <3>1. \A i, j \in 1..l : i < j => queue[i] < queue[j]
      BY <1>2, <1>3 DEF OnTheWay, Sorted
    <3>2. 1 \in 1..l /\ 2 \in 1..l
      BY <2>1
    <3> QED BY <1>3, <3>1, <3>2
  <2>3. conn.sent < n
    BY <1>1, <1>2, <1>3 DEF OnTheWay, Ahead
  <2> QED BY <1>2, <1>4, <1>7, <2>1, <2>2, <2>3
<1>12. Caught'
  <2> SUFFICES ASSUME conn.subscribed
               PROVE  \/ published = conn.since \/ Best(n) = published
                      \/ queue' # <<>> /\ queue'[Len(queue')] = published
    BY <1>1, <1>6 DEF Caught
  <2>1. CASE published = conn.since
    BY <2>1
  <2>2. CASE conn.sent = published
    BY <1>2, <1>7, <2>2
  <2>3. CASE queue[Len(queue)] = published
    <3>1. CASE l = 1
      BY <1>2, <1>3, <1>4, <1>7, <2>3, <3>1
    <3>2. CASE l # 1
      BY <1>3, <2>3, <3>2
    <3> QED BY <3>1, <3>2
  <2> QED BY <1>2, <2>1, <2>2, <2>3 DEF OnTheWay, Caught
<1>13. Brought'
  BY <1>2, <1>4, <1>6, <1>7, <1>8 DEF Brought
<1>14. Arrived'
  <2> SUFFICES ASSUME ~lag' \/ conn.task # "idle"
               PROVE  Best(n) = n
    BY <1>5, <1>6 DEF Arrived
  <2>1. conn.task # "idle" => conn.sent < n
    BY <1>1, <1>2, <1>3 DEF OnTheWay, Ahead
  <2> QED BY <1>2, <1>4, <1>7, <1>8, <2>1
<1>15. Tasked'
  BY <1>1, <1>2, <1>6 DEF OnTheWay, Tasked
<1> QED BY <1>1, <1>6, <1>9, <1>10, <1>11, <1>12, <1>13, <1>14, <1>15 DEF OnTheWay, Untouched

-----------------------------------------------------------------------------
(* What listens and what is on the wire keeps its type. *)
LEMMA WireTyped ==
  ASSUME FeedInv, [FeedNext]_feedVars
  PROVE  FeedTypes'
<1> USE DEF FeedTypes
<1>t. /\ up \in Seq(Requests) /\ down \in Seq(Nat) /\ shown \in [Widgets -> Nat]
      /\ listeners \subseteq Widgets
      /\ <<>> \in Seq(Requests) /\ <<>> \in Seq(Nat)
  BY DEF FeedInv
<1>g. lag \in BOOLEAN
  BY DEF FeedInv
<1>s. \A request \in Requests : Append(up, request) \in Seq(Requests)
  BY <1>t
<1>d. /\ Requests = {"subscribe", "unsubscribe"} /\ <<"subscribe">> \in Seq(Requests)
  BY DEF Requests
<1>b. \A n : Behind(n) \in BOOLEAN
  BY DEF Behind
<1>1. CASE UNCHANGED <<up, down, shown, listeners, lag>>
  BY <1>1, <1>t, <1>g, Zenon
<1>2. ASSUME NEW w \in Widgets, Listen(w) PROVE FeedTypes'
  <2>1. listeners' \subseteq Widgets /\ shown' \in [Widgets -> Nat] /\ lag' = lag
    BY <1>2, <1>t DEF Listen
  <2>2. up' \in Seq(Requests) /\ down' \in Seq(Nat)
    BY <1>2, <1>t, <1>s, <1>d DEF Listen, Connect, Say
  <2> QED BY <2>1, <2>2, <1>g, Zenon
<1>3. ASSUME NEW w \in Widgets, Unlisten(w) PROVE FeedTypes'
  <2>1. listeners' \subseteq Widgets /\ shown' = shown /\ lag' = lag
    BY <1>3, <1>t DEF Unlisten
  <2>2. up' \in Seq(Requests) /\ down' \in Seq(Nat)
    BY <1>3, <1>t, <1>s, <1>d DEF Unlisten, Disconnect, Say
  <2> QED BY <2>1, <2>2, <1>t, <1>g, Zenon
<1>4. ASSUME UNCHANGED <<shown, listeners, lag>>, up' \in {up, <<>>}, down' \in {down, <<>>}
      PROVE  FeedTypes'
  BY <1>4, <1>t, <1>g, Zenon
<1>5. CASE ListenAlarms
  BY <1>4, <1>5 DEF ListenAlarms, Connect, wire
<1>6. CASE UnlistenAlarms
  BY <1>4, <1>6 DEF UnlistenAlarms, Disconnect, wire
<1>7. CASE OnOpen
  <2>1. up' \in Seq(Requests) /\ UNCHANGED <<down, shown, listeners, lag>>
    BY <1>7, <1>t, <1>d DEF OnOpen, Resumed
  <2> QED BY <2>1, <1>t, <1>g, Zenon
<1>8. CASE OnMessage
  <2>1. Head(down) \in Nat /\ Tail(down) \in Seq(Nat)
    BY <1>8, <1>t, TakenFirst DEF OnMessage
  <2>2. /\ down' \in Seq(Nat) /\ shown' \in [Widgets -> Nat]
        /\ UNCHANGED <<up, listeners, lag>>
    BY <1>8, <1>t, <2>1 DEF OnMessage
  <2> QED BY <2>2, <1>t, <1>g, Zenon
<1>9. CASE OnClose
  BY <1>4, <1>9 DEF OnClose
<1>10. CASE TimerFires
  BY <1>4, <1>10 DEF TimerFires, Connect, wire
<1>11. ASSUME NEW renewed \in BOOLEAN, RefreshEnds(renewed) PROVE FeedTypes'
  BY <1>4, <1>11 DEF RefreshEnds, Connect, wire
<1>12. CASE ReceiveSubscribe \/ ReceiveUnsubscribe
  <2>1. up # <<>> /\ up' = Tail(up) /\ UNCHANGED <<down, shown, listeners, lag>>
    BY <1>12 DEF ReceiveSubscribe, ReceiveUnsubscribe, client
  <2>2. up' \in Seq(Requests)
    BY <1>t, <2>1, TakenFirst
  <2> QED BY <2>1, <2>2, <1>t, <1>g, Zenon
<1>13. CASE SendRow
  <2>1. down' \in Seq(Nat) /\ UNCHANGED <<up, shown, listeners>>
    BY <1>13, <1>t, ConnFields DEF SendRow, client
  <2>2. lag' \in BOOLEAN
    BY <1>13, <1>b, Zenon DEF SendRow
  <2> QED BY <2>1, <2>2, <1>t, Zenon
<1>14. CASE Pump
  <2>1. down' \in Seq(Nat) /\ UNCHANGED <<up, shown, listeners>>
    BY <1>14, <1>t, ConnFields, TakenFirst DEF Pump, client
  <2>2. lag' \in BOOLEAN
    BY <1>14, <1>b, Zenon DEF Pump
  <2> QED BY <2>1, <2>2, <1>t, Zenon
<1>15. CASE Drop
  BY <1>4, <1>15 DEF Drop, client
<1>16. CASE Publish \/ Flush \/ Accept \/ ReadRow \/ PumpExpires \/ PumpFails \/ TokenExpires
            \/ UNCHANGED feedVars
  BY <1>1, <1>16
     DEF Publish, Flush, Accept, ReadRow, PumpExpires, PumpFails, TokenExpires, feedVars,
         client, wire
<1> QED
  BY <1>2, <1>3, <1>5, <1>6, <1>7, <1>8, <1>9, <1>10, <1>11, <1>12, <1>13, <1>14, <1>15, <1>16
     DEF FeedNext, ClientSteps, ServerSteps

-----------------------------------------------------------------------------
(* The remaining steps: the client and its connection. *)
LEMMA SubscribedOpen ==
  ASSUME FeedInv, conn.subscribed
  PROVE  conn.alive /\ socket = "open"
<1>1. conn.alive /\ socket # "connecting" /\ socket # "none"
  BY DEF FeedInv, OnTheWay, Tasked, WayInv, WaysApart, Held
<1> QED BY <1>1 DEF FeedInv, WayInv, WaysApart, ClientTypes

(* A connection that opens, closes or ends: no request is under way. *)
LEMMA AgreedSilent ==
  ASSUME FeedInv, up' = <<>> \/ (up' = up /\ socket' = socket),
         socket' # "open" \/ ~conn'.alive
  PROVE  Agreed'
BY DEF FeedInv, Agreed

LEMMA FeedListen ==
  ASSUME FeedInv, NEW w \in Widgets, Listen(w)
  PROVE  OnTheWay' /\ Agreed'
<1>1. /\ w \notin listeners /\ listeners' = listeners \cup {w}
      /\ late' = IF listeners = {} THEN late \ {w} ELSE late \cup {w}
      /\ UNCHANGED <<published, row, conn, queue, lag>>
  BY DEF Listen, server
<1>2. \A v \in Widgets : shown'[v] \in {0, shown[v]} /\ (v # w => shown'[v] = shown[v])
  BY DEF Listen, FeedInv, FeedTypes
<1>3. CASE Unconnected
  <2>1. ~conn.subscribed
    BY <1>3, SubscribedOpen DEF Unconnected
  <2>2. socket' = "connecting" /\ up' = <<>> /\ down' = <<>>
    BY <1>3 DEF Listen, Connect
  <2> QED BY <1>1, <1>2, <2>1, <2>2, ValueBounds, Unsubscribed, AgreedSilent
<1>4. CASE ~Unconnected
  <2>1. /\ IF listeners = {} THEN Say("subscribe") ELSE up' = up
        /\ UNCHANGED <<socket, down>>
    BY <1>4 DEF Listen
  <2>2. CASE ~conn.subscribed
    <3>1. OnTheWay'
      BY <1>1, <1>2, <2>1, <2>2, ValueBounds, Unsubscribed
    <3>2. CASE listeners = {} /\ socket = "open"
      <4>1. up' = Append(up, "subscribe") /\ "subscribe" \in Requests /\ listeners' # {}
        BY <1>1, <2>1, <3>2 DEF Say, Requests
      <4> QED BY <1>1, <2>1, <3>1, <3>2, <4>1, AgreedSaid
    <3>3. CASE ~(listeners = {} /\ socket = "open")
      <4>1. up' = up
        BY <2>1, <3>3 DEF Say
      <4>2. CASE socket = "open"
        <5>1. listeners # {} /\ listeners' # {}
          BY <1>1, <3>3, <4>2
        <5>2. Untouched
          BY <1>1, <2>1, <4>1, <5>1, StillListened
        <5> QED BY <3>1, <5>2, AgreedUntouched
      <4>3. CASE socket # "open"
        BY <2>1, <3>1, <4>1, <4>3, AgreedSilent
      <4> QED BY <4>2, <4>3
    <3> QED BY <3>2, <3>3
  <2>3. CASE conn.subscribed
    <3>1. conn.alive /\ socket = "open"
      BY <2>3, SubscribedOpen
    <3>2. CASE listeners = {}
      <4>1. up' = Append(up, "subscribe") /\ "subscribe" \in Requests /\ listeners' # {}
        BY <1>1, <2>1, <3>1, <3>2 DEF Say, Requests
      <4>2. up' # <<>>
        BY <4>1, AddedLast DEF FeedInv, FeedTypes
      <4>3. OnTheWay'
        BY <1>1, <1>2, <2>1, <3>1, <4>2, ValueBounds, GoesOn
      <4> QED BY <1>1, <2>1, <3>1, <3>2, <4>1, <4>3, AgreedSaid
    <3>3. CASE listeners # {}
      <4>1. up' = up /\ listeners' # {} /\ late' = late \cup {w}
        BY <1>1, <2>1, <3>3
      <4>2. Untouched
        <5>1. UNCHANGED <<up, socket, conn>>
          BY <1>1, <2>1, <4>1
        <5> QED BY <3>3, <4>1, <5>1, StillListened
      <4>3. \A v \in listeners' \ late' : v \in listeners \ late /\ shown'[v] = shown[v]
        <5>1. listeners \subseteq Widgets
          BY DEF FeedInv, FeedTypes
        <5> QED BY <1>1, <1>2, <4>1, <5>1
      <4>4. OnTheWay'
        BY <1>1, <1>2, <2>1, <3>1, <4>1, <4>3, ValueBounds, GoesOn
      <4> QED BY <4>2, <4>4, AgreedUntouched
    <3> QED BY <3>2, <3>3
  <2> QED BY <2>2, <2>3
<1> QED BY <1>3, <1>4

(* disconnect(): nothing is left under way. *)
LEMMA FeedDisconnect ==
  ASSUME FeedInv, Disconnect, UNCHANGED <<published, row, shown>>
  PROVE  OnTheWay' /\ Agreed'
<1>1. /\ socket' = "none" /\ up' = <<>> /\ down' = <<>> /\ queue' = <<>> /\ conn' = NoConn
  BY DEF Disconnect
<1>2. conn'.snapshot = 0 /\ conn'.since = 0 /\ conn'.sent = 0 /\ 0 \in 0..published
  BY <1>1, NoConnFields, ValueBounds
<1>3. ~conn'.subscribed /\ conn'.task = "idle" /\ ~conn'.alive
  BY <1>1, NoConnFields
<1> QED BY <1>1, <1>2, <1>3, Unsubscribed, AgreedSilent

LEMMA FeedUnlisten ==
  ASSUME FeedInv, NEW w \in Widgets, Unlisten(w)
  PROVE  OnTheWay' /\ Agreed'
<1>1. /\ w \in listeners /\ listeners' = listeners \ {w}
      /\ UNCHANGED <<published, row, shown, lag, late>>
  BY DEF Unlisten
<1>2. CASE listeners = {w} /\ ~alarms
  BY <1>1, <1>2, FeedDisconnect DEF Unlisten
<1>3. CASE ~(listeners = {w} /\ ~alarms)
  <2>1. /\ IF listeners = {w} THEN Say("unsubscribe") ELSE up' = up
        /\ UNCHANGED <<socket, down, conn, queue>>
    BY <1>3 DEF Unlisten, server
  <2>2. \A v \in listeners' \ late' : v \in listeners \ late /\ shown'[v] = shown[v]
    BY <1>1
  <2>3. CASE listeners = {w} /\ socket = "open"
    <3>1. up' = Append(up, "unsubscribe") /\ "unsubscribe" \in Requests
          /\ listeners # {} /\ listeners' = {}
      BY <1>1, <2>1, <2>3 DEF Say, Requests
    <3>2. up' # <<>>
      BY <3>1, AddedLast DEF FeedInv, FeedTypes
    <3>3. OnTheWay'
      <4>1. ~conn.alive \/ socket = "connecting" => ~conn.subscribed
        BY DEF FeedInv, OnTheWay, Tasked
      <4> QED BY <1>1, <2>1, <2>3, <3>2, <4>1, ValueBounds, GoesOn
    <3> QED BY <2>1, <2>3, <3>1, <3>3, AgreedSaid
  <2>4. CASE ~(listeners = {w} /\ socket = "open")
    <3>1. up' = up
      BY <2>1, <2>4 DEF Say
    <3>2. OnTheWay'
      <4>1. ~conn.alive \/ socket = "connecting" => ~conn.subscribed
        BY DEF FeedInv, OnTheWay, Tasked
      <4> QED BY <1>1, <2>1, <2>2, <3>1, <4>1, ValueBounds, GoesOn
    <3>3. CASE socket = "open"
      <4>1. listeners # {} /\ listeners' # {}
        BY <1>1, <2>4, <3>3
      <4>2. Untouched
        BY <1>1, <2>1, <3>1, <4>1, StillListened
      <4> QED BY <3>2, <4>2, AgreedUntouched
    <3>4. CASE socket # "open"
      BY <2>1, <3>1, <3>2, <3>4, AgreedSilent
    <3> QED BY <3>3, <3>4
  <2> QED BY <2>3, <2>4
<1> QED BY <1>2, <1>3

(* A step that the values and the requests under way do not see. *)
LEMMA FeedApart ==
  ASSUME FeedInv, UNCHANGED <<published, queue, down, up, listeners, socket, shown, late, lag>>,
         row' \in 0..published,
         conn'.alive = conn.alive, conn'.subscribed = conn.subscribed, conn'.task = conn.task,
         conn'.snapshot = conn.snapshot, conn'.since = conn.since, conn'.sent = conn.sent
  PROVE  OnTheWay' /\ Agreed'
<1>1. ~conn.alive \/ socket = "connecting" => ~conn.subscribed
  BY DEF FeedInv, OnTheWay, Tasked
<1>2. OnTheWay'
  BY <1>1, GoesOn
<1>3. Agreed'
  BY AgreedUntouched DEF Untouched
<1> QED BY <1>2, <1>3

(* connect() from where there is no socket. *)
LEMMA FeedConnect ==
  ASSUME FeedInv, socket = "none", Connect, UNCHANGED <<published, row, shown, server>>
  PROVE  OnTheWay' /\ Agreed'
<1>1. ~conn.subscribed
  BY SubscribedOpen
<1>2. socket' = "connecting" /\ up' = <<>> /\ down' = <<>> /\ UNCHANGED <<conn, queue>>
  BY DEF Connect, server
<1> QED BY <1>1, <1>2, ValueBounds, Unsubscribed, AgreedSilent

LEMMA FeedListenAlarms ==
  ASSUME FeedInv, ListenAlarms
  PROVE  OnTheWay' /\ Agreed'
<1>1. UNCHANGED <<published, row, listeners, shown, lag, late, server>>
  BY DEF ListenAlarms
<1>2. CASE Unconnected
  BY <1>1, <1>2, FeedConnect DEF ListenAlarms, Unconnected
<1>3. CASE ~Unconnected
  <2>1. UNCHANGED <<up, down, socket, conn, queue>>
    BY <1>3 DEF ListenAlarms, wire, server
  <2> QED BY <1>1, <2>1, ValueBounds, FeedApart
<1> QED BY <1>2, <1>3

LEMMA FeedUnlistenAlarms ==
  ASSUME FeedInv, UnlistenAlarms
  PROVE  OnTheWay' /\ Agreed'
<1>1. UNCHANGED <<published, row, listeners, shown, lag, late>>
  BY DEF UnlistenAlarms
<1>2. CASE listeners = {}
  BY <1>1, <1>2, FeedDisconnect DEF UnlistenAlarms
<1>3. CASE listeners # {}
  <2>1. UNCHANGED <<up, down, socket, conn, queue>>
    BY <1>3 DEF UnlistenAlarms, wire, server
  <2> QED BY <1>1, <2>1, ValueBounds, FeedApart
<1> QED BY <1>2, <1>3

LEMMA FeedOnOpen ==
  ASSUME FeedInv, OnOpen
  PROVE  OnTheWay' /\ Agreed'
<1>1. /\ socket = "connecting" /\ socket' = "open" /\ up' = Resumed
      /\ UNCHANGED <<published, row, listeners, shown, down, conn, queue>>
  BY DEF OnOpen, server
<1>2. ~conn.subscribed
  BY <1>1, SubscribedOpen
<1>3. OnTheWay'
  BY <1>1, <1>2, ValueBounds, Unsubscribed
<1>4. Agreed'
  <2>1. CASE listeners = {}
    BY <1>1, <1>2, <2>1 DEF Resumed, Agreed
  <2>2. CASE listeners # {}
    <3>1. /\ up' = <<"subscribe">> /\ up' # <<>> /\ Len(up') = 1
          /\ up'[1] = "subscribe"
      BY <1>1, <2>2 DEF Resumed
    <3> QED BY <1>1, <1>2, <2>2, <3>1 DEF Agreed
  <2> QED BY <2>1, <2>2
<1> QED BY <1>3, <1>4

LEMMA FeedOnClose ==
  ASSUME FeedInv, OnClose
  PROVE  OnTheWay' /\ Agreed'
<1>1. /\ closing # 0 /\ socket' = "none" /\ up' = <<>>
      /\ UNCHANGED <<published, row, listeners, shown, down, conn, queue>>
  BY DEF OnClose, server
<1>2. ~conn.alive
  BY <1>1 DEF FeedInv, WayInv, WaysApart, Announced
<1>3. ~conn.subscribed
  BY <1>2, SubscribedOpen
<1> QED BY <1>1, <1>3, ValueBounds, Unsubscribed, AgreedSilent

LEMMA FeedTimerFires ==
  ASSUME FeedInv, TimerFires
  PROVE  OnTheWay' /\ Agreed'
<1>1. socket = "none" /\ UNCHANGED <<published, row, listeners, shown, lag, late, server>>
  BY DEF TimerFires, FeedInv, WayInv, WaysApart, AtMostOne
<1>2. CASE Wanted
  BY <1>1, <1>2, FeedConnect DEF TimerFires
<1>3. CASE ~Wanted
  <2>1. UNCHANGED <<up, down, socket, conn, queue>>
    BY <1>3 DEF TimerFires, wire, server
  <2> QED BY <1>1, <2>1, ValueBounds, FeedApart
<1> QED BY <1>2, <1>3

LEMMA FeedRefreshEnds ==
  ASSUME FeedInv, NEW renewed \in BOOLEAN, RefreshEnds(renewed)
  PROVE  OnTheWay' /\ Agreed'
<1>1. socket = "none" /\ UNCHANGED <<published, row, listeners, shown, lag, late, server>>
  BY DEF RefreshEnds, FeedInv, WayInv, WaysApart, AtMostOne
<1>2. CASE renewed /\ Wanted
  BY <1>1, <1>2, FeedConnect DEF RefreshEnds
<1>3. CASE ~(renewed /\ Wanted)
  <2>1. UNCHANGED <<up, down, socket, conn, queue>>
    BY <1>3, Zenon DEF RefreshEnds, wire, server
  <2> QED BY <1>1, <2>1, ValueBounds, FeedApart
<1> QED BY <1>2, <1>3

LEMMA FeedAccept ==
  ASSUME FeedInv, Accept
  PROVE  OnTheWay' /\ Agreed'
<1>1. /\ socket = "connecting"
      /\ conn' \in {conn, [NoConn EXCEPT !.alive = TRUE, !.pump = TRUE]}
      /\ UNCHANGED <<published, row, listeners, shown, socket, up, down, queue>>
  BY Zenon DEF Accept, client
<1>2. ~conn.subscribed
  BY <1>1, SubscribedOpen
<1>3. /\ ~conn'.subscribed /\ conn'.task = "idle" /\ conn'.snapshot \in 0..published
      /\ conn'.since \in 0..published /\ conn'.sent \in 0..published
  <2>1. CASE conn' = conn
    BY <1>2, <2>1, ValueBounds
  <2>2. CASE conn' = [NoConn EXCEPT !.alive = TRUE, !.pump = TRUE]
    <3>1. 0 \in 0..published
      BY ValueBounds
    <3> QED BY <2>2, <3>1 DEF NoConn
  <2> QED BY <1>1, <2>1, <2>2
<1> QED BY <1>1, <1>3, Unsubscribed, AgreedSilent

(* The server closes, or the connection drops. *)
LEMMA FeedEnds ==
  ASSUME FeedInv, PumpExpires \/ Drop
  PROVE  OnTheWay' /\ Agreed'
<1>1. /\ conn' = NoConn /\ queue' = <<>> /\ down' \in {down, <<>>} /\ up' \in {up, <<>>}
      /\ UNCHANGED <<published, row, listeners, shown, socket>>
  BY DEF PumpExpires, Drop, client
<1>2. conn'.snapshot = 0 /\ conn'.since = 0 /\ conn'.sent = 0 /\ 0 \in 0..published
  BY <1>1, NoConnFields, ValueBounds
<1>3. ~conn'.subscribed /\ conn'.task = "idle" /\ ~conn'.alive
  BY <1>1, NoConnFields
<1> QED BY <1>1, <1>2, <1>3, Unsubscribed, AgreedSilent

LEMMA FeedAside ==
  ASSUME FeedInv, Flush \/ PumpFails \/ TokenExpires \/ UNCHANGED feedVars
  PROVE  OnTheWay' /\ Agreed'
<1>1. UNCHANGED <<published, queue, down, up, listeners, socket, shown, late, lag>>
  BY DEF Flush, PumpFails, TokenExpires, feedVars, Database!Write, client, wire, server
<1>2. row' \in 0..published
  BY ValueBounds DEF Flush, PumpFails, TokenExpires, feedVars, Database!Write
<1>3. /\ conn'.alive = conn.alive /\ conn'.subscribed = conn.subscribed
      /\ conn'.task = conn.task /\ conn'.snapshot = conn.snapshot
      /\ conn'.since = conn.since /\ conn'.sent = conn.sent
  BY DEF Flush, PumpFails, TokenExpires, feedVars, server, FeedInv, WayInv, ServerTypes
<1> QED BY <1>1, <1>2, <1>3, FeedApart

LEMMA FeedStep == FeedInv /\ [FeedNext]_feedVars => FeedInv'
<1> SUFFICES ASSUME FeedInv, [FeedNext]_feedVars PROVE FeedInv'
  OBVIOUS
<1>1. WayInv'
  BY ServerTyped, WayStep DEF FeedInv, WayInv
<1>2. FeedTypes'
  BY WireTyped
<1>3. OnTheWay' /\ Agreed'
  <2>1. CASE Publish
    <3>1. Untouched
      BY <2>1 DEF Publish, client, wire, Untouched
    <3> QED BY <2>1, <3>1, FeedPublish, AgreedUntouched
  <2>2. CASE OnMessage
    BY <2>2, FeedOnMessage, AgreedUntouched
  <2>3. CASE ReadRow
    BY <2>3, FeedReadRow, AgreedUntouched
  <2>4. CASE SendRow
    BY <2>4, FeedSendRow, AgreedUntouched
  <2>5. CASE Pump
    BY <2>5, FeedPump, AgreedUntouched
  <2> QED
    BY <2>1, <2>2, <2>3, <2>4, <2>5, FeedListen, FeedUnlisten, FeedListenAlarms,
       FeedUnlistenAlarms, FeedOnOpen, FeedOnClose, FeedTimerFires, FeedRefreshEnds, FeedAccept,
       FeedReceiveSubscribe, FeedReceiveUnsubscribe, FeedEnds, FeedAside
       DEF FeedNext, ClientSteps, ServerSteps
<1> QED BY <1>1, <1>2, <1>3 DEF FeedInv

(* Nothing is under way between the server and the client: no request, no  *)
(* value, no snapshot, and _pump runs.                                     *)
FeedQuiet ==
  /\ socket = "open" /\ conn.pump /\ conn.task = "idle"
  /\ up = <<>> /\ down = <<>> /\ queue = <<>>

(* Everybody that has had a value since it listens shows the last one.     *)
ShownWhenQuiet ==
  FeedQuiet => lag \/ \A w \in listeners \ late : shown[w] = published

(* Whenever everything that was sent has arrived, the screen is up to      *)
(* date: every widget that has received a value, or was there when the     *)
(* point was subscribed, shows the last reading published, unless the last *)
(* value sent was older than one it had to bring (lag: the snapshot read   *)
(* from a row that is behind, after the live values).  No race between     *)
(* subscribe, the snapshot, the live values, unsubscribe, reconnections    *)
(* and listeners that come and go loses a value otherwise (_subscribe and  *)
(* _pump of ws.py, subscribe and dispatch of live.ts).                     *)
THEOREM ShownWhenQuietHolds == FeedSpec => []ShownWhenQuiet
<1>1. FeedInv => ShownWhenQuiet
  <2> SUFFICES ASSUME FeedInv, FeedQuiet, ~lag, NEW w \in listeners \ late
               PROVE  shown[w] = published
    BY DEF ShownWhenQuiet
  <2>1. /\ OnTheWay /\ Agreed /\ conn.alive /\ w \in Widgets /\ shown[w] \in Nat
    BY DEF FeedInv, FeedQuiet, WayInv, WaysApart, Held, FeedTypes
  <2>2. /\ published \in Nat /\ conn.since \in 0..published /\ conn.sent \in 0..published
    BY ValueBounds
  <2>3. conn.subscribed
    BY <2>1 DEF FeedQuiet, Agreed
  <2>4. conn.since <= conn.sent
    BY <2>1, <2>3 DEF FeedQuiet, OnTheWay, Brought
  <2>5. conn.sent = published
    BY <2>1, <2>2, <2>3, <2>4 DEF FeedQuiet, OnTheWay, Caught
  <2>6. CASE published = 0
    BY <2>1, <2>6 DEF OnTheWay, Bounded
  <2>7. CASE published # 0
    BY <2>1, <2>2, <2>3, <2>5, <2>7 DEF FeedQuiet, OnTheWay, Arrived
  <2> QED BY <2>6, <2>7
<1> QED BY InitFeed, FeedStep, <1>1, PTL DEF FeedSpec

=============================================================================
