------------------------------ MODULE LiveUpdates ------------------------------
(***************************************************************************)
(* How a page of the web interface learns that a job changed: the          *)
(* ConnectionManager (backend/app/api/websocket.py), the websocket         *)
(* endpoints and the broadcasting sync handler (backend/app/main.py), the  *)
(* reconnecting WebSocketService of the page                               *)
(* (frontend/src/services/websocket.js) and the views that fetch on each   *)
(* event (frontend/src/views/JobDetail.vue, JobQueue.vue).                 *)
(*                                                                         *)
(* One job, whose row is its version ver, one page that moves between the  *)
(* view of the job and a list, and on each channel one other subscriber,   *)
(* the visitor.  Any await may suspend, so sets change during a broadcast. *)
(***************************************************************************)
EXTENDS Naturals, FiniteSets

CONSTANTS
  Socks,      \* sockets of the page
  NoSock,     \* no socket
  Visited,    \* the channels with another subscriber
  MaxVer,     \* bound: versions of the job
  MaxAsked,   \* bound: requests of a view that are not yet served
  MaxSteps,   \* bound: changes of the job, changes of the view and faults
  Faults      \* the faults that may happen

\* "drop": a connection breaks, or is refused.  "crash": the server process
\* ends.  "fetch": a request of the page fails.
FaultKinds == {"drop", "crash", "fetch"}

\* /ws/jobs/{id} and /ws/dashboard.  The visitor of a channel goes by its name.
Urls == {"job", "dashboard"}
Versions == 1..MaxVer
AnySock == Socks \cup Urls

ASSUME LiveAssumption ==
  /\ IsFiniteSet(Socks) /\ Socks # {} /\ Socks \cap Urls = {}
  /\ NoSock \notin Socks \cup Urls /\ Visited \subseteq Urls
  /\ MaxVer \in Nat \ {0} /\ MaxAsked \in Nat \ {0} /\ MaxSteps \in Nat
  /\ Faults \subseteq FaultKinds

VARIABLES
  up,          \* the server process
  ver,         \* the job's row
  conns,       \* url -> job_connections[id], dashboard_connections
  task,        \* version -> the sync handler that committed it
  sock,        \* socket -> both its ends
  ws, url,     \* this.ws, this.currentUrl, which is also the view's
  connecting,  \* this.isConnecting
  timer,       \* this.reconnectTimer is set
  shown,       \* the version the view shows, 0 while it has none
  asked,       \* kind of request -> how many are not yet served
  replies,     \* what they were answered, not yet received
  excused,     \* ghost: why ViewIsFresh need not hold has happened
  steps

manager == <<conns, task>>
service == <<ws, url, connecting, timer>>
view == <<shown, asked, replies, excused>>
vars == <<up, ver, manager, sock, service, view, steps>>

\* A handler iterates over the set of a channel: size is what the iterator
\* found at its start (0 once the set itself is discarded), start what was in
\* it, seen what it gave; sending is the socket of the send it awaits.
Tasks == [at : {"none"} \cup Urls \cup {"ended"},
          size : Nat, start : SUBSET AnySock,
          seen : SUBSET AnySock,
          dead : SUBSET AnySock,
          sending : AnySock \cup {NoSock}]

NoTask == [at |-> "none", size |-> 0, start |-> {}, seen |-> {}, dead |-> {},
           sending |-> NoSock]

\* client: readyState.  server: "none", "accepting" (websocket.accept),
\* "in" (waits for messages), "gone".  events: messages not yet handled.
\* The handlers of a socket are set until it is closed.
Ends == [url : Urls, client : {"free", "connecting", "open", "closed"},
         server : {"none", "accepting", "in", "gone"}, events : Nat]

FreeSock == [url |-> "dashboard", client |-> "free", server |-> "none", events |-> 0]
NewSock(u) == [FreeSock EXCEPT !.url = u, !.client = "connecting"]
Attached(i) == sock[i].client \in {"connecting", "open"}

\* main.js has connected to the dashboard and a list is mounted.
Init ==
  /\ up = TRUE /\ ver = 1
  /\ conns = [u \in Urls |-> {}]
  /\ task = [v \in Versions |-> NoTask]
  /\ ws = (CHOOSE i \in Socks : TRUE) /\ url = "dashboard" /\ connecting = TRUE /\ timer = FALSE
  /\ sock = [i \in Socks |-> IF i = ws THEN NewSock("dashboard") ELSE FreeSock]
  /\ shown = 0 /\ asked = [mount |-> 1, event |-> 0] /\ replies = {}
  /\ excused = FALSE /\ steps = 0

Step == steps < MaxSteps /\ steps' = steps + 1
Fault(kind) == kind \in Faults /\ Step

-------------------------------------------------------------------------------
(* ConnectionManager and the sync handler that broadcasts.                   *)

\* What a handler iterating over u knows once the sockets in S have left it: the
\* set of a job is discarded when it is empty.
Without(u, S) ==
  LET discarded == u = "job" /\ conns[u] # {} /\ conns[u] \subseteq S
  IN  [v \in Versions |->
         [task[v] EXCEPT !.size = IF discarded /\ task[v].at = u THEN 0 ELSE @,
                         !.start = @ \ S, !.seen = @ \ (S \cap Socks),
                         !.dead = @ \ S, !.sending = IF @ \in S THEN NoSock ELSE @]]

\* disconnect_job, disconnect_dashboard
Discard(u, S) ==
  /\ conns' = [conns EXCEPT ![u] = @ \ S]
  /\ task' = Without(u, S)

SendFails(i) == i \in Socks /\ sock[i].client = "closed"

Started(t, u) ==
  [t EXCEPT !.at = u, !.size = Cardinality(conns[u]), !.start = conns[u], !.dead = {}]

\* next() raises RuntimeError: the size changed, or the set was discarded.
Raises(t) == t.size = 0 \/ t.size # Cardinality(conns[t.at])

\* next() gives a connection it has not given, or there is none.  Where others
\* took the place of connections it may miss any.
Given(t) == conns[t.at] \ t.seen
Exhausted(t) == Given(t) = {} \/ conns[t.at] # t.start

\* The next send of a handler, which may raise at once.
Sent(t, i) ==
  [t EXCEPT !.seen = @ \cup {i}, !.sending = i,
            !.dead = IF SendFails(i) THEN @ \cup {i} ELSE @]

Ended == [NoTask EXCEPT !.at = "ended"]

\* What becomes of a handler that starts a broadcast on the dashboard.
Dashboards(t) ==
  IF conns["dashboard"] = {} THEN {Ended}
  ELSE {Sent(Started(t, "dashboard"), i) : i \in conns["dashboard"]}

Deliver(t) ==
  LET i == t.sending
  IN  sock' = IF i \in Socks /\ i \notin t.dead
              THEN [sock EXCEPT ![i].events = @ + 1] ELSE sock

\* A broadcast that was sent to these sockets reached the page.
Reached(t) == \E i \in (t.seen \ t.dead) \cap Socks : Attached(i)

\* Handler v goes on as t, to its next await or to its end.
Becomes(v, t, tasks) ==
  /\ task' = [tasks EXCEPT ![v] = t]
  /\ Deliver(t)
  /\ excused' = (excused \/ (t = Ended /\ ~Reached(task[v])))

\* apply_job_sync changes the row, and the handler broadcasts it.  The channel
\* of the job exists while somebody subscribes.
Commit ==
  /\ up /\ ver < MaxVer /\ Step
  /\ ver' = ver + 1
  /\ \E t \in IF conns["job"] = {} THEN Dashboards(NoTask)
              ELSE {Sent(Started(NoTask, "job"), i) : i \in conns["job"]} :
       Becomes(ver + 1, t, task)
  /\ UNCHANGED <<up, conns, service, shown, asked, replies>>

\* Claims, cancellations, retries and reconcilers tell nobody.
ChangeSilently ==
  /\ up /\ ver < MaxVer /\ Step
  /\ ver' = ver + 1 /\ excused' = TRUE
  /\ UNCHANGED <<up, manager, sock, service, shown, asked, replies>>

\* The loop of handler v goes on: next() raises, gives a connection, or is at its
\* end, and the connections that failed are discarded.
Continue(v) ==
  LET t == task[v]
  IN  /\ IF Raises(t)
         THEN Becomes(v, Ended, task) /\ UNCHANGED conns
         ELSE \/ /\ \E i \in Given(t) : Becomes(v, Sent(t, i), task)
                 /\ UNCHANGED conns
              \/ /\ Exhausted(t)
                 /\ conns' = [conns EXCEPT ![t.at] = @ \ t.dead]
                 /\ \E n \in IF t.at = "job" THEN Dashboards(t) ELSE {Ended} :
                      Becomes(v, n, Without(t.at, t.dead))
      /\ UNCHANGED <<up, ver, service, shown, asked, replies, steps>>

Running(v) == task[v].at \in Urls

\* The awaited send has ended.
Resume(v) == Running(v) /\ Continue(v)

(* websocket_job_endpoint and websocket_dashboard_endpoint.                  *)

Accept(i) ==
  /\ up /\ sock[i].client = "connecting" /\ sock[i].server = "none"
  /\ sock' = [sock EXCEPT ![i].server = "accepting"]
  /\ UNCHANGED <<up, ver, manager, service, view, steps>>

\* connect_job, connect_dashboard after their await; a client that is gone
\* meanwhile is noticed by the next await.
Register(i) ==
  /\ sock[i].server = "accepting"
  /\ sock' = [sock EXCEPT ![i].server = "in"]
  /\ conns' = [conns EXCEPT ![sock[i].url] = @ \cup {i}]
  /\ UNCHANGED <<up, ver, task, service, view, steps>>

\* Fault: an endpoint ends without disconnect_job.
EndpointEndsSubscribed(i) ==
  /\ sock[i].server = "in" /\ sock[i].client = "closed"
  /\ sock' = [sock EXCEPT ![i] = FreeSock]
  /\ UNCHANGED <<up, ver, manager, service, view, steps>>

\* The connection of i has ended: the endpoint's finally.
EndpointEnds(i) ==
  /\ sock[i].server = "in" /\ sock[i].client = "closed"
  /\ sock' = [sock EXCEPT ![i] = FreeSock]
  /\ Discard(sock[i].url, {i})
  /\ UNCHANGED <<up, ver, service, view, steps>>

\* Another page subscribes.  It leaves, or does not read and is dropped by the
\* server's pings; a send to it then raises.
VisitorJoins(u) ==
  /\ up /\ u \notin conns[u]
  /\ conns' = [conns EXCEPT ![u] = @ \cup {u}]
  /\ UNCHANGED <<up, ver, task, sock, service, view, steps>>

VisitorLeaves(u) ==
  /\ u \in conns[u]
  /\ Discard(u, {u})
  /\ UNCHANGED <<up, ver, sock, service, view, steps>>

(* The life of the server process.                                           *)

Crash ==
  /\ up /\ Fault("crash")
  /\ up' = FALSE
  /\ conns' = [u \in Urls |-> {}]
  /\ task' = [v \in Versions |-> IF Running(v) THEN Ended ELSE task[v]]
  /\ sock' = [i \in Socks |->
                IF sock[i].client = "closed" THEN FreeSock
                ELSE IF sock[i].server = "none" THEN sock[i]
                ELSE [sock[i] EXCEPT !.server = "gone"]]
  /\ excused' = (excused \/ \E v \in Versions : Running(v))
  /\ UNCHANGED <<ver, service, shown, asked, replies>>

Restart ==
  /\ ~up
  /\ up' = TRUE
  /\ UNCHANGED <<ver, manager, sock, service, view, steps>>

-------------------------------------------------------------------------------
(* WebSocketService of the page.                                             *)

\* Its end of socket i is closed; the server's learns of it if it is there.
ClosedEnd(i) ==
  IF sock[i].server \in {"accepting", "in"}
  THEN [sock[i] EXCEPT !.client = "closed", !.events = 0]
  ELSE FreeSock

IsOpen == ws # NoSock /\ sock[ws].client = "open"

Free == {i \in Socks : sock[i].client = "free"}

\* connect(u), with disconnect() of a socket open on another url.  A socket that
\* is still connecting keeps its handlers.
Leaves(u) == IsOpen /\ url # u

Connect(u) ==
  IF url = u /\ (IsOpen \/ connecting)
  THEN UNCHANGED <<sock, ws, url, connecting>>
  ELSE /\ Free # {}
       /\ ws' = CHOOSE i \in Free : TRUE
       /\ sock' = LET rest == IF Leaves(u) THEN [sock EXCEPT ![ws] = ClosedEnd(ws)]
                                          ELSE sock
                  IN  [rest EXCEPT ![ws'] = NewSock(u)]
       /\ url' = u /\ connecting' = TRUE

\* onopen, of any socket whose handlers are set
Open(i) ==
  /\ sock[i].client = "connecting" /\ sock[i].server \in {"accepting", "in"}
  /\ sock' = [sock EXCEPT ![i].client = "open"]
  /\ connecting' = FALSE /\ timer' = FALSE
  /\ UNCHANGED <<up, ver, manager, ws, url, view, steps>>

\* Socket i is closed by the other side: the server ended or is not there, or
\* the connection broke or was refused.
Breaks(i) ==
  /\ Attached(i)
  /\ IF sock[i].server = "gone" \/ (sock[i].server = "none" /\ ~up)
     THEN UNCHANGED steps ELSE Fault("drop")
  /\ sock' = [sock EXCEPT ![i] = ClosedEnd(i)]
  /\ excused' = (excused \/ sock[i].events > 0)
  /\ UNCHANGED <<up, ver, manager, url, shown, asked, replies>>

\* Fault: isConnecting is not reset.
CloseStillConnecting(i) == Breaks(i) /\ timer' = TRUE /\ UNCHANGED <<ws, connecting>>

\* Fault: the closed socket is forgotten.
CloseForgetting(i) ==
  Breaks(i) /\ ws' = NoSock /\ connecting' = FALSE /\ timer' = TRUE

\* onerror and onclose, of any socket whose handlers are set
Close(i) == Breaks(i) /\ connecting' = FALSE /\ timer' = TRUE /\ UNCHANGED ws

\* The reconnect timer: connect(this.currentUrl)
Reconnect ==
  /\ timer
  /\ Connect(url) /\ timer' = FALSE
  /\ UNCHANGED <<up, ver, manager, view, steps>>

(* The views.                                                                *)

\* onMounted: fetch, and connect to the view's url.
Navigate(u) ==
  /\ u # url /\ Step
  /\ Connect(u) /\ timer' = (timer /\ ~Leaves(u))
  /\ shown' = 0 /\ asked' = [mount |-> 1, event |-> 0]
  /\ replies' = {} /\ excused' = FALSE
  /\ UNCHANGED <<up, ver, manager>>

\* Fault: an event is dropped while the view awaits a reply.
EventUnlessAsked(i) ==
  /\ sock[i].client = "open" /\ sock[i].events > 0
  /\ sock' = [sock EXCEPT ![i].events = @ - 1]
  /\ asked' = IF asked.event = 0 /\ replies = {} THEN [asked EXCEPT !.event = 1] ELSE asked
  /\ UNCHANGED <<up, ver, manager, service, shown, replies, excused,
                 steps>>

\* onmessage: an event of the job, on either channel, makes the view fetch.
Event(i) ==
  /\ sock[i].client = "open" /\ sock[i].events > 0
  /\ asked.event < MaxAsked
  /\ sock' = [sock EXCEPT ![i].events = @ - 1]
  /\ asked' = [asked EXCEPT !.event = @ + 1]
  /\ UNCHANGED <<up, ver, manager, service, shown, replies, excused,
                 steps>>

\* GET /api/jobs/{id}, GET /api/queue
ServeFetch(k) ==
  /\ up /\ asked[k] > 0
  /\ asked' = [asked EXCEPT ![k] = @ - 1]
  /\ replies' = replies \cup {[kind |-> k, ver |-> ver]}
  /\ UNCHANGED <<up, ver, manager, sock, service, shown, excused, steps>>

FetchFails(k) ==
  /\ asked[k] > 0 /\ Fault("fetch")
  /\ asked' = [asked EXCEPT ![k] = @ - 1]
  /\ excused' = TRUE
  /\ UNCHANGED <<up, ver, manager, sock, service, shown, replies>>

\* fetchJob shows its reply; handleJobUpdate only once a job is shown.
Receive(r) ==
  /\ r \in replies
  /\ replies' = replies \ {r}
  /\ LET ignored == r.kind = "event" /\ url = "job" /\ shown = 0
     IN  /\ shown' = IF ignored THEN shown ELSE r.ver
         /\ excused' = IF ignored THEN TRUE
                       ELSE r.ver # ver /\ (excused \/ r.ver < shown)
  /\ UNCHANGED <<up, ver, manager, sock, service, asked, steps>>

-------------------------------------------------------------------------------
Visiting(u) == VisitorJoins(u) \/ VisitorLeaves(u)

Endpoint(i) == Accept(i) \/ Register(i) \/ EndpointEnds(i)

Socket(i) == Open(i) \/ Event(i) \/ Close(i)

Fetching == (\E k \in DOMAIN asked : ServeFetch(k) \/ FetchFails(k))
              \/ (\E r \in replies : Receive(r))

Next ==
  \/ Commit \/ ChangeSilently \/ Crash \/ Restart \/ Reconnect \/ Fetching
  \/ \E v \in Versions : Resume(v)
  \/ \E u \in Visited : Visiting(u)
  \/ \E u \in Urls : Navigate(u)
  \/ \E i \in Socks : Endpoint(i) \/ Socket(i)

Spec == Init /\ [][Next]_vars

\* The visitor that v sends to does not read.
Dropped(v) == task[v].sending \in Urls /\ VisitorLeaves(task[v].sending)

(* The event loops of the server and of the page run what is ready; the      *)
(* server's pings drop a subscriber that does not read; connections that are *)
(* not refused open, and a server that ended is started again.               *)
Fairness ==
  /\ WF_vars(Restart) /\ WF_vars(Reconnect)
  /\ WF_vars(\E v \in Versions : Resume(v) \/ Dropped(v))
  /\ WF_vars(\E i \in Socks : Endpoint(i)) /\ WF_vars(\E i \in Socks : Open(i))
  /\ WF_vars((\E i \in Socks : Close(i)) /\ UNCHANGED steps)

FairSpec == Spec /\ Fairness

-------------------------------------------------------------------------------
(* Properties.                                                               *)

TypeOK ==
  /\ up \in BOOLEAN /\ ver \in Versions
  /\ conns \in [Urls -> SUBSET AnySock] /\ task \in [Versions -> Tasks]
  /\ sock \in [Socks -> Ends]
  /\ ws \in Socks /\ url \in Urls /\ connecting \in BOOLEAN /\ timer \in BOOLEAN
  /\ shown \in 0..MaxVer /\ asked \in [{"mount", "event"} -> 0..MaxAsked]
  /\ replies \subseteq [kind : {"mount", "event"}, ver : Versions]
  /\ excused \in BOOLEAN
  /\ steps \in 0..MaxSteps

\* Nothing about the job is under way to the page.
Quiet ==
  /\ \A v \in Versions : ~Running(v)
  /\ \A i \in Socks : sock[i].events = 0
  /\ asked = [mount |-> 0, event |-> 0] /\ replies = {}

\* Once nothing is under way the view shows the job as it is, unless the change
\* was not broadcast, no socket of the page was subscribed, the broadcast raised
\* or died with the server, or a reply failed, came too early or overtook one.
ViewIsFresh == Quiet /\ ~excused => shown = ver

\* Every connection in a channel's set has an endpoint that waits for its end:
\* whoever leaves, whatever fails, the set keeps no connection for ever.
SubscribedIsServed ==
  \A u \in Urls, i \in Socks : i \in conns[u] => sock[i].server = "in" /\ sock[i].url = u

\* The runners' syncs are answered, however slowly subscribers read, and a page
\* that lost its connection gets a subscribed socket again.
Connected == \E i \in Socks : Attached(i) /\ sock[i].server = "in"
SyncsAreAnswered == []<>(\A v \in Versions : ~Running(v))
PageReconnects == []<>Connected
GoesOn == SyncsAreAnswered /\ PageReconnects
==============================================================================
