--------------------------- MODULE LiveUpdatesProofs ---------------------------
(***************************************************************************)
(* Proofs about LiveUpdates for any number of sockets, versions and other  *)
(* subscribers, with or without faults.                                    *)
(***************************************************************************)
EXTENDS LiveUpdates, FiniteSetTheorems, TLAPS

USE LiveAssumption

\* A socket that was not handed out has no endpoint.
FreeIsUnserved == \A i \in Socks : sock[i].client = "free" => sock[i].server = "none"

IInv == TypeOK /\ SubscribedIsServed /\ FreeIsUnserved

-------------------------------------------------------------------------------
(* Lemmas about the operators.                                               *)

LEMMA ChannelsFinite ==
  ASSUME NEW S \in SUBSET AnySock
  PROVE  Cardinality(S) \in Nat
<1>1. IsFiniteSet({"job"}) /\ IsFiniteSet({"dashboard"})
  BY FS_Singleton
<1>2. Urls = {"job"} \cup {"dashboard"}
  BY DEF Urls
<1>3. IsFiniteSet(AnySock)
  BY <1>1, <1>2, FS_Union DEF AnySock
<1>. QED
  BY <1>3, FS_Subset, FS_CardinalityType

LEMMA NoTaskType == NoTask \in Tasks /\ Ended \in Tasks
BY DEF NoTask, Ended, Tasks

LEMMA EndTypes ==
  /\ FreeSock \in Ends
  /\ FreeSock.client = "free" /\ FreeSock.server = "none"
  /\ \A u \in Urls : /\ NewSock(u) \in Ends
                     /\ NewSock(u).client = "connecting" /\ NewSock(u).server = "none"
BY DEF FreeSock, NewSock, Ends, Urls

LEMMA WithoutType ==
  ASSUME TypeOK, NEW u \in Urls, NEW S \in SUBSET AnySock
  PROVE  Without(u, S) \in [Versions -> Tasks]
<1>. DEFINE gone == u = "job" /\ conns[u] # {} /\ conns[u] \subseteq S
<1>. DEFINE next(v) == [task[v] EXCEPT !.size = IF gone /\ task[v].at = u THEN 0 ELSE @,
                                       !.start = @ \ S, !.seen = @ \ (S \cap Socks),
                                       !.dead = @ \ S,
                                       !.sending = IF @ \in S THEN NoSock ELSE @]
<1>1. ASSUME NEW v \in Versions
      PROVE  next(v) \in Tasks
  <2>1. task[v] \in Tasks
    BY DEF TypeOK
  <2>2. /\ (IF gone /\ task[v].at = u THEN 0 ELSE task[v].size) \in Nat
        /\ (IF task[v].sending \in S THEN NoSock ELSE task[v].sending) \in AnySock \cup {NoSock}
        /\ task[v].start \ S \in SUBSET AnySock
        /\ task[v].seen \ (S \cap Socks) \in SUBSET AnySock
        /\ task[v].dead \ S \in SUBSET AnySock
    BY <2>1 DEF Tasks
  <2>. QED
    BY <2>1, <2>2 DEF Tasks
<1>2. Without(u, S) = [v \in Versions |-> next(v)]
  BY DEF Without
<1>. HIDE DEF next
<1>. QED
  BY <1>1, <1>2

LEMMA SentType ==
  ASSUME NEW t \in Tasks, NEW i \in AnySock
  PROVE  Sent(t, i) \in Tasks
BY DEF Sent, Tasks

LEMMA StartedType ==
  ASSUME TypeOK, NEW t \in Tasks, NEW u \in Urls
  PROVE  Started(t, u) \in Tasks
<1>1. conns[u] \in SUBSET AnySock /\ Cardinality(conns[u]) \in Nat
  BY ChannelsFinite DEF TypeOK
<1>. QED
  BY <1>1 DEF Started, Tasks

LEMMA DashboardsType ==
  ASSUME TypeOK, NEW t \in Tasks, NEW n \in Dashboards(t)
  PROVE  n \in Tasks
<1>1. "dashboard" \in Urls
  BY DEF Urls
<1>2. \A i \in conns["dashboard"] : i \in AnySock
  BY <1>1 DEF TypeOK
<1>. QED
  BY <1>1, <1>2, NoTaskType, StartedType, SentType DEF Dashboards

\* A broadcast changes nothing of the sockets but their events.
LEMMA BecomesKeeps ==
  ASSUME TypeOK, NEW v \in Versions, NEW t \in Tasks,
         NEW tasks \in [Versions -> Tasks], Becomes(v, t, tasks)
  PROVE  /\ task' \in [Versions -> Tasks] /\ sock' \in [Socks -> Ends]
         /\ excused' \in BOOLEAN
         /\ \A i \in Socks : /\ sock'[i].client = sock[i].client
                             /\ sock'[i].server = sock[i].server
                             /\ sock'[i].url = sock[i].url
<1>1. task' \in [Versions -> Tasks] /\ excused' \in BOOLEAN
  BY DEF Becomes
<1>2. sock \in [Socks -> Ends]
  BY DEF TypeOK
<1>3. CASE sock' = sock
  BY <1>1, <1>2, <1>3
<1>4. CASE t.sending \in Socks /\ sock' = [sock EXCEPT ![t.sending].events = @ + 1]
  <2>. DEFINE j == t.sending
  <2>. DEFINE next == [sock[j] EXCEPT !.events = sock[j].events + 1]
  <2>1. sock[j] \in Ends /\ sock[j].events \in Nat
    BY <1>2, <1>4 DEF Ends
  <2>2. /\ next \in Ends
        /\ next.client = sock[j].client /\ next.server = sock[j].server
        /\ next.url = sock[j].url
    BY <2>1 DEF Ends
  <2>3. sock' = [sock EXCEPT ![j] = next]
    BY <1>4
  <2>. HIDE DEF next, j
  <2>. QED
    BY <1>1, <1>2, <2>2, <2>3
<1>. QED
  BY <1>3, <1>4 DEF Becomes, Deliver

\* What is left to show where only the tasks and some events change.
LEMMA SameEnds ==
  ASSUME IInv, UNCHANGED conns,
         \A i \in Socks : /\ sock'[i].client = sock[i].client
                          /\ sock'[i].server = sock[i].server
                          /\ sock'[i].url = sock[i].url
  PROVE  (SubscribedIsServed /\ FreeIsUnserved)'
BY DEF IInv, SubscribedIsServed, FreeIsUnserved
-------------------------------------------------------------------------------
(* The invariant is inductive: one lemma for each action.                    *)

LEMMA InitInv == Init => IInv
<1>. SUFFICES ASSUME Init PROVE IInv
  OBVIOUS
<1>1. ws \in Socks
  BY DEF Init
<1>2. \A i \in Socks : sock[i] = NewSock("dashboard") \/ sock[i] = FreeSock
  BY DEF Init
<1>3. "dashboard" \in Urls
  BY DEF Urls
<1>4. sock \in [Socks -> Ends]
  BY <1>2, <1>3, EndTypes DEF Init
<1>5. conns \in [Urls -> SUBSET AnySock] /\ task \in [Versions -> Tasks]
  BY NoTaskType DEF Init
<1>6. 1 \in Versions
  BY DEF Versions
<1>7. asked \in [{"mount", "event"} -> 0..MaxAsked]
  BY DEF Init
<1>8. TypeOK
  <2>1. ver \in Versions /\ url \in Urls /\ shown \in 0..MaxVer /\ steps \in 0..MaxSteps
    BY <1>3, <1>6 DEF Init
  <2>2. up \in BOOLEAN /\ connecting \in BOOLEAN /\ timer \in BOOLEAN /\ excused \in BOOLEAN
    BY DEF Init
  <2>3. replies \subseteq [kind : {"mount", "event"}, ver : Versions]
    BY DEF Init
  <2>. QED
    BY <1>1, <1>4, <1>5, <1>7, <2>1, <2>2, <2>3 DEF TypeOK
<1>9. SubscribedIsServed
  BY DEF Init, SubscribedIsServed
<1>10. FreeIsUnserved
  BY <1>2, <1>3, EndTypes DEF FreeIsUnserved
<1>. QED
  BY <1>8, <1>9, <1>10 DEF IInv

LEMMA CommitInv ==
  ASSUME IInv, Commit
  PROVE  IInv'
<1>1. /\ ver + 1 \in Versions /\ steps' \in 0..MaxSteps /\ ver' = ver + 1
      /\ UNCHANGED <<up, conns, service, shown, asked, replies>>
  BY DEF Commit, Step, IInv, TypeOK, Versions
<1>2. task \in [Versions -> Tasks]
  BY DEF IInv, TypeOK
<1>3. PICK t \in IF conns["job"] = {} THEN Dashboards(NoTask)
                ELSE {Sent(Started(NoTask, "job"), i) : i \in conns["job"]} :
        Becomes(ver + 1, t, task)
  BY DEF Commit
<1>4. t \in Tasks
  <2>1. "job" \in Urls
    BY DEF Urls
  <2>2. \A i \in conns["job"] : i \in AnySock
    BY <2>1 DEF IInv, TypeOK
  <2>. QED
    BY <1>3, <2>1, <2>2, NoTaskType, DashboardsType, StartedType, SentType DEF IInv
<1>5. /\ task' \in [Versions -> Tasks] /\ sock' \in [Socks -> Ends] /\ excused' \in BOOLEAN
      /\ \A i \in Socks : /\ sock'[i].client = sock[i].client
                          /\ sock'[i].server = sock[i].server
                          /\ sock'[i].url = sock[i].url
  BY <1>1, <1>2, <1>3, <1>4, BecomesKeeps DEF IInv
<1>6. TypeOK'
  BY <1>1, <1>5 DEF IInv, TypeOK, service
<1>. QED
  BY <1>1, <1>5, <1>6, SameEnds DEF IInv

LEMMA ResumeInv ==
  ASSUME IInv, NEW v \in Versions, Resume(v)
  PROVE  IInv'
<1>1. /\ task[v] \in Tasks /\ task[v].at \in Urls
      /\ task \in [Versions -> Tasks] /\ task[v].dead \in SUBSET AnySock
      /\ UNCHANGED <<up, ver, service, shown, asked, replies, steps>>
  BY DEF Resume, Running, Continue, IInv, TypeOK, Tasks
<1>. DEFINE dead == task[v].dead
            at == task[v].at
            Kept == \A i \in Socks : /\ sock'[i].client = sock[i].client
                                    /\ sock'[i].server = sock[i].server
                                    /\ sock'[i].url = sock[i].url
            Typed == /\ task' \in [Versions -> Tasks] /\ sock' \in [Socks -> Ends]
                     /\ excused' \in BOOLEAN
<1>2. CASE Becomes(v, Ended, task) /\ UNCHANGED conns
  <2>1. Typed /\ Kept
    BY <1>1, <1>2, NoTaskType, BecomesKeeps DEF IInv
  <2>2. TypeOK'
    BY <1>1, <1>2, <2>1 DEF IInv, TypeOK, service
  <2>. QED
    BY <1>2, <2>1, <2>2, SameEnds DEF IInv
<1>3. CASE (\E i \in Given(task[v]) : Becomes(v, Sent(task[v], i), task)) /\ UNCHANGED conns
  <2>1. PICK i \in Given(task[v]) : Becomes(v, Sent(task[v], i), task)
    BY <1>3
  <2>2. i \in AnySock
    BY <1>1, <2>1 DEF Given, IInv, TypeOK
  <2>3. Sent(task[v], i) \in Tasks
    BY <1>1, <2>2, SentType
  <2>4. Typed /\ Kept
    BY <1>1, <2>1, <2>3, BecomesKeeps DEF IInv
  <2>5. TypeOK'
    BY <1>1, <1>3, <2>4 DEF IInv, TypeOK, service
  <2>. QED
    BY <1>3, <2>4, <2>5, SameEnds DEF IInv
<1>4. CASE /\ conns' = [conns EXCEPT ![at] = @ \ dead]
           /\ \E n \in IF at = "job" THEN Dashboards(task[v]) ELSE {Ended} :
                Becomes(v, n, Without(at, dead))
  <2>1. PICK n \in IF at = "job" THEN Dashboards(task[v]) ELSE {Ended} :
          Becomes(v, n, Without(at, dead))
    BY <1>4
  <2>2. n \in Tasks
    BY <1>1, <2>1, NoTaskType, DashboardsType DEF IInv
  <2>3. Without(at, dead) \in [Versions -> Tasks]
    BY <1>1, WithoutType DEF IInv
  <2>4. Typed /\ Kept
    BY <2>1, <2>2, <2>3, BecomesKeeps DEF IInv
  <2>5. /\ conns' \in [Urls -> SUBSET AnySock]
        /\ \A u \in Urls : conns'[u] \subseteq conns[u]
    BY <1>1, <1>4 DEF IInv, TypeOK
  <2>6. TypeOK'
    BY <1>1, <2>4, <2>5 DEF IInv, TypeOK, service
  <2>. QED
    BY <2>4, <2>5, <2>6 DEF IInv, SubscribedIsServed, FreeIsUnserved
<1>. QED
  BY <1>2, <1>3, <1>4 DEF Resume, Continue

\* A connection leaves a channel.
LEMMA DiscardType ==
  ASSUME IInv, NEW u \in Urls, NEW S \in SUBSET AnySock, Discard(u, S)
  PROVE  /\ conns' \in [Urls -> SUBSET AnySock] /\ task' \in [Versions -> Tasks]
         /\ conns'[u] = conns[u] \ S
         /\ \A w \in Urls : conns'[w] \subseteq conns[w]
BY WithoutType DEF Discard, IInv, TypeOK

LEMMA VisitingInv ==
  ASSUME IInv, NEW u \in Urls, Visiting(u)
  PROVE  IInv'
<1>1. u \in AnySock /\ u \notin Socks
  BY DEF AnySock
<1>2. CASE VisitorJoins(u)
  <2>1. /\ conns' \in [Urls -> SUBSET AnySock]
        /\ \A w \in Urls, i \in Socks : i \in conns'[w] => i \in conns[w]
    BY <1>1, <1>2 DEF VisitorJoins, IInv, TypeOK
  <2>2. UNCHANGED <<up, ver, task, sock, service, view, steps>>
    BY <1>2 DEF VisitorJoins
  <2>3. TypeOK'
    BY <2>1, <2>2 DEF IInv, TypeOK, service, view
  <2>. QED
    BY <2>1, <2>2, <2>3 DEF IInv, SubscribedIsServed, FreeIsUnserved
<1>3. CASE VisitorLeaves(u)
  <2>1. {u} \in SUBSET AnySock
    BY <1>1
  <2>2. /\ conns' \in [Urls -> SUBSET AnySock] /\ task' \in [Versions -> Tasks]
        /\ \A w \in Urls : conns'[w] \subseteq conns[w]
        /\ UNCHANGED <<up, ver, sock, service, view, steps>>
    BY <1>3, <2>1, DiscardType DEF VisitorLeaves
  <2>3. TypeOK'
    BY <2>2 DEF IInv, TypeOK, service, view
  <2>. QED
    BY <2>2, <2>3 DEF IInv, SubscribedIsServed, FreeIsUnserved
<1>. QED
  BY <1>2, <1>3 DEF Visiting

LEMMA EndpointInv ==
  ASSUME IInv, NEW i \in Socks, Endpoint(i)
  PROVE  IInv'
<1>1. sock[i] \in Ends /\ sock \in [Socks -> Ends] /\ sock[i].url \in Urls
  BY DEF IInv, TypeOK, Ends
<1>2. CASE Accept(i)
  <2>. DEFINE next == [sock[i] EXCEPT !.server = "accepting"]
  <2>1. /\ next \in Ends /\ next.server = "accepting" /\ next.client = sock[i].client
    BY <1>1 DEF Ends
  <2>2. sock' = [sock EXCEPT ![i] = next]
    BY <1>2 DEF Accept
  <2>. HIDE DEF next
  <2>3. /\ sock' \in [Socks -> Ends] /\ sock'[i] = next
        /\ \A j \in Socks \ {i} : sock'[j] = sock[j]
    BY <1>1, <2>1, <2>2
  <2>4. /\ UNCHANGED <<up, ver, manager, service, view, steps>>
        /\ sock[i].server = "none" /\ sock[i].client = "connecting"
    BY <1>2 DEF Accept
  <2>5. TypeOK'
    BY <2>3, <2>4 DEF IInv, TypeOK, manager, service, view
  <2>. QED
    BY <2>1, <2>3, <2>4, <2>5 DEF IInv, SubscribedIsServed, FreeIsUnserved, manager
<1>3. CASE Register(i)
  <2>. DEFINE next == [sock[i] EXCEPT !.server = "in"]
  <2>1. /\ next \in Ends /\ next.server = "in" /\ next.client = sock[i].client
        /\ next.url = sock[i].url
    BY <1>1 DEF Ends
  <2>2. sock' = [sock EXCEPT ![i] = next]
    BY <1>3 DEF Register
  <2>. HIDE DEF next
  <2>3. /\ sock' \in [Socks -> Ends] /\ sock'[i] = next
        /\ \A j \in Socks \ {i} : sock'[j] = sock[j]
    BY <1>1, <2>1, <2>2
  <2>4. /\ UNCHANGED <<up, ver, task, service, view, steps>>
        /\ sock[i].server = "accepting"
        /\ conns' = [conns EXCEPT ![sock[i].url] = @ \cup {i}]
    BY <1>3 DEF Register
  <2>5. conns' \in [Urls -> SUBSET AnySock]
    BY <1>1, <2>4 DEF IInv, TypeOK, AnySock
  <2>6. TypeOK'
    BY <2>3, <2>4, <2>5 DEF IInv, TypeOK, service, view
  <2>7. SubscribedIsServed'
    <3>1. SUFFICES ASSUME NEW u \in Urls, NEW j \in Socks, j \in conns'[u]
                   PROVE  sock'[j].server = "in" /\ sock'[j].url = u
      BY DEF SubscribedIsServed
    <3>2. j \in conns[u] \/ (j = i /\ u = sock[i].url)
      BY <1>1, <2>4, <3>1 DEF IInv, TypeOK
    <3>3. i \notin conns[u]
      BY <2>4 DEF IInv, SubscribedIsServed
    <3>. QED
      BY <2>1, <2>3, <3>2, <3>3 DEF IInv, SubscribedIsServed
  <2>8. FreeIsUnserved'
    BY <2>1, <2>3, <2>4 DEF IInv, FreeIsUnserved
  <2>. QED
    BY <2>6, <2>7, <2>8 DEF IInv
<1>4. CASE EndpointEnds(i)
  <2>1. /\ UNCHANGED <<up, ver, service, view, steps>>
        /\ sock' = [sock EXCEPT ![i] = FreeSock] /\ Discard(sock[i].url, {i})
    BY <1>4 DEF EndpointEnds
  <2>2. /\ sock' \in [Socks -> Ends] /\ sock'[i] = FreeSock
        /\ \A j \in Socks \ {i} : sock'[j] = sock[j]
    BY <1>1, <2>1, EndTypes
  <2>3. /\ conns' \in [Urls -> SUBSET AnySock] /\ task' \in [Versions -> Tasks]
        /\ conns'[sock[i].url] = conns[sock[i].url] \ {i}
        /\ \A w \in Urls : conns'[w] \subseteq conns[w]
    <3>1. {i} \in SUBSET AnySock
      BY DEF AnySock
    <3>. QED
      BY <1>1, <2>1, <3>1, DiscardType
  <2>4. TypeOK'
    BY <2>1, <2>2, <2>3 DEF IInv, TypeOK, service, view
  <2>5. SubscribedIsServed'
    BY <2>2, <2>3 DEF IInv, SubscribedIsServed
  <2>6. FreeIsUnserved'
    BY <2>2, EndTypes DEF IInv, FreeIsUnserved
  <2>. QED
    BY <2>4, <2>5, <2>6 DEF IInv
<1>. QED
  BY <1>2, <1>3, <1>4 DEF Endpoint
\* What may become of the two ends of a socket that keeps its place.
Follows(e, f) ==
  /\ f \in Ends
  /\ f.client = "free" => f.server = "none"
  /\ e.server = "in" => f.server = "in" /\ f.url = e.url

LEMMA FollowsKeeps ==
  ASSUME IInv, UNCHANGED conns, \A i \in Socks : Follows(sock[i], sock'[i])
  PROVE  (SubscribedIsServed /\ FreeIsUnserved)'
BY DEF IInv, SubscribedIsServed, FreeIsUnserved, Follows

LEMMA EndsFollow ==
  ASSUME IInv, NEW i \in Socks
  PROVE  Follows(sock[i], sock[i]) /\ Follows(sock[i], ClosedEnd(i))
<1>1. sock[i] \in Ends /\ (sock[i].client = "free" => sock[i].server = "none")
  BY DEF IInv, TypeOK, FreeIsUnserved
<1>2. Follows(sock[i], sock[i])
  BY <1>1 DEF Follows
<1>3. CASE sock[i].server \in {"accepting", "in"}
  <2>. DEFINE next == [sock[i] EXCEPT !.client = "closed", !.events = 0]
  <2>1. /\ next \in Ends /\ next.client = "closed"
        /\ next.server = sock[i].server /\ next.url = sock[i].url
    BY <1>1 DEF Ends
  <2>2. ClosedEnd(i) = next
    BY <1>3 DEF ClosedEnd
  <2>. HIDE DEF next
  <2>. QED
    BY <1>2, <2>1, <2>2 DEF Follows
<1>4. CASE sock[i].server \notin {"accepting", "in"}
  <2>1. ClosedEnd(i) = FreeSock
    BY <1>4 DEF ClosedEnd
  <2>. QED
    BY <1>2, <1>4, <2>1, EndTypes DEF Follows
<1>. QED
  BY <1>3, <1>4

LEMMA ConnectKeeps ==
  ASSUME IInv, NEW u \in Urls, Connect(u)
  PROVE  /\ sock' \in [Socks -> Ends] /\ ws' \in Socks /\ url' \in Urls
         /\ connecting' \in BOOLEAN
         /\ \A i \in Socks : Follows(sock[i], sock'[i])
<1>1. sock \in [Socks -> Ends] /\ ws \in Socks /\ url \in Urls /\ connecting \in BOOLEAN
  BY DEF IInv, TypeOK
<1>2. CASE UNCHANGED <<sock, ws, url, connecting>>
  BY <1>1, <1>2, EndsFollow
<1>. DEFINE rest == IF Leaves(u) THEN [sock EXCEPT ![ws] = ClosedEnd(ws)] ELSE sock
<1>3. CASE /\ Free # {} /\ ws' = (CHOOSE i \in Free : TRUE)
           /\ sock' = [rest EXCEPT ![ws'] = NewSock(u)]
           /\ url' = u /\ connecting' = TRUE
  <2>1. ws' \in Free /\ ws' \in Socks /\ sock[ws'].server = "none"
    BY <1>3 DEF Free, IInv, FreeIsUnserved
  <2>2. /\ rest \in [Socks -> Ends]
        /\ \A i \in Socks : Follows(sock[i], rest[i])
    <3>1. ClosedEnd(ws) \in Ends
      BY <1>1, EndsFollow DEF Follows
    <3>. QED
      BY <1>1, <3>1, EndsFollow
  <2>. HIDE DEF rest
  <2>3. /\ sock' \in [Socks -> Ends] /\ sock'[ws'] = NewSock(u)
        /\ \A i \in Socks \ {ws'} : sock'[i] = rest[i]
    BY <1>3, <2>1, <2>2, EndTypes
  <2>4. Follows(sock[ws'], NewSock(u))
    BY <2>1, EndTypes DEF Follows
  <2>. QED
    BY <1>3, <2>1, <2>2, <2>3, <2>4
<1>. QED
  BY <1>2, <1>3 DEF Connect

LEMMA ServiceInv ==
  ASSUME IInv, Reconnect \/ \E u \in Urls : Navigate(u)
  PROVE  IInv'
<1>1. PICK u \in Urls : Connect(u)
  BY DEF Reconnect, Navigate, IInv, TypeOK
<1>2. /\ sock' \in [Socks -> Ends] /\ ws' \in Socks /\ url' \in Urls
      /\ connecting' \in BOOLEAN
      /\ \A i \in Socks : Follows(sock[i], sock'[i])
  BY <1>1, ConnectKeeps
<1>3. UNCHANGED <<up, ver, conns, task>> /\ timer' \in BOOLEAN
  BY DEF Reconnect, Navigate, manager, IInv, TypeOK
<1>4. /\ shown' \in 0..MaxVer /\ asked' \in [{"mount", "event"} -> 0..MaxAsked]
      /\ replies' \subseteq [kind : {"mount", "event"}, ver : Versions]
      /\ excused' \in BOOLEAN /\ steps' \in 0..MaxSteps
  <2>1. CASE Reconnect
    BY <2>1 DEF Reconnect, view, IInv, TypeOK
  <2>2. CASE \E w \in Urls : Navigate(w)
    <3>1. /\ shown' = 0 /\ asked' = [mount |-> 1, event |-> 0] /\ replies' = {}
          /\ excused' = FALSE /\ steps < MaxSteps /\ steps' = steps + 1
      BY <2>2 DEF Navigate, Step
    <3>2. asked' \in [{"mount", "event"} -> 0..MaxAsked]
      BY <3>1
    <3>3. shown' \in 0..MaxVer /\ steps' \in 0..MaxSteps
      BY <3>1 DEF IInv, TypeOK
    <3>. QED
      BY <3>1, <3>2, <3>3
  <2>. QED
    BY <2>1, <2>2
<1>5. TypeOK'
  BY <1>2, <1>3, <1>4 DEF IInv, TypeOK
<1>. QED
  BY <1>2, <1>3, <1>5, FollowsKeeps DEF IInv

LEMMA SocketInv ==
  ASSUME IInv, NEW i \in Socks, Socket(i)
  PROVE  IInv'
<1>1. sock[i] \in Ends /\ sock \in [Socks -> Ends] /\ sock[i].events \in Nat
  BY DEF IInv, TypeOK, Ends
<1>2. sock[i].client = "free" => sock[i].server = "none"
  BY DEF IInv, FreeIsUnserved
<1>3. CASE Open(i)
  <2>. DEFINE next == [sock[i] EXCEPT !.client = "open"]
  <2>1. Follows(sock[i], next)
    <3>1. /\ next \in Ends /\ next.client = "open"
          /\ next.server = sock[i].server /\ next.url = sock[i].url
      BY <1>1 DEF Ends
    <3>. QED
      BY <3>1 DEF Follows
  <2>2. sock' = [sock EXCEPT ![i] = next]
    BY <1>3 DEF Open
  <2>. HIDE DEF next
  <2>3. sock' \in [Socks -> Ends] /\ \A j \in Socks : Follows(sock[j], sock'[j])
    BY <1>1, <2>1, <2>2, EndsFollow DEF Follows
  <2>4. /\ UNCHANGED <<up, ver, manager, ws, url, view, steps>>
        /\ connecting' = FALSE /\ timer' = FALSE
    BY <1>3 DEF Open
  <2>5. TypeOK'
    BY <2>3, <2>4 DEF IInv, TypeOK, manager, view
  <2>. QED
    BY <2>3, <2>4, <2>5, FollowsKeeps DEF IInv, manager
<1>4. CASE Event(i)
  <2>. DEFINE next == [sock[i] EXCEPT !.events = sock[i].events - 1]
  <2>1. Follows(sock[i], next)
    <3>1. sock[i].events - 1 \in Nat
      BY <1>1, <1>4 DEF Event
    <3>2. /\ next \in Ends /\ next.client = sock[i].client
          /\ next.server = sock[i].server /\ next.url = sock[i].url
      BY <1>1, <3>1 DEF Ends
    <3>. QED
      BY <1>2, <3>2 DEF Follows
  <2>2. sock' = [sock EXCEPT ![i] = next]
    BY <1>4 DEF Event
  <2>. HIDE DEF next
  <2>3. sock' \in [Socks -> Ends] /\ \A j \in Socks : Follows(sock[j], sock'[j])
    BY <1>1, <2>1, <2>2, EndsFollow DEF Follows
  <2>4. /\ UNCHANGED <<up, ver, manager, service, shown, replies, excused, steps>>
        /\ asked.event < MaxAsked /\ asked' = [asked EXCEPT !.event = @ + 1]
    BY <1>4 DEF Event
  <2>5. asked' \in [{"mount", "event"} -> 0..MaxAsked]
    BY <2>4 DEF IInv, TypeOK
  <2>6. TypeOK'
    BY <2>3, <2>4, <2>5 DEF IInv, TypeOK, manager, service
  <2>. QED
    BY <2>3, <2>4, <2>6, FollowsKeeps DEF IInv, manager
<1>5. CASE Close(i)
  <2>1. /\ sock' = [sock EXCEPT ![i] = ClosedEnd(i)]
        /\ connecting' = FALSE /\ timer' = TRUE /\ excused' \in BOOLEAN
        /\ UNCHANGED <<up, ver, manager, ws, url, shown, asked, replies>>
    BY <1>5 DEF Close, Breaks
  <2>2. steps' \in 0..MaxSteps
    BY <1>5 DEF Close, Breaks, Fault, Step, IInv, TypeOK
  <2>3. sock' \in [Socks -> Ends] /\ \A j \in Socks : Follows(sock[j], sock'[j])
    BY <1>1, <2>1, EndsFollow DEF Follows
  <2>4. TypeOK'
    BY <2>1, <2>2, <2>3 DEF IInv, TypeOK, manager
  <2>. QED
    BY <2>1, <2>3, <2>4, FollowsKeeps DEF IInv, manager
<1>. QED
  BY <1>3, <1>4, <1>5 DEF Socket

LEMMA ProcessInv ==
  ASSUME IInv, ChangeSilently \/ Crash \/ Restart
  PROVE  IInv'
<1>1. CASE ChangeSilently
  <2>1. /\ ver' \in Versions /\ steps' \in 0..MaxSteps /\ excused' = TRUE
        /\ UNCHANGED <<up, manager, sock, service, shown, asked, replies>>
    BY <1>1 DEF ChangeSilently, Step, IInv, TypeOK, Versions
  <2>2. TypeOK'
    BY <2>1 DEF IInv, TypeOK, manager, service
  <2>. QED
    BY <2>1, <2>2, SameEnds DEF IInv, manager
<1>2. CASE Crash
  <2>1. /\ conns' = [u \in Urls |-> {}] /\ up' = FALSE /\ excused' \in BOOLEAN
        /\ UNCHANGED <<ver, service, shown, asked, replies>>
    BY <1>2 DEF Crash
  <2>2. steps' \in 0..MaxSteps
    BY <1>2 DEF Crash, Fault, Step, IInv, TypeOK
  <2>3. task' \in [Versions -> Tasks]
    BY <1>2, NoTaskType DEF Crash, IInv, TypeOK
  <2>4. \A i \in Socks : /\ sock'[i] \in Ends
                         /\ sock'[i].client = "free" => sock'[i].server = "none"
    <3>1. TAKE i \in Socks
    <3>2. sock[i] \in Ends /\ (sock[i].client = "free" => sock[i].server = "none")
      BY DEF IInv, TypeOK, FreeIsUnserved
    <3>. DEFINE next == [sock[i] EXCEPT !.server = "gone"]
    <3>3. next \in Ends /\ next.client = sock[i].client
      BY <3>2 DEF Ends
    <3>4. \/ sock'[i] = FreeSock
          \/ sock'[i] = sock[i]
          \/ sock'[i] = next /\ sock[i].server # "none"
      BY <1>2 DEF Crash
    <3>. HIDE DEF next
    <3>. QED
      BY <3>2, <3>3, <3>4, EndTypes
  <2>5. sock' \in [Socks -> Ends]
    <3>1. sock' = [i \in Socks |-> sock'[i]]
      BY <1>2 DEF Crash
    <3>. QED
      BY <2>4, <3>1
  <2>6. TypeOK'
    BY <2>1, <2>2, <2>3, <2>5 DEF IInv, TypeOK, service
  <2>. QED
    BY <2>1, <2>4, <2>6 DEF IInv, SubscribedIsServed, FreeIsUnserved
<1>3. CASE Restart
  <2>1. up' = TRUE /\ UNCHANGED <<ver, manager, sock, service, view, steps>>
    BY <1>3 DEF Restart
  <2>2. TypeOK'
    BY <2>1 DEF IInv, TypeOK, manager, service, view
  <2>. QED
    BY <2>1, <2>2, SameEnds DEF IInv, manager
<1>. QED
  BY <1>1, <1>2, <1>3

LEMMA FetchingInv ==
  ASSUME IInv, Fetching
  PROVE  IInv'
<1>1. asked \in [{"mount", "event"} -> 0..MaxAsked] /\ DOMAIN asked = {"mount", "event"}
  BY DEF IInv, TypeOK
<1>2. UNCHANGED <<up, ver, manager, sock, service>>
  BY DEF Fetching, ServeFetch, FetchFails, Receive
<1>3. /\ shown' \in 0..MaxVer /\ excused' \in BOOLEAN
      /\ asked' \in [{"mount", "event"} -> 0..MaxAsked]
      /\ replies' \subseteq [kind : {"mount", "event"}, ver : Versions]
      /\ steps' \in 0..MaxSteps
  <2>1. CASE \E k \in {"mount", "event"} : ServeFetch(k)
    <3>1. PICK k \in {"mount", "event"} : ServeFetch(k)
      BY <2>1
    <3>2. asked' \in [{"mount", "event"} -> 0..MaxAsked]
      BY <1>1, <3>1 DEF ServeFetch
    <3>3. [kind |-> k, ver |-> ver] \in [kind : {"mount", "event"}, ver : Versions]
      BY DEF IInv, TypeOK
    <3>. QED
      BY <3>1, <3>2, <3>3 DEF ServeFetch, IInv, TypeOK
  <2>2. CASE \E k \in {"mount", "event"} : FetchFails(k)
    <3>1. PICK k \in {"mount", "event"} : FetchFails(k)
      BY <2>2
    <3>2. asked' \in [{"mount", "event"} -> 0..MaxAsked]
      BY <1>1, <3>1 DEF FetchFails
    <3>3. steps' \in 0..MaxSteps
      BY <3>1 DEF FetchFails, Fault, Step, IInv, TypeOK
    <3>. QED
      BY <3>1, <3>2, <3>3 DEF FetchFails, IInv, TypeOK
  <2>3. CASE \E r \in replies : Receive(r)
    <3>1. PICK r \in replies : Receive(r)
      BY <2>3
    <3>2. r.ver \in 0..MaxVer
      BY DEF IInv, TypeOK, Versions
    <3>3. UNCHANGED <<asked, steps>> /\ replies' \subseteq replies
          /\ (shown' = shown \/ shown' = r.ver)
      BY <3>1 DEF Receive
    <3>4. excused' \in BOOLEAN
      BY <3>1 DEF Receive
    <3>. QED
      BY <3>2, <3>3, <3>4 DEF IInv, TypeOK
  <2>. QED
    BY <1>1, <2>1, <2>2, <2>3 DEF Fetching
<1>4. TypeOK'
  BY <1>2, <1>3 DEF IInv, TypeOK, manager, service
<1>. QED
  BY <1>2, <1>4, SameEnds DEF IInv, manager

LEMMA NextInv == IInv /\ [Next]_vars => IInv'
<1>. SUFFICES ASSUME IInv, [Next]_vars PROVE IInv'
  OBVIOUS
<1>1. CASE Next
  <2>1. Visited \subseteq Urls
    OBVIOUS
  <2>. QED
    BY <1>1, <2>1, CommitInv, ProcessInv, ServiceInv, FetchingInv, ResumeInv, VisitingInv,
       EndpointInv, SocketInv DEF Next
<1>2. CASE UNCHANGED vars
  <2>1. UNCHANGED <<up, ver, conns, task, sock, ws, url, connecting, timer, shown, asked,
                    replies, excused, steps>>
    BY <1>2 DEF vars, manager, service, view
  <2>. QED
    BY <2>1 DEF IInv, TypeOK, SubscribedIsServed, FreeIsUnserved
<1>. QED
  BY <1>1, <1>2

LEMMA Invariance == Spec => []IInv
<1>. QED
  BY InitInv, NextInv, PTL DEF Spec

-------------------------------------------------------------------------------
(* What a view shows.  Unless excused, the latest version is shown or on its  *)
(* way to the page, or the handler that broadcasts it has not reached it yet. *)

Told ==
  \/ shown = ver \/ asked["mount"] > 0 \/ asked["event"] > 0
  \/ \E r \in replies : r.ver = ver
  \/ \E i \in Socks : sock[i].events > 0

Fresh == excused \/ Told \/ (Running(ver) /\ ~Reached(task[ver]))

\* Nothing is known of later versions.
NothingNew ==
  /\ \A r \in replies : r.ver <= ver
  /\ \A v \in Versions : v > ver => task[v].at = "none" /\ task[v].seen = {}

EventsOpen ==
  \A i \in Socks : sock[i].client \in {"free", "closed"} => sock[i].events = 0

\* What a handler was given is served, and what it failed to reach is closed.
TaskOK(t) ==
  \A i \in Socks : /\ (i \in t.seen => sock[i].server = "in")
                   /\ (i \in t.dead => sock[i].client = "closed")

FreshInv ==
  /\ Fresh /\ NothingNew /\ EventsOpen
  /\ \A v \in Versions : Running(v) => TaskOK(task[v])

LEMMA FreshInit == Init => FreshInv
<1>. SUFFICES ASSUME Init PROVE FreshInv
  OBVIOUS
<1>1. Fresh
  BY DEF Init, Fresh, Told
<1>2. NothingNew
  BY DEF Init, NothingNew, NoTask
<1>3. EventsOpen
  BY DEF Init, EventsOpen, NewSock, FreeSock
<1>4. \A v \in Versions : ~Running(v)
  BY DEF Init, Running, NoTask, Urls
<1>. QED
  BY <1>1, <1>2, <1>3, <1>4 DEF FreshInv

\* Handlers that go on as they are, but for sockets that have left.
Shrinks(tasks) ==
  \A v \in Versions :
    /\ tasks[v].at = task[v].at
    /\ tasks[v].seen \subseteq task[v].seen /\ tasks[v].dead \subseteq task[v].dead
    /\ \A i \in Socks : i \in tasks[v].seen /\ i \notin tasks[v].dead => i \notin task[v].dead

LEMMA WithoutShrinks ==
  ASSUME TypeOK, NEW u \in Urls, NEW S \in SUBSET AnySock
  PROVE  /\ Shrinks(Without(u, S))
         /\ \A v \in Versions, i \in S \cap Socks :
              i \notin Without(u, S)[v].seen /\ i \notin Without(u, S)[v].dead
<1>. DEFINE gone == u = "job" /\ conns[u] # {} /\ conns[u] \subseteq S
           next(v) == [task[v] EXCEPT !.size = IF gone /\ task[v].at = u THEN 0 ELSE @,
                                      !.start = @ \ S, !.seen = @ \ (S \cap Socks),
                                      !.dead = @ \ S,
                                      !.sending = IF @ \in S THEN NoSock ELSE @]
<1>1. ASSUME NEW v \in Versions
      PROVE  /\ next(v).at = task[v].at
             /\ next(v).seen = task[v].seen \ (S \cap Socks)
             /\ next(v).dead = task[v].dead \ S
  <2>1. task[v] \in Tasks
    BY DEF TypeOK
  <2>. QED
    BY <2>1 DEF Tasks
<1>2. Without(u, S) = [v \in Versions |-> next(v)]
  BY DEF Without
<1>. HIDE DEF next
<1>3. \A v \in Versions : Without(u, S)[v] = next(v)
  BY <1>2
<1>. QED
  BY <1>1, <1>3 DEF Shrinks

\* A change of both ends of a socket that no handler minds.
Keeps(e, f) ==
  /\ e.server = "in" => f.server = "in"
  /\ e.client = "closed" => f.client = "closed"
  /\ f.client \in {"connecting", "open"} =>
       e.client \in {"connecting", "open"} \/ e.server # "in"

Forgotten(i) == \A v \in Versions : i \notin task[v].seen /\ i \notin task[v].dead

\* Steps of sockets, of other subscribers and of the view.
LEMMA FreshSame ==
  ASSUME IInv, FreshInv, ver' = ver, Shrinks(task'),
         \A i \in Socks : Keeps(sock[i], sock'[i]) \/ Forgotten(i)',
         EventsOpen', \A r \in replies' : r.ver <= ver,
         excused \/ Told => excused' \/ Told'
  PROVE  FreshInv'
<1>1. NothingNew'
  <2>1. \A r \in replies' : r.ver <= ver'
    OBVIOUS
  <2>2. ASSUME NEW v \in Versions, v > ver' PROVE task'[v].at = "none" /\ task'[v].seen = {}
    BY <2>2 DEF FreshInv, NothingNew, Shrinks
  <2>. QED
    BY <2>1, <2>2 DEF NothingNew
<1>2. ASSUME NEW v \in Versions, Running(v)'
      PROVE  TaskOK(task[v])'
  <2>1. Running(v) /\ TaskOK(task[v])
    BY <1>2 DEF Running, Shrinks, FreshInv
  <2>2. ASSUME NEW i \in Socks, i \in task'[v].seen PROVE sock'[i].server = "in"
    <3>1. i \in task[v].seen /\ ~Forgotten(i)'
      BY <2>2 DEF Shrinks, Forgotten
    <3>. QED
      BY <2>1, <3>1 DEF Keeps, TaskOK
  <2>3. ASSUME NEW i \in Socks, i \in task'[v].dead PROVE sock'[i].client = "closed"
    <3>1. i \in task[v].dead /\ ~Forgotten(i)'
      BY <2>3 DEF Shrinks, Forgotten
    <3>. QED
      BY <2>1, <3>1 DEF Keeps, TaskOK
  <2>. QED
    BY <2>2, <2>3 DEF TaskOK
<1>3. Fresh'
  <2>1. CASE excused \/ Told
    BY <2>1 DEF Fresh
  <2>2. CASE Running(ver) /\ ~Reached(task[ver])
    <3>1. Running(ver)'
      BY <2>2 DEF Running, Shrinks, IInv, TypeOK
    <3>2. ver \in Versions /\ TaskOK(task[ver])
      BY <2>2 DEF IInv, TypeOK, FreshInv
    <3>3. ASSUME NEW i \in Socks, i \in task'[ver].seen, i \notin task'[ver].dead
          PROVE  sock'[i].client \notin {"connecting", "open"}
      <4>1. i \in task[ver].seen /\ i \notin task[ver].dead
        BY <3>2, <3>3 DEF Shrinks
      <4>2. sock[i].client \notin {"connecting", "open"} /\ sock[i].server = "in"
        BY <2>2, <3>2, <4>1 DEF Reached, Attached, TaskOK
      <4>3. Keeps(sock[i], sock'[i])
        BY <3>2, <3>3 DEF Forgotten
      <4>. QED
        BY <4>2, <4>3 DEF Keeps
    <3>4. ~Reached(task[ver])'
      BY <3>3 DEF Reached, Attached
    <3>. QED
      BY <3>1, <3>4 DEF Fresh
  <2>. QED
    BY <2>1, <2>2 DEF FreshInv, Fresh
<1>. QED
  BY <1>1, <1>2, <1>3 DEF FreshInv

LEMMA ShrinksSame == TypeOK /\ UNCHANGED task => Shrinks(task')
BY DEF Shrinks

LEMMA KeepsSame == \A i \in Socks : Keeps(sock[i], sock[i])
BY DEF Keeps

\* A step that moves nothing towards the view.
LEMMA ToldSame ==
  ASSUME UNCHANGED <<ver, shown, asked, replies, excused>>,
         \A i \in Socks : sock[i].events > 0 => sock'[i].events > 0
  PROVE  excused \/ Told => excused' \/ Told'
BY DEF Told

-------------------------------------------------------------------------------
(* Endpoints and other subscribers.                                          *)

LEMMA VisitingFresh ==
  ASSUME IInv, FreshInv, NEW u \in Urls, Visiting(u)
  PROVE  FreshInv'
<1>1. UNCHANGED <<up, ver, sock, service, view, steps>>
  BY DEF Visiting, VisitorJoins, VisitorLeaves
<1>2. Shrinks(task')
  <2>1. CASE VisitorJoins(u)
    BY <2>1, ShrinksSame DEF VisitorJoins, IInv
  <2>2. CASE VisitorLeaves(u)
    <3>1. {u} \in SUBSET AnySock
      BY DEF AnySock
    <3>2. task' = Without(u, {u})
      BY <2>2 DEF VisitorLeaves, Discard
    <3>. QED
      BY <3>1, <3>2, WithoutShrinks DEF IInv
  <2>. QED
    BY <2>1, <2>2 DEF Visiting
<1>3. /\ UNCHANGED <<ver, shown, asked, replies, excused, sock>>
  BY <1>1 DEF view
<1>4. excused \/ Told => excused' \/ Told'
  BY <1>3, ToldSame
<1>5. EventsOpen' /\ (\A r \in replies' : r.ver <= ver)
  BY <1>3 DEF FreshInv, EventsOpen, NothingNew
<1>6. \A i \in Socks : Keeps(sock[i], sock'[i])
  BY <1>3, KeepsSame
<1>. QED
  BY <1>2, <1>3, <1>4, <1>5, <1>6, FreshSame

LEMMA EndpointFresh ==
  ASSUME IInv, FreshInv, NEW i \in Socks, Endpoint(i)
  PROVE  FreshInv'
<1>1. sock[i] \in Ends /\ sock \in [Socks -> Ends] /\ sock[i].url \in Urls
  BY DEF IInv, TypeOK, Ends
<1>2. UNCHANGED <<ver, shown, asked, replies, excused>>
  BY DEF Endpoint, Accept, Register, EndpointEnds, view
<1>3. \A r \in replies' : r.ver <= ver
  BY <1>2 DEF FreshInv, NothingNew
<1>4. CASE Accept(i) \/ Register(i)
  <2>1. PICK s \in {"accepting", "in"} :
          /\ sock' = [sock EXCEPT ![i].server = s]
          /\ sock[i].server # "in"
    BY <1>4 DEF Accept, Register
  <2>. DEFINE next == [sock[i] EXCEPT !.server = s]
  <2>2. next.client = sock[i].client /\ next.events = sock[i].events
    BY <1>1 DEF Ends
  <2>3. sock'[i] = next /\ \A j \in Socks \ {i} : sock'[j] = sock[j]
    BY <1>1, <2>1
  <2>. HIDE DEF next
  <2>4. UNCHANGED task
    BY <1>4 DEF Accept, Register, manager
  <2>5. Shrinks(task')
    BY <2>4, ShrinksSame DEF IInv
  <2>6. \A j \in Socks : Keeps(sock[j], sock'[j])
    BY <2>1, <2>2, <2>3 DEF Keeps
  <2>7. EventsOpen'
    BY <2>2, <2>3 DEF FreshInv, EventsOpen
  <2>8. excused \/ Told => excused' \/ Told'
    BY <1>2, <2>2, <2>3, ToldSame
  <2>. QED
    BY <1>2, <1>3, <2>5, <2>6, <2>7, <2>8, FreshSame
<1>5. CASE EndpointEnds(i)
  <2>1. sock' = [sock EXCEPT ![i] = FreeSock] /\ task' = Without(sock[i].url, {i})
    BY <1>5 DEF EndpointEnds, Discard
  <2>2. sock'[i] = FreeSock /\ \A j \in Socks \ {i} : sock'[j] = sock[j]
    BY <1>1, <2>1
  <2>3. sock[i].events = 0
    BY <1>5 DEF EndpointEnds, FreshInv, EventsOpen
  <2>4. {i} \in SUBSET AnySock
    BY DEF AnySock
  <2>5. Shrinks(task') /\ Forgotten(i)'
    BY <1>1, <2>1, <2>4, WithoutShrinks DEF IInv, Forgotten
  <2>6. \A j \in Socks : Keeps(sock[j], sock'[j]) \/ Forgotten(j)'
    BY <2>2, <2>5, KeepsSame
  <2>7. EventsOpen'
    BY <2>2 DEF FreshInv, EventsOpen, FreeSock
  <2>8. excused \/ Told => excused' \/ Told'
    BY <1>2, <2>2, <2>3, ToldSame
  <2>. QED
    BY <1>2, <1>3, <2>5, <2>6, <2>7, <2>8, FreshSame
<1>. QED
  BY <1>4, <1>5 DEF Endpoint
-------------------------------------------------------------------------------
(* The page.                                                                 *)

\* Closing its end loses what was not handled.
LEMMA ClosedKeeps ==
  ASSUME IInv, NEW i \in Socks
  PROVE  Keeps(sock[i], ClosedEnd(i)) \/ sock[i].client = "closed"
<1>1. sock[i] \in Ends
  BY DEF IInv, TypeOK
<1>2. CASE sock[i].server \in {"accepting", "in"}
  <2>. DEFINE next == [sock[i] EXCEPT !.client = "closed", !.events = 0]
  <2>1. next.client = "closed" /\ next.server = sock[i].server
    BY <1>1 DEF Ends
  <2>2. ClosedEnd(i) = next
    BY <1>2 DEF ClosedEnd
  <2>. HIDE DEF next
  <2>. QED
    BY <2>1, <2>2 DEF Keeps
<1>3. CASE sock[i].server \notin {"accepting", "in"}
  <2>1. ClosedEnd(i) = FreeSock
    BY <1>3 DEF ClosedEnd
  <2>. QED
    BY <1>3, <2>1, EndTypes DEF Keeps
<1>. QED
  BY <1>2, <1>3

LEMMA ClosedEvents ==
  ASSUME IInv, NEW i \in Socks
  PROVE  ClosedEnd(i).events = 0
<1>1. sock[i] \in Ends
  BY DEF IInv, TypeOK
<1>. QED
  BY <1>1 DEF ClosedEnd, FreeSock, Ends

LEMMA SocketFresh ==
  ASSUME IInv, FreshInv, NEW i \in Socks, Socket(i)
  PROVE  FreshInv'
<1>1. sock[i] \in Ends /\ sock \in [Socks -> Ends] /\ sock[i].events \in Nat
  BY DEF IInv, TypeOK, Ends
<1>2. UNCHANGED <<ver, shown, replies>> /\ UNCHANGED task
  BY DEF Socket, Open, Event, Close, Breaks, view, manager
<1>3. \A r \in replies' : r.ver <= ver
  BY <1>2 DEF FreshInv, NothingNew
<1>4. Shrinks(task')
  BY <1>2, ShrinksSame DEF IInv
<1>5. CASE Open(i)
  <2>. DEFINE next == [sock[i] EXCEPT !.client = "open"]
  <2>1. /\ next.client = "open" /\ next.server = sock[i].server
        /\ next.events = sock[i].events
    BY <1>1 DEF Ends
  <2>2. sock' = [sock EXCEPT ![i] = next] /\ sock[i].client = "connecting"
    BY <1>5 DEF Open
  <2>. HIDE DEF next
  <2>3. sock'[i] = next /\ \A j \in Socks \ {i} : sock'[j] = sock[j]
    BY <1>1, <2>2
  <2>4. \A j \in Socks : Keeps(sock[j], sock'[j])
    BY <2>1, <2>2, <2>3 DEF Keeps
  <2>5. EventsOpen'
    BY <2>1, <2>3 DEF FreshInv, EventsOpen
  <2>6. UNCHANGED <<ver, shown, asked, replies, excused>>
    BY <1>5 DEF Open, view
  <2>7. excused \/ Told => excused' \/ Told'
    BY <2>1, <2>3, <2>6, ToldSame
  <2>. QED
    BY <1>2, <1>3, <1>4, <2>4, <2>5, <2>7, FreshSame
<1>6. CASE Event(i)
  <2>. DEFINE next == [sock[i] EXCEPT !.events = sock[i].events - 1]
  <2>1. next.client = sock[i].client /\ next.server = sock[i].server
    BY <1>1 DEF Ends
  <2>2. sock' = [sock EXCEPT ![i] = next] /\ sock[i].client = "open"
    BY <1>6 DEF Event
  <2>. HIDE DEF next
  <2>3. sock'[i] = next /\ \A j \in Socks \ {i} : sock'[j] = sock[j]
    BY <1>1, <2>2
  <2>4. \A j \in Socks : Keeps(sock[j], sock'[j])
    BY <2>1, <2>3 DEF Keeps
  <2>5. EventsOpen'
    BY <2>1, <2>2, <2>3 DEF FreshInv, EventsOpen
  <2>6. asked'["event"] > 0
    BY <1>6 DEF Event, IInv, TypeOK
  <2>7. Told'
    BY <2>6 DEF Told
  <2>. QED
    BY <1>2, <1>3, <1>4, <2>4, <2>5, <2>7, FreshSame
<1>7. CASE Close(i)
  <2>1. /\ sock' = [sock EXCEPT ![i] = ClosedEnd(i)] /\ Attached(i)
        /\ excused' = (excused \/ sock[i].events > 0)
        /\ UNCHANGED asked
    BY <1>7 DEF Close, Breaks
  <2>2. sock'[i] = ClosedEnd(i) /\ \A j \in Socks \ {i} : sock'[j] = sock[j]
    BY <1>1, <2>1
  <2>3. \A j \in Socks : Keeps(sock[j], sock'[j])
    BY <2>1, <2>2, ClosedKeeps, KeepsSame DEF Attached
  <2>4. EventsOpen'
    BY <2>2, ClosedEvents DEF FreshInv, EventsOpen
  <2>5. excused \/ Told => excused' \/ Told'
    BY <1>2, <2>1, <2>2 DEF Told
  <2>. QED
    BY <1>2, <1>3, <1>4, <2>3, <2>4, <2>5, FreshSame
<1>. QED
  BY <1>5, <1>6, <1>7 DEF Socket

\* A connect opens a socket that no handler knows.
LEMMA ConnectFresh ==
  ASSUME IInv, FreshInv, NEW u \in Urls, Connect(u)
  PROVE  /\ \A i \in Socks : Keeps(sock[i], sock'[i])
         /\ EventsOpen'
         /\ ~Leaves(u) => \A i \in Socks : sock'[i].events = sock[i].events
<1>1. sock \in [Socks -> Ends] /\ ws \in Socks
  BY DEF IInv, TypeOK
<1>2. CASE sock' = sock
  BY <1>2, KeepsSame DEF FreshInv, EventsOpen
<1>. DEFINE rest == IF Leaves(u) THEN [sock EXCEPT ![ws] = ClosedEnd(ws)] ELSE sock
<1>3. CASE /\ Free # {} /\ ws' = (CHOOSE i \in Free : TRUE)
           /\ sock' = [rest EXCEPT ![ws'] = NewSock(u)]
  <2>1. /\ ws' \in Socks /\ sock[ws'].client = "free" /\ sock[ws'].server = "none"
        /\ sock[ws'].events = 0
    BY <1>3 DEF Free, IInv, FreeIsUnserved, FreshInv, EventsOpen
  <2>2. rest \in [Socks -> Ends]
    <3>1. ClosedEnd(ws) \in Ends
      BY <1>1, EndsFollow DEF Follows
    <3>. QED
      BY <1>1, <3>1
  <2>3. \A i \in Socks : rest[i] = sock[i] \/ (Leaves(u) /\ i = ws /\ rest[i] = ClosedEnd(ws))
    BY <1>1
  <2>4. sock[ws].client = "closed" => ~Leaves(u)
    BY DEF Leaves, IsOpen
  <2>5. \A i \in Socks : Keeps(sock[i], rest[i])
    BY <1>1, <2>3, <2>4, ClosedKeeps, KeepsSame
  <2>6. \A i \in Socks : rest[i].client \in {"free", "closed"} => rest[i].events = 0
    BY <1>1, <2>3, ClosedEvents DEF FreshInv, EventsOpen
  <2>. HIDE DEF rest
  <2>7. sock'[ws'] = NewSock(u) /\ \A i \in Socks \ {ws'} : sock'[i] = rest[i]
    BY <1>3, <2>1, <2>2
  <2>8. NewSock(u).events = 0
    BY DEF NewSock, FreeSock
  <2>9. Keeps(sock[ws'], NewSock(u))
    BY <2>1 DEF Keeps
  <2>. QED
    BY <2>1, <2>3, <2>5, <2>6, <2>7, <2>8, <2>9 DEF EventsOpen
<1>. QED
  BY <1>2, <1>3 DEF Connect

LEMMA ServiceFresh ==
  ASSUME IInv, FreshInv, Reconnect \/ \E u \in Urls : Navigate(u)
  PROVE  FreshInv'
<1>1. UNCHANGED ver /\ UNCHANGED task
  BY DEF Reconnect, Navigate, manager
<1>2. Shrinks(task')
  BY <1>1, ShrinksSame DEF IInv
<1>3. CASE Reconnect
  <2>1. url \in Urls /\ Connect(url) /\ ~Leaves(url)
    BY <1>3 DEF Reconnect, Leaves, IInv, TypeOK
  <2>2. UNCHANGED <<ver, shown, asked, replies, excused>>
    BY <1>3 DEF Reconnect, view
  <2>3. /\ \A i \in Socks : Keeps(sock[i], sock'[i]) /\ sock'[i].events = sock[i].events
        /\ EventsOpen'
    BY <2>1, ConnectFresh
  <2>4. \A r \in replies' : r.ver <= ver
    BY <2>2 DEF FreshInv, NothingNew
  <2>5. excused \/ Told => excused' \/ Told'
    BY <2>2, <2>3, ToldSame
  <2>. QED
    BY <1>1, <1>2, <2>3, <2>4, <2>5, FreshSame
<1>4. CASE \E u \in Urls : Navigate(u)
  <2>1. PICK u \in Urls : Navigate(u)
    BY <1>4
  <2>2. Connect(u) /\ asked' = [mount |-> 1, event |-> 0] /\ replies' = {}
    BY <2>1 DEF Navigate
  <2>3. EventsOpen' /\ \A i \in Socks : Keeps(sock[i], sock'[i])
    BY <2>2, ConnectFresh
  <2>4. Told'
    BY <2>2 DEF Told
  <2>. QED
    BY <1>1, <1>2, <2>2, <2>3, <2>4, FreshSame
<1>. QED
  BY <1>3, <1>4

LEMMA FetchingFresh ==
  ASSUME IInv, FreshInv, Fetching
  PROVE  FreshInv'
<1>1. asked \in [{"mount", "event"} -> 0..MaxAsked] /\ DOMAIN asked = {"mount", "event"}
  BY DEF IInv, TypeOK
<1>2. UNCHANGED ver /\ UNCHANGED task /\ UNCHANGED sock
  BY DEF Fetching, ServeFetch, FetchFails, Receive, manager
<1>3. Shrinks(task') /\ EventsOpen' /\ \A i \in Socks : Keeps(sock[i], sock'[i])
  BY <1>2, ShrinksSame, KeepsSame DEF IInv, FreshInv, EventsOpen
<1>4. CASE \E k \in {"mount", "event"} : ServeFetch(k)
  <2>1. PICK k \in {"mount", "event"} : ServeFetch(k)
    BY <1>4
  <2>2. replies' = replies \cup {[kind |-> k, ver |-> ver]} /\ ver \in Nat
    BY <2>1 DEF ServeFetch, IInv, TypeOK, Versions
  <2>3. /\ \A r \in replies' : r.ver <= ver
        /\ \E r \in replies' : r.ver = ver
    <3>. DEFINE q == [kind |-> k, ver |-> ver]
    <3>1. q.ver = ver /\ q \in replies' /\ replies' = replies \cup {q}
      BY <2>2
    <3>2. \A r \in replies : r.ver <= ver
      BY DEF FreshInv, NothingNew
    <3>3. ver <= ver
      BY <2>2
    <3>. HIDE DEF q
    <3>. QED
      BY <3>1, <3>2, <3>3
  <2>4. Told'
    BY <1>2, <2>3 DEF Told
  <2>. QED
    BY <1>2, <1>3, <2>3, <2>4, FreshSame
<1>5. CASE \E k \in {"mount", "event"} : FetchFails(k)
  <2>1. UNCHANGED replies /\ excused'
    BY <1>5 DEF FetchFails
  <2>2. \A r \in replies' : r.ver <= ver
    BY <2>1 DEF FreshInv, NothingNew
  <2>. QED
    BY <1>2, <1>3, <2>1, <2>2, FreshSame
<1>6. CASE \E r \in replies : Receive(r)
  <2>1. PICK r \in replies : Receive(r)
    BY <1>6
  <2>2. replies' = replies \ {r} /\ UNCHANGED asked
    BY <2>1 DEF Receive
  <2>3. \A q \in replies' : q.ver <= ver
    BY <2>2 DEF FreshInv, NothingNew
  <2>4. \/ excused' = TRUE
        \/ /\ shown' = r.ver
           /\ excused' = (r.ver # ver /\ (excused \/ r.ver < shown))
    BY <2>1 DEF Receive
  <2>5. r.ver <= ver /\ r.ver \in Nat /\ ver \in Nat
    BY DEF FreshInv, NothingNew, IInv, TypeOK, Versions
  <2>6. excused \/ Told => excused' \/ Told'
    <3>1. CASE excused' = TRUE \/ r.ver = ver
      BY <1>2, <2>4, <3>1 DEF Told
    <3>2. CASE r.ver # ver /\ shown' = r.ver /\ excused' = (excused \/ r.ver < shown)
      <4>1. shown = ver => r.ver < shown
        <5>1. r.ver < ver
          BY <2>5, <3>2
        <5>. QED
          BY <5>1
      <4>2. shown = ver => excused'
        BY <3>2, <4>1
      <4>3. \A q \in replies : q.ver = ver => q \in replies'
        BY <2>2, <3>2
      <4>4. excused => excused'
        BY <3>2
      <4>5. CASE Told
        BY <1>2, <2>2, <4>2, <4>3, <4>5 DEF Told
      <4>. QED
        BY <4>4, <4>5
    <3>. QED
      BY <2>4, <3>1, <3>2
  <2>. QED
    BY <1>2, <1>3, <2>3, <2>6, FreshSame
<1>. QED
  BY <1>1, <1>4, <1>5, <1>6 DEF Fetching
-------------------------------------------------------------------------------
(* The handlers that broadcast.                                              *)

Delivers(n) == n.sending \in Socks /\ n.sending \notin n.dead

\* A handler in the state of t that goes on as n reaches the page by this send
\* or has reached it before.
Advances(t, n) ==
  /\ n.at \in Urls /\ TaskOK(n)
  /\ Delivers(n) => Attached(n.sending)
  /\ Reached(n) => Reached(t) \/ Delivers(n)

LEMMA SubscriberServed ==
  ASSUME IInv, NEW u \in Urls, NEW i \in Socks, i \in conns[u]
  PROVE  /\ sock[i].server = "in"
         /\ ~SendFails(i) => Attached(i)
<1>1. sock[i].server = "in" /\ sock[i] \in Ends /\ sock[i].client # "free"
  BY DEF IInv, SubscribedIsServed, FreeIsUnserved, TypeOK
<1>. QED
  BY <1>1 DEF SendFails, Attached, Ends

LEMMA SentAdvances ==
  ASSUME IInv, NEW t \in Tasks, t.at \in Urls, TaskOK(t), NEW u \in Urls,
         NEW i \in conns[u]
  PROVE  Advances(t, Sent(t, i))
<1>. DEFINE n == Sent(t, i)
<1>1. /\ n.at = t.at /\ n.seen = t.seen \cup {i} /\ n.sending = i
      /\ n.dead = IF SendFails(i) THEN t.dead \cup {i} ELSE t.dead
  BY DEF Sent, Tasks
<1>. HIDE DEF n
<1>2. i \in Socks => sock[i].server = "in" /\ (~SendFails(i) => Attached(i))
  BY SubscriberServed
<1>3. TaskOK(n)
  BY <1>1, <1>2 DEF TaskOK, SendFails
<1>4. Delivers(n) => Attached(n.sending)
  BY <1>1, <1>2 DEF Delivers
<1>5. Reached(n) => Reached(t) \/ Delivers(n)
  BY <1>1, <1>2 DEF Reached, Delivers
<1>6. Advances(t, n)
  BY <1>1, <1>3, <1>4, <1>5 DEF Advances
<1>. QED
  BY <1>6 DEF n

LEMMA StartedSame ==
  ASSUME TypeOK, NEW t \in Tasks, TaskOK(t), NEW u \in Urls
  PROVE  /\ Started(t, u).at = u /\ TaskOK(Started(t, u))
         /\ Reached(Started(t, u)) => Reached(t)
<1>. DEFINE n == Started(t, u)
<1>1. n.at = u /\ n.seen = t.seen /\ n.dead = {}
  BY DEF Started, Tasks
<1>. HIDE DEF n
<1>2. TaskOK(n)
  BY <1>1 DEF TaskOK
<1>3. Reached(n) => Reached(t)
  BY <1>1 DEF Reached, TaskOK, Attached
<1>. QED
  BY <1>1, <1>2, <1>3 DEF n

LEMMA StartAdvances ==
  ASSUME IInv, NEW t \in Tasks, TaskOK(t), NEW u \in Urls, NEW i \in conns[u]
  PROVE  Advances(t, Sent(Started(t, u), i))
<1>. DEFINE s == Started(t, u)
<1>1. /\ s \in Tasks /\ s.at = u /\ TaskOK(s) /\ (Reached(s) => Reached(t))
  BY StartedType, StartedSame DEF IInv
<1>. HIDE DEF s
<1>2. Advances(s, Sent(s, i))
  BY <1>1, SentAdvances
<1>3. Advances(t, Sent(s, i))
  BY <1>1, <1>2 DEF Advances
<1>. QED
  BY <1>3 DEF s

LEMMA DashboardsAdvance ==
  ASSUME IInv, NEW t \in Tasks, TaskOK(t), NEW n \in Dashboards(t)
  PROVE  n = Ended \/ Advances(t, n)
<1>1. "dashboard" \in Urls
  BY DEF Urls
<1>. QED
  BY <1>1, StartAdvances DEF Dashboards

LEMMA NoneReached == TaskOK(NoTask) /\ ~Reached(NoTask)
BY DEF NoTask, TaskOK, Reached

LEMMA EndedFacts == Ended.at \notin Urls /\ Ended.sending \notin Socks
BY DEF Ended, NoTask, Urls

\* The handler v in the state of t goes on as n, and its version is the latest
\* or an earlier one.
LEMMA BecomesFresh ==
  ASSUME IInv, FreshInv, NEW v \in Versions, NEW t \in Tasks, NEW n \in Tasks,
         NEW tasks \in [Versions -> Tasks], Shrinks(tasks), Becomes(v, n, tasks),
         n = Ended \/ Advances(t, n), Reached(t) => Reached(task[v]),
         UNCHANGED <<shown, asked, replies>>,
         ver' \in Versions, ver' >= ver, v <= ver'
  PROVE  /\ NothingNew' /\ EventsOpen'
         /\ \A w \in Versions : Running(w)' => TaskOK(task[w])'
         /\ \/ excused' \/ Told' \/ Reached(task[v])
            \/ (Running(v) /\ ~Reached(task[v]))'
         /\ (ver' = ver /\ (excused \/ Told) => excused' \/ Told')
         /\ \A w \in Versions \ {v} :
              Running(w) /\ ~Reached(task[w]) => (Running(w) /\ ~Reached(task[w]))'
<1>1. /\ \A i \in Socks : /\ sock'[i].client = sock[i].client
                          /\ sock'[i].server = sock[i].server
      /\ sock' \in [Socks -> Ends] /\ ver \in Nat /\ ver' \in Nat
  BY BecomesKeeps DEF IInv, TypeOK, Versions
<1>2. /\ task'[v] = n /\ \A w \in Versions \ {v} : task'[w] = tasks[w]
      /\ excused' = (excused \/ (n = Ended /\ ~Reached(task[v])))
  BY DEF Becomes
<1>3. \A i \in Socks : \/ sock'[i].events = sock[i].events
                       \/ i = n.sending /\ Delivers(n)
  BY DEF Becomes, Deliver, Delivers, IInv, TypeOK
<1>4. Delivers(n) => sock'[n.sending].events > 0
  <2>. SUFFICES ASSUME Delivers(n) PROVE sock'[n.sending].events > 0
    OBVIOUS
  <2>. DEFINE j == n.sending
             next == [sock[j] EXCEPT !.events = sock[j].events + 1]
  <2>1. j \in Socks /\ sock[j] \in Ends
    BY DEF Delivers, IInv, TypeOK
  <2>2. sock' = [sock EXCEPT ![j] = next]
    BY DEF Delivers, Becomes, Deliver
  <2>3. next.events > 0
    BY <2>1 DEF Ends
  <2>. HIDE DEF next
  <2>. QED
    BY <2>1, <2>2, <2>3 DEF IInv, TypeOK
<1>5. Delivers(n) => Told'
  BY <1>4 DEF Delivers, Told
<1>6. Delivers(n) => Attached(n.sending)
  BY EndedFacts DEF Advances, Delivers
<1>7. NothingNew'
  <2>1. \A r \in replies' : r.ver <= ver'
    <3>1. \A r \in replies' : r.ver \in Nat /\ r.ver <= ver
      BY DEF FreshInv, NothingNew, IInv, TypeOK, Versions
    <3>. QED
      BY <1>1, <3>1
  <2>2. ASSUME NEW w \in Versions, w > ver' PROVE task'[w].at = "none" /\ task'[w].seen = {}
    <3>1. w # v /\ w > ver
      BY <1>1, <2>2 DEF Versions
    <3>2. task'[w] = tasks[w]
      BY <1>2, <3>1
    <3>. QED
      BY <3>1, <3>2 DEF FreshInv, NothingNew, Shrinks
  <2>. QED
    BY <2>1, <2>2 DEF NothingNew
<1>8. EventsOpen'
  BY <1>1, <1>3, <1>6 DEF FreshInv, EventsOpen, Attached
<1>9. ASSUME NEW w \in Versions, Running(w)' PROVE TaskOK(task[w])'
  <2>1. CASE w = v
    <3>1. TaskOK(n)
      BY <1>2, <1>9, <2>1, EndedFacts DEF Running, Advances
    <3>. QED
      BY <1>1, <1>2, <2>1, <3>1 DEF TaskOK
  <2>2. CASE w # v
    <3>1. TaskOK(task[w]) /\ task'[w].seen \subseteq task[w].seen
          /\ task'[w].dead \subseteq task[w].dead
      BY <1>2, <1>9, <2>2 DEF FreshInv, Running, Shrinks
    <3>. QED
      BY <1>1, <3>1 DEF TaskOK
  <2>. QED
    BY <2>1, <2>2
<1>10. excused' \/ Told' \/ Reached(task[v]) \/ (Running(v) /\ ~Reached(task[v]))'
  <2>1. CASE n = Ended
    BY <1>2, <2>1
  <2>2. CASE Advances(t, n)
    <3>1. Reached(n)' => Reached(n)
      BY <1>1 DEF Reached, Attached
    <3>2. Running(v)'
      BY <1>2, <2>2 DEF Running, Advances
    <3>. QED
      BY <1>2, <1>5, <2>2, <3>1, <3>2 DEF Advances
  <2>. QED
    BY <2>1, <2>2
<1>11. ver' = ver /\ (excused \/ Told) => excused' \/ Told'
  <2>1. excused => excused'
    BY <1>2
  <2>2. ver' = ver /\ Told => Told'
    BY <1>3, <1>5 DEF Told
  <2>. QED
    BY <2>1, <2>2
<1>12. ASSUME NEW w \in Versions \ {v}, Running(w), ~Reached(task[w])
       PROVE  (Running(w) /\ ~Reached(task[w]))'
  <2>1. task'[w] = tasks[w]
    BY <1>2
  <2>2. Running(w)'
    BY <1>12, <2>1 DEF Running, Shrinks
  <2>3. \A i \in Socks : i \in task'[w].seen /\ i \notin task'[w].dead
                           => i \in task[w].seen /\ i \notin task[w].dead
    BY <2>1 DEF Shrinks
  <2>4. ~Reached(task[w])'
    BY <1>1, <1>12, <2>3 DEF Reached, Attached
  <2>. QED
    BY <2>2, <2>4
<1>. QED
  BY <1>7, <1>8, <1>9, <1>10, <1>11, <1>12

LEMMA CommitFresh ==
  ASSUME IInv, FreshInv, Commit
  PROVE  FreshInv'
<1>1. PICK v \in Versions : v = ver + 1
  BY DEF Commit, IInv, TypeOK, Versions
<1>2. /\ ver' = v /\ ver' \in Versions /\ ver' >= ver /\ v <= ver' /\ v > ver
      /\ UNCHANGED <<shown, asked, replies>>
  BY <1>1 DEF Commit, IInv, TypeOK, Versions
<1>3. PICK n \in IF conns["job"] = {} THEN Dashboards(NoTask)
                 ELSE {Sent(Started(NoTask, "job"), i) : i \in conns["job"]} :
        Becomes(v, n, task)
  BY <1>1 DEF Commit
<1>4. n \in Tasks /\ (n = Ended \/ Advances(NoTask, n))
  <2>1. "job" \in Urls
    BY DEF Urls
  <2>2. CASE conns["job"] = {}
    BY <1>3, <2>2, NoTaskType, NoneReached, DashboardsType, DashboardsAdvance DEF IInv
  <2>3. CASE conns["job"] # {}
    <3>1. PICK i \in conns["job"] : n = Sent(Started(NoTask, "job"), i)
      BY <1>3, <2>3
    <3>2. i \in AnySock
      BY <2>1 DEF IInv, TypeOK
    <3>. QED
      BY <2>1, <3>1, <3>2, NoTaskType, NoneReached, StartedType, SentType, StartAdvances
         DEF IInv
  <2>. QED
    BY <2>2, <2>3
<1>5. ~Reached(task[v])
  <2>1. task[v].seen = {}
    BY <1>2 DEF FreshInv, NothingNew
  <2>. QED
    BY <2>1 DEF Reached
<1>6. task \in [Versions -> Tasks] /\ Shrinks(task)
  BY DEF Shrinks, IInv, TypeOK
<1>7. /\ NothingNew' /\ EventsOpen'
      /\ \A w \in Versions : Running(w)' => TaskOK(task[w])'
      /\ excused' \/ Told' \/ (Running(v) /\ ~Reached(task[v]))'
  BY <1>2, <1>3, <1>4, <1>5, <1>6, NoTaskType, NoneReached, BecomesFresh
<1>8. Fresh'
  BY <1>2, <1>7 DEF Fresh
<1>. QED
  BY <1>7, <1>8 DEF FreshInv

LEMMA ResumeFresh ==
  ASSUME IInv, FreshInv, NEW v \in Versions, Resume(v)
  PROVE  FreshInv'
<1>1. /\ task[v] \in Tasks /\ task[v].at \in Urls /\ task[v].dead \in SUBSET AnySock
      /\ task \in [Versions -> Tasks] /\ TaskOK(task[v]) /\ ver \in Versions
      /\ UNCHANGED <<ver, shown, asked, replies>>
  BY DEF Resume, Running, Continue, IInv, TypeOK, Tasks, FreshInv
<1>2. v <= ver
  <2>1. task[v].at # "none"
    BY <1>1 DEF Urls
  <2>. QED
    BY <1>1, <2>1 DEF FreshInv, NothingNew, Versions
<1>3. PICK n \in Tasks, tasks \in [Versions -> Tasks] :
        /\ Shrinks(tasks) /\ Becomes(v, n, tasks)
        /\ n = Ended \/ Advances(task[v], n)
  <2>1. Shrinks(task)
    BY DEF Shrinks
  <2>2. CASE Becomes(v, Ended, task)
    BY <1>1, <2>1, <2>2, NoTaskType
  <2>3. CASE \E i \in Given(task[v]) : Becomes(v, Sent(task[v], i), task)
    <3>1. PICK i \in Given(task[v]) : Becomes(v, Sent(task[v], i), task)
      BY <2>3
    <3>2. i \in conns[task[v].at] /\ i \in AnySock
      BY <1>1 DEF Given, IInv, TypeOK
    <3>3. Sent(task[v], i) \in Tasks /\ Advances(task[v], Sent(task[v], i))
      BY <1>1, <3>2, SentType, SentAdvances
    <3>. QED
      BY <1>1, <2>1, <3>1, <3>3
  <2>4. CASE \E n \in IF task[v].at = "job" THEN Dashboards(task[v]) ELSE {Ended} :
                Becomes(v, n, Without(task[v].at, task[v].dead))
    <3>1. PICK n \in IF task[v].at = "job" THEN Dashboards(task[v]) ELSE {Ended} :
                Becomes(v, n, Without(task[v].at, task[v].dead))
      BY <2>4
    <3>2. n \in Tasks /\ (n = Ended \/ Advances(task[v], n))
      BY <1>1, <3>1, NoTaskType, DashboardsType, DashboardsAdvance DEF IInv
    <3>3. /\ Without(task[v].at, task[v].dead) \in [Versions -> Tasks]
          /\ Shrinks(Without(task[v].at, task[v].dead))
      BY <1>1, WithoutType, WithoutShrinks DEF IInv
    <3>. QED
      BY <3>1, <3>2, <3>3
  <2>. QED
    BY <2>2, <2>3, <2>4 DEF Resume, Continue
<1>4. ver' \in Versions /\ ver' >= ver /\ v <= ver' /\ ver' = ver
  BY <1>1, <1>2 DEF Versions
<1>5. /\ NothingNew' /\ EventsOpen'
      /\ \A w \in Versions : Running(w)' => TaskOK(task[w])'
      /\ \/ excused' \/ Told' \/ Reached(task[v])
         \/ (Running(v) /\ ~Reached(task[v]))'
      /\ excused \/ Told => excused' \/ Told'
      /\ \A w \in Versions \ {v} :
           Running(w) /\ ~Reached(task[w]) => (Running(w) /\ ~Reached(task[w]))'
  BY <1>1, <1>3, <1>4, BecomesFresh
<1>6. Fresh'
  <2>1. CASE excused \/ Told
    BY <1>5, <2>1 DEF Fresh
  <2>2. CASE Running(ver) /\ ~Reached(task[ver])
    <3>1. PICK w \in Versions : w = ver
      BY <1>1
    <3>2. excused' \/ Told' \/ (Running(w) /\ ~Reached(task[w]))'
      BY <1>5, <2>2, <3>1
    <3>. QED
      BY <1>4, <3>1, <3>2 DEF Fresh
  <2>. QED
    BY <2>1, <2>2 DEF FreshInv, Fresh
<1>. QED
  BY <1>5, <1>6 DEF FreshInv

-------------------------------------------------------------------------------
(* The server process.                                                       *)

LEMMA ProcessFresh ==
  ASSUME IInv, FreshInv, ChangeSilently \/ Crash \/ Restart
  PROVE  FreshInv'
<1>1. CASE ChangeSilently
  <2>1. /\ ver' = ver + 1 /\ excused' = TRUE /\ UNCHANGED <<sock, replies>> /\ UNCHANGED task
    BY <1>1 DEF ChangeSilently, manager
  <2>2. NothingNew'
    <3>1. ver \in Nat /\ (\A r \in replies : r.ver \in Nat /\ r.ver <= ver)
      BY DEF FreshInv, NothingNew, IInv, TypeOK, Versions
    <3>2. \A v \in Versions : v > ver' => v > ver
      BY <2>1, <3>1 DEF Versions
    <3>3. \A r \in replies : r.ver <= ver'
      BY <2>1, <3>1
    <3>. QED
      BY <2>1, <3>2, <3>3 DEF FreshInv, NothingNew
  <2>3. Fresh' /\ EventsOpen'
    BY <2>1 DEF FreshInv, EventsOpen, Fresh
  <2>4. \A v \in Versions : Running(v)' => TaskOK(task[v])'
    BY <2>1 DEF FreshInv, Running, TaskOK
  <2>. QED
    BY <2>2, <2>3, <2>4 DEF FreshInv
<1>2. CASE Crash
  <2>1. /\ task' = [v \in Versions |-> IF Running(v) THEN Ended ELSE task[v]]
        /\ excused' = (excused \/ \E v \in Versions : Running(v))
        /\ UNCHANGED <<ver, shown, asked, replies>>
    BY <1>2 DEF Crash
  <2>2. \A v \in Versions : ~Running(v)'
    BY <2>1, EndedFacts DEF Running
  <2>3. NothingNew'
    <3>1. ASSUME NEW v \in Versions, v > ver PROVE task'[v] = task[v]
      <4>1. ~Running(v)
        BY <3>1 DEF FreshInv, NothingNew, Running, Urls
      <4>. QED
        BY <2>1, <4>1
    <3>. QED
      BY <2>1, <3>1 DEF FreshInv, NothingNew
  <2>4. \A i \in Socks : \/ sock'[i].events = 0 /\ sock[i].client = "closed"
                         \/ /\ sock'[i].events = sock[i].events
                            /\ sock'[i].client = sock[i].client
    <3>1. TAKE i \in Socks
    <3>. DEFINE next == [sock[i] EXCEPT !.server = "gone"]
    <3>2. next.events = sock[i].events /\ next.client = sock[i].client
      BY DEF IInv, TypeOK, Ends
    <3>3. sock'[i] \in {sock[i], next} \/ (sock'[i] = FreeSock /\ sock[i].client = "closed")
      BY <1>2 DEF Crash
    <3>. HIDE DEF next
    <3>. QED
      BY <3>2, <3>3 DEF FreeSock
  <2>5. EventsOpen'
    BY <2>4 DEF FreshInv, EventsOpen
  <2>6. Fresh'
    <3>1. CASE excused \/ \E v \in Versions : Running(v)
      BY <2>1, <3>1 DEF Fresh
    <3>2. CASE Told
      <4>1. \A i \in Socks : sock[i].events > 0 => sock'[i].events > 0
        BY <2>4 DEF FreshInv, EventsOpen
      <4>. QED
        BY <2>1, <3>2, <4>1 DEF Fresh, Told
    <3>3. ver \in Versions
      BY DEF IInv, TypeOK
    <3>. QED
      BY <3>1, <3>2, <3>3 DEF FreshInv, Fresh
  <2>. QED
    BY <2>2, <2>3, <2>5, <2>6 DEF FreshInv
<1>3. CASE Restart
  <2>1. UNCHANGED <<ver, shown, asked, replies, excused>> /\ UNCHANGED <<sock, task>>
    BY <1>3 DEF Restart, view, manager
  <2>. QED
    BY <2>1 DEF FreshInv, Fresh, Told, NothingNew, EventsOpen, TaskOK, Running,
                       Reached, Attached
<1>. QED
  BY <1>1, <1>2, <1>3

LEMMA FreshNext == IInv /\ FreshInv /\ [Next]_vars => FreshInv'
<1>. SUFFICES ASSUME IInv, FreshInv, [Next]_vars PROVE FreshInv'
  OBVIOUS
<1>1. CASE Next
  <2>1. Visited \subseteq Urls
    OBVIOUS
  <2>. QED
    BY <1>1, <2>1, CommitFresh, ProcessFresh, ServiceFresh, FetchingFresh, ResumeFresh,
              VisitingFresh, EndpointFresh, SocketFresh DEF Next
<1>2. CASE UNCHANGED vars
  <2>1. UNCHANGED <<ver, shown, asked, replies, excused, sock, task>>
    BY <1>2 DEF vars, view, manager
  <2>. QED
    BY <2>1 DEF FreshInv, Fresh, Told, NothingNew, EventsOpen, TaskOK, Running,
                       Reached, Attached
<1>. QED
  BY <1>1, <1>2

-------------------------------------------------------------------------------
(* The theorems.                                                             *)

\* Sockets, channels, broadcasts and the page are well-formed: this.ws is set
\* from the first connect on (websocket.js, lines 15-30), which is what its
\* reconnecting relies on.
THEOREM TypeCorrect == Spec => []TypeOK
<1>1. IInv => TypeOK
  BY DEF IInv
<1>. QED
  BY <1>1, Invariance, PTL

\* The sets of the ConnectionManager (websocket.py) keep no connection whose
\* endpoint (main.py, lines 1486-1551) has ended, whatever broadcasts discard,
\* raise or skip meanwhile.
THEOREM SubscribedServed == Spec => []SubscribedIsServed
<1>1. IInv => SubscribedIsServed
  BY DEF IInv
<1>. QED
  BY <1>1, Invariance, PTL

\* A view shows the job as it is once nothing about it is under way: each
\* broadcast that a subscribed page was sent (websocket.py, lines 37-63) makes
\* the view fetch what it announced, in whatever order sockets open and break,
\* events are handled and replies arrive (websocket.js, JobDetail.vue), and the
\* only ways left to miss a change are those that excused records.
THEOREM ViewFresh == Spec => []ViewIsFresh
<1>1. IInv /\ FreshInv => ViewIsFresh
  <2>. SUFFICES ASSUME IInv, FreshInv, Quiet, ~excused PROVE shown = ver
    BY DEF ViewIsFresh
  <2>1. ~Running(ver)
    BY DEF Quiet, IInv, TypeOK
  <2>2. Told
    BY <2>1 DEF FreshInv, Fresh
  <2>3. asked["mount"] = 0 /\ asked["event"] = 0 /\ replies = {}
        /\ \A i \in Socks : sock[i].events = 0
    BY DEF Quiet
  <2>. QED
    BY <2>2, <2>3 DEF Told
<1>. QED
  BY <1>1, FreshInit, FreshNext, InitInv, NextInv, PTL DEF Spec
===============================================================================
