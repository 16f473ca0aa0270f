----------------------------- MODULE AuditStream -----------------------------
(***************************************************************************)
(* The live audit stream: internal/audit/websocket.go, and the requests    *)
(* that feed it (pkg/middleware/audit.go) or open a connection to it       *)
(* (api/v1/audit.go).                                                      *)
(*                                                                         *)
(* One goroutine, the dispatcher, takes logs from a channel and writes     *)
(* them to the clients under the read lock of an RWMutex.  Connections are *)
(* added and removed under its write lock.  As in Go, a goroutine that     *)
(* waits for the write lock (one at a time: announced) keeps new readers   *)
(* out, and a goroutine that holds the read lock never gets it.  Nothing   *)
(* sets a deadline on a write.                                             *)
(***************************************************************************)
EXTENDS AuditLogs, FiniteSets, Naturals, Sequences

CONSTANTS Conns,         \* connections
          Dispatcher,    \* the goroutine of Start
          Capacity,      \* of the channel, 100 in the code
          PeerFaults     \* what may become of a peer: "stalled", "gone"

ASSUME AuditStreamAssumption ==
  /\ None \notin Conns \cup Apps \cup Requests /\ Dispatcher \notin Conns \cup {None}
  /\ Capacity \in Nat \ {0} /\ MaxLogs \in Nat
  /\ PeerFaults \subseteq {"stalled", "gone"}

Log == [id : 1..MaxLogs, app : Apps]

VARIABLES
  queue,           \* the channel
  request,         \* the log a request is sending, or None
  made,            \* logs made so far
  disp,            \* where the dispatcher is
  hand, todo,      \* the log it has in hand, the clients it has to visit
  failed,          \* the client it is removing
  reading,         \* it holds the read lock
  announced,       \* the goroutine next in line for the write lock, or None
  stage, app,      \* of each connection: its goroutine's place, its application
  clients, closed, \* connections in the map; connections closed at this end
  peer,            \* "alive", "stalled" (takes no more data for now) or "gone"
  broadcast,       \* history: logs broadcast
  since, got       \* history: logs broadcast when a client came; logs it was sent

dispatcher == <<disp, hand, todo, failed, reading>>
conns      == <<stage, app, clients, closed>>
history    == <<broadcast, since, got>>
streamVars == <<queue, request, made, dispatcher, announced, conns, peer, history>>

\* A goroutine that wants the write lock
Wants(g) == IF g = Dispatcher THEN disp = "remove" ELSE stage[g] \in {"add", "remove"}

StreamTypeOK ==
  /\ queue \in Seq(Log) /\ Len(queue) <= Capacity
  /\ request \in [Requests -> Log \cup {None}]
  /\ disp \in {"receive", "rlock", "visit", "remove"}
  /\ hand \in Log \cup {None} /\ (disp # "receive" => hand # None)
  /\ todo \subseteq clients
  /\ clients \subseteq Conns /\ closed \subseteq Conns
  /\ \A c \in clients : stage[c] \in {"read", "remove"}
  /\ announced # None => Wants(announced)
  /\ peer \in [Conns -> {"alive", "stalled", "gone"}]

StreamInit ==
  /\ queue = << >> /\ made = 0
  /\ request = [r \in Requests |-> None]
  /\ disp = "receive" /\ hand = None /\ todo = {} /\ failed = None /\ reading = FALSE
  /\ announced = None
  /\ stage = [c \in Conns |-> "new"] /\ app \in [Conns -> Apps]
  /\ clients = {} /\ closed = {}
  /\ peer = [c \in Conns |-> "alive"]
  /\ broadcast = << >>
  /\ since = [c \in Conns |-> 0] /\ got = [c \in Conns |-> << >>]

-----------------------------------------------------------------------------
(* Requests.                                                               *)

\* A request of application a is over and its log is written.
MakeLog(r, a) ==
  /\ request[r] = None /\ made < MaxLogs
  /\ made' = made + 1
  /\ request' = [request EXCEPT ![r] = [id |-> made + 1, app |-> a]]
  /\ UNCHANGED <<queue, dispatcher, announced, conns, peer, history>>

\* Broadcast: the request waits while the channel is full.
Broadcast(r) ==
  /\ request[r] # None /\ Len(queue) < Capacity
  /\ queue' = Append(queue, request[r])
  /\ request' = [request EXCEPT ![r] = None]
  /\ UNCHANGED <<made, dispatcher, announced, conns, peer, history>>

-----------------------------------------------------------------------------
(* The dispatcher.                                                         *)

Start ==
  /\ disp = "receive" /\ queue # << >>
  /\ hand' = Head(queue) /\ queue' = Tail(queue)
  /\ disp' = "rlock"
  /\ UNCHANGED <<request, made, todo, failed, reading, announced, conns, peer, history>>

\* Mutant: the log goes to the clients of every application.
BroadcastToAll ==
  /\ disp = "rlock" /\ announced = None
  /\ reading' = TRUE /\ todo' = clients
  /\ disp' = "visit"
  /\ UNCHANGED <<queue, request, made, hand, failed, announced, conns, peer, history>>

\* broadcastLog: only the clients of the log's application are visited.
RLock ==
  /\ disp = "rlock" /\ announced = None
  /\ reading' = TRUE /\ todo' = {c \in clients : app[c] = hand.app}
  /\ disp' = "visit"
  /\ UNCHANGED <<queue, request, made, hand, failed, announced, conns, peer, history>>

\* Mutant: the dispatcher takes the read lock again for each client.
DeliverRelocking(c) ==
  /\ disp = "visit" /\ c \in todo
  /\ c \notin closed /\ peer[c] = "alive" /\ announced = None
  /\ todo' = todo \ {c}
  /\ got' = [got EXCEPT ![c] = Append(@, hand)]
  /\ UNCHANGED <<queue, request, made, disp, hand, failed, reading, announced, conns, peer,
                 broadcast, since>>

Deliver(c) ==
  /\ disp = "visit" /\ c \in todo
  /\ c \notin closed /\ peer[c] = "alive"
  /\ todo' = todo \ {c}
  /\ got' = [got EXCEPT ![c] = Append(@, hand)]
  /\ UNCHANGED <<queue, request, made, disp, hand, failed, reading, announced, conns, peer,
                 broadcast, since>>

\* The system takes the data of a peer that is gone but not known to be.
DeliverInVain(c) ==
  /\ disp = "visit" /\ c \in todo
  /\ peer[c] = "gone"
  /\ todo' = todo \ {c}
  /\ UNCHANGED <<queue, request, made, disp, hand, failed, reading, announced, conns, peer,
                 history>>

WriteFails(c) ==
  /\ disp = "visit" /\ c \in todo
  /\ peer[c] = "gone" \/ c \in closed
  /\ todo' = todo \ {c}
  /\ disp' = "remove" /\ failed' = c
  /\ UNCHANGED <<queue, request, made, hand, reading, announced, conns, peer, history>>

Finish ==
  /\ disp = "visit" /\ todo = {}
  /\ disp' = "receive" /\ hand' = None /\ reading' = FALSE
  /\ broadcast' = Append(broadcast, hand)
  /\ UNCHANGED <<queue, request, made, todo, failed, announced, conns, peer, since, got>>

-----------------------------------------------------------------------------
(* Connections.                                                            *)

HandleWebSocket(c) ==
  /\ stage[c] = "new"
  /\ stage' = [stage EXCEPT ![c] = "add"]
  /\ UNCHANGED <<queue, request, made, dispatcher, announced, app, clients, closed, peer,
                 history>>

\* mu.Lock, up to the wait for the readers to leave
Announce(g) ==
  /\ announced = None /\ Wants(g)
  /\ announced' = g
  /\ UNCHANGED <<queue, request, made, dispatcher, conns, peer, history>>

AddClient(c) ==
  /\ stage[c] = "add"
  /\ announced = c /\ ~reading
  /\ announced' = None
  /\ clients' = clients \cup {c}
  /\ stage' = [stage EXCEPT ![c] = "read"]
  /\ since' = [since EXCEPT ![c] = Len(broadcast)]
  /\ UNCHANGED <<queue, request, made, dispatcher, app, closed, peer, broadcast, got>>

\* readPump: reading fails once the peer is gone or this end is closed.
ReadPump(c) ==
  /\ stage[c] = "read"
  /\ peer[c] = "gone" \/ c \in closed
  /\ stage' = [stage EXCEPT ![c] = "remove"]
  /\ UNCHANGED <<queue, request, made, dispatcher, announced, app, clients, closed, peer,
                 history>>

\* Called by c's readPump, or by the dispatcher when it could not write to c
RemoveClient(g, c) ==
  /\ Wants(g) /\ c = IF g = Dispatcher THEN failed ELSE g
  /\ g # Dispatcher => stage[g] = "remove"
  /\ announced = g /\ ~reading
  /\ announced' = None
  /\ clients' = clients \ {c}
  /\ closed' = IF c \in clients THEN closed \cup {c} ELSE closed
  /\ stage' = IF g = Dispatcher THEN stage ELSE [stage EXCEPT ![g] = "done"]
  /\ disp' = IF g = Dispatcher THEN "visit" ELSE disp
  /\ UNCHANGED <<queue, request, made, hand, todo, failed, reading, app, peer, history>>

\* The other end stops reading, reads again, or goes away.
PeerChanges(c) ==
  /\ stage[c] # "new" /\ peer[c] # "gone"
  /\ \/ \E p \in PeerFaults \ {peer[c]} : peer' = [peer EXCEPT ![c] = p]
     \/ peer[c] = "stalled" /\ peer' = [peer EXCEPT ![c] = "alive"]
  /\ UNCHANGED <<queue, request, made, dispatcher, announced, conns, history>>

StreamNext ==
  \/ \E r \in Requests : Broadcast(r) \/ \E a \in Apps : MakeLog(r, a)
  \/ Start \/ RLock \/ Finish
  \/ \E c \in Conns :
       \/ Deliver(c) \/ DeliverInVain(c) \/ WriteFails(c)
       \/ HandleWebSocket(c) \/ AddClient(c) \/ ReadPump(c) \/ PeerChanges(c)
  \/ \E g \in Conns \cup {Dispatcher} : Announce(g) \/ \E c \in Conns : RemoveClient(g, c)

StreamSpec == StreamInit /\ [][StreamNext]_streamVars

\* Goroutines are scheduled; the senders a full channel keeps waiting are
\* served in turn; a peer that keeps coming back takes the data in the end.
StreamFairness ==
  /\ \A r \in Requests : SF_streamVars(Broadcast(r))
  /\ WF_streamVars(Start) /\ WF_streamVars(RLock) /\ WF_streamVars(Finish)
  /\ \A c \in Conns :
       /\ SF_streamVars(Deliver(c)) /\ WF_streamVars(DeliverInVain(c) \/ WriteFails(c))
       /\ WF_streamVars(AddClient(c)) /\ WF_streamVars(ReadPump(c))
  /\ \A g \in Conns \cup {Dispatcher} :
       WF_streamVars(Announce(g)) /\ \A c \in Conns : WF_streamVars(RemoveClient(g, c))

FairStreamSpec == StreamSpec /\ StreamFairness

-----------------------------------------------------------------------------
(* Properties.                                                             *)

\* What has been broadcast, the log in hand included once c has been visited
Sent(c) ==
  broadcast \o IF disp \in {"visit", "remove"} /\ c \notin todo THEN <<hand>> ELSE << >>

\* Where in it the logs are that c is to get: those of its application, since it came
Due(c) == {i \in DOMAIN Sent(c) : i > since[c] /\ Sent(c)[i].app = app[c]}

\* A client that stays gets every log of its application that is broadcast
\* after it came, once, in order, and no other log, whoever comes and goes in
\* the meantime: there is a place among those due for each log it got, in
\* order, and one for each that is due.
GaplessStream ==
  \A c \in clients :
    peer[c] # "gone" =>
      \E place \in [DOMAIN got[c] -> Due(c)] :
        /\ \A i, j \in DOMAIN got[c] : i < j => place[i] < place[j]
        /\ \A k \in Due(c) : \E i \in DOMAIN got[c] : place[i] = k
        /\ \A i \in DOMAIN got[c] : got[c][i] = Sent(c)[place[i]]

\* Unless a write fails or a peer stalls for good, every request gets past
\* Broadcast, however full the channel is.
StreamFlows ==
  /\ [](disp # "remove")
  /\ \A c \in Conns : []<>(peer[c] # "stalled" \/ c \notin clients)
  => \A r \in Requests : request[r] # None ~> request[r] = None

\* Audit logs are streamed in real time: a log in the channel is broadcast.
LogsAreStreamed ==
  \A i \in 1..MaxLogs :
    (\E k \in 1..Len(queue) : queue[k].id = i) ~> (\E k \in 1..Len(broadcast) : broadcast[k].id = i)
=============================================================================
