----------------------------- MODULE WebsocketHub -----------------------------
(***************************************************************************)
(* The websocket server of gou: the hub (websocket/hub.go), the upgrader   *)
(* that starts and stops it and the two pumps of each connection           *)
(* (websocket/upgrader.go).                                                *)
(*                                                                         *)
(* The hub is one goroutine in a select.  Its channels have no capacity,   *)
(* so a send to it is a step of the sender and of the hub together, taken  *)
(* while the hub is at its select; a blocked sender is one whose step is   *)
(* not enabled.  Each connection has a buffered channel, send, that the    *)
(* hub fills and closes and its writePump empties.                         *)
(***************************************************************************)
EXTENDS Naturals, Sequences, FiniteSets

CONSTANTS Conns,        \* connections; one that has ended makes room for another
          SendCap,      \* capacity of Client.send (256 in the code)
          MaxEvents     \* bound: connections accepted and messages sent

ASSUME HubAssumption ==
  /\ IsFiniteSet(Conns) /\ SendCap \in Nat \ {0}
  /\ MaxEvents \in Nat

VARIABLES
  hub,         \* where Hub.run stands; "select" when it takes a message
  clients,     \* Hub.clients
  indexes,     \* the values of Hub.indexes; the key of one is its id
  todo, cast,  \* clients the broadcast under way has yet to visit; its number
  id,          \* Client.id, 0 before NextID
  send,        \* what Client.send holds
  chan,        \* whether Client.send is open
  conn,        \* whether the connection is open on this side
  rpc, wpc,    \* where readPump and writePump stand
  upgrader,    \* where Upgrader.Start stands
  status,      \* Upgrader.status
  stopper,     \* where a caller of Stop stands
  events,      \* connections accepted and messages sent so far
  \* History, read by no action:
  heard,       \* last broadcast a running writePump wrote, or before register
  owed,        \* responses to a running writePump that it has yet to write
  mixed        \* a client has departed, or two upgrades have overlapped

hubVars == <<hub, clients, indexes, todo, cast>>
pumpVars == <<id, send, chan, conn, rpc, wpc>>
startVars == <<upgrader, status, stopper>>
history == <<heard, owed, mixed>>
vars == <<hubVars, pumpVars, startVars, events, history>>

\* What travels: a broadcast, a message of the application to an id, a response
\* of the handler of a connection, to its id.
Ids == 0..Cardinality(Conns)
Broadcasts == [kind: {"broadcast"}, n: 1..MaxEvents]
Directs == [kind: {"direct"}, to: Ids]
Responses == [kind: {"response"}, to: Ids, of: Conns]
Messages == Broadcasts \cup Directs \cup Responses

Init ==
  /\ hub = "new" /\ clients = {} /\ indexes = {} /\ todo = {} /\ cast = 0
  /\ id = [c \in Conns |-> 0]
  /\ send = [c \in Conns |-> <<>>]
  /\ chan = [c \in Conns |-> "none"] /\ conn = [c \in Conns |-> "none"]
  /\ rpc = [c \in Conns |-> "none"] /\ wpc = [c \in Conns |-> "none"]
  /\ upgrader = "new" /\ status = "WAITING" /\ stopper = "idle"
  /\ events = 0
  /\ heard = [c \in Conns |-> 0] /\ owed = [c \in Conns |-> 0]
  /\ mixed = FALSE

-----------------------------------------------------------------------------
(* The hub.                                                                *)

\* Mutation: ids start again for each connection.
NextID_first == 1

\* The number of clients plus one, read without any lock of the hub's.
NextID == Cardinality(clients) + 1

\* The entries that delete(h.indexes, client.id) leaves: it deletes by id.
WithoutID(c) == {d \in indexes : id[d] # id[c]}

\* Mutation: the entry of the client stays in indexes.
Drop_indexed(c) ==
  /\ clients' = clients \ {c}
  /\ indexes' = indexes
  /\ chan' = [chan EXCEPT ![c] = "closed"]
  /\ mixed' = TRUE

\* delete from both maps and close(client.send)
Drop(c) ==
  /\ clients' = clients \ {c}
  /\ indexes' = WithoutID(c)
  /\ chan' = [chan EXCEPT ![c] = "closed"]
  /\ mixed' = TRUE

\* Mutation: the send has no default and never drops the client.
Offer_queue(c, msg) ==
  send' = [send EXCEPT ![c] = Append(@, msg)] /\ UNCHANGED <<clients, indexes, chan, mixed>>

\* select { case client.send <- msg: default: drop the client }
Offer(c, msg) ==
  IF Len(send[c]) < SendCap
  THEN /\ send' = [send EXCEPT ![c] = Append(@, msg)]
       /\ UNCHANGED <<clients, indexes, chan, mixed>>
  ELSE Drop(c) /\ UNCHANGED send

\* The upgrade of a connection sends to register and starts the pumps.
Register(c) ==
  /\ hub = "select" /\ rpc[c] = "upgrading"
  /\ clients' = clients \cup {c}
  /\ indexes' = WithoutID(c) \cup {c}
  /\ rpc' = [rpc EXCEPT ![c] = "reading"] /\ wpc' = [wpc EXCEPT ![c] = "writing"]
  /\ heard' = [heard EXCEPT ![c] = cast]
  /\ UNCHANGED <<hub, todo, cast, id, send, chan, conn, startVars, events,
                 owed, mixed>>

\* The deferred function of readPump sends to unregister.
Unregister(c) ==
  /\ hub = "select" /\ rpc[c] = "leaving"
  /\ rpc' = [rpc EXCEPT ![c] = "closing"]
  /\ IF c \in clients THEN Drop(c) ELSE UNCHANGED <<clients, indexes, chan, mixed>>
  /\ UNCHANGED <<hub, todo, cast, id, send, conn, wpc, startVars, events,
                 heard, owed>>

\* case message := <-h.direct, for the client that has the id, if any
Deliver(i, msg) ==
  LET found == {c \in indexes : id[c] = i} IN
  \/ \E c \in found : Offer(c, msg)
  \/ found = {} /\ UNCHANGED <<clients, indexes, send, chan, mixed>>

\* readPump sends the response of the handler to direct, under its own id.
Respond(c) ==
  /\ hub = "select" /\ rpc[c] = "responding"
  /\ Deliver(id[c], [kind |-> "response", to |-> id[c], of |-> c])
  /\ rpc' = [rpc EXCEPT ![c] = "reading"]
  /\ owed' = [owed EXCEPT ![c] = IF wpc[c] = "writing" THEN @ + 1 ELSE @]
  /\ UNCHANGED <<hub, todo, cast, id, conn, wpc, startVars, events, heard>>

\* Upgrader.Direct; when the hub is not at its select the message is dropped.
Direct(i) ==
  /\ hub = "select" /\ events < MaxEvents
  /\ events' = events + 1
  /\ Deliver(i, [kind |-> "direct", to |-> i])
  /\ UNCHANGED <<hub, todo, cast, id, conn, rpc, wpc, startVars, heard, owed>>

\* Upgrader.Broadcast; when the hub is not at its select it is dropped.
Broadcast ==
  /\ hub = "select" /\ events < MaxEvents
  /\ events' = events + 1
  /\ cast' = cast + 1 /\ todo' = clients
  /\ hub' = "broadcast"
  /\ UNCHANGED <<clients, indexes, pumpVars, startVars, history>>

\* Mutation: a client that is still writing what it has is passed over.
BroadcastTo_idle(c) ==
  /\ hub = "broadcast" /\ c \in todo
  /\ todo' = todo \ {c}
  /\ IF send[c] = <<>> THEN Offer(c, [kind |-> "broadcast", n |-> cast])
                        ELSE UNCHANGED <<clients, indexes, send, chan, mixed>>
  /\ UNCHANGED <<hub, cast, id, conn, rpc, wpc, startVars, events,
                 heard, owed>>

\* One turn of the loop over the clients, in any order.
BroadcastTo(c) ==
  /\ hub = "broadcast" /\ c \in todo
  /\ todo' = todo \ {c}
  /\ Offer(c, [kind |-> "broadcast", n |-> cast])
  /\ UNCHANGED <<hub, cast, id, conn, rpc, wpc, startVars, events,
                 heard, owed>>

BroadcastDone ==
  /\ hub = "broadcast" /\ todo = {}
  /\ hub' = "select"
  /\ UNCHANGED <<clients, indexes, todo, cast, pumpVars, startVars, events, history>>

\* Start sends 1 to hub.interrupt: every client is dropped and run returns.
Exit ==
  /\ hub = "select" /\ upgrader = "exiting"
  /\ hub' = "exited"
  /\ clients' = {}
  /\ indexes' = {d \in indexes : \A c \in clients : id[d] # id[c]}
  /\ chan' = [c \in Conns |-> IF c \in clients THEN "closed" ELSE chan[c]]
  /\ mixed' = (mixed \/ clients # {})
  /\ upgrader' = "closed" /\ status' = "CLOSED"
  /\ UNCHANGED <<todo, cast, id, send, conn, rpc, wpc, stopper, events,
                 heard, owed>>

-----------------------------------------------------------------------------
(* The upgrader.                                                           *)

\* Upgrader.Start: go hub.run(), then wait for an interrupt.  It is called once
\* here; server/http calls it for each start of the server.
Start ==
  /\ upgrader = "new"
  /\ upgrader' = "waiting" /\ status' = "LISTENING"
  /\ hub' = "select"
  /\ UNCHANGED <<clients, indexes, todo, cast, pumpVars, stopper, events, history>>

\* SIGINT or SIGTERM: the goroutine of Start sends 2 to interrupt.
Signal ==
  /\ upgrader = "waiting" /\ upgrader' = "exiting"
  /\ UNCHANGED <<hubVars, pumpVars, status, stopper, events, history>>

\* Upgrader.Stop tests the status and then sends 1 to interrupt.
Stop ==
  /\ stopper = "idle" /\ status # "CLOSED"
  /\ stopper' = "sending"
  /\ UNCHANGED <<hubVars, pumpVars, upgrader, status, events, history>>

\* Mutation: Start takes the interrupt and goes on waiting.
StopTaken_ignore ==
  /\ stopper = "sending" /\ upgrader = "waiting"
  /\ stopper' = "idle" /\ UNCHANGED upgrader
  /\ UNCHANGED <<hubVars, pumpVars, status, events, history>>

StopTaken ==
  /\ stopper = "sending" /\ upgrader = "waiting"
  /\ stopper' = "idle" /\ upgrader' = "exiting"
  /\ UNCHANGED <<hubVars, pumpVars, status, events, history>>

\* Upgrader.Upgrade after the handshake: the client and its id are made.
Upgrade(c) ==
  /\ {rpc[c], wpc[c]} \subseteq {"none", "done"} /\ c \notin clients
  /\ events < MaxEvents /\ events' = events + 1
  /\ id' = [id EXCEPT ![c] = NextID]
  /\ send' = [send EXCEPT ![c] = <<>>]
  /\ chan' = [chan EXCEPT ![c] = "open"] /\ conn' = [conn EXCEPT ![c] = "open"]
  /\ rpc' = [rpc EXCEPT ![c] = "upgrading"] /\ wpc' = [wpc EXCEPT ![c] = "none"]
  /\ mixed' = (mixed \/ \E d \in Conns : rpc[d] = "upgrading")
  /\ UNCHANGED <<hubVars, startVars, heard, owed>>

-----------------------------------------------------------------------------
(* The pumps.                                                              *)

\* readPump has read a message and the handler has a response to it.  Nothing
\* changes when it has none, and when it fails readPump ends as on an error.
Read(c) ==
  /\ rpc[c] = "reading" /\ conn[c] = "open" /\ events < MaxEvents
  /\ events' = events + 1
  /\ rpc' = [rpc EXCEPT ![c] = "responding"]
  /\ UNCHANGED <<hubVars, id, send, chan, conn, wpc, startVars, history>>

\* Mutation: readPump ends without its deferred function.
ReadError_return(c) ==
  /\ rpc[c] = "reading"
  /\ rpc' = [rpc EXCEPT ![c] = "done"]
  /\ UNCHANGED <<hubVars, id, send, chan, conn, wpc, startVars, events, history>>

\* A read fails: the peer has gone, is silent beyond PongWait, or conn is closed.
\* Or the handler has failed.
ReadError(c) ==
  /\ rpc[c] = "reading"
  /\ rpc' = [rpc EXCEPT ![c] = "leaving"]
  /\ UNCHANGED <<hubVars, id, send, chan, conn, wpc, startVars, events, history>>

\* A pump has ended and closes the connection.  rest is what it leaves in the
\* channel; when both have ended the client is garbage.
Ends(c, both, rest) ==
  /\ conn' = [conn EXCEPT ![c] = "closed"]
  /\ send' = [send EXCEPT ![c] = IF both THEN <<>> ELSE rest]
  /\ id' = [id EXCEPT ![c] = IF both THEN 0 ELSE @]

\* After unregister, the deferred function of readPump closes the connection.
ReadPumpEnds(c) ==
  /\ rpc[c] = "closing" /\ rpc' = [rpc EXCEPT ![c] = "done"]
  /\ Ends(c, wpc[c] = "done", send[c])
  /\ UNCHANGED <<hubVars, chan, wpc, startVars, events, history>>

\* The broadcasts and the responses of its own in the channel of a client.
Cast(c) == {k \in DOMAIN send[c] : send[c][k].kind = "broadcast"}
Own(c) == {k \in DOMAIN send[c] : send[c][k].kind = "response" /\ send[c][k].of = c}

\* writePump writes the message it took and those queued behind it.
Write(c) ==
  /\ wpc[c] = "writing" /\ send[c] # <<>> /\ conn[c] = "open"
  /\ heard' = [heard EXCEPT ![c] = @ + Cardinality(Cast(c))]
  /\ owed' = [owed EXCEPT ![c] = @ - Cardinality(Own(c))]
  /\ send' = [send EXCEPT ![c] = <<>>]
  /\ UNCHANGED <<hubVars, id, chan, conn, rpc, wpc, startVars, events, mixed>>

WriterEnds(c, rest) ==
  /\ wpc[c] = "writing" /\ wpc' = [wpc EXCEPT ![c] = "done"]
  /\ Ends(c, rpc[c] = "done", rest)
  /\ heard' = [heard EXCEPT ![c] = 0] /\ owed' = [owed EXCEPT ![c] = 0]
  /\ UNCHANGED <<hubVars, chan, rpc, startVars, events, mixed>>

\* A write fails, at the first message or at the end of all that were queued.
WriteError(c) ==
  send[c] # <<>> /\ \E rest \in {Tail(send[c]), <<>>} : WriterEnds(c, rest)

\* A ping fails.
PingError(c) == WriterEnds(c, send[c])

\* send is closed and empty: a Close message, and the connection is closed.
WritePumpEnds(c) ==
  send[c] = <<>> /\ chan[c] = "closed" /\ WriterEnds(c, <<>>)

Hub ==
  \/ \E c \in Conns : Register(c) \/ Unregister(c) \/ Respond(c) \/ BroadcastTo(c)
  \/ \E i \in 1..Cardinality(Conns) : Direct(i)
  \/ Broadcast \/ BroadcastDone \/ Exit

Pump(c) ==
  \/ Read(c) \/ ReadError(c) \/ ReadPumpEnds(c)
  \/ Write(c) \/ WriteError(c) \/ PingError(c) \/ WritePumpEnds(c)

Next ==
  \/ Hub \/ Start \/ Signal \/ Stop \/ StopTaken
  \/ \E c \in Conns : Upgrade(c) \/ Pump(c)

\* Goroutines run on: readPump, which waits for the hub to take what it sends
\* and whose read fails for sure only on a closed connection; writePump; the hub
\* and Start.  A select takes any ready case at random and senders to a channel
\* are served in order, so waiting senders are served; traffic is bounded here,
\* and weak fairness is enough.  The peers, the application, signals and the
\* call of Start owe nothing.
ReadPump(c) ==
  \/ Register(c) \/ Unregister(c) \/ Respond(c) \/ ReadPumpEnds(c)
  \/ conn[c] = "closed" /\ ReadError(c)
WritePump(c) == Write(c) \/ WriteError(c) \/ WritePumpEnds(c)
Turn == BroadcastDone \/ (\E c \in Conns : BroadcastTo(c)) \/ StopTaken \/ Exit

Fairness ==
  /\ \A c \in Conns : WF_vars(ReadPump(c)) /\ WF_vars(WritePump(c))
  /\ WF_vars(Turn)

Spec == Init /\ [][Next]_vars /\ Fairness

-----------------------------------------------------------------------------
(* Properties.                                                             *)

\* Every variable keeps its type; a send buffer never exceeds its capacity.
TypeOK ==
  /\ hub \in {"new", "select", "broadcast", "exited"}
  /\ clients \subseteq Conns /\ indexes \subseteq Conns /\ todo \subseteq Conns
  /\ cast \in 0..events /\ events \in 0..MaxEvents
  /\ id \in [Conns -> Ids]
  /\ send \in [Conns -> Seq(Messages)] /\ \A c \in Conns : Len(send[c]) <= SendCap
  /\ chan \in [Conns -> {"none", "open", "closed"}]
  /\ conn \in [Conns -> {"none", "open", "closed"}]
  /\ rpc \in [Conns -> {"none", "upgrading", "reading", "responding", "leaving",
                        "closing", "done"}]
  /\ wpc \in [Conns -> {"none", "writing", "done"}]
  /\ upgrader \in {"new", "waiting", "exiting", "closed"}
  /\ status \in {"WAITING", "LISTENING", "CLOSED"}
  /\ stopper \in {"idle", "sending"}
  /\ heard \in [Conns -> 0..cast] /\ owed \in [Conns -> 0..events] /\ mixed \in BOOLEAN

\* The hub never sends on a closed channel nor closes one twice, which would
\* end the process: whomever it may still reach, by id, by the loop of a
\* broadcast or by the departure of a client, has its channel open (hub.go:60-94).
NoSendOnClosed ==
  /\ \A c \in clients \cup indexes \cup todo : chan[c] = "open"
  /\ \A c, d \in indexes : id[c] = id[d] => c = d

\* Whatever was addressed and has come to a client carries its id; and while no
\* client has departed and no two upgrades have overlapped, ids are unique and
\* a response reaches only the client that asked (hub.go:67-82, upgrader.go:258).
ResponseIsOwn ==
  \A c \in Conns : \A k \in DOMAIN send[c] :
    LET m == send[c][k] IN
    /\ m.kind # "broadcast" => m.to = id[c]
    /\ m.kind = "response" => mixed \/ m.of = c

\* A listed client whose writePump runs has had, or has queued, every broadcast
\* since it registered, in order, but for the one under way, and, while ids are
\* unique, every response of its own: only who is dropped misses one
\* (hub.go:67-92).
NoGap ==
  \A c \in clients : wpc[c] = "writing" =>
    /\ heard[c] + Cardinality(Cast(c)) = cast - (IF c \in todo THEN 1 ELSE 0)
    /\ \A k \in Cast(c) : send[c][k].n = heard[c] + Cardinality(Cast(c) \cap 1..k)
    /\ ~mixed => Cardinality(Own(c)) = owed[c]

\* Once the hub has dropped a client, for being slow, at its own departure or at
\* the exit of the hub, or the connection has failed on either side, it comes to
\* be closed, the hub forgets it, and readPump ends unless the hub has exited
\* and will not take its departure (upgrader.go:179-191, 231-234).
DeadLeaves ==
  \A c \in Conns :
    chan[c] = "closed" \/ conn[c] = "closed" ~>
      conn[c] = "closed" /\ c \notin clients /\ (hub = "exited" \/ rpc[c] = "done")

\* A Stop of an upgrader that has been started ends the hub, whatever the
\* clients and the application go on sending (upgrader.go:98-109).
StopEndsHub == (stopper = "sending" /\ upgrader # "new") ~> hub = "exited"
=============================================================================
