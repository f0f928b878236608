-------------------------- MODULE WebsocketHubProofs --------------------------
(***************************************************************************)
(* Proofs about WebsocketHub for any finite set of connections, any        *)
(* capacity of their channels and any number of messages.                  *)
(*                                                                         *)
(* That the hub sends to no closed channel rests on the two maps of the    *)
(* hub agreeing (Open): the ids never list a client the hub has dropped,   *)
(* and a connection being upgraded is not listed yet.  That a response     *)
(* stays with its client rests on the ids being the positions of the       *)
(* clients for as long as none has departed (Distinct).  That no client    *)
(* misses a message is proved on top of these (Flow): what was sent is in  *)
(* its channel or has been written, and its responses were asked for.      *)
(***************************************************************************)
EXTENDS WebsocketHub, FiniteSetTheorems, TLAPS

Wire == [kind: {"broadcast"}, n: Nat] \cup [kind: {"direct"}, to: Nat]
        \cup [kind: {"response"}, to: Nat, of: Conns]

Active == {"reading", "responding", "leaving"}
Stages == Active \cup {"none", "upgrading", "closing", "done"}

Types ==
  /\ clients \subseteq Conns /\ indexes \subseteq Conns
  /\ id \in [Conns -> Nat] /\ send \in [Conns -> Seq(Wire)]
  /\ chan \in [Conns -> {"none", "open", "closed"}]
  /\ rpc \in [Conns -> Stages] /\ wpc \in [Conns -> {"none", "writing", "done"}]
  /\ mixed \in BOOLEAN

\* Nobody but the loop of a broadcast has clients yet to visit, and there is
\* none before Start.
Walk ==
  /\ todo \subseteq clients /\ (todo # {} => hub = "broadcast") /\ cast \in Nat
  /\ upgrader = "new" => hub = "new"

Open ==
  /\ \A c \in clients : chan[c] = "open" /\ rpc[c] \in Active
  /\ \A c \in Conns : rpc[c] = "upgrading" => chan[c] = "open"
  /\ indexes \subseteq clients
  /\ \A c, d \in indexes : id[c] = id[d] => c = d

\* While no client has departed and no upgrades have overlapped, the ids are
\* 1 .. Cardinality(clients), and the next one is that of the upgrade under way.
Distinct == ~mixed =>
  /\ \A c \in clients : id[c] \in 1..Cardinality(clients)
  /\ \A c, d \in clients : id[c] = id[d] => c = d
  /\ \A c \in Conns : rpc[c] = "upgrading" => id[c] = Cardinality(clients) + 1
  /\ \A c, d \in Conns : rpc[c] = "upgrading" /\ rpc[d] = "upgrading" => c = d
  /\ \A c \in Conns : rpc[c] \in Active => c \in clients

Proper(c, m) ==
  /\ m.kind # "broadcast" => m.to = id[c]
  /\ m.kind = "response" => mixed \/ m.of = c

Addressed == \A c \in Conns : \A k \in DOMAIN send[c] : Proper(c, send[c][k])

IInv == Types /\ Walk /\ Open /\ Distinct /\ Addressed /\ events \in Nat

\* A step in which no readPump comes from or goes to the upgrade, or its end.
SameStage ==
  /\ rpc' \in [Conns -> Stages]
  /\ \A c \in Conns : (rpc'[c] = "upgrading" <=> rpc[c] = "upgrading")
                     /\ (rpc'[c] \in Active <=> rpc[c] \in Active)

-----------------------------------------------------------------------------
(* Channels and counting.                                                  *)

LEMMA AppendIs ==
  ASSUME NEW S, NEW q \in Seq(S), NEW x \in S
  PROVE  /\ Append(q, x) \in Seq(S)
         /\ \A k \in DOMAIN Append(q, x) :
              (k \in DOMAIN q /\ Append(q, x)[k] = q[k]) \/ Append(q, x)[k] = x
  OBVIOUS

LEMMA TailIs ==
  ASSUME NEW S, NEW q \in Seq(S), q # <<>>
  PROVE  /\ Tail(q) \in Seq(S)
         /\ \A k \in DOMAIN Tail(q) : k + 1 \in DOMAIN q /\ Tail(q)[k] = q[k + 1]
  OBVIOUS

LEMMA EmptyIs ==
  ASSUME NEW S
  PROVE  <<>> \in Seq(S) /\ DOMAIN <<>> = {}
  OBVIOUS

\* Clients are finitely many, and a new one makes one more.
LEMMA Counting ==
  ASSUME Types
  PROVE  /\ Cardinality(clients) \in Nat
         /\ \A c \in Conns \ clients : Cardinality(clients \cup {c}) = Cardinality(clients) + 1
  <1>1. IsFiniteSet(clients)
    BY HubAssumption, FS_Subset DEF Types
  <1> QED
    BY <1>1, FS_CardinalityType, FS_AddElement

-----------------------------------------------------------------------------
(* The parts of the hub's steps.                                           *)

LEMMA DropKeeps ==
  ASSUME IInv, NEW c \in clients, Drop(c), SameStage, UNCHANGED <<id, send, wpc>>
  PROVE  Types' /\ Open' /\ Distinct' /\ Addressed'
  <1> USE DEF SameStage, Active
  <1>1. c \in Conns /\ mixed'
    BY DEF IInv, Types, Drop
  <1>2. Types'
    BY DEF IInv, Types, Drop, WithoutID
  <1>3. Open'
    <2>1. indexes' \subseteq clients' /\ indexes' \subseteq indexes
      BY DEF IInv, Open, Drop, WithoutID
    <2>2. \A d \in Conns : d # c => chan'[d] = chan[d]
      BY <1>1 DEF IInv, Types, Drop
    <2>3. rpc[c] # "upgrading"
      BY DEF IInv, Open
    <2> QED
      BY <2>1, <2>2, <2>3, <1>1 DEF IInv, Types, Open, Drop
  <1>4. Addressed'
    BY <1>1 DEF IInv, Addressed, Proper
  <1> QED
    BY <1>1, <1>2, <1>3, <1>4 DEF Distinct

LEMMA OfferKeeps ==
  ASSUME IInv, NEW c \in clients, NEW m \in Wire, Proper(c, m),
         Offer(c, m), SameStage, UNCHANGED <<id, wpc>>
  PROVE  /\ Types' /\ Open' /\ Distinct' /\ Addressed'
         /\ clients' \in {clients, clients \ {c}}
  <1> USE DEF SameStage
  <1>1. CASE Len(send[c]) < SendCap
    <2>0. c \in Conns /\ send[c] \in Seq(Wire) /\ send' = [send EXCEPT ![c] = Append(@, m)]
          /\ UNCHANGED <<clients, indexes, chan, mixed>>
      BY <1>1 DEF IInv, Types, Offer
    <2>1. Types'
      BY <2>0, AppendIs DEF IInv, Types
    <2>2. Open'
      BY <2>0 DEF IInv, Types, Open, Active
    <2>3. Distinct'
      BY <2>0 DEF IInv, Types, Distinct
    <2>4. Addressed'
      <3> SUFFICES ASSUME NEW d \in Conns, NEW k \in DOMAIN send'[d]
                   PROVE  Proper(d, send'[d][k])
        BY <2>0 DEF Addressed, Proper
      <3>1. CASE d # c
        BY <3>1, <2>0 DEF IInv, Types, Addressed
      <3>2. CASE d = c
        <4>1. send'[c] = Append(send[c], m)
          BY <2>0 DEF IInv, Types
        <4> QED
          BY <4>1, <3>2, <2>0, AppendIs DEF IInv, Addressed
      <3> QED
        BY <3>1, <3>2
    <2> QED
      BY <2>0, <2>1, <2>2, <2>3, <2>4
  <1>2. CASE ~(Len(send[c]) < SendCap)
    <2>1. Drop(c) /\ UNCHANGED send
      BY <1>2 DEF Offer
    <2> QED
      BY <2>1, DropKeeps DEF Drop
  <1> QED
    BY <1>1, <1>2

\* A client that a message is looked up for is one the hub has not dropped.
LEMMA DeliverKeeps ==
  ASSUME IInv, NEW i \in Nat, NEW m \in Wire, m.kind # "broadcast", m.to = i,
         \A c \in indexes : id[c] = i /\ m.kind = "response" => mixed \/ m.of = c,
         Deliver(i, m), SameStage, UNCHANGED <<id, wpc>>
  PROVE  /\ Types' /\ Open' /\ Distinct' /\ Addressed'
         /\ clients' \subseteq clients
  <1> USE DEF SameStage
  <1>1. CASE \E c \in indexes : id[c] = i /\ Offer(c, m)
    <2>1. PICK c \in indexes : id[c] = i /\ Offer(c, m)
      BY <1>1
    <2>2. c \in clients /\ Proper(c, m)
      BY <2>1 DEF IInv, Open, Proper
    <2> QED
      BY <2>1, <2>2, OfferKeeps
  <1>2. CASE UNCHANGED <<clients, indexes, send, chan, mixed>>
    BY <1>2 DEF IInv, Types, Open, Distinct, Addressed, Proper
  <1> QED
    BY <1>1, <1>2 DEF Deliver

\* The end of a pump: its connection is in no map once both have ended.
LEMMA EndsKeeps ==
  ASSUME IInv, NEW c \in Conns, NEW both \in BOOLEAN, NEW rest \in Seq(Wire),
         \A k \in DOMAIN rest : Proper(c, rest[k]),
         Ends(c, both, rest), both => c \notin clients /\ rpc[c] # "upgrading",
         UNCHANGED <<clients, indexes, chan, mixed>>,
         \/ wpc' = [wpc EXCEPT ![c] = "done"] /\ UNCHANGED rpc
         \/ rpc' = [rpc EXCEPT ![c] = "done"] /\ rpc[c] = "closing" /\ UNCHANGED wpc
  PROVE  Types' /\ Open' /\ Distinct' /\ Addressed'
  <1> USE DEF Active, Stages
  <1>1. Types'
    BY EmptyIs DEF IInv, Types, Ends
  <1>2. \A d \in Conns : d # c \/ ~both => id'[d] = id[d]
    BY DEF IInv, Types, Ends
  <1>3. \A d \in clients : id'[d] = id[d]
    BY <1>2 DEF IInv, Types
  <1>4. \A d \in Conns : rpc'[d] \notin {"done"} => rpc'[d] = rpc[d]
    BY DEF IInv, Types
  <1>5. \A d \in clients : rpc'[d] = rpc[d]
    BY DEF IInv, Types, Open
  <1>6. Open'
    BY <1>3, <1>4, <1>5 DEF IInv, Types, Open
  <1>7. Distinct'
    <2> SUFFICES ASSUME ~mixed PROVE Distinct'
      BY DEF Distinct
    <2>1. \A d \in Conns : rpc'[d] = "upgrading" => rpc[d] = "upgrading" /\ id'[d] = id[d]
      BY <1>2, <1>4
    <2> QED
      BY <1>3, <1>4, <2>1 DEF IInv, Types, Distinct
  <1>8. Addressed'
    <2> SUFFICES ASSUME NEW d \in Conns, NEW k \in DOMAIN send'[d]
                 PROVE  Proper(d, send[d][k])'
      BY DEF Addressed, Proper
    <2>1. CASE d # c
      BY <2>1, <1>2 DEF IInv, Types, Addressed, Proper, Ends
    <2>2. CASE d = c
      <3>1. ~both /\ send'[c] = rest
        BY <2>2, EmptyIs DEF IInv, Types, Ends
      <3> QED
        BY <3>1, <2>2, <1>2 DEF Proper
    <2> QED
      BY <2>1, <2>2
  <1> QED
    BY <1>1, <1>6, <1>7, <1>8

-----------------------------------------------------------------------------
(* The hub's steps.                                                        *)

LEMMA RegisterKeeps == ASSUME IInv, NEW c \in Conns, Register(c) PROVE IInv'
  <1> USE DEF Register, Active, Stages
  <1>1. Types' /\ Walk' /\ events' \in Nat
    BY DEF IInv, Types, Walk, WithoutID, startVars
  <1>2. Open'
    <2>1. indexes' \subseteq clients'
      BY DEF IInv, Open, WithoutID
    <2>2. \A d, e \in indexes' : id'[d] = id'[e] => d = e
      BY DEF IInv, Open, WithoutID
    <2> QED
      BY <2>1, <2>2 DEF IInv, Types, Open
  <1>3. Distinct'
    <2> SUFFICES ASSUME ~mixed PROVE Distinct'
      BY DEF Distinct
    <2>1. id[c] = Cardinality(clients) + 1 /\ c \notin clients /\ Cardinality(clients) \in Nat
      BY Counting DEF IInv, Open, Distinct
    <2>2. Cardinality(clients') = Cardinality(clients) + 1
      BY <2>1, Counting DEF IInv
    <2>3. \A d \in clients : id[d] \in 1..Cardinality(clients)
      BY DEF IInv, Distinct
    <2>4. \A d \in clients' : id'[d] \in 1..Cardinality(clients')
      BY <2>1, <2>2, <2>3
    <2>5. \A d, e \in clients' : id'[d] = id'[e] => d = e
      BY <2>1, <2>3 DEF IInv, Distinct
    <2>6. \A d \in Conns : rpc'[d] # "upgrading"
      BY DEF IInv, Types, Distinct
    <2>7. \A d \in Conns : rpc'[d] \in Active => d \in clients'
      BY DEF IInv, Types, Distinct
    <2> QED
      BY <2>4, <2>5, <2>6, <2>7 DEF Distinct
  <1>4. Addressed'
    BY DEF IInv, Addressed, Proper
  <1> QED
    BY <1>1, <1>2, <1>3, <1>4 DEF IInv

LEMMA UnregisterKeeps == ASSUME IInv, NEW c \in Conns, Unregister(c) PROVE IInv'
  <1> USE DEF Unregister, Active, Stages
  <1>0. /\ rpc' = [rpc EXCEPT ![c] = "closing"]
        /\ UNCHANGED <<hub, todo, cast, id, send, wpc, upgrader, events>>
    BY DEF startVars
  <1>1. CASE c \in clients
    <2>1. Drop(c) /\ mixed'
      BY <1>1 DEF Drop
    <2>2. Types'
      BY <2>1, <1>0 DEF IInv, Types, Drop, WithoutID
    <2>3. Walk'
      BY <2>1, <1>0 DEF IInv, Walk, Drop
    <2>4. Open'
      <3>1. indexes' \subseteq clients' /\ indexes' \subseteq indexes
        BY <2>1 DEF IInv, Open, Drop, WithoutID
      <3>2. \A d \in Conns : d # c => chan'[d] = chan[d] /\ rpc'[d] = rpc[d]
        BY <2>1, <1>0 DEF IInv, Types, Drop
      <3>3. rpc'[c] = "closing" /\ c \notin clients'
        BY <2>1, <1>0 DEF IInv, Types, Drop
      <3> QED
        BY <3>1, <3>2, <3>3, <2>1, <1>0 DEF IInv, Types, Open, Drop
    <2>5. Addressed'
      BY <2>1, <1>0 DEF IInv, Addressed, Proper
    <2> QED
      BY <2>1, <2>2, <2>3, <2>4, <2>5, <1>0 DEF IInv, Distinct
  <1>2. CASE c \notin clients
    <2>1. UNCHANGED <<clients, indexes, chan, mixed>>
      BY <1>2
    <2>2. Types' /\ Walk' /\ Open' /\ Addressed'
      BY <2>1, <1>0, <1>2 DEF IInv, Types, Walk, Open, Addressed, Proper
    <2>3. mixed
      BY <1>2 DEF IInv, Types, Distinct
    <2> QED
      BY <2>1, <2>2, <2>3, <1>0 DEF IInv, Distinct
  <1> QED
    BY <1>1, <1>2

LEMMA RespondKeeps == ASSUME IInv, NEW c \in Conns, Respond(c) PROVE IInv'
  <1> DEFINE m == [kind |-> "response", to |-> id[c], of |-> c]
  <1>1. SameStage /\ Deliver(id[c], m) /\ hub = "select" /\ rpc[c] = "responding"
    BY DEF IInv, Types, Respond, SameStage, Active, Stages
  <1>2. m \in Wire /\ m.kind # "broadcast" /\ m.to = id[c] /\ id[c] \in Nat
    BY DEF IInv, Types, Wire
  <1>3. \A d \in indexes : id[d] = id[c] => mixed \/ d = c
    BY <1>1 DEF IInv, Types, Open, Distinct, Active
  <1>4. \A d \in indexes : id[d] = id[c] /\ m.kind = "response" => mixed \/ m.of = d
    BY <1>3
  <1> HIDE DEF m
  <1>5. Types' /\ Open' /\ Distinct' /\ Addressed'
    BY <1>1, <1>2, <1>4, DeliverKeeps DEF Respond
  <1> QED
    BY <1>1, <1>5 DEF IInv, Walk, Respond, startVars

LEMMA DirectKeeps == ASSUME IInv, NEW i \in 1..Cardinality(Conns), Direct(i) PROVE IInv'
  <1> DEFINE m == [kind |-> "direct", to |-> i]
  <1>0. i \in Nat
    BY FS_CardinalityType, HubAssumption
  <1>1. SameStage /\ Deliver(i, m) /\ hub = "select"
    BY DEF IInv, Types, Direct, SameStage
  <1>2. m \in Wire /\ m.kind # "broadcast" /\ m.to = i /\ m.kind # "response"
    BY <1>0 DEF Wire
  <1> HIDE DEF m
  <1>3. Types' /\ Open' /\ Distinct' /\ Addressed'
    BY <1>0, <1>1, <1>2, DeliverKeeps DEF Direct
  <1> QED
    BY <1>1, <1>3 DEF IInv, Walk, Direct, startVars

LEMMA BroadcastToKeeps == ASSUME IInv, NEW c \in Conns, BroadcastTo(c) PROVE IInv'
  <1> DEFINE m == [kind |-> "broadcast", n |-> cast]
  <1>1. SameStage /\ Offer(c, m) /\ hub = "broadcast" /\ c \in clients
    BY DEF IInv, Types, Walk, BroadcastTo, SameStage
  <1>2. m \in Wire /\ Proper(c, m)
    BY DEF IInv, Walk, Wire, Proper
  <1> HIDE DEF m
  <1>3. /\ Types' /\ Open' /\ Distinct' /\ Addressed'
        /\ clients' \in {clients, clients \ {c}}
    BY <1>1, <1>2, OfferKeeps DEF BroadcastTo
  <1>4. Walk'
    BY <1>1, <1>3 DEF IInv, Walk, BroadcastTo, startVars
  <1> QED
    BY <1>3, <1>4 DEF IInv, BroadcastTo, startVars

LEMMA BroadcastKeeps == ASSUME IInv, Broadcast \/ BroadcastDone PROVE IInv'
  <1>1. UNCHANGED <<clients, indexes, id, send, chan, rpc, wpc, mixed>>
    BY DEF Broadcast, BroadcastDone, pumpVars, history
  <1>2. Walk' /\ events' \in Nat
    BY DEF IInv, Walk, Broadcast, BroadcastDone, startVars
  <1> QED
    BY <1>1, <1>2 DEF IInv, Types, Open, Distinct, Addressed, Proper

LEMMA ExitKeeps == ASSUME IInv, Exit PROVE IInv'
  <1>1. clients' = {} /\ indexes' = {} /\ todo' = {} /\ UNCHANGED <<cast, id, send, rpc, wpc, events>>
    BY DEF IInv, Walk, Open, Exit
  <1>2. mixed' \in BOOLEAN /\ (mixed => mixed') /\ (~mixed' => clients = {})
    BY DEF IInv, Types, Exit
  <1>3. Types' /\ Walk' /\ events' \in Nat
    BY <1>1, <1>2 DEF IInv, Types, Walk, Exit
  <1>4. Open'
    BY <1>1 DEF IInv, Open, Types, Exit, Active
  <1>5. Distinct' /\ Addressed'
    BY <1>1, <1>2 DEF IInv, Distinct, Addressed, Proper
  <1> QED
    BY <1>3, <1>4, <1>5 DEF IInv

-----------------------------------------------------------------------------
(* The upgrader and the pumps.                                             *)

LEMMA UpgradeKeeps == ASSUME IInv, NEW c \in Conns, Upgrade(c) PROVE IInv'
  <1> USE DEF Upgrade, hubVars
  <1>0. NextID \in Nat /\ NextID = Cardinality(clients) + 1
    BY Counting DEF IInv, NextID
  <1>1. Types'
    BY <1>0, EmptyIs DEF IInv, Types, Stages
  <1>2. \A d \in Conns : d # c => /\ id'[d] = id[d] /\ rpc'[d] = rpc[d]
                                  /\ chan'[d] = chan[d] /\ send'[d] = send[d]
    BY DEF IInv, Types
  <1>3. /\ id'[c] = NextID /\ rpc'[c] = "upgrading" /\ chan'[c] = "open" /\ send'[c] = <<>>
        /\ c \notin clients
    BY DEF IInv, Types
  <1>4. Open'
    BY <1>2, <1>3 DEF IInv, Types, Open
  <1>5. Distinct'
    <2> SUFFICES ASSUME ~mixed' PROVE Distinct'
      BY DEF Distinct
    <2>1. ~mixed /\ \A d \in Conns : rpc[d] # "upgrading"
      BY DEF IInv, Types
    <2>2. \A d \in clients : id'[d] = id[d]
      BY <1>2, <1>3 DEF IInv, Types
    <2>3. clients' = clients
      OBVIOUS
    <2>4. \A d \in Conns : rpc'[d] = "upgrading" <=> d = c
      BY <1>2, <1>3, <2>1
    <2>5. \A d \in Conns : rpc'[d] \in Active => d \in clients'
      BY <1>2, <1>3, <2>1, <2>3 DEF IInv, Distinct, Active
    <2>6. /\ \A d \in clients : id[d] \in 1..Cardinality(clients)
          /\ \A d, e \in clients : id[d] = id[e] => d = e
      BY <2>1 DEF IInv, Distinct
    <2>7. \A d \in Conns : rpc'[d] = "upgrading" => id'[d] = Cardinality(clients') + 1
      BY <1>0, <1>3, <2>3, <2>4
    <2> QED
      BY <2>2, <2>3, <2>4, <2>5, <2>6, <2>7 DEF Distinct
  <1>6. Addressed'
    <2> SUFFICES ASSUME NEW d \in Conns, NEW k \in DOMAIN send'[d]
                 PROVE  Proper(d, send[d][k])'
      BY DEF Addressed, Proper
    <2>1. d # c
      BY <1>3, EmptyIs
    <2>2. Proper(d, send[d][k]) /\ id'[d] = id[d] /\ send'[d] = send[d]
      BY <2>1, <1>2 DEF IInv, Addressed
    <2>3. mixed => mixed'
      OBVIOUS
    <2> QED
      BY <2>2, <2>3 DEF Proper
  <1> QED
    BY <1>1, <1>4, <1>5, <1>6 DEF IInv, Walk, startVars

LEMMA ReadKeeps == ASSUME IInv, NEW c \in Conns, Read(c) \/ ReadError(c) PROVE IInv'
  <1>1. UNCHANGED <<hub, clients, indexes, todo, cast, id, send, chan, wpc, upgrader, mixed>>
        /\ events' \in Nat
    BY DEF IInv, Read, ReadError, hubVars, startVars, history
  <1>2. SameStage
    BY DEF IInv, Types, Read, ReadError, SameStage, Active, Stages
  <1> QED
    BY <1>1, <1>2 DEF IInv, Types, Walk, Open, Distinct, Addressed, Proper, SameStage

LEMMA WriteKeeps == ASSUME IInv, NEW c \in Conns, Write(c) PROVE IInv'
  <1>1. /\ UNCHANGED <<hub, clients, indexes, todo, cast, id, chan, rpc, wpc, upgrader, mixed, events>>
        /\ send' = [send EXCEPT ![c] = <<>>]
    BY DEF Write, hubVars, startVars
  <1>2. Types' /\ Addressed'
    BY <1>1, EmptyIs DEF IInv, Types, Addressed, Proper
  <1> QED
    BY <1>1, <1>2 DEF IInv, Walk, Open, Distinct

LEMMA ReadPumpEndsKeeps == ASSUME IInv, NEW c \in Conns, ReadPumpEnds(c) PROVE IInv'
  <1>1. c \notin clients /\ rpc[c] = "closing"
    BY DEF IInv, Open, ReadPumpEnds, Active
  <1>2. (wpc[c] = "done") \in BOOLEAN /\ send[c] \in Seq(Wire)
        /\ \A k \in DOMAIN send[c] : Proper(c, send[c][k])
    BY DEF IInv, Types, Addressed
  <1>3. Types' /\ Open' /\ Distinct' /\ Addressed'
    BY <1>1, <1>2, EndsKeeps DEF ReadPumpEnds, hubVars, history
  <1> QED
    BY <1>3 DEF IInv, Walk, ReadPumpEnds, hubVars, startVars

LEMMA WriterEndsKeeps ==
  ASSUME IInv, NEW c \in Conns, NEW rest \in {send[c], Tail(send[c]), <<>>},
         send[c] = <<>> => rest = <<>>, WriterEnds(c, rest)
  PROVE  IInv'
  <1>1. rest \in Seq(Wire) /\ \A k \in DOMAIN rest : Proper(c, rest[k])
    <2>1. send[c] \in Seq(Wire) /\ \A k \in DOMAIN send[c] : Proper(c, send[c][k])
      BY DEF IInv, Types, Addressed
    <2>2. CASE rest = send[c]
      BY <2>1, <2>2
    <2>3. CASE rest = <<>>
      BY <2>3, EmptyIs
    <2>4. CASE rest = Tail(send[c]) /\ send[c] # <<>>
      BY <2>1, <2>4, TailIs
    <2> QED
      BY <2>2, <2>3, <2>4
  <1>2. rpc[c] = "done" => c \notin clients /\ rpc[c] # "upgrading"
    BY DEF IInv, Open, Active
  <1>3. (rpc[c] = "done") \in BOOLEAN
    OBVIOUS
  <1>4. Types' /\ Open' /\ Distinct' /\ Addressed'
    BY <1>1, <1>2, <1>3, EndsKeeps DEF WriterEnds, hubVars
  <1> QED
    BY <1>4 DEF IInv, Walk, WriterEnds, hubVars, startVars

-----------------------------------------------------------------------------
LEMMA InitIInv == Init => IInv
  <1> SUFFICES ASSUME Init PROVE IInv
    OBVIOUS
  <1> USE DEF Init
  <1>1. Types
    BY EmptyIs DEF Types, Stages
  <1>2. Walk /\ Open /\ Distinct
    BY DEF Walk, Open, Distinct, Active
  <1>3. Addressed
    BY EmptyIs DEF Addressed
  <1> QED
    BY <1>1, <1>2, <1>3 DEF IInv

LEMMA StepIInv == IInv /\ [Next]_vars => IInv'
  <1> SUFFICES ASSUME IInv, [Next]_vars PROVE IInv'
    OBVIOUS
  <1>1. CASE Hub
    BY <1>1, RegisterKeeps, UnregisterKeeps, RespondKeeps, DirectKeeps,
       BroadcastToKeeps, BroadcastKeeps, ExitKeeps DEF Hub
  <1>2. CASE Start \/ Signal \/ Stop \/ StopTaken
    <2>1. UNCHANGED <<clients, indexes, todo, cast, id, send, chan, rpc, wpc, mixed, events>>
      BY <1>2 DEF Start, Signal, Stop, StopTaken, hubVars, pumpVars, history
    <2>2. /\ todo = {} \/ hub' = hub
          /\ upgrader' = "new" => upgrader = "new" /\ hub' = hub
      BY <1>2 DEF IInv, Walk, Start, Signal, Stop, StopTaken, hubVars
    <2>3. Walk'
      BY <2>1, <2>2 DEF IInv, Walk
    <2> QED
      BY <2>1, <2>3 DEF IInv, Types, Open, Distinct, Addressed, Proper
  <1>3. ASSUME NEW c \in Conns, Upgrade(c) PROVE IInv'
    BY <1>3, UpgradeKeeps
  <1>4. ASSUME NEW c \in Conns, Pump(c) PROVE IInv'
    <2>1. CASE Read(c) \/ ReadError(c) \/ ReadPumpEnds(c) \/ Write(c)
      BY <2>1, ReadKeeps, ReadPumpEndsKeeps, WriteKeeps
    <2>2. CASE WriteError(c)
      <3>1. PICK rest \in {Tail(send[c]), <<>>} : WriterEnds(c, rest) /\ send[c] # <<>>
        BY <2>2 DEF WriteError
      <3> QED
        BY <3>1, WriterEndsKeeps
    <2>3. CASE PingError(c)
      <3>1. PICK rest \in {send[c], Tail(send[c]), <<>>} :
                 WriterEnds(c, rest) /\ (send[c] = <<>> => rest = <<>>)
        BY <2>3 DEF PingError, WriterEnds, Ends
      <3> QED
        BY <3>1, WriterEndsKeeps
    <2>4. CASE WritePumpEnds(c)
      <3>1. PICK rest \in {send[c], Tail(send[c]), <<>>} :
                 WriterEnds(c, rest) /\ (send[c] = <<>> => rest = <<>>)
        BY <2>4 DEF WritePumpEnds, WriterEnds, Ends
      <3> QED
        BY <3>1, WriterEndsKeeps
    <2> QED
      BY <1>4, <2>1, <2>2, <2>3, <2>4 DEF Pump
  <1>5. CASE UNCHANGED vars
    BY <1>5 DEF vars, hubVars, pumpVars, startVars, history, IInv, Types, Walk, Open, Distinct,
                Addressed, Proper
  <1> QED
    BY <1>1, <1>2, <1>3, <1>4, <1>5 DEF Next

\* The invariant holds in every state of the hub and its connections, whatever
\* the number of connections and messages (websocket/hub.go, upgrader.go).
THEOREM Invariance == Spec => []IInv
  BY InitIInv, StepIInv, PTL DEF Spec

\* The hub never sends on a closed channel nor closes one twice, however
\* upgrades, departures, slow clients and the exit of the hub interleave
\* (hub.go:54-107).
THEOREM NoSendOnClosedChannel == Spec => []NoSendOnClosed
  <1>1. IInv => NoSendOnClosed
    BY DEF IInv, Walk, Open, NoSendOnClosed
  <1> QED
    BY <1>1, Invariance, PTL

\* What is addressed to an id comes to a client that has it, and while no client
\* has departed and no upgrades have overlapped, a response comes only to the
\* client that asked (hub.go:24-27, 67-82).
THEOREM ResponsesAreOwn == Spec => []ResponseIsOwn
  <1>1. IInv => ResponseIsOwn
    BY DEF IInv, Addressed, Proper, ResponseIsOwn
  <1> QED
    BY <1>1, Invariance, PTL

-----------------------------------------------------------------------------
(* What a client has had and has queued.  Flow is inductive relative to    *)
(* IInv: a message is counted once, in the channel or as written.          *)

CastOf(q) == {k \in DOMAIN q : q[k].kind = "broadcast"}
OwnOf(q, c) == {k \in DOMAIN q : q[k].kind = "response" /\ q[k].of = c}

\* What TypeOK says beyond Types, without the bounds of heard and owed.
Typed ==
  /\ hub \in {"new", "select", "broadcast", "exited"}
  /\ events \in 0..MaxEvents /\ cast \in 0..events
  /\ id \in [Conns -> Ids] /\ send \in [Conns -> Seq(Messages)]
  /\ conn \in [Conns -> {"none", "open", "closed"}]
  /\ upgrader \in {"new", "waiting", "exiting", "closed"}
  /\ status \in {"WAITING", "LISTENING", "CLOSED"}
  /\ stopper \in {"idle", "sending"}
  /\ heard \in [Conns -> Nat] /\ owed \in [Conns -> Nat]

\* What a connection is owed is asked for; what it has had has been sent.
Owed(c) ==
  /\ Len(send[c]) <= SendCap
  /\ wpc[c] # "writing" => heard[c] = 0 /\ owed[c] = 0
  /\ rpc[c] = "upgrading" => send[c] = <<>> /\ wpc[c] = "none"
  /\ owed[c] + (IF rpc[c] = "responding" THEN 1 ELSE 0) <= events
  /\ wpc[c] = "writing" => /\ heard[c] + Cardinality(CastOf(send[c])) <= cast
                           /\ Cardinality(OwnOf(send[c], c)) <= owed[c]

\* NoGap of one client.
Heard(c) == c \in clients /\ wpc[c] = "writing" =>
  /\ heard[c] + Cardinality(CastOf(send[c])) = cast - (IF c \in todo THEN 1 ELSE 0)
  /\ \A k \in CastOf(send[c]) : send[c][k].n = heard[c] + Cardinality(CastOf(send[c]) \cap 1..k)
  /\ ~mixed => Cardinality(OwnOf(send[c], c)) = owed[c]

Flow ==
  /\ Typed /\ (hub = "broadcast" => cast > 0) /\ (~mixed => indexes = clients)
  /\ \A c \in Conns : Owed(c) /\ Heard(c)

\* The messages of a channel are finitely many, and none when it is empty.
LEMMA QueueIs ==
  ASSUME NEW q \in Seq(Messages), NEW c
  PROVE  /\ IsFiniteSet(CastOf(q)) /\ Cardinality(CastOf(q)) \in Nat
         /\ IsFiniteSet(OwnOf(q, c)) /\ Cardinality(OwnOf(q, c)) \in Nat
         /\ CastOf(q) \subseteq 1..Len(q) /\ OwnOf(q, c) \subseteq 1..Len(q)
  <1>1. DOMAIN q = 1..Len(q) /\ Len(q) \in Nat
    OBVIOUS
  <1>2. CastOf(q) \subseteq 1..Len(q) /\ OwnOf(q, c) \subseteq 1..Len(q)
    BY <1>1 DEF CastOf, OwnOf
  <1>3. IsFiniteSet(1..Len(q))
    BY <1>1, FS_Interval
  <1>4. IsFiniteSet(CastOf(q)) /\ IsFiniteSet(OwnOf(q, c))
    BY <1>2, <1>3, FS_Subset
  <1> QED
    BY <1>2, <1>4, FS_CardinalityType

LEMMA EmptyQueue ==
  ASSUME NEW c
  PROVE  /\ CastOf(<<>>) = {} /\ Cardinality(CastOf(<<>>)) = 0
         /\ OwnOf(<<>>, c) = {} /\ Cardinality(OwnOf(<<>>, c)) = 0
  <1>1. CastOf(<<>>) = {} /\ OwnOf(<<>>, c) = {}
    BY EmptyIs DEF CastOf, OwnOf
  <1> QED
    BY <1>1, FS_EmptySet

\* A message appended counts for what it is and disturbs no other.
LEMMA AppendCounts ==
  ASSUME NEW q \in Seq(Messages), NEW m \in Messages, NEW c
  PROVE  /\ Len(Append(q, m)) = Len(q) + 1 /\ Append(q, m)[Len(q) + 1] = m
         /\ m.kind = "broadcast" =>
              /\ CastOf(Append(q, m)) = CastOf(q) \cup {Len(q) + 1}
              /\ Cardinality(CastOf(Append(q, m))) = Cardinality(CastOf(q)) + 1
         /\ m.kind # "broadcast" => CastOf(Append(q, m)) = CastOf(q)
         /\ m.kind = "response" /\ m.of = c =>
              Cardinality(OwnOf(Append(q, m), c)) = Cardinality(OwnOf(q, c)) + 1
         /\ ~(m.kind = "response" /\ m.of = c) => OwnOf(Append(q, m), c) = OwnOf(q, c)
  <1> DEFINE a == Append(q, m)
  <1>1. /\ a \in Seq(Messages) /\ Len(a) = Len(q) + 1 /\ a[Len(q) + 1] = m
        /\ \A k \in DOMAIN q : a[k] = q[k]
        /\ DOMAIN q = 1..Len(q) /\ DOMAIN a = 1..(Len(q) + 1) /\ Len(q) \in Nat
    OBVIOUS
  <1> HIDE DEF a
  <1>2. /\ m.kind = "broadcast" => CastOf(a) = CastOf(q) \cup {Len(q) + 1}
        /\ m.kind # "broadcast" => CastOf(a) = CastOf(q)
        /\ m.kind = "response" /\ m.of = c => OwnOf(a, c) = OwnOf(q, c) \cup {Len(q) + 1}
        /\ ~(m.kind = "response" /\ m.of = c) => OwnOf(a, c) = OwnOf(q, c)
    <2>1. \A k \in 1..(Len(q) + 1) : k \in 1..Len(q) \/ k = Len(q) + 1
      BY <1>1
    <2>2. /\ \A k \in 1..Len(q) : k \in 1..(Len(q) + 1)
          /\ Len(q) + 1 \in 1..(Len(q) + 1)
      BY <1>1
    <2> QED
      BY <1>1, <2>1, <2>2 DEF CastOf, OwnOf
  <1>3. Len(q) + 1 \notin CastOf(q) /\ Len(q) + 1 \notin OwnOf(q, c)
    BY <1>1 DEF CastOf, OwnOf
  <1>4. /\ Cardinality(CastOf(q) \cup {Len(q) + 1}) = Cardinality(CastOf(q)) + 1
        /\ Cardinality(OwnOf(q, c) \cup {Len(q) + 1}) = Cardinality(OwnOf(q, c)) + 1
    <2>1. IsFiniteSet(CastOf(q)) /\ IsFiniteSet(OwnOf(q, c))
      BY QueueIs
    <2> QED
      BY <1>3, <2>1, FS_AddElement
  <1> QED
    BY <1>1, <1>2, <1>4 DEF a

-----------------------------------------------------------------------------
(* What a step may do to one connection.                                   *)

\* No step takes back a broadcast, an event, or that a client has departed.
Onward == cast' = cast /\ events \in Nat /\ events' \in Nat /\ events' >= events
          /\ mixed \in BOOLEAN /\ (mixed => mixed')

LEMMA SameFlow ==
  ASSUME NEW c \in Conns, Typed, Owed(c), Heard(c), Onward,
         /\ send'[c] = send[c] /\ heard'[c] = heard[c] /\ owed'[c] = owed[c]
         /\ wpc'[c] = wpc[c],
         rpc'[c] = rpc[c] \/ rpc'[c] \notin {"upgrading", "responding"},
         c \in clients' => c \in clients /\ (c \in todo' <=> c \in todo)
  PROVE  Owed(c)' /\ Heard(c)'
  <1>1. heard[c] \in Nat /\ owed[c] \in Nat /\ cast \in Nat
    BY DEF Typed
  <1>2. Owed(c)'
    BY <1>1 DEF Owed, Onward
  <1>3. Heard(c)'
    BY <1>1 DEF Heard, Onward
  <1> QED
    BY <1>2, <1>3

\* A message is put in the channel of a client.
LEMMA PutFlow ==
  ASSUME NEW c \in clients, NEW m \in Messages, c \in Conns, Typed, Owed(c), Heard(c), Onward,
         Len(send[c]) < SendCap, send'[c] = Append(send[c], m),
         heard'[c] = heard[c], wpc'[c] = wpc[c], rpc'[c] # "upgrading",
         owed'[c] = owed[c] + (IF m.kind = "response" /\ m.of = c /\ wpc[c] = "writing"
                               THEN 1 ELSE 0),
         owed'[c] + (IF rpc'[c] = "responding" THEN 1 ELSE 0) <= events',
         IF m.kind = "broadcast" THEN m.n = cast /\ c \in todo /\ c \notin todo'
                                 ELSE c \in todo' <=> c \in todo
  PROVE  Owed(c)' /\ Heard(c)'
  <1> DEFINE q == send[c]
             a == Append(q, m)
  <1>1. /\ q \in Seq(Messages) /\ heard[c] \in Nat /\ owed[c] \in Nat /\ cast \in Nat
        /\ Len(q) \in Nat /\ SendCap \in Nat
    BY HubAssumption DEF Typed
  <1>2. Cardinality(CastOf(q)) \in Nat /\ Cardinality(OwnOf(q, c)) \in Nat
        /\ CastOf(q) \subseteq 1..Len(q)
    BY <1>1, QueueIs
  <1>3. send'[c] = a /\ a = Append(q, m)
    OBVIOUS
  <1> HIDE DEF a
  <1>4. /\ Len(a) = Len(q) + 1 /\ a[Len(q) + 1] = m
        /\ m.kind = "broadcast" =>
             /\ CastOf(a) = CastOf(q) \cup {Len(q) + 1}
             /\ Cardinality(CastOf(a)) = Cardinality(CastOf(q)) + 1
        /\ m.kind # "broadcast" => CastOf(a) = CastOf(q)
        /\ m.kind = "response" /\ m.of = c =>
             Cardinality(OwnOf(a, c)) = Cardinality(OwnOf(q, c)) + 1
        /\ ~(m.kind = "response" /\ m.of = c) => OwnOf(a, c) = OwnOf(q, c)
        /\ \A k \in CastOf(q) : CastOf(a) \cap 1..k = CastOf(q) \cap 1..k
        /\ CastOf(a) \cap 1..(Len(q) + 1) = CastOf(a)
    <2>1. q \in Seq(Messages) /\ m \in Messages /\ Len(q) \in Nat /\ CastOf(q) \subseteq 1..Len(q)
      BY <1>1, <1>2
    <2> HIDE DEF q
    <2>2. Len(a) = Len(q) + 1 /\ a[Len(q) + 1] = m
      BY <1>3, <2>1
    <2>3. m.kind = "broadcast" =>
            /\ CastOf(a) = CastOf(q) \cup {Len(q) + 1}
            /\ Cardinality(CastOf(a)) = Cardinality(CastOf(q)) + 1
      BY <2>1, AppendCounts DEF a
    <2>4. m.kind # "broadcast" => CastOf(a) = CastOf(q)
      BY <2>1, AppendCounts DEF a
    <2>5. m.kind = "response" /\ m.of = c =>
            Cardinality(OwnOf(a, c)) = Cardinality(OwnOf(q, c)) + 1
      BY <2>1, AppendCounts DEF a
    <2>6. ~(m.kind = "response" /\ m.of = c) => OwnOf(a, c) = OwnOf(q, c)
      BY <2>1, AppendCounts DEF a
    <2>7. \A k \in CastOf(q) : CastOf(a) \cap 1..k = CastOf(q) \cap 1..k
      BY <2>1, <2>3, <2>4
    <2>8. CastOf(a) \cap 1..(Len(q) + 1) = CastOf(a)
      BY <2>1, <2>3, <2>4
    <2> QED
      BY <2>2, <2>3, <2>4, <2>5, <2>6, <2>7, <2>8
  <1>5. \A k \in CastOf(q) : a[k] = q[k]
    BY <1>1, <1>3 DEF CastOf
  <1>6. Owed(c)'
    <2>1. wpc[c] = "writing" => heard[c] + Cardinality(CastOf(a)) <= cast
      <3>1. CASE m.kind = "broadcast"
        BY <1>1, <1>2, <1>4, <3>1 DEF Heard
      <3>2. CASE m.kind # "broadcast"
        BY <1>1, <1>2, <1>4, <3>2 DEF Owed
      <3> QED
        BY <3>1, <3>2
    <2>2. wpc[c] = "writing" => Cardinality(OwnOf(a, c)) <= owed'[c]
      BY <1>1, <1>2, <1>4 DEF Owed
    <2>3. wpc[c] # "writing" => heard[c] = 0 /\ owed'[c] = 0
      BY <1>1 DEF Owed
    <2>4. Len(a) <= SendCap
      BY <1>1, <1>4
    <2> QED
      BY <1>3, <2>1, <2>2, <2>3, <2>4 DEF Owed, Onward
  <1>7. Heard(c)'
    <2> SUFFICES ASSUME wpc[c] = "writing"
                 PROVE  /\ heard[c] + Cardinality(CastOf(a)) = cast - (IF c \in todo' THEN 1 ELSE 0)
                        /\ \A k \in CastOf(a) :
                             a[k].n = heard[c] + Cardinality(CastOf(a) \cap 1..k)
                        /\ ~mixed' => Cardinality(OwnOf(a, c)) = owed'[c]
      BY <1>3 DEF Heard, Onward
    <2>1. /\ heard[c] + Cardinality(CastOf(q)) = cast - (IF c \in todo THEN 1 ELSE 0)
          /\ \A k \in CastOf(q) : q[k].n = heard[c] + Cardinality(CastOf(q) \cap 1..k)
          /\ ~mixed => Cardinality(OwnOf(q, c)) = owed[c]
      BY DEF Heard
    <2>2. heard[c] + Cardinality(CastOf(a)) = cast - (IF c \in todo' THEN 1 ELSE 0)
      <3>1. CASE m.kind = "broadcast"
        <4>1. Cardinality(CastOf(a)) = Cardinality(CastOf(q)) + 1 /\ c \in todo /\ c \notin todo'
          BY <1>4, <3>1
        <4> QED
          BY <1>1, <1>2, <2>1, <4>1
      <3>2. CASE m.kind # "broadcast"
        <4>1. CastOf(a) = CastOf(q) /\ (c \in todo' <=> c \in todo)
          BY <1>4, <3>2
        <4> QED
          BY <1>1, <1>2, <2>1, <4>1
      <3> QED
        BY <3>1, <3>2
    <2>3. ASSUME NEW k \in CastOf(a)
          PROVE  a[k].n = heard[c] + Cardinality(CastOf(a) \cap 1..k)
      <3>1. CASE k \in CastOf(q)
        BY <1>4, <1>5, <2>1, <3>1
      <3>2. CASE k \notin CastOf(q)
        <4>1. m.kind = "broadcast" /\ k = Len(q) + 1
          BY <1>4, <3>2
        <4>2. CastOf(a) \cap 1..k = CastOf(a) /\ a[k].n = cast /\ c \notin todo'
          BY <1>4, <4>1
        <4>3. heard[c] + Cardinality(CastOf(a)) = cast
          BY <1>1, <2>2, <4>2
        <4> QED
          BY <4>2, <4>3
      <3> QED
        BY <3>1, <3>2
    <2>4. ~mixed' => Cardinality(OwnOf(a, c)) = owed'[c]
      BY <1>1, <1>2, <1>4, <2>1 DEF Onward
    <2> QED
      BY <2>2, <2>3, <2>4
  <1> QED
    BY <1>6, <1>7
\* A step that adds nothing to the channel of a connection and asks nothing of it.
Kept(c) ==
  /\ send'[c] = send[c] /\ heard'[c] = heard[c] /\ owed'[c] = owed[c] /\ wpc'[c] = wpc[c]
  /\ rpc'[c] = rpc[c] \/ rpc'[c] \notin {"upgrading", "responding"}
  /\ c \in clients' => c \in clients /\ (c \in todo' <=> c \in todo)

LEMMA KeptFlow ==
  ASSUME Flow, Onward, NEW c \in Conns, Kept(c)
  PROVE  Owed(c)' /\ Heard(c)'
  BY SameFlow DEF Flow, Kept

\* A response that has reached another client, or none.
LEMMA AskedFlow ==
  ASSUME Flow, Onward, NEW c \in Conns, rpc[c] = "responding", rpc'[c] = "reading", mixed',
         send'[c] = send[c], heard'[c] = heard[c], wpc'[c] = wpc[c],
         owed'[c] = owed[c] + (IF wpc[c] = "writing" THEN 1 ELSE 0),
         c \in clients' => c \in clients /\ (c \in todo' <=> c \in todo)
  PROVE  Owed(c)' /\ Heard(c)'
  <1>1. /\ heard[c] \in Nat /\ owed[c] \in Nat /\ cast \in Nat /\ events \in Nat
        /\ Cardinality(OwnOf(send[c], c)) \in Nat
    BY QueueIs DEF Flow, Typed, Onward
  <1>2. Owed(c)'
    BY <1>1 DEF Flow, Owed, Onward
  <1>3. Heard(c)'
    BY <1>1 DEF Flow, Heard, Onward
  <1> QED
    BY <1>2, <1>3

-----------------------------------------------------------------------------
(* The hub's steps.                                                        *)

LEMMA RegisterFlow == ASSUME IInv, Flow, NEW c \in Conns, Register(c) PROVE Flow'
  <1> USE DEF Register
  <1>1. Onward /\ todo = {} /\ c \notin clients
    <2>1. Onward
      BY HubAssumption DEF IInv, Types, Onward, Flow, Typed
    <2>2. todo = {}
      BY DEF IInv, Walk
    <2>3. c \notin clients
      BY DEF IInv, Open, Active
    <2> QED
      BY <2>1, <2>2, <2>3
  <1>2. \A d \in Conns : d # c => Kept(d)
    BY DEF IInv, Types, Flow, Typed, Kept
  <1>3. /\ send'[c] = <<>> /\ owed'[c] = 0 /\ heard'[c] = cast /\ wpc'[c] = "writing"
        /\ rpc'[c] = "reading" /\ c \notin todo'
    BY <1>1 DEF IInv, Types, Flow, Typed, Owed
  <1>4. Owed(c)' /\ Heard(c)'
    <2>1. cast \in Nat /\ SendCap \in Nat /\ Len(<<>>) = 0 /\ cast' = cast /\ events' \in Nat
      BY <1>1, HubAssumption DEF Flow, Typed, Onward
    <2> QED
      BY <1>3, <2>1, EmptyQueue DEF Owed, Heard
  <1>5. ~mixed' => indexes' = clients'
    <2> SUFFICES ASSUME ~mixed PROVE WithoutID(c) = indexes
      BY DEF Flow
    <2>1. id[c] = Cardinality(clients) + 1 /\ Cardinality(clients) \in Nat
      BY Counting DEF IInv, Distinct
    <2>2. \A d \in indexes : id[d] \in 1..Cardinality(clients)
      BY DEF IInv, Open, Distinct
    <2> QED
      BY <2>1, <2>2 DEF WithoutID
  <1>6. Typed'
    BY DEF Flow, Typed, startVars
  <1>7. \A d \in Conns : Owed(d)' /\ Heard(d)'
    BY <1>1, <1>2, <1>4, KeptFlow
  <1> QED
    BY <1>5, <1>6, <1>7 DEF Flow

LEMMA UnregisterFlow == ASSUME IInv, Flow, NEW c \in Conns, Unregister(c) PROVE Flow'
  <1> USE DEF Unregister
  <1>1. /\ rpc' = [rpc EXCEPT ![c] = "closing"]
        /\ UNCHANGED <<hub, todo, cast, id, send, conn, wpc, upgrader, status, stopper, events,
                       heard, owed>>
        /\ Drop(c) \/ UNCHANGED <<clients, indexes, chan, mixed>>
    BY DEF startVars
  <1>2. clients' \subseteq clients /\ (mixed => mixed') /\ (mixed' \/ UNCHANGED <<clients, indexes>>)
    BY <1>1 DEF Drop
  <1>3. Onward /\ \A d \in Conns : Kept(d)
    BY <1>1, <1>2 DEF IInv, Types, Flow, Typed, Onward, Kept
  <1>4. Typed' /\ (hub' = "broadcast" => cast' > 0) /\ (~mixed' => indexes' = clients')
    BY <1>1, <1>2 DEF Flow, Typed
  <1> QED
    BY <1>3, <1>4, KeptFlow DEF Flow

\* What an offer to a client does to the channels of all.
LEMMA OfferIs ==
  ASSUME IInv, Flow, NEW d \in clients, NEW m \in Messages, Offer(d, m)
  PROVE  /\ d \in Conns /\ clients' \subseteq clients /\ (mixed => mixed')
         /\ send' \in [Conns -> Seq(Messages)]
         /\ \A e \in Conns : e # d => send'[e] = send[e]
         /\ mixed' \/ UNCHANGED <<clients, indexes>>
         /\ \/ Len(send[d]) < SendCap /\ send'[d] = Append(send[d], m) /\ mixed' = mixed
            \/ send' = send /\ d \notin clients' /\ mixed'
  <1>1. d \in Conns /\ send[d] \in Seq(Messages) /\ send \in [Conns -> Seq(Messages)]
    BY DEF IInv, Types, Flow, Typed
  <1>2. CASE Len(send[d]) < SendCap
    <2>1. /\ send' = [send EXCEPT ![d] = Append(send[d], m)]
          /\ UNCHANGED <<clients, indexes, chan, mixed>>
      BY <1>2 DEF Offer
    <2>2. Append(send[d], m) \in Seq(Messages)
      BY <1>1, AppendIs
    <2> QED
      BY <1>1, <1>2, <2>1, <2>2
  <1>3. CASE ~(Len(send[d]) < SendCap)
    <2>1. send' = send /\ clients' = clients \ {d} /\ mixed' = TRUE
      BY <1>3 DEF Offer, Drop
    <2> QED
      BY <1>1, <2>1
  <1> QED
    BY <1>2, <1>3

LEMMA BroadcastToFlow == ASSUME IInv, Flow, NEW c \in Conns, BroadcastTo(c) PROVE Flow'
  <1> DEFINE m == [kind |-> "broadcast", n |-> cast]
  <1>1. /\ hub = "broadcast" /\ c \in clients /\ c \in todo /\ todo' = todo \ {c}
        /\ Offer(c, m) /\ mixed \in BOOLEAN
        /\ UNCHANGED <<hub, cast, id, conn, rpc, wpc, upgrader, status, stopper, events,
                       heard, owed>>
    BY DEF IInv, Types, Walk, BroadcastTo, startVars
  <1>2. m \in Messages /\ m.kind = "broadcast" /\ m.n = cast
    BY <1>1, HubAssumption DEF Flow, Typed, Messages, Broadcasts
  <1> HIDE DEF m
  <1>3. /\ clients' \subseteq clients /\ (mixed => mixed') /\ send' \in [Conns -> Seq(Messages)]
        /\ \A e \in Conns : e # c => send'[e] = send[e]
        /\ mixed' \/ UNCHANGED <<clients, indexes>>
        /\ \/ Len(send[c]) < SendCap /\ send'[c] = Append(send[c], m) /\ mixed' = mixed
           \/ send' = send /\ c \notin clients' /\ mixed'
    BY <1>1, <1>2, OfferIs
  <1>4. Onward
    BY <1>1, <1>3 DEF Flow, Typed, Onward
  <1>5. \A e \in Conns : e # c => Kept(e)
    BY <1>1, <1>3 DEF Kept
  <1>6. Owed(c)' /\ Heard(c)'
    <2>1. CASE Len(send[c]) < SendCap /\ send'[c] = Append(send[c], m)
      <3>1. /\ Typed /\ Owed(c) /\ Heard(c) /\ c \in clients /\ m \in Messages
            /\ heard'[c] = heard[c] /\ wpc'[c] = wpc[c] /\ owed'[c] = owed[c]
            /\ owed[c] \in Nat /\ owed[c] + 0 = owed[c]
        BY <1>1, <1>2 DEF Flow, Typed
      <3>3. rpc'[c] # "upgrading"
        BY <1>1 DEF IInv, Open, Active
      <3>2. owed'[c] + (IF rpc'[c] = "responding" THEN 1 ELSE 0) <= events'
        BY <1>1, <3>1 DEF Owed
      <3> QED
        BY <1>1, <1>2, <1>4, <2>1, <3>1, <3>2, <3>3, PutFlow
    <2>2. CASE send' = send /\ c \notin clients'
      <3>1. Kept(c)
        BY <1>1, <2>2 DEF Kept
      <3> QED
        BY <1>4, <3>1, KeptFlow
    <2> QED
      BY <1>3, <2>1, <2>2
  <1>7. Typed' /\ (hub' = "broadcast" => cast' > 0) /\ (~mixed' => indexes' = clients')
    BY <1>1, <1>3 DEF Flow, Typed
  <1>8. \A e \in Conns : Owed(e)' /\ Heard(e)'
    BY <1>4, <1>5, <1>6, KeptFlow
  <1> QED
    BY <1>7, <1>8 DEF Flow

LEMMA DirectFlow == ASSUME IInv, Flow, NEW i \in 1..Cardinality(Conns), Direct(i) PROVE Flow'
  <1> DEFINE m == [kind |-> "direct", to |-> i]
  <1>1. /\ hub = "select" /\ Deliver(i, m) /\ events < MaxEvents /\ events' = events + 1
        /\ UNCHANGED <<hub, todo, cast, id, conn, rpc, wpc, upgrader, status, stopper,
                       heard, owed>>
        /\ mixed \in BOOLEAN
    BY DEF IInv, Types, Direct, startVars
  <1>2. m \in Messages /\ m.kind = "direct"
    BY HubAssumption, FS_CardinalityType DEF Messages, Directs, Ids
  <1> HIDE DEF m
  <1>3. events \in Nat /\ events' \in 0..MaxEvents /\ cast \in 0..events'
    BY <1>1, HubAssumption DEF Flow, Typed
  <1>4. CASE UNCHANGED <<clients, indexes, send, chan, mixed>>
    <2>1. Onward /\ \A e \in Conns : Kept(e)
      BY <1>1, <1>3, <1>4 DEF Onward, Kept
    <2>2. Typed' /\ (hub' = "broadcast" => cast' > 0) /\ (~mixed' => indexes' = clients')
      BY <1>1, <1>3, <1>4 DEF Flow, Typed
    <2> QED
      BY <2>1, <2>2, KeptFlow DEF Flow
  <1>5. ASSUME NEW d \in indexes, Offer(d, m) PROVE Flow'
    <2>0. d \in clients
      BY DEF IInv, Open
    <2>1. /\ d \in Conns /\ clients' \subseteq clients /\ (mixed => mixed')
          /\ send' \in [Conns -> Seq(Messages)]
          /\ \A e \in Conns : e # d => send'[e] = send[e]
          /\ mixed' \/ UNCHANGED <<clients, indexes>>
          /\ \/ Len(send[d]) < SendCap /\ send'[d] = Append(send[d], m) /\ mixed' = mixed
             \/ send' = send /\ d \notin clients' /\ mixed'
      BY <1>2, <1>5, <2>0, OfferIs
    <2>2. Onward
      BY <1>1, <1>3, <2>1 DEF Onward
    <2>3. \A e \in Conns : e # d => Kept(e)
      BY <1>1, <2>1 DEF Kept
    <2>4. Owed(d)' /\ Heard(d)'
      <3>1. CASE Len(send[d]) < SendCap /\ send'[d] = Append(send[d], m)
        <4>1. /\ Typed /\ Owed(d) /\ Heard(d) /\ m \in Messages
              /\ heard'[d] = heard[d] /\ wpc'[d] = wpc[d] /\ owed'[d] = owed[d]
              /\ owed[d] \in Nat /\ owed[d] + 0 = owed[d]
          BY <1>1, <1>2, <2>1 DEF Flow, Typed
        <4>2. owed'[d] + (IF rpc'[d] = "responding" THEN 1 ELSE 0) <= events'
          BY <1>1, <1>3, <4>1 DEF Owed
        <4>3. (d \in todo' <=> d \in todo) /\ rpc'[d] # "upgrading"
          BY <1>1, <2>0 DEF IInv, Open, Active
        <4> QED
          BY <1>2, <2>0, <2>1, <2>2, <3>1, <4>1, <4>2, <4>3, PutFlow
      <3>2. CASE send' = send /\ d \notin clients'
        <4>1. Kept(d)
          BY <1>1, <3>2 DEF Kept
        <4> QED
          BY <2>1, <2>2, <4>1, KeptFlow
      <3> QED
        BY <2>1, <3>1, <3>2
    <2>5. Typed' /\ (hub' = "broadcast" => cast' > 0) /\ (~mixed' => indexes' = clients')
      BY <1>1, <1>3, <2>1 DEF Flow, Typed
    <2>6. \A e \in Conns : Owed(e)' /\ Heard(e)'
      BY <2>2, <2>3, <2>4, KeptFlow
    <2> QED
      BY <2>5, <2>6 DEF Flow
  <1> QED
    BY <1>1, <1>4, <1>5 DEF Deliver
LEMMA RespondFlow == ASSUME IInv, Flow, NEW c \in Conns, Respond(c) PROVE Flow'
  <1> DEFINE m == [kind |-> "response", to |-> id[c], of |-> c]
  <1>1. /\ hub = "select" /\ rpc[c] = "responding" /\ Deliver(id[c], m)
        /\ rpc' = [rpc EXCEPT ![c] = "reading"]
        /\ owed' = [owed EXCEPT ![c] = IF wpc[c] = "writing" THEN @ + 1 ELSE @]
        /\ UNCHANGED <<hub, todo, cast, id, conn, wpc, upgrader, status, stopper, events, heard>>
    BY DEF Respond, startVars
  <1>2. m \in Messages /\ m.kind = "response" /\ m.of = c
    BY DEF Flow, Typed, Messages, Responses
  <1> HIDE DEF m
  <1>3. /\ events \in Nat /\ mixed \in BOOLEAN /\ owed' \in [Conns -> Nat]
        /\ owed[c] \in Nat /\ owed'[c] = owed[c] + (IF wpc[c] = "writing" THEN 1 ELSE 0)
        /\ rpc'[c] = "reading"
        /\ \A e \in Conns : e # c => owed'[e] = owed[e] /\ rpc'[e] = rpc[e]
    BY <1>1, HubAssumption DEF IInv, Types, Flow, Typed
  <1>4. ASSUME Onward, \A e \in Conns : Owed(e)' /\ Heard(e)',
               mixed' \/ UNCHANGED <<clients, indexes>>,
               send' \in [Conns -> Seq(Messages)]
        PROVE  Flow'
    <2>1. Typed'
      BY <1>1, <1>3, <1>4 DEF Flow, Typed
    <2>2. (hub' = "broadcast" => cast' > 0) /\ (~mixed' => indexes' = clients')
      BY <1>1, <1>4 DEF Flow, Onward
    <2> QED
      BY <1>4, <2>1, <2>2 DEF Flow
  <1>5. CASE /\ UNCHANGED <<clients, indexes, send, chan, mixed>>
             /\ {d \in indexes : id[d] = id[c]} = {}
    <2>1. mixed
      <3>1. c \notin indexes
        BY <1>5
      <3> QED
        BY <1>1, <3>1 DEF IInv, Distinct, Active, Flow
    <2>2. Onward
      BY <1>1, <1>3, <1>5 DEF Onward
    <2>3. \A e \in Conns : e # c => Kept(e)
      BY <1>1, <1>3, <1>5 DEF Kept
    <2>4. Owed(c)' /\ Heard(c)'
      BY <1>1, <1>3, <1>5, <2>1, <2>2, AskedFlow
    <2>5. \A e \in Conns : Owed(e)' /\ Heard(e)'
      BY <2>2, <2>3, <2>4, KeptFlow
    <2> QED
      BY <1>4, <1>5, <2>2, <2>5 DEF Flow, Typed
  <1>6. ASSUME NEW d \in indexes, id[d] = id[c], Offer(d, m) PROVE Flow'
    <2>1. d \in clients
      BY DEF IInv, Open
    <2>2. /\ d \in Conns /\ clients' \subseteq clients /\ (mixed => mixed')
          /\ send' \in [Conns -> Seq(Messages)]
          /\ \A e \in Conns : e # d => send'[e] = send[e]
          /\ mixed' \/ UNCHANGED <<clients, indexes>>
          /\ \/ Len(send[d]) < SendCap /\ send'[d] = Append(send[d], m) /\ mixed' = mixed
             \/ send' = send /\ d \notin clients' /\ mixed'
      BY <1>2, <1>6, <2>1, OfferIs
    <2>3. Onward
      BY <1>1, <1>3, <2>2 DEF Onward
    <2>4. d # c => mixed
      <3>1. ~mixed => c \in clients
        BY <1>1 DEF IInv, Distinct, Active
      <3> QED
        BY <1>6, <2>1, <3>1 DEF IInv, Distinct
    <2>5. \A e \in Conns : e # c /\ e # d => Kept(e)
      BY <1>1, <1>3, <2>2 DEF Kept
    <2>6. CASE send' = send /\ d \notin clients' /\ mixed'
      <3>1. \A e \in Conns : e # c => Kept(e)
        BY <1>1, <1>3, <2>2, <2>6 DEF Kept
      <3>2. Owed(c)' /\ Heard(c)'
        BY <1>1, <1>3, <2>2, <2>3, <2>6, AskedFlow
      <3>3. \A e \in Conns : Owed(e)' /\ Heard(e)'
        BY <2>3, <3>1, <3>2, KeptFlow
      <3> QED
        BY <1>4, <2>2, <2>3, <3>3
    <2>7. CASE Len(send[d]) < SendCap /\ send'[d] = Append(send[d], m)
      <3>1. /\ Typed /\ Owed(d) /\ Heard(d) /\ heard'[d] = heard[d] /\ wpc'[d] = wpc[d]
            /\ (d \in todo' <=> d \in todo) /\ owed[d] \in Nat /\ owed[d] + 0 = owed[d]
        BY <1>1, <2>2 DEF Flow, Typed
      <3>2. rpc'[d] # "upgrading"
        BY <1>1, <1>3, <2>1, <2>2 DEF IInv, Open, Active
      <3>3. owed'[d] = owed[d] + (IF m.kind = "response" /\ m.of = d /\ wpc[d] = "writing"
                                  THEN 1 ELSE 0)
        BY <1>2, <1>3, <2>2, <3>1
      <3>4. owed'[d] + (IF rpc'[d] = "responding" THEN 1 ELSE 0) <= events'
        <4>1. CASE d = c
          BY <1>1, <1>3, <3>1, <4>1 DEF Owed
        <4>2. CASE d # c
          BY <1>1, <1>3, <2>2, <3>1, <4>2 DEF Owed
        <4> QED
          BY <4>1, <4>2
      <3>5. Owed(d)' /\ Heard(d)'
        BY <1>2, <2>1, <2>2, <2>3, <2>7, <3>1, <3>2, <3>3, <3>4, PutFlow
      <3>6. d # c => Owed(c)' /\ Heard(c)'
        BY <1>1, <1>3, <2>2, <2>3, <2>4, AskedFlow
      <3>7. \A e \in Conns : Owed(e)' /\ Heard(e)'
        BY <2>3, <2>5, <3>5, <3>6, KeptFlow
      <3> QED
        BY <1>4, <2>2, <2>3, <3>7
    <2> QED
      BY <2>2, <2>6, <2>7
  <1> QED
    BY <1>1, <1>5, <1>6 DEF Deliver

LEMMA BroadcastFlow == ASSUME IInv, Flow, Broadcast PROVE Flow'
  <1>1. /\ events < MaxEvents /\ events' = events + 1 /\ cast' = cast + 1
        /\ todo' = clients /\ hub' = "broadcast" /\ hub = "select"
        /\ UNCHANGED <<clients, indexes, id, send, chan, conn, rpc, wpc, upgrader, status,
                       stopper, heard, owed, mixed>>
    BY DEF Broadcast, pumpVars, startVars, history
  <1>2. /\ events \in Nat /\ cast \in Nat /\ todo = {}
        /\ heard \in [Conns -> Nat] /\ owed \in [Conns -> Nat]
    BY <1>1, HubAssumption DEF IInv, Walk, Flow, Typed
  <1>3. Typed'
    BY <1>1, <1>2, HubAssumption DEF Flow, Typed
  <1>4. ASSUME NEW c \in Conns PROVE Owed(c)' /\ Heard(c)'
    <2>1. /\ Cardinality(CastOf(send[c])) \in Nat /\ heard[c] \in Nat /\ owed[c] \in Nat
          /\ Owed(c) /\ Heard(c)
      BY <1>2, QueueIs DEF Flow, Typed
    <2>2. Owed(c)'
      BY <1>1, <1>2, <2>1 DEF Owed
    <2>3. Heard(c)'
      BY <1>1, <1>2, <2>1 DEF Heard
    <2> QED
      BY <2>2, <2>3
  <1> QED
    BY <1>1, <1>2, <1>3, <1>4 DEF Flow

LEMMA ExitFlow == ASSUME IInv, Flow, Exit PROVE Flow'
  <1>1. /\ clients' = {} /\ hub' = "exited" /\ upgrader' = "closed" /\ status' = "CLOSED"
        /\ indexes' = {d \in indexes : \A c \in clients : id[d] # id[c]}
        /\ mixed' = (mixed \/ clients # {})
        /\ UNCHANGED <<todo, cast, id, send, conn, rpc, wpc, stopper, events, heard, owed>>
    BY DEF Exit
  <1>2. indexes' = {}
    BY <1>1 DEF IInv, Open
  <1>3. mixed' \in BOOLEAN /\ (mixed => mixed') /\ events \in Nat
    BY <1>1, HubAssumption DEF IInv, Types, Flow, Typed
  <1>4. Onward
    BY <1>1, <1>3 DEF IInv, Types, Onward
  <1>5. \A c \in Conns : Kept(c)
    BY <1>1 DEF Kept
  <1> QED
    BY <1>1, <1>2, <1>4, <1>5, KeptFlow DEF Flow, Typed

\* Steps that touch nothing Owed and Heard speak of.
LEMMA ElsewhereFlow ==
  ASSUME IInv, Flow, BroadcastDone \/ Start \/ Signal \/ Stop \/ StopTaken
  PROVE  Flow'
  <1>1. /\ UNCHANGED <<clients, indexes, todo, cast, id, send, chan, conn, rpc, wpc, events,
                       heard, owed, mixed>>
        /\ hub' = hub \/ hub' = "select"
        /\ upgrader' \in {upgrader, "waiting", "exiting"} /\ status' \in {status, "LISTENING"}
        /\ stopper' \in {"idle", "sending", stopper}
    BY DEF BroadcastDone, Start, Signal, Stop, StopTaken, hubVars, pumpVars, startVars, history
  <1>2. Onward /\ \A c \in Conns : Kept(c)
    BY <1>1, HubAssumption DEF IInv, Types, Flow, Typed, Onward, Kept
  <1>3. Typed'
    BY <1>1 DEF Flow, Typed
  <1> QED
    BY <1>1, <1>2, <1>3, KeptFlow DEF Flow

-----------------------------------------------------------------------------
(* The upgrader and the pumps.                                             *)

LEMMA UpgradeFlow == ASSUME IInv, Flow, NEW c \in Conns, Upgrade(c) PROVE Flow'
  <1>1. /\ {rpc[c], wpc[c]} \subseteq {"none", "done"} /\ c \notin clients
        /\ events < MaxEvents /\ events' = events + 1
        /\ id' = [id EXCEPT ![c] = Cardinality(clients) + 1]
        /\ send' = [send EXCEPT ![c] = <<>>] /\ conn' = [conn EXCEPT ![c] = "open"]
        /\ rpc' = [rpc EXCEPT ![c] = "upgrading"] /\ wpc' = [wpc EXCEPT ![c] = "none"]
        /\ mixed' = (mixed \/ \E d \in Conns : rpc[d] = "upgrading")
        /\ UNCHANGED <<hub, clients, indexes, todo, cast, upgrader, status, stopper, heard, owed>>
    BY DEF Upgrade, NextID, hubVars, startVars
  <1>2. Cardinality(clients) + 1 \in Ids
    <2>1. clients \subseteq Conns \ {c} /\ IsFiniteSet(Conns) /\ IsFiniteSet(Conns \ {c})
      BY <1>1, HubAssumption, FS_Subset DEF IInv, Types
    <2>2. Cardinality(clients) <= Cardinality(Conns \ {c})
      BY <2>1, FS_Subset
    <2>3. Cardinality(Conns \ {c}) = Cardinality(Conns) - 1
      BY <2>1, FS_RemoveElement
    <2>4. Cardinality(clients) \in Nat /\ Cardinality(Conns) \in Nat
      BY <2>1, Counting, FS_CardinalityType DEF IInv
    <2> QED
      BY <2>2, <2>3, <2>4 DEF Ids
  <1>3. Onward
    BY <1>1, HubAssumption DEF IInv, Types, Flow, Typed, Onward
  <1>4. \A d \in Conns : d # c => Kept(d)
    BY <1>1 DEF IInv, Types, Flow, Typed, Kept
  <1>5. Typed'
    <2>1. send' \in [Conns -> Seq(Messages)] /\ id' \in [Conns -> Ids]
      BY <1>1, <1>2, EmptyIs DEF Flow, Typed
    <2>2. conn' \in [Conns -> {"none", "open", "closed"}]
      BY <1>1 DEF Flow, Typed
    <2> QED
      BY <1>1, <2>1, <2>2, HubAssumption DEF Flow, Typed
  <1>6. Owed(c)' /\ Heard(c)'
    <2>1. /\ send'[c] = <<>> /\ rpc'[c] = "upgrading" /\ wpc'[c] = "none"
          /\ wpc[c] # "writing" /\ heard'[c] = heard[c] /\ owed'[c] = owed[c]
      BY <1>1 DEF IInv, Types, Flow, Typed
    <2>2. heard[c] = 0 /\ owed[c] = 0 /\ events' \in Nat /\ Len(<<>>) = 0 /\ SendCap \in Nat
      BY <1>3, <2>1, HubAssumption DEF Flow, Owed, Onward
    <2> QED
      BY <1>1, <2>1, <2>2 DEF Owed, Heard
  <1>7. \A d \in Conns : Owed(d)' /\ Heard(d)'
    BY <1>3, <1>4, <1>6, KeptFlow
  <1>8. (hub' = "broadcast" => cast' > 0) /\ (~mixed' => indexes' = clients')
    BY <1>1 DEF Flow
  <1> QED
    BY <1>5, <1>7, <1>8 DEF Flow

LEMMA ReadFlow == ASSUME IInv, Flow, NEW c \in Conns, Read(c) PROVE Flow'
  <1>1. /\ rpc[c] = "reading" /\ events < MaxEvents /\ events' = events + 1
        /\ rpc' = [rpc EXCEPT ![c] = "responding"]
        /\ UNCHANGED <<hub, clients, indexes, todo, cast, id, send, chan, conn, wpc, upgrader,
                       status, stopper, heard, owed, mixed>>
    BY DEF Read, hubVars, startVars, history
  <1>2. Onward
    BY <1>1, HubAssumption DEF IInv, Types, Flow, Typed, Onward
  <1>3. \A d \in Conns : d # c => Kept(d)
    BY <1>1 DEF IInv, Types, Kept
  <1>4. Owed(c)' /\ Heard(c)'
    <2>1. Owed(c) /\ Heard(c) /\ owed[c] \in Nat /\ events \in Nat /\ rpc'[c] = "responding"
      BY <1>1, <1>2 DEF IInv, Types, Flow, Typed, Onward
    <2>2. Owed(c)'
      <3>1. owed[c] + 0 <= events
        BY <1>1, <2>1 DEF Owed
      <3>2. owed[c] + 1 <= events + 1
        BY <2>1, <3>1
      <3> QED
        BY <1>1, <2>1, <3>2 DEF Owed
    <2>3. Heard(c)'
      BY <1>1, <2>1 DEF Heard
    <2> QED
      BY <2>2, <2>3
  <1>5. Typed'
    BY <1>1, HubAssumption DEF Flow, Typed
  <1>6. \A d \in Conns : Owed(d)' /\ Heard(d)'
    BY <1>2, <1>3, <1>4, KeptFlow
  <1> QED
    BY <1>1, <1>5, <1>6 DEF Flow

LEMMA ReadErrorFlow == ASSUME IInv, Flow, NEW c \in Conns, ReadError(c) PROVE Flow'
  <1>1. /\ rpc' = [rpc EXCEPT ![c] = "leaving"]
        /\ UNCHANGED <<hub, clients, indexes, todo, cast, id, send, chan, conn, wpc, upgrader,
                       status, stopper, events, heard, owed, mixed>>
    BY DEF ReadError, hubVars, startVars, history
  <1>2. Onward /\ \A d \in Conns : Kept(d)
    BY <1>1, HubAssumption DEF IInv, Types, Flow, Typed, Onward, Kept
  <1>3. Typed'
    BY <1>1 DEF Flow, Typed
  <1> QED
    BY <1>1, <1>2, <1>3, KeptFlow DEF Flow

LEMMA ReadPumpEndsFlow == ASSUME IInv, Flow, NEW c \in Conns, ReadPumpEnds(c) PROVE Flow'
  <1>1. /\ rpc[c] = "closing" /\ rpc' = [rpc EXCEPT ![c] = "done"]
        /\ conn' = [conn EXCEPT ![c] = "closed"]
        /\ send' = [send EXCEPT ![c] = IF wpc[c] = "done" THEN <<>> ELSE send[c]]
        /\ id' = [id EXCEPT ![c] = IF wpc[c] = "done" THEN 0 ELSE @]
        /\ UNCHANGED <<hub, clients, indexes, todo, cast, chan, wpc, upgrader, status, stopper,
                       events, heard, owed, mixed>>
    BY DEF ReadPumpEnds, Ends, hubVars, startVars, history
  <1>2. Onward
    BY <1>1, HubAssumption DEF IInv, Types, Flow, Typed, Onward
  <1>3. \A d \in Conns : d # c => Kept(d)
    BY <1>1 DEF IInv, Types, Flow, Typed, Kept
  <1>4. Owed(c)' /\ Heard(c)'
    <2>1. CASE wpc[c] = "done"
      <3>1. send'[c] = <<>> /\ rpc'[c] = "done" /\ wpc'[c] = "done" /\ c \notin clients'
        BY <1>1, <2>1 DEF IInv, Types, Open, Active, Flow, Typed
      <3>2. heard[c] = 0 /\ owed[c] = 0 /\ events \in Nat /\ Len(<<>>) = 0 /\ SendCap \in Nat
        BY <1>2, <2>1, HubAssumption DEF Flow, Owed, Onward
      <3> QED
        BY <1>1, <3>1, <3>2 DEF Owed, Heard
    <2>2. CASE wpc[c] # "done"
      <3>1. Kept(c)
        BY <1>1, <2>2 DEF IInv, Types, Flow, Typed, Kept
      <3> QED
        BY <1>2, <3>1, KeptFlow
    <2> QED
      BY <2>1, <2>2
  <1>5. Typed'
    <2>1. send' \in [Conns -> Seq(Messages)]
      BY <1>1, EmptyIs DEF Flow, Typed
    <2>2. 0 \in Ids
      BY HubAssumption, FS_CardinalityType DEF Ids
    <2>3. conn' \in [Conns -> {"none", "open", "closed"}] /\ id' \in [Conns -> Ids]
      BY <1>1, <2>2 DEF Flow, Typed
    <2> QED
      BY <1>1, <2>1, <2>3 DEF Flow, Typed
  <1>6. \A d \in Conns : Owed(d)' /\ Heard(d)'
    BY <1>2, <1>3, <1>4, KeptFlow
  <1> QED
    BY <1>1, <1>5, <1>6 DEF Flow

LEMMA WriteFlow == ASSUME IInv, Flow, NEW c \in Conns, Write(c) PROVE Flow'
  <1> DEFINE h == Cardinality(CastOf(send[c]))
             w == Cardinality(OwnOf(send[c], c))
  <1>1. /\ wpc[c] = "writing" /\ heard' = [heard EXCEPT ![c] = @ + h]
        /\ owed' = [owed EXCEPT ![c] = @ - w] /\ send' = [send EXCEPT ![c] = <<>>]
        /\ UNCHANGED <<hub, clients, indexes, todo, cast, id, chan, conn, rpc, wpc, upgrader,
                       status, stopper, events, mixed>>
    BY DEF Write, Cast, Own, CastOf, OwnOf, hubVars, startVars
  <1>2. h \in Nat /\ w \in Nat
    BY QueueIs DEF Flow, Typed
  <1>3. /\ heard[c] \in Nat /\ owed[c] \in Nat /\ cast \in Nat /\ events \in Nat
        /\ Owed(c) /\ Heard(c)
    BY HubAssumption DEF Flow, Typed
  <1> HIDE DEF h, w
  <1>4. w <= owed[c] /\ heard[c] + h <= cast /\ rpc[c] # "upgrading"
        /\ owed[c] + (IF rpc[c] = "responding" THEN 1 ELSE 0) <= events
    BY <1>1, <1>3 DEF Owed, h, w
  <1>5. c \in clients => /\ heard[c] + h = cast - (IF c \in todo THEN 1 ELSE 0)
                         /\ ~mixed => w = owed[c]
    BY <1>1, <1>3 DEF Heard, h, w
  <1>6. heard'[c] = heard[c] + h /\ owed'[c] = owed[c] - w /\ send'[c] = <<>>
        /\ owed[c] - w \in Nat /\ heard[c] + h \in Nat
    BY <1>1, <1>2, <1>3, <1>4 DEF Flow, Typed
  <1>7. Owed(c)'
    <2>1. Len(<<>>) = 0 /\ SendCap \in Nat
      BY HubAssumption
    <2> QED
      BY <1>1, <1>2, <1>3, <1>4, <1>6, <2>1, EmptyQueue DEF Owed
  <1>8. Heard(c)'
    BY <1>1, <1>2, <1>3, <1>4, <1>5, <1>6, EmptyQueue DEF Heard
  <1>9. Onward
    BY <1>1, <1>3 DEF IInv, Types, Onward
  <1>10. \A d \in Conns : d # c => Kept(d)
    BY <1>1 DEF Flow, Typed, Kept
  <1>11. Typed'
    <2>1. send' \in [Conns -> Seq(Messages)]
      BY <1>1, EmptyIs DEF Flow, Typed
    <2>2. heard' \in [Conns -> Nat] /\ owed' \in [Conns -> Nat]
      BY <1>1, <1>6 DEF Flow, Typed
    <2> QED
      BY <1>1, <2>1, <2>2 DEF Flow, Typed
  <1>12. \A d \in Conns : Owed(d)' /\ Heard(d)'
    BY <1>7, <1>8, <1>9, <1>10, KeptFlow
  <1> QED
    BY <1>1, <1>11, <1>12 DEF Flow

LEMMA WriterEndsFlow ==
  ASSUME IInv, Flow, NEW c \in Conns, NEW rest \in {send[c], Tail(send[c]), <<>>},
         send[c] = <<>> => rest = <<>>, WriterEnds(c, rest)
  PROVE  Flow'
  <1>1. /\ wpc[c] = "writing" /\ wpc' = [wpc EXCEPT ![c] = "done"]
        /\ conn' = [conn EXCEPT ![c] = "closed"]
        /\ send' = [send EXCEPT ![c] = IF rpc[c] = "done" THEN <<>> ELSE rest]
        /\ id' = [id EXCEPT ![c] = IF rpc[c] = "done" THEN 0 ELSE @]
        /\ heard' = [heard EXCEPT ![c] = 0] /\ owed' = [owed EXCEPT ![c] = 0]
        /\ UNCHANGED <<hub, clients, indexes, todo, cast, chan, rpc, upgrader, status, stopper,
                       events, mixed>>
    BY DEF WriterEnds, Ends, hubVars, startVars
  <1>2. rest \in Seq(Messages) /\ Len(rest) <= SendCap
    <2>1. send[c] \in Seq(Messages) /\ Len(send[c]) <= SendCap /\ SendCap \in Nat
      BY HubAssumption DEF Flow, Typed, Owed
    <2>2. CASE rest = <<>>
      BY <2>1, <2>2, EmptyIs
    <2>3. CASE rest = Tail(send[c]) /\ send[c] # <<>>
      BY <2>1, <2>3
    <2> QED
      BY <2>1, <2>2, <2>3
  <1>3. Onward
    BY <1>1, HubAssumption DEF IInv, Types, Flow, Typed, Onward
  <1>4. \A d \in Conns : d # c => Kept(d)
    BY <1>1 DEF IInv, Types, Flow, Typed, Kept
  <1>5. Owed(c)' /\ Heard(c)'
    <2>1. /\ wpc'[c] = "done" /\ heard'[c] = 0 /\ owed'[c] = 0 /\ rpc'[c] = rpc[c]
          /\ send'[c] \in {<<>>, rest}
      BY <1>1 DEF IInv, Types, Flow, Typed
    <2>2. /\ rpc[c] # "upgrading" /\ events' \in Nat /\ Len(<<>>) = 0 /\ SendCap \in Nat
          /\ (rpc[c] = "responding" => events' >= 1)
      BY <1>1, <1>3, HubAssumption DEF Flow, Typed, Owed, Onward
    <2>3. Len(send'[c]) <= SendCap
      BY <1>2, <2>1, <2>2
    <2> QED
      BY <2>1, <2>2, <2>3 DEF Owed, Heard
  <1>6. Typed'
    <2>1. send' \in [Conns -> Seq(Messages)]
      BY <1>1, <1>2, EmptyIs DEF Flow, Typed
    <2>2. 0 \in Ids
      BY HubAssumption, FS_CardinalityType DEF Ids
    <2>3. /\ conn' \in [Conns -> {"none", "open", "closed"}] /\ id' \in [Conns -> Ids]
          /\ heard' \in [Conns -> Nat] /\ owed' \in [Conns -> Nat]
      BY <1>1, <2>2 DEF Flow, Typed
    <2> QED
      BY <1>1, <2>1, <2>3 DEF Flow, Typed
  <1>7. \A d \in Conns : Owed(d)' /\ Heard(d)'
    BY <1>3, <1>4, <1>5, KeptFlow
  <1> QED
    BY <1>1, <1>6, <1>7 DEF Flow

-----------------------------------------------------------------------------
LEMMA InitFlow == Init => Flow
  <1> SUFFICES ASSUME Init PROVE Flow
    OBVIOUS
  <1>1. Typed
    <2>1. 0 \in Ids
      BY HubAssumption, FS_CardinalityType DEF Ids
    <2> QED
      BY <2>1, EmptyIs, HubAssumption DEF Init, Typed
  <1>2. ASSUME NEW c \in Conns PROVE Owed(c) /\ Heard(c)
    <2>1. Len(<<>>) = 0 /\ SendCap \in Nat
      BY HubAssumption
    <2> QED
      BY <2>1 DEF Init, Owed, Heard
  <1> QED
    BY <1>1, <1>2 DEF Init, Flow

LEMMA StepFlow == IInv /\ Flow /\ [Next]_vars => Flow'
  <1> SUFFICES ASSUME IInv, Flow, [Next]_vars PROVE Flow'
    OBVIOUS
  <1>1. CASE Hub
    BY <1>1, RegisterFlow, UnregisterFlow, RespondFlow, DirectFlow, BroadcastToFlow,
       BroadcastFlow, ElsewhereFlow, ExitFlow DEF Hub
  <1>2. CASE Start \/ Signal \/ Stop \/ StopTaken
    BY <1>2, ElsewhereFlow
  <1>3. ASSUME NEW c \in Conns, Upgrade(c) PROVE Flow'
    BY <1>3, UpgradeFlow
  <1>4. ASSUME NEW c \in Conns, Pump(c) PROVE Flow'
    <2>1. CASE Read(c) \/ ReadError(c) \/ ReadPumpEnds(c) \/ Write(c)
      BY <2>1, ReadFlow, ReadErrorFlow, ReadPumpEndsFlow, WriteFlow
    <2>2. CASE WriteError(c)
      <3>1. PICK rest \in {Tail(send[c]), <<>>} : WriterEnds(c, rest) /\ send[c] # <<>>
        BY <2>2 DEF WriteError
      <3> QED
        BY <3>1, WriterEndsFlow
    <2>3. CASE PingError(c) \/ WritePumpEnds(c)
      <3>1. PICK rest \in {send[c], Tail(send[c]), <<>>} :
                 WriterEnds(c, rest) /\ (send[c] = <<>> => rest = <<>>)
        BY <2>3 DEF PingError, WritePumpEnds, WriterEnds, Ends
      <3> QED
        BY <3>1, WriterEndsFlow
    <2> QED
      BY <1>4, <2>1, <2>2, <2>3 DEF Pump
  <1>5. CASE UNCHANGED vars
    BY <1>5 DEF vars, hubVars, pumpVars, startVars, history, Flow, Typed, Owed, Heard
  <1> QED
    BY <1>1, <1>2, <1>3, <1>4, <1>5 DEF Next

\* What a client has had and has queued agrees with what was sent, in every
\* state (hub.go:67-92, upgrader.go:179-231).
THEOREM Accounted == Spec => []Flow
  <1>1. Init => IInv /\ Flow
    BY InitIInv, InitFlow
  <1>2. IInv /\ Flow /\ [Next]_vars => (IInv /\ Flow)'
    BY StepIInv, StepFlow
  <1> QED
    BY <1>1, <1>2, PTL DEF Spec

\* Every variable keeps its type, and a channel its capacity.
THEOREM TypeCorrect == Spec => []TypeOK
  <1>1. ASSUME IInv, Flow PROVE TypeOK
    <2>1. heard \in [Conns -> 0..cast]
      <3> SUFFICES ASSUME NEW c \in Conns PROVE heard[c] \in 0..cast
        BY <1>1 DEF Flow, Typed
      <3>1. heard[c] \in Nat /\ cast \in Nat
        BY <1>1, HubAssumption DEF Flow, Typed
      <3>2. Cardinality(CastOf(send[c])) \in Nat
        BY <1>1, QueueIs DEF Flow, Typed
      <3>3. wpc[c] \in {"none", "writing", "done"}
        BY <1>1 DEF IInv, Types
      <3> QED
        BY <1>1, <3>1, <3>2, <3>3 DEF Flow, Owed
    <2>2. owed \in [Conns -> 0..events]
      <3> SUFFICES ASSUME NEW c \in Conns PROVE owed[c] \in 0..events
        BY <1>1 DEF Flow, Typed
      <3>1. owed[c] \in Nat /\ events \in Nat
        BY <1>1, HubAssumption DEF Flow, Typed
      <3> QED
        BY <1>1, <3>1 DEF Flow, Owed
    <2>3. todo \subseteq Conns
      BY <1>1 DEF IInv, Walk, Types
    <2>4. \A c \in Conns : Len(send[c]) <= SendCap
      BY <1>1 DEF Flow, Owed
    <2> QED
      BY <1>1, <2>1, <2>2, <2>3, <2>4 DEF IInv, Types, Stages, Active, Flow, Typed, TypeOK
  <1> QED
    BY <1>1, Invariance, Accounted, PTL

\* A listed client misses no broadcast and, while ids are unique, no response,
\* and gets the broadcasts in order: who would miss one is dropped
\* (hub.go:67-92).
THEOREM NothingMissed == Spec => []NoGap
  <1>1. IInv /\ Flow => NoGap
    BY DEF IInv, Types, Flow, Heard, NoGap, Cast, Own, CastOf, OwnOf
  <1> QED
    BY <1>1, Invariance, Accounted, PTL
=============================================================================
