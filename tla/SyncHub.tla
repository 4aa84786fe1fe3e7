------------------------------ MODULE SyncHub ------------------------------
(***************************************************************************)
(* The real-time relay of backend/internal/hub/hub.go: one goroutine (Run) *)
(* that owns every room, and per connection a ServeWS handler that becomes *)
(* two goroutines, readPump and writePump.  They talk through channels:    *)
(* register and unregister are unbuffered, broadcast and each client's     *)
(* send are bounded.                                                       *)
(*                                                                         *)
(* A connection's id is a fresh UUID, so an element of Clients connects at *)
(* most once; a writer who reconnects is another element.  What a Yjs      *)
(* message holds is opaque to the hub: <<c, n>> is the n-th one read from  *)
(* connection c.  Writing the frame and taking it from the channel are one *)
(* step of writePump: a write that never returns is a writePump that takes *)
(* no step (there is no write deadline), so its fairness is optional.      *)
(***************************************************************************)
EXTENDS Naturals, Sequences, FiniteSets

CONSTANTS Clients,       \* connections, one *Client each
          Rooms,         \* room ids: the scriptId of the URL
          SendCap,       \* capacity of Client.send (128 in the code)
          BroadcastCap,  \* capacity of Hub.broadcast (256 in the code)
          MaxUpdates,    \* bound: messages read from each connection
          Stalled        \* connections whose peer may stop reading for good

ASSUME CapsAssumption == SendCap \in Nat \ {0} /\ BroadcastCap \in Nat \ {0}
ASSUME BoundAssumption == MaxUpdates \in [Clients -> Nat]
ASSUME StalledAssumption == Stalled \subseteq Clients

VARIABLES
  pump,       \* where c's handler, and then its readPump, is
  writer,     \* c's writePump
  conn,       \* c's socket
  room,       \* Client.RoomID
  sent,       \* messages read from c so far
  send,       \* Client.send: the channel's buffer
  closed,     \* the clients whose send channel has been closed
  live,       \* the keys of Hub.rooms
  clients,    \* Room.clients
  log,        \* Room.updates
  broadcast,  \* Hub.broadcast: the channel's buffer
  hub,        \* where Run is: in its select, or replaying a log to a joiner
  got,        \* history: what reached c's socket
  missed      \* history: what the hub dropped for c

roomVars == <<live, clients, log>>
connVars == <<writer, conn, got>>
vars == <<pump, writer, conn, room, sent, send, closed, live, clients, log,
          broadcast, hub, got, missed>>

-----------------------------------------------------------------------------
Update == UNION {{c} \X (1..MaxUpdates[c]) : c \in Clients}
Message == [room : Rooms, sender : Clients, data : Update]
Member == {"reading", "holding", "leaving"}   \* registered, not yet unregistered
Selecting == [mode |-> "select"]
Replaying(c, i) == [mode |-> "replay", client |-> c, next |-> i]

Init ==
  /\ pump = [c \in Clients |-> "idle"]
  /\ writer = [c \in Clients |-> "none"]
  /\ conn = [c \in Clients |-> "none"]
  /\ room \in [Clients -> Rooms]
  /\ sent = [c \in Clients |-> 0]
  /\ send = [c \in Clients |-> <<>>]
  /\ closed = {}
  /\ live = {}
  /\ clients = [r \in Rooms |-> {}]
  /\ log = [r \in Rooms |-> <<>>]
  /\ broadcast = <<>>
  /\ hub = Selecting
  /\ got = [c \in Clients |-> <<>>]
  /\ missed = [c \in Clients |-> {}]

-----------------------------------------------------------------------------
(* ServeWS: the upgrade, then the handler blocks on h.register. *)
ServeWS(c) ==
  /\ pump[c] = "idle"
  /\ pump' = [pump EXCEPT ![c] = "registering"]
  /\ conn' = [conn EXCEPT ![c] = "up"]
  /\ UNCHANGED <<writer, room, sent, send, closed, roomVars, broadcast, hub,
                 got, missed>>

(* Faulty: c is put in the room and the log is not replayed to it. *)
HubRegisterWithoutReplay(c) ==
  LET r == room[c] IN
  /\ hub = Selecting
  /\ pump[c] = "registering"
  /\ pump' = [pump EXCEPT ![c] = "reading"]
  /\ writer' = [writer EXCEPT ![c] = "running"]
  /\ live' = live \union {r}
  /\ log' = IF r \in live THEN log ELSE [log EXCEPT ![r] = <<>>]
  /\ clients' = [clients EXCEPT ![r] = IF r \in live THEN @ \union {c} ELSE {c}]
  /\ UNCHANGED <<hub, conn, room, sent, send, closed, broadcast, got, missed>>

(* Run takes c from register: the handler goes on to start both pumps while *)
(* Run stays in this case until the whole log is in c's channel.            *)
HubRegister(c) ==
  LET r == room[c] IN
  /\ hub = Selecting
  /\ pump[c] = "registering"
  /\ pump' = [pump EXCEPT ![c] = "reading"]
  /\ writer' = [writer EXCEPT ![c] = "running"]
  /\ live' = live \union {r}
  /\ log' = IF r \in live THEN log ELSE [log EXCEPT ![r] = <<>>]
  /\ clients' = [clients EXCEPT ![r] = IF r \in live THEN @ \union {c} ELSE {c}]
  /\ hub' = Replaying(c, 1)
  /\ UNCHANGED <<conn, room, sent, send, closed, broadcast, got, missed>>

(* Faulty: the last slot of a channel is never used. *)
ReplayOffByOne ==
  LET c == hub.client
      r == room[c]
  IN
  /\ hub.mode = "replay"
  /\ \/ /\ hub.next <= Len(log[r])
        /\ Len(send[c]) + 1 < SendCap
        /\ send' = [send EXCEPT ![c] = Append(@, log[r][hub.next])]
        /\ hub' = Replaying(c, hub.next + 1)
     \/ /\ hub.next > Len(log[r])
        /\ hub' = Selecting
        /\ UNCHANGED send
  /\ UNCHANGED <<pump, connVars, room, sent, closed, roomVars, broadcast, missed>>

(* c.send <- upd for the next update of the log; it blocks on a full channel. *)
Replay ==
  LET c == hub.client
      r == room[c]
  IN
  /\ hub.mode = "replay"
  /\ \/ /\ hub.next <= Len(log[r])
        /\ Len(send[c]) < SendCap
        /\ send' = [send EXCEPT ![c] = Append(@, log[r][hub.next])]
        /\ hub' = Replaying(c, hub.next + 1)
     \/ /\ hub.next > Len(log[r])
        /\ hub' = Selecting
        /\ UNCHANGED send
  /\ UNCHANGED <<pump, connVars, room, sent, closed, roomVars, broadcast, missed>>

(* Faulty: Run forgets to delete c from the room's map. *)
HubUnregisterKeepsClient(c) ==
  /\ hub = Selecting
  /\ pump[c] = "leaving"
  /\ pump' = [pump EXCEPT ![c] = "gone"]
  /\ closed' = closed \union {c}
  /\ UNCHANGED <<connVars, room, sent, send, roomVars, broadcast, hub, missed>>

(* Faulty: the room goes with whoever leaves it, not with the last to leave. *)
HubUnregisterDropsRoom(c) ==
  /\ hub = Selecting
  /\ pump[c] = "leaving"
  /\ pump' = [pump EXCEPT ![c] = "gone"]
  /\ closed' = closed \union {c}
  /\ clients' = [clients EXCEPT ![room[c]] = @ \ {c}]
  /\ live' = live \ {room[c]}
  /\ log' = [log EXCEPT ![room[c]] = <<>>]
  /\ UNCHANGED <<connVars, room, sent, send, broadcast, hub, missed>>

(* Run takes c from unregister. *)
HubUnregister(c) ==
  LET r == room[c] IN
  /\ hub = Selecting
  /\ pump[c] = "leaving"
  /\ pump' = [pump EXCEPT ![c] = "gone"]
  /\ closed' = closed \union {c}
  /\ clients' = [clients EXCEPT ![r] = @ \ {c}]
  /\ IF clients[r] \subseteq {c}
     THEN live' = live \ {r} /\ log' = [log EXCEPT ![r] = <<>>]
     ELSE UNCHANGED <<live, log>>
  /\ UNCHANGED <<connVars, room, sent, send, broadcast, hub, missed>>

(* What the fan-out does to the state, given who is offered the update. *)
FanOut(others, ready) ==
  LET msg == Head(broadcast) IN
  /\ broadcast # <<>>
  /\ broadcast' = Tail(broadcast)
  /\ IF msg.room \in live
     THEN /\ log' = [log EXCEPT ![msg.room] = Append(@, msg.data)]
          /\ send' = [c \in Clients |->
                        IF c \in ready THEN Append(send[c], msg.data) ELSE send[c]]
          /\ missed' = [c \in Clients |->
                          IF c \in others \ ready THEN missed[c] \union {msg.data}
                                                  ELSE missed[c]]
     ELSE UNCHANGED <<log, send, missed>>
  /\ UNCHANGED <<pump, connVars, room, sent, closed, live, clients, hub>>

Others(msg) == clients[msg.room] \ {msg.sender}

(* Faulty: a joiner's log is replayed by another goroutine, Run goes on. *)
HubBroadcastDuringReplay ==
  LET others == Others(Head(broadcast)) IN
  FanOut(others, {c \in others : Len(send[c]) < SendCap})

(* Faulty: the last slot of a channel is never used. *)
HubBroadcastOffByOne ==
  LET others == Others(Head(broadcast)) IN
  hub = Selecting /\ FanOut(others, {c \in others : Len(send[c]) + 1 < SendCap})

(* Faulty: the send channels have no capacity limit. *)
HubBroadcastUnbounded ==
  LET others == Others(Head(broadcast)) IN
  hub = Selecting /\ FanOut(others, others)

(* Run takes the head of broadcast: drop it if the room is gone, else log it  *)
(* and offer it to every other client without blocking.  One step: between    *)
(* two of those sends only writePumps run, and a writePump's receive moved    *)
(* before the whole fan-out gives the same state.                             *)
HubBroadcast ==
  LET others == Others(Head(broadcast)) IN
  hub = Selecting /\ FanOut(others, {c \in others : Len(send[c]) < SendCap})

-----------------------------------------------------------------------------
(* readPump: a message is read, then put in broadcast (blocking while full);  *)
(* on an error it goes to its deferred unregister.                            *)
ReadMessage(c) ==
  /\ pump[c] = "reading"
  /\ conn[c] = "up"
  /\ sent[c] < MaxUpdates[c]
  /\ sent' = [sent EXCEPT ![c] = @ + 1]
  /\ pump' = [pump EXCEPT ![c] = "holding"]
  /\ UNCHANGED <<connVars, room, send, closed, roomVars, broadcast, hub, missed>>

(* Faulty: every message is put in broadcast by a goroutine of its own. *)
EnqueueUnordered(c) ==
  LET msg == [room |-> room[c], sender |-> c, data |-> <<c, sent[c]>>] IN
  /\ pump[c] = "holding"
  /\ Len(broadcast) < BroadcastCap
  /\ \E q \in {Append(broadcast, msg), <<msg>> \o broadcast} : broadcast' = q
  /\ pump' = [pump EXCEPT ![c] = "reading"]
  /\ UNCHANGED <<connVars, room, sent, send, closed, roomVars, hub, missed>>

Enqueue(c) ==
  /\ pump[c] = "holding"
  /\ Len(broadcast) < BroadcastCap
  /\ broadcast' = Append(broadcast, [room |-> room[c], sender |-> c,
                                     data |-> <<c, sent[c]>>])
  /\ pump' = [pump EXCEPT ![c] = "reading"]
  /\ UNCHANGED <<connVars, room, sent, send, closed, roomVars, hub, missed>>

(* Faulty: readPump returns without its deferred unregister. *)
ReadErrorNoUnregister(c) ==
  /\ pump[c] = "reading"
  /\ conn[c] = "down"
  /\ pump' = [pump EXCEPT ![c] = "gone"]
  /\ UNCHANGED <<connVars, room, sent, send, closed, roomVars, broadcast, hub,
                 missed>>

ReadError(c) ==
  /\ pump[c] = "reading"
  /\ conn[c] = "down"
  /\ pump' = [pump EXCEPT ![c] = "leaving"]
  /\ UNCHANGED <<connVars, room, sent, send, closed, roomVars, broadcast, hub,
                 missed>>

(* writePump: a write to a socket whose peer is gone may still be accepted by *)
(* the kernel, and any write may fail, which ends the pump and closes conn.   *)
WriteMessage(c) ==
  /\ writer[c] = "running"
  /\ send[c] # <<>>
  /\ send' = [send EXCEPT ![c] = Tail(@)]
  /\ got' = IF conn[c] = "up" THEN [got EXCEPT ![c] = Append(@, Head(send[c]))]
                              ELSE got
  /\ UNCHANGED <<pump, writer, conn, room, sent, closed, roomVars, broadcast, hub,
                 missed>>

WriteError(c) ==
  /\ writer[c] = "running"
  /\ send[c] # <<>>
  /\ send' = [send EXCEPT ![c] = Tail(@)]
  /\ writer' = [writer EXCEPT ![c] = "exited"]
  /\ conn' = [conn EXCEPT ![c] = "down"]
  /\ UNCHANGED <<pump, room, sent, closed, roomVars, broadcast, hub, got, missed>>

WriterDone(c) ==
  /\ writer[c] = "running"
  /\ send[c] = <<>> /\ c \in closed
  /\ writer' = [writer EXCEPT ![c] = "exited"]
  /\ UNCHANGED <<pump, conn, room, sent, send, closed, roomVars, broadcast, hub,
                 got, missed>>

WritePump(c) == WriteMessage(c) \/ WriteError(c) \/ WriterDone(c)

(* The peer closes the tab, or the network loses the connection. *)
PeerGone(c) ==
  /\ conn[c] = "up"
  /\ conn' = [conn EXCEPT ![c] = "down"]
  /\ UNCHANGED <<pump, writer, room, sent, send, closed, roomVars, broadcast, hub,
                 got, missed>>

-----------------------------------------------------------------------------
Next ==
  \/ Replay
  \/ HubBroadcast
  \/ \E c \in Clients :
       \/ ServeWS(c) \/ HubRegister(c) \/ HubUnregister(c)
       \/ ReadMessage(c) \/ Enqueue(c) \/ ReadError(c)
       \/ WriteMessage(c) \/ WriteError(c) \/ WriterDone(c)
       \/ PeerGone(c)

Spec == Init /\ [][Next]_vars

RunStep ==
  \/ Replay
  \/ HubBroadcast
  \/ \E c \in Clients : HubRegister(c) \/ HubUnregister(c)

(* The Go scheduler runs every runnable goroutine: Run, each readPump that is  *)
(* not waiting for its peer, and each writePump except a stalled peer's.       *)
(* Nothing makes a writer type, connect or disconnect.  Weak fairness is       *)
(* enough although Run's select picks any ready case: a connection registers   *)
(* and unregisters once, so no case can be passed over for ever.               *)
Fairness ==
  /\ WF_vars(RunStep)
  /\ \A c \in Clients : WF_vars(Enqueue(c) \/ ReadError(c))
  /\ \A c \in Clients \ Stalled : WF_vars(WritePump(c))

FairSpec == Spec /\ Fairness

-----------------------------------------------------------------------------
(* The type of every variable, with the channels' capacities. *)
TypeOK ==
  /\ pump \in [Clients -> {"idle", "registering", "gone"} \union Member]
  /\ writer \in [Clients -> {"none", "running", "exited"}]
  /\ conn \in [Clients -> {"none", "up", "down"}]
  /\ room \in [Clients -> Rooms]
  /\ sent \in [Clients -> Nat] /\ \A c \in Clients : sent[c] <= MaxUpdates[c]
  /\ send \in [Clients -> Seq(Update)]
  /\ \A c \in Clients : Len(send[c]) <= SendCap
  /\ closed \in SUBSET Clients
  /\ live \in SUBSET Rooms
  /\ clients \in [Rooms -> SUBSET Clients]
  /\ log \in [Rooms -> Seq(Update)]
  /\ broadcast \in Seq(Message)
  /\ Len(broadcast) <= BroadcastCap
  /\ hub \in {Selecting} \union
             [mode : {"replay"}, client : Clients, next : Nat \ {0}]
  /\ got \in [Clients -> Seq(Update)]
  /\ missed \in [Clients -> SUBSET Update]

(* Run never sends on a closed channel, which would panic and take the whole   *)
(* server down: whoever the fan-out or the replay can send to is still open.   *)
SendTargetsOpen ==
  /\ \A r \in Rooms : clients[r] \cap closed = {}
  /\ hub.mode = "replay" => hub.client \notin closed

(* The part of its room's log that Run has finished offering to c. *)
Offered(c) ==
  IF hub.mode = "replay" /\ hub.client = c THEN hub.next - 1 ELSE Len(log[room[c]])

(* Where in that part the updates are that c should have: not its own ones, and *)
(* not those the hub dropped for it.                                             *)
Due(c) ==
  {i \in 1..Offered(c) : log[room[c]][i][1] # c /\ log[room[c]][i] \notin missed[c]}

(* seen is the sequence s at the given places, in their order. *)
IsPartOf(seen, s, places) ==
  \E at \in [1..Len(seen) -> places] :
    /\ \A k \in 1..Len(seen) : seen[k] = s[at[k]]
    /\ \A k, l \in 1..Len(seen) : k < l => at[k] < at[l]
    /\ \A i \in places : \E k \in 1..Len(seen) : at[k] = i

(* A connected member has been given exactly the room's log, from its first    *)
(* update and in its order, without its own updates and those the hub dropped  *)
(* for it: no gap between replay and live updates, nothing twice.              *)
ExactDelivery ==
  \A c \in Clients :
    pump[c] \in Member /\ conn[c] = "up" =>
      IsPartOf(got[c] \o send[c], log[room[c]], Due(c))

(* A room's log holds each sender's updates in the order they were read. *)
SenderOrder ==
  \A r \in Rooms : \A i, j \in 1..Len(log[r]) :
    i < j /\ log[r][i][1] = log[r][j][1] => log[r][i][2] < log[r][j][2]

(* An update is dropped for a member, or Run blocks on a joiner, only in a     *)
(* room whose log is longer than a send channel.                               *)
ShortLogsNeverBlock ==
  /\ \A c \in Clients :
       pump[c] \in Member /\ missed[c] # {} => Len(log[room[c]]) > SendCap
  /\ (/\ hub.mode = "replay"
      /\ hub.next <= Len(log[room[hub.client]])
      /\ Len(send[hub.client]) = SendCap)
     => Len(log[room[hub.client]]) > SendCap

(* The log is append-only for as long as somebody is in the room. *)
LogKeptWhileOccupied ==
  [][\A r \in Rooms :
       clients[r] # {} /\ clients'[r] # {} =>
         /\ Len(log[r]) <= Len(log'[r])
         /\ log[r] = SubSeq(log'[r], 1, Len(log[r]))]_vars

(* "Slow client -- drop rather than block the hub": Run always comes back to   *)
(* its select from the replay of a log, whatever the joiner's connection does. *)
HubComesBack == (hub.mode = "replay") ~> (hub = Selecting)

(* A lost connection is eventually out of its room. *)
LostConnectionLeaves ==
  \A c \in Clients :
    (pump[c] \in Member /\ conn[c] = "down") ~> (c \notin clients[room[c]])

(* What a room has logged reaches the socket of every other member that stays  *)
(* connected and keeps reading.                                                *)
UpdatesArrive ==
  \A c \in Clients \ Stalled : \A u \in Update :
    (/\ pump[c] \in Member /\ conn[c] = "up" /\ u[1] # c
     /\ \E i \in 1..Len(log[room[c]]) : log[room[c]][i] = u)
    ~> (conn[c] = "down" \/ \E i \in 1..Len(got[c]) : got[c][i] = u)

=============================================================================
