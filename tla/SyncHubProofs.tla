--------------------------- MODULE SyncHubProofs ---------------------------
(* What SyncHub guarantees for any number of connections and rooms and any  *)
(* channel capacities.                                                      *)
EXTENDS SyncHub, Integers, SequenceTheorems, TLAPS

(* TypeOK in two halves, so that no proof obligation has to carry all of it. *)
ControlType ==
  /\ pump \in [Clients -> {"idle", "registering", "gone"} \union Member]
  /\ writer \in [Clients -> {"none", "running", "exited"}]
  /\ conn \in [Clients -> {"none", "up", "down"}]
  /\ room \in [Clients -> Rooms]
  /\ closed \in SUBSET Clients
  /\ live \in SUBSET Rooms
  /\ clients \in [Rooms -> SUBSET Clients]
  /\ hub \in {Selecting} \union
             [mode : {"replay"}, client : Clients, next : Nat \ {0}]

(* Every action preserves the types of the control state. *)
LEMMA ControlTypeStep == ControlType /\ [Next]_vars => ControlType'
<1> SUFFICES ASSUME ControlType, [Next]_vars PROVE ControlType'
  OBVIOUS
<1> USE DEF ControlType, Member, Selecting, Replaying, roomVars, connVars
<1>1. CASE Replay
  BY <1>1 DEF Replay
<1>2. CASE HubBroadcast
  BY <1>2 DEF HubBroadcast, FanOut
<1>3. ASSUME NEW c \in Clients, ServeWS(c) PROVE ControlType'
  BY <1>3 DEF ServeWS
<1>4. ASSUME NEW c \in Clients, HubRegister(c) PROVE ControlType'
  BY <1>4 DEF HubRegister
<1>5. ASSUME NEW c \in Clients, HubUnregister(c) PROVE ControlType'
  BY <1>5 DEF HubUnregister
<1>6. ASSUME NEW c \in Clients, ReadMessage(c) \/ Enqueue(c) \/ ReadError(c)
      PROVE  ControlType'
  BY <1>6 DEF ReadMessage, Enqueue, ReadError
<1>7. ASSUME NEW c \in Clients, WriteMessage(c) \/ WriteError(c) \/ WriterDone(c)
      PROVE  ControlType'
  BY <1>7 DEF WriteMessage, WriteError, WriterDone
<1>8. ASSUME NEW c \in Clients, PeerGone(c) PROVE ControlType'
  BY <1>8 DEF PeerGone
<1>9. CASE UNCHANGED vars
  BY <1>9 DEF vars
<1>10. QED
  BY <1>1, <1>2, <1>3, <1>4, <1>5, <1>6, <1>7, <1>8, <1>9 DEF Next

-----------------------------------------------------------------------------
DataType ==
  /\ sent \in [Clients -> Nat]
  /\ \A c \in Clients : sent[c] <= MaxUpdates[c]
  /\ \A c \in Clients : pump[c] = "holding" => sent[c] >= 1
  /\ send \in [Clients -> Seq(Update)]
  /\ \A c \in Clients : Len(send[c]) <= SendCap
  /\ log \in [Rooms -> Seq(Update)]
  /\ broadcast \in Seq(Message)
  /\ Len(broadcast) <= BroadcastCap
  /\ got \in [Clients -> Seq(Update)]
  /\ missed \in [Clients -> SUBSET Update]

(* The update a readPump holds is one of its own. *)
LEMMA HeldUpdate ==
  ASSUME NEW c \in Clients, NEW n \in Nat, 1 <= n, n <= MaxUpdates[c]
  PROVE  <<c, n>> \in Update
<1>1. MaxUpdates[c] \in Nat
  BY BoundAssumption
<1>2. n \in 1..MaxUpdates[c]
  BY <1>1
<1>3. <<c, n>> \in {c} \X (1..MaxUpdates[c])
  BY <1>2
<1>4. QED
  BY <1>3 DEF Update

(* HubBroadcast offers the head of broadcast to room members, other than its  *)
(* sender, whose channels have space.                                         *)
LEMMA BroadcastIsFanOut ==
  ASSUME ControlType, DataType, HubBroadcast
  PROVE  \E others, ready \in SUBSET Clients :
           /\ others = Others(Head(broadcast))
           /\ ready = {c \in others : Len(send[c]) < SendCap}
           /\ FanOut(others, ready)
<1> DEFINE others == Others(Head(broadcast))
           ready == {c \in others : Len(send[c]) < SendCap}
<1>1. FanOut(others, ready)
  BY DEF HubBroadcast
<1>2. Head(broadcast) \in Message
  BY <1>1 DEF DataType, FanOut
<1>3. others \in SUBSET Clients
  BY <1>2 DEF Others, Message, ControlType
<1>4. ready \in SUBSET Clients
  BY <1>3
<1>5. QED
  BY <1>1, <1>3, <1>4

(* The fan-out keeps the data typed and the channels within their capacity. *)
LEMMA FanOutDataType ==
  ASSUME ControlType, DataType,
         NEW others \in SUBSET Clients, NEW ready \in SUBSET Clients,
         \A c \in ready : Len(send[c]) < SendCap,
         FanOut(others, ready)
  PROVE  DataType'
<1> DEFINE msg == Head(broadcast)
<1> USE CapsAssumption DEF ControlType, DataType, connVars
<1>1. /\ msg \in Message
      /\ Tail(broadcast) \in Seq(Message)
      /\ Len(Tail(broadcast)) <= BroadcastCap
  BY DEF FanOut
<1>2. msg.room \in Rooms /\ msg.data \in Update
  BY <1>1 DEF Message
<1>3. UNCHANGED <<pump, sent, got>> /\ broadcast' = Tail(broadcast)
  BY DEF FanOut
<1>4. CASE msg.room \in live
  <2>1. log' = [log EXCEPT ![msg.room] = Append(@, msg.data)]
    BY <1>4 DEF FanOut
  <2>2. send' = [c \in Clients |->
                   IF c \in ready THEN Append(send[c], msg.data) ELSE send[c]]
    BY <1>4 DEF FanOut
  <2>3. missed' = [c \in Clients |->
                     IF c \in others \ ready THEN missed[c] \union {msg.data}
                                             ELSE missed[c]]
    BY <1>4 DEF FanOut
  <2> HIDE DEF msg
  <2>4. log' \in [Rooms -> Seq(Update)]
    BY <2>1, <1>2
  <2>5. send' \in [Clients -> Seq(Update)]
    BY <2>2, <1>2
  <2>6. \A c \in Clients : Len(send'[c]) <= SendCap
    BY <2>2, <1>2
  <2>7. missed' \in [Clients -> SUBSET Update]
    BY <2>3, <1>2
  <2>8. QED
    BY <1>1, <1>3, <2>4, <2>5, <2>6, <2>7
<1>5. CASE msg.room \notin live
  <2>1. UNCHANGED <<log, send, missed>>
    BY <1>5 DEF FanOut
  <2>2. QED
    BY <1>1, <1>3, <2>1
<1>6. QED
  BY <1>4, <1>5

(* Joining and leaving keep a room's log or start it afresh. *)
LEMMA LogResets ==
  ASSUME NEW c \in Clients, log \in [Rooms -> Seq(Update)],
         HubRegister(c) \/ HubUnregister(c)
  PROVE  log' \in [Rooms -> Seq(Update)]
<1>1. log' = log \/ log' = [log EXCEPT ![room[c]] = <<>>]
  BY DEF HubRegister, HubUnregister
<1>2. <<>> \in Seq(Update)
  OBVIOUS
<1>3. QED
  BY <1>1, <1>2

(* Every action preserves the types and the bounds of the data in flight. *)
LEMMA DataTypeStep == ControlType /\ DataType /\ [Next]_vars => DataType'
<1> SUFFICES ASSUME ControlType, DataType, [Next]_vars PROVE DataType'
  OBVIOUS
<1> USE CapsAssumption, BoundAssumption
    DEF ControlType, DataType, Member, Selecting, Replaying, roomVars, connVars
<1>1. CASE Replay
  <2> DEFINE c == hub.client
             r == room[c]
  <2>1. c \in Clients /\ r \in Rooms /\ hub.next \in Nat \ {0}
    BY <1>1 DEF Replay
  <2>2. CASE /\ hub.next <= Len(log[r])
             /\ Len(send[c]) < SendCap
             /\ send' = [send EXCEPT ![c] = Append(@, log[r][hub.next])]
    <3>1. log[r][hub.next] \in Update
      BY <2>1, <2>2
    <3>2. send' \in [Clients -> Seq(Update)]
      BY <2>1, <2>2, <3>1
    <3>3. \A d \in Clients : Len(send'[d]) <= SendCap
      BY <2>1, <2>2, <3>1
    <3>4. QED
      BY <1>1, <3>2, <3>3 DEF Replay
  <2>3. CASE UNCHANGED send
    BY <1>1, <2>3 DEF Replay
  <2>4. QED
    BY <1>1, <2>2, <2>3 DEF Replay
<1>2. CASE HubBroadcast
  BY <1>2, FanOutDataType, BroadcastIsFanOut
<1>3. ASSUME NEW c \in Clients, ServeWS(c) PROVE DataType'
  BY <1>3 DEF ServeWS
<1>4. ASSUME NEW c \in Clients, HubRegister(c) PROVE DataType'
  <2>1. log' \in [Rooms -> Seq(Update)]
    BY <1>4, LogResets
  <2>2. QED
    BY <1>4, <2>1 DEF HubRegister
<1>5. ASSUME NEW c \in Clients, HubUnregister(c) PROVE DataType'
  <2>1. log' \in [Rooms -> Seq(Update)]
    BY <1>5, LogResets
  <2>2. QED
    BY <1>5, <2>1 DEF HubUnregister
<1>6. ASSUME NEW c \in Clients, ReadMessage(c) PROVE DataType'
  BY <1>6 DEF ReadMessage
<1>7. ASSUME NEW c \in Clients, Enqueue(c) PROVE DataType'
  <2>1. <<c, sent[c]>> \in Update
    BY <1>7, HeldUpdate DEF Enqueue
  <2>2. [room |-> room[c], sender |-> c, data |-> <<c, sent[c]>>] \in Message
    BY <2>1 DEF Message
  <2>3. broadcast' \in Seq(Message) /\ Len(broadcast') <= BroadcastCap
    BY <1>7, <2>2 DEF Enqueue
  <2>4. QED
    BY <1>7, <2>3 DEF Enqueue
<1>8. ASSUME NEW c \in Clients, ReadError(c) PROVE DataType'
  BY <1>8 DEF ReadError
<1>9. ASSUME NEW c \in Clients, WriteMessage(c) PROVE DataType'
  <2>1. Head(send[c]) \in Update /\ Tail(send[c]) \in Seq(Update)
    BY <1>9 DEF WriteMessage
  <2>2. got' \in [Clients -> Seq(Update)]
    BY <1>9, <2>1 DEF WriteMessage
  <2>3. QED
    BY <1>9, <2>1, <2>2 DEF WriteMessage
<1>10. ASSUME NEW c \in Clients, WriteError(c) PROVE DataType'
  BY <1>10 DEF WriteError
<1>11. ASSUME NEW c \in Clients, WriterDone(c) PROVE DataType'
  BY <1>11 DEF WriterDone
<1>12. ASSUME NEW c \in Clients, PeerGone(c) PROVE DataType'
  BY <1>12 DEF PeerGone
<1>13. CASE UNCHANGED vars
  BY <1>13 DEF vars
<1>14. QED
  BY <1>1, <1>2, <1>3, <1>4, <1>5, <1>6, <1>7, <1>8, <1>9, <1>10, <1>11, <1>12,
     <1>13 DEF Next

(* Every variable keeps its type, and no channel ever holds more than its      *)
(* capacity: Run, readPump and writePump of hub.go.                            *)
THEOREM TypeCorrect == Spec => []TypeOK
<1>1. Init => ControlType /\ DataType
  BY CapsAssumption, BoundAssumption
     DEF Init, ControlType, DataType, Member, Selecting
<1>2. ControlType /\ DataType /\ [Next]_vars => (ControlType /\ DataType)'
  BY ControlTypeStep, DataTypeStep
<1>3. ControlType /\ DataType => TypeOK
  BY DEF ControlType, DataType, TypeOK
<1>4. QED
  BY <1>1, <1>2, <1>3, PTL DEF Spec

-----------------------------------------------------------------------------
(* How the rooms' maps, the pumps and the channels go together: the clients in *)
(* a room are the registered ones, a channel is closed by leaving, and Run     *)
(* cannot take an unregister while it replays.                                 *)
RegistrationInv ==
  /\ \A c \in Clients : pump[c] \in Member <=> c \in clients[room[c]]
  /\ \A r \in Rooms : \A c \in clients[r] : room[c] = r
  /\ \A c \in closed : pump[c] = "gone"
  /\ hub.mode = "replay" => pump[hub.client] \in Member
  /\ \A r \in Rooms : r \in live <=> clients[r] # {}

(* Every action preserves RegistrationInv. *)
LEMMA RegistrationStep ==
  ControlType /\ RegistrationInv /\ [Next]_vars => RegistrationInv'
<1> SUFFICES ASSUME ControlType, RegistrationInv, [Next]_vars
             PROVE  RegistrationInv'
  OBVIOUS
<1> USE DEF ControlType, RegistrationInv, Member, Selecting, Replaying, roomVars,
            connVars
<1>1. CASE Replay
  BY <1>1 DEF Replay
<1>2. CASE HubBroadcast
  BY <1>2 DEF HubBroadcast, FanOut
<1>3. ASSUME NEW c \in Clients, ServeWS(c) PROVE RegistrationInv'
  BY <1>3 DEF ServeWS
<1>4. ASSUME NEW c \in Clients, HubRegister(c) PROVE RegistrationInv'
  <2>1. clients' = [clients EXCEPT ![room[c]] = @ \union {c}]
    <3>1. clients' = [clients EXCEPT ![room[c]] =
                        IF room[c] \in live THEN @ \union {c} ELSE {c}]
      BY <1>4 DEF HubRegister
    <3>2. room[c] \notin live => clients[room[c]] = {}
      OBVIOUS
    <3>3. CASE room[c] \in live
      BY <3>1, <3>3
    <3>4. CASE room[c] \notin live
      <4>1. {c} = clients[room[c]] \union {c}
        BY <3>2, <3>4
      <4>2. QED
        BY <3>1, <3>4, <4>1
    <3>5. QED
      BY <3>3, <3>4
  <2>2. pump[c] = "registering" /\ pump' = [pump EXCEPT ![c] = "reading"]
    BY <1>4 DEF HubRegister
  <2>3. /\ live' = live \union {room[c]}
        /\ hub' = Replaying(c, 1)
        /\ UNCHANGED <<room, closed>>
    BY <1>4 DEF HubRegister
  <2>4. QED
    BY <2>1, <2>2, <2>3
<1>5. ASSUME NEW c \in Clients, HubUnregister(c) PROVE RegistrationInv'
  <2>1. clients' = [clients EXCEPT ![room[c]] = @ \ {c}]
    BY <1>5 DEF HubUnregister
  <2>2. pump[c] = "leaving" /\ pump' = [pump EXCEPT ![c] = "gone"]
    BY <1>5 DEF HubUnregister
  <2>3. /\ live' = IF clients[room[c]] \subseteq {c} THEN live \ {room[c]} ELSE live
        /\ closed' = closed \union {c}
        /\ hub = Selecting /\ UNCHANGED <<room, hub>>
    BY <1>5 DEF HubUnregister
  <2>4. QED
    BY <2>1, <2>2, <2>3
<1>6. ASSUME NEW c \in Clients, ReadMessage(c) \/ Enqueue(c) \/ ReadError(c)
      PROVE  RegistrationInv'
  BY <1>6 DEF ReadMessage, Enqueue, ReadError
<1>7. ASSUME NEW c \in Clients,
             WriteMessage(c) \/ WriteError(c) \/ WriterDone(c) \/ PeerGone(c)
      PROVE  RegistrationInv'
  BY <1>7 DEF WriteMessage, WriteError, WriterDone, PeerGone
<1>8. CASE UNCHANGED vars
  BY <1>8 DEF vars
<1>9. QED
  BY <1>1, <1>2, <1>3, <1>4, <1>5, <1>6, <1>7, <1>8 DEF Next

(* Run never sends on a channel its unregister case has closed, so no          *)
(* interleaving of joins, replays, broadcasts and disconnections can make it   *)
(* panic.                                                                      *)
THEOREM NoSendOnClosedChannel == Spec => []SendTargetsOpen
<1>1. Init => ControlType /\ DataType /\ RegistrationInv
  BY CapsAssumption, BoundAssumption
     DEF Init, ControlType, DataType, RegistrationInv, Member, Selecting
<1>2. /\ ControlType /\ DataType /\ RegistrationInv /\ [Next]_vars
      => (ControlType /\ DataType /\ RegistrationInv)'
  BY ControlTypeStep, DataTypeStep, RegistrationStep
<1>3. ControlType /\ RegistrationInv => SendTargetsOpen
  BY DEF ControlType, RegistrationInv, SendTargetsOpen, Member, Selecting
<1>4. QED
  BY <1>1, <1>2, <1>3, PTL DEF Spec

-----------------------------------------------------------------------------
(* A channel never holds more than Run has offered its client: what is missed  *)
(* or blocks the hub is always explained by the length of the log.             *)
BacklogInv ==
  /\ \A c \in Clients :
       pump[c] \in {"idle", "registering"} => send[c] = <<>> /\ missed[c] = {}
  /\ \A c \in Clients : pump[c] \in Member => Len(send[c]) <= Offered(c)
  /\ \A c \in Clients :
       pump[c] \in Member /\ missed[c] # {} => Len(log[room[c]]) > SendCap
  /\ hub.mode = "replay" => hub.next <= Len(log[room[hub.client]]) + 1

(* One more update of the log goes to a joiner, or the replay ends. *)
LEMMA ReplayBacklog ==
  ASSUME ControlType, DataType, RegistrationInv, BacklogInv, Replay
  PROVE  BacklogInv'
<1>0. PICK j \in Clients : j = hub.client
  BY DEF Replay, ControlType, Selecting
<1> USE DEF ControlType, DataType, Selecting, Replaying, roomVars, connVars
<1>1. /\ room[j] \in Rooms /\ hub.next \in Nat \ {0} /\ hub = Replaying(j, hub.next)
      /\ hub.mode = "replay" /\ UNCHANGED <<pump, room, log, missed>>
  BY <1>0 DEF Replay
<1>2. CASE /\ hub.next <= Len(log[room[j]])
           /\ send' = [send EXCEPT ![j] = Append(@, log[room[j]][hub.next])]
           /\ hub' = Replaying(j, hub.next + 1)
  <2>1. log[room[j]][hub.next] \in Update
    BY <1>1, <1>2
  <2>2. Len(send'[j]) = Len(send[j]) + 1
    BY <1>1, <1>2, <2>1
  <2>3. \A c \in Clients : c # j => send'[c] = send[c] /\ Offered(c)' = Offered(c)
    BY <1>1, <1>2 DEF Offered
  <2>4. Offered(j) = hub.next - 1 /\ Offered(j)' = hub.next
    BY <1>1, <1>2 DEF Offered
  <2>5. pump[j] \in Member => Len(send'[j]) <= Offered(j)'
    BY <1>1, <2>2, <2>4 DEF BacklogInv
  <2>6. pump[j] \notin {"idle", "registering"}
    BY <1>1 DEF RegistrationInv, Member
  <2>7. ASSUME NEW c \in Clients, pump[c] \in Member
        PROVE  Len(send'[c]) <= Offered(c)'
    <3>1. CASE c = j
      BY <2>5, <2>7, <3>1
    <3>2. CASE c # j
      <4>1. Len(send[c]) <= Offered(c)
        BY <2>7 DEF BacklogInv
      <4>2. QED
        BY <2>3, <3>2, <4>1
    <3>3. QED
      BY <3>1, <3>2
  <2>8. \A c \in Clients :
          pump[c] \in {"idle", "registering"} => send'[c] = <<>> /\ missed[c] = {}
    BY <2>3, <2>6 DEF BacklogInv
  <2>9. hub'.mode = "replay" => hub'.next <= Len(log[room[hub'.client]]) + 1
    BY <1>1, <1>2
  <2>10. QED
    BY <1>1, <2>7, <2>8, <2>9 DEF BacklogInv
<1>3. CASE hub.next > Len(log[room[j]]) /\ hub' = Selecting /\ UNCHANGED send
  <2>1. hub.next = Len(log[room[j]]) + 1
    BY <1>1, <1>3 DEF BacklogInv
  <2>2. \A c \in Clients : Offered(c)' = Offered(c)
    BY <1>1, <1>3, <2>1 DEF Offered
  <2>3. QED
    BY <1>1, <1>3, <2>2 DEF BacklogInv
<1>4. QED
  BY <1>0, <1>2, <1>3 DEF Replay

(* A room is started afresh only when nobody is in it. *)
LEMMA JoinAndLeaveBacklog ==
  ASSUME ControlType, DataType, RegistrationInv, BacklogInv,
         NEW c \in Clients, HubRegister(c) \/ HubUnregister(c)
  PROVE  BacklogInv'
<1> USE DEF ControlType, DataType, Member, Selecting, Replaying, roomVars, connVars
<1>1. hub = Selecting /\ UNCHANGED <<room, send, missed>>
  BY DEF HubRegister, HubUnregister
<1>2. ASSUME NEW d \in Clients, d # c, pump[d] \in Member
      PROVE  log'[room[d]] = log[room[d]]
  <2>1. d \in clients[room[d]] /\ room[d] \in live
    BY <1>2 DEF RegistrationInv
  <2>2. CASE HubRegister(c)
    BY <2>1, <2>2 DEF HubRegister
  <2>3. CASE HubUnregister(c)
    BY <2>1, <2>3, <1>2 DEF HubUnregister
  <2>4. QED
    BY <2>2, <2>3
<1>3. \A d \in Clients : d # c => pump'[d] = pump[d]
  BY DEF HubRegister, HubUnregister
<1>4. CASE HubRegister(c)
  <2>1. /\ pump[c] = "registering" /\ pump'[c] = "reading"
        /\ hub' = Replaying(c, 1)
    BY <1>4 DEF HubRegister
  <2>2. send[c] = <<>> /\ missed[c] = {}
    BY <2>1 DEF BacklogInv
  <2>3. Offered(c)' = 0
    BY <2>1 DEF Offered
  <2>4. \A d \in Clients : d # c /\ pump[d] \in Member => Offered(d)' = Offered(d)
    BY <1>1, <1>2, <2>1 DEF Offered
  <2>5. ASSUME NEW d \in Clients, pump'[d] \in Member
        PROVE  /\ Len(send'[d]) <= Offered(d)'
               /\ missed'[d] # {} => Len(log'[room'[d]]) > SendCap
    <3>1. CASE d = c
      BY <1>1, <2>2, <2>3, <3>1
    <3>2. CASE d # c
      BY <1>1, <1>2, <1>3, <2>4, <2>5, <3>2 DEF BacklogInv
    <3>3. QED
      BY <3>1, <3>2
  <2>6. \A d \in Clients :
          pump'[d] \in {"idle", "registering"} => send'[d] = <<>> /\ missed'[d] = {}
    BY <1>1, <1>3, <2>1 DEF BacklogInv
  <2>7. log'[room[c]] \in Seq(Update)
    BY <1>4, LogResets
  <2>8. hub'.mode = "replay" => hub'.next <= Len(log'[room'[hub'.client]]) + 1
    BY <1>1, <2>1, <2>7
  <2>9. QED
    BY <2>5, <2>6, <2>8 DEF BacklogInv
<1>5. CASE HubUnregister(c)
  <2>1. pump'[c] = "gone" /\ hub' = Selecting
    BY <1>1, <1>5 DEF HubUnregister
  <2>2. \A d \in Clients : d # c /\ pump[d] \in Member => Offered(d)' = Offered(d)
    BY <1>1, <1>2, <2>1 DEF Offered
  <2>3. ASSUME NEW d \in Clients, pump'[d] \in Member
        PROVE  /\ Len(send'[d]) <= Offered(d)'
               /\ missed'[d] # {} => Len(log'[room'[d]]) > SendCap
    <3>1. d # c
      BY <2>1, <2>3
    <3>2. QED
      BY <1>1, <1>2, <1>3, <2>2, <2>3, <3>1 DEF BacklogInv
  <2>4. QED
    BY <1>1, <1>3, <2>1, <2>3 DEF BacklogInv
<1>6. QED
  BY <1>4, <1>5

(* A fan-out makes the log longer for everybody in the room, and an update is  *)
(* missed only by those whose channel was full.                                *)
LEMMA BroadcastBacklog ==
  ASSUME ControlType, DataType, RegistrationInv, BacklogInv, HubBroadcast
  PROVE  BacklogInv'
<1>1. hub = Selecting /\ UNCHANGED <<pump, room, hub>>
  BY DEF HubBroadcast, FanOut
<1>2. PICK others \in SUBSET Clients, ready \in SUBSET Clients :
        /\ others = Others(Head(broadcast))
        /\ ready = {c \in others : Len(send[c]) < SendCap}
        /\ FanOut(others, ready)
  BY BroadcastIsFanOut
<1> DEFINE msg == Head(broadcast)
           r == msg.room
<1>3. r \in Rooms /\ msg.data \in Update
  <2>1. msg \in Message
    BY <1>2 DEF DataType, FanOut
  <2>2. QED
    BY <2>1 DEF Message
<1>4. \A c \in others : c \in Clients /\ room[c] = r /\ pump[c] \in Member
  BY <1>2, <1>3 DEF Others, RegistrationInv, ControlType
<1>5. CASE r \in live
  <2>1. /\ log' = [log EXCEPT ![r] = Append(@, msg.data)]
        /\ send' = [c \in Clients |->
                      IF c \in ready THEN Append(send[c], msg.data) ELSE send[c]]
        /\ missed' = [c \in Clients |->
                        IF c \in others \ ready THEN missed[c] \union {msg.data}
                                                ELSE missed[c]]
    BY <1>2, <1>5 DEF FanOut
  <2> HIDE DEF msg, r
  <2>2. ASSUME NEW c \in Clients, pump[c] \in Member
        PROVE  /\ Len(send'[c]) <= Len(log'[room[c]])
               /\ missed'[c] # {} => Len(log'[room[c]]) > SendCap
    <3>1. Len(send[c]) <= Len(log[room[c]])
      BY <1>1, <2>2 DEF BacklogInv, Offered, Selecting
    <3>2. /\ Len(send[c]) \in Nat /\ Len(log[room[c]]) \in Nat
          /\ room[c] \in Rooms /\ log[room[c]] \in Seq(Update)
          /\ send[c] \in Seq(Update)
      BY DEF DataType, ControlType
    <3>3. CASE room[c] = r
      <4>1. Len(log'[room[c]]) = Len(log[room[c]]) + 1
        BY <1>3, <2>1, <3>2, <3>3 DEF DataType
      <4>2. Len(send'[c]) <= Len(send[c]) + 1
        BY <1>3, <2>1, <3>2
      <4>3. missed'[c] # {} => missed[c] # {} \/ Len(send[c]) >= SendCap
        BY <1>2, <2>1, <3>2, CapsAssumption
      <4>4. missed[c] # {} => Len(log[room[c]]) > SendCap
        BY <2>2 DEF BacklogInv
      <4>5. QED
        BY <3>1, <3>2, <4>1, <4>2, <4>3, <4>4, CapsAssumption
    <3>4. CASE room[c] # r
      <4>1. c \notin others /\ c \notin ready
        BY <1>2, <1>4, <3>4
      <4>2. /\ log'[room[c]] = log[room[c]]
            /\ send'[c] = send[c] /\ missed'[c] = missed[c]
        BY <2>1, <3>2, <3>4, <4>1 DEF DataType
      <4>3. QED
        BY <3>1, <4>2, <2>2 DEF BacklogInv
    <3>5. QED
      BY <3>3, <3>4
  <2>3. ASSUME NEW c \in Clients, pump[c] \in {"idle", "registering"}
        PROVE  send'[c] = <<>> /\ missed'[c] = {}
    <3>1. c \notin others /\ c \notin ready
      BY <1>2, <1>4, <2>3 DEF Member
    <3>2. QED
      BY <2>1, <2>3, <3>1 DEF BacklogInv
  <2>4. QED
    BY <1>1, <2>2, <2>3 DEF BacklogInv, Offered, Selecting
<1>6. CASE r \notin live
  <2>1. UNCHANGED <<log, send, missed>>
    BY <1>2, <1>6 DEF FanOut
  <2>2. QED
    BY <1>1, <2>1 DEF BacklogInv, Offered
<1>7. QED
  BY <1>5, <1>6

(* Every action preserves BacklogInv. *)
LEMMA BacklogStep ==
  /\ ControlType /\ DataType /\ RegistrationInv /\ BacklogInv
  /\ [Next]_vars
  => BacklogInv'
<1> SUFFICES ASSUME ControlType, DataType, RegistrationInv, BacklogInv, [Next]_vars
             PROVE  BacklogInv'
  OBVIOUS
<1> USE DEF ControlType, DataType, Member, BacklogInv, Offered, roomVars, connVars
<1>1. CASE Replay
  BY <1>1, ReplayBacklog
<1>2. CASE HubBroadcast
  BY <1>2, BroadcastBacklog
<1>3. ASSUME NEW c \in Clients, HubRegister(c) \/ HubUnregister(c)
      PROVE  BacklogInv'
  BY <1>3, JoinAndLeaveBacklog
<1>4. ASSUME NEW c \in Clients, ServeWS(c) PROVE BacklogInv'
  BY <1>4 DEF ServeWS
<1>5. ASSUME NEW c \in Clients, ReadMessage(c) \/ Enqueue(c) \/ ReadError(c)
      PROVE  BacklogInv'
  BY <1>5 DEF ReadMessage, Enqueue, ReadError
<1>6. ASSUME NEW c \in Clients, WriteMessage(c) \/ WriteError(c) PROVE BacklogInv'
  <2>1. /\ send[c] # <<>> /\ send' = [send EXCEPT ![c] = Tail(@)]
        /\ UNCHANGED <<pump, room, log, hub, missed>>
    BY <1>6 DEF WriteMessage, WriteError
  <2>2. Len(send'[c]) <= Len(send[c])
    BY <2>1
  <2>3. pump[c] \notin {"idle", "registering"}
    BY <2>1
  <2>4. \A d \in Clients : d # c => send'[d] = send[d]
    BY <2>1
  <2>5. \A d \in Clients : Offered(d)' = Offered(d) /\ Offered(d) \in Int
    BY <2>1 DEF Selecting
  <2> HIDE DEF Offered
  <2>6. ASSUME NEW d \in Clients, pump[d] \in Member
        PROVE  Len(send'[d]) <= Offered(d)'
    BY <2>1, <2>2, <2>4, <2>5, <2>6
  <2>7. QED
    BY <2>1, <2>3, <2>4, <2>6
<1>7. ASSUME NEW c \in Clients, WriterDone(c) \/ PeerGone(c) PROVE BacklogInv'
  BY <1>7 DEF WriterDone, PeerGone
<1>8. CASE UNCHANGED vars
  BY <1>8 DEF vars
<1>9. QED
  BY <1>1, <1>2, <1>3, <1>4, <1>5, <1>6, <1>7, <1>8 DEF Next

(* The hub drops an update for a member, or blocks in a replay, only in a room *)
(* whose log has outgrown a send channel: with 128 slots, a script's room is   *)
(* lossless and cannot stop the hub until its 129th message.                   *)
THEOREM ShortLogsAreSafe == Spec => []ShortLogsNeverBlock
<1> DEFINE IInv == ControlType /\ DataType /\ RegistrationInv /\ BacklogInv
<1>1. Init => IInv
  BY CapsAssumption, BoundAssumption
     DEF Init, ControlType, DataType, RegistrationInv, BacklogInv, Member, Selecting
<1>2. IInv /\ [Next]_vars => IInv'
  BY ControlTypeStep, DataTypeStep, RegistrationStep, BacklogStep
<1>3. IInv => ShortLogsNeverBlock
  <2> SUFFICES ASSUME IInv PROVE ShortLogsNeverBlock
    OBVIOUS
  <2>1. ASSUME hub.mode = "replay",
               hub.next <= Len(log[room[hub.client]]),
               Len(send[hub.client]) = SendCap
        PROVE  Len(log[room[hub.client]]) > SendCap
    <3>1. /\ hub.client \in Clients /\ hub.next \in Nat \ {0}
          /\ pump[hub.client] \in Member
      BY <2>1 DEF ControlType, Selecting, RegistrationInv
    <3>2. SendCap <= hub.next - 1
      BY <2>1, <3>1 DEF BacklogInv, Offered
    <3>3. Len(log[room[hub.client]]) \in Nat
      BY <3>1 DEF ControlType, DataType
    <3>4. QED
      BY <2>1, <3>1, <3>2, <3>3, CapsAssumption
  <2>2. QED
    BY <2>1 DEF BacklogInv, ShortLogsNeverBlock
<1>4. QED
  BY <1>1, <1>2, <1>3, PTL DEF Spec

-----------------------------------------------------------------------------
(* What has been read from c and is no longer in its readPump's hands. *)
Passed == [c \in Clients |-> IF pump[c] = "holding" THEN sent[c] - 1 ELSE sent[c]]

(* An update comes from a connection to its room and is numbered as it was read. *)
Numbered(u, r) == room[u[1]] = r /\ u[2] <= Passed[u[1]]

(* Both queues of the hub keep the order in which each connection was read, and the *)
(* log, like what was dropped, is older than what is still in the broadcast channel. *)
QueueOrder ==
  /\ \A i \in 1..Len(broadcast) : LET m == broadcast[i] IN
       m.data[1] = m.sender /\ Numbered(m.data, m.room)
  /\ \A i, j \in 1..Len(broadcast) :
       i < j /\ broadcast[i].sender = broadcast[j].sender =>
         broadcast[i].data[2] < broadcast[j].data[2]

LogOrder ==
  /\ \A r \in Rooms : \A i \in 1..Len(log[r]) : Numbered(log[r][i], r)
  /\ \A r \in Rooms : \A i \in 1..Len(log[r]), j \in 1..Len(broadcast) :
       log[r][i][1] = broadcast[j].sender => log[r][i][2] < broadcast[j].data[2]
  /\ SenderOrder

MissedOrder ==
  \A c \in Clients : \A u \in missed[c] :
    /\ u[2] <= Passed[u[1]]
    /\ \A j \in 1..Len(broadcast) :
         u[1] = broadcast[j].sender => u[2] < broadcast[j].data[2]

(* Whoever has not been taken from register has read and been sent nothing; and *)
(* while a log is replayed, none of it is the joiner's own or dropped for it.   *)
NewcomersInv ==
  /\ \A c \in Clients : pump[c] \in {"idle", "registering"} =>
       sent[c] = 0 /\ got[c] = <<>> /\ send[c] = <<>> /\ missed[c] = {}
  /\ hub.mode = "replay" =>
       LET c == hub.client IN
       missed[c] = {} /\ \A i \in 1..Len(log[room[c]]) : log[room[c]][i][1] # c

(* An update's connection and number. *)
LEMMA UpdateParts ==
  ASSUME NEW u \in Update
  PROVE  u[1] \in Clients /\ u[2] \in Nat /\ u[2] >= 1
<1>1. PICK c \in Clients : u \in {c} \X (1..MaxUpdates[c])
  BY DEF Update
<1>2. MaxUpdates[c] \in Nat
  BY BoundAssumption
<1>3. QED
  BY <1>1, <1>2

(* What one step does to the three queues: a readPump puts an update in the        *)
(* channel, Run moves the channel's head to its room's log and to what is missed,  *)
(* or a log is dropped.                                                            *)
Enqueued(c) ==
  /\ broadcast' = Append(broadcast, [room |-> room[c], sender |-> c, data |-> <<c, sent[c]>>])
  /\ <<c, sent[c]>> \in Update
  /\ Passed[c] = sent[c] - 1 /\ Passed'[c] = sent[c]
  /\ log' = log /\ missed' = missed

Relayed ==
  /\ broadcast # <<>> /\ broadcast' = Tail(broadcast)
  /\ \A r \in Rooms : \/ log'[r] = log[r]
                      \/ r = Head(broadcast).room /\ log'[r] = Append(log[r], Head(broadcast).data)
  /\ \A c \in Clients : missed'[c] \subseteq missed[c] \union {Head(broadcast).data}

Dropped ==
  /\ broadcast' = broadcast /\ missed' = missed
  /\ \A r \in Rooms : log'[r] = log[r] \/ log'[r] = <<>>

(* Run's broadcast case is a relay, whoever it can send to. *)
LEMMA RelayStep ==
  ASSUME ControlType, DataType, HubBroadcast
  PROVE  Relayed
<1>1. PICK others \in SUBSET Clients, ready \in SUBSET Clients : FanOut(others, ready)
  BY BroadcastIsFanOut
<1>2. broadcast # <<>> /\ broadcast' = Tail(broadcast) /\ Head(broadcast).room \in Rooms
  <2>1. broadcast # <<>> /\ broadcast' = Tail(broadcast)
    BY <1>1 DEF FanOut
  <2>2. Head(broadcast) \in Message
    BY <2>1 DEF DataType
  <2>3. QED
    BY <2>1, <2>2 DEF Message
<1>3. CASE UNCHANGED <<log, missed>>
  BY <1>2, <1>3 DEF Relayed
<1>4. CASE /\ log' = [log EXCEPT ![Head(broadcast).room] = Append(@, Head(broadcast).data)]
           /\ missed' = [c \in Clients |->
                           IF c \in others \ ready THEN missed[c] \union {Head(broadcast).data}
                                                   ELSE missed[c]]
  <2>1. log \in [Rooms -> Seq(Update)]
    BY DEF DataType
  <2>2. \A r \in Rooms : \/ log'[r] = log[r]
                         \/ /\ r = Head(broadcast).room
                            /\ log'[r] = Append(log[r], Head(broadcast).data)
    BY <1>2, <1>4, <2>1
  <2>3. \A c \in Clients : missed'[c] \subseteq missed[c] \union {Head(broadcast).data}
    BY <1>4
  <2>4. QED
    BY <1>2, <2>2, <2>3 DEF Relayed
<1>5. QED
  BY <1>1, <1>3, <1>4 DEF FanOut

LEMMA QueueSteps ==
  ASSUME ControlType, DataType, [Next]_vars
  PROVE  Relayed \/ Dropped \/ \E c \in Clients : Enqueued(c)
<1> USE DEF roomVars, connVars
<1>1. CASE UNCHANGED <<broadcast, missed, log>>
  BY <1>1 DEF Dropped
<1>2. CASE HubBroadcast
  BY <1>2, RelayStep
<1>3. ASSUME NEW c \in Clients, HubRegister(c) \/ HubUnregister(c) PROVE Dropped
  <2>1. log' = log \/ log' = [log EXCEPT ![room[c]] = <<>>]
    BY <1>3 DEF HubRegister, HubUnregister
  <2>2. broadcast' = broadcast /\ missed' = missed
    BY <1>3 DEF HubRegister, HubUnregister
  <2>3. QED
    BY <2>1, <2>2 DEF Dropped, DataType
<1>4. ASSUME NEW c \in Clients, Enqueue(c) PROVE Enqueued(c)
  <2>1. <<c, sent[c]>> \in Update
    BY <1>4, HeldUpdate DEF Enqueue, DataType
  <2>2. Passed[c] = sent[c] - 1 /\ Passed'[c] = sent[c]
    BY <1>4 DEF Enqueue, Passed, ControlType
  <2>3. QED
    BY <1>4, <2>1, <2>2 DEF Enqueue, Enqueued
<1>5. QED
  BY <1>1, <1>2, <1>3, <1>4 DEF Next, Replay, ServeWS, ReadMessage, ReadError, WriteMessage,
     WriteError, WriterDone, PeerGone, vars

(* What has passed a readPump only grows, and no connection changes its room. *)
LEMMA PassedGrows ==
  ASSUME ControlType, DataType, [Next]_vars
  PROVE  /\ room' = room
         /\ \A c \in Clients : Passed[c] \in Int /\ Passed'[c] \in Int /\ Passed[c] <= Passed'[c]
<1> USE DEF roomVars, connVars, Member
<1>1. pump \in [Clients -> {"idle", "registering", "gone"} \union Member] /\ sent \in [Clients -> Nat]
  BY DEF ControlType, DataType
<1>2. CASE UNCHANGED <<room, pump, sent>>
  BY <1>1, <1>2 DEF Passed
<1>3. ASSUME NEW c \in Clients, UNCHANGED <<room, sent>>, pump[c] # "holding",
             NEW s \in {"idle", "registering", "gone", "reading", "leaving"},
             pump' = [pump EXCEPT ![c] = s]
      PROVE  \A d \in Clients : Passed[d] \in Int /\ Passed'[d] = Passed[d]
  BY <1>1, <1>3 DEF Passed
<1>4. ASSUME NEW c \in Clients, ReadMessage(c)
      PROVE  \A d \in Clients : Passed[d] \in Int /\ Passed'[d] = Passed[d]
  BY <1>1, <1>4 DEF ReadMessage, Passed
<1>5. ASSUME NEW c \in Clients, Enqueue(c)
      PROVE  \A d \in Clients : Passed[d] \in Int /\ Passed'[d] \in Int /\ Passed[d] <= Passed'[d]
  BY <1>1, <1>5 DEF Enqueue, Passed
<1>6. ASSUME NEW c \in Clients, ServeWS(c) \/ HubRegister(c) \/ HubUnregister(c) \/ ReadError(c)
      PROVE  \A d \in Clients : Passed[d] \in Int /\ Passed'[d] = Passed[d]
  BY <1>3, <1>6 DEF ServeWS, HubRegister, HubUnregister, ReadError
<1>7. room' = room
  BY DEF Next, Replay, HubBroadcast, FanOut, ServeWS, HubRegister, HubUnregister, ReadMessage, Enqueue,
     ReadError, WriteMessage, WriteError, WriterDone, PeerGone, vars
<1>8. CASE Replay \/ HubBroadcast \/ UNCHANGED vars
  BY <1>2, <1>8 DEF Replay, HubBroadcast, FanOut, vars
<1>9. ASSUME NEW c \in Clients, WriteMessage(c) \/ WriteError(c) \/ WriterDone(c) \/ PeerGone(c)
      PROVE  UNCHANGED <<room, pump, sent>>
  BY <1>9 DEF WriteMessage, WriteError, WriterDone, PeerGone
<1>10. QED
  BY <1>2, <1>4, <1>5, <1>6, <1>7, <1>8, <1>9 DEF Next

(* What was numbered stays so. *)
LEMMA NumberedStays ==
  ASSUME ControlType, DataType, [Next]_vars, NEW u \in Update
  PROVE  /\ u[2] <= Passed[u[1]] => u[2] <= Passed'[u[1]]
         /\ \A r : Numbered(u, r) => Numbered(u, r)'
<1>1. u[1] \in Clients /\ u[2] \in Nat
  BY UpdateParts
<1>2. /\ room' = room /\ Passed[u[1]] \in Int /\ Passed'[u[1]] \in Int
      /\ Passed[u[1]] <= Passed'[u[1]]
  BY <1>1, PassedGrows
<1>3. QED
  BY <1>1, <1>2 DEF Numbered

(* The channel's elements are updates of their senders' rooms. *)
LEMMA BroadcastParts ==
  ASSUME DataType, NEW i \in 1..Len(broadcast)
  PROVE  /\ broadcast[i].room \in Rooms /\ broadcast[i].sender \in Clients
         /\ broadcast[i].data \in Update
<1>1. broadcast[i] \in Message
  BY DEF DataType
<1>2. QED
  BY <1>1 DEF Message

LEMMA QueueOrderStep ==
  ASSUME ControlType, DataType, QueueOrder, [Next]_vars
  PROVE  QueueOrder'
<1>0. broadcast \in Seq(Message) /\ Len(broadcast) \in Nat
  BY DEF DataType
<1>1. ASSUME NEW i \in 1..Len(broadcast)
      PROVE  LET m == broadcast[i] IN
               /\ m.data[1] = m.sender /\ room'[m.data[1]] = m.room
               /\ m.data[2] <= Passed'[m.data[1]]
  BY BroadcastParts, NumberedStays DEF QueueOrder, Numbered
<1>2. CASE broadcast' = broadcast
  BY <1>1, <1>2 DEF QueueOrder, Numbered
<1>3. CASE Relayed
  <2>1. /\ Len(broadcast') = Len(broadcast) - 1
        /\ \A i \in 1..Len(broadcast') :
             /\ i + 1 \in 1..Len(broadcast) /\ i \in Nat
             /\ broadcast'[i] = broadcast[i+1]
    BY <1>0, <1>3 DEF Relayed
  <2>2. ASSUME NEW i \in 1..Len(broadcast'), NEW j \in 1..Len(broadcast'), i < j,
               broadcast'[i].sender = broadcast'[j].sender
        PROVE  broadcast'[i].data[2] < broadcast'[j].data[2]
    <3>1. i + 1 < j + 1
      BY <2>1, <2>2
    <3>2. QED
      BY <2>1, <2>2, <3>1 DEF QueueOrder
  <2>3. ASSUME NEW i \in 1..Len(broadcast')
        PROVE  /\ broadcast'[i].data[1] = broadcast'[i].sender
               /\ room'[broadcast'[i].data[1]] = broadcast'[i].room
               /\ broadcast'[i].data[2] <= Passed'[broadcast'[i].data[1]]
    BY <2>1, <1>1
  <2>4. QED
    BY <2>2, <2>3 DEF QueueOrder, Numbered
<1>4. ASSUME NEW c \in Clients, Enqueued(c) PROVE QueueOrder'
  <2> DEFINE n == [room |-> room[c], sender |-> c, data |-> <<c, sent[c]>>]
  <2>1. n.room = room[c] /\ n.sender = c /\ n.data[1] = c /\ n.data[2] = sent[c]
        /\ room' = room /\ sent[c] \in Nat /\ n \in Message
    BY <1>4, PassedGrows DEF DataType, Enqueued, Message, ControlType
  <2>2. broadcast' = Append(broadcast, n)
    BY <1>4 DEF Enqueued
  <2> HIDE DEF n
  <2>3. /\ Len(broadcast') = Len(broadcast) + 1
        /\ broadcast'[Len(broadcast) + 1] = n
        /\ \A i \in 1..Len(broadcast) : broadcast'[i] = broadcast[i]
    BY <1>0, <2>1, <2>2
  <2>4. room'[n.data[1]] = n.room /\ n.data[2] <= Passed'[n.data[1]]
    BY <1>4, <2>1 DEF Enqueued
  <2>5. ASSUME NEW i \in 1..Len(broadcast), broadcast[i].sender = c
        PROVE  broadcast[i].data[2] < sent[c]
    <3>1. broadcast[i].data \in Update
      BY BroadcastParts
    <3>2. broadcast[i].data[2] \in Nat
      BY <3>1, UpdateParts
    <3>3. broadcast[i].data[2] <= Passed[c]
      BY <2>5 DEF QueueOrder, Numbered
    <3>4. QED
      BY <1>4, <2>1, <3>2, <3>3 DEF Enqueued
  <2>6. ASSUME NEW i \in 1..Len(broadcast')
        PROVE  /\ broadcast'[i].data[1] = broadcast'[i].sender
               /\ room'[broadcast'[i].data[1]] = broadcast'[i].room
               /\ broadcast'[i].data[2] <= Passed'[broadcast'[i].data[1]]
    <3>1. CASE i = Len(broadcast) + 1
      BY <2>1, <2>3, <2>4, <3>1
    <3>2. CASE i \in 1..Len(broadcast)
      BY <2>3, <1>1, <3>2
    <3>3. QED
      BY <1>0, <2>3, <3>1, <3>2
  <2>7. ASSUME NEW i \in 1..Len(broadcast'), NEW j \in 1..Len(broadcast'), i < j,
               broadcast'[i].sender = broadcast'[j].sender
        PROVE  broadcast'[i].data[2] < broadcast'[j].data[2]
    <3>1. i \in 1..Len(broadcast)
      BY <1>0, <2>3, <2>7
    <3>2. CASE j = Len(broadcast) + 1
      BY <2>1, <2>3, <2>5, <2>7, <3>1, <3>2
    <3>3. CASE j \in 1..Len(broadcast)
      BY <2>3, <2>7, <3>1, <3>3 DEF QueueOrder
    <3>4. QED
      BY <1>0, <2>3, <3>2, <3>3
  <2>8. QED
    BY <2>6, <2>7 DEF QueueOrder, Numbered
<1>5. QED
  BY <1>2, <1>3, <1>4, QueueSteps DEF Dropped

(* An update that has passed its readPump precedes what the channel holds after the *)
(* step, if it preceded what the channel held.                                      *)
LEMMA PrecedesStays ==
  ASSUME ControlType, DataType, [Next]_vars, NEW u \in Update, u[2] <= Passed[u[1]],
         \A j \in 1..Len(broadcast) :
           u[1] = broadcast[j].sender => u[2] < broadcast[j].data[2]
  PROVE  \A j \in 1..Len(broadcast') :
           u[1] = broadcast'[j].sender => u[2] < broadcast'[j].data[2]
<1>0. broadcast \in Seq(Message) /\ Len(broadcast) \in Nat /\ u[2] \in Nat
  BY UpdateParts DEF DataType
<1>1. CASE broadcast' = broadcast
  BY <1>1
<1>2. CASE Relayed
  <2>1. \A j \in 1..Len(broadcast') : /\ j + 1 \in 1..Len(broadcast)
                                      /\ broadcast'[j] = broadcast[j+1]
    BY <1>0, <1>2 DEF Relayed
  <2>2. QED
    BY <2>1
<1>3. ASSUME NEW c \in Clients, Enqueued(c)
      PROVE  \A j \in 1..Len(broadcast') :
               u[1] = broadcast'[j].sender => u[2] < broadcast'[j].data[2]
  <2> DEFINE n == [room |-> room[c], sender |-> c, data |-> <<c, sent[c]>>]
  <2>1. n.sender = c /\ n.data[2] = sent[c] /\ sent[c] \in Nat /\ n \in Message
    BY <1>3 DEF DataType, Enqueued, Message, ControlType
  <2>2. broadcast' = Append(broadcast, n)
    BY <1>3 DEF Enqueued
  <2> HIDE DEF n
  <2>3. /\ Len(broadcast') = Len(broadcast) + 1
        /\ broadcast'[Len(broadcast) + 1] = n
        /\ \A i \in 1..Len(broadcast) : broadcast'[i] = broadcast[i]
    BY <1>0, <2>1, <2>2
  <2>4. u[1] = c => u[2] < sent[c]
    BY <1>0, <1>3, <2>1 DEF Enqueued
  <2>5. \A j \in 1..Len(broadcast') : j = Len(broadcast) + 1 \/ j \in 1..Len(broadcast)
    BY <1>0, <2>3
  <2>6. QED
    BY <2>1, <2>3, <2>4, <2>5
<1>4. QED
  BY <1>1, <1>2, <1>3, QueueSteps DEF Dropped

(* So does the update at the head of the channel, which the relay takes out. *)
LEMMA HeadPrecedes ==
  ASSUME DataType, QueueOrder, Relayed
  PROVE  LET u == Head(broadcast).data IN
         /\ Head(broadcast) = broadcast[1] /\ 1 \in 1..Len(broadcast)
         /\ u \in Update /\ u[1] = Head(broadcast).sender /\ Numbered(u, Head(broadcast).room)
         /\ \A j \in 1..Len(broadcast') :
              u[1] = broadcast'[j].sender => u[2] < broadcast'[j].data[2]
<1>1. broadcast \in Seq(Message) /\ broadcast # <<>> /\ broadcast' = Tail(broadcast)
  BY DEF DataType, Relayed
<1>2. Head(broadcast) = broadcast[1] /\ 1 \in 1..Len(broadcast)
  BY <1>1
<1>3. \A j \in 1..Len(broadcast') : /\ j + 1 \in 1..Len(broadcast) /\ 1 < j + 1
                                    /\ broadcast'[j] = broadcast[j+1]
  BY <1>1
<1>4. broadcast[1].data \in Update
  BY <1>2, BroadcastParts
<1>5. QED
  BY <1>2, <1>3, <1>4 DEF QueueOrder

(* A room's log after the step, if it is not dropped, is the log or has one update more. *)
LEMMA LogOrderStep ==
  ASSUME ControlType, DataType, QueueOrder, LogOrder, [Next]_vars
  PROVE  LogOrder'
<1> DEFINE Ordered(s, r) ==
      /\ \A i \in 1..Len(s) : room'[s[i][1]] = r /\ s[i][2] <= Passed'[s[i][1]]
      /\ \A i \in 1..Len(s), j \in 1..Len(broadcast') :
           s[i][1] = broadcast'[j].sender => s[i][2] < broadcast'[j].data[2]
      /\ \A i, j \in 1..Len(s) : i < j /\ s[i][1] = s[j][1] => s[i][2] < s[j][2]
<1>1. SUFFICES ASSUME NEW r \in Rooms PROVE Ordered(log'[r], r)
  BY DEF LogOrder, SenderOrder, Numbered
<1>2. log[r] \in Seq(Update) /\ Len(log[r]) \in Nat /\ \A i \in 1..Len(log[r]) : log[r][i] \in Update
  BY DEF DataType
<1>3. ASSUME NEW i \in 1..Len(log[r])
      PROVE  /\ room'[log[r][i][1]] = r /\ log[r][i][2] <= Passed'[log[r][i][1]]
             /\ \A j \in 1..Len(broadcast') :
                  log[r][i][1] = broadcast'[j].sender => log[r][i][2] < broadcast'[j].data[2]
  <2>1. PICK u \in Update : u = log[r][i]
    BY <1>2
  <2>2. /\ Numbered(u, r) /\ u[2] <= Passed[u[1]]
        /\ \A j \in 1..Len(broadcast) :
             u[1] = broadcast[j].sender => u[2] < broadcast[j].data[2]
    BY <2>1 DEF LogOrder, Numbered
  <2>3. Numbered(u, r)'
    BY <2>2, NumberedStays
  <2>4. QED
    BY <2>1, <2>2, <2>3, PrecedesStays DEF Numbered
<1>4. Ordered(log[r], r)
  BY <1>3 DEF LogOrder, SenderOrder
<1>5. Ordered(<<>>, r)
  OBVIOUS
<1>6. ASSUME Relayed, r = Head(broadcast).room, log'[r] = Append(log[r], Head(broadcast).data)
      PROVE  Ordered(log'[r], r)
  <2>1. PICK u \in Update : u = Head(broadcast).data
    BY <1>6, HeadPrecedes
  <2>2. /\ Numbered(u, r) /\ u[1] = broadcast[1].sender /\ broadcast[1].data = u
        /\ 1 \in 1..Len(broadcast)
        /\ \A j \in 1..Len(broadcast') :
             u[1] = broadcast'[j].sender => u[2] < broadcast'[j].data[2]
    BY <1>6, <2>1, HeadPrecedes
  <2>3. room'[u[1]] = r /\ u[2] <= Passed'[u[1]]
    BY <2>2, NumberedStays DEF Numbered
  <2>4. \A i \in 1..Len(log[r]) : log[r][i][1] = u[1] => log[r][i][2] < u[2]
    BY <2>2 DEF LogOrder
  <2>5. /\ Len(log'[r]) = Len(log[r]) + 1
        /\ log'[r][Len(log[r]) + 1] = u
        /\ \A i \in 1..Len(log[r]) : log'[r][i] = log[r][i]
    BY <1>2, <1>6, <2>1
  <2>6. \A i \in 1..Len(log'[r]) : i = Len(log[r]) + 1 \/ i \in 1..Len(log[r])
    BY <1>2, <2>5
  <2>7. ASSUME NEW i \in 1..Len(log'[r])
        PROVE  /\ room'[log'[r][i][1]] = r /\ log'[r][i][2] <= Passed'[log'[r][i][1]]
               /\ \A j \in 1..Len(broadcast') :
                    log'[r][i][1] = broadcast'[j].sender => log'[r][i][2] < broadcast'[j].data[2]
    <3>1. CASE i = Len(log[r]) + 1
      BY <2>2, <2>3, <2>5, <3>1
    <3>2. CASE i \in 1..Len(log[r])
      <4>1. log'[r][i] = log[r][i]
        BY <2>5, <3>2
      <4>2. QED
        BY <1>3, <3>2, <4>1
    <3>3. QED
      BY <2>6, <3>1, <3>2
  <2>8. ASSUME NEW i \in 1..Len(log'[r]), NEW j \in 1..Len(log'[r]), i < j,
               log'[r][i][1] = log'[r][j][1]
        PROVE  log'[r][i][2] < log'[r][j][2]
    <3>1. i \in 1..Len(log[r])
      BY <1>2, <2>5, <2>8
    <3>2. CASE j = Len(log[r]) + 1
      BY <2>4, <2>5, <2>8, <3>1, <3>2
    <3>3. CASE j \in 1..Len(log[r])
      BY <1>4, <2>5, <2>8, <3>1, <3>3
    <3>4. QED
      BY <2>6, <3>2, <3>3
  <2>9. QED
    BY <2>7, <2>8
<1>7. ASSUME NEW c \in Clients, Enqueued(c) PROVE Ordered(log'[r], r)
  BY <1>4, <1>7 DEF Enqueued
<1>8. CASE Dropped
  BY <1>4, <1>5, <1>8 DEF Dropped
<1>9. CASE Relayed
  BY <1>4, <1>6, <1>9 DEF Relayed
<1>10. QED
  BY <1>7, <1>8, <1>9, QueueSteps

LEMMA MissedOrderStep ==
  ASSUME ControlType, DataType, QueueOrder, MissedOrder, [Next]_vars
  PROVE  MissedOrder'
<1> SUFFICES ASSUME NEW c \in Clients, NEW u \in missed'[c]
             PROVE  /\ u[2] <= Passed'[u[1]]
                    /\ \A j \in 1..Len(broadcast') :
                         u[1] = broadcast'[j].sender => u[2] < broadcast'[j].data[2]
  BY DEF MissedOrder
<1>1. CASE u \in missed[c]
  <2>1. /\ u \in Update /\ u[2] <= Passed[u[1]]
        /\ \A j \in 1..Len(broadcast) :
             u[1] = broadcast[j].sender => u[2] < broadcast[j].data[2]
    BY <1>1 DEF DataType, MissedOrder
  <2>2. QED
    BY <2>1, NumberedStays, PrecedesStays
<1>2. CASE Relayed /\ u = Head(broadcast).data
  <2>1. /\ u \in Update /\ Numbered(u, Head(broadcast).room)
        /\ \A j \in 1..Len(broadcast') :
             u[1] = broadcast'[j].sender => u[2] < broadcast'[j].data[2]
    BY <1>2, HeadPrecedes
  <2>2. QED
    BY <2>1, NumberedStays DEF Numbered
<1>3. QED
  BY <1>1, <1>2, QueueSteps DEF Relayed, Dropped, Enqueued

(* Types, registration and the order of the queues, all of which later proofs need. *)
QueuesInv == /\ ControlType /\ DataType /\ RegistrationInv
             /\ QueueOrder /\ LogOrder /\ MissedOrder

LEMMA QueuesInit == Init => QueuesInv
<1> SUFFICES ASSUME Init PROVE QueuesInv
  OBVIOUS
<1>1. ControlType /\ DataType /\ RegistrationInv
  BY CapsAssumption, BoundAssumption
     DEF Init, ControlType, DataType, RegistrationInv, Member, Selecting
<1>2. QueueOrder /\ LogOrder /\ MissedOrder
  BY DEF Init, QueueOrder, LogOrder, SenderOrder, MissedOrder
<1>3. QED
  BY <1>1, <1>2 DEF QueuesInv

LEMMA QueuesStep == QueuesInv /\ [Next]_vars => QueuesInv'
<1> SUFFICES ASSUME QueuesInv, [Next]_vars PROVE QueuesInv'
  OBVIOUS
<1>1. ControlType' /\ DataType' /\ RegistrationInv'
  BY ControlTypeStep, DataTypeStep, RegistrationStep DEF QueuesInv
<1>2. QueueOrder' /\ LogOrder' /\ MissedOrder'
  BY QueueOrderStep, LogOrderStep, MissedOrderStep DEF QueuesInv
<1>3. QED
  BY <1>1, <1>2 DEF QueuesInv

(* Many readPumps share one channel, and rooms are dropped and made anew beside  *)
(* them; each sender's updates reach a room's log in the order they were read.   *)
THEOREM SendersInOrder == Spec => []SenderOrder
<1>1. QueuesInv => SenderOrder
  BY DEF QueuesInv, LogOrder
<1>2. QED
  BY QueuesInit, QueuesStep, <1>1, PTL DEF Spec

-----------------------------------------------------------------------------
(* A log with one more update still begins with what it held. *)
LEMMA Prefix ==
  ASSUME NEW s \in Seq(Update), NEW u \in Update
  PROVE  Len(s) <= Len(Append(s, u)) /\ s = SubSeq(Append(s, u), 1, Len(s))
  OBVIOUS

(* Only a room without clients, or left by its last one, loses its log. *)
LEMMA LogKeptStep ==
  ASSUME ControlType, DataType, RegistrationInv, QueueOrder, [Next]_vars, NEW r \in Rooms,
         clients[r] # {}, clients'[r] # {}
  PROVE  /\ \/ log'[r] = log[r]
            \/ /\ Relayed /\ r = Head(broadcast).room
               /\ log'[r] = Append(log[r], Head(broadcast).data)
         /\ Len(log[r]) <= Len(log'[r]) /\ log[r] = SubSeq(log'[r], 1, Len(log[r]))
<1>1. r \in live /\ log[r] \in Seq(Update)
  BY DEF RegistrationInv, DataType
<1>2. ASSUME NEW c \in Clients, HubRegister(c) PROVE log'[r] = log[r]
  BY <1>1, <1>2 DEF HubRegister, DataType
<1>3. ASSUME NEW c \in Clients, HubUnregister(c) PROVE log'[r] = log[r]
  <2>1. /\ clients' = [clients EXCEPT ![room[c]] = @ \ {c}]
        /\ \/ log' = log
           \/ clients[room[c]] \subseteq {c} /\ log' = [log EXCEPT ![room[c]] = <<>>]
    BY <1>3 DEF HubUnregister
  <2>2. clients[r] \subseteq {c} => room[c] # r
    BY <2>1 DEF ControlType
  <2>3. QED
    BY <2>1, <2>2 DEF DataType
<1>4. \/ log'[r] = log[r]
      \/ /\ Relayed /\ r = Head(broadcast).room
         /\ log'[r] = Append(log[r], Head(broadcast).data)
  <2>1. CASE \E c \in Clients : HubRegister(c) \/ HubUnregister(c)
    BY <1>2, <1>3, <2>1
  <2>2. CASE HubBroadcast
    BY <2>2, RelayStep DEF Relayed
  <2>3. CASE log' = log
    BY <2>3
  <2>4. QED
    BY <2>1, <2>2, <2>3 DEF Next, Replay, ServeWS, ReadMessage, Enqueue, ReadError, WriteMessage,
       WriteError, WriterDone, PeerGone, vars, roomVars, connVars
<1>5. QED
  <2>1. CASE log'[r] = log[r]
    <3>1. log[r] = SubSeq(log[r], 1, Len(log[r])) /\ Len(log[r]) \in Nat
      BY <1>1
    <3>2. QED
      BY <2>1, <3>1
  <2>2. CASE Relayed /\ r = Head(broadcast).room
             /\ log'[r] = Append(log[r], Head(broadcast).data)
    <3>1. Head(broadcast).data \in Update
      BY <2>2, HeadPrecedes
    <3>2. /\ Len(log[r]) <= Len(Append(log[r], Head(broadcast).data))
          /\ log[r] = SubSeq(Append(log[r], Head(broadcast).data), 1, Len(log[r]))
      BY <1>1, <3>1, Prefix
    <3>3. QED
      BY <2>2, <3>2
  <2>3. QED
    BY <1>4, <2>1, <2>2

(* No leave, join or broadcast takes anything from the log of a room that stays *)
(* occupied, so whoever joins it later is replayed all of it.                   *)
THEOREM LogStays == Spec => LogKeptWhileOccupied
<1>1. QueuesInv /\ [Next]_vars =>
        [\A r \in Rooms :
           clients[r] # {} /\ clients'[r] # {} =>
             /\ Len(log[r]) <= Len(log'[r])
             /\ log[r] = SubSeq(log'[r], 1, Len(log[r]))]_vars
  BY LogKeptStep DEF QueuesInv
<1>2. QED
  BY QueuesInit, QueuesStep, <1>1, PTL DEF Spec, LogKeptWhileOccupied

-----------------------------------------------------------------------------
(* A sequence that has a place more, after the others, is a part with one more element. *)
LEMMA PartGrows ==
  ASSUME NEW seen \in Seq(Update), NEW s, NEW t, NEW places \in SUBSET Nat, NEW n \in Nat,
         IsPartOf(seen, s, places),
         \A i \in places : i < n /\ t[i] = s[i],
         t[n] \in Update
  PROVE  IsPartOf(Append(seen, t[n]), t, places \union {n})
<1> DEFINE L == Len(seen)
           more == Append(seen, t[n])
<1>1. PICK at \in [1..L -> places] :
        /\ \A k \in 1..L : seen[k] = s[at[k]]
        /\ \A k, l \in 1..L : k < l => at[k] < at[l]
        /\ \A i \in places : \E k \in 1..L : at[k] = i
  BY DEF IsPartOf
<1>2. L \in Nat /\ Len(more) = L + 1 /\ more[L + 1] = t[n] /\ \A k \in 1..L : more[k] = seen[k]
  OBVIOUS
<1> DEFINE new == [k \in 1..(L + 1) |-> IF k = L + 1 THEN n ELSE at[k]]
<1>3. \A k \in 1..(L + 1) : k = L + 1 \/ k \in 1..L
  BY <1>2
<1>4. new \in [1..(L + 1) -> places \union {n}]
  BY <1>3
<1>5. new[L + 1] = n /\ \A k \in 1..L : new[k] = at[k] /\ at[k] \in places
  BY <1>2
<1> HIDE DEF new, more, L
<1>6. ASSUME NEW k \in 1..(L + 1) PROVE more[k] = t[new[k]]
  <2>1. CASE k = L + 1
    BY <1>2, <1>5, <2>1
  <2>2. CASE k \in 1..L
    <3>1. more[k] = s[at[k]] /\ at[k] \in places
      BY <1>1, <1>2, <2>2
    <3>2. QED
      BY <1>5, <2>2, <3>1
  <2>3. QED
    BY <1>3, <2>1, <2>2
<1>7. ASSUME NEW k \in 1..(L + 1), NEW l \in 1..(L + 1), k < l PROVE new[k] < new[l]
  <2>1. k \in 1..L
    BY <1>2, <1>7
  <2>2. QED
    BY <1>1, <1>3, <1>5, <1>7, <2>1
<1>8. \A i \in places \union {n} : \E k \in 1..(L + 1) : new[k] = i
  <2>1. L + 1 \in 1..(L + 1) /\ \A k \in 1..L : k \in 1..(L + 1)
    BY <1>2
  <2>2. QED
    BY <1>1, <1>5, <2>1
<1>9. IsPartOf(more, t, places \union {n})
  BY <1>2, <1>4, <1>6, <1>7, <1>8, SMTT(30) DEF IsPartOf
<1>10. QED
  BY <1>9 DEF more

(* An element put in the second of two queues is the last of both, and one moved *)
(* from the second to the first stays where it was.                              *)
LEMMA QueueEnds ==
  ASSUME NEW s \in Seq(Update), NEW t \in Seq(Update)
  PROVE  /\ \A u \in Update : s \o Append(t, u) = Append(s \o t, u)
         /\ t # <<>> => Append(s, Head(t)) \o Tail(t) = s \o t
<1>1. ASSUME NEW u \in Update PROVE s \o Append(t, u) = Append(s \o t, u)
  <2>1. <<u>> \in Seq(Update) /\ s \o t \in Seq(Update)
    OBVIOUS
  <2>2. Append(t, u) = t \o <<u>> /\ Append(s \o t, u) = (s \o t) \o <<u>>
    BY <2>1, AppendIsConcat
  <2>3. (s \o t) \o <<u>> = s \o (t \o <<u>>)
    BY <2>1, ConcatAssociative
  <2>4. QED
    BY <2>2, <2>3
<1>2. ASSUME t # <<>> PROVE Append(s, Head(t)) \o Tail(t) = s \o t
  <2>1. /\ Head(t) \in Update /\ Tail(t) \in Seq(Update) /\ Len(Tail(t)) = Len(t) - 1
        /\ Head(t) = t[1] /\ \A i \in 1..Len(Tail(t)) : Tail(t)[i] = t[i+1]
    BY <1>2, HeadTailProperties
  <2>2. /\ Append(s, Head(t)) \in Seq(Update) /\ Len(Append(s, Head(t))) = Len(s) + 1
        /\ \A i \in 1..Len(s) : Append(s, Head(t))[i] = s[i]
        /\ Append(s, Head(t))[Len(s) + 1] = t[1]
    BY <2>1
  <2> DEFINE a == Append(s, Head(t))
             b == Tail(t)
  <2>3. /\ a \o b \in Seq(Update) /\ Len(a \o b) = Len(a) + Len(b)
        /\ \A i \in 1..(Len(a) + Len(b)) : (a \o b)[i] = IF i <= Len(a) THEN a[i] ELSE b[i - Len(a)]
    BY <2>1, <2>2, ConcatProperties
  <2>4. /\ s \o t \in Seq(Update) /\ Len(s \o t) = Len(s) + Len(t)
        /\ \A i \in 1..(Len(s) + Len(t)) : (s \o t)[i] = IF i <= Len(s) THEN s[i] ELSE t[i - Len(s)]
    BY ConcatProperties
  <2> HIDE DEF a, b
  <2>5. Len(s) \in Nat /\ Len(t) \in Nat /\ Len(t) >= 1
    BY <1>2
  <2>6. Len(a \o b) = Len(s \o t) /\ Len(a \o b) = Len(s) + Len(t)
    BY <2>1, <2>2, <2>3, <2>4, <2>5 DEF a, b
  <2>7. ASSUME NEW i \in 1..(Len(s) + Len(t)) PROVE (a \o b)[i] = (s \o t)[i]
    <3>1. CASE i <= Len(s)
      <4>1. i \in 1..Len(s)
        BY <2>5, <3>1
      <4>2. QED
        BY <2>2, <2>3, <2>4, <2>5, <2>6, <4>1 DEF a
    <3>2. CASE i = Len(s) + 1
      BY <2>2, <2>3, <2>4, <2>5, <2>6, <3>2 DEF a
    <3>3. CASE i > Len(s) + 1
      <4>1. i - Len(a) \in 1..Len(b) /\ (i - Len(a)) + 1 = i - Len(s)
        BY <2>1, <2>2, <2>5, <3>3 DEF a, b
      <4>2. (a \o b)[i] = b[i - Len(a)] /\ (s \o t)[i] = t[i - Len(s)]
        BY <2>2, <2>3, <2>4, <2>5, <2>6, <3>3 DEF a
      <4>3. QED
        BY <2>1, <4>1, <4>2 DEF b
    <3>4. i <= Len(s) \/ i = Len(s) + 1 \/ i > Len(s) + 1
      BY <2>5
    <3>5. QED
      BY <3>1, <3>2, <3>3, <3>4
  <2>8. a \o b = s \o t
    BY <2>3, <2>4, <2>6, <2>7, SeqEqual
  <2>9. QED
    BY <2>8 DEF a, b
<1>3. QED
  BY <1>1, <1>2

(* Only the places named matter. *)
LEMMA PartStays ==
  ASSUME NEW seen, NEW s, NEW t, NEW places, IsPartOf(seen, s, places),
         \A i \in places : t[i] = s[i]
  PROVE  IsPartOf(seen, t, places)
BY DEF IsPartOf

(* Nothing is a part of anything. *)
LEMMA PartEmpty == \A s : IsPartOf(<<>>, s, {})
<1> TAKE s
<1> DEFINE at == [k \in 1..0 |-> 0]
<1>1. Len(<<>>) = 0 /\ 1..0 = {}
  OBVIOUS
<1>2. at \in [1..Len(<<>>) -> {}] /\ \A k \in 1..Len(<<>>) : FALSE
  BY <1>1
<1> HIDE DEF at
<1>3. QED
  BY <1>2 DEF IsPartOf

(* How the step of ExactDelivery is stated for one client. *)
Delivered(c) == IsPartOf(got[c] \o send[c], log[room[c]], Due(c))

(* The parts that the delivery to a client depends on. *)
LEMMA DeliveryTypes ==
  ASSUME ControlType, DataType, NEW c \in Clients
  PROVE  /\ room[c] \in Rooms /\ log[room[c]] \in Seq(Update) /\ Len(log[room[c]]) \in Nat
         /\ got[c] \in Seq(Update) /\ send[c] \in Seq(Update) /\ got[c] \o send[c] \in Seq(Update)
         /\ missed[c] \in SUBSET Update /\ Offered(c) \in Int
<1>1. room[c] \in Rooms /\ got[c] \in Seq(Update) /\ send[c] \in Seq(Update)
      /\ missed[c] \in SUBSET Update
  BY DEF ControlType, DataType
<1>2. log[room[c]] \in Seq(Update)
  BY <1>1 DEF DataType
<1>3. hub.mode = "replay" => hub.next \in Nat
  BY DEF ControlType, Selecting
<1>4. QED
  BY <1>1, <1>2, <1>3 DEF Offered

(* A step that leaves all of it alone. *)
LEMMA SameDelivery ==
  ASSUME NEW c \in Clients, Delivered(c), room' = room,
         got'[c] \o send'[c] = got[c] \o send[c], log'[room[c]] = log[room[c]],
         missed'[c] = missed[c], Offered(c)' = Offered(c)
  PROVE  Delivered(c)'
<1>1. Due(c)' = Due(c)
  BY DEF Due
<1>2. QED
  BY <1>1 DEF Delivered

(* One more update goes to a joiner: it is at the place the replay has come to. *)
LEMMA ReplayDelivery ==
  ASSUME QueuesInv, BacklogInv, NewcomersInv, Replay, NEW c \in Clients, Delivered(c)
  PROVE  Delivered(c)'
<1>0. ControlType /\ DataType /\ UNCHANGED <<room, log, got, missed>>
  BY DEF QueuesInv, Replay, roomVars, connVars
<1>1. PICK j \in Clients : j = hub.client
  BY <1>0 DEF Replay, ControlType, Selecting
<1>2. /\ hub.mode = "replay" /\ hub = Replaying(j, hub.next) /\ hub.next \in Nat \ {0}
      /\ missed[j] = {} /\ \A i \in 1..Len(log[room[j]]) : log[room[j]][i][1] # j
      /\ hub.next <= Len(log[room[j]]) + 1
  BY <1>0, <1>1 DEF Replay, ControlType, Selecting, Replaying, NewcomersInv, BacklogInv
<1>3. CASE /\ hub.next <= Len(log[room[j]])
           /\ send' = [send EXCEPT ![j] = Append(@, log[room[j]][hub.next])]
           /\ hub' = Replaying(j, hub.next + 1)
  <2>1. CASE c # j
    <3>1. send'[c] = send[c]
      BY <1>0, <1>3, <2>1 DEF DataType
    <3>2. Offered(c)' = Offered(c)
      BY <1>0, <1>2, <1>3, <2>1 DEF Offered, Replaying
    <3>3. QED
      BY <1>0, <3>1, <3>2, SameDelivery
  <2>2. CASE c = j
    <3> DEFINE lg == log[room[c]]
               n == hub.next
    <3>1. /\ lg \in Seq(Update) /\ Len(lg) \in Nat /\ send[c] \in Seq(Update)
          /\ got[c] \in Seq(Update) /\ got[c] \o send[c] \in Seq(Update)
      BY <1>0, DeliveryTypes
    <3>2. n \in 1..Len(lg) /\ lg[n] \in Update
      BY <1>2, <1>3, <2>2, <3>1
    <3>3. Offered(c) = n - 1 /\ Offered(c)' = n
      BY <1>2, <1>3, <2>2 DEF Offered, Replaying
    <3>4. Due(c) = 1..(n - 1)
      BY <1>2, <2>2, <3>1, <3>2, <3>3 DEF Due
    <3>5. Due(c)' = 1..n
      BY <1>0, <1>2, <2>2, <3>1, <3>2, <3>3 DEF Due
    <3>6. send'[c] = Append(send[c], lg[n])
      BY <1>0, <1>3, <2>2 DEF DataType
    <3>7. got[c] \o send'[c] = Append(got[c] \o send[c], lg[n])
      BY <3>1, <3>2, <3>6, QueueEnds, ZenonT(60)
    <3> HIDE DEF lg, n
    <3> DEFINE before == 1..(n - 1)
    <3>8. 1..n = before \union {n} /\ before \in SUBSET Nat /\ n \in Nat /\ \A i \in before : i < n
      BY <3>2
    <3>9. IsPartOf(got[c] \o send[c], lg, before)
      BY <3>4 DEF Delivered, lg
    <3> HIDE DEF before
    <3>10. IsPartOf(Append(got[c] \o send[c], lg[n]), lg, before \union {n})
      BY <3>1, <3>2, <3>8, <3>9, PartGrows
    <3>11. log'[room'[c]] = lg /\ got' = got
      BY <1>0 DEF lg
    <3>12. QED
      BY <3>5, <3>7, <3>8, <3>10, <3>11 DEF Delivered
  <2>3. QED
    BY <2>1, <2>2
<1>4. CASE hub.next > Len(log[room[j]]) /\ hub' = Selecting /\ UNCHANGED send
  <2>1. hub.next = Len(log[room[j]]) + 1 /\ Len(log[room[j]]) \in Nat
    BY <1>0, <1>2, <1>4, DeliveryTypes
  <2>2. Offered(c)' = Offered(c)
    BY <1>0, <1>2, <1>4, <2>1 DEF Offered, Replaying, Selecting
  <2>3. QED
    BY <1>0, <1>4, <2>2, SameDelivery
<1>5. QED
  BY <1>1, <1>3, <1>4 DEF Replay

(* What the fan-out does for one member of a room. *)
LEMMA FanOutFor ==
  ASSUME QueuesInv, HubBroadcast, NEW c \in Clients, pump[c] \in Member
  PROVE  LET u == Head(broadcast).data IN
         \/ /\ log'[room[c]] = log[room[c]] /\ send'[c] = send[c] /\ missed'[c] = missed[c]
         \/ /\ Head(broadcast).room = room[c] /\ log'[room[c]] = Append(log[room[c]], u)
            /\ \/ u[1] = c /\ send'[c] = send[c] /\ missed'[c] = missed[c]
               \/ u[1] # c /\ send'[c] = Append(send[c], u) /\ missed'[c] = missed[c]
               \/ u[1] # c /\ send'[c] = send[c] /\ missed'[c] = missed[c] \union {u}
<1> DEFINE msg == Head(broadcast)
           u == msg.data
<1>0. ControlType /\ DataType /\ RegistrationInv /\ QueueOrder
  BY DEF QueuesInv
<1>1. PICK others \in SUBSET Clients, ready \in SUBSET Clients :
        /\ others = Others(msg) /\ ready = {d \in others : Len(send[d]) < SendCap}
        /\ FanOut(others, ready)
  BY <1>0, BroadcastIsFanOut
<1>2. Relayed
  BY <1>0, RelayStep
<1>3. u[1] = msg.sender /\ msg \in Message
  BY <1>0, <1>2, HeadPrecedes DEF DataType
<1>4. c \in clients[room[c]] /\ room[c] \in live /\ room[c] \in Rooms /\ msg.room \in Rooms
  BY <1>0, <1>3 DEF RegistrationInv, ControlType, Message
<1>5. CASE msg.room \notin live
  BY <1>1, <1>5 DEF FanOut
<1>6. CASE msg.room \in live
  <2>1. /\ log' = [log EXCEPT ![msg.room] = Append(@, u)]
        /\ send' = [d \in Clients |-> IF d \in ready THEN Append(send[d], u) ELSE send[d]]
        /\ missed' = [d \in Clients |-> IF d \in others \ ready THEN missed[d] \union {u}
                                                              ELSE missed[d]]
    BY <1>1, <1>6 DEF FanOut
  <2>2. log \in [Rooms -> Seq(Update)] /\ ready \subseteq others
    BY <1>0, <1>1 DEF DataType
  <2>3. c \in others <=> msg.room = room[c] /\ u[1] # c
    BY <1>0, <1>1, <1>3, <1>4 DEF Others, RegistrationInv
  <2> HIDE DEF msg, u
  <2>4. /\ send'[c] = IF c \in ready THEN Append(send[c], u) ELSE send[c]
        /\ missed'[c] = IF c \in others \ ready THEN missed[c] \union {u} ELSE missed[c]
        /\ log'[room[c]] = IF room[c] = msg.room THEN Append(log[room[c]], u) ELSE log[room[c]]
    BY <1>4, <2>1, <2>2
  <2>5. QED
    BY <2>2, <2>3, <2>4 DEF msg, u
<1>7. QED
  BY <1>5, <1>6

(* A member has the update in its queue, sent it, or is noted to have missed it. *)
LEMMA RelayDelivery ==
  ASSUME QueuesInv, HubBroadcast, NEW c \in Clients, pump[c] \in Member, Delivered(c)
  PROVE  Delivered(c)'
<1>0. /\ ControlType /\ DataType /\ QueueOrder /\ LogOrder /\ MissedOrder /\ Relayed
      /\ hub = Selecting /\ UNCHANGED <<room, got, hub>>
  BY RelayStep DEF QueuesInv, HubBroadcast, FanOut, connVars
<1> DEFINE u == Head(broadcast).data
           lg == log[room[c]]
           L == Len(lg)
<1>1. /\ u \in Update /\ u[2] \in Nat /\ Head(broadcast) = broadcast[1] /\ 1 \in 1..Len(broadcast)
      /\ u[1] = broadcast[1].sender
  BY <1>0, HeadPrecedes, UpdateParts
<1>2. /\ lg \in Seq(Update) /\ L \in Nat /\ send[c] \in Seq(Update) /\ room[c] \in Rooms
      /\ got[c] \in Seq(Update) /\ got[c] \o send[c] \in Seq(Update) /\ missed[c] \in SUBSET Update
  BY <1>0, DeliveryTypes
<1>3. Offered(c) = L /\ Offered(c)' = Len(log'[room[c]])
  BY <1>0 DEF Offered, Selecting
<1>4. \A i \in 1..L : lg[i] # u
  <2>1. \A i \in 1..L : lg[i][1] = broadcast[1].sender => lg[i][2] < u[2]
    BY <1>0, <1>1, <1>2 DEF LogOrder
  <2>2. QED
    BY <1>1, <2>1
<1>5. u \notin missed[c]
  <2>1. \A v \in missed[c] : v[1] = broadcast[1].sender => v[2] < u[2]
    BY <1>0, <1>1 DEF MissedOrder
  <2>2. QED
    BY <1>1, <2>1
<1>6. CASE log'[room[c]] = lg /\ send'[c] = send[c] /\ missed'[c] = missed[c]
  BY <1>0, <1>3, <1>6, SameDelivery
<1>7. ASSUME log'[room[c]] = Append(lg, u)
      PROVE  /\ Offered(c)' = L + 1 /\ log'[room[c]][L + 1] = u
             /\ \A i \in 1..L : log'[room[c]][i] = lg[i]
             /\ \A i \in 1..(L + 1) : i = L + 1 \/ i \in 1..L
  BY <1>1, <1>2, <1>3, <1>7, SMTT(30)
<1>8. Due(c) = {i \in 1..L : lg[i][1] # c /\ lg[i] \notin missed[c]}
  BY <1>3 DEF Due
<1>9. Due(c)' = {i \in 1..Offered(c)' : log'[room[c]][i][1] # c /\ log'[room[c]][i] \notin missed'[c]}
  BY <1>0 DEF Due
<1>10. IsPartOf(got[c] \o send[c], lg, Due(c))
  BY DEF Delivered
<1> HIDE DEF u, lg, L
<1>11. CASE /\ log'[room[c]] = Append(lg, u) /\ send'[c] = send[c]
            /\ \/ u[1] = c /\ missed'[c] = missed[c]
               \/ u[1] # c /\ missed'[c] = missed[c] \union {u}
  <2>1. Due(c)' = Due(c)
    <3>1. \A i \in 1..L : lg[i] \in missed'[c] <=> lg[i] \in missed[c]
      BY <1>4, <1>11
    <3>2. u[1] = c \/ u \in missed'[c]
      BY <1>11
    <3>3. \A i \in 1..L : i \in 1..(L + 1)
      BY <1>2
    <3>4. QED
      BY <1>7, <1>8, <1>9, <1>11, <3>1, <3>2, <3>3
  <2>2. \A i \in Due(c) : log'[room[c]][i] = lg[i]
    BY <1>7, <1>8, <1>11
  <2>3. IsPartOf(got[c] \o send[c], log'[room[c]], Due(c))
    BY <1>10, <2>2, PartStays
  <2>4. QED
    BY <1>0, <1>11, <2>1, <2>3 DEF Delivered
<1>12. CASE /\ log'[room[c]] = Append(lg, u) /\ u[1] # c
            /\ send'[c] = Append(send[c], u) /\ missed'[c] = missed[c]
  <2>1. Due(c)' = Due(c) \union {L + 1}
    <3>1. L + 1 \in 1..(L + 1) /\ \A i \in 1..L : i \in 1..(L + 1)
      BY <1>2
    <3>2. QED
      BY <1>5, <1>7, <1>8, <1>9, <1>12, <3>1
  <2> DEFINE new == log'[room[c]]
             due == Due(c)
  <2>2. due \subseteq 1..L /\ L + 1 \in Nat /\ \A i \in 1..L : i < L + 1 /\ i \in Nat
    BY <1>2, <1>8
  <2>3. new[L + 1] \in Update /\ new[L + 1] = u /\ \A i \in 1..L : new[i] = lg[i]
    BY <1>1, <1>7, <1>12
  <2> HIDE DEF new, due
  <2>4. IsPartOf(Append(got[c] \o send[c], new[L + 1]), new, due \union {L + 1})
    <3>1. due \in SUBSET Nat /\ \A i \in due : i < L + 1 /\ new[i] = lg[i]
      BY <2>2, <2>3
    <3>2. IsPartOf(got[c] \o send[c], lg, due)
      BY <1>10 DEF due
    <3>3. QED
      BY <1>2, <2>2, <2>3, <3>1, <3>2, PartGrows
  <2>5. got[c] \o send'[c] = Append(got[c] \o send[c], u)
    BY <1>1, <1>2, <1>12, QueueEnds, ZenonT(60)
  <2>6. QED
    BY <1>0, <2>1, <2>3, <2>4, <2>5 DEF Delivered, new, due
<1>13. QED
  BY <1>6, <1>11, <1>12, FanOutFor DEF u, lg

(* Nobody is sent anything, or has typed, before joining; what a joiner is replayed *)
(* is then not its own.                                                             *)
LEMMA NewcomersStep ==
  ASSUME QueuesInv, NewcomersInv, [Next]_vars
  PROVE  NewcomersInv'
<1>0. ControlType /\ DataType /\ RegistrationInv /\ LogOrder
  BY DEF QueuesInv
<1> USE DEF roomVars, connVars
<1> DEFINE New(c) == sent[c] = 0 /\ got[c] = <<>> /\ send[c] = <<>> /\ missed[c] = {}
           Fresh == hub.mode = "replay" =>
                      LET c == hub.client IN
                      missed[c] = {} /\ \A i \in 1..Len(log[room[c]]) : log[room[c]][i][1] # c
<1>1. /\ \A c \in Clients : pump[c] \in {"idle", "registering"} => New(c)
      /\ Fresh
  BY DEF NewcomersInv
<1>2. SUFFICES /\ \A c \in Clients : pump'[c] \in {"idle", "registering"} => New(c)'
               /\ Fresh'
  BY DEF NewcomersInv
<1>3. ASSUME NEW c \in Clients, \/ ServeWS(c) \/ ReadMessage(c) \/ Enqueue(c) \/ ReadError(c)
                                \/ WriteMessage(c) \/ WriteError(c) \/ WriterDone(c) \/ PeerGone(c)
      PROVE  /\ \A d \in Clients : pump'[d] \in {"idle", "registering"} => New(d)'
             /\ Fresh'
  <2>1. UNCHANGED <<hub, log, room, missed>>
    BY <1>3 DEF ServeWS, ReadMessage, Enqueue, ReadError, WriteMessage, WriteError, WriterDone, PeerGone
  <2>2. Fresh'
    BY <1>1, <2>1
  <2>3. CASE ServeWS(c) \/ ReadMessage(c) \/ Enqueue(c) \/ ReadError(c)
    BY <1>0, <1>1, <2>2, <2>3 DEF ServeWS, ReadMessage, Enqueue, ReadError, ControlType, DataType
  <2>4. CASE WriteMessage(c) \/ WriteError(c)
    <3>1. /\ send[c] # <<>> /\ UNCHANGED <<pump, sent, missed>>
          /\ \A d \in Clients : d # c => send'[d] = send[d] /\ got'[d] = got[d]
      BY <1>0, <2>4 DEF WriteMessage, WriteError, DataType
    <3>2. QED
      BY <1>1, <2>2, <3>1
  <2>5. CASE WriterDone(c) \/ PeerGone(c)
    BY <1>1, <2>2, <2>5 DEF WriterDone, PeerGone
  <2>6. QED
    BY <1>3, <2>3, <2>4, <2>5
<1>4. CASE Replay
  <2>1. UNCHANGED <<pump, sent, got, room, log, missed>>
    BY <1>4 DEF Replay
  <2>2. PICK j \in Clients : /\ j = hub.client /\ pump[j] \in Member /\ hub.mode = "replay"
                             /\ \A d \in Clients : d # j => send'[d] = send[d]
                             /\ hub'.mode = "replay" => hub'.client = j
    BY <1>0, <1>4 DEF Replay, Replaying, Selecting, ControlType, DataType, RegistrationInv
  <2>3. Fresh'
    BY <1>1, <2>1, <2>2
  <2>4. QED
    BY <1>1, <2>1, <2>2, <2>3 DEF Member
<1>5. CASE HubBroadcast
  <2>1. UNCHANGED <<pump, sent, got>> /\ hub' = hub /\ hub = Selecting
    BY <1>5 DEF HubBroadcast, FanOut
  <2>2. PICK others \in SUBSET Clients, ready \in SUBSET Clients :
          /\ others = Others(Head(broadcast)) /\ ready \subseteq others /\ FanOut(others, ready)
    BY <1>0, <1>5, BroadcastIsFanOut
  <2>3. Head(broadcast) \in Message
    BY <1>0, <2>2 DEF FanOut, DataType
  <2>4. \A d \in others : pump[d] \in Member
    BY <1>0, <2>2, <2>3 DEF Others, RegistrationInv, ControlType, Message
  <2>5. \A d \in Clients : d \notin others => send'[d] = send[d] /\ missed'[d] = missed[d]
    BY <2>2 DEF FanOut
  <2>6. QED
    BY <1>1, <2>1, <2>4, <2>5 DEF Member, Selecting
<1>6. ASSUME NEW c \in Clients, HubUnregister(c)
      PROVE  /\ \A d \in Clients : pump'[d] \in {"idle", "registering"} => New(d)'
             /\ Fresh'
  BY <1>0, <1>1, <1>6 DEF HubUnregister, ControlType, Selecting
<1>7. ASSUME NEW c \in Clients, HubRegister(c)
      PROVE  /\ \A d \in Clients : pump'[d] \in {"idle", "registering"} => New(d)'
             /\ Fresh'
  <2>1. /\ pump[c] = "registering" /\ pump' = [pump EXCEPT ![c] = "reading"]
        /\ hub' = Replaying(c, 1) /\ UNCHANGED <<room, sent, got, send, missed>>
        /\ log' = log \/ log' = [log EXCEPT ![room[c]] = <<>>]
    BY <1>7 DEF HubRegister
  <2>2. /\ sent[c] = 0 /\ missed[c] = {} /\ room[c] \in Rooms
        /\ \A d \in Clients : d # c => pump'[d] = pump[d]
        /\ pump'[c] = "reading"
    BY <1>0, <1>1, <2>1 DEF ControlType
  <2>3. Passed[c] = 0
    BY <2>1, <2>2 DEF Passed
  <2>4. \A i \in 1..Len(log[room[c]]) : log[room[c]][i][1] # c
    <3>1. \A i \in 1..Len(log[room[c]]) :
            log[room[c]][i] \in Update /\ log[room[c]][i][2] <= Passed[log[room[c]][i][1]]
      BY <1>0, <2>2 DEF DataType, LogOrder, Numbered
    <3>2. QED
      BY <2>3, <3>1, UpdateParts
  <2>5. log'[room[c]] = log[room[c]] \/ log'[room[c]] = <<>>
    BY <1>0, <2>1, <2>2 DEF DataType
  <2>6. Fresh'
    BY <2>1, <2>2, <2>4, <2>5 DEF Replaying
  <2>7. QED
    BY <1>1, <2>1, <2>2, <2>6
<1>8. CASE UNCHANGED vars
  BY <1>1, <1>8 DEF vars
<1>9. QED
  BY <1>3, <1>4, <1>5, <1>6, <1>7, <1>8 DEF Next

(* A join starts with nothing delivered of a log that is all still to come, and *)
(* takes nothing from the others in the room; neither does a leave.             *)
LEMMA JoinAndLeaveDelivery ==
  ASSUME QueuesInv, NewcomersInv, NEW d \in Clients, HubRegister(d) \/ HubUnregister(d),
         NEW c \in Clients, pump'[c] \in Member, pump[c] \in Member => Delivered(c)
  PROVE  Delivered(c)'
<1>0. /\ ControlType /\ DataType /\ RegistrationInv /\ QueueOrder /\ [Next]_vars /\ hub = Selecting
      /\ UNCHANGED <<room, got, send, missed>> /\ broadcast' = broadcast
  BY DEF QueuesInv, Next, HubRegister, HubUnregister, connVars
<1>1. CASE c = d
  <2>1. HubRegister(c)
    BY <1>0, <1>1 DEF HubUnregister, ControlType, Member
  <2>2. pump[c] = "registering" /\ hub' = Replaying(c, 1)
    BY <2>1 DEF HubRegister
  <2>3. got[c] \o send[c] = <<>>
    BY <2>2 DEF NewcomersInv
  <2>4. Due(c)' = {}
    BY <1>0, <2>2 DEF Due, Offered, Replaying
  <2>5. IsPartOf(<<>>, log'[room'[c]], {})
    BY PartEmpty
  <2>6. QED
    BY <1>0, <2>3, <2>4, <2>5 DEF Delivered
<1>2. CASE c # d
  <2>1. pump'[c] = pump[c]
    BY <1>0, <1>2 DEF HubRegister, HubUnregister, ControlType
  <2>2. room[c] \in Rooms /\ c \in clients[room[c]] /\ c \in clients'[room[c]]
    BY <1>0, <1>2, <2>1, RegistrationStep, ControlTypeStep DEF RegistrationInv, ControlType
  <2>3. log'[room[c]] = log[room[c]]
    <3>1. CASE log' = log
      BY <3>1
    <3>2. CASE HubRegister(d)
      BY <1>0, <2>2, <3>2 DEF HubRegister, RegistrationInv, DataType
    <3>3. CASE HubUnregister(d)
      BY <1>0, <1>2, <2>2, <3>3 DEF HubUnregister, RegistrationInv, DataType
    <3>4. QED
      BY <3>2, <3>3
  <2>4. Offered(c)' = Offered(c)
    <3>1. hub' = Selecting \/ hub' = Replaying(d, 1)
      BY <1>0 DEF HubRegister, HubUnregister
    <3>2. Offered(c) = Len(log[room[c]]) /\ Offered(c)' = Len(log'[room[c]])
      BY <1>0, <1>2, <3>1 DEF Offered, Selecting, Replaying
    <3>3. QED
      BY <2>3, <3>2
  <2>5. QED
    BY <1>0, <2>1, <2>3, <2>4, SameDelivery
<1>3. QED
  BY <1>1, <1>2

(* What writePump takes from the channel has reached the socket, while that is up. *)
LEMMA WriteDelivery ==
  ASSUME ControlType, DataType, NEW d \in Clients, WriteMessage(d) \/ WriteError(d),
         NEW c \in Clients, conn'[c] = "up", Delivered(c)
  PROVE  Delivered(c)'
<1>0. /\ UNCHANGED <<room, log, missed, hub>>
      /\ send \in [Clients -> Seq(Update)] /\ got \in [Clients -> Seq(Update)]
      /\ conn \in [Clients -> {"none", "up", "down"}]
  BY DEF WriteMessage, WriteError, roomVars, ControlType, DataType
<1>1. Offered(c)' = Offered(c)
  BY <1>0 DEF Offered
<1>2. got'[c] \o send'[c] = got[c] \o send[c]
  <2>1. CASE c # d
    BY <1>0, <2>1 DEF WriteMessage, WriteError
  <2>2. CASE c = d
    <3>1. WriteMessage(c) /\ conn[c] = "up"
      BY <1>0, <2>2 DEF WriteMessage, WriteError
    <3>2. got'[c] = Append(got[c], Head(send[c])) /\ send'[c] = Tail(send[c]) /\ send[c] # <<>>
      BY <1>0, <3>1 DEF WriteMessage
    <3>3. QED
      BY <1>0, <3>2, QueueEnds
  <2>3. QED
    BY <2>1, <2>2
<1>3. QED
  BY <1>0, <1>1, <1>2, SameDelivery

LEMMA DeliveryStep ==
  ASSUME QueuesInv, BacklogInv, NewcomersInv, ExactDelivery, [Next]_vars
  PROVE  ExactDelivery'
<1>0. ControlType /\ DataType
  BY DEF QueuesInv
<1>1. SUFFICES ASSUME NEW c \in Clients, pump'[c] \in Member, conn'[c] = "up"
               PROVE  Delivered(c)'
  BY DEF ExactDelivery, Delivered, Member
<1>2. pump[c] \in Member /\ conn[c] = "up" => Delivered(c)
  BY DEF ExactDelivery, Delivered
<1>3. ASSUME NEW d \in Clients, HubRegister(d) \/ HubUnregister(d) PROVE Delivered(c)'
  <2>1. conn[c] = "up"
    BY <1>1, <1>3 DEF HubRegister, HubUnregister, connVars
  <2>2. QED
    BY <1>1, <1>2, <1>3, <2>1, JoinAndLeaveDelivery
<1>4. ASSUME ~\E d \in Clients : HubRegister(d) \/ HubUnregister(d)
      PROVE  pump[c] \in Member /\ conn[c] = "up"
  <2>1. CASE UNCHANGED <<pump, conn>>
    BY <1>1, <2>1
  <2>2. CASE Replay \/ HubBroadcast \/ UNCHANGED vars
    BY <2>1, <2>2 DEF Replay, HubBroadcast, FanOut, connVars, vars
  <2>3. ASSUME NEW d \in Clients, ServeWS(d)
        PROVE  pump[c] \in Member /\ conn[c] = "up"
    BY <1>0, <1>1, <2>3 DEF ServeWS, ControlType, Member
  <2>4. ASSUME NEW d \in Clients, ReadMessage(d) \/ Enqueue(d) \/ ReadError(d)
        PROVE  pump[c] \in Member /\ conn[c] = "up"
    BY <1>0, <1>1, <2>4 DEF ReadMessage, Enqueue, ReadError, ControlType, Member, connVars
  <2>5. ASSUME NEW d \in Clients, WriteMessage(d) \/ WriteError(d) \/ WriterDone(d) \/ PeerGone(d)
        PROVE  pump[c] \in Member /\ conn[c] = "up"
    BY <1>0, <1>1, <2>5 DEF WriteMessage, WriteError, WriterDone, PeerGone, ControlType
  <2>6. QED
    BY <1>4, <2>2, <2>3, <2>4, <2>5 DEF Next
<1>5. ASSUME pump[c] \in Member, conn[c] = "up", Delivered(c),
             ~\E d \in Clients : HubRegister(d) \/ HubUnregister(d)
      PROVE  Delivered(c)'
  <2>1. CASE Replay
    BY <1>5, <2>1, ReplayDelivery
  <2>2. CASE HubBroadcast
    BY <1>5, <2>2, RelayDelivery
  <2>3. ASSUME NEW d \in Clients, WriteMessage(d) \/ WriteError(d) PROVE Delivered(c)'
    BY <1>0, <1>1, <1>5, <2>3, WriteDelivery
  <2>4. CASE UNCHANGED <<room, got, send, log, missed, hub>>
    <3>1. Offered(c)' = Offered(c)
      BY <2>4 DEF Offered
    <3>2. QED
      BY <1>5, <2>4, <3>1, SameDelivery
  <2>5. ASSUME NEW d \in Clients, \/ ServeWS(d) \/ ReadMessage(d) \/ Enqueue(d) \/ ReadError(d)
                                  \/ WriterDone(d) \/ PeerGone(d)
        PROVE  UNCHANGED <<room, got, send, log, missed, hub>>
    BY <2>5 DEF ServeWS, ReadMessage, Enqueue, ReadError, WriterDone, PeerGone, roomVars, connVars
  <2>6. QED
    BY <1>5, <2>1, <2>2, <2>3, <2>4, <2>5 DEF Next, vars
<1>6. QED
  BY <1>2, <1>3, <1>4, <1>5

(* What a connected member has been given is its room's log, from the first update *)
(* on and in its order, less its own updates and those noted as dropped: whatever  *)
(* joins, leaves, broadcasts and writes interleave, between the replay of the log  *)
(* and the live updates nothing is lost, doubled or swapped.                       *)
THEOREM DeliveryIsExact == Spec => []ExactDelivery
<1> DEFINE IInv == QueuesInv /\ BacklogInv /\ NewcomersInv /\ ExactDelivery
<1>1. Init => BacklogInv /\ NewcomersInv /\ ExactDelivery
  BY DEF Init, BacklogInv, NewcomersInv, ExactDelivery, Member, Selecting
<1>2. Init => IInv
  BY <1>1, QueuesInit
<1>3. IInv /\ [Next]_vars => IInv'
  <2>1. QueuesInv => ControlType /\ DataType /\ RegistrationInv
    BY DEF QueuesInv
  <2>2. QED
    BY <2>1, QueuesStep, BacklogStep, NewcomersStep, DeliveryStep
<1>4. QED
  BY <1>2, <1>3, PTL DEF Spec

=============================================================================
