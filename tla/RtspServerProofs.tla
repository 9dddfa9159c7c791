-------------------------- MODULE RtspServerProofs --------------------------
(***************************************************************************)
(* Proofs about RtspServer, for any number of senders and of requests, in  *)
(* both builds.                                                            *)
(*                                                                         *)
(* The inductive invariant has three parts: the slots (a client task that  *)
(* lives has its handle stored, a slot about to be given away is free, the *)
(* client in the other one has been told to leave), the connections (each  *)
(* is served by one task), and the event port task (its socket is open,    *)
(* and a client that is about to close a socket has taken it away).        *)
(* What is left when all clients are gone needs three more: Left, below.   *)
(***************************************************************************)
EXTENDS RtspServer, TLAPS

Live(s) == client[s].pc \notin {"gone", "dying"}
Serving(s) == client[s].pc \in {"serve", "start event", "await event"}

Slots ==
  /\ \A s \in Slot : Live(s) => slot[s].task \/ (server.pc = "store" /\ s = NewSlot)
  /\ server.pc \in {"signal", "create"} => ~slot[NewSlot].task
  /\ server.pc \in {"create", "store"} => (Serving(current) => slot[current].stop)
  /\ \A s, t \in Slot : s # t /\ Serving(s) /\ Serving(t) => slot[s].stop \/ slot[t].stop

Known(c) == c \in Conn /\ peer[c] \in {"open", "closed"}

Conns ==
  /\ \A s \in Slot : IF client[s].pc = "gone" THEN client[s].conn = NoConn
                     ELSE Known(client[s].conn)
  /\ \A s, t \in Slot : s # t /\ client[s].pc # "gone" => client[s].conn # client[t].conn
  /\ server.pc \in {"wait", "signal", "create"}
       => Known(server.conn) /\ \A s \in Slot : client[s].conn # server.conn

Events ==
  /\ EventTaskUp => session[event.conn].socket
  /\ \A s \in Slot : client[s].pc \in {"start event", "await event"}
                      => session[client[s].conn].socket
  /\ \A s \in Slot : client[s].pc = "event stopping"
                      => (event.conn = client[s].conn => event.stop)
  /\ \A s \in Slot : client[s].pc = "close" => event.conn # client[s].conn

Inv == Types /\ Slots /\ Conns /\ Events

LEMMA NewSlotIsOther ==
  ASSUME current \in Slot
  PROVE  NewSlot \in Slot /\ NewSlot # current /\ \A s \in Slot : s = current \/ s = NewSlot
BY DEF Slot, NewSlot

LEMMA InitInv == Init => Inv
<1> SUFFICES ASSUME Init PROVE Inv
  OBVIOUS
<1>1. client \in ClientType /\ \A s \in Slot : client[s] = [pc |-> "gone", conn |-> NoConn]
  BY DEF Init, ClientType, ClientPc, ConnOrNone
<1>2. slot \in SlotType
  BY DEF Init, SlotType
<1>3. server \in ServerType /\ server.pc = "accept"
  BY DEF Init, ServerType, ServerPc, ConnOrNone
<1>4. peer \in PeerType
  BY DEF Init, PeerType
<1>5. event \in EventType /\ event.conn = NoConn
  BY DEF Init, EventType, ConnOrNone
<1>6. session \in SessionType
  BY DEF Init, SessionType
<1>7. current \in Slot
  BY DEF Init, Slot
<1>8. Types
  BY <1>1, <1>2, <1>3, <1>4, <1>5, <1>6, <1>7 DEF Types
<1>9. \A s \in Slot : client[s].pc = "gone" /\ client[s].conn = NoConn
  BY <1>1
<1>10. Slots
  BY <1>3, <1>9 DEF Slots, Live, Serving
<1>11. Conns
  BY <1>3, <1>9 DEF Conns
<1>12. Events
  BY <1>5, <1>9 DEF Events, EventTaskUp
<1> QED BY <1>8, <1>10, <1>11, <1>12 DEF Inv

(* -------------------- what a step of a client task does ---------------- *)

(* A client task moves on, or is gone.                                     *)
Moves(s, pc) ==
  /\ client' = [client EXCEPT ![s].pc = pc]

LEMMA MovesTyped ==
  ASSUME client \in ClientType, NEW s \in Slot, NEW pc \in ClientPc, Moves(s, pc)
  PROVE  /\ client' \in ClientType
         /\ client'[s].pc = pc /\ client'[s].conn = client[s].conn
         /\ \A t \in Slot : t # s => client'[t] = client[t]
BY DEF Moves, ClientType

(* Which task acts, where from and where to.                               *)
Acts(s) == Requests(s) \/ Cleanup(s) \/ EndGrace(s)

LEMMA ActsMoves ==
  ASSUME Types, NEW s \in Slot, Acts(s)
  PROVE  /\ client[s].pc # "gone"
         /\ UNCHANGED <<server, current>>
         /\ \/ /\ client[s].pc = "dying"
               /\ client' = [client EXCEPT ![s] = [pc |-> "gone", conn |-> NoConn]]
               /\ slot' = [slot EXCEPT ![s].stop = FALSE, ![s].old = FALSE]
            \/ /\ Moves(s, "dying")
               /\ slot' = [slot EXCEPT ![s].task = FALSE]
            \/ /\ slot' = slot
               /\ client[s].pc # "dying"
               /\ \/ Serving(s) /\ \E pc \in {"serve", "start event", "await event"} : Moves(s, pc)
                  \/ \E pc \in ClientPc \ {"serve", "start event", "await event", "gone", "dying"} :
                       Moves(s, pc)
         /\ peer' = peer \/ peer' = [peer EXCEPT ![client[s].conn] = "closed"]
<1>1. CASE Requests(s)
  <2>1. \E pc \in {"serve", "start event"} : Request(s, pc)
    BY <1>1 DEF Requests, SetupSession, SetupStream, Record, Pause, Resume, Teardown
  <2> QED BY <2>1 DEF Request, ClientStep, Moves, Serving
<1>2. CASE EndGrace(s)
  BY <1>2 DEF EndGrace, ClientStep, Moves, ClientPc
<1>3. CASE Leave(s)
  BY <1>3 DEF Leave, Moves, ClientPc
<1>4. CASE StopAudio(s) \/ EndSession(s) \/ EventTaskStopped(s) \/ CloseSession(s)
  BY <1>4 DEF StopAudio, EndSession, EventTaskStopped, CloseSession, ClientStep, Moves, ClientPc
<1>5. CASE StopNtp(s)
  BY <1>5 DEF StopNtp, ClientStep, Moves, ClientPc
<1>6. CASE StopEventTask(s)
  BY <1>6 DEF StopEventTask, ClientStep, Moves, ClientPc
<1>7. CASE ReleaseSlot(s)
  BY <1>7 DEF ReleaseSlot, ClientStep, Moves
<1>8. CASE Die(s)
  BY <1>8 DEF Die
<1>9. CASE StartEventTask(s) \/ RestartEventTask(s)
  BY <1>9 DEF StartEventTask, RestartEventTask, ClientStep, Moves, Serving
<1> QED BY <1>1, <1>2, <1>3, <1>4, <1>5, <1>6, <1>7, <1>8, <1>9 DEF Acts, Cleanup

(* What of it the others see.                                              *)
LEMMA ActsEffect ==
  ASSUME Types, NEW s \in Slot, Acts(s)
  PROVE  /\ client' \in ClientType /\ slot' \in SlotType
         /\ \A t \in Slot : t # s => client'[t] = client[t] /\ slot'[t] = slot[t]
         /\ client[s].pc # "gone"
         /\ \/ client'[s].pc = "gone" /\ client'[s].conn = NoConn
            \/ client'[s].pc # "gone" /\ client'[s].conn = client[s].conn
         /\ Serving(s)' => Serving(s)
         /\ Live(s)' => Live(s) /\ slot'[s] = slot[s]
         /\ slot'[s].task => slot[s].task
         /\ UNCHANGED <<server, current>>
         /\ \A c \in Conn : peer'[c] = peer[c] \/ (c = client[s].conn /\ peer'[c] = "closed")
         /\ peer' \in PeerType
<1>0. client \in ClientType /\ slot \in SlotType /\ peer \in PeerType
  BY DEF Types
<1>1. /\ client[s].pc # "gone" /\ UNCHANGED <<server, current>>
      /\ peer' = peer \/ peer' = [peer EXCEPT ![client[s].conn] = "closed"]
  BY ActsMoves
<1>2. /\ peer' \in PeerType
      /\ \A c \in Conn : peer'[c] = peer[c] \/ (c = client[s].conn /\ peer'[c] = "closed")
  <2>1. CASE peer' = peer
    BY <1>0, <2>1
  <2>2. CASE peer' = [peer EXCEPT ![client[s].conn] = "closed"]
    BY <1>0, <2>2 DEF PeerType
  <2> QED BY <1>1, <2>1, <2>2
<1>3. CASE /\ client[s].pc = "dying"
           /\ client' = [client EXCEPT ![s] = [pc |-> "gone", conn |-> NoConn]]
           /\ slot' = [slot EXCEPT ![s].stop = FALSE, ![s].old = FALSE]
  <2>1. /\ client' \in ClientType /\ client'[s].pc = "gone" /\ client'[s].conn = NoConn
        /\ \A t \in Slot : t # s => client'[t] = client[t]
    BY <1>0, <1>3 DEF ClientType, ClientPc, ConnOrNone
  <2>2. /\ slot' \in SlotType /\ slot'[s].task = slot[s].task
        /\ \A t \in Slot : t # s => slot'[t] = slot[t]
    BY <1>0, <1>3 DEF SlotType
  <2>3. ~Serving(s)' /\ ~Live(s)'
    BY <2>1 DEF Serving, Live
  <2> QED BY <1>1, <1>2, <2>1, <2>2, <2>3
<1>4. CASE /\ Moves(s, "dying")
           /\ slot' = [slot EXCEPT ![s].task = FALSE]
  <2>1. /\ client' \in ClientType /\ client'[s].pc = "dying" /\ client'[s].conn = client[s].conn
        /\ \A t \in Slot : t # s => client'[t] = client[t]
    BY <1>0, <1>4, MovesTyped DEF ClientPc
  <2>2. /\ slot' \in SlotType /\ ~slot'[s].task
        /\ \A t \in Slot : t # s => slot'[t] = slot[t]
    BY <1>0, <1>4 DEF SlotType
  <2>3. ~Serving(s)' /\ ~Live(s)'
    BY <2>1 DEF Serving, Live
  <2> QED BY <1>1, <1>2, <2>1, <2>2, <2>3
<1>5. ASSUME slot' = slot, client[s].pc # "dying",
             NEW pc \in ClientPc \ {"gone", "dying"}, Moves(s, pc),
             pc \in {"serve", "start event", "await event"} => Serving(s)
      PROVE  /\ client' \in ClientType /\ slot' \in SlotType
             /\ \A t \in Slot : t # s => client'[t] = client[t] /\ slot'[t] = slot[t]
             /\ client'[s].pc # "gone" /\ client'[s].conn = client[s].conn
             /\ Serving(s)' => Serving(s)
             /\ Live(s)' => Live(s) /\ slot'[s] = slot[s]
             /\ slot'[s].task => slot[s].task
  <2>1. /\ client' \in ClientType /\ client'[s].pc = pc /\ client'[s].conn = client[s].conn
        /\ \A t \in Slot : t # s => client'[t] = client[t]
    BY <1>0, <1>5, MovesTyped
  <2>2. (Serving(s)' => Serving(s)) /\ Live(s)
    BY <1>1, <1>5, <2>1 DEF Serving, Live
  <2> QED BY <1>0, <1>5, <2>1, <2>2
<1>6. CASE /\ slot' = slot
           /\ client[s].pc # "dying"
           /\ \/ Serving(s) /\ \E pc \in {"serve", "start event", "await event"} : Moves(s, pc)
              \/ \E pc \in ClientPc \ {"serve", "start event", "await event", "gone", "dying"} :
                   Moves(s, pc)
  <2>1. \E pc \in ClientPc \ {"gone", "dying"} :
          Moves(s, pc) /\ (pc \in {"serve", "start event", "await event"} => Serving(s))
    BY <1>6 DEF ClientPc
  <2> QED BY <1>1, <1>2, <1>5, <1>6, <2>1
<1> QED BY <1>3, <1>4, <1>6, ActsMoves

(* --------------------------- type correctness -------------------------- *)

LEMMA EventTyped ==
  ASSUME Types, [Next]_vars
  PROVE  event' \in EventType
<1>0. event \in EventType /\ \A s \in Slot : client[s].conn \in ConnOrNone
  BY DEF Types, ClientType
<1>1. ASSUME NEW s \in Slot, StartEventTask(s) \/ RestartEventTask(s) \/ StopEventTask(s)
      PROVE  event' \in EventType
  <2>1. \/ event' = [event EXCEPT !.stop = TRUE] \/ event' = event
        \/ event' = [conn |-> client[s].conn, stop |-> FALSE]
    BY <1>1 DEF StartEventTask, RestartEventTask, StopEventTask
  <2>2. [event EXCEPT !.stop = TRUE] \in EventType
    BY <1>0 DEF EventType
  <2>3. [conn |-> client[s].conn, stop |-> FALSE] \in EventType
    BY <1>0 DEF EventType
  <2> QED BY <1>0, <2>1, <2>2, <2>3
<1>2. CASE EventTaskExits
  BY <1>0, <1>2 DEF EventTaskExits, EventType, ConnOrNone
<1>3. CASE event' = event
  BY <1>0, <1>3
<1>4. ASSUME NEW s \in Slot, Requests(s) \/ EndGrace(s) PROVE event' = event
  BY <1>4 DEF Requests, SetupSession, SetupStream, Record, Pause, Resume, Teardown, EndGrace
<1>5. ASSUME NEW s \in Slot, Cleanup(s) PROVE event' \in EventType
  BY <1>1, <1>3, <1>5 DEF Cleanup, Leave, StopAudio, StopNtp, EndSession, EventTaskStopped,
     CloseSession, ReleaseSlot, Die
<1>6. ASSUME \/ \E c \in Conn : Connect(c) \/ HangUp(c)
             \/ Server \/ StopServer \/ EventClientConnects \/ UNCHANGED vars
      PROVE  event' = event
  BY <1>6 DEF Connect, HangUp, Server, Accept, WaitForSlot, Refuse, SignalOldClientStop,
     CreateClient, StoreHandle, StopClients, ServerStep, StopServer, EventClientConnects, vars
<1> QED BY <1>2, <1>3, <1>4, <1>5, <1>6 DEF Next

(* A request counts, and may open the event socket; only the end of a      *)
(* session closes it.                                                      *)
LEMMA SessionTyped ==
  ASSUME Types, [Next]_vars
  PROVE  session' \in SessionType
<1>0. session \in SessionType
  BY DEF Types
<1>1. ASSUME NEW s \in Slot, Requests(s) PROVE session' \in SessionType
  <2> DEFINE c == client[s].conn
  <2>1. ASSUME NEW paused \in BOOLEAN, Session(c, paused) PROVE session' \in SessionType
    <3>1. CASE c \in Conn
      <4> DEFINE n == session[c].requests + 1
                 new == [session[c] EXCEPT !.requests = n, !.paused = paused]
      <4>1. session' = [session EXCEPT ![c] = new]
        BY <1>0, <2>1, <3>1 DEF Session, SessionType
      <4>2. n \in Nat
        BY <1>0, <3>1 DEF SessionType
      <4>3. new \in [port : BOOLEAN, socket : BOOLEAN, paused : BOOLEAN, requests : Nat]
        <5> HIDE DEF n
        <5> QED BY <1>0, <2>1, <3>1, <4>2 DEF SessionType
      <4> QED BY <1>0, <4>1, <4>3 DEF SessionType
    <3>2. CASE c \notin Conn
      BY <1>0, <2>1, <3>2 DEF Session, SessionType
    <3> QED BY <3>1, <3>2
  <2>2. CASE SetupSession(s)
    <3>1. session' = [session EXCEPT ![c].requests = @ + 1, ![c].port = TRUE,
                                     ![c].socket = @ \/ ~session[c].port]
      BY <2>2 DEF SetupSession
    <3>2. CASE c \in Conn
      <4> DEFINE open == session[c].socket \/ ~session[c].port
                 n == session[c].requests + 1
      <4>1. open \in BOOLEAN /\ n \in Nat
        BY <1>0, <3>2 DEF SessionType
      <4>2. session' = [session EXCEPT ![c] = [session[c] EXCEPT
                          !.requests = n, !.port = TRUE, !.socket = open]]
        BY <1>0, <3>1, <3>2 DEF SessionType
      <4>3. [session[c] EXCEPT !.requests = n, !.port = TRUE, !.socket = open]
              \in [port : BOOLEAN, socket : BOOLEAN, paused : BOOLEAN, requests : Nat]
        <5> HIDE DEF open, n
        <5> QED BY <1>0, <3>2, <4>1 DEF SessionType
      <4> QED BY <1>0, <4>2, <4>3 DEF SessionType
    <3>3. CASE c \notin Conn
      BY <1>0, <3>1, <3>3 DEF SessionType
    <3> QED BY <3>2, <3>3
  <2>3. CASE SetupStream(s) \/ Record(s) \/ Pause(s) \/ Resume(s) \/ Teardown(s)
    <3>1. \E paused \in BOOLEAN : Session(c, paused)
      BY <2>3 DEF SetupStream, Record, Pause, Resume, Teardown
    <3> QED BY <2>1, <3>1
  <2> QED BY <1>1, <2>2, <2>3 DEF Requests
<1>2. ASSUME NEW s \in Slot, CloseSession(s) PROVE session' \in SessionType
  BY <1>0, <1>2 DEF CloseSession, SessionType
<1>3. ASSUME NEW s \in Slot, Cleanup(s), ~CloseSession(s) PROVE session' = session
  BY <1>3 DEF Cleanup, Leave, StopAudio, StopNtp, EndSession, StopEventTask, EventTaskStopped,
     ReleaseSlot, Die, StartEventTask, RestartEventTask
<1>4. ASSUME \/ \E c \in Conn : Connect(c) \/ HangUp(c)
             \/ Server \/ StopServer \/ EventClientConnects \/ EventTaskExits
             \/ (\E s \in Slot : EndGrace(s)) \/ UNCHANGED vars
      PROVE  session' = session
  BY <1>4 DEF Connect, HangUp, Server, Accept, WaitForSlot, Refuse, SignalOldClientStop,
     CreateClient, StoreHandle, StopClients, ServerStep, StopServer, EventClientConnects,
     EventTaskExits, EndGrace, vars
<1> QED BY <1>0, <1>1, <1>2, <1>3, <1>4 DEF Next

(* ------------------------------ the slots ------------------------------ *)

LEMMA ServerStepEffect ==
  ASSUME NEW pc \in ServerPc, NEW c \in ConnOrNone, ServerStep(pc, c)
  PROVE  server' \in ServerType /\ server'.pc = pc /\ server'.conn = c
BY DEF ServerStep, ServerType

(* Steps of the server that change no client.                              *)
LEMMA WaitingKeeps ==
  ASSUME Inv, Accept \/ WaitForSlot \/ Refuse
  PROVE  /\ server' \in ServerType /\ slot' \in SlotType /\ peer' \in PeerType
         /\ Slots' /\ Conns'
<1> USE DEF Inv
<1>0. /\ slot \in SlotType /\ peer \in PeerType /\ server \in ServerType
      /\ NewSlot \in Slot /\ current \in Slot
  BY NewSlotIsOther DEF Types
<1>1. ASSUME UNCHANGED <<client, current>>, slot' \in SlotType,
             \A s \in Slot : slot'[s].task = slot[s].task /\ (slot[s].stop => slot'[s].stop),
             server.pc # "store", server'.pc \notin {"create", "store"},
             server'.pc = "signal" => ~slot[NewSlot].task
      PROVE  Slots'
  <2>1. NewSlot' = NewSlot
    BY <1>1 DEF NewSlot
  <2>2. \A s \in Slot : /\ Live(s)' <=> Live(s)
                        /\ Serving(s)' <=> Serving(s)
    BY <1>1 DEF Live, Serving
  <2>3. \A s \in Slot : Live(s)' => slot'[s].task
    BY <1>1, <2>2 DEF Slots
  <2>4. \A s, t \in Slot : s # t /\ Serving(s)' /\ Serving(t)' => slot'[s].stop \/ slot'[t].stop
    BY <1>1, <2>2 DEF Slots
  <2> QED BY <1>0, <1>1, <2>1, <2>3, <2>4 DEF Slots
<1>2. CASE Accept
  <2>1. PICK c \in Conn :
          /\ peer[c] = "backlog"
          /\ peer' = [peer EXCEPT ![c] = "open"]
          /\ \/ /\ ServerStep("wait", c)
                /\ slot' = [slot EXCEPT ![NewSlot].stop = TRUE]
             \/ ServerStep("signal", c) /\ UNCHANGED slot /\ ~slot[NewSlot].task
    BY <1>2 DEF Accept
  <2>2. server.pc = "accept" /\ UNCHANGED <<client, current>>
    BY <1>2 DEF Accept
  <2>3. /\ server' \in ServerType /\ server'.conn = c
        /\ \/ server'.pc = "wait"
           \/ server'.pc = "signal" /\ ~slot[NewSlot].task
    BY <2>1, ServerStepEffect DEF ServerPc, ConnOrNone
  <2>4. /\ slot' \in SlotType
        /\ \A s \in Slot : slot'[s].task = slot[s].task /\ (slot[s].stop => slot'[s].stop)
    <3>1. CASE slot' = slot
      BY <1>0, <3>1
    <3>2. CASE slot' = [slot EXCEPT ![NewSlot].stop = TRUE]
      BY <1>0, <3>2 DEF SlotType
    <3> QED BY <2>1, <3>1, <3>2
  <2>5. /\ peer' \in PeerType /\ peer'[c] = "open"
        /\ \A d \in Conn : peer[d] # "backlog" => peer'[d] = peer[d]
    BY <1>0, <2>1 DEF PeerType
  <2>6. Slots'
    BY <1>1, <2>2, <2>3, <2>4
  <2>7. \A s \in Slot : client[s].conn # c
    BY <2>1, RtspServerAssumption DEF Conns, Known
  <2>8. Conns'
    BY <2>1, <2>2, <2>3, <2>5, <2>7 DEF Conns, Known
  <2> QED BY <2>3, <2>4, <2>5, <2>6, <2>8
<1>3. CASE WaitForSlot
  <2>1. /\ server.pc = "wait" /\ ~slot[NewSlot].task /\ ServerStep("signal", server.conn)
        /\ UNCHANGED <<peer, current, client, slot>>
    BY <1>3 DEF WaitForSlot
  <2>2. server' \in ServerType /\ server'.pc = "signal" /\ server'.conn = server.conn
    <3>1. server.conn \in ConnOrNone
      BY <1>0 DEF ServerType
    <3> QED BY <2>1, <3>1, ServerStepEffect DEF ServerPc
  <2>3. Slots'
    BY <1>0, <1>1, <2>1, <2>2
  <2>4. Conns'
    BY <2>1, <2>2 DEF Conns, Known
  <2> QED BY <1>0, <2>1, <2>2, <2>3, <2>4
<1>4. CASE Refuse
  <2>1. /\ server.pc = "wait" /\ ServerStep("accept", NoConn)
        /\ peer' = [peer EXCEPT ![server.conn] = "closed"]
        /\ UNCHANGED <<current, client, slot>>
    BY <1>4 DEF Refuse
  <2>2. server' \in ServerType /\ server'.pc = "accept"
    BY <2>1, ServerStepEffect DEF ServerPc, ConnOrNone
  <2>3. /\ peer' \in PeerType
        /\ \A d \in Conn : Known(d) => peer'[d] \in {"open", "closed"}
    BY <1>0, <2>1 DEF PeerType, Known
  <2>4. Slots'
    BY <1>0, <1>1, <2>1, <2>2
  <2>5. Conns'
    BY <2>1, <2>2, <2>3 DEF Conns, Known
  <2> QED BY <1>0, <2>1, <2>2, <2>3, <2>4, <2>5
<1> QED BY <1>2, <1>3, <1>4

(* The old client is told to stop, its slot kept; the new one created.     *)
LEMMA CreationKeeps ==
  ASSUME Inv, SignalOldClientStop \/ CreateClient \/ StoreHandle \/ StopClients
  PROVE  /\ server' \in ServerType /\ slot' \in SlotType /\ client' \in ClientType
         /\ current' \in Slot /\ peer' = peer
         /\ Slots' /\ Conns'
<1> USE DEF Inv
<1>0. /\ slot \in SlotType /\ server \in ServerType /\ client \in ClientType
      /\ NewSlot \in Slot /\ current \in Slot /\ NewSlot # current
      /\ \A s \in Slot : s = current \/ s = NewSlot
      /\ server.conn \in ConnOrNone
  BY NewSlotIsOther DEF Types, ServerType
<1>1. CASE SignalOldClientStop
  <2>1. /\ server.pc = "signal" /\ ServerStep("create", server.conn)
        /\ slot' = IF slot[current].task
                   THEN [slot EXCEPT ![current].old = TRUE, ![current].stop = TRUE]
                   ELSE slot
        /\ UNCHANGED <<peer, current, client>>
    BY <1>1 DEF SignalOldClientStop
  <2>2. server' \in ServerType /\ server'.pc = "create" /\ server'.conn = server.conn
    BY <1>0, <2>1, ServerStepEffect DEF ServerPc
  <2>3. /\ slot' \in SlotType
        /\ \A s \in Slot : slot'[s].task = slot[s].task /\ (slot[s].stop => slot'[s].stop)
        /\ slot[current].task => slot'[current].stop
    <3>1. CASE slot[current].task
      <4>1. slot' = [slot EXCEPT ![current].old = TRUE, ![current].stop = TRUE]
        BY <2>1, <3>1
      <4> QED BY <1>0, <4>1 DEF SlotType
    <3>2. CASE ~slot[current].task
      BY <1>0, <2>1, <3>2
    <3> QED BY <3>1, <3>2
  <2>4. \A s \in Slot : (Live(s)' <=> Live(s)) /\ (Serving(s)' <=> Serving(s))
    BY <2>1 DEF Live, Serving
  <2>5. \A s \in Slot : Serving(s) => Live(s)
    BY DEF Live, Serving
  <2>6. \A s \in Slot : Live(s) => slot[s].task
    BY <2>1 DEF Slots
  <2>7. NewSlot' = NewSlot
    BY <2>1 DEF NewSlot
  <2>8. ~slot[NewSlot].task
    BY <2>1 DEF Slots
  <2>9. \A s, t \in Slot : s # t /\ Serving(s)' /\ Serving(t)' => slot'[s].stop \/ slot'[t].stop
    BY <2>3, <2>4 DEF Slots
  <2>10. Slots'
    BY <1>0, <2>1, <2>2, <2>3, <2>4, <2>5, <2>6, <2>7, <2>8, <2>9 DEF Slots
  <2>11. Conns'
    BY <2>1, <2>2 DEF Conns, Known
  <2> QED BY <1>0, <2>1, <2>2, <2>3, <2>10, <2>11
<1>2. CASE CreateClient
  <2>1. /\ server.pc = "create" /\ ServerStep("store", server.conn)
        /\ slot' = [slot EXCEPT ![NewSlot].stop = FALSE, ![NewSlot].old = FALSE]
        /\ client' = [client EXCEPT ![NewSlot] = [pc |-> "serve", conn |-> server.conn]]
        /\ UNCHANGED <<peer, current>>
    BY <1>2 DEF CreateClient
  <2>2. server' \in ServerType /\ server'.pc = "store"
    BY <1>0, <2>1, ServerStepEffect DEF ServerPc
  <2>3. /\ slot' \in SlotType /\ slot'[current] = slot[current]
        /\ \A s \in Slot : slot'[s].task = slot[s].task
    BY <1>0, <2>1 DEF SlotType
  <2>4. /\ client' \in ClientType /\ client'[current] = client[current]
        /\ client'[NewSlot].pc = "serve" /\ client'[NewSlot].conn = server.conn
    BY <1>0, <2>1 DEF ClientType, ClientPc
  <2>5. NewSlot' = NewSlot
    BY <2>1 DEF NewSlot
  <2>6. Live(current)' = Live(current) /\ Serving(current)' = Serving(current)
    BY <2>1, <2>4 DEF Live, Serving
  <2>7. Live(current) => slot[current].task
    BY <1>0, <2>1 DEF Slots
  <2>8. Serving(current) => slot[current].stop
    BY <2>1 DEF Slots
  <2>9. \A s, t \in Slot : s # t /\ Serving(s)' /\ Serving(t)' => slot'[s].stop \/ slot'[t].stop
    <3>1. Serving(current)' => slot'[current].stop
      BY <2>3, <2>6, <2>8
    <3> QED BY <1>0, <2>1, <3>1
  <2>10. Slots'
    BY <1>0, <2>1, <2>2, <2>3, <2>5, <2>6, <2>7, <2>8, <2>9 DEF Slots
  <2>11. Known(server.conn) /\ client[current].conn # server.conn
    BY <1>0, <2>1 DEF Conns
  <2>12. Conns'
    <3>1. \A c : Known(c)' <=> Known(c)
      BY <2>1 DEF Known
    <3>2. \A s \in Slot : IF client'[s].pc = "gone" THEN client'[s].conn = NoConn
                          ELSE Known(client'[s].conn)
      BY <1>0, <2>4, <2>11 DEF Conns
    <3>3. NoConn \notin Conn
      BY RtspServerAssumption
    <3>4. client'[current].conn # client'[NewSlot].conn
      BY <2>4, <2>11
    <3>5. \A s, t \in Slot : s # t => client'[s].conn # client'[t].conn
      BY <1>0, <3>4
    <3> QED BY <2>2, <3>1, <3>2, <3>5 DEF Conns
  <2> QED BY <1>0, <2>1, <2>2, <2>3, <2>4, <2>10, <2>12
<1>3. CASE StoreHandle
  <2>1. /\ server.pc = "store" /\ ServerStep("accept", NoConn)
        /\ slot' = [slot EXCEPT ![NewSlot].task = TRUE]
        /\ current' = NewSlot
        /\ UNCHANGED <<peer, client>>
    BY <1>3 DEF StoreHandle
  <2>2. server' \in ServerType /\ server'.pc = "accept"
    BY <2>1, ServerStepEffect DEF ServerPc, ConnOrNone
  <2>3. /\ slot' \in SlotType /\ slot'[NewSlot].task
        /\ \A s \in Slot : slot'[s].stop = slot[s].stop /\ (slot[s].task => slot'[s].task)
    BY <1>0, <2>1 DEF SlotType
  <2>4. \A s \in Slot : (Live(s)' <=> Live(s)) /\ (Serving(s)' <=> Serving(s))
    BY <2>1 DEF Live, Serving
  <2>5. \A s \in Slot : Live(s)' => slot'[s].task
    BY <1>0, <2>1, <2>3, <2>4 DEF Slots
  <2>6. \A s, t \in Slot : s # t /\ Serving(s)' /\ Serving(t)' => slot'[s].stop \/ slot'[t].stop
    BY <2>3, <2>4 DEF Slots
  <2>7. Slots'
    BY <2>2, <2>5, <2>6 DEF Slots
  <2>8. Conns'
    BY <2>1, <2>2 DEF Conns, Known
  <2> QED BY <1>0, <2>1, <2>2, <2>3, <2>7, <2>8
<1>4. CASE StopClients
  <2>1. /\ server.pc = "accept" /\ ServerStep("gone", NoConn)
        /\ slot' = [s \in Slot |-> [slot[s] EXCEPT !.stop = @ \/ slot[s].task]]
        /\ UNCHANGED <<peer, current, client>>
    BY <1>4 DEF StopClients
  <2>2. server' \in ServerType /\ server'.pc = "gone"
    BY <2>1, ServerStepEffect DEF ServerPc, ConnOrNone
  <2>3. /\ slot' \in SlotType
        /\ \A s \in Slot : slot'[s].task = slot[s].task /\ (slot[s].stop => slot'[s].stop)
    <3>1. ASSUME NEW s \in Slot
          PROVE  /\ slot'[s] \in [task : BOOLEAN, stop : BOOLEAN, old : BOOLEAN]
                 /\ slot'[s].task = slot[s].task /\ (slot[s].stop => slot'[s].stop)
      <4> DEFINE stop == slot[s].stop \/ slot[s].task
      <4>1. slot'[s] = [slot[s] EXCEPT !.stop = stop] /\ stop \in BOOLEAN
        BY <2>1
      <4>2. slot[s].stop => stop
        OBVIOUS
      <4> HIDE DEF stop
      <4> QED BY <1>0, <4>1, <4>2 DEF SlotType
    <3>2. slot' = [s \in Slot |-> slot'[s]]
      BY <2>1
    <3> QED BY <3>1, <3>2 DEF SlotType
  <2>4. \A s \in Slot : (Live(s)' <=> Live(s)) /\ (Serving(s)' <=> Serving(s))
    BY <2>1 DEF Live, Serving
  <2>5. \A s \in Slot : Live(s)' => slot'[s].task
    BY <2>1, <2>3, <2>4 DEF Slots
  <2>6. \A s, t \in Slot : s # t /\ Serving(s)' /\ Serving(t)' => slot'[s].stop \/ slot'[t].stop
    BY <2>3, <2>4 DEF Slots
  <2>7. Slots'
    BY <2>2, <2>5, <2>6 DEF Slots
  <2>8. Conns'
    BY <2>1, <2>2 DEF Conns, Known
  <2> QED BY <1>0, <2>1, <2>2, <2>3, <2>7, <2>8
<1> QED BY <1>1, <1>2, <1>3, <1>4

(* What a client task does leaves slots and connections in order.          *)
LEMMA ClientKeeps ==
  ASSUME Inv, NEW s \in Slot, Acts(s)
  PROVE  Slots' /\ Conns'
<1> USE DEF Inv
<1>1. /\ \A t \in Slot : t # s => client'[t] = client[t] /\ slot'[t] = slot[t]
      /\ client[s].pc # "gone"
      /\ \/ client'[s].pc = "gone" /\ client'[s].conn = NoConn
         \/ client'[s].pc # "gone" /\ client'[s].conn = client[s].conn
      /\ Serving(s)' => Serving(s)
      /\ Live(s)' => Live(s) /\ slot'[s] = slot[s]
      /\ slot'[s].task => slot[s].task
      /\ UNCHANGED <<server, current>>
      /\ \A c \in Conn : peer'[c] = peer[c] \/ (c = client[s].conn /\ peer'[c] = "closed")
  BY ActsEffect
<1>2. NewSlot' = NewSlot /\ NewSlot \in Slot /\ current \in Slot
  BY <1>1, NewSlotIsOther DEF NewSlot, Types
<1>3. \A t \in Slot : /\ Serving(t)' => Serving(t) /\ slot'[t] = slot[t]
                      /\ Live(t)' => Live(t) /\ slot'[t] = slot[t]
                      /\ slot'[t].task => slot[t].task
  <2>1. Serving(s)' => Live(s)'
    BY DEF Serving, Live
  <2> QED BY <1>1, <2>1 DEF Serving, Live
<1>4. Slots'
  <2>1. \A t \in Slot : Live(t)' => slot'[t].task \/ (server'.pc = "store" /\ t = NewSlot')
    BY <1>1, <1>2, <1>3 DEF Slots
  <2>2. server'.pc \in {"signal", "create"} => ~slot'[NewSlot'].task
    BY <1>1, <1>2, <1>3 DEF Slots
  <2>3. server'.pc \in {"create", "store"} => (Serving(current)' => slot'[current].stop)
    BY <1>1, <1>2, <1>3 DEF Slots
  <2>4. \A r, t \in Slot : r # t /\ Serving(r)' /\ Serving(t)' => slot'[r].stop \/ slot'[t].stop
    BY <1>3 DEF Slots
  <2> QED BY <1>1, <2>1, <2>2, <2>3, <2>4 DEF Slots
<1>5. \A c : Known(c) => Known(c)'
  BY <1>1 DEF Known
<1>6. NoConn \notin Conn
  BY RtspServerAssumption
<1>7. Conns'
  <2>1. \A t \in Slot : IF client'[t].pc = "gone" THEN client'[t].conn = NoConn
                        ELSE Known(client[t].conn)'
    BY <1>1, <1>5 DEF Conns
  <2>2. \A r, t \in Slot : r # t /\ client'[r].pc # "gone" => client'[r].conn # client'[t].conn
    <3>1. \A t \in Slot : client'[t].pc # "gone" => client[t].pc # "gone"
                                                   /\ client'[t].conn = client[t].conn
      BY <1>1
    <3>2. \A t \in Slot : client'[t].conn \in {client[t].conn, NoConn}
      BY <1>1
    <3>3. \A t \in Slot : client[t].pc # "gone" => client[t].conn # NoConn
      BY <1>6 DEF Conns, Known
    <3> QED BY <3>1, <3>2, <3>3 DEF Conns
  <2>3. server'.pc \in {"wait", "signal", "create"}
          => Known(server.conn)' /\ \A t \in Slot : client'[t].conn # server'.conn
    <3>1. server.pc \in {"wait", "signal", "create"} => server.conn # NoConn
      BY <1>6 DEF Conns, Known
    <3> QED BY <1>1, <1>5, <3>1 DEF Conns
  <2> QED BY <1>1, <2>1, <2>2, <2>3 DEF Conns
<1> QED BY <1>4, <1>7

(* ------------------------- the event port task ------------------------- *)

LEMMA EventsKeep ==
  ASSUME Inv, NEW s \in Slot, Acts(s)
  PROVE  Events'
<1> USE DEF Inv
<1>0. /\ client \in ClientType /\ session \in SessionType /\ event \in EventType
      /\ NoConn \notin Conn
  BY RtspServerAssumption DEF Types
<1> DEFINE c == client[s].conn
<1>1. /\ \A t \in Slot : t # s => client'[t] = client[t]
      /\ client[s].pc # "gone"
  BY ActsEffect
<1>2. c \in Conn /\ c # NoConn
  BY <1>0, <1>1 DEF Conns, Known
<1>3. \A t \in Slot : t # s => client[t].conn # c
  BY <1>1 DEF Conns
<1>a. \A t \in Slot : client[t].pc # "gone" => client[t].conn \in Conn
  BY DEF Conns, Known
(* A socket that is open stays open, but for the one of the client that    *)
(* closes it.                                                              *)
<1>4. ASSUME UNCHANGED event, NEW pc \in ClientPc, Moves(s, pc),
             \A d \in Conn : session[d].socket => session'[d].socket,
             pc = "start event" => session'[c].socket,
             pc # "await event", pc # "event stopping",
             pc = "close" => event.conn # c
      PROVE  Events'
  <2>1. client'[s].pc = pc /\ client'[s].conn = c
    BY <1>0, <1>4, MovesTyped
  <2>2. EventTaskUp' => session'[event'.conn].socket
    BY <1>0, <1>4 DEF Events, EventTaskUp, EventType, ConnOrNone
  <2>3. \A t \in Slot : client'[t].pc \in {"start event", "await event"}
                        => session'[client'[t].conn].socket
    BY <1>1, <1>4, <1>a, <2>1 DEF Events
  <2>4. \A t \in Slot : client'[t].pc = "event stopping"
                        => (event'.conn = client'[t].conn => event'.stop)
    BY <1>1, <1>4, <2>1 DEF Events
  <2>5. \A t \in Slot : client'[t].pc = "close" => event'.conn # client'[t].conn
    BY <1>1, <1>4, <2>1 DEF Events
  <2> QED BY <2>2, <2>3, <2>4, <2>5 DEF Events
(* The task is started for this client, or told to stop.                   *)
<1>5. ASSUME UNCHANGED session, NEW pc \in ClientPc, Moves(s, pc),
             \/ event' = [conn |-> c, stop |-> FALSE] /\ session[c].socket
             \/ event' = [event EXCEPT !.stop = TRUE],
             pc = "await event" => session[c].socket,
             pc = "event stopping" => event'.stop,
             pc \notin {"start event", "close"}
      PROVE  Events'
  <2>1. client'[s].pc = pc /\ client'[s].conn = c
    BY <1>0, <1>5, MovesTyped
  <2>2. event'.conn \in {event.conn, c} /\ (event'.conn # c => event'.stop)
        /\ (event'.conn = c => session[c].socket \/ event.conn = c)
    <3>1. CASE event' = [conn |-> c, stop |-> FALSE] /\ session[c].socket
      <4>1. event'.conn = c
        BY <3>1
      <4> QED BY <3>1, <4>1
    <3>2. CASE event' = [event EXCEPT !.stop = TRUE]
      <4>1. event'.conn = event.conn /\ event'.stop = TRUE
        BY <1>0, <3>2
      <4> QED BY <4>1
    <3> QED BY <1>5, <3>1, <3>2
  <2>3. EventTaskUp' => session'[event'.conn].socket
    BY <1>2, <1>5, <2>2 DEF Events, EventTaskUp
  <2>4. \A t \in Slot : client'[t].pc \in {"start event", "await event"}
                        => session'[client'[t].conn].socket
    BY <1>1, <1>5, <2>1 DEF Events
  <2>5. \A t \in Slot : client'[t].pc = "event stopping"
                        => (event'.conn = client'[t].conn => event'.stop)
    BY <1>1, <1>3, <1>5, <2>1, <2>2 DEF Events
  <2>6. \A t \in Slot : client'[t].pc = "close" => event'.conn # client'[t].conn
    BY <1>1, <1>3, <1>5, <2>1, <2>2 DEF Events
  <2> QED BY <2>3, <2>4, <2>5, <2>6 DEF Events
<1>6. CASE Requests(s)
  <2>1. ASSUME NEW paused, Session(c, paused)
        PROVE  \A d \in Conn : session[d].socket => session'[d].socket
    BY <1>0, <2>1 DEF Session, SessionType
  <2>2. CASE SetupSession(s)
    <3>1. \A d \in Conn : session[d].socket => session'[d].socket
      BY <1>0, <2>2 DEF SetupSession, SessionType
    <3>2. ~session[c].port => session'[c].socket
      BY <1>0, <1>2, <2>2 DEF SetupSession, SessionType
    <3>3. event' = event /\ Moves(s, IF session[c].port THEN "serve" ELSE "start event")
      BY <2>2 DEF SetupSession, Request, ClientStep, Moves
    <3>4. CASE session[c].port
      BY <1>4, <3>1, <3>3, <3>4 DEF ClientPc
    <3>5. CASE ~session[c].port
      BY <1>4, <3>1, <3>2, <3>3, <3>5 DEF ClientPc
    <3> QED BY <3>4, <3>5
  <2>3. CASE SetupStream(s) \/ Record(s) \/ Pause(s) \/ Resume(s) \/ Teardown(s)
    <3>1. event' = event /\ Moves(s, "serve")
      BY <2>3 DEF SetupStream, Record, Pause, Resume, Teardown, Request, ClientStep, Moves
    <3>2. \E paused : Session(c, paused)
      BY <2>3 DEF SetupStream, Record, Pause, Resume, Teardown
    <3>3. \A d \in Conn : session[d].socket => session'[d].socket
      BY <2>1, <3>2
    <3> QED BY <1>4, <3>1, <3>3 DEF ClientPc
  <2> QED BY <1>6, <2>2, <2>3 DEF Requests
<1>7. CASE StartEventTask(s)
  <2>1. session[c].socket /\ UNCHANGED session
    BY <1>7 DEF StartEventTask, Events
  <2>2. \/ event' = [event EXCEPT !.stop = TRUE] /\ Moves(s, "await event")
        \/ event' = [conn |-> c, stop |-> FALSE] /\ Moves(s, "serve")
    BY <1>7 DEF StartEventTask, ClientStep, Moves
  <2> QED BY <1>5, <2>1, <2>2 DEF ClientPc
<1>8. CASE RestartEventTask(s)
  <2>1. session[c].socket /\ UNCHANGED session
    BY <1>8 DEF RestartEventTask, Events
  <2>2. event' = [conn |-> c, stop |-> FALSE] /\ Moves(s, "serve")
    BY <1>8 DEF RestartEventTask, ClientStep, Moves
  <2> QED BY <1>5, <2>1, <2>2 DEF ClientPc
<1>9. CASE StopEventTask(s)
  <2>1. CASE MustStopEventTask(s) /\ EventTaskUp
    <3>1. event' = [event EXCEPT !.stop = TRUE] /\ Moves(s, "event stopping")
          /\ UNCHANGED session
      BY <1>9, <2>1 DEF StopEventTask, ClientStep, Moves
    <3>2. event'.stop
      BY <1>0, <3>1 DEF EventType
    <3> QED BY <1>5, <3>1, <3>2 DEF ClientPc
  <2>2. CASE ~(MustStopEventTask(s) /\ EventTaskUp)
    <3>1. event' = event /\ Moves(s, "close") /\ UNCHANGED session
      BY <1>9, <2>2 DEF StopEventTask, ClientStep, Moves
    <3>2. event.conn # c
      BY <1>2, <2>2 DEF MustStopEventTask, EventTaskUp
    <3> QED BY <1>4, <3>1, <3>2 DEF ClientPc
  <2> QED BY <2>1, <2>2
<1>10. CASE EventTaskStopped(s)
  <2>1. /\ event' = event /\ Moves(s, "close") /\ UNCHANGED session
        /\ client[s].pc = "event stopping" /\ EventTaskLeft
    BY <1>10 DEF EventTaskStopped, ClientStep, Moves
  <2>2. event.conn # c
    BY <1>2, <2>1 DEF Events, EventTaskLeft, EventTaskUp
  <2> QED BY <1>4, <2>1, <2>2 DEF ClientPc
<1>11. CASE CloseSession(s)
  <2>1. /\ event' = event /\ Moves(s, "release") /\ client[s].pc = "close"
        /\ session' = [session EXCEPT ![c].socket = FALSE]
    BY <1>11 DEF CloseSession, ClientStep, Moves
  <2>2. \A d \in Conn : d # c => session'[d] = session[d]
    BY <1>0, <2>1 DEF SessionType
  <2>3. event.conn # c
    BY <2>1 DEF Events
  <2>4. client'[s].pc = "release" /\ client'[s].conn = c
    BY <1>0, <2>1, MovesTyped DEF ClientPc
  <2>5. EventTaskUp' => session'[event'.conn].socket
    BY <1>0, <2>1, <2>2, <2>3 DEF Events, EventTaskUp, EventType, ConnOrNone
  <2>6. \A t \in Slot : client'[t].pc \in {"start event", "await event"}
                        => session'[client'[t].conn].socket
    BY <1>1, <1>3, <1>a, <2>2, <2>4 DEF Events
  <2>7. \A t \in Slot : client'[t].pc = "event stopping"
                        => (event'.conn = client'[t].conn => event'.stop)
    BY <1>1, <2>1, <2>4 DEF Events
  <2>8. \A t \in Slot : client'[t].pc = "close" => event'.conn # client'[t].conn
    BY <1>1, <2>1, <2>4 DEF Events
  <2> QED BY <2>5, <2>6, <2>7, <2>8 DEF Events
<1>12. CASE Die(s)
  <2>1. /\ UNCHANGED <<session, event>>
        /\ client'[s].pc = "gone"
    BY <1>0, <1>12 DEF Die, ClientType
  <2> QED BY <1>1, <2>1 DEF Events, EventTaskUp
<1>13. CASE Leave(s) \/ StopAudio(s) \/ StopNtp(s) \/ EndSession(s) \/ ReleaseSlot(s) \/ EndGrace(s)
  <2>1. UNCHANGED <<session, event>>
    BY <1>13 DEF Leave, StopAudio, StopNtp, EndSession, ReleaseSlot, EndGrace
  <2>2. \E pc \in {"stop audio", "stop ntp", "grace", "end session", "stop event", "dying"} :
          Moves(s, pc)
    BY <1>13 DEF Leave, StopAudio, StopNtp, EndSession, ReleaseSlot, EndGrace, ClientStep, Moves
  <2> QED BY <1>4, <2>1, <2>2 DEF ClientPc
<1> QED BY <1>6, <1>7, <1>8, <1>9, <1>10, <1>11, <1>12, <1>13 DEF Acts, Cleanup

(* ------------------------------ all of it ------------------------------ *)

LEMMA Inductive == Inv /\ [Next]_vars => Inv'
<1> SUFFICES ASSUME Inv, [Next]_vars PROVE Inv'
  OBVIOUS
<1>1. event' \in EventType /\ session' \in SessionType
  BY EventTyped, SessionTyped DEF Inv
<1>2. ASSUME NEW s \in Slot, Acts(s) PROVE Inv'
  <2>1. Types'
    BY <1>1, <1>2, ActsEffect DEF Inv, Types
  <2> QED BY <1>2, <2>1, ClientKeeps, EventsKeep DEF Inv
<1>3. CASE Accept \/ WaitForSlot \/ Refuse
  <2>1. UNCHANGED <<client, current, event, session>>
    BY <1>3 DEF Accept, WaitForSlot, Refuse, ServerStep
  <2>2. Types' /\ Slots' /\ Conns'
    BY <1>3, <2>1, WaitingKeeps DEF Inv, Types
  <2>3. Events'
    BY <2>1 DEF Inv, Events, EventTaskUp
  <2> QED BY <2>2, <2>3 DEF Inv
<1>4. CASE SignalOldClientStop \/ CreateClient \/ StoreHandle \/ StopClients
  <2>1. UNCHANGED <<event, session>>
    BY <1>4 DEF SignalOldClientStop, CreateClient, StoreHandle, StopClients, ServerStep
  <2>2. Types' /\ Slots' /\ Conns'
    BY <1>1, <1>4, CreationKeeps DEF Inv, Types
  <2>3. \A s \in Slot : client'[s] = client[s] \/ client'[s].pc = "serve"
    <3>1. CASE CreateClient
      BY <3>1, NewSlotIsOther DEF CreateClient, Inv, Types, ClientType
    <3>2. CASE SignalOldClientStop \/ StoreHandle \/ StopClients
      BY <3>2 DEF SignalOldClientStop, StoreHandle, StopClients
    <3> QED BY <1>4, <3>1, <3>2
  <2>4. Events'
    BY <2>1, <2>3 DEF Inv, Events, EventTaskUp
  <2> QED BY <2>2, <2>4 DEF Inv
<1>5. CASE StopServer \/ \E c \in Conn : Connect(c) \/ HangUp(c)
  <2>1. UNCHANGED <<client, slot, server, current, event, session>>
    BY <1>5 DEF StopServer, Connect, HangUp, services
  <2>2. /\ peer' \in PeerType
        /\ \A c \in Conn : peer[c] \in {"open", "closed"} => peer'[c] \in {"open", "closed"}
    <3>1. CASE StopServer
      BY <3>1 DEF StopServer, Inv, Types, PeerType
    <3>2. ASSUME NEW c \in Conn, Connect(c) \/ HangUp(c)
          PROVE  /\ peer' \in PeerType
                 /\ \A d \in Conn : peer[d] \in {"open", "closed"}
                                     => peer'[d] \in {"open", "closed"}
      BY <3>2 DEF Connect, HangUp, Inv, Types, PeerType
    <3> QED BY <1>5, <3>1, <3>2
  <2>3. Types'
    BY <2>1, <2>2 DEF Inv, Types
  <2>4. Slots'
    BY <2>1 DEF Inv, Slots, Live, Serving, NewSlot
  <2>5. Conns'
    BY <2>1, <2>2 DEF Inv, Conns, Known
  <2>6. Events'
    BY <2>1 DEF Inv, Events, EventTaskUp
  <2> QED BY <2>3, <2>4, <2>5, <2>6 DEF Inv
<1>6. CASE EventTaskExits
  <2>1. /\ UNCHANGED <<client, slot, server, current, peer, session>>
        /\ event' = [event EXCEPT !.conn = NoConn]
    BY <1>6 DEF EventTaskExits
  <2>2. event'.conn = NoConn
    BY <2>1 DEF Inv, Types, EventType
  <2>3. Types'
    BY <1>1, <2>1 DEF Inv, Types
  <2>4. Slots' /\ Conns'
    BY <2>1 DEF Inv, Slots, Live, Serving, NewSlot, Conns, Known
  <2>5. \A s \in Slot : client[s].pc # "gone" => client[s].conn # NoConn
    BY RtspServerAssumption DEF Inv, Conns, Known
  <2>6. Events'
    BY <2>1, <2>2, <2>5 DEF Inv, Events, EventTaskUp
  <2> QED BY <2>3, <2>4, <2>6 DEF Inv
<1>7. CASE EventClientConnects \/ UNCHANGED vars
  <2>1. UNCHANGED <<client, slot, server, current, peer, session, event>>
    BY <1>7 DEF EventClientConnects, vars
  <2> QED BY <2>1 DEF Inv, Types, Slots, Live, Serving, NewSlot, Conns, Known, Events, EventTaskUp
<1> QED BY <1>2, <1>3, <1>4, <1>5, <1>6, <1>7 DEF Next, Acts, Server

LEMMA ServicesKeep == Inv /\ ServiceTypes /\ [Next]_vars => ServiceTypes'
<1> SUFFICES ASSUME Inv, ServiceTypes, [Next]_vars PROVE ServiceTypes'
  OBVIOUS
<1>1. CASE UNCHANGED <<build, services>> /\ running' \in BOOLEAN
  BY <1>1 DEF ServiceTypes, services
<1>2. ASSUME NEW s \in Slot, Acts(s) PROVE ServiceTypes'
  <2>1. client[s].conn \in ConnOrNone /\ NoConn \in ConnOrNone
    BY <1>2, ActsMoves DEF Inv, Conns, Known, ConnOrNone
  <2>2. UNCHANGED <<build, running>>
    BY <1>2 DEF Acts, Requests, SetupSession, SetupStream, Record, Pause, Resume, Teardown,
                Request, ClientStep, Cleanup, Leave, StopAudio, StopNtp, EndSession,
                StopEventTask, EventTaskStopped, CloseSession, ReleaseSlot, Die,
                StartEventTask, RestartEventTask, EndGrace
  <2>3. /\ audio' \in {audio, client[s].conn, NoConn}
        /\ ntp' \in {ntp, client[s].conn, NoConn}
        /\ dacp' \in {dacp, client[s].conn, NoConn}
        /\ told' \in {told, "playing", "paused", "disconnected"}
    <3>1. CASE Requests(s)
      BY <3>1 DEF Requests, SetupSession, SetupStream, Record, Pause, Resume, Teardown, services
    <3>2. CASE Cleanup(s) \/ EndGrace(s)
      BY <3>2 DEF Cleanup, Leave, StopAudio, StopNtp, EndSession, StopEventTask,
                  EventTaskStopped, CloseSession, ReleaseSlot, Die, StartEventTask,
                  RestartEventTask, EndGrace, services
    <3> QED BY <1>2, <3>1, <3>2 DEF Acts
  <2> QED BY <2>1, <2>2, <2>3 DEF ServiceTypes
<1>3. CASE Server \/ EventTaskExits
  BY <1>1, <1>3 DEF Server, Accept, WaitForSlot, Refuse, SignalOldClientStop, CreateClient,
                    StoreHandle, StopClients, ServerStep, EventTaskExits, ServiceTypes
<1>4. CASE StopServer \/ (\E c \in Conn : Connect(c) \/ HangUp(c)) \/ UNCHANGED vars
  BY <1>1, <1>4 DEF StopServer, Connect, HangUp, ServiceTypes, vars
<1>5. CASE EventClientConnects
  BY <1>5 DEF EventClientConnects, ServiceTypes
<1> QED BY <1>2, <1>3, <1>4, <1>5 DEF Next, Acts

(* -------------------- what is left when all are gone ------------------- *)

(* Places of a client task at which it has yet to stop a service.          *)
HasAudio == {"serve", "start event", "await event", "stop audio"}
HasNtp == HasAudio \cup {"stop ntp"}
HasSession == HasNtp \cup {"grace", "end session"}
HasEvent == HasSession \cup {"stop event", "event stopping"}

Owned(c, places) ==
  c # NoConn => \E s \in Slot : client[s].conn = c /\ client[s].pc \in places

(* A service runs for a client that will stop it.                          *)
ServicesOwned == /\ Owned(audio, HasAudio) /\ Owned(ntp, HasNtp)
                 /\ Owned(event.conn, HasEvent)

(* A client whose sender is there serves it; a client that is replaced has *)
(* been told to stop; the current client is not being replaced, but for    *)
(* the steps of server_task in between.                                    *)
Replaced ==
  /\ \A s \in Slot : client[s].pc # "gone" /\ peer[client[s].conn] = "open" => Serving(s)
  /\ \A s \in Slot : slot[s].old => slot[s].stop
  /\ \A s \in Slot : slot[s].old /\ Live(s)
                      => s # current \/ server.pc \in {"create", "store"}
  /\ server.pc = "store" => ~slot[NewSlot].old

(* There is a DACP session, or the listeners think that there is one.      *)
Loud == dacp # NoConn \/ told \notin {"none", "disconnected"}

(* Then a client is there, or is about to be, that ends the session; a     *)
(* client in its grace period that leaves this to another one has one.     *)
SessionEnds ==
  Loud => /\ server.pc = "create" \/ \E s \in Slot : client[s].pc \in HasSession
          /\ \A s \in Slot : client[s].pc = "grace" /\ slot[s].old
               => server.pc = "create"
                  \/ \E t \in Slot : t # s /\ client[t].pc \in HasSession

(* The steps of a client task, by what they do to the services.            *)
LEMMA ActsServices ==
  ASSUME Inv, NEW s \in Slot, Acts(s)
  PROVE  /\ \/ audio' = audio /\ client[s].pc # "stop audio"
            \/ audio' = NoConn
            \/ audio' = client[s].conn /\ client'[s].pc \in HasAudio
         /\ client[s].pc \in HasAudio \ {"stop audio"} => client'[s].pc \in HasAudio
         /\ \/ ntp' = ntp /\ client[s].pc # "stop ntp"
            \/ ntp' = NoConn
            \/ ntp' = client[s].conn /\ client'[s].pc \in HasNtp
         /\ client[s].pc \in HasNtp \ {"stop ntp"} => client'[s].pc \in HasNtp
<1>0. client \in ClientType
  BY DEF Inv, Types
<1>1. CASE Requests(s)
  <2>1. /\ client[s].pc = "serve"
        /\ \E pc \in {"serve", "start event"} : Moves(s, pc)
    BY <1>1 DEF Requests, SetupSession, SetupStream, Record, Pause, Resume, Teardown,
                Request, ClientStep, Moves
  <2>2. client'[s].pc \in HasAudio /\ client'[s].pc \in HasNtp
    BY <1>0, <2>1, MovesTyped DEF ClientPc, HasAudio, HasNtp
  <2>3. audio' \in {audio, client[s].conn, NoConn} /\ ntp' \in {ntp, client[s].conn, NoConn}
    BY <1>1 DEF Requests, SetupSession, SetupStream, Record, Pause, Resume, Teardown, services
  <2> QED BY <2>1, <2>2, <2>3
<1>2. CASE StopAudio(s)
  <2>1. audio' = NoConn /\ ntp' = ntp /\ client[s].pc = "stop audio" /\ Moves(s, "stop ntp")
    BY <1>2 DEF StopAudio, ClientStep, Moves
  <2> QED BY <1>0, <2>1, MovesTyped DEF ClientPc, HasAudio, HasNtp
<1>3. CASE StopNtp(s)
  <2>1. audio' = audio /\ ntp' = NoConn /\ client[s].pc = "stop ntp"
    BY <1>3 DEF StopNtp
  <2> QED BY <2>1 DEF HasAudio, HasNtp
<1>4. CASE Leave(s) \/ StartEventTask(s) \/ RestartEventTask(s)
  <2>1. /\ UNCHANGED <<audio, ntp>> /\ client[s].pc \in {"serve", "start event", "await event"}
        /\ \E pc \in {"stop audio", "await event", "serve"} : Moves(s, pc)
    BY <1>4 DEF Leave, StartEventTask, RestartEventTask, ClientStep, Moves, services
  <2> QED BY <1>0, <2>1, MovesTyped DEF ClientPc, HasAudio, HasNtp
<1>5. CASE EndSession(s) \/ StopEventTask(s) \/ EventTaskStopped(s) \/ CloseSession(s)
           \/ ReleaseSlot(s) \/ Die(s) \/ EndGrace(s)
  <2>1. /\ UNCHANGED <<audio, ntp>>
        /\ client[s].pc \in {"end session", "stop event", "event stopping", "close",
                             "release", "dying", "grace"}
    BY <1>5 DEF EndSession, StopEventTask, EventTaskStopped, CloseSession, ReleaseSlot, Die,
                EndGrace, services
  <2> QED BY <2>1 DEF HasAudio, HasNtp
<1> QED BY <1>1, <1>2, <1>3, <1>4, <1>5 DEF Acts, Cleanup

(* A service keeps its client when the client that acts does not forget it. *)
LEMMA OwnedKeeps ==
  ASSUME Types, NEW s \in Slot, Acts(s), NEW x, NEW places, Owned(x, places),
         "gone" \notin places, x # NoConn,
         client[s].conn = x /\ client[s].pc \in places => client'[s].pc \in places
  PROVE  \E t \in Slot : client'[t].conn = x /\ client'[t].pc \in places
<1>1. /\ \A t \in Slot : t # s => client'[t] = client[t]
      /\ client'[s].pc # "gone" => client'[s].conn = client[s].conn
  BY ActsEffect
<1>2. PICK t \in Slot : client[t].conn = x /\ client[t].pc \in places
  BY DEF Owned
<1>3. CASE t = s
  BY <1>1, <1>2, <1>3
<1>4. CASE t # s
  BY <1>1, <1>2, <1>4
<1> QED BY <1>3, <1>4

(* The event port task keeps its client until the client has stopped it.   *)
LEMMA ActsEvent ==
  ASSUME Inv, NEW s \in Slot, Acts(s)
  PROVE  \/ /\ event'.conn = event.conn
            /\ \/ client[s].pc \notin HasEvent
               \/ client'[s].pc \in HasEvent
               \/ event.conn # client[s].conn
         \/ event'.conn = client[s].conn /\ client'[s].pc \in HasEvent
<1>0. client \in ClientType /\ event \in EventType
  BY DEF Inv, Types
<1>1. client[s].conn # NoConn
  BY ActsEffect, RtspServerAssumption DEF Inv, Conns, Known
<1>2. CASE Requests(s)
  <2>1. event' = event /\ \E pc \in {"serve", "start event"} : Moves(s, pc)
    BY <1>2 DEF Requests, SetupSession, SetupStream, Record, Pause, Resume, Teardown,
                Request, ClientStep, Moves
  <2>2. client'[s].pc \in HasEvent
    BY <1>0, <2>1, MovesTyped DEF ClientPc, HasAudio, HasNtp, HasSession, HasEvent
  <2> QED BY <2>1, <2>2
<1>3. CASE StartEventTask(s) \/ RestartEventTask(s)
  <2>1. \E pc \in {"serve", "await event"} : Moves(s, pc)
    BY <1>3 DEF StartEventTask, RestartEventTask, ClientStep, Moves
  <2>2. client'[s].pc \in HasEvent
    BY <1>0, <2>1, MovesTyped DEF ClientPc, HasAudio, HasNtp, HasSession, HasEvent
  <2>3. event' = [event EXCEPT !.stop = TRUE] \/ event' = [conn |-> client[s].conn, stop |-> FALSE]
    BY <1>3 DEF StartEventTask, RestartEventTask
  <2>4. event'.conn \in {event.conn, client[s].conn}
    <3>1. CASE event' = [event EXCEPT !.stop = TRUE]
      BY <1>0, <3>1 DEF EventType
    <3>2. CASE event' = [conn |-> client[s].conn, stop |-> FALSE]
      BY <3>2
    <3> QED BY <2>3, <3>1, <3>2
  <2> QED BY <2>2, <2>4
<1>4. CASE Leave(s) \/ StopAudio(s) \/ StopNtp(s) \/ EndSession(s) \/ EndGrace(s)
  <2>1. /\ event' = event
        /\ \E pc \in {"stop audio", "stop ntp", "grace", "end session", "stop event"} : Moves(s, pc)
    BY <1>4 DEF Leave, StopAudio, StopNtp, EndSession, EndGrace, ClientStep, Moves
  <2>2. client'[s].pc \in HasEvent
    BY <1>0, <2>1, MovesTyped DEF ClientPc, HasAudio, HasNtp, HasSession, HasEvent
  <2> QED BY <2>1, <2>2
<1>5. CASE StopEventTask(s)
  <2>1. CASE MustStopEventTask(s) /\ EventTaskUp
    <3>1. event' = [event EXCEPT !.stop = TRUE] /\ Moves(s, "event stopping")
      BY <1>5, <2>1 DEF StopEventTask, ClientStep, Moves
    <3>2. event'.conn = event.conn
      BY <1>0, <3>1 DEF EventType
    <3>3. client'[s].pc \in HasEvent
      BY <1>0, <3>1, MovesTyped DEF ClientPc, HasEvent
    <3> QED BY <3>2, <3>3
  <2>2. CASE ~(MustStopEventTask(s) /\ EventTaskUp)
    <3>1. event' = event
      BY <1>5, <2>2 DEF StopEventTask
    <3>2. event.conn # client[s].conn
      BY <1>1, <2>2 DEF MustStopEventTask, EventTaskUp
    <3> QED BY <3>1, <3>2
  <2> QED BY <2>1, <2>2
<1>6. CASE EventTaskStopped(s)
  <2>1. event' = event /\ client[s].pc = "event stopping" /\ EventTaskLeft
    BY <1>6 DEF EventTaskStopped
  <2>2. event.conn # client[s].conn
    BY <1>1, <2>1 DEF Inv, Events, EventTaskLeft, EventTaskUp
  <2> QED BY <2>1, <2>2
<1>7. CASE CloseSession(s) \/ ReleaseSlot(s) \/ Die(s)
  BY <1>7 DEF CloseSession, ReleaseSlot, Die, HasAudio, HasNtp, HasSession, HasEvent
<1> QED BY <1>2, <1>3, <1>4, <1>5, <1>6, <1>7 DEF Acts, Cleanup

LEMMA ActsKeepOwned ==
  ASSUME Inv, ServicesOwned, NEW s \in Slot, Acts(s)
  PROVE  ServicesOwned'
<1>0. Types /\ "gone" \notin HasAudio /\ "gone" \notin HasNtp /\ "gone" \notin HasEvent
  BY DEF Inv, HasAudio, HasNtp, HasSession, HasEvent
<1>c. client'[s].pc # "gone" => client'[s].conn = client[s].conn
  BY <1>0, ActsEffect
<1>1. audio' # NoConn
        => \E t \in Slot : client'[t].conn = audio' /\ client'[t].pc \in HasAudio
  <2>1. CASE audio' = audio /\ (client[s].conn = audio /\ client[s].pc \in HasAudio
                               => client'[s].pc \in HasAudio)
    <3> SUFFICES ASSUME audio # NoConn
                 PROVE  \E t \in Slot : client'[t].conn = audio /\ client'[t].pc \in HasAudio
      BY <2>1
    <3>1. Owned(audio, HasAudio)
      BY DEF ServicesOwned
    <3> QED BY <1>0, <2>1, <3>1, OwnedKeeps
  <2>2. CASE audio' = client[s].conn /\ client'[s].pc \in HasAudio
    BY <1>0, <1>c, <2>2
  <2> QED BY <2>1, <2>2, ActsServices
<1>2. ntp' # NoConn
        => \E t \in Slot : client'[t].conn = ntp' /\ client'[t].pc \in HasNtp
  <2>1. CASE ntp' = ntp /\ (client[s].conn = ntp /\ client[s].pc \in HasNtp
                               => client'[s].pc \in HasNtp)
    <3> SUFFICES ASSUME ntp # NoConn
                 PROVE  \E t \in Slot : client'[t].conn = ntp /\ client'[t].pc \in HasNtp
      BY <2>1
    <3>1. Owned(ntp, HasNtp)
      BY DEF ServicesOwned
    <3> QED BY <1>0, <2>1, <3>1, OwnedKeeps
  <2>2. CASE ntp' = client[s].conn /\ client'[s].pc \in HasNtp
    BY <1>0, <1>c, <2>2
  <2> QED BY <2>1, <2>2, ActsServices
<1>3. event'.conn # NoConn
        => \E t \in Slot : client'[t].conn = event'.conn /\ client'[t].pc \in HasEvent
  <2>1. CASE event'.conn = event.conn /\ (client[s].conn = event.conn /\ client[s].pc \in HasEvent
                               => client'[s].pc \in HasEvent)
    <3> SUFFICES ASSUME event.conn # NoConn
                 PROVE  \E t \in Slot : client'[t].conn = event.conn /\ client'[t].pc \in HasEvent
      BY <2>1
    <3>1. Owned(event.conn, HasEvent)
      BY DEF ServicesOwned
    <3> QED BY <1>0, <2>1, <3>1, OwnedKeeps
  <2>2. CASE event'.conn = client[s].conn /\ client'[s].pc \in HasEvent
    BY <1>0, <1>c, <2>2
  <2> QED BY <2>1, <2>2, ActsEvent
<1> QED BY <1>1, <1>2, <1>3 DEF ServicesOwned, Owned, HasAudio, HasNtp, HasSession, HasEvent

(* A client task that stops serving closes its connection; it never marks  *)
(* itself as replaced, nor takes back the order to stop before that mark.  *)
LEMMA ActsKeepReplaced ==
  ASSUME Inv, Replaced, NEW s \in Slot, Acts(s)
  PROVE  Replaced'
<1>0. client \in ClientType /\ slot \in SlotType /\ peer \in PeerType /\ Types
  BY DEF Inv, Types
<1>1. /\ \A t \in Slot : t # s => client'[t] = client[t] /\ slot'[t] = slot[t]
      /\ client[s].pc # "gone" /\ UNCHANGED <<server, current>>
      /\ client'[s].pc # "gone" => client'[s].conn = client[s].conn
      /\ \A c \in Conn : peer'[c] = "open" => peer[c] = "open"
      /\ Live(s)' => Live(s)
  BY <1>0, ActsEffect
<1>2. Serving(s) => Serving(s)' \/ peer'[client[s].conn] = "closed"
  <2>1. CASE Requests(s) \/ StartEventTask(s) \/ RestartEventTask(s)
    <3>1. \E pc \in {"serve", "start event", "await event"} : Moves(s, pc)
      BY <2>1 DEF Requests, SetupSession, SetupStream, Record, Pause, Resume, Teardown,
                  Request, StartEventTask, RestartEventTask, ClientStep, Moves
    <3> QED BY <1>0, <3>1, MovesTyped DEF ClientPc, Serving
  <2>2. CASE Leave(s)
    <3>1. client[s].conn \in Conn
      BY <1>1 DEF Inv, Conns, Known
    <3> QED BY <1>0, <2>2, <3>1 DEF Leave, PeerType
  <2>3. CASE StopAudio(s) \/ StopNtp(s) \/ EndSession(s) \/ StopEventTask(s)
             \/ EventTaskStopped(s) \/ CloseSession(s) \/ ReleaseSlot(s) \/ Die(s) \/ EndGrace(s)
    BY <2>3 DEF StopAudio, StopNtp, EndSession, StopEventTask, EventTaskStopped, CloseSession,
                ReleaseSlot, Die, EndGrace, Serving
  <2> QED BY <2>1, <2>2, <2>3 DEF Acts, Cleanup
<1>3. /\ slot'[s].old => slot[s].old
      /\ slot'[s].old => slot'[s].stop
  <2>1. \/ slot' = slot \/ slot' = [slot EXCEPT ![s].task = FALSE]
        \/ slot' = [slot EXCEPT ![s].stop = FALSE, ![s].old = FALSE]
    BY <1>0, ActsMoves
  <2> QED BY <1>0, <2>1 DEF SlotType, Replaced
<1>4. \A t \in Slot : client'[t].pc # "gone" /\ peer'[client'[t].conn] = "open" => Serving(t)'
  <2> SUFFICES ASSUME NEW t \in Slot, client'[t].pc # "gone", peer'[client'[t].conn] = "open"
               PROVE  Serving(t)'
    OBVIOUS
  <2>1. client[t].pc # "gone" /\ client'[t].conn = client[t].conn
    BY <1>1
  <2>2. client[t].conn \in Conn
    BY <2>1 DEF Inv, Conns, Known
  <2>3. Serving(t)
    BY <1>1, <2>1, <2>2 DEF Replaced
  <2>4. CASE t = s
    BY <1>2, <2>1, <2>3, <2>4
  <2>5. CASE t # s
    BY <1>1, <2>3, <2>5 DEF Serving
  <2> QED BY <2>4, <2>5
<1>5. \A t \in Slot : slot'[t].old => slot'[t].stop
  BY <1>1, <1>3 DEF Replaced
<1>6. \A t \in Slot : slot'[t].old /\ Live(t)' => slot[t].old /\ Live(t)
  BY <1>1, <1>3 DEF Live
<1>7. NewSlot' = NewSlot /\ NewSlot \in Slot
  BY <1>1, NewSlotIsOther DEF NewSlot, Inv, Types
<1>8. server'.pc = "store" => ~slot'[NewSlot'].old
  BY <1>1, <1>3, <1>7 DEF Replaced
<1> QED BY <1>1, <1>4, <1>5, <1>6, <1>8 DEF Replaced

(* The steps of a client task, by what they do to the DACP session and the *)
(* listeners: end the session; go where it is ended later; leave that to   *)
(* another client; or neither, past that place.                            *)
LEMMA ActsSession ==
  ASSUME Inv, Replaced, NEW s \in Slot, Acts(s)
  PROVE  \/ dacp' = NoConn /\ told' = "disconnected"
         \/ /\ client'[s].pc \in HasSession
            /\ client'[s].pc = "grace" => ~slot'[s].old
         \/ /\ UNCHANGED <<dacp, told, slot>> /\ client'[s].pc = "stop event"
            /\ client[s].pc = "grace" /\ slot[s].old
         \/ /\ UNCHANGED <<dacp, told>>
            /\ client[s].pc \notin HasSession /\ client'[s].pc \notin HasSession
<1>0. client \in ClientType
  BY DEF Inv, Types
<1>1. CASE Requests(s) \/ StartEventTask(s) \/ RestartEventTask(s) \/ Leave(s) \/ StopAudio(s)
  <2>1. \E pc \in {"serve", "start event", "await event", "stop audio", "stop ntp"} : Moves(s, pc)
    BY <1>1 DEF Requests, SetupSession, SetupStream, Record, Pause, Resume, Teardown, Request,
                StartEventTask, RestartEventTask, Leave, StopAudio, ClientStep, Moves
  <2> QED BY <1>0, <2>1, MovesTyped DEF ClientPc, HasAudio, HasNtp, HasSession
<1>2. CASE StopNtp(s)
  <2>1. /\ slot' = slot
        /\ \E pc \in {"grace", "end session"} :
             Moves(s, pc) /\ (pc = "grace" => ~slot[s].stop)
    BY <1>2 DEF StopNtp, ClientStep, Moves
  <2>2. PICK pc \in {"grace", "end session"} : Moves(s, pc) /\ (pc = "grace" => ~slot[s].stop)
    BY <2>1
  <2>3. client'[s].pc = pc
    BY <1>0, <2>2, MovesTyped DEF ClientPc
  <2>4. slot[s].old => slot[s].stop
    BY DEF Replaced
  <2> QED BY <2>1, <2>2, <2>3, <2>4 DEF HasSession
<1>3. CASE EndGrace(s)
  <2>1. UNCHANGED <<dacp, told, slot>> /\ client[s].pc = "grace"
    BY <1>3 DEF EndGrace, services
  <2>2. CASE slot[s].old
    <3>1. Moves(s, "stop event")
      BY <1>3, <2>2 DEF EndGrace, ClientStep, Moves
    <3>2. client'[s].pc = "stop event"
      BY <1>0, <3>1, MovesTyped DEF ClientPc
    <3> QED BY <2>1, <2>2, <3>2
  <2>3. CASE ~slot[s].old
    <3>1. Moves(s, "end session")
      BY <1>3, <2>3 DEF EndGrace, ClientStep, Moves
    <3>2. client'[s].pc = "end session"
      BY <1>0, <3>1, MovesTyped DEF ClientPc
    <3> QED BY <3>2 DEF HasSession
  <2> QED BY <2>2, <2>3
<1>4. CASE EndSession(s)
  BY <1>4 DEF EndSession
<1>5. CASE StopEventTask(s) \/ EventTaskStopped(s) \/ CloseSession(s) \/ ReleaseSlot(s)
  <2>1. /\ UNCHANGED <<dacp, told>>
        /\ client[s].pc \in {"stop event", "event stopping", "close", "release"}
        /\ \E pc \in {"event stopping", "close", "release", "dying"} : Moves(s, pc)
    BY <1>5 DEF StopEventTask, EventTaskStopped, CloseSession, ReleaseSlot, ClientStep, Moves,
                services
  <2>2. client'[s].pc \in {"event stopping", "close", "release", "dying"}
    BY <1>0, <2>1, MovesTyped DEF ClientPc
  <2> QED BY <2>1, <2>2 DEF HasAudio, HasNtp, HasSession
<1>6. CASE Die(s)
  <2>1. UNCHANGED <<dacp, told>> /\ client[s].pc = "dying" /\ client'[s].pc = "gone"
    BY <1>0, <1>6 DEF Die, services, ClientType
  <2> QED BY <2>1 DEF HasAudio, HasNtp, HasSession
<1> QED BY <1>1, <1>2, <1>3, <1>4, <1>5, <1>6 DEF Acts, Cleanup

LEMMA ActsKeepSession ==
  ASSUME Inv, Replaced, SessionEnds, NEW s \in Slot, Acts(s)
  PROVE  SessionEnds'
<1>0. /\ \A t \in Slot : t # s => client'[t] = client[t] /\ slot'[t] = slot[t]
      /\ UNCHANGED <<server, current>>
  BY ActsEffect DEF Inv
<1> USE DEF Loud
<1>1. CASE dacp' = NoConn /\ told' = "disconnected"
  BY <1>1 DEF SessionEnds
<1>2. CASE /\ client'[s].pc \in HasSession
           /\ client'[s].pc = "grace" => ~slot'[s].old
  <2>1. \E t \in Slot : client'[t].pc \in HasSession
    BY <1>2
  <2>2. \A t \in Slot : client'[t].pc = "grace" /\ slot'[t].old => t # s
    BY <1>2
  <2> QED BY <1>2, <2>1, <2>2 DEF SessionEnds, HasSession, HasNtp, HasAudio
<1>3. CASE /\ UNCHANGED <<dacp, told, slot>> /\ client'[s].pc = "stop event"
           /\ client[s].pc = "grace" /\ slot[s].old
  <2> SUFFICES ASSUME Loud'
               PROVE  /\ server'.pc = "create" \/ \E t \in Slot : client'[t].pc \in HasSession
                      /\ \A t \in Slot : client'[t].pc = "grace" /\ slot'[t].old
                           => server'.pc = "create"
    BY DEF SessionEnds, HasSession, HasNtp, HasAudio
  <2>1. server.pc = "create" \/ \E t \in Slot : t # s /\ client[t].pc \in HasSession
    BY <1>3 DEF SessionEnds
  <2>2. server'.pc = "create" \/ \E t \in Slot : client'[t].pc \in HasSession
    BY <1>0, <2>1
  <2>3. ASSUME NEW t \in Slot, client'[t].pc = "grace", slot'[t].old
        PROVE  server'.pc = "create"
    <3>1. t # s /\ client[t].pc = "grace" /\ slot[t].old
      BY <1>0, <1>3, <2>3
    <3>2. Live(s) /\ Live(t) /\ slot[s].old
      BY <1>3, <3>1 DEF Live
    <3>3. s = NewSlot \/ t = NewSlot
      BY <3>1, NewSlotIsOther DEF Inv, Types
    <3>4. s = current \/ t = current
      BY <3>1, NewSlotIsOther DEF Inv, Types
    <3> QED BY <1>0, <3>1, <3>2, <3>3, <3>4 DEF Replaced
  <2> QED BY <2>2, <2>3
<1>4. CASE /\ UNCHANGED <<dacp, told>>
           /\ client[s].pc \notin HasSession /\ client'[s].pc \notin HasSession
  <2> SUFFICES ASSUME Loud'
               PROVE  /\ server'.pc = "create" \/ \E t \in Slot : client'[t].pc \in HasSession
                      /\ \A t \in Slot : client'[t].pc = "grace" /\ slot'[t].old
                           => server'.pc = "create"
                              \/ \E u \in Slot : u # t /\ client'[u].pc \in HasSession
    BY DEF SessionEnds, HasSession, HasNtp, HasAudio
  <2>1. /\ server.pc = "create" \/ \E t \in Slot : client[t].pc \in HasSession
        /\ \A t \in Slot : client[t].pc = "grace" /\ slot[t].old
             => server.pc = "create" \/ \E u \in Slot : u # t /\ client[u].pc \in HasSession
    BY <1>4 DEF SessionEnds
  <2>2. server'.pc = "create" \/ \E t \in Slot : client'[t].pc \in HasSession
    BY <1>0, <1>4, <2>1
  <2>3. ASSUME NEW t \in Slot, client'[t].pc = "grace", slot'[t].old
        PROVE  server'.pc = "create" \/ \E u \in Slot : u # t /\ client'[u].pc \in HasSession
    <3>1. t # s
      BY <1>4, <2>3 DEF HasSession
    <3>2. server.pc = "create" \/ \E u \in Slot : u # t /\ client[u].pc \in HasSession
      BY <1>0, <2>1, <2>3, <3>1
    <3> QED BY <1>0, <1>4, <3>2
  <2> QED BY <2>2, <2>3
<1> QED BY <1>1, <1>2, <1>3, <1>4, ActsSession

(* What the clients that are there leave behind, and to whom.              *)
Left == ServicesOwned /\ Replaced /\ SessionEnds

(* A connection is opened for no client that is there, and a client that   *)
(* is marked as replaced is told to stop with it.                          *)
LEMMA ServerKeepsLeft ==
  ASSUME Inv, Left, Server
  PROVE  Left'
<1> USE DEF Inv, Types
<1>0. /\ client \in ClientType /\ slot \in SlotType /\ peer \in PeerType
      /\ NewSlot \in Slot /\ NewSlot # current /\ current \in Slot
      /\ \A s \in Slot : s = current \/ s = NewSlot
  BY NewSlotIsOther
<1>1. UNCHANGED <<audio, ntp, dacp, told, event, build, session>>
  BY DEF Server, Accept, WaitForSlot, Refuse, SignalOldClientStop, CreateClient, StoreHandle,
         StopClients, ServerStep, services
<1>2. Loud' <=> Loud
  BY <1>1 DEF Loud
<1>a. \A s \in Slot : client[s].pc # "gone" => Known(client[s].conn)
  BY DEF Conns
<1>3. CASE CreateClient
  <2>1. /\ client'[NewSlot].pc = "serve" /\ client'[NewSlot].conn = server.conn
        /\ \A s \in Slot : s # NewSlot => client'[s] = client[s] /\ slot'[s] = slot[s]
        /\ ~slot'[NewSlot].stop /\ ~slot'[NewSlot].old
        /\ server.pc = "create" /\ server'.pc = "store" /\ UNCHANGED <<peer, current>>
    BY <1>0, <1>3 DEF CreateClient, ServerStep, ClientType, SlotType
  <2>2. client[NewSlot].pc \in {"gone", "dying"}
    BY <1>0, <2>1 DEF Slots, Live
  <2>3. ASSUME NEW x, NEW places, Owned(x, places), places \subseteq HasEvent
        PROVE  x # NoConn => \E s \in Slot : client'[s].conn = x /\ client'[s].pc \in places
    BY <2>1, <2>2, <2>3 DEF Owned, HasEvent, HasSession, HasNtp, HasAudio
  <2>4. HasAudio \subseteq HasEvent /\ HasNtp \subseteq HasEvent
    BY DEF HasEvent, HasSession, HasNtp
  <2>5. /\ audio # NoConn => \E s \in Slot : client'[s].conn = audio /\ client'[s].pc \in HasAudio
        /\ ntp # NoConn => \E s \in Slot : client'[s].conn = ntp /\ client'[s].pc \in HasNtp
        /\ event.conn # NoConn
             => \E s \in Slot : client'[s].conn = event.conn /\ client'[s].pc \in HasEvent
    BY <2>3, <2>4 DEF Left, ServicesOwned
  <2>6. ServicesOwned'
    BY <1>1, <2>5 DEF ServicesOwned, Owned, HasEvent, HasSession, HasNtp, HasAudio
  <2>7. NewSlot' = NewSlot
    BY <2>1 DEF NewSlot
  <2>8. Replaced'
    BY <1>0, <2>1, <2>7 DEF Left, Replaced, Serving, Live
  <2>9. SessionEnds'
    BY <1>0, <2>1 DEF SessionEnds, HasSession, HasNtp, HasAudio
  <2> QED BY <2>6, <2>8, <2>9 DEF Left
<1>4. CASE ~CreateClient
  <2>1. client' = client
    BY <1>4 DEF Server, Accept, WaitForSlot, Refuse, SignalOldClientStop, StoreHandle,
                StopClients
  <2>2. ServicesOwned'
    BY <1>1, <2>1 DEF Left, ServicesOwned, Owned, HasEvent, HasSession, HasNtp, HasAudio
  <2>3. \A s \in Slot : client[s].pc # "gone" /\ peer'[client[s].conn] = "open"
                         => peer[client[s].conn] = "open"
    <3>1. CASE Accept
      <4>1. PICK c \in Conn : peer[c] = "backlog" /\ peer' = [peer EXCEPT ![c] = "open"]
        BY <3>1 DEF Accept
      <4> QED BY <1>0, <1>a, <4>1 DEF Known, PeerType
    <3>2. CASE Refuse
      BY <1>0, <1>a, <3>2 DEF Refuse, Known, PeerType
    <3>3. CASE WaitForSlot \/ SignalOldClientStop \/ StoreHandle \/ StopClients
      BY <3>3 DEF WaitForSlot, SignalOldClientStop, StoreHandle, StopClients
    <3> QED BY <1>4, <3>1, <3>2, <3>3 DEF Server
  <2>4. \A s \in Slot : client'[s].pc # "gone" /\ peer'[client'[s].conn] = "open" => Serving(s)'
    BY <2>1, <2>3 DEF Left, Replaced, Serving
  <2>5. CASE SignalOldClientStop
    <3>1. server'.pc = "create" /\ current' = current
      BY <2>5 DEF SignalOldClientStop, ServerStep
    <3>2. \A s \in Slot : slot'[s].old => slot'[s].stop
      BY <1>0, <2>5 DEF SignalOldClientStop, SlotType, Left, Replaced
    <3>3. Replaced'
      BY <2>4, <3>1, <3>2 DEF Replaced
    <3>4. SessionEnds'
      BY <3>1 DEF SessionEnds
    <3> QED BY <2>2, <3>3, <3>4 DEF Left
  <2>6. CASE ~SignalOldClientStop
    <3>1. \A s \in Slot : /\ slot'[s].old = slot[s].old
                          /\ slot[s].stop => slot'[s].stop
      <4>1. CASE Accept
        <5>1. slot' = slot \/ slot' = [slot EXCEPT ![NewSlot].stop = TRUE]
          BY <4>1 DEF Accept
        <5> QED BY <1>0, <5>1 DEF SlotType
      <4>2. CASE WaitForSlot \/ Refuse
        BY <4>2 DEF WaitForSlot, Refuse
      <4>3. CASE StoreHandle
        BY <1>0, <4>3 DEF StoreHandle, SlotType
      <4>4. CASE StopClients
        BY <1>0, <4>4 DEF StopClients, SlotType
      <4> QED BY <1>4, <2>6, <4>1, <4>2, <4>3, <4>4 DEF Server
    <3>2. \/ server.pc = "store" /\ server'.pc = "accept" /\ current' = NewSlot
          \/ /\ server.pc \notin {"create", "store"} /\ server'.pc \notin {"create", "store"}
             /\ current' = current
      BY <1>4, <2>6 DEF Server, Accept, WaitForSlot, Refuse, StoreHandle, StopClients, ServerStep
    <3>3. \A s \in Slot : slot'[s].old => slot'[s].stop
      BY <3>1 DEF Left, Replaced
    <3>4. \A s \in Slot : slot'[s].old /\ Live(s)'
                           => s # current' \/ server'.pc \in {"create", "store"}
      BY <1>0, <2>1, <3>1, <3>2 DEF Left, Replaced, Live
    <3>5. Replaced'
      BY <2>4, <3>2, <3>3, <3>4 DEF Replaced
    <3>6. server.pc # "create"
      BY <3>2
    <3>7. SessionEnds'
      BY <1>2, <2>1, <3>1, <3>6 DEF Left, SessionEnds, HasSession, HasNtp, HasAudio
    <3> QED BY <2>2, <3>5, <3>7 DEF Left
  <2> QED BY <2>5, <2>6
<1> QED BY <1>3, <1>4

(* A sender that connects to the event port has its client serving it.     *)
LEMMA LeftKeeps == Inv /\ Left /\ [Next]_vars => Left'
<1> SUFFICES ASSUME Inv, Left, [Next]_vars PROVE Left'
  OBVIOUS
<1> USE DEF Left
<1>1. ASSUME NEW s \in Slot, Acts(s) PROVE Left'
  BY <1>1, ActsKeepOwned, ActsKeepReplaced, ActsKeepSession
<1>2. CASE Server
  BY <1>2, ServerKeepsLeft
<1>3. CASE StopServer \/ (\E c \in Conn : Connect(c) \/ HangUp(c)) \/ UNCHANGED vars
  <2>1. UNCHANGED <<client, slot, server, current, event, audio, ntp, dacp, told>>
    BY <1>3 DEF StopServer, Connect, HangUp, services, vars
  <2>2. \A c \in Conn : peer'[c] = "open" => peer[c] = "open"
    BY <1>3 DEF StopServer, Connect, HangUp, vars, Inv, Types, PeerType
  <2>3. \A s \in Slot : client[s].pc # "gone" => client[s].conn \in Conn
    BY DEF Inv, Conns, Known
  <2>4. Replaced'
    BY <2>1, <2>2, <2>3 DEF Replaced, Serving, Live, NewSlot
  <2>5. ServicesOwned'
    BY <2>1 DEF ServicesOwned, Owned, HasEvent, HasSession, HasNtp, HasAudio
  <2>6. SessionEnds'
    BY <2>1 DEF SessionEnds, Loud, HasSession, HasNtp, HasAudio
  <2> QED BY <2>4, <2>5, <2>6
<1>4. CASE EventTaskExits
  <2>1. UNCHANGED <<client, slot, server, current, peer, audio, ntp, dacp, told>>
        /\ event' = [event EXCEPT !.conn = NoConn]
    BY <1>4 DEF EventTaskExits, services
  <2>2. event'.conn = NoConn
    BY <2>1 DEF Inv, Types, EventType
  <2> QED BY <2>1, <2>2 DEF ServicesOwned, Owned, Replaced, Serving, Live, NewSlot, SessionEnds,
                            Loud, HasEvent, HasSession, HasNtp, HasAudio
<1>5. CASE EventClientConnects
  <2>1. /\ UNCHANGED <<client, slot, server, current, peer, event, audio, ntp, dacp>>
        /\ event.conn # NoConn /\ peer[event.conn] = "open"
    BY <1>5 DEF EventClientConnects, EventTaskUp
  <2>2. PICK s \in Slot : client[s].conn = event.conn /\ client[s].pc \in HasEvent
    BY <2>1 DEF ServicesOwned, Owned
  <2>3. Serving(s)
    BY <2>1, <2>2 DEF Replaced, HasEvent, HasSession, HasNtp, HasAudio
  <2>4. client'[s].pc \in HasSession /\ client'[s].pc # "grace"
    BY <2>1, <2>3 DEF Serving, HasSession, HasNtp, HasAudio
  <2>5. /\ \E t \in Slot : client'[t].pc \in HasSession
        /\ \A t \in Slot : client'[t].pc = "grace"
             => \E u \in Slot : u # t /\ client'[u].pc \in HasSession
    BY <2>4
  <2>6. SessionEnds'
    BY <2>5 DEF SessionEnds, HasSession, HasNtp, HasAudio
  <2> QED BY <2>1, <2>6 DEF ServicesOwned, Owned, Replaced, Serving, Live, NewSlot,
                            HasEvent, HasSession, HasNtp, HasAudio
<1> QED BY <1>1, <1>2, <1>3, <1>4, <1>5 DEF Next, Acts

(* Every variable of the server keeps its type: no slot, connection or     *)
(* event but the ones the code knows.                                      *)
THEOREM Typed == Spec => []TypeOK
<1>1. Init => ServiceTypes
  BY DEF Init, ServiceTypes, ConnOrNone
<1>2. Inv /\ ServiceTypes => TypeOK
  BY DEF Inv, TypeOK
<1> QED BY <1>1, <1>2, InitInv, Inductive, ServicesKeep, PTL DEF Spec

(* A new client is created only after the one before it has been told to   *)
(* leave: server_task, however its clients and the senders move.           *)
THEOREM OneServes == Spec => []OneClientServes
<1>1. Inv => OneClientServes
  BY DEF Inv, Slots, Serving, OneClientServes
<1> QED BY <1>1, InitInv, Inductive, PTL DEF Spec

(* The event port task works on an open socket, for any number of senders  *)
(* that replace each other in the middle of anything.                      *)
THEOREM EventSocketStaysOpen == Spec => []EventSocketOpen
<1>1. Inv => EventSocketOpen
  BY DEF Inv, Events, EventSocketOpen
<1> QED BY <1>1, InitInv, Inductive, PTL DEF Spec

(* Static task memory is reused only when its task is gone, provided that  *)
(* nothing holds a client task up between the release of its slot and its  *)
(* end: client_task and server_task.                                       *)
THEOREM MemoryIsFree ==
  ASSUME ~Preemption
  PROVE  Spec => TaskMemoryIsFree
<1>1. Inv /\ [Next]_vars => [CreateClient => client[NewSlot].pc = "gone"]_vars
  <2> SUFFICES ASSUME Inv, CreateClient PROVE client[NewSlot].pc = "gone"
    OBVIOUS
  <2>1. server.pc = "create" /\ \A s \in Slot : client[s].pc # "dying"
    BY DEF CreateClient, ServerStep, Settled
  <2>2. NewSlot \in Slot
    BY NewSlotIsOther DEF Inv, Types
  <2> QED BY <2>1, <2>2 DEF Inv, Slots, Live
<1> QED BY <1>1, InitInv, Inductive, PTL DEF Spec, TaskMemoryIsFree

(* When the last client is gone nothing is left on, whatever order the     *)
(* clients, the server and the event port task take their steps in, and    *)
(* however many senders replace each other: each service that runs has a   *)
(* client that will stop it, and a DACP session or a listener that was     *)
(* told of one has a client that will end it.                              *)
THEOREM AllQuiet == Spec => []QuietWhenAlone
<1>1. Init => Left
  <2> SUFFICES ASSUME Init PROVE Left
    OBVIOUS
  <2>1. \A s \in Slot : client[s].pc = "gone" /\ ~slot[s].old
    BY DEF Init
  <2>2. server.pc = "accept" /\ event.conn = NoConn
    BY DEF Init
  <2>3. ServicesOwned
    BY <2>2 DEF Init, ServicesOwned, Owned
  <2>4. Replaced
    BY <2>1, <2>2 DEF Replaced
  <2>5. SessionEnds
    BY DEF Init, SessionEnds, Loud
  <2> QED BY <2>3, <2>4, <2>5 DEF Left
<1>2. Left => QuietWhenAlone
  <2> SUFFICES ASSUME Left, Tasks = {}, server.pc \in {"accept", "gone"}
               PROVE  /\ audio = NoConn /\ ntp = NoConn /\ dacp = NoConn /\ event.conn = NoConn
                      /\ told \in {"none", "disconnected"}
    BY DEF QuietWhenAlone, EventTaskUp
  <2>1. \A s \in Slot : client[s].pc = "gone"
    BY DEF Tasks
  <2>2. audio = NoConn /\ ntp = NoConn /\ event.conn = NoConn
    BY <2>1 DEF Left, ServicesOwned, Owned, HasEvent, HasSession, HasNtp, HasAudio
  <2>3. ~Loud
    BY <2>1 DEF Left, SessionEnds, HasSession, HasNtp, HasAudio
  <2> QED BY <2>2, <2>3 DEF Loud
<1> QED BY <1>1, <1>2, InitInv, Inductive, LeftKeeps, PTL DEF Spec
=============================================================================
