---------------------------- MODULE RtspServer ----------------------------
(***************************************************************************)
(* One AirPlay session replaces another: main/rtsp/rtsp_server.c with the  *)
(* event port task and the session handlers of rtsp_handlers.c.            *)
(*                                                                         *)
(* The server task accepts one sender after the other and gives each a     *)
(* client task in one of two slots with static task memory.  A new sender  *)
(* evicts the one before it: the old client task cleans up behind itself   *)
(* while the new one already serves requests, and both act on services     *)
(* there is only one of: the audio receiver, the NTP client, the DACP      *)
(* session, the event port task and the listeners of RTSP events.          *)
(*                                                                         *)
(* A service is represented by the connection it works for.  A call of a   *)
(* service is one step; a call that waits for a task has a step for the    *)
(* order to stop and one for the end of the wait.                          *)
(***************************************************************************)
EXTENDS Naturals, FiniteSets

CONSTANTS
  Conn,        \* connections the senders make
  NoConn,      \* no connection
  Builds,      \* builds to consider: "v1" is CONFIG_AIRPLAY_FORCE_V1
  MaxRequests, \* requests made on each connection, at most
  Preemption   \* whether a task can be held up between two adjacent writes

ASSUME RtspServerAssumption ==
  /\ IsFiniteSet(Conn) /\ NoConn \notin Conn
  /\ Builds \subseteq {"v1", "v2"}
  /\ MaxRequests \in [Conn -> Nat]
  /\ Preemption \in BOOLEAN

Slot == {0, 1}

VARIABLES
  build,     \* the build that runs: it never changes
  peer,      \* how far each connection is
  running,   \* server_running
  server,    \* where server_task stands, with which connection
  current,   \* current_slot
  client,    \* the two client tasks: where they stand, and their connections
  slot,      \* client_slot_t: task (is there a handle), stop, old
  session,   \* rtsp_conn_t: event socket, stream_paused, and requests made
  audio,     \* connection the audio receiver streams for
  ntp,       \* connection the NTP client asks
  dacp,      \* connection of the DACP session
  event,     \* event port task: connection of its socket, and its stop flag
  told       \* the last RTSP event emitted

services == <<audio, ntp, dacp, told>>
vars == <<build, peer, running, server, current, client, slot, session,
          services, event>>

Tasks == {s \in Slot : client[s].pc # "gone"}

-----------------------------------------------------------------------------
Init ==
  /\ build \in Builds
  /\ peer = [c \in Conn |-> "away"]
  /\ running = TRUE
  /\ server = [pc |-> "accept", conn |-> NoConn]
  /\ current = 0
  /\ client = [s \in Slot |-> [pc |-> "gone", conn |-> NoConn]]
  /\ slot = [s \in Slot |-> [task |-> FALSE, stop |-> FALSE, old |-> FALSE]]
  /\ session = [c \in Conn |-> [port |-> FALSE, socket |-> FALSE,
                                paused |-> FALSE, requests |-> 0]]
  /\ audio = NoConn /\ ntp = NoConn /\ dacp = NoConn
  /\ event = [conn |-> NoConn, stop |-> FALSE]
  /\ told = "none"

-----------------------------------------------------------------------------
(* The senders.                                                            *)

Connect(c) ==
  /\ peer[c] = "away" /\ running
  /\ peer' = [peer EXCEPT ![c] = "backlog"]
  /\ UNCHANGED <<build, running, server, current, client, slot, session, services, event>>

HangUp(c) ==
  /\ peer[c] = "open"
  /\ peer' = [peer EXCEPT ![c] = "closed"]
  /\ UNCHANGED <<build, running, server, current, client, slot, session, services, event>>

-----------------------------------------------------------------------------
(* server_task and rtsp_server_stop.                                       *)

(* Nothing holds a task up between the release of its slot and its end.    *)
Settled == Preemption \/ \A s \in Slot : client[s].pc # "dying"

ServerStep(pc, c) ==
  /\ Settled
  /\ server' = [pc |-> pc, conn |-> c]
  /\ UNCHANGED <<build, session, services, event>>

NewSlot == 1 - current

(* A slot whose task is still there is told to stop, and waited for.       *)
Accept ==
  /\ server.pc = "accept"
  /\ \E c \in Conn :
       /\ peer[c] = "backlog"
       /\ peer' = [peer EXCEPT ![c] = "open"]
       /\ IF slot[NewSlot].task
          THEN /\ ServerStep("wait", c)
               /\ slot' = [slot EXCEPT ![NewSlot].stop = TRUE]
          ELSE ServerStep("signal", c) /\ UNCHANGED slot
  /\ UNCHANGED <<running, current, client>>

WaitForSlot ==
  /\ server.pc = "wait" /\ ~slot[NewSlot].task
  /\ ServerStep("signal", server.conn)
  /\ UNCHANGED <<peer, running, current, client, slot>>

(* Variants: the server gives the slot away all the same; the refused      *)
(* sender's socket is forgotten.                                           *)
ReuseAnyway ==
  /\ server.pc = "wait" /\ slot[NewSlot].task
  /\ ServerStep("signal", server.conn)
  /\ UNCHANGED <<peer, running, current, client, slot>>

RefuseWithoutClosing ==
  /\ server.pc = "wait" /\ slot[NewSlot].task
  /\ ServerStep("accept", NoConn)
  /\ UNCHANGED <<peer, running, current, client, slot>>

(* Three seconds later the task is still there: the sender is refused.     *)
Refuse ==
  /\ server.pc = "wait" /\ slot[NewSlot].task
  /\ peer' = [peer EXCEPT ![server.conn] = "closed"]
  /\ ServerStep("accept", NoConn)
  /\ UNCHANGED <<running, current, client, slot>>

(* Variant: the old client is marked but not told to stop.                 *)
MarkOldClient ==
  /\ server.pc = "signal"
  /\ slot' = [slot EXCEPT ![current].old = slot[current].task]
  /\ ServerStep("create", server.conn)
  /\ UNCHANGED <<peer, running, current, client>>

SignalOldClientStop ==
  /\ server.pc = "signal"
  /\ slot' = IF slot[current].task
             THEN [slot EXCEPT ![current].old = TRUE, ![current].stop = TRUE]
             ELSE slot
  /\ ServerStep("create", server.conn)
  /\ UNCHANGED <<peer, running, current, client>>

(* The slot's flags are cleared and its task is created.                   *)
CreateClient ==
  /\ server.pc = "create"
  /\ slot' = [slot EXCEPT ![NewSlot].stop = FALSE, ![NewSlot].old = FALSE]
  /\ client' = [client EXCEPT ![NewSlot] = [pc |-> "serve", conn |-> server.conn]]
  /\ ServerStep("store", server.conn)
  /\ UNCHANGED <<peer, running, current>>

(* xTaskCreateStatic has returned: the handle is stored.                   *)
StoreHandle ==
  /\ server.pc = "store"
  /\ slot' = [slot EXCEPT ![NewSlot].task = TRUE]
  /\ current' = NewSlot
  /\ ServerStep("accept", NoConn)
  /\ UNCHANGED <<peer, running, client>>

(* rtsp_server_stop closes the listening socket.                           *)
StopServer ==
  /\ running
  /\ running' = FALSE
  /\ peer' = [c \in Conn |-> IF peer[c] = "backlog" THEN "closed" ELSE peer[c]]
  /\ UNCHANGED <<build, server, current, client, slot, session, services, event>>

StopClients ==
  /\ server.pc = "accept" /\ ~running
  /\ slot' = [s \in Slot |-> [slot[s] EXCEPT !.stop = @ \/ slot[s].task]]
  /\ ServerStep("gone", NoConn)
  /\ UNCHANGED <<peer, running, current, client>>

Server == \/ Accept \/ WaitForSlot \/ Refuse \/ SignalOldClientStop
          \/ CreateClient \/ StoreHandle \/ StopClients

-----------------------------------------------------------------------------
(* The event port task.                                                    *)

EventTaskUp == event.conn # NoConn

(* The sender connects to the event port while its session lasts.          *)
EventClientConnects ==
  /\ EventTaskUp /\ ~event.stop
  /\ peer[event.conn] = "open"
  /\ told' = "connected"
  /\ UNCHANGED <<build, peer, running, server, current, client, slot, session,
                 audio, ntp, dacp, event>>

EventTaskExits ==
  /\ EventTaskUp /\ event.stop
  /\ event' = [event EXCEPT !.conn = NoConn]
  /\ UNCHANGED <<build, peer, running, server, current, client, slot, session, services>>

-----------------------------------------------------------------------------
(* A client task serves requests.                                          *)

ClientStep(s, pc) ==
  /\ client' = [client EXCEPT ![s].pc = pc]
  /\ UNCHANGED <<build, peer, running, server, current>>

(* A request is dispatched; it refreshes the DACP session.                 *)
Request(s, pc) ==
  LET c == client[s].conn
  IN  /\ client[s].pc = "serve"
      /\ running /\ ~slot[s].stop /\ peer[c] = "open"
      /\ session[c].requests < MaxRequests[c]
      /\ ClientStep(s, pc)
      /\ UNCHANGED slot

Session(c, paused) ==
  session' = [session EXCEPT ![c].requests = @ + 1, ![c].paused = paused]

(* SETUP without streams: the event socket, in AirPlay 1 the NTP client.   *)
SetupSession(s) ==
  LET c == client[s].conn
  IN  /\ Request(s, IF session[c].port THEN "serve" ELSE "start event")
      /\ session' = [session EXCEPT ![c].requests = @ + 1, ![c].port = TRUE,
                                    ![c].socket = @ \/ ~session[c].port]
      /\ dacp' = c
      /\ ntp' = IF build = "v1" THEN c ELSE ntp
      /\ UNCHANGED <<audio, told, event>>

(* rtsp_start_event_port_task stops a task that is there, waits, and       *)
(* starts another.                                                         *)
StartEventTask(s) ==
  /\ client[s].pc = "start event"
  /\ IF EventTaskUp
     THEN event' = [event EXCEPT !.stop = TRUE] /\ ClientStep(s, "await event")
     ELSE event' = [conn |-> client[s].conn, stop |-> FALSE] /\ ClientStep(s, "serve")
  /\ UNCHANGED <<slot, session, services>>

(* A wait for the event port task ends when the task is gone; it times out *)
(* when somebody started another one meanwhile.                            *)
EventTaskLeft == ~EventTaskUp \/ ~event.stop

RestartEventTask(s) ==
  /\ client[s].pc = "await event" /\ EventTaskLeft
  /\ event' = [conn |-> client[s].conn, stop |-> FALSE]
  /\ ClientStep(s, "serve")
  /\ UNCHANGED <<slot, session, services>>

(* SETUP with streams.                                                     *)
SetupStream(s) ==
  LET c == client[s].conn
  IN  /\ build = "v2"
      /\ Request(s, "serve")
      /\ session[c].port
      /\ Session(c, FALSE)
      /\ audio' = c /\ dacp' = c
      /\ UNCHANGED <<ntp, told, event>>

Record(s) ==
  LET c == client[s].conn
  IN  /\ Request(s, "serve")
      /\ session[c].port
      /\ Session(c, FALSE)
      /\ audio' = IF session[c].paused THEN audio ELSE c
      /\ dacp' = c
      /\ told' = "playing"
      /\ UNCHANGED <<ntp, event>>

(* SETRATEANCHORTIME with rate 0; PAUSE emits nothing.                     *)
Pause(s) ==
  LET c == client[s].conn
  IN  /\ Request(s, "serve")
      /\ Session(c, TRUE)
      /\ dacp' = c
      /\ told' = IF build = "v2" THEN "paused" ELSE told
      /\ UNCHANGED <<audio, ntp, event>>

(* SETRATEANCHORTIME with another rate.                                    *)
Resume(s) ==
  LET c == client[s].conn
  IN  /\ build = "v2"
      /\ Request(s, "serve")
      /\ Session(c, FALSE)
      /\ dacp' = c
      /\ told' = "playing"
      /\ UNCHANGED <<audio, ntp, event>>

(* TEARDOWN of the streams, or of the session.                             *)
Teardown(s) ==
  LET c == client[s].conn
  IN  /\ Request(s, "serve")
      /\ audio' = NoConn
      /\ \E streams \in BOOLEAN :
           /\ Session(c, streams)
           /\ dacp' = IF streams \/ build = "v1" THEN c ELSE NoConn
           /\ ntp' = IF streams THEN ntp ELSE NoConn
      /\ UNCHANGED <<told, event>>

Requests(s) == \/ SetupSession(s) \/ SetupStream(s) \/ Record(s)
               \/ Pause(s) \/ Resume(s) \/ Teardown(s)

-----------------------------------------------------------------------------
(* A client task cleans up behind its connection.                          *)

Leave(s) ==
  /\ client[s].pc = "serve"
  /\ slot[s].stop \/ ~running \/ peer[client[s].conn] = "closed"
  /\ client' = [client EXCEPT ![s].pc = "stop audio"]
  /\ peer' = [peer EXCEPT ![client[s].conn] = "closed"]
  /\ UNCHANGED <<build, running, server, current, slot, session, services, event>>

StopAudio(s) ==
  /\ client[s].pc = "stop audio"
  /\ audio' = NoConn
  /\ ClientStep(s, "stop ntp")
  /\ UNCHANGED <<slot, session, ntp, dacp, told, event>>

(* In AirPlay 1 a sender that left on its own may come back: listeners     *)
(* hear of a pause, not of a disconnect.                                   *)
StopNtp(s) ==
  /\ client[s].pc = "stop ntp"
  /\ ntp' = NoConn
  /\ IF build = "v1" /\ ~slot[s].stop
     THEN told' = "paused" /\ ClientStep(s, "grace")
     ELSE told' = told /\ ClientStep(s, "end session")
  /\ UNCHANGED <<slot, session, audio, dacp, event>>

(* Variants: every sender is taken for one that came back; the grace       *)
(* period does not look at the order to stop.                              *)
EndGraceSilently(s) ==
  /\ client[s].pc = "grace"
  /\ ClientStep(s, "stop event")
  /\ UNCHANGED <<slot, session, services, event>>

EndGraceUnstopped(s) ==
  /\ client[s].pc = "grace" /\ ~slot[s].stop
  /\ ClientStep(s, "end session")
  /\ UNCHANGED <<slot, session, services, event>>

(* The grace period ends with an order to stop, or when the sender's DACP  *)
(* service disappears.  A sender that came back keeps its session.         *)
EndGrace(s) ==
  /\ client[s].pc = "grace"
  /\ ClientStep(s, IF slot[s].old THEN "stop event" ELSE "end session")
  /\ UNCHANGED <<slot, session, services, event>>

EndSession(s) ==
  /\ client[s].pc = "end session"
  /\ dacp' = NoConn
  /\ told' = "disconnected"
  /\ ClientStep(s, "stop event")
  /\ UNCHANGED <<slot, session, audio, ntp, event>>

(* Variant: a client that is being replaced never touches the task.        *)
StopEventTaskUnlessOld(s) == ~slot[s].old

(* A client that is being replaced leaves the event port task alone,       *)
(* unless it runs on the socket the client is about to close.              *)
MustStopEventTask(s) == ~slot[s].old \/ event.conn = client[s].conn

StopEventTask(s) ==
  /\ client[s].pc = "stop event"
  /\ IF MustStopEventTask(s) /\ EventTaskUp
     THEN event' = [event EXCEPT !.stop = TRUE] /\ ClientStep(s, "event stopping")
     ELSE event' = event /\ ClientStep(s, "close")
  /\ UNCHANGED <<slot, session, services>>

EventTaskStopped(s) ==
  /\ client[s].pc = "event stopping" /\ EventTaskLeft
  /\ ClientStep(s, "close")
  /\ UNCHANGED <<slot, session, services, event>>

(* The event socket is closed and the connection is freed.                 *)
CloseSession(s) ==
  /\ client[s].pc = "close"
  /\ session' = [session EXCEPT ![client[s].conn].socket = FALSE]
  /\ ClientStep(s, "release")
  /\ UNCHANGED <<slot, services, event>>

(* slot->task becomes NULL, but not before the server has stored it if     *)
(* nothing holds the server up.                                            *)
ReleaseSlot(s) ==
  /\ client[s].pc = "release"
  /\ Preemption \/ ~(server.pc = "store" /\ NewSlot = s)
  /\ slot' = [slot EXCEPT ![s].task = FALSE]
  /\ ClientStep(s, "dying")
  /\ UNCHANGED <<session, services, event>>

(* The flags are cleared, and the task deletes itself.                     *)
Die(s) ==
  /\ client[s].pc = "dying"
  /\ slot' = [slot EXCEPT ![s].stop = FALSE, ![s].old = FALSE]
  /\ client' = [client EXCEPT ![s] = [pc |-> "gone", conn |-> NoConn]]
  /\ UNCHANGED <<build, peer, running, server, current, session, services, event>>

Cleanup(s) == \/ Leave(s) \/ StopAudio(s) \/ StopNtp(s) \/ EndSession(s)
              \/ StopEventTask(s) \/ EventTaskStopped(s) \/ CloseSession(s)
              \/ ReleaseSlot(s) \/ Die(s)
              \/ StartEventTask(s) \/ RestartEventTask(s)

-----------------------------------------------------------------------------
Next == \/ \E c \in Conn : Connect(c) \/ HangUp(c)
        \/ Server \/ StopServer
        \/ EventClientConnects \/ EventTaskExits
        \/ \E s \in Slot : Requests(s) \/ Cleanup(s) \/ EndGrace(s)

Spec == Init /\ [][Next]_vars

(* The tasks run when they can.  A grace period only ends for sure when    *)
(* the client is told to stop.                                             *)
FairSpec == /\ Spec
            /\ WF_vars(Server)
            /\ WF_vars(EventTaskExits)
            /\ \A s \in Slot : /\ WF_vars(Cleanup(s))
                               /\ WF_vars(slot[s].stop /\ EndGrace(s))

-----------------------------------------------------------------------------
ClientPc == {"gone", "serve", "start event", "await event", "stop audio", "stop ntp",
             "grace", "end session", "stop event", "event stopping", "close", "release",
             "dying"}
ServerPc == {"accept", "wait", "signal", "create", "store", "gone"}
ConnOrNone == Conn \cup {NoConn}

ClientType == [Slot -> [pc : ClientPc, conn : ConnOrNone]]
SlotType == [Slot -> [task : BOOLEAN, stop : BOOLEAN, old : BOOLEAN]]
ServerType == [pc : ServerPc, conn : ConnOrNone]
PeerType == [Conn -> {"away", "backlog", "open", "closed"}]
EventType == [conn : ConnOrNone, stop : BOOLEAN]
SessionType == [Conn -> [port : BOOLEAN, socket : BOOLEAN, paused : BOOLEAN,
                         requests : Nat]]

Types ==
  /\ client \in ClientType /\ slot \in SlotType /\ server \in ServerType
  /\ peer \in PeerType /\ event \in EventType /\ session \in SessionType
  /\ current \in Slot

ServiceTypes ==
  /\ build \in Builds /\ running \in BOOLEAN
  /\ audio \in ConnOrNone /\ ntp \in ConnOrNone /\ dacp \in ConnOrNone
  /\ told \in {"none", "connected", "playing", "paused", "disconnected"}

TypeOK == Types /\ ServiceTypes

(* At most one client task serves requests without an order to stop: a new *)
(* client is created only after the one before it was told to leave.       *)
OneClientServes ==
  \A s, t \in Slot :
    {client[s].pc, client[t].pc} \subseteq {"serve", "start event", "await event"}
      => s = t \/ slot[s].stop \/ slot[t].stop

(* The static memory of a client task is reused only after the task that   *)
(* had it is gone (the comment before the wait in server_task).            *)
TaskMemoryIsFree == [][CreateClient => client[NewSlot].pc = "gone"]_vars

(* The event port task never works on a socket its client has closed: the  *)
(* cleanup stops it first, whoever started it and whoever replaces whom.   *)
EventSocketOpen == EventTaskUp => session[event.conn].socket

(* When the last client is gone nothing is left on: no stream, no NTP      *)
(* client, no DACP session, no event port task, and the listeners have     *)
(* been told so.                                                           *)
QuietWhenAlone ==
  Tasks = {} /\ server.pc \in {"accept", "gone"}
    => /\ audio = NoConn /\ ntp = NoConn /\ dacp = NoConn
       /\ ~EventTaskUp
       /\ told \in {"none", "disconnected"}

(* Every sender in the backlog gets a client task, or is turned away: a    *)
(* client that takes long to clean up cannot block the server for ever,    *)
(* and no sender hangs on a connection nobody serves.                      *)
EverySenderAnswered ==
  \A c \in Conn : peer[c] = "backlog"
                   ~> peer[c] = "closed" \/ \E s \in Slot : client[s].conn = c

(* A client that is told to stop leaves its slot.                          *)
StoppedClientsLeave == \A s \in Slot : slot[s].stop ~> ~slot[s].stop

(* While an old client cleans up it does not stop the stream of the new    *)
(* session (the comment in rtsp_conn_cleanup, and the one on is_old in     *)
(* client_task).                                                           *)
OldClientSparesNewStream ==
  [][\A s \in Slot :
       slot[s].old /\ StopAudio(s) => audio \in {NoConn, client[s].conn}]_vars
=============================================================================
