----------------------------- MODULE DacpClient -----------------------------
(***************************************************************************)
(* The DACP client: main/dacp_client.c.  RTSP tasks tell it which source   *)
(* is remote-controlled, buttons queue commands, and a worker task         *)
(* executes them, and finds the port of the source by mDNS, outside the    *)
(* mutex.                                                                  *)
(*                                                                         *)
(* A port is represented by the source it belongs to, a session by its     *)
(* source: address and token come with it.                                 *)
(*                                                                         *)
(* mixed, dropped and tried are history: no step reads them.               *)
(***************************************************************************)
EXTENDS Naturals, Sequences

CONSTANTS
  Source,    \* DACP-IDs of sources
  NoSource,  \* no session; no port
  QueueLen,  \* CMD_QUEUE_LEN
  MaxEvents  \* calls of RTSP tasks and buttons, at most

ASSUME DacpClientAssumption ==
  /\ NoSource \notin Source
  /\ QueueLen \in Nat \ {0} /\ MaxEvents \in Nat

VARIABLES
  id,         \* s_dacp_id, valid when it is one
  port,       \* s_dacp_port
  failed,     \* s_discovery_failed
  posting,    \* a new session whose discovery is not yet queued
  queue,      \* s_cmd_queue
  worker,     \* where the worker stands, with which copies
  advertised, \* sources that advertise DACP
  events,     \* calls so far
  mixed,      \* a discovery was stored for a session that is not its own
  dropped,    \* the queue was full when this session's discovery was queued
  tried       \* the last source that a discovery looked for

session == <<id, port, failed, posting>>
history == <<mixed, dropped, tried>>
vars == <<session, queue, worker, advertised, events, history>>

Idle == [pc |-> "idle", id |-> NoSource, port |-> NoSource]

-----------------------------------------------------------------------------
Init ==
  /\ id = NoSource /\ port = NoSource /\ failed = FALSE /\ posting = FALSE
  /\ queue = <<>>
  /\ worker = Idle
  /\ advertised = Source
  /\ events = 0
  /\ mixed = FALSE /\ dropped = FALSE /\ tried = NoSource

Event == events < MaxEvents /\ events' = events + 1

NewSession == mixed' = FALSE /\ dropped' = FALSE /\ tried' = NoSource

-----------------------------------------------------------------------------
(* The RTSP tasks.                                                         *)

(* Variant: the port outlives its session.                                 *)
SetSessionOnly(s) ==
  /\ Event /\ ~posting
  /\ id' = s
  /\ IF s = id THEN UNCHANGED <<failed, posting, history>>
     ELSE failed' = FALSE /\ posting' = TRUE /\ NewSession
  /\ UNCHANGED <<port, queue, worker, advertised>>

(* Variant: a discovery that failed is not tried for the next source.      *)
SetSessionStillFailed(s) ==
  /\ Event /\ ~posting
  /\ id' = s
  /\ IF s = id THEN UNCHANGED <<port, posting, history>>
     ELSE port' = NoSource /\ posting' = TRUE /\ NewSession
  /\ UNCHANGED <<failed, queue, worker, advertised>>

(* dacp_set_session, with every request: only a new source matters.        *)
SetSession(s) ==
  /\ Event /\ ~posting
  /\ id' = s
  /\ IF s = id THEN UNCHANGED <<port, failed, posting, history>>
     ELSE port' = NoSource /\ failed' = FALSE /\ posting' = TRUE /\ NewSession
  /\ UNCHANGED <<queue, worker, advertised>>

(* Outside the mutex its discovery is queued in front of all commands.     *)
PostDiscovery ==
  /\ posting
  /\ posting' = FALSE
  /\ IF Len(queue) < QueueLen
     THEN queue' = <<"discover">> \o queue /\ dropped' = dropped
     ELSE queue' = queue /\ dropped' = TRUE
  /\ UNCHANGED <<id, port, failed, worker, advertised, events, mixed, tried>>

ClearSession ==
  /\ Event
  /\ id' = NoSource /\ port' = NoSource /\ failed' = FALSE
  /\ NewSession
  /\ UNCHANGED <<posting, queue, worker, advertised>>

(* A button: the command is lost when the queue is full.                   *)
SendCommand ==
  /\ Event
  /\ queue' = IF Len(queue) < QueueLen THEN Append(queue, "command") ELSE queue
  /\ UNCHANGED <<session, worker, advertised, history>>

-----------------------------------------------------------------------------
(* The worker.                                                             *)

Take(what) == worker = Idle /\ queue # <<>> /\ Head(queue) = what /\ queue' = Tail(queue)

(* discover_dacp_port copies the id under the mutex.                       *)
BeginDiscovery ==
  /\ Take("discover")
  /\ IF port = NoSource /\ ~failed /\ id # NoSource
     THEN worker' = [Idle EXCEPT !.pc = "query", !.id = id] /\ tried' = id
     ELSE UNCHANGED <<worker, tried>>
  /\ UNCHANGED <<session, advertised, events, mixed, dropped>>

(* The query may find the source, if it advertises, or miss it.            *)
Query ==
  /\ worker.pc = "query"
  /\ \E found \in {NoSource} \cup (advertised \cap {worker.id}) :
       worker' = [worker EXCEPT !.pc = "store", !.port = found]
  /\ UNCHANGED <<session, queue, advertised, events, history>>

StorePort ==
  /\ worker.pc = "store"
  /\ port' = worker.port
  /\ failed' = (failed \/ worker.port = NoSource)
  /\ mixed' = (worker.id # id)
  /\ worker' = Idle
  /\ UNCHANGED <<id, posting, queue, advertised, events, dropped, tried>>

(* execute_dacp_request copies address and port under the mutex; without a *)
(* session or a port the command is skipped.                               *)
BeginRequest ==
  /\ Take("command")
  /\ worker' = IF id # NoSource /\ port # NoSource
               THEN [pc |-> "request", id |-> id, port |-> port] ELSE worker
  /\ UNCHANGED <<session, advertised, events, history>>

(* A request that fails invalidates the port.                              *)
EndRequest ==
  /\ worker.pc = "request"
  /\ \/ UNCHANGED <<port, mixed>>
     \/ port' = NoSource /\ mixed' = FALSE
  /\ worker' = Idle
  /\ UNCHANGED <<id, failed, posting, queue, advertised, events, dropped, tried>>

Worker == BeginDiscovery \/ Query \/ StorePort \/ BeginRequest \/ EndRequest

-----------------------------------------------------------------------------
(* Sources come and go.                                                    *)
Advertise(s) ==
  /\ Event
  /\ advertised' = IF s \in advertised THEN advertised \ {s} ELSE advertised \cup {s}
  /\ UNCHANGED <<session, queue, worker, history>>

Next ==
  \/ \E s \in Source : SetSession(s) \/ Advertise(s)
  \/ PostDiscovery \/ ClearSession \/ SendCommand
  \/ Worker

Spec == Init /\ [][Next]_vars

(* The tasks run: queries and requests end, if only by a timeout.          *)
FairSpec == Spec /\ WF_vars(Worker) /\ WF_vars(PostDiscovery)

-----------------------------------------------------------------------------
TypeOK ==
  /\ {id, port} \subseteq Source \cup {NoSource}
  /\ {failed, posting, mixed, dropped} \subseteq BOOLEAN
  /\ queue \in Seq({"discover", "command"}) /\ Len(queue) <= QueueLen
  /\ worker \in [pc : {"idle", "query", "store", "request"},
                 id : Source \cup {NoSource}, port : Source \cup {NoSource}]
  /\ advertised \subseteq Source
  /\ tried \in Source \cup {NoSource}

(* A command goes to the address and the port of the same source, however  *)
(* sessions change while it waits or while a port is looked for; unless    *)
(* the session changed during the discovery itself.                        *)
RequestFitsSource ==
  [][worker.pc # "request" /\ worker'.pc = "request"
       => worker'.port = worker'.id \/ mixed]_vars

(* The port of a source that stays is looked for, unless the queue was     *)
(* full of commands when it came or the discovery for another one was      *)
(* stored in its place.                                                    *)
SessionIsDiscovered ==
  \A s \in Source : <>[](id = s) => <>(tried = s \/ dropped \/ mixed)
=============================================================================
