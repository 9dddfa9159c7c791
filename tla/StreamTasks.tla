---------------------------- MODULE StreamTasks ----------------------------
(***************************************************************************)
(* The tasks that receive audio: main/audio/audio_stream_realtime.c and    *)
(* audio_stream_buffered.c, and the calls of audio_receiver.c that start   *)
(* and stop them.                                                          *)
(*                                                                         *)
(* A realtime stream has a receiver task and a control task on two UDP     *)
(* sockets, a buffered stream one task that accepts a TCP connection.  All *)
(* three run on static memory, share one decoder and use sockets that the  *)
(* RTSP task opens and closes.  Stopping a stream waits for a fixed time   *)
(* and then takes the tasks' memory and buffers away: the time is long     *)
(* enough for a task that runs, not for one in a call that nothing ends.   *)
(*                                                                         *)
(* A call of audio_receiver.c is the sequence of its steps, todo.  Packets *)
(* carry a sequence number, which wraps, and the question whether they     *)
(* were sent again.                                                        *)
(***************************************************************************)
EXTENDS Integers, Sequences, FiniteSets

CONSTANTS
  SeqMod,      \* number of RTP sequence numbers (65536)
  FirstSeq,    \* the ones a sender may begin with
  MaxGap,      \* MAX_RESEND_GAP
  QueueSize,   \* packets the data socket holds
  MaxEvents    \* calls, connections and packets, at most

ASSUME StreamTasksAssumption ==
  /\ SeqMod \in Nat \ {0} /\ MaxGap \in 1..SeqMod
  /\ FirstSeq \subseteq 0..(SeqMod - 1)
  /\ {QueueSize, MaxEvents} \subseteq Nat

Stream == {"realtime", "buffered"}
Task == {"recv", "ctrl", "buff"}
Seqno == 0..(SeqMod - 1)

TasksOf(s) == IF s = "realtime" THEN {"recv", "ctrl"} ELSE {"buff"}
StreamOf(t) == IF t = "buff" THEN "buffered" ELSE "realtime"

VARIABLES
  stream,    \* receiver.stream
  running,   \* stream->running, for each stream
  todo,      \* the steps that the RTSP task's call still has to do
  socket,    \* which of the state's socket fields hold an open socket
  handle,    \* which of the state's task handles are set
  task,      \* where the tasks stand
  decoder,   \* whether there is a decoder
  buffer,    \* buffered_recv_buffer is allocated
  conn,      \* the sender's TCP connection to the buffered stream
  resend,    \* retransmit_enabled
  queue,     \* packets in the data socket
  stats,     \* stats: last_seq, and packets_decoded > 0
  sender,    \* the sender's first and next packet, and the ones lost
  asked,     \* packets the sender has been asked for
  events     \* what the bound counts

lifecycle == <<stream, running, todo, socket, handle, decoder, buffer>>
packets == <<resend, queue, stats, sender, asked>>
vars == <<lifecycle, packets, task, conn, events>>

-----------------------------------------------------------------------------
Init ==
  /\ stream = "realtime"
  /\ running = [s \in Stream |-> FALSE]
  /\ todo = <<>>
  /\ socket = {} /\ handle = {}
  /\ task = [t \in Task |-> "gone"]
  /\ decoder = FALSE /\ buffer = FALSE
  /\ conn = "none"
  /\ resend = FALSE
  /\ queue = <<>>
  /\ stats = [last |-> 0, decoded |-> FALSE]
  /\ \E n \in FirstSeq : sender = [first |-> n, next |-> n, lost |-> {}]
  /\ asked = {}
  /\ events = 0

Happens == events < MaxEvents /\ events' = events + 1

-----------------------------------------------------------------------------
(* The calls.  A step is an operation and what it is applied to.           *)

(* realtime_stop and buffered_stop, once they found the stream running.    *)
StopSteps(s) ==
  IF s = "realtime"
  THEN << <<"close", "data">>, <<"close", "control">>,
          <<"await", "recv">>, <<"await", "ctrl">> >>
  ELSE << <<"close", "client">>, <<"close", "listen">>,
          <<"await", "buff">>, <<"free", "buff">> >>

(* realtime_start and buffered_start, once they found it not running.      *)
StartSteps(s) ==
  IF s = "realtime"
  THEN << <<"open", "data">>, <<"open", "control">>, <<"run", s>>,
          <<"create", "recv">>, <<"create", "ctrl">> >>
  ELSE << <<"open", "listen">>, <<"run", s>>, <<"create", "buff">> >>

(* audio_receiver_start and audio_receiver_start_buffered.                 *)
Start(s) == << <<"select", s>>, <<"start", s>> >>

(* audio_receiver_stop.                                                    *)
StopAll == << <<"halt", "realtime">>, <<"halt", "buffered">>,
              <<"forget", "decoder">> >>

Call(steps) ==
  /\ todo = <<>> /\ Happens
  /\ todo' = steps
  /\ UNCHANGED <<stream, running, socket, handle, decoder, buffer, packets, task, conn>>

(* SETUP of a stream; an unexpected one may come while a stream runs.      *)
Setup(s) == Call(<< <<"select", s>>, <<"format", s>> >> \o Start(s)
                 \o << <<"enable", "resend">> >>)

(* RECORD starts the stream that is selected.                              *)
Record == Call(Start(stream) \o << <<"enable", "resend">> >>)

(* TEARDOWN, and the end of a connection.                                  *)
Stop == Call(StopAll)

-----------------------------------------------------------------------------
(* The steps.                                                              *)

At(op, x) == todo # <<>> /\ Head(todo) = <<op, x>>

Continue(steps) == todo' = steps \o Tail(todo)

(* Variant: the other stream goes on.                                      *)
SelectOnly(s) ==
  /\ At("select", s)
  /\ Continue(<<>>) /\ stream' = s
  /\ UNCHANGED <<running, socket, handle, decoder, buffer, packets, task, conn, events>>

(* set_stream_type: another stream that runs is stopped first.             *)
Select(s) ==
  /\ At("select", s)
  /\ IF stream # s /\ running[stream]
     THEN todo' = << <<"halt", stream>> >> \o todo /\ UNCHANGED stream
     ELSE Continue(<<>>) /\ stream' = s
  /\ UNCHANGED <<running, socket, handle, decoder, buffer, packets, task, conn, events>>

(* set_format puts a new decoder in the old one's place.                   *)
SetFormat(s) ==
  /\ At("format", s)
  /\ decoder' \in BOOLEAN
  /\ Continue(<<>>)
  /\ UNCHANGED <<stream, running, socket, handle, buffer, packets, task, conn, events>>

(* A realtime stream is always stopped and started anew, a buffered one    *)
(* goes on.  Starting resets the statistics.                               *)
StartStream(s) ==
  /\ At("start", s)
  /\ IF running[s]
     THEN /\ IF s = "realtime" THEN todo' = << <<"halt", s>> >> \o todo
                               ELSE Continue(<<>>)
          /\ UNCHANGED packets
     ELSE /\ Continue(StartSteps(s))
          /\ stats' = [last |-> 0, decoded |-> FALSE]
          /\ asked' = {} /\ sender' = [sender EXCEPT !.lost = {}]
          /\ UNCHANGED <<resend, queue>>
  /\ UNCHANGED <<stream, running, socket, handle, decoder, buffer, task, conn, events>>

(* A socket that cannot be bound ends the start, and closes the data       *)
(* socket when it is the control socket's turn.  RECORD does not look at   *)
(* the result; SETUP of a buffered stream ends there.                      *)
Unstarted == {<<>>, << <<"enable", "resend">> >>}

(* Variant: the data socket stays open when the control socket fails.      *)
OpenOrLeave(x) ==
  /\ At("open", x)
  /\ \/ socket' = socket \cup {x} /\ Continue(<<>>)
     \/ socket' = socket /\ todo' \in Unstarted
  /\ UNCHANGED <<stream, running, handle, decoder, buffer, packets, task, conn, events>>

OpenSocket(x) ==
  /\ At("open", x)
  /\ \/ socket' = socket \cup {x} /\ queue' = queue /\ Continue(<<>>)
     \/ socket' = socket \ {"data"} /\ queue' = <<>> /\ todo' \in Unstarted
  /\ UNCHANGED <<stream, running, handle, decoder, buffer, resend, stats, sender,
                 asked, task, conn, events>>

Run(s) ==
  /\ At("run", s)
  /\ running' = [running EXCEPT ![s] = TRUE]
  /\ Continue(<<>>)
  /\ UNCHANGED <<stream, socket, handle, decoder, buffer, packets, task, conn, events>>

(* The task starts on the static memory of the one before it.  Static      *)
(* creation does not fail.                                                 *)
CreateTask(t) ==
  /\ At("create", t)
  /\ task' = [task EXCEPT ![t] = "loop"]
  /\ handle' = handle \cup {t}
  /\ Continue(<<>>)
  /\ UNCHANGED <<stream, running, socket, decoder, buffer, packets, conn, events>>

(* The sender has told at which port to ask (left out: it has not).        *)
EnableResend ==
  /\ At("enable", "resend")
  /\ resend' = TRUE
  /\ Continue(<<>>)
  /\ UNCHANGED <<stream, running, socket, handle, decoder, buffer,
                 queue, stats, sender, asked, task, conn, events>>

(* Variant: the tasks are not told.                                        *)
CloseOnly(s) ==
  /\ At("halt", s)
  /\ Continue(IF running[s] THEN StopSteps(s) ELSE <<>>)
  /\ UNCHANGED <<stream, running, socket, handle, decoder, buffer, packets, task, conn, events>>

Halt(s) ==
  /\ At("halt", s)
  /\ Continue(IF running[s] THEN StopSteps(s) ELSE <<>>)
  /\ running' = [running EXCEPT ![s] = FALSE]
  /\ UNCHANGED <<stream, socket, handle, decoder, buffer, packets, task, conn, events>>

(* Closing a socket ends the calls that wait on it.  The connection is     *)
(* closed if the task has stored its socket.                               *)
CloseSocket(x) ==
  /\ At("close", x)
  /\ socket' = socket \ {x}
  /\ conn' = IF x = "client" /\ x \in socket /\ conn # "none" THEN "closed"
             ELSE IF x = "listen" /\ conn = "backlog" THEN "none"
             ELSE conn
  /\ queue' = IF x = "data" THEN <<>> ELSE queue
  /\ Continue(<<>>)
  /\ UNCHANGED <<stream, running, handle, decoder, buffer, resend, stats, sender,
                 asked, task, events>>

(* A task that waits for its sender, and nothing ends the wait soon.       *)
Blocked(t) ==
  \/ t = "recv" /\ task[t] = "recv" /\ "data" \in socket
  \/ t = "ctrl" /\ task[t] = "recv" /\ "control" \in socket
  \/ t = "buff" /\ task[t] = "recv" /\ conn = "open"

(* The delay is long enough for every task that is not blocked.            *)
AwaitTask(t) ==
  /\ At("await", t)
  /\ t \in handle => task[t] = "gone" \/ Blocked(t)
  /\ handle' = handle \ {t}
  /\ Continue(<<>>)
  /\ UNCHANGED <<stream, running, socket, decoder, buffer, packets, task, conn, events>>

FreeBuffer ==
  /\ At("free", "buff")
  /\ buffer' = FALSE
  /\ Continue(<<>>)
  /\ UNCHANGED <<stream, running, socket, handle, decoder, packets, task, conn, events>>

(* The end of audio_receiver_stop.                                         *)
ForgetDecoder ==
  /\ At("forget", "decoder")
  /\ decoder' = FALSE /\ resend' = FALSE
  /\ Continue(<<>>)
  /\ UNCHANGED <<stream, running, socket, handle, buffer,
                 queue, stats, sender, asked, task, conn, events>>

Calls == (\E s \in Stream : Setup(s)) \/ Record \/ Stop

Step == \/ \E s \in Stream : Select(s) \/ SetFormat(s) \/ StartStream(s) \/ Run(s) \/ Halt(s)
        \/ \E x \in {"data", "control", "listen", "client"} : OpenSocket(x) \/ CloseSocket(x)
        \/ \E t \in Task : CreateTask(t) \/ AwaitTask(t)
        \/ EnableResend \/ FreeBuffer \/ ForgetDecoder

-----------------------------------------------------------------------------
(* The tasks.                                                              *)

Goto(t, pc) ==
  /\ task' = [task EXCEPT ![t] = pc]
  /\ UNCHANGED <<stream, running, todo, decoder, resend>>

(* A task clears its handle and ends when its stream no longer runs.       *)
Exit(t) ==
  /\ Goto(t, "gone")
  /\ handle' = handle \ {t}
  /\ UNCHANGED <<socket, buffer, queue, stats, sender, asked, conn, events>>

(* The head of the task's loop.                                            *)
Loop(t) ==
  /\ task[t] = "loop"
  /\ IF ~running[StreamOf(t)] THEN Exit(t)
     ELSE /\ Goto(t, IF t = "buff" THEN "accept" ELSE "recv")
          /\ UNCHANGED <<socket, handle, buffer, queue, stats, sender, asked, conn, events>>

(* A UDP socket that is closed, or fails, ends its task; a timeout does not. *)
ReceiveFails(t) ==
  /\ t # "buff" /\ task[t] = "recv"
  /\ \/ Exit(t)
     \/ /\ (IF t = "recv" THEN "data" ELSE "control") \in socket
        /\ Goto(t, "loop")
        /\ UNCHANGED <<socket, handle, buffer, queue, stats, sender, asked, conn, events>>

(* Variant: sequence numbers do not wrap.                                  *)
GapUnwrapped(seq) ==
  LET gap == (seq - stats.last - 1) % SeqMod
  IN  IF gap < MaxGap THEN {stats.last + i : i \in 1..gap} ELSE {}

(* The packets between the last one and this one.                          *)
Gap(seq) ==
  LET gap == (seq - stats.last - 1) % SeqMod
  IN  IF gap < MaxGap THEN {(stats.last + i) % SeqMod : i \in 1..gap} ELSE {}

(* The packets the arrival of p makes the receiver task ask for, unless an *)
(* error just before keeps it from sending.                                *)
RequestFor(p) ==
  IF ~p.again /\ stats.decoded /\ resend /\ "control" \in socket
  THEN Gap(p.seq) ELSE {}

(* Variant: packets that were sent again are tracked, too.                 *)
TrackAll ==
  /\ task["recv"] = "recv" /\ "data" \in socket /\ queue # <<>>
  /\ queue' = Tail(queue)
  /\ asked' \in {asked, asked \cup RequestFor(Head(queue))}
  /\ stats' = [stats EXCEPT !.last = Head(queue).seq]
  /\ \E pc \in {"loop", "decode"} : (pc = "decode" => decoder) /\ Goto("recv", pc)
  /\ UNCHANGED <<socket, handle, buffer, sender, conn, events>>

(* realtime_receive_packet, up to the decoder.                             *)
ReceivePacket ==
  /\ task["recv"] = "recv" /\ "data" \in socket /\ queue # <<>>
  /\ queue' = Tail(queue)
  /\ asked' \in {asked, asked \cup RequestFor(Head(queue))}
  /\ stats' = [stats EXCEPT !.last = IF Head(queue).again THEN @ ELSE Head(queue).seq]
  /\ \E pc \in {"loop", "decode"} : (pc = "decode" => decoder) /\ Goto("recv", pc)
  /\ UNCHANGED <<socket, handle, buffer, sender, conn, events>>

(* The decoder is done with the frame; a frame that is queued counts.      *)
Decode(t) ==
  /\ task[t] = "decode"
  /\ Goto(t, IF t = "buff" THEN "read" ELSE "loop")
  /\ stats' \in {stats, [stats EXCEPT !.decoded = TRUE]}
  /\ UNCHANGED <<socket, handle, buffer, queue, sender, asked, conn, events>>

(* Variant: the control task decodes the packet itself.                    *)
DecodeAnswer ==
  /\ task["ctrl"] = "recv" /\ "control" \in socket /\ asked # {} /\ decoder
  /\ Happens
  /\ Goto("ctrl", "decode")
  /\ UNCHANGED <<socket, handle, buffer, queue, stats, sender, asked, conn>>

(* The control task hands a packet that was sent again to the data socket, *)
(* which may have no room for it.                                          *)
ForwardAnswer ==
  /\ task["ctrl"] = "recv" /\ "control" \in socket
  /\ Happens
  /\ \E n \in asked :
       queue' = IF "data" \in socket /\ Len(queue) < QueueSize
                THEN Append(queue, [seq |-> n, again |-> TRUE]) ELSE queue
  /\ Goto("ctrl", "loop")
  /\ UNCHANGED <<socket, handle, buffer, stats, sender, asked, conn>>

(* The listening socket does not wait: without a connection, or when it is *)
(* closed, the task looks at its stream again.                             *)
Accept ==
  /\ task["buff"] = "accept"
  /\ IF "listen" \in socket /\ conn = "backlog"
     THEN conn' = "open" /\ Goto("buff", "store")
     ELSE conn' = conn /\ Goto("buff", "loop")
  /\ UNCHANGED <<socket, handle, buffer, queue, stats, sender, asked, events>>

(* Variant: the socket is stored when its first packet has come.           *)
ReadThenStore ==
  /\ task["buff"] = "store"
  /\ buffer' = TRUE /\ socket' = socket
  /\ Goto("buff", "read")
  /\ UNCHANGED <<handle, queue, stats, sender, asked, conn, events>>

(* The socket is stored where the RTSP task finds it.                      *)
StoreClient ==
  /\ task["buff"] = "store"
  /\ \/ socket' = socket \cup {"client"} /\ buffer' = TRUE
        /\ conn' = conn /\ Goto("buff", "read")
     \/ ~buffer /\ UNCHANGED <<socket, buffer>>
        /\ conn' = "none" /\ Goto("buff", "loop")
  /\ UNCHANGED <<handle, queue, stats, sender, asked, events>>

(* The task looks at its stream before it reads.                           *)
Read ==
  /\ task["buff"] = "read"
  /\ Goto("buff", IF running["buffered"] THEN "recv" ELSE "leave")
  /\ UNCHANGED <<socket, handle, buffer, queue, stats, sender, asked, conn, events>>

(* A packet has come, or the connection has ended, timed out or failed.    *)
ReadPacket ==
  /\ task["buff"] = "recv"
  /\ \/ conn = "open" /\ decoder /\ Goto("buff", "decode")
     \/ conn = "open" /\ Goto("buff", "read")
     \/ Goto("buff", "leave")
  /\ UNCHANGED <<socket, handle, buffer, queue, stats, sender, asked, conn, events>>

CloseClient ==
  /\ task["buff"] = "leave"
  /\ conn' = "none" /\ socket' = socket \ {"client"}
  /\ Goto("buff", "loop")
  /\ UNCHANGED <<handle, buffer, queue, stats, sender, asked, events>>

(* What a task does on its own: it does not wait for the sender.           *)
Own(t) ==
  \/ Loop(t)
  \/ Decode(t)
  \/ ~Blocked(t) /\ ReceiveFails(t)
  \/ t = "buff" /\ (Accept \/ StoreClient \/ Read \/ CloseClient)
  \/ t = "buff" /\ ~Blocked(t) /\ ReadPacket

Tasks == \/ \E t \in Task : Loop(t) \/ ReceiveFails(t) \/ Decode(t)
         \/ ReceivePacket \/ ForwardAnswer
         \/ Accept \/ StoreClient \/ Read \/ ReadPacket \/ CloseClient

-----------------------------------------------------------------------------
(* The sender.                                                             *)

Connect ==
  /\ conn = "none" /\ "listen" \in socket
  /\ Happens
  /\ conn' = "backlog"
  /\ UNCHANGED <<lifecycle, packets, task>>

(* The next packet arrives; some before it are lost.                       *)
Send ==
  /\ "data" \in socket /\ Len(queue) < QueueSize
  /\ Happens
  /\ \E k \in 0..MaxGap :
       LET arrives == (sender.next + k) % SeqMod
       IN  /\ ((sender.next - sender.first) % SeqMod) + k + 1 < SeqMod
           /\ queue' = Append(queue, [seq |-> arrives, again |-> FALSE])
           /\ sender' = [sender EXCEPT
                !.next = (arrives + 1) % SeqMod,
                !.lost = @ \cup {(sender.next + i) % SeqMod : i \in 0..(k - 1)}]
  /\ UNCHANGED <<lifecycle, resend, stats, asked, task, conn>>

Sender == Connect \/ Send

-----------------------------------------------------------------------------
Next == Calls \/ Step \/ Tasks \/ Sender

Spec == Init /\ [][Next]_vars

(* The RTSP task and the stream tasks run when they have something to do.  *)
FairSpec == /\ Spec
            /\ WF_vars(Step)
            /\ \A t \in Task : WF_vars(Own(t))

-----------------------------------------------------------------------------
TypeOK ==
  /\ stream \in Stream
  /\ running \in [Stream -> BOOLEAN]
  /\ socket \subseteq {"data", "control", "listen", "client"}
  /\ handle \subseteq Task
  /\ task \in [Task -> {"gone", "loop", "recv", "decode", "accept", "store", "read", "leave"}]
  /\ {decoder, buffer, resend} \subseteq BOOLEAN
  /\ conn \in {"none", "backlog", "open", "closed"}
  /\ queue \in Seq([seq : Seqno, again : BOOLEAN]) /\ Len(queue) <= QueueSize
  /\ stats \in [last : Seqno, decoded : BOOLEAN]
  /\ sender \in [first : Seqno, next : Seqno, lost : SUBSET Seqno]
  /\ asked \subseteq Seqno

(* The fixed delays suffice: when the static memory of a task is used      *)
(* again, the receive buffer freed or the decoder destroyed at the end of a *)
(* stream, no task is left that uses it.  A task that has just accepted a  *)
(* connection the RTSP task does not know of yet does not wait on it.      *)
MemoryIsFree ==
  /\ \A t \in Task : At("create", t) => task[t] = "gone"
  /\ At("free", "buff") => task["buff"] = "gone"
  /\ At("forget", "decoder") => \A t \in Task : task[t] # "decode"

(* One task at a time uses the decoder and its buffers (the comment in the *)
(* control task: "avoids concurrent access").                              *)
OneTaskDecodes == \A t, u \in Task : task[t] = "decode" /\ task[u] = "decode" => t = u

(* Between calls, when no stream runs, nothing of one is left: no socket,  *)
(* no connection, no task, no buffer; whatever failed on the way.          *)
ClosedWhenStopped ==
  todo = <<>> /\ (\A s \in Stream : ~running[s])
    => /\ socket = {} /\ handle = {} /\ ~buffer
       /\ conn = "none"
       /\ \A t \in Task : task[t] = "gone"

(* Between calls the stream that runs is the one selected, and it is       *)
(* served: its sockets are open, and a buffered stream has its task.       *)
RunningStreamServes ==
  todo = <<>>
    => \A s \in Stream : running[s] =>
         /\ stream = s
         /\ s = "realtime" => {"data", "control"} \subseteq socket
         /\ s = "buffered" => "listen" \in socket /\ task["buff"] # "gone"

(* The receiver task asks only for packets that were lost on the way, and  *)
(* only once: not for ones that came, or came late as an answer (the       *)
(* comment on "spurious NACKs").                                           *)
RequestsNameMissingOnce ==
  task["recv"] = "recv" /\ queue # <<>>
    => LET request == RequestFor(Head(queue))
       IN  request \subseteq sender.lost /\ request \cap asked = {}

(* Every call of the RTSP task ends, and with it every stop.               *)
CallsEnd == todo # <<>> ~> todo = <<>>
=============================================================================
