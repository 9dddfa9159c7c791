------------------------- MODULE StreamTasksProofs -------------------------
(***************************************************************************)
(* Proofs about StreamTasks for any number of sequence numbers, any queue, *)
(* any resend limit and any number of events.                              *)
(*                                                                         *)
(* The first part is about the calls: which step may follow which.  The    *)
(* second says what is left of a stream at each step of a call, the third  *)
(* what the receiver task knows of the packets on the way.                 *)
(***************************************************************************)
EXTENDS StreamTasks, SequenceTheorems, TLAPS

(* ------------------------------ the calls ------------------------------ *)

Idle == <<"idle", "idle">>

(* The step the RTSP task is at.                                           *)
Now == IF todo = <<>> THEN Idle ELSE Head(todo)

Opening(s) ==
  IF s = "realtime"
  THEN {<<"open", "data">>, <<"open", "control">>, <<"run", "realtime">>}
  ELSE {<<"open", "listen">>, <<"run", "buffered">>}

Creating(s) ==
  IF s = "realtime" THEN {<<"create", "recv">>, <<"create", "ctrl">>}
                    ELSE {<<"create", "buff">>}

Stopping(s) ==
  IF s = "realtime"
  THEN {<<"close", "data">>, <<"close", "control">>,
        <<"await", "recv">>, <<"await", "ctrl">>}
  ELSE {<<"close", "client">>, <<"close", "listen">>,
        <<"await", "buff">>, <<"free", "buff">>}

Starting(s) == {<<"start", s>>} \cup Opening(s) \cup Creating(s)

Op == ({"select", "format", "halt"} \X Stream)
      \cup Starting("realtime") \cup Starting("buffered")
      \cup Stopping("realtime") \cup Stopping("buffered")
      \cup {<<"enable", "resend">>, <<"forget", "decoder">>}

(* What may come once a stream is stopped.                                 *)
AfterHalt(s) ==
  IF s = "realtime"
  THEN {<<"halt", "buffered">>, <<"select", "buffered">>, <<"start", "realtime">>}
  ELSE {<<"forget", "decoder">>, <<"select", "realtime">>}

(* What may come after step a; Idle is the end of the call.                *)
After(a) ==
  CASE a = <<"select", "realtime">> -> {<<"format", "realtime">>, <<"start", "realtime">>}
    [] a = <<"select", "buffered">> -> {<<"format", "buffered">>, <<"start", "buffered">>}
    [] a = <<"format", "realtime">> -> {<<"select", "realtime">>}
    [] a = <<"format", "buffered">> -> {<<"select", "buffered">>}
    [] a = <<"start", "realtime">>  -> {<<"enable", "resend">>}
    [] a = <<"start", "buffered">>  -> {<<"enable", "resend">>}
    [] a = <<"open", "data">>       -> {<<"open", "control">>}
    [] a = <<"open", "control">>    -> {<<"run", "realtime">>}
    [] a = <<"run", "realtime">>    -> {<<"create", "recv">>}
    [] a = <<"create", "recv">>     -> {<<"create", "ctrl">>}
    [] a = <<"create", "ctrl">>     -> {<<"enable", "resend">>}
    [] a = <<"open", "listen">>     -> {<<"run", "buffered">>}
    [] a = <<"run", "buffered">>    -> {<<"create", "buff">>}
    [] a = <<"create", "buff">>     -> {<<"enable", "resend">>}
    [] a = <<"close", "data">>      -> {<<"close", "control">>}
    [] a = <<"close", "control">>   -> {<<"await", "recv">>}
    [] a = <<"await", "recv">>      -> {<<"await", "ctrl">>}
    [] a = <<"close", "client">>    -> {<<"close", "listen">>}
    [] a = <<"close", "listen">>    -> {<<"await", "buff">>}
    [] a = <<"await", "buff">>      -> {<<"free", "buff">>}
    [] a \in {<<"await", "ctrl">>, <<"halt", "realtime">>} -> AfterHalt("realtime")
    [] a \in {<<"free", "buff">>, <<"halt", "buffered">>}  -> AfterHalt("buffered")
    [] OTHER -> {Idle}

(* The steps of a call follow each other as they may.                      *)
Ordered(q) ==
  /\ q \in Seq(Op)
  /\ \A i \in 1..(Len(q) - 1) : q[i + 1] \in After(q[i])
  /\ q # <<>> => Idle \in After(q[Len(q)])

(* A call is about one stream.                                             *)
OneStream(q) ==
  \A i, j \in 1..Len(q) :
    {q[i][1], q[j][1]} \subseteq {"select", "start"} => q[i][2] = q[j][2]

(* A stream is started only once it is selected.                           *)
Aimed(q, s) ==
  \A i \in 1..Len(q) : q[i][1] = "start" =>
    q[i][2] = s \/ (i > 1 /\ q[i - 1] = <<"select", q[i][2]>>)

Scripted == Ordered(todo) /\ OneStream(todo) /\ Aimed(todo, stream)

(* ----------------------------- the streams ----------------------------- *)

(* One stream runs at most, the selected one; while one is being stopped,  *)
(* none does.                                                              *)
Chosen ==
  /\ \A s \in Stream : running[s] => stream = s
  /\ \A s \in Stream :
       /\ Now \in Starting(s) => stream = s
       /\ Now \in Opening(s) => ~running[s]
       /\ Now \in Creating(s) => running[s]
       /\ Now \in Stopping(s) => \A r \in Stream : ~running[r]
  /\ Now = <<"halt", "buffered">> => ~running["realtime"]
  /\ Now = <<"forget", "decoder">> => \A s \in Stream : ~running[s]

Places == [recv |-> {"gone", "loop", "recv", "decode"},
           ctrl |-> {"gone", "loop", "recv"},
           buff |-> {"gone", "loop", "accept", "store", "read", "recv", "decode", "leave"}]

(* The tasks of a stream live while it runs, and until they are awaited.   *)
Lives ==
  /\ \A t \in Task : task[t] \in Places[t] /\ (t \in handle <=> task[t] # "gone")
  /\ \A s \in Stream : ~running[s] /\ Now \notin Stopping(s)
                         => \A t \in TasksOf(s) : task[t] = "gone"
  /\ Now = <<"create", "recv">> => task["recv"] = "gone" /\ task["ctrl"] = "gone"
  /\ Now = <<"create", "ctrl">> => task["ctrl"] = "gone"
  /\ Now = <<"await", "ctrl">> => task["recv"] = "gone"
  /\ Now \in {<<"create", "buff">>, <<"free", "buff">>} => task["buff"] = "gone"
  /\ running["buffered"] /\ Now # <<"create", "buff">> => task["buff"] # "gone"

(* The sockets of a stream are open while it runs, and from the step that  *)
(* opens them to the step that closes them.                                *)
Sockets ==
  /\ "data" \in socket <=>
       running["realtime"] \/ Now \in {<<"open", "control">>, <<"run", "realtime">>,
                                       <<"close", "data">>}
  /\ "control" \in socket <=>
       running["realtime"] \/ Now \in {<<"run", "realtime">>, <<"close", "data">>,
                                       <<"close", "control">>}
  /\ "listen" \in socket <=>
       running["buffered"] \/ Now \in {<<"run", "buffered">>, <<"close", "client">>,
                                       <<"close", "listen">>}

Serving == {"read", "recv", "decode", "leave"}

(* The connection belongs to the buffered task from the accept on, and the *)
(* RTSP task can close it from the store on.  A connection that it missed  *)
(* is one the task will not wait on.                                       *)
Connected ==
  /\ "client" \in socket => task["buff"] \in Serving
  /\ task["buff"] \in Serving /\ (running["buffered"] \/ Now = <<"close", "client">>)
       => "client" \in socket
  /\ task["buff"] \in {"gone", "loop", "accept"} => conn \in {"none", "backlog"}
  /\ task["buff"] = "store" => conn = "open"
  /\ task["buff"] \in Serving => conn \in {"open", "closed"}
  /\ conn = "backlog" => "listen" \in socket
  /\ conn = "open" /\ ~running["buffered"] /\ Now # <<"close", "client">>
       => task["buff"] \in {"store", "read", "leave"}
  /\ ~running["buffered"] /\ Now \notin Stopping("buffered") => ~buffer

(* The invariant of the streams.                                           *)
Streams == TypeOK /\ Scripted /\ Chosen /\ Lives /\ Sockets /\ Connected

(* ----------------------------- the packets ----------------------------- *)

(* How many packets after the sender's first one packet n is.              *)
Offset(n) == (n - sender.first) % SeqMod

(* The packets in the socket that arrive for the first time.               *)
Fresh == {i \in 1..Len(queue) : ~queue[i].again}

(* last_seq is a packet of this stream.                                    *)
Known == stats.decoded \/ task["recv"] = "decode"

(* The packets after which all that is missing is known to be lost.        *)
Marks == {queue[i].seq : i \in Fresh} \cup (IF Known THEN {stats.last} ELSE {})

(* Packets arrive in the order they were sent in; what the receiver task   *)
(* has asked for came before the last one; what is missing between one it  *)
(* knows of and the next to be sent is lost.                               *)
OnTheWay ==
  /\ asked # {} => stats.decoded
  /\ \A i \in 1..Len(queue) : queue[i].again => stats.decoded
  /\ \A i, j \in Fresh : i < j => Offset(queue[i].seq) < Offset(queue[j].seq)
  /\ Known => \A i \in Fresh : Offset(stats.last) < Offset(queue[i].seq)
  /\ \A n \in asked : Offset(n) < Offset(stats.last)
  /\ \A m \in Marks : Offset(m) < Offset(sender.next)
  /\ \A m \in Marks, n \in Seqno :
       Offset(m) < Offset(n) /\ Offset(n) < Offset(sender.next)
         => n \in sender.lost \/ \E i \in Fresh : queue[i].seq = n

(* A stream starts with nothing received and nothing asked for.            *)
Tracked ==
  /\ Now = <<"open", "data">> => ~stats.decoded /\ asked = {}
  /\ queue # <<>> => "data" \in socket
  /\ "data" \in socket => OnTheWay

(* The inductive invariant.                                                *)
Inv == Streams /\ Tracked

(* --------------------------- about scripts ----------------------------- *)

(* Dropping the first step leaves the rest in order.                       *)
LEMMA Popped ==
  ASSUME NEW q, Ordered(q), q # <<>>
  PROVE  /\ Head(q) \in Op /\ Head(q) = q[1]
         /\ Ordered(Tail(q))
         /\ (IF Tail(q) = <<>> THEN Idle ELSE Head(Tail(q))) \in After(Head(q))
<1>1. /\ q \in Seq(Op) /\ Len(q) \in Nat \ {0} /\ 1 \in 1..Len(q)
      /\ q[1] \in Op
  <2>1. q \in Seq(Op) /\ Len(q) \in Nat \ {0}
    BY EmptySeq DEF Ordered
  <2> QED BY <2>1, ElementOfSeq
<1> DEFINE r == Tail(q)
<1>2. /\ r \in Seq(Op) /\ Len(r) = Len(q) - 1
      /\ \A i \in 1..Len(r) : r[i] = q[i + 1]
      /\ Head(q) = q[1]
  BY <1>1, HeadTailProperties
<1> HIDE DEF r
<1>3. CASE r = <<>>
  <2>0. Len(<<>>) = 0
    BY EmptySeq
  <2>1. Len(q) = 1
    BY <1>1, <1>2, <1>3, <2>0
  <2>2. Ordered(r)
    BY <1>2, <1>3, EmptySeq DEF Ordered
  <2>3. Idle \in After(q[1])
    BY <2>1 DEF Ordered
  <2> QED BY <1>1, <1>2, <1>3, <2>2, <2>3 DEF r
<1>4. CASE r # <<>>
  <2>1. /\ Len(r) \in Nat \ {0}
        /\ Head(r) = r[1]
    BY <1>2, <1>4, EmptySeq
  <2>2. Head(r) = q[1 + 1] /\ 1 \in 1..(Len(q) - 1)
    BY <1>1, <1>2, <2>1
  <2>3. ASSUME NEW i \in 1..(Len(r) - 1)
        PROVE  r[i + 1] \in After(r[i])
    <3>1. i + 1 \in 1..(Len(q) - 1) /\ r[i] = q[i + 1]
          /\ r[i + 1] = q[(i + 1) + 1]
      BY <1>1, <1>2, <2>1
    <3> QED BY <3>1 DEF Ordered
  <2>4. r[Len(r)] = q[Len(q)]
    BY <1>1, <1>2, <2>1
  <2> QED BY <1>1, <1>2, <1>4, <2>2, <2>3, <2>4 DEF Ordered
<1> QED BY <1>3, <1>4 DEF r

(* Steps in order go before a call that they lead to.                      *)
LEMMA Pushed ==
  ASSUME NEW p \in Seq(Op), p # <<>>, NEW q, Ordered(q),
         \A i \in 1..(Len(p) - 1) : p[i + 1] \in After(p[i]),
         (IF q = <<>> THEN Idle ELSE Head(q)) \in After(p[Len(p)])
  PROVE  /\ Ordered(p \o q)
         /\ p \o q # <<>> /\ Head(p \o q) = p[1]
<1> DEFINE r == p \o q
<1>1. q \in Seq(Op) /\ Len(q) \in Nat /\ Len(p) \in Nat \ {0}
  BY EmptySeq, LenProperties DEF Ordered
<1>2. /\ r \in Seq(Op) /\ Len(r) = Len(p) + Len(q)
      /\ \A i \in 1..(Len(p) + Len(q)) :
           r[i] = IF i <= Len(p) THEN p[i] ELSE q[i - Len(p)]
  BY <1>1, ConcatProperties
<1>3. r # <<>>
  BY <1>1, <1>2, EmptySeq
<1>4. Head(r) = r[1] /\ r[1] = p[1]
  <2>1. Head(r) = r[1]
    BY <1>2, <1>3
  <2> QED BY <1>1, <1>2, <2>1
<1> HIDE DEF r
<1>5. r[Len(p)] = p[Len(p)] /\ Len(p) \in 1..Len(r)
  BY <1>1, <1>2
<1>6. CASE q = <<>>
  <2>1. Len(r) = Len(p)
    BY <1>1, <1>2, <1>6, EmptySeq
  <2>2. \A i \in 1..(Len(r) - 1) : r[i + 1] \in After(r[i])
    BY <1>1, <1>2, <2>1
  <2> QED BY <1>2, <1>3, <1>4, <1>5, <1>6, <2>1, <2>2 DEF Ordered, r
<1>7. CASE q # <<>>
  <2>1. Len(q) \in Nat \ {0} /\ Head(q) = q[1]
    BY <1>1, <1>7, EmptySeq
  <2>2. r[Len(r)] = q[Len(q)]
    BY <1>1, <1>2, <2>1
  <2>3. ASSUME NEW i \in 1..(Len(r) - 1)
        PROVE  r[i + 1] \in After(r[i])
    <3>0. i \in Nat /\ i >= 1 /\ i < Len(p) + Len(q)
      BY <1>1, <1>2
    <3>1. CASE i < Len(p)
      <4>1. r[i] = p[i] /\ r[i + 1] = p[i + 1] /\ i \in 1..(Len(p) - 1)
        BY <1>1, <1>2, <3>0, <3>1
      <4> QED BY <4>1
    <3>2. CASE i = Len(p)
      <4>1. r[i + 1] = q[1]
        BY <1>1, <1>2, <2>1, <3>2
      <4> QED BY <1>5, <1>7, <2>1, <3>2, <4>1
    <3>3. CASE i > Len(p)
      <4>1. /\ i - Len(p) \in 1..(Len(q) - 1) /\ r[i] = q[i - Len(p)]
            /\ r[i + 1] = q[(i - Len(p)) + 1]
        BY <1>1, <1>2, <3>0, <3>3
      <4> QED BY <4>1 DEF Ordered
    <3> QED BY <1>1, <3>0, <3>1, <3>2, <3>3
  <2> QED BY <1>2, <1>3, <1>4, <1>7, <2>2, <2>3 DEF Ordered, r
<1> QED BY <1>6, <1>7

(* Dropping the first step leaves the aim, if a select is carried out.     *)
LEMMA PoppedAim ==
  ASSUME NEW q, q \in Seq(Op), q # <<>>, NEW s, NEW u,
         OneStream(q), Aimed(q, s),
         u = IF Head(q)[1] = "select" THEN Head(q)[2] ELSE s
  PROVE  OneStream(Tail(q)) /\ Aimed(Tail(q), u)
<1>1. /\ Len(q) \in Nat \ {0} /\ Len(Tail(q)) = Len(q) - 1
      /\ \A i \in 1..Len(Tail(q)) : Tail(q)[i] = q[i + 1] /\ i + 1 \in 1..Len(q)
      /\ Head(q) = q[1] /\ 1 \in 1..Len(q)
  BY EmptySeq, HeadTailProperties
<1>2. OneStream(Tail(q))
  BY <1>1 DEF OneStream
<1>3. ASSUME NEW i \in 1..Len(Tail(q)), Tail(q)[i][1] = "start"
      PROVE  Tail(q)[i][2] = u \/ (i > 1 /\ Tail(q)[i - 1] = <<"select", Tail(q)[i][2]>>)
  <2>0. i \in Nat /\ i >= 1 /\ i + 1 > 1 /\ (i + 1) - 1 = i
    BY <1>1
  <2>1. Tail(q)[i] = q[i + 1] /\ i + 1 \in 1..Len(q) /\ q[i + 1][1] = "start"
    BY <1>1, <1>3
  <2>2. q[i + 1][2] = s \/ q[i] = <<"select", q[i + 1][2]>>
    BY <2>0, <2>1 DEF Aimed
  <2>3. q[1][1] = "select" => q[i + 1][2] = u
    BY <1>1, <2>1 DEF OneStream
  <2>4. CASE i = 1
    <3>1. q[1][1] # "select" => q[i + 1][2] = u
      BY <1>1, <2>2, <2>4
    <3> QED BY <2>1, <2>3, <3>1
  <2>5. CASE i # 1
    <3>1. i > 1 /\ i - 1 \in 1..Len(Tail(q))
      BY <1>1, <2>0, <2>5
    <3>2. Tail(q)[i - 1] = q[i]
      BY <1>1, <2>0, <3>1
    <3>3. q[1][1] # "select" => u = s
      BY <1>1
    <3> QED BY <2>1, <2>2, <2>3, <3>1, <3>2, <3>3
  <2> QED BY <2>4, <2>5
<1> QED BY <1>2, <1>3 DEF Aimed

(* Steps that select and start nothing do not change the aim.              *)
LEMMA PushedAim ==
  ASSUME NEW p \in Seq(Op), NEW q \in Seq(Op), NEW s,
         \A i \in 1..Len(p) : p[i][1] \notin {"select", "start"},
         OneStream(q), Aimed(q, s)
  PROVE  OneStream(p \o q) /\ Aimed(p \o q, s)
<1> DEFINE r == p \o q
<1>1. /\ Len(q) \in Nat /\ Len(p) \in Nat /\ Len(r) = Len(p) + Len(q)
      /\ \A i \in 1..(Len(p) + Len(q)) :
           r[i] = IF i <= Len(p) THEN p[i] ELSE q[i - Len(p)]
  BY ConcatProperties, LenProperties
<1> HIDE DEF r
<1>2. ASSUME NEW i \in 1..Len(r), r[i][1] \in {"select", "start"}
      PROVE  /\ i - Len(p) \in 1..Len(q) /\ r[i] = q[i - Len(p)]
             /\ i - Len(p) > 1 => r[i - 1] = q[(i - Len(p)) - 1] /\ i > 1
  <2>1. i \in Nat /\ i >= 1 /\ i <= Len(p) + Len(q) /\ ~(i <= Len(p))
    BY <1>1, <1>2
  <2> QED BY <1>1, <2>1
<1>3. ASSUME NEW i \in 1..Len(r), NEW j \in 1..Len(r),
             r[i][1] \in {"select", "start"}, r[j][1] \in {"select", "start"}
      PROVE  r[i][2] = r[j][2]
  <2>1. /\ i - Len(p) \in 1..Len(q) /\ r[i] = q[i - Len(p)]
        /\ j - Len(p) \in 1..Len(q) /\ r[j] = q[j - Len(p)]
    BY <1>2, <1>3
  <2>2. {q[i - Len(p)][1], q[j - Len(p)][1]} \subseteq {"select", "start"}
    BY <1>3, <2>1
  <2> QED BY <2>1, <2>2 DEF OneStream
<1>4. ASSUME NEW i \in 1..Len(r), r[i][1] = "start"
      PROVE  r[i][2] = s \/ (i > 1 /\ r[i - 1] = <<"select", r[i][2]>>)
  <2>1. PICK j \in 1..Len(q) :
          /\ r[i] = q[j]
          /\ j > 1 => r[i - 1] = q[j - 1] /\ i > 1
    BY <1>2, <1>4
  <2>3. q[j][2] = s \/ (j > 1 /\ q[j - 1] = <<"select", q[j][2]>>)
    BY <1>4, <2>1 DEF Aimed
  <2> QED BY <2>1, <2>3
<1> QED BY <1>3, <1>4 DEF r, OneStream, Aimed

(* The step after each step, one by one.                                   *)
LEMMA AfterRealtime ==
  /\ After(<<"open", "data">>) = {<<"open", "control">>}
  /\ After(<<"open", "control">>) = {<<"run", "realtime">>}
  /\ After(<<"run", "realtime">>) = {<<"create", "recv">>}
  /\ After(<<"create", "recv">>) = {<<"create", "ctrl">>}
  /\ After(<<"create", "ctrl">>) = {<<"enable", "resend">>}
  /\ After(<<"close", "data">>) = {<<"close", "control">>}
  /\ After(<<"close", "control">>) = {<<"await", "recv">>}
  /\ After(<<"await", "recv">>) = {<<"await", "ctrl">>}
  /\ After(<<"await", "ctrl">>) = AfterHalt("realtime")
  /\ After(<<"halt", "realtime">>) = AfterHalt("realtime")
BY DEF After

LEMMA AfterBuffered ==
  /\ After(<<"open", "listen">>) = {<<"run", "buffered">>}
  /\ After(<<"run", "buffered">>) = {<<"create", "buff">>}
  /\ After(<<"create", "buff">>) = {<<"enable", "resend">>}
  /\ After(<<"close", "client">>) = {<<"close", "listen">>}
  /\ After(<<"close", "listen">>) = {<<"await", "buff">>}
  /\ After(<<"await", "buff">>) = {<<"free", "buff">>}
  /\ After(<<"free", "buff">>) = AfterHalt("buffered")
  /\ After(<<"halt", "buffered">>) = AfterHalt("buffered")
BY DEF After

LEMMA AfterOthers ==
  /\ \A s \in Stream : /\ After(<<"select", s>>) = {<<"format", s>>, <<"start", s>>}
                        /\ After(<<"format", s>>) = {<<"select", s>>}
                        /\ After(<<"start", s>>) = {<<"enable", "resend">>}
  /\ After(<<"enable", "resend">>) = {Idle}
  /\ After(<<"forget", "decoder">>) = {Idle}
BY DEF After, Stream

LEMMA ScriptedNext ==
  ASSUME NEW q, NEW s, Ordered(q), OneStream(q), Aimed(q, s), todo' = q, stream' = s
  PROVE  Scripted'
BY DEF Scripted, Ordered, OneStream, Aimed

(* The call goes on to its next step.                                      *)
LEMMA GoesOn ==
  ASSUME Scripted, todo # <<>>, Continue(<<>>),
         stream' = IF Head(todo)[1] = "select" THEN Head(todo)[2] ELSE stream
  PROVE  Scripted' /\ Now = Head(todo) /\ Now' \in After(Now)
<1>1. todo \in Seq(Op) /\ Tail(todo) \in Seq(Op)
  BY HeadTailProperties DEF Scripted, Ordered
<1>2. todo' = Tail(todo)
  BY <1>1, ConcatEmptySeq DEF Continue
<1>3. Ordered(todo') /\ (IF todo' = <<>> THEN Idle ELSE Head(todo')) \in After(Head(todo))
  BY <1>2, Popped DEF Scripted
<1>4. OneStream(todo') /\ Aimed(todo', stream')
  BY <1>1, <1>2, PoppedAim DEF Scripted
<1>5. Scripted'
  BY <1>3, <1>4, ScriptedNext
<1> QED BY <1>3, <1>5 DEF Now

(* A step adds steps of its own to the call.                               *)
LEMMA Adds ==
  ASSUME Scripted, todo # <<>>, stream' = stream, Head(todo)[1] # "select",
         NEW p \in Seq(Op), p # <<>>,
         \A i \in 1..Len(p) : p[i][1] \notin {"select", "start"},
         \A i \in 1..(Len(p) - 1) : p[i + 1] \in After(p[i]),
         After(Head(todo)) \subseteq After(p[Len(p)]),
         Continue(p)
  PROVE  Scripted' /\ Now = Head(todo) /\ Now' = p[1]
<1>1. todo \in Seq(Op) /\ Tail(todo) \in Seq(Op)
  BY HeadTailProperties DEF Scripted, Ordered
<1> DEFINE q == Tail(todo)
<1>2. /\ Ordered(q) /\ (IF q = <<>> THEN Idle ELSE Head(q)) \in After(p[Len(p)])
      /\ OneStream(q) /\ Aimed(q, stream)
  BY <1>1, Popped, PoppedAim DEF Scripted
<1> HIDE DEF q
<1>3. Ordered(p \o q) /\ p \o q # <<>> /\ Head(p \o q) = p[1]
  BY <1>2, Pushed
<1>4. OneStream(p \o q) /\ Aimed(p \o q, stream)
  BY <1>1, <1>2, PushedAim DEF q
<1>5. todo' = p \o q
  BY DEF Continue, q
<1>6. Scripted'
  BY <1>3, <1>4, <1>5, ScriptedNext
<1> QED BY <1>3, <1>5, <1>6 DEF Now

(* A running stream is halted before the step that must wait for it.       *)
LEMMA HaltsFirst ==
  ASSUME Scripted, todo # <<>>, stream' = stream,
         NEW s \in Stream, Head(todo) \in After(<<"halt", s>>),
         todo' = << <<"halt", s>> >> \o todo
  PROVE  Scripted' /\ Now = Head(todo) /\ Now' = <<"halt", s>>
<1> DEFINE p == << <<"halt", s>> >>
<1>1. /\ p \in Seq(Op) /\ Len(p) = 1 /\ p[1] = <<"halt", s>> /\ p # <<>>
      /\ todo \in Seq(Op)
  BY DEF Op, Scripted, Ordered
<1>2. todo' = p \o todo
  OBVIOUS
<1>3. \A i \in 1..Len(p) : p[i][1] \notin {"select", "start"}
  BY <1>1
<1>4. \A i \in 1..(Len(p) - 1) : p[i + 1] \in After(p[i])
  BY <1>1
<1> HIDE DEF p
<1> DEFINE r == p \o todo
<1>5. Ordered(r) /\ r # <<>> /\ Head(r) = p[1]
  BY <1>1, <1>4, Pushed DEF Scripted
<1>6. OneStream(r) /\ Aimed(r, stream)
  BY <1>1, <1>3, PushedAim DEF Scripted
<1> HIDE DEF r
<1>7. todo' = r
  BY <1>2 DEF r
<1>8. Scripted'
  BY <1>5, <1>6, <1>7, ScriptedNext
<1> QED BY <1>1, <1>5, <1>7, <1>8 DEF Now

(* The steps that stop and start a stream are in order.                    *)
LEMMA StopStepsInOrder ==
  ASSUME NEW s \in Stream
  PROVE  LET p == StopSteps(s)
         IN  /\ p \in Seq(Op) /\ p # <<>>
             /\ \A i \in 1..Len(p) : p[i][1] \notin {"select", "start"}
             /\ \A i \in 1..(Len(p) - 1) : p[i + 1] \in After(p[i])
             /\ After(<<"halt", s>>) \subseteq After(p[Len(p)])
             /\ p[1] = IF s = "realtime" THEN <<"close", "data">> ELSE <<"close", "client">>
<1>1. CASE s = "realtime"
  <2> DEFINE p == << <<"close", "data">>, <<"close", "control">>,
                     <<"await", "recv">>, <<"await", "ctrl">> >>
  <2>1. StopSteps(s) = p
    BY <1>1 DEF StopSteps
  <2>2. /\ Len(p) = 4 /\ p[1] = <<"close", "data">> /\ p[2] = <<"close", "control">>
        /\ p[3] = <<"await", "recv">> /\ p[4] = <<"await", "ctrl">> /\ p # <<>>
    OBVIOUS
  <2>3. p \in Seq(Op)
    BY DEF Op, Stopping
  <2> HIDE DEF p
  <2>4. \A i \in 1..4 : i \in {1, 2, 3, 4}
    OBVIOUS
  <2>5. \A i \in 1..Len(p) : p[i][1] \notin {"select", "start"}
    BY <2>2, <2>4
  <2>6. \A i \in 1..(Len(p) - 1) : i \in {1, 2, 3}
    BY <2>2
  <2>8. p[1 + 1] \in After(p[1]) /\ p[2 + 1] \in After(p[2])
        /\ p[3 + 1] \in After(p[3])
    BY <2>2, AfterRealtime
  <2>7. \A i \in 1..(Len(p) - 1) : p[i + 1] \in After(p[i])
    BY <2>6, <2>8
  <2> QED BY <1>1, <2>1, <2>2, <2>3, <2>5, <2>7, AfterRealtime
<1>2. CASE s = "buffered"
  <2> DEFINE p == << <<"close", "client">>, <<"close", "listen">>,
                     <<"await", "buff">>, <<"free", "buff">> >>
  <2>1. StopSteps(s) = p
    BY <1>2 DEF StopSteps
  <2>2. /\ Len(p) = 4 /\ p[1] = <<"close", "client">> /\ p[2] = <<"close", "listen">>
        /\ p[3] = <<"await", "buff">> /\ p[4] = <<"free", "buff">> /\ p # <<>>
    OBVIOUS
  <2>3. p \in Seq(Op)
    BY DEF Op, Stopping
  <2> HIDE DEF p
  <2>4. \A i \in 1..4 : i \in {1, 2, 3, 4}
    OBVIOUS
  <2>5. \A i \in 1..Len(p) : p[i][1] \notin {"select", "start"}
    BY <2>2, <2>4
  <2>6. \A i \in 1..(Len(p) - 1) : i \in {1, 2, 3}
    BY <2>2
  <2>8. p[1 + 1] \in After(p[1]) /\ p[2 + 1] \in After(p[2])
        /\ p[3 + 1] \in After(p[3])
    BY <2>2, AfterBuffered
  <2>7. \A i \in 1..(Len(p) - 1) : p[i + 1] \in After(p[i])
    BY <2>6, <2>8
  <2> QED BY <1>2, <2>1, <2>2, <2>3, <2>5, <2>7, AfterBuffered
<1> QED BY <1>1, <1>2 DEF Stream

LEMMA StartStepsInOrder ==
  ASSUME NEW s \in Stream
  PROVE  LET p == StartSteps(s)
         IN  /\ p \in Seq(Op) /\ p # <<>>
             /\ \A i \in 1..Len(p) : p[i][1] \notin {"select", "start"}
             /\ \A i \in 1..(Len(p) - 1) : p[i + 1] \in After(p[i])
             /\ After(<<"start", s>>) \subseteq After(p[Len(p)])
             /\ p[1] = IF s = "realtime" THEN <<"open", "data">> ELSE <<"open", "listen">>
<1>1. CASE s = "realtime"
  <2> DEFINE p == << <<"open", "data">>, <<"open", "control">>, <<"run", "realtime">>,
                     <<"create", "recv">>, <<"create", "ctrl">> >>
  <2>1. StartSteps(s) = p
    BY <1>1 DEF StartSteps
  <2>2. /\ Len(p) = 5 /\ p[1] = <<"open", "data">> /\ p[2] = <<"open", "control">>
        /\ p[3] = <<"run", "realtime">> /\ p[4] = <<"create", "recv">>
        /\ p[5] = <<"create", "ctrl">> /\ p # <<>>
    OBVIOUS
  <2>3. p \in Seq(Op)
    BY DEF Op, Starting, Opening, Creating
  <2> HIDE DEF p
  <2>4. \A i \in 1..5 : i \in {1, 2, 3, 4, 5}
    OBVIOUS
  <2>5. \A i \in 1..Len(p) : p[i][1] \notin {"select", "start"}
    BY <2>2, <2>4
  <2>6. \A i \in 1..(Len(p) - 1) : i \in {1, 2, 3, 4}
    BY <2>2
  <2>8. p[1 + 1] \in After(p[1]) /\ p[2 + 1] \in After(p[2])
        /\ p[3 + 1] \in After(p[3]) /\ p[4 + 1] \in After(p[4])
    BY <2>2, AfterRealtime
  <2>7. \A i \in 1..(Len(p) - 1) : p[i + 1] \in After(p[i])
    BY <2>6, <2>8
  <2> QED BY <1>1, <2>1, <2>2, <2>3, <2>5, <2>7, AfterRealtime, AfterOthers
<1>2. CASE s = "buffered"
  <2> DEFINE p == << <<"open", "listen">>, <<"run", "buffered">>, <<"create", "buff">> >>
  <2>1. StartSteps(s) = p
    BY <1>2 DEF StartSteps
  <2>2. /\ Len(p) = 3 /\ p[1] = <<"open", "listen">> /\ p[2] = <<"run", "buffered">>
        /\ p[3] = <<"create", "buff">> /\ p # <<>>
    OBVIOUS
  <2>3. p \in Seq(Op)
    BY DEF Op, Starting, Opening, Creating
  <2> HIDE DEF p
  <2>4. \A i \in 1..3 : i \in {1, 2, 3}
    OBVIOUS
  <2>5. \A i \in 1..Len(p) : p[i][1] \notin {"select", "start"}
    BY <2>2, <2>4
  <2>6. \A i \in 1..(Len(p) - 1) : i \in {1, 2}
    BY <2>2
  <2>8. p[1 + 1] \in After(p[1]) /\ p[2 + 1] \in After(p[2])
    BY <2>2, AfterBuffered
  <2>7. \A i \in 1..(Len(p) - 1) : p[i + 1] \in After(p[i])
    BY <2>6, <2>8
  <2> QED BY <1>2, <2>1, <2>2, <2>3, <2>5, <2>7, AfterBuffered, AfterOthers
<1> QED BY <1>1, <1>2 DEF Stream

(* Where the RTSP task is, and where it goes.                              *)
LEMMA AtNow ==
  ASSUME NEW op, NEW x, At(op, x)
  PROVE  todo # <<>> /\ Head(todo) = <<op, x>> /\ Now = <<op, x>>
BY DEF At, Now

LEMMA AtOp ==
  ASSUME Scripted, NEW op, NEW x, At(op, x)
  PROVE  <<op, x>> \in Op
BY AtNow, Popped DEF Scripted

LEMMA Advances ==
  ASSUME Scripted, NEW op, NEW x, At(op, x), op # "select", Continue(<<>>),
         stream' = stream
  PROVE  Scripted' /\ Now = <<op, x>> /\ Now' \in After(<<op, x>>)
<1>1. todo # <<>> /\ Head(todo) = <<op, x>> /\ Now = <<op, x>>
  BY AtNow
<1>2. Head(todo)[1] # "select"
  BY <1>1
<1> QED BY <1>1, <1>2, GoesOn

LEMMA GivesUp ==
  ASSUME todo' \in Unstarted, stream' = stream
  PROVE  Scripted' /\ Now' \in {Idle, <<"enable", "resend">>}
<1>1. CASE todo' = <<>>
  <2>1. Ordered(<<>>) /\ OneStream(<<>>) /\ Aimed(<<>>, stream)
    BY EmptySeq DEF Ordered, OneStream, Aimed
  <2> QED BY <1>1, <2>1, ScriptedNext DEF Now
<1>2. CASE todo' = << <<"enable", "resend">> >>
  <2> DEFINE q == << <<"enable", "resend">> >>
  <2>1. /\ q \in Seq(Op) /\ Len(q) = 1 /\ q # <<>> /\ Head(q) = <<"enable", "resend">>
        /\ q[1] = <<"enable", "resend">>
    BY DEF Op
  <2> HIDE DEF q
  <2>2. Ordered(q)
    BY <2>1, AfterOthers DEF Ordered
  <2>3. OneStream(q) /\ Aimed(q, stream)
    BY <2>1 DEF OneStream, Aimed
  <2> QED BY <1>2, <2>1, <2>2, <2>3, ScriptedNext DEF Now, q
<1> QED BY <1>1, <1>2 DEF Unstarted

(* A start comes when its stream is selected.                              *)
LEMMA FirstIsAimed ==
  ASSUME NEW q, NEW u, NEW s, Ordered(q), Aimed(q, u), q # <<>>, Head(q) = <<"start", s>>
  PROVE  u = s
<1>1. Len(q) \in Nat \ {0} /\ Head(q) = q[1]
  BY EmptySeq, Popped DEF Ordered
<1>2. q[1] = <<"start", s>> /\ 1 \in 1..Len(q)
  BY <1>1
<1> QED BY <1>2 DEF Aimed

LEMMA StartIsAimed ==
  /\ \A s : Scripted /\ Now = <<"start", s>> => stream = s
  /\ \A s : Scripted' /\ Now' = <<"start", s>> => stream' = s
BY FirstIsAimed DEF Now, Idle, Scripted

LEMMA Stays ==
  ASSUME UNCHANGED <<stream, todo>>
  PROVE  Now' = Now /\ (Scripted => Scripted')
BY DEF Now, Scripted, Ordered, OneStream, Aimed

(* ------------------------------- types --------------------------------- *)

LEMMA ModSeqno ==
  ASSUME NEW a \in Int
  PROVE  a % SeqMod \in Seqno
BY StreamTasksAssumption DEF Seqno

LEMMA RequestTyped ==
  ASSUME TypeOK, NEW p \in [seq : Seqno, again : BOOLEAN]
  PROVE  RequestFor(p) \subseteq Seqno
<1>1. \A i \in Int : stats.last + i \in Int
  BY DEF TypeOK, Seqno
<1>2. \A i \in Int : (stats.last + i) % SeqMod \in Seqno
  BY <1>1, ModSeqno
<1> QED BY <1>2 DEF RequestFor, Gap

LEMMA InitTyped == Init => TypeOK
<1> SUFFICES ASSUME Init PROVE TypeOK
  OBVIOUS
<1>1. 0 \in Seqno /\ FirstSeq \subseteq Seqno
  BY StreamTasksAssumption DEF Seqno
<1>2. queue \in Seq([seq : Seqno, again : BOOLEAN]) /\ Len(queue) <= QueueSize
  <2>1. queue = <<>> /\ Len(<<>>) = 0
    BY EmptySeq DEF Init
  <2> QED BY <2>1, EmptySeq, StreamTasksAssumption
<1>3. sender \in [first : Seqno, next : Seqno, lost : SUBSET Seqno]
  <2>1. PICK n \in FirstSeq : sender = [first |-> n, next |-> n, lost |-> {}]
    BY DEF Init
  <2> QED BY <1>1, <2>1
<1>4. stats \in [last : Seqno, decoded : BOOLEAN] /\ asked \subseteq Seqno
  BY <1>1 DEF Init
<1>5. running \in [Stream -> BOOLEAN] /\ stream \in Stream
  BY DEF Init, Stream
<1>6. task \in [Task -> {"gone", "loop", "recv", "decode", "accept", "store", "read", "leave"}]
  BY DEF Init
<1>7. {decoder, buffer, resend} \subseteq BOOLEAN
  BY DEF Init
<1> QED BY <1>2, <1>3, <1>4, <1>5, <1>6, <1>7 DEF Init, TypeOK

(* A queue that is cleared, or unchanged, keeps its type.                  *)
LEMMA EmptyQueueTyped ==
  /\ <<>> \in Seq([seq : Seqno, again : BOOLEAN])
  /\ Len(<<>>) <= QueueSize
<1>1. Len(<<>>) = 0
  BY EmptySeq
<1> QED BY <1>1, EmptySeq, StreamTasksAssumption

LEMMA AppendTyped ==
  ASSUME TypeOK, NEW p \in [seq : Seqno, again : BOOLEAN], Len(queue) < QueueSize
  PROVE  /\ Append(queue, p) \in Seq([seq : Seqno, again : BOOLEAN])
         /\ Len(Append(queue, p)) = Len(queue) + 1 /\ Len(queue) \in Nat
         /\ Len(Append(queue, p)) <= QueueSize
         /\ \A i \in 1..Len(queue) : Append(queue, p)[i] = queue[i]
         /\ Append(queue, p)[Len(queue) + 1] = p
<1> DEFINE S == [seq : Seqno, again : BOOLEAN]
<1>1. queue \in Seq(S) /\ p \in S
  BY DEF TypeOK
<1> HIDE DEF S
<1>2. /\ Append(queue, p) \in Seq(S) /\ Len(queue) \in Nat
      /\ Len(Append(queue, p)) = Len(queue) + 1
      /\ \A i \in 1..Len(queue) : Append(queue, p)[i] = queue[i]
      /\ Append(queue, p)[Len(queue) + 1] = p
  BY <1>1, AppendProperties, LenProperties
<1>3. Len(queue) + 1 <= QueueSize
  BY <1>2, StreamTasksAssumption
<1> QED BY <1>2, <1>3 DEF S

LEMMA CallsTyped == TypeOK /\ Calls => TypeOK'
BY DEF TypeOK, Calls, Setup, Record, Stop, Call, packets

LEMMA StepTyped == TypeOK /\ Step => TypeOK'
<1> SUFFICES ASSUME TypeOK, Step PROVE TypeOK'
  OBVIOUS
<1>1. ASSUME NEW s \in Stream, Select(s) \/ SetFormat(s) \/ Run(s) \/ Halt(s)
      PROVE  TypeOK'
  BY <1>1 DEF TypeOK, Select, SetFormat, Run, Halt, packets
<1>2. ASSUME NEW s \in Stream, StartStream(s) PROVE TypeOK'
  <2>1. 0 \in Seqno
    BY StreamTasksAssumption DEF Seqno
  <2>2. /\ stats' \in [last : Seqno, decoded : BOOLEAN] /\ asked' \subseteq Seqno
        /\ sender' \in [first : Seqno, next : Seqno, lost : SUBSET Seqno]
    <3>1. CASE running[s]
      <4>1. UNCHANGED <<stats, sender, asked>>
        BY <1>2, <3>1 DEF StartStream, packets
      <4> QED BY <4>1 DEF TypeOK
    <3>2. CASE ~running[s]
      <4>1. /\ stats' = [last |-> 0, decoded |-> FALSE]
            /\ asked' = {} /\ sender' = [sender EXCEPT !.lost = {}]
        BY <1>2, <3>2 DEF StartStream
      <4> QED BY <2>1, <4>1 DEF TypeOK
    <3> QED BY <3>1, <3>2
  <2>3. UNCHANGED <<stream, running, socket, handle, decoder, buffer, task, conn, resend, queue>>
    BY <1>2 DEF StartStream, packets
  <2> QED BY <2>2, <2>3 DEF TypeOK
<1>3. ASSUME NEW x \in {"data", "control", "listen", "client"}, OpenSocket(x) \/ CloseSocket(x)
      PROVE  TypeOK'
  BY <1>3, EmptyQueueTyped DEF TypeOK, OpenSocket, CloseSocket
<1>4. ASSUME NEW t \in Task, CreateTask(t) \/ AwaitTask(t) PROVE TypeOK'
  BY <1>4 DEF TypeOK, CreateTask, AwaitTask, packets
<1>5. CASE EnableResend \/ FreeBuffer \/ ForgetDecoder
  BY <1>5 DEF TypeOK, EnableResend, FreeBuffer, ForgetDecoder, packets
<1> QED BY <1>1, <1>2, <1>3, <1>4, <1>5 DEF Step

LEMMA TasksTyped == TypeOK /\ Tasks => TypeOK'
<1> SUFFICES ASSUME TypeOK, Tasks PROVE TypeOK'
  OBVIOUS
<1>1. ASSUME NEW t \in Task, Loop(t) \/ ReceiveFails(t) \/ Decode(t) PROVE TypeOK'
  BY <1>1 DEF TypeOK, Loop, ReceiveFails, Decode, Exit, Goto
<1>2. CASE ReceivePacket
  <2>1. /\ Head(queue) \in [seq : Seqno, again : BOOLEAN]
        /\ Tail(queue) \in Seq([seq : Seqno, again : BOOLEAN])
        /\ Len(Tail(queue)) = Len(queue) - 1 /\ Len(queue) \in Nat
    BY <1>2, HeadTailProperties, LenProperties DEF TypeOK, ReceivePacket
  <2>2. asked' \subseteq Seqno
    BY <1>2, <2>1, RequestTyped DEF ReceivePacket, TypeOK
  <2>3. queue' \in Seq([seq : Seqno, again : BOOLEAN]) /\ Len(queue') <= QueueSize
    BY <1>2, <2>1, StreamTasksAssumption DEF ReceivePacket, TypeOK
  <2>4. stats' \in [last : Seqno, decoded : BOOLEAN]
    BY <1>2, <2>1 DEF TypeOK, ReceivePacket
  <2>5. /\ \E pc \in {"loop", "decode"} : task' = [task EXCEPT !["recv"] = pc]
        /\ UNCHANGED <<stream, running, decoder, resend, socket, handle, buffer, sender, conn>>
    BY <1>2 DEF ReceivePacket, Goto
  <2>6. task' \in [Task -> {"gone", "loop", "recv", "decode", "accept", "store", "read", "leave"}]
    BY <2>5 DEF TypeOK
  <2> QED BY <2>2, <2>3, <2>4, <2>5, <2>6 DEF TypeOK
<1>3. CASE ForwardAnswer
  <2>1. PICK n \in asked :
          queue' = IF "data" \in socket /\ Len(queue) < QueueSize
                   THEN Append(queue, [seq |-> n, again |-> TRUE]) ELSE queue
    BY <1>3 DEF ForwardAnswer
  <2>2. [seq |-> n, again |-> TRUE] \in [seq : Seqno, again : BOOLEAN]
    BY DEF TypeOK
  <2>3. queue' \in Seq([seq : Seqno, again : BOOLEAN]) /\ Len(queue') <= QueueSize
    BY <2>1, <2>2, AppendTyped DEF TypeOK
  <2> QED BY <1>3, <2>3 DEF TypeOK, ForwardAnswer, Goto
<1>4. CASE Accept \/ StoreClient \/ Read \/ ReadPacket \/ CloseClient
  BY <1>4 DEF TypeOK, Accept, StoreClient, Read, ReadPacket, CloseClient, Goto
<1> QED BY <1>1, <1>2, <1>3, <1>4 DEF Tasks

LEMMA SenderTyped == TypeOK /\ Sender => TypeOK'
<1> SUFFICES ASSUME TypeOK, Sender PROVE TypeOK'
  OBVIOUS
<1>1. CASE Connect
  BY <1>1 DEF TypeOK, Connect, lifecycle, packets
<1>2. CASE Send
  <2>1. PICK k \in 0..MaxGap :
          /\ queue' = Append(queue, [seq |-> (sender.next + k) % SeqMod, again |-> FALSE])
          /\ sender' = [sender EXCEPT
               !.next = (((sender.next + k) % SeqMod) + 1) % SeqMod,
               !.lost = @ \cup {(sender.next + i) % SeqMod : i \in 0..(k - 1)}]
    BY <1>2 DEF Send
  <2>0. /\ \A i \in Int : sender.next + i \in Int
        /\ k \in Int /\ Seqno \subseteq Int
    BY StreamTasksAssumption DEF TypeOK, Seqno
  <2>2. /\ \A i \in Int : (sender.next + i) % SeqMod \in Seqno
        /\ k \in Int /\ Seqno \subseteq Int
    BY <2>0, ModSeqno
  <2>3. (((sender.next + k) % SeqMod) + 1) % SeqMod \in Seqno
    BY <2>2, ModSeqno DEF Seqno
  <2>4. [seq |-> (sender.next + k) % SeqMod, again |-> FALSE] \in [seq : Seqno, again : BOOLEAN]
    BY <2>2
  <2>5. queue' \in Seq([seq : Seqno, again : BOOLEAN]) /\ Len(queue') <= QueueSize
    BY <1>2, <2>1, <2>4, AppendTyped DEF Send
  <2>6. sender' \in [first : Seqno, next : Seqno, lost : SUBSET Seqno]
    <3> DEFINE missed == {(sender.next + i) % SeqMod : i \in 0..(k - 1)}
               after == (((sender.next + k) % SeqMod) + 1) % SeqMod
    <3>1. missed \subseteq Seqno /\ after \in Seqno
      BY <2>2, <2>3
    <3>2. sender' = [sender EXCEPT !.next = after, !.lost = @ \cup missed]
      BY <2>1
    <3> HIDE DEF missed, after
    <3> QED BY <3>1, <3>2 DEF TypeOK
  <2> QED BY <1>2, <2>5, <2>6 DEF TypeOK, Send, lifecycle
<1> QED BY <1>1, <1>2 DEF Sender

LEMMA TypesKept == TypeOK /\ [Next]_vars => TypeOK'
<1>1. TypeOK /\ UNCHANGED vars => TypeOK'
  BY DEF TypeOK, vars, lifecycle, packets
<1> QED BY <1>1, CallsTyped, StepTyped, TasksTyped, SenderTyped DEF Next

(* ------------------------ the steps of the calls ----------------------- *)

LEMMA Joined ==
  ASSUME NEW S, NEW a \in Seq(S), NEW b \in Seq(S)
  PROVE  /\ a \o b \in Seq(S) /\ Len(a \o b) = Len(a) + Len(b)
         /\ \A i \in 1..Len(a) : (a \o b)[i] = a[i]
         /\ \A i \in 1..Len(b) : (a \o b)[Len(a) + i] = b[i]
<1>1. /\ Len(a) \in Nat /\ Len(b) \in Nat
      /\ a \o b \in Seq(S) /\ Len(a \o b) = Len(a) + Len(b)
      /\ \A i \in 1..(Len(a) + Len(b)) :
           (a \o b)[i] = IF i <= Len(a) THEN a[i] ELSE b[i - Len(a)]
  BY ConcatProperties, LenProperties
<1> DEFINE r == a \o b
<1> HIDE DEF r
<1>2. \A i \in 1..(Len(a) + Len(b)) : r[i] = IF i <= Len(a) THEN a[i] ELSE b[i - Len(a)]
  BY <1>1 DEF r
<1>3. \A i \in 1..Len(a) : r[i] = a[i]
  BY <1>1, <1>2
<1>4. \A i \in 1..Len(b) : r[Len(a) + i] = b[i]
  <2> TAKE i \in 1..Len(b)
  <2>1. /\ Len(a) + i \in 1..(Len(a) + Len(b)) /\ ~(Len(a) + i <= Len(a))
        /\ (Len(a) + i) - Len(a) = i
    BY <1>1
  <2> QED BY <1>2, <2>1
<1> QED BY <1>1, <1>3, <1>4 DEF r

(* Each call is in order, and begins with its first step.                  *)
LEMMA SetupScript ==
  ASSUME NEW s \in Stream, Setup(s)
  PROVE  Scripted' /\ Now = Idle /\ Now' = <<"select", s>>
<1> DEFINE a == << <<"select", s>>, <<"format", s>> >>
           b == << <<"select", s>>, <<"start", s>> >>
           c == << <<"enable", "resend">> >>
           q == (a \o b) \o c
<1>1. /\ a \in Seq(Op) /\ b \in Seq(Op) /\ c \in Seq(Op)
      /\ Len(a) = 2 /\ Len(b) = 2 /\ Len(c) = 1
      /\ a[1] = <<"select", s>> /\ a[2] = <<"format", s>>
      /\ b[1] = <<"select", s>> /\ b[2] = <<"start", s>>
      /\ c[1] = <<"enable", "resend">>
  BY DEF Op, Starting, Stream
<1>2. todo' = q /\ todo = <<>> /\ stream' = stream
  BY DEF Setup, Call, Start
<1> HIDE DEF a, b, c
<1>0. 1 \in 1..1 /\ 1 \in 1..2 /\ 2 \in 1..2
      /\ 1 \in 1..4 /\ 2 \in 1..4 /\ 3 \in 1..4 /\ 4 \in 1..4
      /\ 2 + 1 = 3 /\ 2 + 2 = 4 /\ 4 + 1 = 5
  OBVIOUS
<1> DEFINE d == a \o b
<1>2a. a \in Seq(Op) /\ b \in Seq(Op) /\ c \in Seq(Op)
  BY <1>1
<1>2b. Len(a) = 2 /\ Len(b) = 2 /\ Len(c) = 1
  BY <1>1
<1>3. /\ d \in Seq(Op) /\ Len(d) = Len(a) + Len(b)
      /\ \A i \in 1..Len(a) : d[i] = a[i]
      /\ \A i \in 1..Len(b) : d[Len(a) + i] = b[i]
  BY <1>2a, Joined
<1> HIDE DEF d
<1>31. /\ Len(d) = 4
       /\ d[1] = <<"select", s>> /\ d[2] = <<"format", s>>
       /\ d[3] = <<"select", s>> /\ d[4] = <<"start", s>>
  <2>1. d[1] = a[1] /\ d[2] = a[2]
    BY <1>0, <1>2b, <1>3
  <2>2. d[3] = b[1] /\ d[4] = b[2] /\ Len(d) = 4
    BY <1>0, <1>2b, <1>3
  <2> QED BY <1>1, <2>1, <2>2
<1>32. /\ q \in Seq(Op) /\ Len(q) = Len(d) + Len(c)
       /\ \A i \in 1..Len(d) : q[i] = d[i]
       /\ \A i \in 1..Len(c) : q[Len(d) + i] = c[i]
  <2>1. d \in Seq(Op)
    BY <1>3
  <2>2. /\ d \o c \in Seq(Op) /\ Len(d \o c) = Len(d) + Len(c)
        /\ \A i \in 1..Len(d) : (d \o c)[i] = d[i]
        /\ \A i \in 1..Len(c) : (d \o c)[Len(d) + i] = c[i]
    BY <1>2a, <2>1, Joined
  <2> QED BY <2>2 DEF d
<1> HIDE DEF q
<1>4. /\ q \in Seq(Op) /\ Len(q) = 5
      /\ q[1] = <<"select", s>> /\ q[2] = <<"format", s>>
      /\ q[3] = <<"select", s>> /\ q[4] = <<"start", s>>
      /\ q[5] = <<"enable", "resend">>
  <2>0. Len(d) = 4
    BY <1>31
  <2>1. q[1] = d[1] /\ q[2] = d[2] /\ q[3] = d[3] /\ q[4] = d[4]
    BY <1>0, <2>0, <1>32
  <2>2. q[5] = c[1] /\ Len(q) = 5
    BY <1>0, <1>2b, <2>0, <1>32
  <2> QED BY <1>1, <1>31, <1>32, <2>1, <2>2
<1>5. q # <<>> /\ Head(q) = q[1]
  BY <1>4, EmptySeq
<1>6. /\ \A i \in 1..Len(q) : i \in {1, 2, 3, 4, 5}
      /\ \A i \in 1..(Len(q) - 1) : i \in {1, 2, 3, 4}
  BY <1>4
<1>7. /\ q[1 + 1] \in After(q[1]) /\ q[2 + 1] \in After(q[2])
      /\ q[3 + 1] \in After(q[3]) /\ q[4 + 1] \in After(q[4])
      /\ Idle \in After(q[Len(q)])
  <2>0. 1 + 1 = 2 /\ 2 + 1 = 3 /\ 3 + 1 = 4 /\ 4 + 1 = 5
    OBVIOUS
  <2>1. /\ After(<<"select", s>>) = {<<"format", s>>, <<"start", s>>}
        /\ After(<<"format", s>>) = {<<"select", s>>}
        /\ After(<<"start", s>>) = {<<"enable", "resend">>}
    BY AfterOthers
  <2>2. q[2] \in After(q[1]) /\ q[3] \in After(q[2])
    BY <1>4, <2>1
  <2>3. q[4] \in After(q[3])
    BY <1>4, <2>1
  <2>4. q[5] \in After(q[4]) /\ Idle \in After(q[5])
    BY <1>4, <2>1, AfterOthers
  <2> QED BY <1>4, <2>0, <2>2, <2>3, <2>4
<1>8. Ordered(q)
  BY <1>4, <1>6, <1>7 DEF Ordered
<1>9. OneStream(q)
  <2>1. \A i \in {1, 2, 3, 4, 5} : q[i][1] \in {"select", "start"} => q[i][2] = s
    BY <1>4
  <2> QED BY <1>6, <2>1 DEF OneStream
<1>10. Aimed(q, stream)
  <2>1. \A i \in {1, 2, 3, 4, 5} : q[i][1] = "start" => i = 4
    BY <1>4
  <2>2. q[4 - 1] = <<"select", q[4][2]>>
    BY <1>4
  <2> QED BY <1>6, <2>1, <2>2 DEF Aimed
<1> QED BY <1>2, <1>4, <1>5, <1>8, <1>9, <1>10, ScriptedNext DEF Now

LEMMA RecordScript ==
  ASSUME stream \in Stream, Record
  PROVE  Scripted' /\ Now = Idle /\ Now' = <<"select", stream>>
<1> DEFINE b == << <<"select", stream>>, <<"start", stream>> >>
           c == << <<"enable", "resend">> >>
           q == b \o c
<1>1. /\ b \in Seq(Op) /\ c \in Seq(Op) /\ Len(b) = 2 /\ Len(c) = 1
      /\ b[1] = <<"select", stream>> /\ b[2] = <<"start", stream>>
      /\ c[1] = <<"enable", "resend">>
  BY DEF Op, Starting, Stream
<1>2. todo' = q /\ todo = <<>> /\ stream' = stream
  BY DEF Record, Call, Start
<1> HIDE DEF b, c
<1>0. 1 \in 1..1 /\ 1 \in 1..2 /\ 2 \in 1..2 /\ 2 + 1 = 3
  OBVIOUS
<1>2a. b \in Seq(Op) /\ c \in Seq(Op)
  BY <1>1
<1>2b. Len(b) = 2 /\ Len(c) = 1
  BY <1>1
<1>31. /\ q \in Seq(Op) /\ Len(q) = Len(b) + Len(c)
       /\ \A i \in 1..Len(b) : q[i] = b[i]
       /\ \A i \in 1..Len(c) : q[Len(b) + i] = c[i]
  BY <1>2a, Joined
<1> HIDE DEF q
<1>3. /\ q \in Seq(Op) /\ Len(q) = 3
      /\ q[1] = <<"select", stream>> /\ q[2] = <<"start", stream>>
      /\ q[3] = <<"enable", "resend">>
  <2>1. q[1] = b[1] /\ q[2] = b[2]
    BY <1>0, <1>2b, <1>31
  <2>2. q[3] = c[1] /\ Len(q) = 3
    BY <1>0, <1>2b, <1>31
  <2> QED BY <1>1, <1>31, <2>1, <2>2
<1>4. q # <<>> /\ Head(q) = q[1]
  BY <1>3, EmptySeq
<1>5. /\ \A i \in 1..Len(q) : i \in {1, 2, 3}
      /\ \A i \in 1..(Len(q) - 1) : i \in {1, 2}
  BY <1>3
<1>6. /\ q[1 + 1] \in After(q[1]) /\ q[2 + 1] \in After(q[2])
      /\ Idle \in After(q[Len(q)])
  <2>0. 1 + 1 = 2 /\ 2 + 1 = 3
    OBVIOUS
  <2>1. /\ After(<<"select", stream>>) = {<<"format", stream>>, <<"start", stream>>}
        /\ After(<<"start", stream>>) = {<<"enable", "resend">>}
    BY AfterOthers
  <2>2. q[2] \in After(q[1])
    BY <1>3, <2>1
  <2>3. q[3] \in After(q[2]) /\ Idle \in After(q[3])
    BY <1>3, <2>1, AfterOthers
  <2> QED BY <1>3, <2>0, <2>2, <2>3
<1>7. Ordered(q)
  BY <1>3, <1>5, <1>6 DEF Ordered
<1>8. \A i \in {1, 2, 3} : q[i][1] \in {"select", "start"} => q[i][2] = stream
  BY <1>3
<1>9. OneStream(q) /\ Aimed(q, stream)
  BY <1>5, <1>8 DEF OneStream, Aimed
<1> QED BY <1>2, <1>3, <1>4, <1>7, <1>9, ScriptedNext DEF Now

LEMMA StopScript ==
  ASSUME Stop
  PROVE  Scripted' /\ Now = Idle /\ Now' = <<"halt", "realtime">>
<1> DEFINE q == << <<"halt", "realtime">>, <<"halt", "buffered">>, <<"forget", "decoder">> >>
<1>1. /\ q \in Seq(Op) /\ Len(q) = 3 /\ q # <<>> /\ Head(q) = <<"halt", "realtime">>
      /\ q[1] = <<"halt", "realtime">> /\ q[2] = <<"halt", "buffered">>
      /\ q[3] = <<"forget", "decoder">>
  BY DEF Op, Stream
<1>2. todo' = q /\ todo = <<>> /\ stream' = stream
  BY DEF Stop, Call, StopAll
<1> HIDE DEF q
<1>3. /\ \A i \in 1..Len(q) : i \in {1, 2, 3}
      /\ \A i \in 1..(Len(q) - 1) : i \in {1, 2}
  BY <1>1
<1>4. /\ q[1 + 1] \in After(q[1]) /\ q[2 + 1] \in After(q[2])
      /\ Idle \in After(q[Len(q)])
  BY <1>1, AfterOthers, AfterRealtime, AfterBuffered DEF AfterHalt
<1>5. Ordered(q)
  BY <1>1, <1>3, <1>4 DEF Ordered
<1>6. \A i \in {1, 2, 3} : q[i][1] \notin {"select", "start"}
  BY <1>1
<1>7. OneStream(q) /\ Aimed(q, stream)
  BY <1>3, <1>6 DEF OneStream, Aimed
<1> QED BY <1>1, <1>2, <1>5, <1>7, ScriptedNext DEF Now

LEMMA SelectMoves ==
  ASSUME Scripted, stream \in Stream, NEW s \in Stream, Select(s)
  PROVE  /\ Scripted' /\ Now = <<"select", s>>
         /\ \/ /\ stream # s /\ running[stream]
               /\ stream' = stream /\ Now' = <<"halt", stream>>
            \/ /\ ~(stream # s /\ running[stream])
               /\ stream' = s /\ Now' \in {<<"format", s>>, <<"start", s>>}
<1>1. todo # <<>> /\ Head(todo) = <<"select", s>> /\ Now = <<"select", s>>
  BY AtNow DEF Select
<1>2. CASE stream # s /\ running[stream]
  <2>1. /\ todo' = << <<"halt", stream>> >> \o todo /\ stream' = stream
    BY <1>2 DEF Select
  <2>2. Head(todo) \in After(<<"halt", stream>>)
    BY <1>1, <1>2, AfterRealtime, AfterBuffered DEF AfterHalt, Stream
  <2> QED BY <1>1, <1>2, <2>1, <2>2, HaltsFirst
<1>3. CASE ~(stream # s /\ running[stream])
  <2>1. Continue(<<>>) /\ stream' = s
    BY <1>3 DEF Select
  <2>2. Head(todo)[1] = "select" /\ Head(todo)[2] = s
    BY <1>1
  <2>3. Scripted' /\ Now' \in After(Now)
    BY <1>1, <2>1, <2>2, GoesOn
  <2> QED BY <1>1, <1>3, <2>1, <2>3, AfterOthers
<1> QED BY <1>2, <1>3

LEMMA StartMoves ==
  ASSUME Scripted, NEW s \in Stream, StartStream(s)
  PROVE  /\ Scripted' /\ Now = <<"start", s>> /\ stream = s /\ stream' = stream
         /\ \/ running[s] /\ s = "realtime" /\ Now' = <<"halt", "realtime">>
            \/ running[s] /\ s = "buffered" /\ Now' = <<"enable", "resend">>
            \/ /\ ~running[s] /\ s = "realtime" /\ Now' = <<"open", "data">>
            \/ /\ ~running[s] /\ s = "buffered" /\ Now' = <<"open", "listen">>
<1>1. /\ todo # <<>> /\ Head(todo) = <<"start", s>> /\ Now = <<"start", s>>
      /\ stream' = stream /\ At("start", s)
  BY AtNow DEF StartStream
<1>2. stream = s /\ Head(todo)[1] # "select"
  BY <1>1, StartIsAimed
<1>3. CASE running[s] /\ s = "realtime"
  <2>1. todo' = << <<"halt", "realtime">> >> \o todo
    BY <1>3 DEF StartStream
  <2>2. Head(todo) \in After(<<"halt", "realtime">>)
    BY <1>1, <1>3, AfterRealtime DEF AfterHalt
  <2> QED BY <1>1, <1>2, <1>3, <2>1, <2>2, HaltsFirst
<1>4. CASE running[s] /\ s # "realtime"
  <2>1. Continue(<<>>) /\ s = "buffered"
    BY <1>4 DEF StartStream, Stream
  <2> QED BY <1>1, <1>2, <1>4, <2>1, Advances, AfterOthers
<1>5. CASE ~running[s]
  <2>1. Continue(StartSteps(s))
    BY <1>5 DEF StartStream
  <2>2. Scripted' /\ Now' = StartSteps(s)[1]
    BY <1>1, <1>2, <2>1, StartStepsInOrder, Adds
  <2> QED BY <1>1, <1>2, <1>5, <2>2, StartStepsInOrder DEF Stream
<1> QED BY <1>3, <1>4, <1>5

LEMMA HaltMoves ==
  ASSUME Scripted, NEW s \in Stream, Halt(s)
  PROVE  /\ Scripted' /\ Now = <<"halt", s>>
         /\ \/ running[s] /\ s = "realtime" /\ Now' = <<"close", "data">>
            \/ running[s] /\ s = "buffered" /\ Now' = <<"close", "client">>
            \/ ~running[s] /\ Now' \in AfterHalt(s)
<1>1. /\ todo # <<>> /\ Head(todo) = <<"halt", s>> /\ Now = <<"halt", s>>
      /\ stream' = stream /\ At("halt", s) /\ Head(todo)[1] # "select"
  BY AtNow DEF Halt
<1>2. CASE running[s]
  <2>1. Continue(StopSteps(s))
    BY <1>2 DEF Halt
  <2>2. Scripted' /\ Now' = StopSteps(s)[1]
    BY <1>1, <2>1, StopStepsInOrder, Adds
  <2> QED BY <1>1, <1>2, <2>2, StopStepsInOrder DEF Stream
<1>3. CASE ~running[s]
  <2>1. Continue(<<>>)
    BY <1>3 DEF Halt
  <2> QED BY <1>1, <1>3, <2>1, Advances, AfterRealtime, AfterBuffered DEF Stream
<1> QED BY <1>2, <1>3

(* ------------------ which stream runs, and where to -------------------- *)

LEMMA CallsKeepChosen ==
  ASSUME Streams, Calls
  PROVE  Scripted' /\ Chosen'
<1>1. UNCHANGED <<stream, running>>
  BY DEF Calls, Setup, Record, Stop, Call
<1>2. /\ Scripted' /\ Now = Idle
      /\ \/ \E s \in Stream : Now' = <<"select", s>>
         \/ Now' = <<"halt", "realtime">>
  BY SetupScript, RecordScript, StopScript DEF Calls, Streams, TypeOK
<1>3. /\ \A s \in Stream : Now' \notin Starting(s) /\ Now' \notin Stopping(s)
      /\ Now' \notin {<<"halt", "buffered">>, <<"forget", "decoder">>}
  BY <1>2 DEF Starting, Opening, Creating, Stopping, Stream
<1> QED BY <1>1, <1>2, <1>3 DEF Streams, Chosen, Starting

LEMMA SelectKeepsChosen ==
  ASSUME Streams, NEW s \in Stream, Select(s)
  PROVE  Scripted' /\ Chosen'
<1>1. running' = running /\ stream \in Stream
  BY DEF Select, Streams, TypeOK
<1>2. /\ Scripted' /\ Now = <<"select", s>>
      /\ \/ /\ stream # s /\ running[stream]
            /\ stream' = stream /\ Now' = <<"halt", stream>>
         \/ /\ ~(stream # s /\ running[stream])
            /\ stream' = s /\ Now' \in {<<"format", s>>, <<"start", s>>}
  BY <1>1, SelectMoves DEF Streams
<1>3. \A r \in Stream : running[r] => stream = r
  BY DEF Streams, Chosen
<1>4. CASE Now' = <<"halt", stream>> /\ stream' = stream
  BY <1>1, <1>2, <1>3, <1>4
     DEF Chosen, Starting, Opening, Creating, Stopping, Stream
<1>5. CASE /\ ~(stream # s /\ running[stream])
           /\ stream' = s /\ Now' \in {<<"format", s>>, <<"start", s>>}
  <2>1. \A r \in Stream : running'[r] => stream' = r
    BY <1>1, <1>3, <1>5
  <2>2. /\ \A r \in Stream : /\ Now' \in Starting(r) => r = s
                             /\ Now' \notin Opening(r) /\ Now' \notin Creating(r)
                             /\ Now' \notin Stopping(r)
        /\ Now' # <<"halt", "buffered">> /\ Now' # <<"forget", "decoder">>
    BY <1>5 DEF Starting, Opening, Creating, Stopping, Stream
  <2> QED BY <1>2, <1>5, <2>1, <2>2 DEF Chosen
<1> QED BY <1>2, <1>4, <1>5

LEMMA StartKeepsChosen ==
  ASSUME Streams, NEW s \in Stream, StartStream(s)
  PROVE  Scripted' /\ Chosen'
<1>1. UNCHANGED <<stream, running>>
  BY DEF StartStream
<1>2. /\ Scripted' /\ stream = s
      /\ \/ running[s] /\ s = "realtime" /\ Now' = <<"halt", "realtime">>
         \/ Now' = <<"enable", "resend">>
         \/ ~running[s] /\ s = "realtime" /\ Now' = <<"open", "data">>
         \/ ~running[s] /\ s = "buffered" /\ Now' = <<"open", "listen">>
  BY StartMoves DEF Streams
<1>3. \A r \in Stream : running[r] => stream = r
  BY DEF Streams, Chosen
<1> QED BY <1>1, <1>2, <1>3
        DEF Chosen, Starting, Opening, Creating, Stopping, Stream

LEMMA HaltKeepsChosen ==
  ASSUME Streams, NEW s \in Stream, Halt(s)
  PROVE  Scripted' /\ Chosen'
<1>1. /\ stream' = stream /\ running' = [running EXCEPT ![s] = FALSE]
      /\ running \in [Stream -> BOOLEAN]
  BY DEF Halt, Streams, TypeOK
<1>2. /\ Scripted' /\ Now = <<"halt", s>>
      /\ \/ running[s] /\ s = "realtime" /\ Now' = <<"close", "data">>
         \/ running[s] /\ s = "buffered" /\ Now' = <<"close", "client">>
         \/ ~running[s] /\ Now' \in AfterHalt(s)
  BY HaltMoves DEF Streams
<1>3. /\ \A r \in Stream : running[r] => stream = r
      /\ Now = <<"halt", "buffered">> => ~running["realtime"]
  BY DEF Streams, Chosen
<1>4. /\ ~running'[s]
      /\ \A r \in Stream : running'[r] => running[r]
  BY <1>1
<1>5. CASE running[s]
  <2>1. \A r \in Stream : ~running'[r]
    BY <1>1, <1>3, <1>4, <1>5
  <2> QED BY <1>2, <1>5, <2>1
          DEF Chosen, Starting, Opening, Creating, Stopping, Stream, AfterHalt
<1>6. CASE ~running[s]
  <2>1. s = "buffered" => \A r \in Stream : ~running'[r]
    BY <1>2, <1>3, <1>4 DEF Stream
  <2>2. Now' = <<"start", "realtime">> => stream' = "realtime"
    BY <1>2, StartIsAimed
  <2> QED BY <1>1, <1>2, <1>3, <1>4, <1>6, <2>1, <2>2
          DEF Chosen, Starting, Opening, Creating, Stopping, Stream, AfterHalt
<1> QED BY <1>5, <1>6

(* The steps that change neither the stream nor which one runs.            *)
LEMMA PlainKeepsChosen ==
  ASSUME Streams, UNCHANGED <<stream, running>>, Scripted',
         NEW s \in Stream,
         \/ Now = <<"format", s>> /\ Now' = <<"select", s>>
         \/ Now \in Opening(s) /\ Now' \in Opening(s)
         \/ Now \in Creating(s) /\ Now' \in Creating(s)
         \/ Now \in Stopping(s) /\ Now' \in Stopping(s)
         \/ Now \in Stopping(s) /\ Now' \in AfterHalt(s)
         \/ Now' \in {Idle, <<"enable", "resend">>}
  PROVE  Chosen'
<1>1. /\ \A r \in Stream : running[r] => stream = r
      /\ \A r \in Stream : /\ Now \in Starting(r) => stream = r
                           /\ Now \in Opening(r) => ~running[r]
                           /\ Now \in Creating(r) => running[r]
                           /\ Now \in Stopping(r) => \A u \in Stream : ~running[u]
  BY DEF Streams, Chosen
<1>2. \A r \in Stream : running'[r] => stream' = r
  BY <1>1
<1>3. CASE \/ Now' \in {Idle, <<"enable", "resend">>}
           \/ Now' = <<"select", s>>
  BY <1>2, <1>3 DEF Chosen, Idle, Starting, Opening, Creating, Stopping, Stream
<1>4. CASE Now \in Opening(s) /\ Now' \in Opening(s)
  <2>1. stream = s /\ ~running[s]
    BY <1>1, <1>4 DEF Starting
  <2> QED BY <1>2, <1>4, <2>1 DEF Chosen, Starting, Opening, Creating, Stopping, Stream
<1>5. CASE Now \in Creating(s) /\ Now' \in Creating(s)
  <2>1. stream = s /\ running[s]
    BY <1>1, <1>5 DEF Starting
  <2> QED BY <1>2, <1>5, <2>1 DEF Chosen, Starting, Opening, Creating, Stopping, Stream
<1>6. CASE Now \in Stopping(s) /\ Now' \in Stopping(s) \cup AfterHalt(s)
  <2>1. \A r \in Stream : ~running[r]
    BY <1>1, <1>6
  <2>2. \A r \in Stream : Now' = <<"start", r>> => stream' = r
    BY StartIsAimed
  <2> QED BY <1>2, <1>6, <2>1, <2>2
          DEF Chosen, Starting, Opening, Creating, Stopping, Stream, AfterHalt
<1> QED BY <1>3, <1>4, <1>5, <1>6

LEMMA FormatKeepsChosen ==
  ASSUME Streams, NEW s \in Stream, SetFormat(s)
  PROVE  Scripted' /\ Chosen' /\ Now = <<"format", s>> /\ Now' = <<"select", s>>
<1>1. UNCHANGED <<stream, running>> /\ At("format", s) /\ Continue(<<>>)
  BY DEF SetFormat
<1>2. Scripted' /\ Now = <<"format", s>> /\ Now' \in After(<<"format", s>>)
  BY <1>1, Advances DEF Streams
<1>3. Now' = <<"select", s>>
  BY <1>2, AfterOthers
<1> QED BY <1>1, <1>2, <1>3, PlainKeepsChosen

(* Where the steps of one stream's start and stop lead.                    *)
LEMMA OpenMoves ==
  ASSUME Streams, NEW x, OpenSocket(x)
  PROVE  /\ Scripted' /\ Chosen' /\ Now = <<"open", x>>
         /\ x \in {"data", "control", "listen"}
         /\ \/ /\ socket' = socket \cup {x} /\ queue' = queue
               /\ \/ x = "data" /\ Now' = <<"open", "control">>
                  \/ x = "control" /\ Now' = <<"run", "realtime">>
                  \/ x = "listen" /\ Now' = <<"run", "buffered">>
            \/ /\ socket' = socket \ {"data"} /\ queue' = <<>>
               /\ Now' \in {Idle, <<"enable", "resend">>}
<1>1. UNCHANGED <<stream, running>> /\ At("open", x)
  BY DEF OpenSocket
<1>2. Now = <<"open", x>> /\ <<"open", x>> \in Op
  BY <1>1, AtNow, AtOp DEF Streams
<1>3. x \in {"data", "control", "listen"}
  BY <1>2 DEF Op, Starting, Opening, Creating, Stopping, Stream
<1>4. CASE socket' = socket \cup {x} /\ queue' = queue /\ Continue(<<>>)
  <2>1. Scripted' /\ Now' \in After(<<"open", x>>)
    BY <1>1, <1>4, Advances DEF Streams
  <2>2. \/ x = "data" /\ Now' = <<"open", "control">>
        \/ x = "control" /\ Now' = <<"run", "realtime">>
        \/ x = "listen" /\ Now' = <<"run", "buffered">>
    BY <1>3, <2>1, AfterRealtime, AfterBuffered
  <2>3. \E s \in Stream : Now \in Opening(s) /\ Now' \in Opening(s)
    BY <1>2, <2>2 DEF Opening, Stream
  <2> QED BY <1>1, <1>2, <1>3, <1>4, <2>1, <2>2, <2>3, PlainKeepsChosen
<1>5. CASE socket' = socket \ {"data"} /\ queue' = <<>> /\ todo' \in Unstarted
  <2>1. Scripted' /\ Now' \in {Idle, <<"enable", "resend">>}
    BY <1>1, <1>5, GivesUp
  <2> QED BY <1>1, <1>2, <1>3, <1>5, <2>1, PlainKeepsChosen DEF Stream
<1> QED BY <1>4, <1>5 DEF OpenSocket

LEMMA RunMoves ==
  ASSUME Streams, NEW s \in Stream, Run(s)
  PROVE  /\ Scripted' /\ Chosen' /\ Now = <<"run", s>> /\ ~running[s]
         /\ \A r \in Stream : running'[r] <=> r = s
         /\ Now' = IF s = "realtime" THEN <<"create", "recv">> ELSE <<"create", "buff">>
<1>1. /\ stream' = stream /\ At("run", s) /\ Continue(<<>>)
      /\ running' = [running EXCEPT ![s] = TRUE] /\ running \in [Stream -> BOOLEAN]
  BY DEF Run, Streams, TypeOK
<1>2. Scripted' /\ Now = <<"run", s>> /\ Now' \in After(<<"run", s>>)
  BY <1>1, Advances DEF Streams
<1>3. Now' = IF s = "realtime" THEN <<"create", "recv">> ELSE <<"create", "buff">>
  BY <1>2, AfterRealtime, AfterBuffered DEF Stream
<1>4. Now \in Opening(s)
  BY <1>2 DEF Opening, Stream
<1>5. stream = s /\ ~running[s] /\ \A r \in Stream : running[r] => stream = r
  BY <1>4 DEF Streams, Chosen, Starting
<1>6. \A r \in Stream : running'[r] <=> r = s
  BY <1>1, <1>5
<1>7. Chosen'
  BY <1>1, <1>3, <1>5, <1>6
     DEF Chosen, Starting, Opening, Creating, Stopping, Stream
<1> QED BY <1>2, <1>3, <1>5, <1>6, <1>7

LEMMA CreateMoves ==
  ASSUME Streams, NEW t \in Task, CreateTask(t)
  PROVE  /\ Scripted' /\ Chosen' /\ Now = <<"create", t>>
         /\ Now' = IF t = "recv" THEN <<"create", "ctrl">> ELSE <<"enable", "resend">>
<1>1. UNCHANGED <<stream, running>> /\ At("create", t) /\ Continue(<<>>)
  BY DEF CreateTask
<1>2. Scripted' /\ Now = <<"create", t>> /\ Now' \in After(<<"create", t>>)
  BY <1>1, Advances DEF Streams
<1>3. Now' = IF t = "recv" THEN <<"create", "ctrl">> ELSE <<"enable", "resend">>
  BY <1>2, AfterRealtime, AfterBuffered DEF Task
<1>4. \/ Now \in Creating("realtime") /\ Now' \in Creating("realtime")
      \/ Now' = <<"enable", "resend">>
  BY <1>2, <1>3 DEF Creating, Task
<1> QED BY <1>1, <1>2, <1>3, <1>4, PlainKeepsChosen DEF Stream

LEMMA EnableMoves ==
  ASSUME Streams, EnableResend
  PROVE  Scripted' /\ Chosen' /\ Now = <<"enable", "resend">> /\ Now' = Idle
<1>1. UNCHANGED <<stream, running>> /\ At("enable", "resend") /\ Continue(<<>>)
  BY DEF EnableResend
<1>2. Scripted' /\ Now = <<"enable", "resend">> /\ Now' \in After(<<"enable", "resend">>)
  BY <1>1, Advances DEF Streams
<1>3. Now' = Idle
  BY <1>2, AfterOthers
<1> QED BY <1>1, <1>2, <1>3, PlainKeepsChosen DEF Stream

LEMMA ForgetMoves ==
  ASSUME Streams, ForgetDecoder
  PROVE  Scripted' /\ Chosen' /\ Now = <<"forget", "decoder">> /\ Now' = Idle
<1>1. UNCHANGED <<stream, running>> /\ At("forget", "decoder") /\ Continue(<<>>)
  BY DEF ForgetDecoder
<1>2. Scripted' /\ Now = <<"forget", "decoder">> /\ Now' \in After(<<"forget", "decoder">>)
  BY <1>1, Advances DEF Streams
<1>3. Now' = Idle
  BY <1>2, AfterOthers
<1> QED BY <1>1, <1>2, <1>3, PlainKeepsChosen DEF Stream

LEMMA CloseMoves ==
  ASSUME Streams, NEW x, CloseSocket(x)
  PROVE  /\ Scripted' /\ Chosen' /\ Now = <<"close", x>>
         /\ \/ x = "data" /\ Now' = <<"close", "control">>
            \/ x = "control" /\ Now' = <<"await", "recv">>
            \/ x = "client" /\ Now' = <<"close", "listen">>
            \/ x = "listen" /\ Now' = <<"await", "buff">>
<1>1. UNCHANGED <<stream, running>> /\ At("close", x) /\ Continue(<<>>)
  BY DEF CloseSocket
<1>2. /\ Scripted' /\ Now = <<"close", x>> /\ <<"close", x>> \in Op
      /\ Now' \in After(<<"close", x>>)
  BY <1>1, Advances, AtOp DEF Streams
<1>3. x \in {"data", "control", "client", "listen"}
  BY <1>2 DEF Op, Starting, Opening, Creating, Stopping, Stream
<1>4. \/ x = "data" /\ Now' = <<"close", "control">>
      \/ x = "control" /\ Now' = <<"await", "recv">>
      \/ x = "client" /\ Now' = <<"close", "listen">>
      \/ x = "listen" /\ Now' = <<"await", "buff">>
  BY <1>2, <1>3, AfterRealtime, AfterBuffered
<1>5. \E s \in Stream : Now \in Stopping(s) /\ Now' \in Stopping(s)
  BY <1>2, <1>4 DEF Stopping, Stream
<1> QED BY <1>1, <1>2, <1>4, <1>5, PlainKeepsChosen

LEMMA AwaitMoves ==
  ASSUME Streams, NEW t \in Task, AwaitTask(t)
  PROVE  /\ Scripted' /\ Chosen' /\ Now = <<"await", t>>
         /\ \/ t = "recv" /\ Now' = <<"await", "ctrl">>
            \/ t = "ctrl" /\ Now' \in AfterHalt("realtime")
            \/ t = "buff" /\ Now' = <<"free", "buff">>
<1>1. UNCHANGED <<stream, running>> /\ At("await", t) /\ Continue(<<>>)
  BY DEF AwaitTask
<1>2. Scripted' /\ Now = <<"await", t>> /\ Now' \in After(<<"await", t>>)
  BY <1>1, Advances DEF Streams
<1>3. \/ t = "recv" /\ Now' = <<"await", "ctrl">>
      \/ t = "ctrl" /\ Now' \in AfterHalt("realtime")
      \/ t = "buff" /\ Now' = <<"free", "buff">>
  BY <1>2, AfterRealtime, AfterBuffered DEF Task
<1>4. \E s \in Stream : Now \in Stopping(s) /\ Now' \in Stopping(s) \cup AfterHalt(s)
  BY <1>2, <1>3 DEF Stopping, Stream
<1> QED BY <1>1, <1>2, <1>3, <1>4, PlainKeepsChosen

LEMMA FreeMoves ==
  ASSUME Streams, FreeBuffer
  PROVE  /\ Scripted' /\ Chosen' /\ Now = <<"free", "buff">>
         /\ Now' \in AfterHalt("buffered")
<1>1. UNCHANGED <<stream, running>> /\ At("free", "buff") /\ Continue(<<>>)
  BY DEF FreeBuffer
<1>2. Scripted' /\ Now = <<"free", "buff">> /\ Now' \in After(<<"free", "buff">>)
  BY <1>1, Advances DEF Streams
<1>3. Now' \in AfterHalt("buffered")
  BY <1>2, AfterBuffered
<1>4. Now \in Stopping("buffered")
  BY <1>2 DEF Stopping
<1> QED BY <1>1, <1>2, <1>3, <1>4, PlainKeepsChosen DEF Stream

(* ------------------------ what is left of them ------------------------- *)

(* The steps at which no stream is between stopped and running.            *)
Quiet == {Idle, <<"open", "data">>, <<"open", "listen">>, <<"enable", "resend">>,
          <<"forget", "decoder">>}
         \cup ({"select", "format", "halt", "start"} \X Stream)

LEMMA QuietSteps ==
  \A a \in Quiet :
    /\ \A s \in Stream : a \notin Stopping(s) /\ a \notin Creating(s)
    /\ a \notin {<<"open", "control">>, <<"run", "realtime">>, <<"run", "buffered">>}
BY DEF Quiet, Stopping, Creating, Idle, Stream

LEMMA QuietKept ==
  ASSUME Lives, Sockets, Connected, Now \in Quiet, Now' \in Quiet,
         UNCHANGED <<running, socket, handle, task, conn, buffer>>
  PROVE  (Lives /\ Sockets /\ Connected)'
<1>1. \A a \in {Now, Now'} :
        /\ a \notin Stopping("realtime") /\ a \notin Stopping("buffered")
        /\ a \notin Creating("realtime") /\ a \notin Creating("buffered")
        /\ a \notin {<<"open", "control">>, <<"run", "realtime">>, <<"run", "buffered">>}
  BY QuietSteps DEF Stream
<1>2. Lives'
  BY <1>1 DEF Lives, Stopping, Creating, Stream
<1>3. Sockets'
  BY <1>1 DEF Sockets, Stopping, Creating
<1>4. Connected'
  BY <1>1 DEF Connected, Stopping, Creating, Serving
<1> QED BY <1>2, <1>3, <1>4

LEMMA QuietStepsKeep ==
  ASSUME Streams,
         \/ Calls
         \/ EnableResend \/ ForgetDecoder
         \/ \E s \in Stream : \/ Select(s) \/ SetFormat(s) \/ StartStream(s)
                              \/ Halt(s) /\ ~running[s]
  PROVE  (Lives /\ Sockets /\ Connected)'
<1>1. CASE Calls
  <2>1. UNCHANGED <<running, socket, handle, task, conn, buffer>>
    BY <1>1 DEF Calls, Setup, Record, Stop, Call
  <2>2. Now \in Quiet /\ Now' \in Quiet
    BY <1>1, SetupScript, RecordScript, StopScript DEF Calls, Quiet, Streams, TypeOK, Stream
  <2> QED BY <2>1, <2>2, QuietKept DEF Streams
<1>2. CASE EnableResend \/ ForgetDecoder
  <2>1. UNCHANGED <<running, socket, handle, task, conn, buffer>>
    BY <1>2 DEF EnableResend, ForgetDecoder
  <2>2. Now \in Quiet /\ Now' \in Quiet
    BY <1>2, EnableMoves, ForgetMoves DEF Quiet
  <2> QED BY <2>1, <2>2, QuietKept DEF Streams
<1>3. ASSUME NEW s \in Stream, Select(s) \/ SetFormat(s) \/ StartStream(s)
      PROVE  (Lives /\ Sockets /\ Connected)'
  <2>1. UNCHANGED <<running, socket, handle, task, conn, buffer>>
    BY <1>3 DEF Select, SetFormat, StartStream
  <2>2. Now \in Quiet /\ Now' \in Quiet
    BY <1>3, SelectMoves, FormatKeepsChosen, StartMoves DEF Quiet, Streams, TypeOK, Stream
  <2> QED BY <2>1, <2>2, QuietKept DEF Streams
<1>4. ASSUME NEW s \in Stream, Halt(s), ~running[s]
      PROVE  (Lives /\ Sockets /\ Connected)'
  <2>1. UNCHANGED <<socket, handle, task, conn, buffer>>
    BY <1>4 DEF Halt
  <2>2. Now \in Quiet /\ Now' \in Quiet
    BY <1>4, HaltMoves DEF Quiet, AfterHalt, Streams, Stream
  <2>3. running' = running
    BY <1>4 DEF Halt, Streams, TypeOK
  <2> QED BY <2>1, <2>2, <2>3, QuietKept DEF Streams
<1> QED BY <1>1, <1>2, <1>3, <1>4

LEMMA OpenKeeps ==
  ASSUME Streams, NEW x, OpenSocket(x)
  PROVE  (Lives /\ Sockets /\ Connected)'
<1>1. UNCHANGED <<running, handle, task, conn, buffer>>
  BY DEF OpenSocket
<1>2. /\ Now = <<"open", x>> /\ x \in {"data", "control", "listen"}
      /\ \/ /\ socket' = socket \cup {x}
            /\ \/ x = "data" /\ Now' = <<"open", "control">>
               \/ x = "control" /\ Now' = <<"run", "realtime">>
               \/ x = "listen" /\ Now' = <<"run", "buffered">>
         \/ /\ socket' = socket \ {"data"}
            /\ Now' \in {Idle, <<"enable", "resend">>}
  BY OpenMoves
<1>3. \A s \in Stream : ~running[s]
  <2>1. PICK s \in Stream : Now \in Opening(s)
    BY <1>2 DEF Opening, Stream
  <2> QED BY <2>1 DEF Streams, Chosen, Starting
<1>4. \A t \in Task : task[t] = "gone"
  BY <1>2, <1>3 DEF Streams, Lives, Stopping, TasksOf, Stream, Task
<1>5. \A s \in Stream : Now' \notin Stopping(s) /\ Now' \notin Creating(s)
  BY <1>2 DEF Stopping, Creating, Stream, Idle
<1>6. Lives'
  BY <1>1, <1>3, <1>4, <1>5 DEF Streams, Lives, Creating, Stopping, Stream, TasksOf, Task
<1>7. Sockets'
  BY <1>1, <1>2, <1>3 DEF Streams, Sockets, Idle, Stream
<1>8. Connected'
  BY <1>1, <1>2, <1>3, <1>4 DEF Streams, Connected, Serving, Stopping, Idle, Stream, Task
<1> QED BY <1>6, <1>7, <1>8

LEMMA RunKeeps ==
  ASSUME Streams, NEW s \in Stream, Run(s)
  PROVE  (Lives /\ Sockets /\ Connected)'
<1>1. UNCHANGED <<socket, handle, task, conn, buffer>>
  BY DEF Run
<1>2. /\ Now = <<"run", s>> /\ ~running[s]
      /\ \A r \in Stream : running'[r] <=> r = s
      /\ Now' = IF s = "realtime" THEN <<"create", "recv">> ELSE <<"create", "buff">>
  BY RunMoves
<1>3. \A r \in Stream : ~running[r]
  <2>1. Now \in Opening(s)
    BY <1>2 DEF Opening, Stream
  <2> QED BY <1>2, <2>1 DEF Streams, Chosen, Starting
<1>4. \A t \in Task : task[t] = "gone"
  BY <1>2, <1>3 DEF Streams, Lives, Stopping, TasksOf, Stream, Task
<1>6. Lives'
  BY <1>1, <1>2, <1>4 DEF Streams, Lives, Stopping, Stream, TasksOf, Task
<1>7. Sockets'
  BY <1>1, <1>2, <1>3 DEF Streams, Sockets, Stream
<1>8. Connected'
  BY <1>1, <1>2, <1>3, <1>4 DEF Streams, Connected, Serving, Stopping, Stream, Task
<1> QED BY <1>6, <1>7, <1>8

LEMMA CreateKeeps ==
  ASSUME Streams, NEW t \in Task, CreateTask(t)
  PROVE  (Lives /\ Sockets /\ Connected)'
<1>1. /\ UNCHANGED <<running, socket, conn, buffer>>
      /\ task' = [task EXCEPT ![t] = "loop"] /\ handle' = handle \cup {t}
  BY DEF CreateTask
<1>2. /\ Now = <<"create", t>>
      /\ Now' = IF t = "recv" THEN <<"create", "ctrl">> ELSE <<"enable", "resend">>
  BY CreateMoves
<1>3. running[StreamOf(t)] /\ \A s \in Stream : running[s] => s = StreamOf(t)
  <2>1. Now \in Creating(StreamOf(t)) /\ StreamOf(t) \in Stream
    BY <1>2 DEF Creating, StreamOf, Task, Stream
  <2> QED BY <2>1 DEF Streams, Chosen, Starting
<1>4. task[t] = "gone" /\ (t = "recv" => task["ctrl"] = "gone")
  BY <1>2 DEF Streams, Lives, Task
<1>5. /\ task \in [Task -> {"gone", "loop", "recv", "decode", "accept", "store", "read", "leave"}]
      /\ task'[t] = "loop" /\ \A u \in Task : u # t => task'[u] = task[u]
  BY <1>1 DEF Streams, TypeOK
<1>6. Lives'
  <2>1. \A u \in Task : task'[u] \in Places[u] /\ (u \in handle' <=> task'[u] # "gone")
    BY <1>1, <1>5 DEF Streams, Lives, Places, Task
  <2>2. \A s \in Stream : ~running'[s] => \A u \in TasksOf(s) : task'[u] = "gone"
    BY <1>1, <1>2, <1>3, <1>5 DEF Streams, Lives, TasksOf, StreamOf, Stopping, Stream, Task
  <2>3. running'["buffered"] => task'["buff"] # "gone"
    BY <1>1, <1>3, <1>5 DEF StreamOf, Stream, Task
  <2>4. Now' = <<"create", "ctrl">> => task'["ctrl"] = "gone"
    BY <1>2, <1>4, <1>5 DEF Task
  <2> QED BY <1>2, <2>1, <2>2, <2>3, <2>4 DEF Lives
<1>7. Sockets'
  BY <1>1, <1>2 DEF Streams, Sockets, Task
<1>8. Connected'
  <2>1. CASE t = "buff"
    BY <1>1, <1>2, <1>3, <1>4, <1>5, <2>1 DEF Streams, Connected, Serving, Stopping, StreamOf, Stream
  <2>2. CASE t # "buff"
    <3>1. task'["buff"] = task["buff"]
      BY <1>5, <2>2 DEF Task
    <3> QED BY <1>1, <1>2, <3>1 DEF Streams, Connected, Stopping, Task
  <2> QED BY <2>1, <2>2
<1> QED BY <1>6, <1>7, <1>8

LEMMA HaltKeeps ==
  ASSUME Streams, NEW s \in Stream, Halt(s), running[s]
  PROVE  (Lives /\ Sockets /\ Connected)'
<1>1. /\ UNCHANGED <<socket, handle, task, conn, buffer>>
      /\ \A r \in Stream : ~running'[r] /\ (running[r] => r = s)
  <2>1. \A r \in Stream : running[r] => r = s
    BY DEF Streams, Chosen
  <2> QED BY <2>1 DEF Halt, Streams, TypeOK
<1>2. /\ Now = <<"halt", s>>
      /\ Now' = IF s = "realtime" THEN <<"close", "data">> ELSE <<"close", "client">>
  BY HaltMoves DEF Streams, Stream
<1>3. Lives'
  BY <1>1, <1>2 DEF Streams, Lives, Stopping, Stream, TasksOf
<1>4. Sockets'
  BY <1>1, <1>2 DEF Streams, Sockets, Stream
<1>5. Connected'
  BY <1>1, <1>2 DEF Streams, Connected, Stopping, Stream
<1> QED BY <1>3, <1>4, <1>5

LEMMA CloseKeeps ==
  ASSUME Streams, NEW x, CloseSocket(x)
  PROVE  (Lives /\ Sockets /\ Connected)'
<1>1. /\ UNCHANGED <<running, handle, task, buffer>>
      /\ socket' = socket \ {x}
      /\ conn' = IF x = "client" /\ x \in socket /\ conn # "none" THEN "closed"
                 ELSE IF x = "listen" /\ conn = "backlog" THEN "none"
                 ELSE conn
  BY DEF CloseSocket
<1>2. /\ Now = <<"close", x>>
      /\ \/ x = "data" /\ Now' = <<"close", "control">>
         \/ x = "control" /\ Now' = <<"await", "recv">>
         \/ x = "client" /\ Now' = <<"close", "listen">>
         \/ x = "listen" /\ Now' = <<"await", "buff">>
  BY CloseMoves
<1>3. \A s \in Stream : ~running[s]
  <2>1. \E s \in Stream : Now \in Stopping(s)
    BY <1>2 DEF Stopping, Stream
  <2> QED BY <2>1 DEF Streams, Chosen
<1>4. Lives'
  BY <1>1, <1>2, <1>3 DEF Streams, Lives, Stopping, Stream, TasksOf
<1>5. Sockets'
  BY <1>1, <1>2, <1>3 DEF Streams, Sockets, Stream
<1>6. Connected'
  BY <1>1, <1>2, <1>3 DEF Streams, Connected, Lives, Places, Task, Serving, Stopping, Stream
<1> QED BY <1>4, <1>5, <1>6

LEMMA AwaitKeeps ==
  ASSUME Streams, NEW t \in Task, AwaitTask(t)
  PROVE  (Lives /\ Sockets /\ Connected)' /\ task[t] = "gone"
<1>1. /\ UNCHANGED <<running, socket, task, conn, buffer>>
      /\ handle' = handle \ {t}
      /\ t \in handle => task[t] = "gone" \/ Blocked(t)
  BY DEF AwaitTask
<1>2. /\ Now = <<"await", t>>
      /\ \/ t = "recv" /\ Now' = <<"await", "ctrl">>
         \/ t = "ctrl" /\ Now' \in AfterHalt("realtime")
         \/ t = "buff" /\ Now' = <<"free", "buff">>
  BY AwaitMoves
<1>3. \A s \in Stream : ~running[s]
  <2>1. \E s \in Stream : Now \in Stopping(s)
    BY <1>2 DEF Stopping, Stream
  <2> QED BY <2>1 DEF Streams, Chosen
<1>4. ~Blocked(t)
  BY <1>2, <1>3 DEF Streams, Sockets, Connected, Blocked, Task, Stream
<1>5. task[t] = "gone"
  BY <1>1, <1>4 DEF Streams, Lives
<1>6. Lives'
  BY <1>1, <1>2, <1>3, <1>5 DEF Streams, Lives, Stopping, AfterHalt, Stream, Task, TasksOf
<1>7. Sockets'
  BY <1>1, <1>2, <1>3 DEF Streams, Sockets, Stream, AfterHalt
<1>8. Connected'
  BY <1>1, <1>2, <1>3 DEF Streams, Connected, Stopping, Stream, AfterHalt
<1> QED BY <1>5, <1>6, <1>7, <1>8

LEMMA FreeKeeps ==
  ASSUME Streams, FreeBuffer
  PROVE  (Lives /\ Sockets /\ Connected)'
<1>1. UNCHANGED <<running, socket, handle, task, conn>> /\ ~buffer'
  BY DEF FreeBuffer
<1>2. Now = <<"free", "buff">> /\ Now' \in AfterHalt("buffered")
  BY FreeMoves
<1>3. \A s \in Stream : ~running[s]
  <2>1. \E s \in Stream : Now \in Stopping(s)
    BY <1>2 DEF Stopping, Stream
  <2> QED BY <2>1 DEF Streams, Chosen
<1>4. Lives'
  BY <1>1, <1>2, <1>3 DEF Streams, Lives, Stopping, AfterHalt, Stream, Task, TasksOf
<1>5. Sockets'
  BY <1>1, <1>2, <1>3 DEF Streams, Sockets, Stream, AfterHalt
<1>6. Connected'
  BY <1>1, <1>2, <1>3 DEF Streams, Connected, Stopping, Stream, AfterHalt
<1> QED BY <1>4, <1>5, <1>6

LEMMA StepKeepsStreams ==
  ASSUME Streams, Step
  PROVE  Streams'
<1>1. TypeOK'
  BY StepTyped DEF Streams
<1>2. Scripted' /\ Chosen'
  BY SelectKeepsChosen, FormatKeepsChosen, StartKeepsChosen, HaltKeepsChosen,
     OpenMoves, RunMoves, CreateMoves, EnableMoves, ForgetMoves, CloseMoves,
     AwaitMoves, FreeMoves
     DEF Step
<1>3. (Lives /\ Sockets /\ Connected)'
  BY QuietStepsKeep, OpenKeeps, RunKeeps, CreateKeeps, HaltKeeps, CloseKeeps,
     AwaitKeeps, FreeKeeps
     DEF Step
<1> QED BY <1>1, <1>2, <1>3 DEF Streams

LEMMA CallsKeepStreams ==
  ASSUME Streams, Calls
  PROVE  Streams'
BY CallsTyped, CallsKeepChosen, QuietStepsKeep DEF Streams

(* ------------------------------ the tasks ------------------------------ *)

LEMMA StaysChosen ==
  ASSUME Streams, UNCHANGED <<stream, running, todo>>
  PROVE  Scripted' /\ Chosen' /\ Now' = Now
<1>1. Now' = Now /\ Scripted'
  BY Stays DEF Streams
<1>2. Chosen'
  BY <1>1 DEF Streams, Chosen
<1> QED BY <1>1, <1>2

(* A task that lives goes where it can be.                                 *)
LEMMA MovesOn ==
  ASSUME Streams, NEW t \in Task, task[t] # "gone",
         NEW pc \in Places[t] \ {"gone"}, task' = [task EXCEPT ![t] = pc],
         UNCHANGED <<stream, running, todo, handle>>
  PROVE  Lives'
<1>1. Now' = Now
  BY StaysChosen
<1>2. /\ task \in [Task -> {"gone", "loop", "recv", "decode", "accept", "store", "read", "leave"}]
      /\ task'[t] = pc /\ \A u \in Task : u # t => task'[u] = task[u]
  BY DEF Streams, TypeOK
<1>3. \A u \in Task : task'[u] = "gone" <=> task[u] = "gone"
  BY <1>2
<1>4. \A u \in Task : task'[u] \in Places[u]
  BY <1>2 DEF Streams, Lives
<1>5. \A s \in Stream : TasksOf(s) \subseteq Task
  BY DEF TasksOf, Task
<1> QED BY <1>1, <1>3, <1>4, <1>5 DEF Streams, Lives, Task

(* A task ends when its stream has stopped, a buffered one only then.      *)
LEMMA Ends ==
  ASSUME Streams, NEW t \in Task, task' = [task EXCEPT ![t] = "gone"],
         t = "buff" => ~running["buffered"], handle' = handle \ {t},
         UNCHANGED <<stream, running, todo>>
  PROVE  Lives'
<1>1. Now' = Now
  BY StaysChosen
<1>2. /\ task \in [Task -> {"gone", "loop", "recv", "decode", "accept", "store", "read", "leave"}]
      /\ task'[t] = "gone" /\ \A u \in Task : u # t => task'[u] = task[u]
  BY DEF Streams, TypeOK
<1>3. \A u \in Task : task[u] = "gone" => task'[u] = "gone"
  BY <1>2
<1>4. \A u \in Task : task'[u] \in Places[u] /\ (u \in handle' <=> task'[u] # "gone")
  BY <1>2 DEF Streams, Lives, Places, Task
<1>5. \A s \in Stream : TasksOf(s) \subseteq Task
  BY DEF TasksOf, Task
<1>6. running["buffered"] => task'["buff"] = task["buff"]
  BY <1>2 DEF Task
<1> QED BY <1>1, <1>3, <1>4, <1>5, <1>6 DEF Streams, Lives, Task

LEMMA SameSockets ==
  ASSUME Streams, UNCHANGED <<stream, running, todo>>,
         \A x \in {"data", "control", "listen"} : x \in socket' <=> x \in socket
  PROVE  Sockets'
BY StaysChosen DEF Streams, Sockets

LEMMA SameConnection ==
  ASSUME Streams, UNCHANGED <<stream, running, todo, socket, conn, buffer>>,
         task'["buff"] = task["buff"]
  PROVE  Connected'
BY StaysChosen DEF Streams, Connected

(* The steps of the realtime stream's tasks.                               *)
LEMMA RealtimeKeeps ==
  ASSUME Streams,
         \/ \E t \in Task \ {"buff"} : Loop(t) \/ ReceiveFails(t) \/ Decode(t)
         \/ ReceivePacket \/ ForwardAnswer
  PROVE  (Scripted /\ Chosen /\ Lives /\ Sockets /\ Connected)'
<1>1. PICK t \in Task \ {"buff"} :
        /\ task[t] # "gone"
        /\ \/ \E pc \in Places[t] \ {"gone"} :
                task' = [task EXCEPT ![t] = pc] /\ handle' = handle
           \/ task' = [task EXCEPT ![t] = "gone"] /\ handle' = handle \ {t}
        /\ UNCHANGED <<stream, running, todo, socket, conn, buffer>>
  <2>1. ASSUME NEW t \in Task \ {"buff"}, Loop(t) \/ ReceiveFails(t)
        PROVE  /\ task[t] # "gone"
               /\ \/ \E pc \in Places[t] \ {"gone"} :
                       task' = [task EXCEPT ![t] = pc] /\ handle' = handle
                  \/ task' = [task EXCEPT ![t] = "gone"] /\ handle' = handle \ {t}
               /\ UNCHANGED <<stream, running, todo, socket, conn, buffer>>
    <3>1. {"loop", "recv"} \subseteq Places[t]
      BY DEF Places, Task
    <3> QED BY <2>1, <3>1 DEF Loop, ReceiveFails, Exit, Goto
  <2>2. ASSUME NEW t \in Task \ {"buff"}, Decode(t)
        PROVE  /\ task[t] # "gone" /\ "loop" \in Places[t] \ {"gone"}
               /\ task' = [task EXCEPT ![t] = "loop"] /\ handle' = handle
               /\ UNCHANGED <<stream, running, todo, socket, conn, buffer>>
    BY <2>2 DEF Decode, Goto, Places, Task
  <2>3. CASE ReceivePacket
    <3>1. /\ task["recv"] # "gone" /\ "recv" \in Task \ {"buff"}
          /\ \E pc \in Places["recv"] \ {"gone"} : task' = [task EXCEPT !["recv"] = pc]
          /\ UNCHANGED <<stream, running, todo, socket, conn, buffer, handle>>
      BY <2>3 DEF ReceivePacket, Goto, Places, Task
    <3> QED BY <3>1
  <2>4. CASE ForwardAnswer
    <3>1. /\ task["ctrl"] # "gone" /\ "ctrl" \in Task \ {"buff"}
          /\ "loop" \in Places["ctrl"] \ {"gone"} /\ task' = [task EXCEPT !["ctrl"] = "loop"]
          /\ UNCHANGED <<stream, running, todo, socket, conn, buffer, handle>>
      BY <2>4 DEF ForwardAnswer, Goto, Places, Task
    <3> QED BY <3>1
  <2> QED BY <2>1, <2>2, <2>3, <2>4
<1>2. Lives'
  BY <1>1, MovesOn, Ends
<1>3. task'["buff"] = task["buff"]
  BY <1>1 DEF Streams, TypeOK, Task
<1> QED BY <1>1, <1>2, <1>3, StaysChosen, SameSockets, SameConnection

(* The steps of the buffered stream's task.                                *)
LEMMA BufferedKeeps ==
  ASSUME Streams,
         \/ Loop("buff") \/ Decode("buff")
         \/ Accept \/ StoreClient \/ Read \/ ReadPacket \/ CloseClient
  PROVE  (Scripted /\ Chosen /\ Lives /\ Sockets /\ Connected)'
<1>1. /\ "buff" \in Task /\ StreamOf("buff") = "buffered"
      /\ Places["buff"] = {"gone", "loop", "accept", "store", "read", "recv", "decode", "leave"}
  BY DEF Task, StreamOf, Places
<1>2. /\ task["buff"] # "gone"
      /\ \/ \E pc \in Places["buff"] \ {"gone"} :
              task' = [task EXCEPT !["buff"] = pc] /\ handle' = handle
         \/ /\ ~running["buffered"]
            /\ task' = [task EXCEPT !["buff"] = "gone"] /\ handle' = handle \ {"buff"}
      /\ UNCHANGED <<stream, running, todo>>
      /\ \A x \in {"data", "control", "listen"} : x \in socket' <=> x \in socket
  <2>1. CASE Loop("buff")
    BY <1>1, <2>1 DEF Loop, Exit, Goto
  <2>2. CASE Decode("buff") \/ Accept \/ Read \/ ReadPacket
    BY <1>1, <2>2 DEF Decode, Accept, Read, ReadPacket, Goto
  <2>3. CASE StoreClient \/ CloseClient
    BY <1>1, <2>3 DEF StoreClient, CloseClient, Goto
  <2> QED BY <2>1, <2>2, <2>3
<1>3. Lives' /\ Sockets' /\ Scripted' /\ Chosen' /\ Now' = Now
  BY <1>1, <1>2, MovesOn, Ends, SameSockets, StaysChosen
<1>4. /\ task \in [Task -> {"gone", "loop", "recv", "decode", "accept", "store", "read", "leave"}]
      /\ running["buffered"] \/ Now \in Stopping("buffered")
  BY <1>1, <1>2 DEF Streams, TypeOK, Lives, TasksOf, Stream
<1>5. Connected'
  <2>1. CASE Loop("buff")
    BY <1>1, <1>2, <1>3, <1>4, <2>1 DEF Streams, Connected, Serving, Loop, Exit, Goto
  <2>2. CASE Decode("buff") \/ Read
    BY <1>1, <1>2, <1>3, <1>4, <2>2 DEF Streams, Connected, Serving, Decode, Read, Goto
  <2>3. CASE Accept
    BY <1>1, <1>2, <1>3, <1>4, <2>3 DEF Streams, Connected, Serving, Accept, Goto
  <2>4. CASE StoreClient
    BY <1>1, <1>2, <1>3, <1>4, <2>4 DEF Streams, Connected, Serving, StoreClient, Goto
  <2>5. CASE ReadPacket
    BY <1>1, <1>2, <1>3, <1>4, <2>5 DEF Streams, Connected, Serving, ReadPacket, Goto
  <2>6. CASE CloseClient
    BY <1>1, <1>2, <1>3, <1>4, <2>6 DEF Streams, Connected, Serving, CloseClient, Goto
  <2> QED BY <2>1, <2>2, <2>3, <2>4, <2>5, <2>6
<1> QED BY <1>3, <1>5

LEMMA TasksKeepStreams ==
  ASSUME Streams, Tasks
  PROVE  Streams'
<1>1. TypeOK'
  BY TasksTyped DEF Streams
<1>2. ~ReceiveFails("buff")
  BY DEF ReceiveFails
<1>3. (Scripted /\ Chosen /\ Lives /\ Sockets /\ Connected)'
  BY <1>2, RealtimeKeeps, BufferedKeeps DEF Tasks
<1> QED BY <1>1, <1>3 DEF Streams

LEMMA SenderKeepsStreams ==
  ASSUME Streams, Sender
  PROVE  Streams'
<1>1. /\ UNCHANGED <<stream, running, todo, socket, handle, buffer, task>>
      /\ \/ conn' = conn
         \/ conn = "none" /\ conn' = "backlog" /\ "listen" \in socket
  BY DEF Sender, Connect, Send, lifecycle
<1>2. Scripted' /\ Chosen' /\ Now' = Now
  BY <1>1, StaysChosen
<1>3. Lives' /\ Sockets'
  BY <1>1, <1>2 DEF Streams, Lives, Sockets
<1>4. Connected'
  BY <1>1, <1>2 DEF Streams, Connected, Serving
<1> QED BY <1>2, <1>3, <1>4, SenderTyped DEF Streams

LEMMA InitStreams == Init => Streams
<1> SUFFICES ASSUME Init PROVE Streams
  OBVIOUS
<1>1. TypeOK
  BY InitTyped
<1>2. Scripted
  BY EmptySeq DEF Init, Scripted, Ordered, OneStream, Aimed
<1>3. Now = Idle
  BY DEF Now, Init
<1>4. Chosen
  BY <1>3 DEF Init, Chosen, Idle, Starting, Opening, Creating, Stopping, Stream
<1>5. Lives /\ Sockets /\ Connected
  BY <1>3 DEF Init, Lives, Sockets, Connected, Places, Serving, TasksOf, Task, Stream, Idle
<1> QED BY <1>1, <1>2, <1>4, <1>5 DEF Streams

LEMMA StreamsKept == Streams /\ [Next]_vars => Streams'
<1> SUFFICES ASSUME Streams, [Next]_vars PROVE Streams'
  OBVIOUS
<1>1. CASE UNCHANGED vars
  <2>1. Scripted' /\ Chosen' /\ Now' = Now
    BY <1>1, StaysChosen DEF vars, lifecycle
  <2>2. Lives' /\ Sockets' /\ Connected'
    BY <1>1, <2>1 DEF Streams, Lives, Sockets, Connected, vars, lifecycle
  <2> QED BY <1>1, <2>1, <2>2, TypesKept DEF Streams
<1> QED BY <1>1, CallsKeepStreams, StepKeepsStreams, TasksKeepStreams, SenderKeepsStreams
        DEF Next

(* -------------------- what the streams guarantee ----------------------- *)

LEMMA IdleIsQuiet ==
  ASSUME NEW a \in {Idle, <<"forget", "decoder">>}
  PROVE  /\ \A s \in Stream : a \notin Stopping(s) \cup Creating(s) \cup Opening(s)
         /\ a # <<"close", "client">>
BY DEF Idle, Stopping, Creating, Opening, Stream

(* The streams' part of the invariant holds of every behaviour.            *)
THEOREM StreamsHold == Spec => []Streams
<1>1. Init => Streams
  BY InitStreams
<1>2. Streams /\ [Next]_vars => Streams'
  BY StreamsKept
<1> QED BY <1>1, <1>2, PTL DEF Spec

(* The variables of the stream tasks keep their types: sequence numbers    *)
(* below SeqMod, sockets, handles and tasks among those that exist, and no *)
(* more packets in the data socket than it holds.                          *)
THEOREM Typed == Spec => []TypeOK
<1>1. Streams => TypeOK
  BY DEF Streams
<1> QED BY <1>1, StreamsHold, PTL

(* The fixed delays of a stop suffice: no task is left on the memory, the  *)
(* buffer or the decoder that the RTSP task takes away.                    *)
THEOREM MemoryFree == Spec => []MemoryIsFree
<1>1. Streams => MemoryIsFree
  <2> SUFFICES ASSUME Streams PROVE MemoryIsFree
    OBVIOUS
  <2>1. ASSUME NEW t \in Task, At("create", t) PROVE task[t] = "gone"
    <3>1. Now = <<"create", t>>
      BY <2>1, AtNow
    <3> QED BY <3>1 DEF Streams, Lives, Task
  <2>2. ASSUME At("free", "buff") PROVE task["buff"] = "gone"
    <3>1. Now = <<"free", "buff">>
      BY <2>2, AtNow
    <3> QED BY <3>1 DEF Streams, Lives
  <2>3. ASSUME At("forget", "decoder"), NEW t \in Task PROVE task[t] # "decode"
    <3>1. Now = <<"forget", "decoder">>
      BY <2>3, AtNow
    <3>2. \A s \in Stream : ~running[s] /\ Now \notin Stopping(s)
      BY <3>1, IdleIsQuiet DEF Streams, Chosen
    <3> QED BY <3>2 DEF Streams, Lives, TasksOf, Task, Stream
  <2> QED BY <2>1, <2>2, <2>3 DEF MemoryIsFree
<1> QED BY <1>1, StreamsHold, PTL

(* Never do two tasks use the decoder and its buffers at once: the control *)
(* task does not decode, and the realtime and the buffered stream's tasks  *)
(* do not live at the same time.                                           *)
THEOREM OneDecodes == Spec => []OneTaskDecodes
<1>1. Streams => OneTaskDecodes
  <2> SUFFICES ASSUME Streams PROVE OneTaskDecodes
    OBVIOUS
  <2>1. task["ctrl"] # "decode"
    BY DEF Streams, Lives, Places, Task
  <2>2. task["recv"] = "gone" \/ task["buff"] = "gone"
    <3>1. \E s \in Stream : ~running[s] /\ Now \notin Stopping(s)
      <4>1. \A s \in Stream : running[s] => stream = s
        BY DEF Streams, Chosen
      <4>2. \A s \in Stream : Now \in Stopping(s) => \A r \in Stream : ~running[r]
        BY DEF Streams, Chosen
      <4>3. ~(Now \in Stopping("realtime") /\ Now \in Stopping("buffered"))
        BY DEF Stopping
      <4> QED BY <4>1, <4>2, <4>3 DEF Stream
    <3> QED BY <3>1 DEF Streams, Lives, TasksOf, Stream
  <2> QED BY <2>1, <2>2 DEF OneTaskDecodes, Task
<1> QED BY <1>1, StreamsHold, PTL

(* When the calls are over and no stream runs, every socket, connection,   *)
(* task, handle and buffer is gone, whatever failed on the way.            *)
THEOREM NothingLeft == Spec => []ClosedWhenStopped
<1>1. Streams => ClosedWhenStopped
  <2> SUFFICES ASSUME Streams, todo = <<>>, \A s \in Stream : ~running[s]
               PROVE  /\ socket = {} /\ handle = {} /\ ~buffer
                      /\ conn = "none"
                      /\ \A t \in Task : task[t] = "gone"
    BY DEF ClosedWhenStopped
  <2>1. Now = Idle /\ \A s \in Stream : Now \notin Stopping(s)
    BY IdleIsQuiet DEF Now
  <2>2. \A t \in Task : task[t] = "gone"
    BY <2>1 DEF Streams, Lives, TasksOf, Task, Stream
  <2>3. handle = {}
    BY <2>2 DEF Streams, Lives, TypeOK
  <2>4. "data" \notin socket /\ "control" \notin socket /\ "listen" \notin socket
    BY <2>1 DEF Streams, Sockets, Idle, Stream
  <2>5. "client" \notin socket
    BY <2>2 DEF Streams, Connected, Serving, Task
  <2>6. socket = {}
    BY <2>4, <2>5 DEF Streams, TypeOK
  <2>7. conn = "none" /\ ~buffer
    BY <2>1, <2>2, <2>4 DEF Streams, Connected, Task, Stream
  <2> QED BY <2>2, <2>3, <2>6, <2>7
<1> QED BY <1>1, StreamsHold, PTL

(* When the calls are over, the stream that runs is the one selected, its  *)
(* sockets are open and a buffered stream has its task.                    *)
THEOREM StreamServes == Spec => []RunningStreamServes
<1>1. Streams => RunningStreamServes
  <2> SUFFICES ASSUME Streams, todo = <<>>, NEW s \in Stream, running[s]
               PROVE  /\ stream = s
                      /\ s = "realtime" => {"data", "control"} \subseteq socket
                      /\ s = "buffered" => "listen" \in socket /\ task["buff"] # "gone"
    BY DEF RunningStreamServes
  <2>1. Now # <<"create", "buff">>
    BY DEF Now, Idle
  <2> QED BY <2>1 DEF Streams, Chosen, Sockets, Lives
<1> QED BY <1>1, StreamsHold, PTL

(* -------------------------- sequence numbers --------------------------- *)

(* A number that left 0..SeqMod-1 by less than one turn.                   *)
LEMMA ModCases ==
  ASSUME NEW x \in Int
  PROVE  /\ 0 <= x /\ x < SeqMod => x % SeqMod = x
         /\ SeqMod <= x /\ x < SeqMod + SeqMod => x % SeqMod = x - SeqMod
         /\ x < 0 /\ 0 <= x + SeqMod => x % SeqMod = x + SeqMod
<1>1. 0 <= x /\ x < SeqMod => x % SeqMod = x
  BY StreamTasksAssumption
<1>2. SeqMod <= x /\ x < SeqMod + SeqMod => x % SeqMod = x - SeqMod
  BY StreamTasksAssumption
<1>3. x < 0 /\ 0 <= x + SeqMod => x % SeqMod = x + SeqMod
  BY StreamTasksAssumption
<1> QED BY <1>1, <1>2, <1>3

(* How far n comes after f, around the wrap.                               *)
LEMMA Apart ==
  ASSUME NEW f \in Seqno, NEW n \in Seqno
  PROVE  /\ (n - f) % SeqMod = IF n >= f THEN n - f ELSE n - f + SeqMod
         /\ (n - f) % SeqMod \in Seqno
BY ModCases, StreamTasksAssumption DEF Seqno

LEMMA ApartOnce ==
  ASSUME NEW f \in Seqno, NEW m \in Seqno, NEW n \in Seqno,
         (m - f) % SeqMod = (n - f) % SeqMod
  PROVE  m = n
BY Apart, StreamTasksAssumption DEF Seqno

(* The packet i after m, as long as that is not the first one again.       *)
LEMMA Ahead ==
  ASSUME NEW f \in Seqno, NEW m \in Seqno, NEW i \in Nat,
         ((m - f) % SeqMod) + i < SeqMod
  PROVE  /\ (m + i) % SeqMod \in Seqno
         /\ (((m + i) % SeqMod) - f) % SeqMod = ((m - f) % SeqMod) + i
<1>1. (m - f) % SeqMod = (IF m >= f THEN m - f ELSE m - f + SeqMod) /\ i < SeqMod
  BY Apart, StreamTasksAssumption DEF Seqno
<1>2. (m + i) % SeqMod = IF m + i < SeqMod THEN m + i ELSE m + i - SeqMod
  BY <1>1, ModCases, StreamTasksAssumption DEF Seqno
<1>3. (m + i) % SeqMod \in Seqno
  BY ModSeqno DEF Seqno
<1> DEFINE n == (m + i) % SeqMod
<1>4. (n - f) % SeqMod = IF n >= f THEN n - f ELSE n - f + SeqMod
  BY <1>3, Apart
<1> QED BY <1>1, <1>2, <1>3, <1>4, StreamTasksAssumption DEF Seqno

(* The number of packets between m and a later n.                          *)
LEMMA Missing ==
  ASSUME NEW f \in Seqno, NEW m \in Seqno, NEW n \in Seqno,
         (m - f) % SeqMod < (n - f) % SeqMod
  PROVE  (n - m - 1) % SeqMod = ((n - f) % SeqMod) - ((m - f) % SeqMod) - 1
<1>1. /\ (m - f) % SeqMod = IF m >= f THEN m - f ELSE m - f + SeqMod
      /\ (n - f) % SeqMod = IF n >= f THEN n - f ELSE n - f + SeqMod
  BY Apart
<1>2. n - m - 1 \in Int
  BY StreamTasksAssumption DEF Seqno
<1>3. CASE n - m - 1 >= 0
  BY <1>1, <1>2, <1>3, ModCases, StreamTasksAssumption DEF Seqno
<1>4. CASE n - m - 1 < 0
  BY <1>1, <1>2, <1>4, ModCases, StreamTasksAssumption DEF Seqno
<1> QED BY <1>2, <1>3, <1>4

(* What the receiver task asks for lies between the last packet and this.  *)
LEMMA GapIsBetween ==
  ASSUME TypeOK, NEW q \in Seqno, Offset(stats.last) < Offset(q), NEW n \in Gap(q)
  PROVE  n \in Seqno /\ Offset(stats.last) < Offset(n) /\ Offset(n) < Offset(q)
<1>1. sender.first \in Seqno /\ stats.last \in Seqno
  BY DEF TypeOK
<1>2. (q - stats.last - 1) % SeqMod = Offset(q) - Offset(stats.last) - 1
  BY <1>1, Missing DEF Offset
<1>3. Offset(q) \in 0..(SeqMod - 1) /\ Offset(stats.last) \in 0..(SeqMod - 1)
  BY <1>1, Apart DEF Offset, Seqno
<1>4. PICK i \in 1..((q - stats.last - 1) % SeqMod) : n = (stats.last + i) % SeqMod
  BY DEF Gap
<1>5. i \in Nat /\ 0 < i /\ Offset(stats.last) + i < Offset(q)
      /\ Offset(stats.last) + i < SeqMod
  BY <1>2, <1>3, <1>4, StreamTasksAssumption
<1>6. n \in Seqno /\ Offset(n) = Offset(stats.last) + i
  BY <1>1, <1>4, <1>5, Ahead DEF Offset
<1> QED BY <1>3, <1>5, <1>6

(* ------------------------ the packets on the way ----------------------- *)

(* A step that leaves the packets alone, or forgets that the last one is   *)
(* known.                                                                  *)
LEMMA LeavesPackets ==
  ASSUME Tracked, UNCHANGED <<queue, asked, sender>>,
         stats'.last = stats.last, stats.decoded => stats'.decoded,
         Known' => Known,
         "data" \in socket' <=> "data" \in socket,
         Now' = <<"open", "data">> => ~stats'.decoded /\ asked' = {}
  PROVE  Tracked'
<1>1. Fresh' = Fresh /\ \A n : Offset(n)' = Offset(n)
  BY DEF Fresh, Offset
<1>2. Marks' \subseteq Marks
  BY <1>1 DEF Marks
<1>3. OnTheWay => OnTheWay'
  BY <1>1, <1>2 DEF OnTheWay
<1> QED BY <1>3 DEF Tracked

(* Nothing is on the way through a socket that is closed.                  *)
LEMMA NoPackets ==
  ASSUME queue' = <<>>, "data" \notin socket', Now' # <<"open", "data">>
  PROVE  Tracked'
BY DEF Tracked

LEMMA CallsKeepTracked ==
  ASSUME Inv, Calls
  PROVE  Tracked'
<1>1. UNCHANGED <<queue, asked, sender, stats, task, socket>>
  BY DEF Calls, Setup, Record, Stop, Call, packets
<1>2. Now' # <<"open", "data">>
  BY SetupScript, RecordScript, StopScript DEF Calls, Inv, Streams, TypeOK
<1>3. Known' = Known
  BY <1>1 DEF Known
<1> QED BY <1>1, <1>2, <1>3, LeavesPackets DEF Inv

LEMMA StartKeepsTracked ==
  ASSUME Inv, NEW s \in Stream, StartStream(s)
  PROVE  Tracked'
<1>1. /\ stream = s /\ UNCHANGED <<task, socket, queue>> /\ Now = <<"start", s>>
      /\ \/ running[s] /\ Now' # <<"open", "data">>
         \/ ~running[s]
  BY StartMoves DEF StartStream, packets, Inv, Streams
<1>2. CASE running[s]
  <2>1. UNCHANGED <<queue, asked, sender, stats, task, socket>>
    BY <1>1, <1>2 DEF StartStream, packets
  <2>2. Known' = Known
    BY <2>1 DEF Known
  <2> QED BY <1>1, <1>2, <2>1, <2>2, LeavesPackets DEF Inv
<1>3. CASE ~running[s]
  <2>1. stats' = [last |-> 0, decoded |-> FALSE] /\ asked' = {}
    BY <1>3 DEF StartStream
  <2>2. \A r \in Stream : ~running[r]
    BY <1>1, <1>3 DEF Inv, Streams, Chosen
  <2>3. "data" \notin socket
    BY <1>1, <2>2 DEF Inv, Streams, Sockets, Stream
  <2> QED BY <1>1, <2>1, <2>3 DEF Tracked, Inv
<1> QED BY <1>2, <1>3

LEMMA SocketsKeepTracked ==
  ASSUME Inv, NEW x, OpenSocket(x) \/ CloseSocket(x)
  PROVE  Tracked'
<1>1. UNCHANGED <<task, asked, sender, stats>> /\ (Known' <=> Known)
  BY DEF OpenSocket, CloseSocket, Known
<1>2. CASE CloseSocket(x)
  <2>1. Now' # <<"open", "data">> /\ socket' = socket \ {x}
    BY <1>2, CloseMoves DEF Inv, CloseSocket
  <2>2. CASE x = "data"
    BY <1>2, <2>1, <2>2, NoPackets DEF CloseSocket
  <2>3. CASE x # "data"
    <3>1. queue' = queue
      BY <1>2, <2>3 DEF CloseSocket
    <3> QED BY <1>1, <2>1, <2>3, <3>1, LeavesPackets DEF Inv
  <2> QED BY <2>2, <2>3
<1>3. CASE OpenSocket(x)
  <2>1. /\ Now = <<"open", x>> /\ Now' # <<"open", "data">>
        /\ \/ socket' = socket \cup {x} /\ queue' = queue
           \/ socket' = socket \ {"data"} /\ queue' = <<>>
    BY <1>3, OpenMoves DEF Inv, Idle
  <2>2. CASE socket' = socket \ {"data"} /\ queue' = <<>>
    BY <2>1, <2>2, NoPackets
  <2>3. CASE socket' = socket \cup {x} /\ queue' = queue /\ x # "data"
    BY <1>1, <2>1, <2>3, LeavesPackets DEF Inv
  <2>4. CASE socket' = socket \cup {x} /\ queue' = queue /\ x = "data"
    <3>1. ~stats.decoded /\ asked = {} /\ Now = <<"open", "data">>
      BY <2>1, <2>4 DEF Inv, Tracked
    <3>2. \A s \in Stream : ~running[s] /\ Now \notin Stopping(s)
      <4>1. Now \in Opening("realtime") /\ \A s \in Stream : Now \notin Stopping(s)
        BY <3>1 DEF Opening, Stopping, Stream
      <4>2. ~running["realtime"] /\ stream = "realtime"
        BY <4>1 DEF Inv, Streams, Chosen, Starting, Stream
      <4> QED BY <4>1, <4>2 DEF Inv, Streams, Chosen
    <3>3. task["recv"] = "gone" /\ "data" \notin socket
      BY <3>1, <3>2 DEF Inv, Streams, Lives, Sockets, TasksOf, Stream
    <3>4. queue' = <<>> /\ ~Known'
      BY <1>1, <2>4, <3>1, <3>3 DEF Inv, Tracked, Known
    <3>5. Fresh' = {} /\ Marks' = {} /\ Len(queue') = 0
      <4>1. Len(<<>>) = 0
        BY EmptySeq
      <4> QED BY <3>4, <4>1 DEF Fresh, Marks
    <3>6. OnTheWay'
      BY <1>1, <3>1, <3>4, <3>5 DEF OnTheWay
    <3> QED BY <2>1, <3>4, <3>6 DEF Tracked
  <2> QED BY <2>1, <2>2, <2>3, <2>4
<1> QED BY <1>2, <1>3

LEMMA StepKeepsTracked ==
  ASSUME Inv, Step
  PROVE  Tracked'
<1>1. ASSUME NEW s \in Stream, Select(s) \/ SetFormat(s) \/ Run(s) \/ Halt(s)
      PROVE  Tracked'
  <2>1. UNCHANGED <<queue, asked, sender, stats, task, socket>>
    BY <1>1 DEF Select, SetFormat, Run, Halt, packets
  <2>2. Known' = Known
    BY <2>1 DEF Known
  <2>3. Now' # <<"open", "data">>
    BY <1>1, SelectMoves, FormatKeepsChosen, RunMoves, HaltMoves
       DEF Inv, Streams, TypeOK, AfterHalt, Stream
  <2> QED BY <2>1, <2>2, <2>3, LeavesPackets DEF Inv
<1>2. ASSUME NEW t \in Task, CreateTask(t) \/ AwaitTask(t)
      PROVE  Tracked'
  <2>1. UNCHANGED <<queue, asked, sender, stats, socket>>
    BY <1>2 DEF CreateTask, AwaitTask, packets
  <2>2. Known' => Known
    BY <1>2, <2>1 DEF Known, CreateTask, AwaitTask, Inv, Streams, TypeOK, Task
  <2>3. Now' # <<"open", "data">>
    BY <1>2, CreateMoves, AwaitMoves DEF Inv, AfterHalt
  <2> QED BY <2>1, <2>2, <2>3, LeavesPackets DEF Inv
<1>3. CASE EnableResend \/ FreeBuffer \/ ForgetDecoder
  <2>1. UNCHANGED <<queue, asked, sender, stats, task, socket>>
    BY <1>3 DEF EnableResend, FreeBuffer, ForgetDecoder, packets
  <2>2. Known' = Known
    BY <2>1 DEF Known
  <2>3. Now' # <<"open", "data">>
    BY <1>3, EnableMoves, ForgetMoves, FreeMoves DEF Inv, AfterHalt, Idle
  <2> QED BY <2>1, <2>2, <2>3, LeavesPackets DEF Inv
<1> QED BY <1>1, <1>2, <1>3, StartKeepsTracked, SocketsKeepTracked DEF Step

LEMMA NoTaskAtOpen ==
  ASSUME Streams, Now = <<"open", "data">>, NEW t \in Task
  PROVE  task[t] = "gone"
<1>1. Now \in Opening("realtime") /\ \A s \in Stream : Now \notin Stopping(s)
  BY DEF Opening, Stopping, Stream
<1>2. ~running["realtime"] /\ stream = "realtime"
  BY <1>1 DEF Streams, Chosen, Starting, Stream
<1>3. \A s \in Stream : ~running[s]
  BY <1>2 DEF Streams, Chosen
<1> QED BY <1>1, <1>3 DEF Streams, Lives, TasksOf, Task, Stream

(* While the buffered stream's task lives, the realtime one is closed.     *)
LEMMA BufferedAlone ==
  ASSUME Streams, task["buff"] # "gone"
  PROVE  "data" \notin socket
<1>1. running["buffered"] \/ Now \in Stopping("buffered")
  BY DEF Streams, Lives, TasksOf, Stream
<1>2. CASE running["buffered"]
  <2>1. stream = "buffered" /\ ~running["realtime"]
    BY <1>2 DEF Streams, Chosen, Stream
  <2>2. Now \notin Opening("realtime")
    BY <2>1 DEF Streams, Chosen, Starting, Stream
  <2>3. Now \notin Stopping("realtime")
    BY <1>2 DEF Streams, Chosen, Stream
  <2> QED BY <2>1, <2>2, <2>3 DEF Streams, Sockets, Opening, Stopping
<1>3. CASE Now \in Stopping("buffered")
  <2>1. ~running["realtime"]
    BY <1>3 DEF Streams, Chosen, Stream
  <2> QED BY <1>3, <2>1 DEF Streams, Sockets, Stopping
<1> QED BY <1>1, <1>2, <1>3

(* The first packet leaves the queue.                                      *)
LEMMA Shifted ==
  ASSUME TypeOK, queue # <<>>, queue' = Tail(queue)
  PROVE  /\ 1 \in 1..Len(queue) /\ Head(queue) = queue[1]
         /\ Head(queue) \in [seq : Seqno, again : BOOLEAN]
         /\ 1 \in Fresh <=> ~Head(queue).again
         /\ \A i \in 1..Len(queue') : i + 1 \in 1..Len(queue) /\ queue'[i] = queue[i + 1]
         /\ \A i \in Fresh' : i + 1 \in Fresh /\ queue'[i] = queue[i + 1] /\ i + 1 > 1
         /\ \A i \in Fresh : i # 1 => i - 1 \in Fresh' /\ queue'[i - 1] = queue[i]
         /\ \A i \in Fresh \cup Fresh' : i \in Nat
         /\ \A i \in Fresh : queue[i].seq \in Seqno
<1> DEFINE S == [seq : Seqno, again : BOOLEAN]
           r == queue'
<1>1. queue \in Seq(S)
  BY DEF TypeOK
<1> HIDE DEF S
<1>2. /\ Len(queue) \in Nat \ {0} /\ Head(queue) = queue[1]
      /\ r \in Seq(S) /\ Len(r) = Len(queue) - 1
      /\ \A i \in 1..Len(r) : r[i] = queue[i + 1]
      /\ \A i \in 1..Len(queue) : queue[i] \in S
  BY <1>1, EmptySeq, HeadTailProperties, ElementOfSeq
<1>3. /\ 1 \in 1..Len(queue) /\ Head(queue) \in S
      /\ \A i \in 1..Len(r) : i + 1 \in 1..Len(queue) /\ i \in Nat /\ i + 1 > 1
      /\ \A i \in 1..Len(queue) : i \in Nat /\ (i # 1 => i - 1 \in 1..Len(r) /\ (i - 1) + 1 = i)
  BY <1>2
<1>4. Fresh' = {i \in 1..Len(r) : ~r[i].again}
  BY DEF Fresh
<1>5. \A i \in Fresh' : i + 1 \in Fresh /\ r[i] = queue[i + 1] /\ i + 1 > 1
  BY <1>2, <1>3, <1>4 DEF Fresh
<1>6. \A i \in Fresh : i # 1 => i - 1 \in Fresh' /\ r[i - 1] = queue[i]
  <2> TAKE i \in Fresh
  <2> HAVE i # 1
  <2>1. i \in 1..Len(queue) /\ ~queue[i].again
    BY DEF Fresh
  <2>2. i - 1 \in 1..Len(r) /\ (i - 1) + 1 = i
    BY <1>3, <2>1
  <2>3. r[i - 1] = queue[i]
    BY <1>2, <2>2
  <2> QED BY <1>4, <2>1, <2>2, <2>3
<1>7. \A i \in Fresh \cup Fresh' : i \in Nat
  BY <1>3, <1>4 DEF Fresh
<1>8. \A i \in Fresh : queue[i].seq \in Seqno
  BY <1>2 DEF Fresh, S
<1> QED BY <1>2, <1>3, <1>5, <1>6, <1>7, <1>8 DEF Fresh, S

LEMMA ReceiveKeepsTracked ==
  ASSUME Inv, ReceivePacket
  PROVE  Tracked'
<1> DEFINE h == Head(queue)
<1>1. /\ task["recv"] = "recv" /\ "data" \in socket /\ queue # <<>>
      /\ queue' = Tail(queue) /\ asked' \in {asked, asked \cup RequestFor(h)}
      /\ stats' = [stats EXCEPT !.last = IF h.again THEN @ ELSE h.seq]
      /\ UNCHANGED <<socket, sender, stream, running, todo>>
      /\ TypeOK
  BY DEF ReceivePacket, Goto, Inv, Streams
<1>2. OnTheWay
  BY <1>1 DEF Inv, Tracked
<1>3. /\ 1 \in 1..Len(queue) /\ h = queue[1]
      /\ h \in [seq : Seqno, again : BOOLEAN]
      /\ 1 \in Fresh <=> ~h.again
      /\ \A i \in 1..Len(queue') : i + 1 \in 1..Len(queue) /\ queue'[i] = queue[i + 1]
      /\ \A i \in Fresh' : i + 1 \in Fresh /\ queue'[i] = queue[i + 1] /\ i + 1 > 1
      /\ \A i \in Fresh : i # 1 => i - 1 \in Fresh' /\ queue'[i - 1] = queue[i]
      /\ \A i \in Fresh \cup Fresh' : i \in Nat
      /\ \A i \in Fresh : queue[i].seq \in Seqno
  BY <1>1, Shifted
<1>4. \A n : Offset(n)' = Offset(n)
  BY <1>1 DEF Offset
<1>5. stats'.decoded = stats.decoded /\ stats'.last = IF h.again THEN stats.last ELSE h.seq
  BY <1>1 DEF TypeOK
<1>6. \A n \in Seqno : Offset(n) \in Int
  BY <1>1, Apart, StreamTasksAssumption DEF Offset, TypeOK, Seqno
<1>7. stats.last \in Seqno /\ asked \subseteq Seqno /\ sender.next \in Seqno
  BY <1>1 DEF TypeOK
<1> HIDE DEF h
<1>8. OnTheWay'
  <2>1. CASE h.again
    <3>1. stats.decoded /\ Known /\ Known' /\ stats'.last = stats.last
      BY <1>2, <1>3, <1>5, <2>1 DEF OnTheWay, Known
    <3>2. asked' = asked /\ 1 \notin Fresh
      BY <1>1, <1>3, <2>1 DEF RequestFor
    <3>3. Marks' \subseteq Marks
      BY <1>3, <3>1 DEF Marks
    <3>4. \A i \in 1..Len(queue') : queue'[i].again => stats'.decoded
      BY <1>5, <3>1
    <3>5. \A i, j \in Fresh' : i < j => Offset(queue'[i].seq) < Offset(queue'[j].seq)
      <4> TAKE i, j \in Fresh'
      <4> HAVE i < j
      <4>1. i + 1 \in Fresh /\ j + 1 \in Fresh /\ i + 1 < j + 1
        BY <1>3
      <4> QED BY <1>2, <1>3, <4>1 DEF OnTheWay
    <3>6. \A i \in Fresh' : Offset(stats.last) < Offset(queue'[i].seq)
      BY <1>2, <1>3, <3>1 DEF OnTheWay
    <3>7. \A n : (\E i \in Fresh : queue[i].seq = n) => \E i \in Fresh' : queue'[i].seq = n
      BY <1>3, <3>2
    <3> QED BY <1>1, <1>2, <1>4, <1>5, <3>1, <3>2, <3>3, <3>4, <3>5, <3>6, <3>7 DEF OnTheWay
  <2>2. CASE ~h.again
    <3>1. 1 \in Fresh /\ stats'.last = h.seq /\ h.seq \in Marks /\ h.seq \in Seqno
      BY <1>3, <1>5, <2>2 DEF Marks
    <3>2. Known => Offset(stats.last) < Offset(h.seq)
      BY <1>2, <1>3, <3>1 DEF OnTheWay
    <3>3. \A i \in Fresh : i # 1 => Offset(h.seq) < Offset(queue[i].seq)
      <4>1. \A i \in Fresh : i # 1 => 1 < i
        BY <1>3 DEF Fresh
      <4> QED BY <1>2, <1>3, <3>1, <4>1 DEF OnTheWay
    <3>4. Marks' \subseteq Marks
      BY <1>3, <3>1 DEF Marks
    <3>5. asked' # {} => stats'.decoded
      BY <1>1, <1>2, <1>5 DEF OnTheWay, RequestFor
    <3>6. \A i \in 1..Len(queue') : queue'[i].again => stats'.decoded
      BY <1>2, <1>3, <1>5 DEF OnTheWay
    <3>7. \A i, j \in Fresh' : i < j => Offset(queue'[i].seq) < Offset(queue'[j].seq)
      <4> TAKE i, j \in Fresh'
      <4> HAVE i < j
      <4>1. i + 1 \in Fresh /\ j + 1 \in Fresh /\ i + 1 < j + 1
        BY <1>3
      <4> QED BY <1>2, <1>3, <4>1 DEF OnTheWay
    <3>8. \A i \in Fresh' : Offset(h.seq) < Offset(queue'[i].seq)
      BY <1>3, <3>3
    <3>9. \A n \in asked' : Offset(n) < Offset(h.seq)
      <4> TAKE n \in asked'
      <4>1. CASE n \in asked
        <5>1. Offset(n) < Offset(stats.last) /\ Known
          BY <1>2, <4>1 DEF OnTheWay, Known
        <5> QED BY <1>6, <1>7, <3>1, <3>2, <4>1, <5>1
      <4>2. CASE n \in RequestFor(h)
        <5>1. Known /\ n \in Gap(h.seq)
          BY <4>2 DEF RequestFor, Known
        <5> QED BY <1>1, <3>1, <3>2, <5>1, GapIsBetween
      <4> QED BY <1>1, <4>1, <4>2
    <3>10. ASSUME NEW m \in Marks', NEW n \in Seqno,
                  Offset(m) < Offset(n), Offset(n) < Offset(sender.next)
           PROVE  n \in sender.lost \/ \E i \in Fresh' : queue'[i].seq = n
      <4>1. CASE \E i \in Fresh : queue[i].seq = n
        <5>1. PICK i \in Fresh : queue[i].seq = n
          BY <4>1
        <5>2. i # 1
          <6>1. m = h.seq \/ \E j \in Fresh' : m = queue'[j].seq
            BY <3>1, <3>10 DEF Marks
          <6>2. m \in Seqno /\ ~(Offset(m) < Offset(h.seq))
            <7>1. CASE m = h.seq
              BY <1>6, <3>1, <7>1
            <7>2. CASE \E j \in Fresh' : m = queue'[j].seq
              <8>1. PICK j \in Fresh' : m = queue'[j].seq
                BY <7>2
              <8>2. m \in Seqno /\ Offset(h.seq) < Offset(m)
                BY <1>3, <3>8, <8>1
              <8> QED BY <1>6, <3>1, <8>2
            <7> QED BY <6>1, <7>1, <7>2
          <6> QED BY <1>3, <3>10, <5>1, <6>2
        <5>3. i - 1 \in Fresh' /\ queue'[i - 1].seq = n
          BY <1>3, <5>1, <5>2
        <5> QED BY <5>3
      <4>2. m \in Marks
        BY <3>4, <3>10
      <4> QED BY <1>2, <3>10, <4>1, <4>2 DEF OnTheWay
    <3>11. \A m \in Marks' : Offset(m) < Offset(sender.next)
      BY <1>2, <3>4 DEF OnTheWay
    <3> QED BY <1>1, <1>4, <3>1, <3>5, <3>6, <3>7, <3>8, <3>9, <3>10, <3>11 DEF OnTheWay
  <2> QED BY <2>1, <2>2
<1>9. Now' # <<"open", "data">>
  BY <1>1, StaysChosen, NoTaskAtOpen DEF Inv, Task
<1> QED BY <1>1, <1>8, <1>9 DEF Tracked

(* A packet goes to the end of the queue.                                  *)
LEMMA Appended ==
  ASSUME TypeOK, NEW p \in [seq : Seqno, again : BOOLEAN], Len(queue) < QueueSize,
         queue' = Append(queue, p)
  PROVE  /\ Len(queue) \in Nat /\ Len(queue') = Len(queue) + 1
         /\ \A i \in 1..Len(queue) : queue'[i] = queue[i]
         /\ queue'[Len(queue) + 1] = p
         /\ \A i \in 1..Len(queue') : i \in 1..Len(queue) \/ i = Len(queue) + 1
         /\ \A i \in Fresh : i \in Fresh' /\ i < Len(queue) + 1 /\ queue'[i] = queue[i]
         /\ \A i \in Fresh' : i \in Fresh \/ (i = Len(queue) + 1 /\ ~p.again)
         /\ ~p.again => Len(queue) + 1 \in Fresh'
<1>1. /\ Len(queue) \in Nat /\ Len(queue') = Len(queue) + 1
      /\ \A i \in 1..Len(queue) : queue'[i] = queue[i]
      /\ queue'[Len(queue) + 1] = p
  BY AppendTyped
<1>2. \A i \in 1..Len(queue') : i \in 1..Len(queue) \/ i = Len(queue) + 1
  BY <1>1
<1>3. /\ \A i \in 1..Len(queue) : i \in 1..Len(queue') /\ i < Len(queue) + 1
      /\ Len(queue) + 1 \in 1..Len(queue')
  BY <1>1
<1>4. Fresh' = {i \in 1..Len(queue') : ~queue'[i].again}
  BY DEF Fresh
<1>5. \A i \in Fresh : i \in Fresh' /\ i < Len(queue) + 1 /\ queue'[i] = queue[i]
  BY <1>1, <1>3, <1>4 DEF Fresh
<1>6. \A i \in Fresh' : i \in Fresh \/ (i = Len(queue) + 1 /\ ~p.again)
  BY <1>1, <1>2, <1>4 DEF Fresh
<1>7. ~p.again => Len(queue) + 1 \in Fresh'
  BY <1>1, <1>3, <1>4
<1> QED BY <1>1, <1>2, <1>5, <1>6, <1>7

LEMMA ForwardKeepsTracked ==
  ASSUME Inv, ForwardAnswer
  PROVE  Tracked'
<1>1. PICK n \in asked :
        queue' = IF "data" \in socket /\ Len(queue) < QueueSize
                 THEN Append(queue, [seq |-> n, again |-> TRUE]) ELSE queue
  BY DEF ForwardAnswer
<1>2. /\ task["ctrl"] = "recv" /\ task' = [task EXCEPT !["ctrl"] = "loop"]
      /\ UNCHANGED <<stream, running, todo, socket, stats, sender, asked>>
      /\ TypeOK
  BY DEF ForwardAnswer, Goto, Inv, Streams
<1>3. Now' = Now /\ Now' # <<"open", "data">>
  BY <1>2, StaysChosen, NoTaskAtOpen DEF Inv, Task
<1>4. Known' = Known
  BY <1>2 DEF Known, TypeOK, Task
<1>5. CASE "data" \in socket /\ Len(queue) < QueueSize
  <2> DEFINE p == [seq |-> n, again |-> TRUE]
  <2>1. p \in [seq : Seqno, again : BOOLEAN] /\ p.again
    BY <1>2 DEF TypeOK
  <2>2. queue' = Append(queue, p)
    BY <1>1, <1>5
  <2> HIDE DEF p
  <2>3. /\ \A i \in 1..Len(queue) : queue'[i] = queue[i]
        /\ \A i \in Fresh : i \in Fresh' /\ queue'[i] = queue[i]
        /\ \A i \in Fresh' : i \in Fresh
    BY <1>2, <1>5, <2>1, <2>2, Appended
  <2>4. Marks' = Marks /\ \A x : Offset(x)' = Offset(x)
    BY <1>2, <1>4, <2>3 DEF Marks, Offset
  <2>5. stats.decoded /\ OnTheWay
    BY <1>5 DEF Inv, Tracked, OnTheWay
  <2>6. \A i, j \in Fresh' : i < j => Offset(queue'[i].seq) < Offset(queue'[j].seq)
    BY <2>3, <2>5 DEF OnTheWay
  <2>7. \A i \in Fresh' : Offset(stats.last) < Offset(queue'[i].seq)
    BY <2>3, <2>5 DEF OnTheWay, Known
  <2>8. \A x : (\E i \in Fresh : queue[i].seq = x) => \E i \in Fresh' : queue'[i].seq = x
    BY <2>3
  <2>9. OnTheWay'
    BY <1>2, <2>4, <2>5, <2>6, <2>7, <2>8 DEF OnTheWay
  <2> QED BY <1>2, <1>3, <1>5, <2>9 DEF Tracked
<1>6. CASE ~("data" \in socket /\ Len(queue) < QueueSize)
  <2>1. queue' = queue
    BY <1>1, <1>6
  <2> QED BY <1>2, <1>3, <1>4, <2>1, LeavesPackets DEF Inv
<1> QED BY <1>5, <1>6

LEMMA TasksKeepTracked ==
  ASSUME Inv, Tasks
  PROVE  Tracked'
<1>1. ASSUME NEW t \in Task, Loop(t) \/ ReceiveFails(t)
      PROVE  Tracked'
  <2>1. /\ UNCHANGED <<stream, running, todo, queue, asked, sender, stats, socket>>
        /\ task[t] # "gone"
        /\ \E pc \in {"gone", "loop", "recv", "accept"} : task' = [task EXCEPT ![t] = pc]
    BY <1>1 DEF Loop, ReceiveFails, Exit, Goto
  <2>2. Known' => Known
    BY <2>1 DEF Known, Inv, Streams, TypeOK, Task
  <2>3. Now' # <<"open", "data">>
    BY <2>1, StaysChosen, NoTaskAtOpen DEF Inv
  <2> QED BY <2>1, <2>2, <2>3, LeavesPackets DEF Inv
<1>2. ASSUME NEW t \in Task, Decode(t)
      PROVE  Tracked'
  <2>1. /\ UNCHANGED <<stream, running, todo, queue, asked, sender, socket>>
        /\ task[t] = "decode" /\ stats'.last = stats.last
        /\ stats.decoded => stats'.decoded
        /\ task' = [task EXCEPT ![t] = IF t = "buff" THEN "read" ELSE "loop"]
    BY <1>2 DEF Decode, Goto, Inv, Streams, TypeOK
  <2>2. Now' = Now /\ Now' # <<"open", "data">>
    BY <2>1, StaysChosen, NoTaskAtOpen DEF Inv
  <2>3. CASE t = "buff"
    <3>1. "data" \notin socket
      BY <2>1, <2>3, BufferedAlone DEF Inv
    <3> QED BY <2>1, <2>2, <3>1 DEF Inv, Tracked
  <2>4. CASE t # "buff"
    <3>1. t = "recv"
      BY <2>1, <2>4 DEF Inv, Streams, Lives, Places, Task
    <3>2. Known
      BY <2>1, <3>1 DEF Known
    <3> QED BY <2>1, <2>2, <3>2, LeavesPackets DEF Inv
  <2> QED BY <2>3, <2>4
<1>3. CASE Accept \/ StoreClient \/ Read \/ ReadPacket \/ CloseClient
  <2>1. /\ UNCHANGED <<stream, running, todo, queue, asked, sender, stats>>
        /\ task["buff"] # "gone" /\ ("data" \in socket' <=> "data" \in socket)
        /\ \E pc : task' = [task EXCEPT !["buff"] = pc]
    BY <1>3 DEF Accept, StoreClient, Read, ReadPacket, CloseClient, Goto
  <2>2. Known' = Known
    BY <2>1 DEF Known, Inv, Streams, TypeOK, Task
  <2>3. Now' # <<"open", "data">>
    BY <2>1, StaysChosen, NoTaskAtOpen DEF Inv, Task
  <2> QED BY <2>1, <2>2, <2>3, LeavesPackets DEF Inv
<1> QED BY <1>1, <1>2, <1>3, ReceiveKeepsTracked, ForwardKeepsTracked DEF Tasks

LEMMA SendKeepsTracked ==
  ASSUME Inv, Send
  PROVE  Tracked'
<1> DEFINE D == Offset(sender.next)
<1>1. PICK k \in 0..MaxGap :
        LET arrives == (sender.next + k) % SeqMod
        IN  /\ ((sender.next - sender.first) % SeqMod) + k + 1 < SeqMod
            /\ queue' = Append(queue, [seq |-> arrives, again |-> FALSE])
            /\ sender' = [sender EXCEPT
                 !.next = (arrives + 1) % SeqMod,
                 !.lost = @ \cup {(sender.next + i) % SeqMod : i \in 0..(k - 1)}]
  BY DEF Send
<1> DEFINE a == (sender.next + k) % SeqMod
           p == [seq |-> a, again |-> FALSE]
<1>2. /\ TypeOK /\ OnTheWay /\ "data" \in socket /\ Len(queue) < QueueSize
      /\ UNCHANGED <<stream, running, todo, socket, stats, asked, task>>
  BY DEF Send, lifecycle, Inv, Streams, Tracked
<1>3. /\ sender.first \in Seqno /\ sender.next \in Seqno /\ stats.last \in Seqno
      /\ k \in Nat /\ D \in 0..(SeqMod - 1)
  BY <1>2, Apart, StreamTasksAssumption DEF TypeOK, Offset, Seqno
<1>4. /\ D + k + 1 < SeqMod /\ D + k < SeqMod
      /\ \A i \in 0..k : i \in Nat /\ D + i < SeqMod
  BY <1>1, <1>3, StreamTasksAssumption DEF Offset
<1>5. \A i \in 0..k : (sender.next + i) % SeqMod \in Seqno
                      /\ Offset((sender.next + i) % SeqMod) = D + i
  BY <1>3, <1>4, Ahead DEF Offset
<1>6. a \in Seqno /\ Offset(a) = D + k /\ k \in 0..k
  BY <1>3, <1>5
<1>7. Offset((a + 1) % SeqMod) = D + k + 1
  <2>1. Offset(a) + 1 < SeqMod /\ 1 \in Nat
    BY <1>3, <1>4, <1>6
  <2>2. Offset((a + 1) % SeqMod) = Offset(a) + 1
    BY <1>3, <1>6, <2>1, Ahead DEF Offset
  <2> QED BY <1>3, <1>6, <2>2
<1>8. /\ p \in [seq : Seqno, again : BOOLEAN] /\ ~p.again /\ p.seq = a
      /\ queue' = Append(queue, p)
  BY <1>1, <1>6
<1>9. /\ sender'.first = sender.first /\ sender'.next = (a + 1) % SeqMod
      /\ sender.lost \subseteq sender'.lost
      /\ \A i \in 0..(k - 1) : (sender.next + i) % SeqMod \in sender'.lost
  BY <1>1, <1>2 DEF TypeOK
<1> HIDE DEF p, a
<1>10. /\ \A i \in 1..Len(queue) : queue'[i] = queue[i]
       /\ queue'[Len(queue) + 1] = p /\ Len(queue) \in Nat
       /\ \A i \in 1..Len(queue') : i \in 1..Len(queue) \/ i = Len(queue) + 1
       /\ \A i \in Fresh : i \in Fresh' /\ i < Len(queue) + 1 /\ queue'[i] = queue[i]
       /\ \A i \in Fresh' : i \in Fresh \/ i = Len(queue) + 1
       /\ Len(queue) + 1 \in Fresh'
  BY <1>2, <1>8, Appended
<1>11. /\ \A n : Offset(n)' = Offset(n)
       /\ Offset(sender'.next) = D + k + 1
  BY <1>7, <1>9 DEF Offset
<1>12. Known' = Known
  BY <1>2 DEF Known
<1>13. \A i \in Fresh : queue[i].seq \in Marks
  BY DEF Marks
<1>14. /\ Known => stats.last \in Marks
       /\ \A m \in Marks' : m \in Marks \/ m = a
  BY <1>2, <1>8, <1>10, <1>12 DEF Marks
<1>15. \A m \in Marks : m \in Seqno /\ Offset(m) \in Int /\ Offset(m) < D
  <2>1. \A i \in Fresh : queue[i].seq \in Seqno
    <3>1. queue \in Seq([seq : Seqno, again : BOOLEAN])
      BY <1>2 DEF TypeOK
    <3>2. \A i \in 1..Len(queue) : queue[i] \in [seq : Seqno, again : BOOLEAN]
      BY <3>1, ElementOfSeq
    <3> QED BY <3>2 DEF Fresh
  <2>2. \A m \in Marks : m \in Seqno
    BY <1>3, <2>1 DEF Marks
  <2>3. \A m \in Seqno : Offset(m) \in Int
    BY <1>3, Apart, StreamTasksAssumption DEF Offset, Seqno
  <2>4. \A m \in Marks : Offset(m) < D
    BY <1>2 DEF OnTheWay
  <2> QED BY <2>2, <2>3, <2>4
<1> HIDE DEF D
<1>16. \A i, j \in Fresh' : i < j => Offset(queue'[i].seq) < Offset(queue'[j].seq)
  <2> TAKE i, j \in Fresh'
  <2> HAVE i < j
  <2>1. CASE i \in Fresh /\ j \in Fresh
    BY <1>2, <1>10, <2>1 DEF OnTheWay
  <2>2. CASE i \in Fresh /\ j = Len(queue) + 1
    <3>1. Offset(queue[i].seq) < D /\ Offset(queue[i].seq) \in Int
      BY <1>13, <1>15, <2>2
    <3>2. Offset(queue'[j].seq) = D + k
      BY <1>6, <1>8, <1>10, <2>2
    <3> QED BY <1>3, <1>10, <2>2, <3>1, <3>2
  <2>3. CASE i = Len(queue) + 1
    <3>1. j < Len(queue) + 1 \/ j = Len(queue) + 1
      BY <1>10
    <3>2. j \in Nat
      BY <1>10 DEF Fresh
    <3> QED BY <1>10, <2>3, <3>1, <3>2
  <2> QED BY <1>10, <2>1, <2>2, <2>3
<1>17. Known => \A i \in Fresh' : Offset(stats.last) < Offset(queue'[i].seq)
  <2> HAVE Known
  <2> TAKE i \in Fresh'
  <2>1. CASE i \in Fresh
    BY <1>2, <1>10, <2>1 DEF OnTheWay
  <2>2. CASE i = Len(queue) + 1
    <3>1. Offset(stats.last) < D /\ Offset(stats.last) \in Int
      BY <1>14, <1>15
    <3> QED BY <1>3, <1>6, <1>8, <1>10, <2>2, <3>1
  <2> QED BY <1>10, <2>1, <2>2
<1>18. \A m \in Marks' : Offset(m) < D + k + 1
  BY <1>3, <1>6, <1>14, <1>15
<1>19. ASSUME NEW m \in Marks', NEW n \in Seqno, Offset(m) < Offset(n), Offset(n) < D + k + 1
       PROVE  n \in sender'.lost \/ \E i \in Fresh' : queue'[i].seq = n
  <2>1. Offset(n) \in Int
    BY <1>3, Apart, StreamTasksAssumption DEF Offset, Seqno
  <2>2. CASE Offset(n) < D
    <3>1. m \in Marks
      BY <1>3, <1>6, <1>14, <1>19, <2>1, <2>2
    <3>2. n \in sender.lost \/ \E i \in Fresh : queue[i].seq = n
      BY <1>2, <1>19, <2>2, <3>1 DEF OnTheWay, D
    <3> QED BY <1>9, <1>10, <3>2
  <2>3. CASE ~(Offset(n) < D)
    <3>1. Offset(n) - D \in 0..k
      BY <1>3, <1>19, <2>1, <2>3
    <3>2. n = (sender.next + (Offset(n) - D)) % SeqMod
      <4>1. /\ (sender.next + (Offset(n) - D)) % SeqMod \in Seqno
            /\ Offset((sender.next + (Offset(n) - D)) % SeqMod) = D + (Offset(n) - D)
        BY <1>5, <3>1
      <4>2. Offset((sender.next + (Offset(n) - D)) % SeqMod) = Offset(n)
        BY <1>3, <2>1, <4>1
      <4> QED BY <1>3, <4>1, <4>2, ApartOnce DEF Offset
    <3>3. CASE Offset(n) - D = k
      <4>1. n = a
        BY <3>2, <3>3 DEF a
      <4> QED BY <1>8, <1>10, <4>1
    <3>4. CASE Offset(n) - D # k
      <4>1. Offset(n) - D \in 0..(k - 1)
        BY <1>3, <3>1, <3>4
      <4> QED BY <1>9, <3>2, <4>1
    <3> QED BY <3>3, <3>4
  <2> QED BY <2>2, <2>3
<1>20. \A i \in 1..Len(queue') : queue'[i].again => stats.decoded
  BY <1>2, <1>8, <1>10 DEF OnTheWay
<1>21. OnTheWay'
  BY <1>2, <1>11, <1>12, <1>16, <1>17, <1>18, <1>19, <1>20 DEF OnTheWay
<1>22. Now' = Now /\ (Now = <<"open", "data">> => ~stats.decoded /\ asked = {})
  BY <1>2, StaysChosen DEF Inv, Tracked
<1> QED BY <1>2, <1>21, <1>22 DEF Tracked

LEMMA TrackedKept == Inv /\ [Next]_vars => Tracked'
<1> SUFFICES ASSUME Inv, [Next]_vars PROVE Tracked'
  OBVIOUS
<1>1. ASSUME Connect \/ UNCHANGED vars
      PROVE  Tracked'
  <2>1. UNCHANGED <<stream, running, todo, socket, task, queue, asked, sender, stats>>
    BY <1>1 DEF Connect, vars, lifecycle, packets
  <2>2. Now' = Now /\ Known' = Known
    BY <2>1, StaysChosen DEF Inv, Known
  <2>3. Now = <<"open", "data">> => ~stats.decoded /\ asked = {}
    BY DEF Inv, Tracked
  <2> QED BY <2>1, <2>2, <2>3, LeavesPackets DEF Inv
<1> QED BY <1>1, CallsKeepTracked, StepKeepsTracked, TasksKeepTracked, SendKeepsTracked
        DEF Next, Sender

LEMMA InitTracked == Init => Tracked
<1> SUFFICES ASSUME Init PROVE Tracked
  OBVIOUS
<1>1. Now # <<"open", "data">> /\ queue = <<>> /\ "data" \notin socket
  BY DEF Init, Now, Idle
<1> QED BY <1>1 DEF Tracked

(* The whole invariant, the packets' part included, holds of every         *)
(* behaviour: it is inductive.                                             *)
THEOREM Invariance == Spec => []Inv
<1>1. Init => Inv
  BY InitStreams, InitTracked DEF Inv
<1>2. Inv /\ [Next]_vars => Inv'
  BY StreamsKept, TrackedKept DEF Inv
<1> QED BY <1>1, <1>2, PTL DEF Spec

(* The receiver task asks for lost packets only, and for each only once.   *)
THEOREM AskedOnce == Spec => []RequestsNameMissingOnce
<1>1. Inv => RequestsNameMissingOnce
  <2> SUFFICES ASSUME Inv, task["recv"] = "recv", queue # <<>>,
                      NEW n \in RequestFor(Head(queue))
               PROVE  n \in sender.lost /\ n \notin asked
    BY DEF RequestsNameMissingOnce
  <2> DEFINE h == Head(queue)
  <2>1. TypeOK /\ OnTheWay
    BY DEF Inv, Streams, Tracked
  <2>2. ~h.again /\ stats.decoded /\ n \in Gap(h.seq)
    BY DEF RequestFor
  <2>3. /\ 1 \in 1..Len(queue) /\ h = queue[1]
        /\ \A i \in 1..Len(queue) : queue[i] \in [seq : Seqno, again : BOOLEAN]
    <3>1. /\ queue \in Seq([seq : Seqno, again : BOOLEAN])
          /\ Len(queue) \in Nat \ {0} /\ Head(queue) = queue[1]
      BY <2>1, EmptySeq DEF TypeOK
    <3>2. 1 \in 1..Len(queue)
      BY <3>1
    <3> DEFINE S == [seq : Seqno, again : BOOLEAN]
    <3>3. queue \in Seq(S)
      BY <3>1
    <3> HIDE DEF S
    <3>4. \A i \in 1..Len(queue) : queue[i] \in S
      BY <3>3, ElementOfSeq
    <3> QED BY <3>1, <3>2, <3>4 DEF S
  <2> HIDE DEF h
  <2>4. 1 \in Fresh /\ Known /\ stats.last \in Marks /\ h.seq \in Marks /\ h.seq \in Seqno
    BY <2>2, <2>3 DEF Fresh, Known, Marks
  <2>5. Offset(stats.last) < Offset(h.seq) /\ Offset(h.seq) < Offset(sender.next)
    BY <2>1, <2>3, <2>4 DEF OnTheWay
  <2>6. n \in Seqno /\ Offset(stats.last) < Offset(n) /\ Offset(n) < Offset(h.seq)
    BY <2>1, <2>2, <2>4, <2>5, GapIsBetween
  <2>7. /\ \A m \in Seqno : Offset(m) \in Int
        /\ stats.last \in Seqno /\ sender.next \in Seqno
    BY <2>1, Apart, StreamTasksAssumption DEF TypeOK, Offset, Seqno
  <2>8. Offset(n) < Offset(sender.next)
    BY <2>4, <2>5, <2>6, <2>7
  <2>9. ~\E i \in Fresh : queue[i].seq = n
    <3> SUFFICES ASSUME NEW i \in Fresh, queue[i].seq = n PROVE FALSE
      OBVIOUS
    <3>1. i = 1 \/ 1 < i
      BY DEF Fresh
    <3>2. 1 < i => Offset(h.seq) < Offset(n)
      BY <2>1, <2>3, <2>4 DEF OnTheWay
    <3> QED BY <2>3, <2>4, <2>6, <2>7, <3>1, <3>2
  <2>10. n \in sender.lost
    BY <2>1, <2>4, <2>6, <2>8, <2>9 DEF OnTheWay
  <2>11. n \notin asked
    BY <2>1, <2>6, <2>7 DEF OnTheWay
  <2> QED BY <2>10, <2>11
<1> QED BY <1>1, Invariance, PTL
=============================================================================
