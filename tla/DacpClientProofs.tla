-------------------------- MODULE DacpClientProofs --------------------------
(***************************************************************************)
(* Proofs about DacpClient, for any sources, any queue and any number of   *)
(* calls.                                                                  *)
(***************************************************************************)
EXTENDS DacpClient, TLAPS

SourceOrNone == Source \cup {NoSource}
Entry == {"discover", "command"}
WorkerType == [pc : {"idle", "query", "store", "request"},
               id : SourceOrNone, port : SourceOrNone]

(* What the worker has found belongs to the source it looked for.          *)
FoundOwnPort == worker.pc = "store" => worker.port \in {NoSource, worker.id}

(* The port is the session's, unless the session changed during the query. *)
PortFits == port \in {NoSource, id} \/ mixed

(* --------------------------- type correctness -------------------------- *)

(* TypeOK, one variable at a time.                                         *)
Types ==
  /\ id \in SourceOrNone /\ port \in SourceOrNone
  /\ failed \in BOOLEAN /\ posting \in BOOLEAN /\ mixed \in BOOLEAN /\ dropped \in BOOLEAN
  /\ queue \in Seq(Entry) /\ Len(queue) <= QueueLen
  /\ worker \in WorkerType
  /\ advertised \subseteq Source
  /\ tried \in SourceOrNone

LEMMA TypesAreTypeOK == Types <=> TypeOK
BY DEF Types, TypeOK, SourceOrNone, Entry, WorkerType

LEMMA IdleTyped == Idle \in WorkerType /\ Idle.pc = "idle"
BY DEF Idle, WorkerType, SourceOrNone

LEMMA InitTyped == Init => Types
<1> SUFFICES ASSUME Init PROVE Types
  OBVIOUS
<1>1. queue \in Seq(Entry) /\ Len(queue) <= QueueLen
  BY DacpClientAssumption DEF Init
<1>2. worker \in WorkerType
  BY IdleTyped DEF Init
<1> QED BY <1>1, <1>2 DEF Init, Types, SourceOrNone

(* The queue takes an entry, at either end, if there is room.              *)
LEMMA QueueGrows ==
  ASSUME NEW q \in Seq(Entry), Len(q) < QueueLen, NEW e \in Entry
  PROVE  /\ Append(q, e) \in Seq(Entry) /\ Len(Append(q, e)) <= QueueLen
         /\ <<e>> \o q \in Seq(Entry) /\ Len(<<e>> \o q) <= QueueLen
<1>1. Len(q) \in Nat /\ QueueLen \in Nat
  BY DacpClientAssumption
<1>2. Append(q, e) \in Seq(Entry) /\ Len(Append(q, e)) = Len(q) + 1
  OBVIOUS
<1>3. <<e>> \in Seq(Entry) /\ Len(<<e>>) = 1
  OBVIOUS
<1>4. <<e>> \o q \in Seq(Entry) /\ Len(<<e>> \o q) = 1 + Len(q)
  BY <1>3
<1> QED BY <1>1, <1>2, <1>4

LEMMA QueueShrinks ==
  ASSUME NEW q \in Seq(Entry), Len(q) <= QueueLen, q # <<>>
  PROVE  Tail(q) \in Seq(Entry) /\ Len(Tail(q)) <= QueueLen
BY DacpClientAssumption

LEMMA StepTyped ==
  ASSUME Types, [Next]_vars
  PROVE  Types'
<1>0. Source \subseteq SourceOrNone /\ NoSource \in SourceOrNone
  BY DEF SourceOrNone
<1>1. ASSUME NEW s \in Source, SetSession(s) PROVE Types'
  <2>1. /\ id' \in SourceOrNone /\ port' \in SourceOrNone
        /\ failed' \in BOOLEAN /\ posting' \in BOOLEAN /\ mixed' \in BOOLEAN
        /\ dropped' \in BOOLEAN /\ tried' \in SourceOrNone
    BY <1>0, <1>1 DEF Types, SetSession, NewSession, history
  <2> QED BY <1>1, <2>1 DEF Types, SetSession
<1>2. ASSUME NEW s \in Source, Advertise(s) PROVE Types'
  BY <1>2 DEF Types, Advertise, session, history
<1>3. CASE PostDiscovery
  <2>1. queue' \in Seq(Entry) /\ Len(queue') <= QueueLen
    BY <1>3, QueueGrows DEF PostDiscovery, Types, Entry
  <2> QED BY <1>3, <2>1 DEF Types, PostDiscovery
<1>4. CASE ClearSession
  BY <1>0, <1>4 DEF Types, ClearSession, NewSession
<1>5. CASE SendCommand
  <2>1. queue' \in Seq(Entry) /\ Len(queue') <= QueueLen
    BY <1>5, QueueGrows DEF SendCommand, Types, Entry
  <2> QED BY <1>5, <2>1 DEF Types, SendCommand, session, history
<1>6. CASE BeginDiscovery
  <2>1. queue' \in Seq(Entry) /\ Len(queue') <= QueueLen
    BY <1>6, QueueShrinks DEF BeginDiscovery, Take, Types
  <2>2. [Idle EXCEPT !.pc = "query", !.id = id] \in WorkerType
    BY IdleTyped DEF Types, WorkerType
  <2>3. worker' \in WorkerType /\ tried' \in SourceOrNone
    BY <1>6, <2>2 DEF BeginDiscovery, Types
  <2> QED BY <1>6, <2>1, <2>3 DEF Types, BeginDiscovery, session
<1>7. CASE Query
  <2>1. PICK found \in {NoSource} \cup (advertised \cap {worker.id}) :
          worker' = [worker EXCEPT !.pc = "store", !.port = found]
    BY <1>7 DEF Query
  <2>2. found \in SourceOrNone
    BY <1>0, <2>1 DEF Types
  <2>3. worker' \in WorkerType
    BY <2>1, <2>2 DEF Types, WorkerType
  <2> QED BY <1>7, <2>3 DEF Types, Query, session, history
<1>8. CASE StorePort
  <2>1. port' \in SourceOrNone /\ failed' \in BOOLEAN /\ mixed' \in BOOLEAN
    BY <1>8 DEF StorePort, Types, WorkerType
  <2> QED BY <1>8, <2>1, IdleTyped DEF Types, StorePort
<1>9. CASE BeginRequest
  <2>1. queue' \in Seq(Entry) /\ Len(queue') <= QueueLen
    BY <1>9, QueueShrinks DEF BeginRequest, Take, Types
  <2>2. [pc |-> "request", id |-> id, port |-> port] \in WorkerType
    BY DEF Types, WorkerType
  <2>3. worker' \in WorkerType
    BY <1>9, <2>2 DEF BeginRequest, Types
  <2> QED BY <1>9, <2>1, <2>3 DEF Types, BeginRequest, session, history
<1>10. CASE EndRequest
  <2>1. port' \in SourceOrNone /\ mixed' \in BOOLEAN
    BY <1>0, <1>10 DEF EndRequest, Types
  <2> QED BY <1>10, <2>1, IdleTyped DEF Types, EndRequest
<1>11. CASE UNCHANGED vars
  BY <1>11 DEF Types, vars, session, history
<1> QED
  BY <1>1, <1>2, <1>3, <1>4, <1>5, <1>6, <1>7, <1>8, <1>9, <1>10, <1>11 DEF Next, Worker

(* Every variable keeps its type; in particular the queue its bound.       *)
THEOREM Typed == Spec => []TypeOK
<1>1. Types /\ [Next]_vars => Types'
  BY StepTyped
<1>2. Types' <=> TypeOK'
  BY DEF Types, TypeOK, SourceOrNone, Entry, WorkerType
<1> QED BY <1>1, InitTyped, TypesAreTypeOK, PTL DEF Spec

(* -------------------------- ports and sessions ------------------------- *)

LEMMA FindsOwnPort ==
  ASSUME Types, FoundOwnPort, [Next]_vars
  PROVE  FoundOwnPort'
<1>1. CASE Query
  <2>1. PICK found \in {NoSource} \cup (advertised \cap {worker.id}) :
          worker' = [worker EXCEPT !.pc = "store", !.port = found]
    BY <1>1 DEF Query
  <2>2. worker'.port = found /\ worker'.id = worker.id
    BY <2>1 DEF Types, WorkerType
  <2> QED BY <2>1, <2>2 DEF FoundOwnPort
<1>2. CASE worker' = worker
  BY <1>2 DEF FoundOwnPort
<1>3. CASE worker'.pc # "store"
  BY <1>3 DEF FoundOwnPort
<1>4. CASE BeginDiscovery \/ BeginRequest \/ StorePort \/ EndRequest
  <2>1. \/ worker' = worker \/ worker' = Idle
        \/ worker' = [Idle EXCEPT !.pc = "query", !.id = id]
        \/ worker' = [pc |-> "request", id |-> id, port |-> port]
    BY <1>4 DEF BeginDiscovery, BeginRequest, StorePort, EndRequest
  <2>2. /\ Idle.pc # "store"
        /\ [Idle EXCEPT !.pc = "query", !.id = id].pc # "store"
        /\ [pc |-> "request", id |-> id, port |-> port].pc # "store"
    BY DEF Idle
  <2> QED BY <1>2, <1>3, <2>1, <2>2
<1>5. CASE [\/ \E s \in Source : SetSession(s) \/ Advertise(s)
            \/ PostDiscovery \/ ClearSession \/ SendCommand]_vars
  BY <1>2, <1>5 DEF SetSession, Advertise, PostDiscovery, ClearSession, SendCommand, vars
<1> QED BY <1>1, <1>4, <1>5 DEF Next, Worker

LEMMA KeepsPortFit ==
  ASSUME Types, FoundOwnPort, PortFits, [Next]_vars
  PROVE  PortFits'
<1>1. ASSUME NEW s \in Source, SetSession(s) PROVE PortFits'
  BY <1>1 DEF SetSession, PortFits, history
<1>2. CASE ClearSession
  BY <1>2 DEF ClearSession, PortFits
<1>3. CASE StorePort
  BY <1>3 DEF StorePort, PortFits, FoundOwnPort
<1>4. CASE EndRequest
  BY <1>4 DEF EndRequest, PortFits
<1>5. CASE UNCHANGED <<id, port, mixed>>
  BY <1>5 DEF PortFits
<1> QED
  BY <1>1, <1>2, <1>3, <1>4, <1>5
  DEF Next, Worker, Advertise, PostDiscovery, SendCommand, BeginDiscovery, Query, BeginRequest,
      vars, session, history

(* execute_dacp_request sends a command to the address and the port of one *)
(* source, for any number of sources, sessions and commands, unless the    *)
(* session changed while a port was looked for.                            *)
THEOREM RequestsFit == Spec => RequestFitsSource
<1> DEFINE Inv == Types /\ FoundOwnPort /\ PortFits
<1>1. Init => Inv
  <2>1. Init => FoundOwnPort /\ PortFits
    BY IdleTyped DEF Init, FoundOwnPort, PortFits
  <2> QED BY <2>1, InitTyped
<1>2. Inv /\ [Next]_vars => Inv'
  BY StepTyped, FindsOwnPort, KeepsPortFit
<1>3. Inv /\ [Next]_vars
        => [worker.pc # "request" /\ worker'.pc = "request"
              => worker'.port = worker'.id \/ mixed]_vars
  <2> SUFFICES ASSUME Inv, [Next]_vars, worker.pc # "request", worker'.pc = "request"
               PROVE  worker'.port = worker'.id \/ mixed
    OBVIOUS
  <2>1. CASE BeginRequest
    <3>1. /\ worker' = [pc |-> "request", id |-> id, port |-> port]
          /\ port # NoSource
      BY <2>1 DEF BeginRequest
    <3> QED BY <3>1 DEF PortFits
  <2>2. CASE BeginDiscovery \/ Query \/ StorePort \/ EndRequest
    <3>1. \/ worker' = worker \/ worker' = Idle
          \/ worker' = [Idle EXCEPT !.pc = "query", !.id = id]
          \/ \E found : worker' = [worker EXCEPT !.pc = "store", !.port = found]
      BY <2>2 DEF BeginDiscovery, Query, StorePort, EndRequest
    <3> QED BY <3>1, IdleTyped DEF Idle, Types, WorkerType
  <2>3. CASE worker' = worker
    BY <2>3
  <2> QED
    BY <2>1, <2>2, <2>3
    DEF Next, Worker, SetSession, Advertise, PostDiscovery, ClearSession, SendCommand, vars
<1> QED BY <1>1, <1>2, <1>3, PTL DEF Spec, RequestFitsSource
=============================================================================
