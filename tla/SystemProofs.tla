---------------------------- MODULE SystemProofs ----------------------------
(***************************************************************************)
(* Proofs about System, for any thresholds and any number of failures.     *)
(*                                                                         *)
(* The inductive invariant says who may act when: app_main and the monitor *)
(* are never both within start_airplay_services, and what has been started *)
(* fits the place where the one that is there stands.                      *)
(***************************************************************************)
EXTENDS System, TLAPS

(* Only one of the callers is within start_airplay_services.               *)
OneStarts == at["app"] = "idle" \/ at["monitor"] = "idle"

Stage == IF at["app"] # "idle" THEN at["app"] ELSE at["monitor"]

(* app_main is done before the monitor acts.                               *)
AppFirst ==
  /\ at["app"] # "idle" => app.pc = "done"
  /\ at["monitor"] # "idle" => /\ app.pc = "done"
                               /\ monitor.pc \in {"edge", "sleep"}
  /\ monitor.pc \in {"switch", "retry", "edge"} => app.pc = "done" /\ at["app"] = "idle"

(* What has been started by the time a call stands at stage.               *)
Fits(stage) ==
  /\ stage \in {"idle", "start"} => /\ output <=> started
                                    /\ server.handle <=> started
                                    /\ started => ready
  /\ stage = "init" => ~started /\ ~output /\ ~server.handle
  /\ stage = "output" => ~started /\ ~output /\ ~server.handle /\ ready
  /\ stage = "server" => ~started /\ output /\ ~server.handle /\ ready
  /\ stage = "done" => ~started /\ output /\ server.handle /\ ready

Inv == OneStarts /\ AppFirst /\ Fits(Stage) /\ (confirmed => started)

(* --------------------------- type correctness -------------------------- *)

WifiType == [on : BOOLEAN, sta : BOOLEAN, retry : 0..Threshold,
             next : {"none", "scan task", "attempt", "timer"}]

LEMMA Bounds == /\ Threshold \in Nat /\ Threshold > 0
                /\ HealthyTicks \in Nat /\ HealthyTicks > 0
                /\ MaxFailures \in Nat
BY SystemAssumption

LEMMA Zeros == 0 \in 0..Threshold /\ 0 \in 0..HealthyTicks /\ 0 \in 0..MaxFailures
BY Bounds

LEMMA RetriedTyped == ASSUME NEW w \in WifiType PROVE Retried(w) \in WifiType
<1> DEFINE n == IF w.retry < Threshold THEN w.retry + 1 ELSE w.retry
           to == IF n < Threshold THEN "attempt" ELSE "timer"
<1>0. w.retry \in 0..Threshold /\ Threshold \in Nat
  BY Bounds DEF WifiType
<1>1. n \in 0..Threshold
  BY <1>0
<1>2. to \in {"attempt", "timer"}
  OBVIOUS
<1>3. Retried(w) = [w EXCEPT !.sta = FALSE, !.retry = n, !.next = to]
  BY DEF Retried
<1> HIDE DEF n, to
<1> QED BY <1>1, <1>2, <1>3 DEF WifiType

LEMMA InitTyped == NoWifi \in WifiType /\ (wifi \in WifiType => WifiInit \in WifiType)
<1>1. NoWifi \in WifiType
  BY Zeros DEF NoWifi, WifiType
<1>2. ASSUME wifi \in WifiType PROVE [wifi EXCEPT !.retry = 0] \in WifiType
  BY <1>2, Zeros DEF WifiType
<1>3. [NoWifi EXCEPT !.on = TRUE, !.next = "scan task"] \in WifiType
  BY <1>1 DEF WifiType
<1> QED BY <1>1, <1>2, <1>3 DEF WifiInit

LEMMA NetworkTyped ==
  ASSUME NetworkTypeOK, [Next]_vars
  PROVE  NetworkTypeOK'
<1>0. /\ eth \in BOOLEAN /\ slipped \in BOOLEAN /\ stranded \in BOOLEAN
      /\ wifi \in WifiType
  BY DEF NetworkTypeOK, WifiType
<1> SUFFICES /\ eth' \in BOOLEAN /\ slipped' \in BOOLEAN /\ stranded' \in BOOLEAN
             /\ wifi' \in WifiType
  BY DEF NetworkTypeOK, WifiType
<1>1. CASE Ethernet
  BY <1>0, <1>1 DEF Ethernet
<1>2. CASE WifiSteps
  <2>1. CASE Attempt
    <3>1. [wifi EXCEPT !.next = "attempt"] \in WifiType
      BY <1>0 DEF WifiType
    <3> QED BY <1>0, <2>1, <3>1 DEF Attempt, Wifi
  <2>2. CASE GotIp
    <3>1. [wifi EXCEPT !.next = "none", !.sta = TRUE, !.retry = 0] \in WifiType
      BY <1>0, Zeros DEF WifiType
    <3> QED BY <1>0, <2>2, <3>1 DEF GotIp, Wifi
  <2>3. CASE Disconnected
    BY <1>0, <2>3, RetriedTyped DEF Disconnected, Wifi
  <2> QED BY <1>2, <2>1, <2>2, <2>3 DEF WifiSteps
<1>3. CASE Scan
  <2>1. [wifi EXCEPT !.next = "none"] \in WifiType
    BY <1>0 DEF WifiType
  <2> QED BY <1>0, <1>3, <2>1, RetriedTyped DEF Scan, Wifi
<1>4. CASE AppLooks
  BY <1>0, <1>4, InitTyped DEF AppLooks
<1>5. CASE MonitorBegins
  BY <1>0, <1>5 DEF MonitorBegins
<1>6. CASE SwitchWifi
  <2>1. wifi' \in {NoWifi, WifiInit, wifi}
    BY <1>6 DEF SwitchWifi
  <2>2. stranded' \in BOOLEAN /\ eth' = eth /\ slipped' = slipped
    BY <1>6 DEF SwitchWifi
  <2> QED BY <1>0, <2>1, <2>2, InitTyped
<1>7. CASE UNCHANGED network
  BY <1>0, <1>7 DEF network
<1> QED
  BY <1>1, <1>2, <1>3, <1>4, <1>5, <1>6, <1>7
  DEF Next, vars, App, AppCreatesMonitor, AppStarts, Monitor, Look, RetryStart, NetworkEdge,
      ServerTask, Start, CheckStarted, InitInfrastructure, StartOutput, StartServer,
      SetStarted, Reach

MonitorType ==
  [pc : {"none", "begin", "sleep", "switch", "retry", "edge"},
   hadNet : BOOLEAN, hadEth : BOOLEAN, dns : BOOLEAN, wifi : BOOLEAN,
   net : BOOLEAN, eth : BOOLEAN, healthy : 0..HealthyTicks]

AppType == [pc : {"look", "wait", "start", "done"}, eth : BOOLEAN]

LEMMA MonitorTyped ==
  ASSUME NetworkTypeOK, MonitorTypeOK, ServicesTypeOK, [Next]_vars
  PROVE  MonitorTypeOK'
<1>0. app \in AppType /\ monitor \in MonitorType /\ confirmed \in BOOLEAN
  BY DEF MonitorTypeOK, AppType, MonitorType
<1> SUFFICES app' \in AppType /\ monitor' \in MonitorType /\ confirmed' \in BOOLEAN
  BY DEF MonitorTypeOK, AppType, MonitorType
<1>a. eth \in BOOLEAN /\ wifi.sta \in BOOLEAN /\ Network \in BOOLEAN
  BY DEF NetworkTypeOK, Network
<1>1. CASE AppLooks
  <2>1. app' = [pc |-> "wait", eth |-> eth]
    BY <1>1 DEF AppLooks
  <2> QED BY <1>0, <1>a, <1>1, <2>1 DEF AppLooks, AppType
<1>2. CASE AppCreatesMonitor
  <2>1. app' \in AppType
    BY <1>0, <1>2 DEF AppCreatesMonitor, AppType
  <2>2. monitor' \in MonitorType
    BY <1>0, <1>2 DEF AppCreatesMonitor, MonitorType
  <2> QED BY <1>0, <1>2, <2>1, <2>2 DEF AppCreatesMonitor
<1>3. CASE AppStarts
  <2>1. app' \in AppType
    BY <1>0, <1>3 DEF AppStarts, AppType
  <2> QED BY <1>0, <1>3, <2>1 DEF AppStarts
<1>4. CASE MonitorBegins
  <2>1. /\ monitor' = [monitor EXCEPT
             !.pc = "sleep", !.hadNet = Network, !.dns = ~Network,
             !.wifi = wifi.sta \/ ~eth, !.hadEth = eth]
        /\ UNCHANGED <<app, confirmed>>
    BY <1>4 DEF MonitorBegins
  <2> DEFINE on == wifi.sta \/ ~eth
             no == ~Network
  <2>2. on \in BOOLEAN /\ no \in BOOLEAN
    BY <1>a
  <2> HIDE DEF on, no
  <2>3. monitor' = [monitor EXCEPT !.pc = "sleep", !.hadNet = Network, !.dns = no,
                                   !.wifi = on, !.hadEth = eth]
    BY <2>1 DEF on, no
  <2> QED BY <1>0, <1>a, <2>1, <2>2, <2>3 DEF MonitorType
<1>5. CASE Look
  <2> DEFINE healthy == IF ~Network \/ ~started THEN 0
                        ELSE IF monitor.healthy < HealthyTicks THEN monitor.healthy + 1
                        ELSE monitor.healthy
  <2>1. monitor.healthy \in 0..HealthyTicks
    BY <1>0 DEF MonitorType
  <2>2. healthy \in 0..HealthyTicks
    BY <2>1, Bounds
  <2>3. /\ monitor' = [monitor EXCEPT !.pc = "switch", !.eth = eth, !.healthy = healthy]
        /\ confirmed' = (confirmed \/ healthy = HealthyTicks)
        /\ app' = app
    BY <1>5 DEF Look
  <2> HIDE DEF healthy
  <2>4. monitor' \in MonitorType
    BY <1>0, <1>a, <2>2, <2>3 DEF MonitorType
  <2> QED BY <1>0, <2>3, <2>4
<1>6. CASE SwitchWifi
  <2>1. PICK on \in BOOLEAN, net \in BOOLEAN :
          monitor' = [monitor EXCEPT !.pc = "retry", !.wifi = on,
                                     !.hadEth = monitor.eth, !.net = net]
    <3> DEFINE come == monitor.eth /\ ~monitor.hadEth /\ monitor.wifi
               gone == ~monitor.eth /\ monitor.hadEth
               on == (monitor.wifi /\ ~come) \/ gone
               net == monitor.eth \/ wifi'.sta
    <3>1. on \in BOOLEAN /\ net \in BOOLEAN
      OBVIOUS
    <3>2. monitor' = [monitor EXCEPT !.pc = "retry", !.wifi = on,
                                     !.hadEth = monitor.eth, !.net = net]
      BY <1>6 DEF SwitchWifi
    <3> QED BY <3>1, <3>2
  <2>2. UNCHANGED <<app, confirmed>>
    BY <1>6 DEF SwitchWifi
  <2>3. monitor.eth \in BOOLEAN
    BY <1>0 DEF MonitorType
  <2> QED BY <1>0, <2>1, <2>2, <2>3 DEF MonitorType
<1>7. CASE RetryStart
  <2>1. monitor' \in MonitorType
    BY <1>0, <1>7 DEF RetryStart, MonitorType
  <2> QED BY <1>0, <1>7, <2>1 DEF RetryStart
<1>8. CASE NetworkEdge
  <2> DEFINE dns == IF monitor.net = monitor.hadNet THEN monitor.dns ELSE ~monitor.net
  <2>1. dns \in BOOLEAN /\ monitor.net \in BOOLEAN
    BY <1>0 DEF MonitorType
  <2>2. monitor' = [monitor EXCEPT !.pc = "sleep", !.hadNet = monitor.net, !.dns = dns]
    BY <1>8 DEF NetworkEdge
  <2> HIDE DEF dns
  <2>3. monitor' \in MonitorType
    BY <1>0, <2>1, <2>2 DEF MonitorType
  <2> QED BY <1>0, <1>8, <2>3 DEF NetworkEdge
<1>9. CASE UNCHANGED <<app, monitor, confirmed>>
  BY <1>0, <1>9
<1> QED
  BY <1>1, <1>2, <1>3, <1>4, <1>5, <1>6, <1>7, <1>8, <1>9
  DEF Next, vars, App, Monitor, Ethernet, WifiSteps, Attempt, GotIp, Disconnected, Scan, Wifi,
      ServerTask, Start, CheckStarted, InitInfrastructure, StartOutput, StartServer,
      SetStarted, Reach

Place == {"idle", "start", "init", "output", "server", "done"}

LEMMA ServicesTyped ==
  ASSUME ServicesTypeOK, [Next]_vars
  PROVE  ServicesTypeOK'
<1> DEFINE serverType == [task : {"none", "starting", "serving", "dead"}, handle : BOOLEAN]
           rest == /\ ready' \in BOOLEAN /\ started' \in BOOLEAN /\ output' \in BOOLEAN
                   /\ server' \in serverType /\ failures' \in 0..MaxFailures
<1>0. /\ at \in [Caller -> Place] /\ ready \in BOOLEAN /\ started \in BOOLEAN
      /\ output \in BOOLEAN /\ server \in serverType /\ failures \in 0..MaxFailures
  BY DEF ServicesTypeOK, Place
<1> SUFFICES at' \in [Caller -> Place] /\ rest
  BY DEF ServicesTypeOK, Place
<1>1. CASE AppStarts
  BY <1>0, <1>1 DEF AppStarts, Place
<1>2. CASE RetryStart
  BY <1>0, <1>2 DEF RetryStart, Place
<1>3. CASE NetworkEdge
  BY <1>0, <1>3 DEF NetworkEdge, Place
<1>4. CASE ServerTask
  <2>1. server' \in serverType
    BY <1>0, <1>4 DEF ServerTask
  <2>2. failures' \in 0..MaxFailures
    BY <1>0, <1>4, Bounds DEF ServerTask, Fails
  <2> QED BY <1>0, <1>4, <2>1, <2>2 DEF ServerTask
<1>5. ASSUME NEW c \in Caller, Start(c)
      PROVE  at' \in [Caller -> Place] /\ rest
  <2>1. ASSUME NEW pc \in Place, Reach(c, pc) PROVE at' \in [Caller -> Place]
    BY <1>0, <2>1 DEF Reach
  <2>2. ASSUME Fails PROVE failures' \in 0..MaxFailures
    BY <1>0, <2>2, Bounds DEF Fails
  <2>3. CASE CheckStarted(c)
    BY <1>0, <2>1, <2>3 DEF CheckStarted, Place
  <2>4. CASE InitInfrastructure(c)
    <3>1. at' \in [Caller -> Place]
      BY <2>1, <2>4 DEF InitInfrastructure, Place
    <3>2. failures' \in 0..MaxFailures
      BY <1>0, <2>2, <2>4 DEF InitInfrastructure
    <3>3. ready' \in BOOLEAN /\ started' \in BOOLEAN
      BY <1>0, <2>4 DEF InitInfrastructure
    <3> QED BY <1>0, <2>4, <3>1, <3>2, <3>3 DEF InitInfrastructure
  <2>5. CASE StartOutput(c)
    BY <1>0, <2>1, <2>5 DEF StartOutput, Place
  <2>6. CASE StartServer(c)
    <3>1. at' \in [Caller -> Place]
      BY <2>1, <2>6 DEF StartServer, Place
    <3>2. failures' \in 0..MaxFailures
      BY <1>0, <2>2, <2>6 DEF StartServer
    <3>3. server' \in serverType
      <4>1. [task |-> "starting", handle |-> TRUE] \in serverType
        OBVIOUS
      <4>2. server' \in {server, [task |-> "starting", handle |-> TRUE]}
        BY <2>6 DEF StartServer
      <4> QED BY <1>0, <4>1, <4>2
    <3>4. ready' \in BOOLEAN /\ started' \in BOOLEAN /\ output' \in BOOLEAN
      BY <1>0, <2>6 DEF StartServer
    <3> QED BY <3>1, <3>2, <3>3, <3>4
  <2>7. CASE SetStarted(c)
    BY <1>0, <2>1, <2>7 DEF SetStarted, Place
  <2> QED BY <1>5, <2>3, <2>4, <2>5, <2>6, <2>7 DEF Start
<1>6. CASE UNCHANGED services
  BY <1>0, <1>6 DEF services
<1> QED
  BY <1>1, <1>2, <1>3, <1>4, <1>5, <1>6
  DEF Next, vars, App, AppLooks, AppCreatesMonitor, Monitor, MonitorBegins, Look, SwitchWifi,
      Ethernet, WifiSteps, Attempt, GotIp, Disconnected, Scan, Wifi

(* Every variable keeps its type.                                          *)
THEOREM Typed == Spec => []TypeOK
<1>1. Init => TypeOK
  <2>1. Init => NetworkTypeOK
    BY InitTyped DEF Init, NetworkTypeOK, WifiType
  <2>2. Init => MonitorTypeOK
    <3>1. [pc |-> "none", hadNet |-> FALSE, hadEth |-> FALSE, dns |-> FALSE, wifi |-> FALSE,
           net |-> FALSE, eth |-> FALSE, healthy |-> 0] \in MonitorType
      BY Zeros DEF MonitorType
    <3>2. [pc |-> "look", eth |-> FALSE] \in AppType
      BY DEF AppType
    <3>3. Init => /\ app \in AppType /\ monitor \in MonitorType /\ confirmed \in BOOLEAN
      BY <3>1, <3>2 DEF Init
    <3> QED BY <3>3 DEF MonitorTypeOK, AppType, MonitorType
  <2>3. Init => ServicesTypeOK
    <3>1. [task |-> "none", handle |-> FALSE]
            \in [task : {"none", "starting", "serving", "dead"}, handle : BOOLEAN]
      OBVIOUS
    <3>2. [c \in Caller |-> "idle"]
            \in [Caller -> {"idle", "start", "init", "output", "server", "done"}]
      OBVIOUS
    <3> QED BY Zeros, <3>1, <3>2 DEF Init, ServicesTypeOK
  <2> QED BY <2>1, <2>2, <2>3 DEF TypeOK
<1>2. TypeOK /\ [Next]_vars => TypeOK'
  BY NetworkTyped, MonitorTyped, ServicesTyped DEF TypeOK
<1> QED BY <1>1, <1>2, PTL DEF Spec

(* ---------------------- what a start leaves behind --------------------- *)

(* A step of the caller that is within start_airplay_services.             *)
LEMMA StartKeeps ==
  ASSUME ServicesTypeOK, Inv, NEW c \in Caller, Start(c)
  PROVE  Inv'
<1>1. at[c] # "idle"
  BY DEF Start, CheckStarted, InitInfrastructure, StartOutput, StartServer, SetStarted
<1>2. \A d \in Caller : d # c => at[d] = "idle"
  BY <1>1 DEF Inv, OneStarts, Caller
<1>3. Stage = at[c]
  BY <1>1, <1>2 DEF Stage, Caller
<1>4. \A pc : Reach(c, pc) => /\ at'[c] = pc /\ \A d \in Caller : d # c => at'[d] = "idle"
                             /\ Stage' = pc /\ UNCHANGED <<app, monitor, confirmed>>
  BY <1>2 DEF Reach, Stage, Caller, ServicesTypeOK
<1>5. \E pc : Reach(c, pc)
  BY DEF Start, CheckStarted, InitInfrastructure, StartOutput, StartServer, SetStarted
<1>6. OneStarts'
  BY <1>4, <1>5 DEF OneStarts, Caller
<1>7. AppFirst'
  <2>1. \A d \in Caller : at'[d] # "idle" => at[d] # "idle"
    BY <1>1, <1>4, <1>5
  <2> QED BY <1>4, <1>5, <2>1 DEF Inv, AppFirst, Caller
<1>8. Fits(Stage)' /\ (confirmed => started)'
  <2>1. CASE CheckStarted(c)
    BY <1>3, <1>4, <2>1 DEF CheckStarted, Inv, Fits, ServicesTypeOK
  <2>2. CASE InitInfrastructure(c)
    BY <1>3, <1>4, <2>2 DEF InitInfrastructure, Inv, Fits
  <2>3. CASE StartOutput(c)
    BY <1>3, <1>4, <2>3 DEF StartOutput, Inv, Fits
  <2>4. CASE StartServer(c)
    <3>1. Stage = "server"
      BY <1>3, <2>4 DEF StartServer
    <3>2. ~started /\ output /\ ~server.handle /\ ready /\ ready' = ready
      BY <2>4, <3>1 DEF Inv, Fits, StartServer
    <3>3. CASE Reach(c, "done") /\ started' = started /\ output' = output
               /\ server' = [task |-> "starting", handle |-> TRUE]
      <4>1. server'.handle
        BY <3>3
      <4> QED BY <1>4, <3>2, <3>3, <4>1 DEF Inv, Fits
    <3>4. CASE Reach(c, "idle") /\ started' = FALSE /\ output' = FALSE /\ server' = server
      BY <1>4, <3>2, <3>4 DEF Inv, Fits
    <3> QED BY <2>4, <3>3, <3>4 DEF StartServer
  <2>5. CASE SetStarted(c)
    BY <1>3, <1>4, <2>5 DEF SetStarted, Inv, Fits
  <2> QED BY <2>1, <2>2, <2>3, <2>4, <2>5 DEF Start
<1> QED BY <1>6, <1>7, <1>8 DEF Inv

(* A caller enters it while no other is within.                            *)
LEMMA EnterKeeps ==
  ASSUME ServicesTypeOK, Inv, NEW c \in Caller, NEW pc \in {"start", "idle"},
         \A d \in Caller : at[d] = "idle",
         at' = [at EXCEPT ![c] = pc],
         UNCHANGED <<ready, started, output, server, confirmed>>,
         AppFirst'
  PROVE  Inv'
<1>1. OneStarts'
  BY DEF OneStarts, Caller, ServicesTypeOK
<1>2. Stage = "idle" /\ Stage' \in {"start", "idle"}
  BY DEF Stage, Caller, ServicesTypeOK
<1> QED BY <1>1, <1>2 DEF Inv, Fits

(* A step outside it.                                                      *)
LEMMA OthersKeep ==
  ASSUME Inv, UNCHANGED <<at, ready, started, output, confirmed>>,
         server'.handle = server.handle, AppFirst'
  PROVE  Inv'
BY DEF Inv, OneStarts, Stage, Fits

LEMMA Inductive ==
  ASSUME TypeOK, Inv, [Next]_vars
  PROVE  Inv'
<1> USE DEF TypeOK
<1>1. ASSUME NEW c \in Caller, Start(c) PROVE Inv'
  BY <1>1, StartKeeps
<1>2. CASE AppStarts
  <2>1. \A c \in Caller : at[c] = "idle"
    BY <1>2 DEF AppStarts, Inv, AppFirst, Caller
  <2>2. app'.pc = "done"
    BY <1>2 DEF AppStarts, MonitorTypeOK
  <2>3. monitor.pc \notin {"switch", "retry", "edge"}
    BY <1>2 DEF AppStarts, Inv, AppFirst
  <2>4. AppFirst'
    BY <1>2, <2>1, <2>2, <2>3 DEF AppStarts, AppFirst, Caller, ServicesTypeOK
  <2>5. PICK pc \in {"start", "idle"} : at' = [at EXCEPT !["app"] = pc]
    BY <1>2 DEF AppStarts
  <2>6. UNCHANGED <<ready, started, output, server, confirmed>>
    BY <1>2 DEF AppStarts
  <2> QED BY <2>1, <2>4, <2>5, <2>6, EnterKeeps DEF Caller
<1>3. CASE RetryStart \/ NetworkEdge
  <2>1. \A c \in Caller : at[c] = "idle"
    BY <1>3 DEF RetryStart, NetworkEdge, Inv, AppFirst, Caller
  <2>2. app.pc = "done" /\ app' = app
    BY <1>3 DEF RetryStart, NetworkEdge, Inv, AppFirst
  <2>3. monitor'.pc \in {"edge", "sleep"}
    BY <1>3 DEF RetryStart, NetworkEdge, MonitorTypeOK
  <2>4. PICK pc \in {"start", "idle"} : at' = [at EXCEPT !["monitor"] = pc]
    BY <1>3 DEF RetryStart, NetworkEdge
  <2>5. AppFirst'
    BY <2>1, <2>2, <2>3, <2>4 DEF AppFirst, Caller, ServicesTypeOK
  <2>6. UNCHANGED <<ready, started, output, server, confirmed>>
    BY <1>3 DEF RetryStart, NetworkEdge
  <2> QED BY <2>1, <2>4, <2>5, <2>6, EnterKeeps DEF Caller
<1>4. CASE AppLooks \/ AppCreatesMonitor \/ MonitorBegins \/ SwitchWifi
  <2>1. UNCHANGED <<at, ready, started, output, server, confirmed>>
    BY <1>4 DEF AppLooks, AppCreatesMonitor, MonitorBegins, SwitchWifi, services
  <2>2. AppFirst'
    <3>1. CASE AppLooks
      BY <2>1, <3>1 DEF AppLooks, Inv, AppFirst, MonitorTypeOK
    <3>2. CASE AppCreatesMonitor
      BY <2>1, <3>2 DEF AppCreatesMonitor, Inv, AppFirst, MonitorTypeOK
    <3>3. CASE MonitorBegins
      BY <2>1, <3>3 DEF MonitorBegins, Inv, AppFirst, MonitorTypeOK
    <3>4. CASE SwitchWifi
      BY <2>1, <3>4 DEF SwitchWifi, Inv, AppFirst, MonitorTypeOK
    <3> QED BY <1>4, <3>1, <3>2, <3>3, <3>4
  <2> QED BY <2>1, <2>2, OthersKeep
<1>5. CASE Look
  <2> DEFINE healthy == IF ~Network \/ ~started THEN 0
                        ELSE IF monitor.healthy < HealthyTicks THEN monitor.healthy + 1
                        ELSE monitor.healthy
  <2>1. healthy = HealthyTicks => started
    BY Bounds, ServicesTyped DEF ServicesTypeOK
  <2>2. confirmed' = (confirmed \/ healthy = HealthyTicks) /\ UNCHANGED services
    BY <1>5 DEF Look
  <2>3. UNCHANGED <<at, ready, started, output, server>>
    BY <2>2 DEF services
  <2>4. AppFirst'
    BY <1>5, <2>3 DEF Look, AppFirst, MonitorTypeOK
  <2>5. (OneStarts /\ Fits(Stage))'
    BY <2>3 DEF Inv, OneStarts, Stage, Fits
  <2> QED BY <2>1, <2>2, <2>3, <2>4, <2>5 DEF Inv
<1>6. CASE ServerTask
  <2>1. UNCHANGED <<at, ready, started, output, confirmed, app, monitor>>
    BY <1>6 DEF ServerTask
  <2>2. server'.handle = server.handle
    BY <1>6 DEF ServerTask, ServicesTypeOK
  <2>3. AppFirst'
    BY <2>1 DEF Inv, AppFirst
  <2> QED BY <2>1, <2>2, <2>3, OthersKeep
<1>7. CASE UNCHANGED <<app, monitor, services, confirmed>>
  <2>1. UNCHANGED <<at, ready, started, output, confirmed, app, monitor, server>>
    BY <1>7 DEF services
  <2>2. AppFirst'
    BY <2>1 DEF Inv, AppFirst
  <2> QED BY <2>1, <2>2, OthersKeep
<1> QED
  BY <1>1, <1>2, <1>3, <1>4, <1>5, <1>6, <1>7
  DEF Next, vars, App, Monitor, Ethernet, WifiSteps, Attempt, GotIp, Disconnected, Scan, Wifi

LEMMA InitInv == Init => Inv
BY DEF Init, Inv, OneStarts, AppFirst, Stage, Fits, Caller

(* app_main and the monitor start AirPlay one after the other, and every   *)
(* call leaves all of its services or none: start_airplay_services.        *)
THEOREM StartsComplete == Spec => []StartIsAllOrNothing
<1>1. TypeOK /\ Inv => StartIsAllOrNothing
  <2> SUFFICES ASSUME TypeOK, Inv, \A c \in Caller : at[c] = "idle"
               PROVE  output = started /\ server.handle = started /\ (started => ready)
    BY DEF StartIsAllOrNothing
  <2>1. Stage = "idle"
    BY DEF Stage, Caller
  <2>2. output \in BOOLEAN /\ server.handle \in BOOLEAN /\ started \in BOOLEAN
    BY DEF TypeOK, ServicesTypeOK
  <2> QED BY <2>1, <2>2 DEF Inv, Fits
<1> QED BY <1>1, InitInv, Inductive, Typed, PTL DEF Spec

(* mark_ota_valid only runs in an image that has started AirPlay, for any  *)
(* number of ticks and of failures to start.                               *)
THEOREM ConfirmedServes == Spec => []ConfirmedImageServes
<1>1. Inv => ConfirmedImageServes
  BY DEF Inv, ConfirmedImageServes
<1> QED BY <1>1, InitInv, Inductive, Typed, PTL DEF Spec
=============================================================================
