------------------------------- MODULE System -------------------------------
(***************************************************************************)
(* Which network the device uses, and when AirPlay runs: main/main.c with  *)
(* network/wifi.c, network/ethernet.c, the start and stop of the RTSP      *)
(* server and of the audio output.                                         *)
(*                                                                         *)
(* app_main looks once at Ethernet, starts WiFi when there is none, waits  *)
(* for it, creates the network monitor and starts AirPlay.  The monitor    *)
(* looks at the network every two seconds: it stops WiFi when Ethernet     *)
(* comes, starts it when Ethernet goes, starts AirPlay when there is a     *)
(* network, and runs the captive portal's DNS server when there is none.   *)
(* Builds with Bluetooth, whose callback stops AirPlay, are not modelled.  *)
(* WiFi reconnects by itself, at once the first times, then by a timer.    *)
(*                                                                         *)
(* slipped and stranded are history: no step reads them.                   *)
(***************************************************************************)
EXTENDS Naturals

CONSTANTS
  Threshold,    \* AP_REENABLE_THRESHOLD
  HealthyTicks, \* ticks in a row that confirm an OTA image (60 s)
  MaxFailures   \* failures of services to start, at most

ASSUME SystemAssumption ==
  /\ Threshold \in Nat \ {0} /\ HealthyTicks \in Nat \ {0}
  /\ MaxFailures \in Nat

Caller == {"app", "monitor"}

VARIABLES
  eth,       \* s_eth_connected
  wifi,      \* initialized; s_sta_connected; s_retry_num; an attempt to
             \* connect is under way, waits for the timer, or for the scan task
  app,       \* where app_main stands, and eth_available
  monitor,   \* where network_monitor_task stands, and its variables
  at,        \* where each caller stands in start_airplay_services
  ready,     \* s_airplay_infrastructure_ready
  started,   \* s_airplay_started
  output,    \* there is a playback task
  server,    \* the RTSP server task, and whether its handle is set
  confirmed, \* the OTA image is marked valid
  failures,  \* services that failed to start
  slipped,   \* Ethernet changed between app_main's look and the monitor's
  stranded   \* a scan stopped the timer that WiFi waited for

network == <<eth, wifi, slipped, stranded>>
services == <<at, ready, started, output, server, failures>>
vars == <<network, app, monitor, services, confirmed>>

Network == eth \/ wifi.sta

-----------------------------------------------------------------------------
NoWifi == [on |-> FALSE, sta |-> FALSE, retry |-> 0, next |-> "none"]

Init ==
  /\ eth \in BOOLEAN
  /\ wifi = NoWifi
  /\ app = [pc |-> "look", eth |-> FALSE]
  /\ monitor = [pc |-> "none", hadNet |-> FALSE, hadEth |-> FALSE, dns |-> FALSE,
                wifi |-> FALSE, net |-> FALSE, eth |-> FALSE, healthy |-> 0]
  /\ at = [c \in Caller |-> "idle"]
  /\ ready = FALSE /\ started = FALSE /\ output = FALSE
  /\ server = [task |-> "none", handle |-> FALSE]
  /\ confirmed = FALSE
  /\ failures = 0
  /\ slipped = FALSE /\ stranded = FALSE

-----------------------------------------------------------------------------
(* Ethernet comes and goes.                                                *)
Ethernet ==
  /\ eth' = ~eth
  /\ UNCHANGED <<wifi, slipped, stranded, app, monitor, services, confirmed>>

-----------------------------------------------------------------------------
(* WiFi.                                                                   *)

Wifi(w) ==
  /\ wifi' = w
  /\ UNCHANGED <<eth, slipped, app, monitor, services, confirmed>>

(* scan_and_connect_task, and the retry timer.                             *)
Attempt ==
  /\ wifi.next \in {"scan task", "timer"}
  /\ Wifi([wifi EXCEPT !.next = "attempt"])
  /\ UNCHANGED stranded

GotIp ==
  /\ wifi.next = "attempt"
  /\ Wifi([wifi EXCEPT !.next = "none", !.sta = TRUE, !.retry = 0])
  /\ UNCHANGED stranded

(* The first failures are followed by an attempt at once, the others by a  *)
(* delay.  The count stops where it makes no difference.                   *)
Retried(w) ==
  LET n == IF w.retry < Threshold THEN w.retry + 1 ELSE w.retry
  IN  [w EXCEPT !.sta = FALSE, !.retry = n,
                !.next = IF n < Threshold THEN "attempt" ELSE "timer"]

(* Variant: after the first failures there are no more attempts.           *)
GiveUp ==
  /\ wifi.sta \/ wifi.next = "attempt"
  /\ Wifi(IF Retried(wifi).next = "timer" THEN [Retried(wifi) EXCEPT !.next = "none"]
          ELSE Retried(wifi))
  /\ UNCHANGED stranded

Disconnected ==
  /\ wifi.sta \/ wifi.next = "attempt"
  /\ Wifi(Retried(wifi))
  /\ UNCHANGED stranded

(* wifi_scan, for the web page: it stops the timer and disconnects.  There *)
(* is an event only if there is something to disconnect.                   *)
Scan ==
  /\ wifi.on
  /\ IF wifi.sta \/ wifi.next = "attempt"
     THEN Wifi(Retried(wifi)) /\ UNCHANGED stranded
     ELSE /\ wifi.next = "timer"
          /\ Wifi([wifi EXCEPT !.next = "none"])
          /\ stranded' = TRUE

WifiSteps == Attempt \/ GotIp \/ Disconnected

(* wifi_init_apsta: a station that is started makes an attempt.            *)
WifiInit == IF wifi.on THEN [wifi EXCEPT !.retry = 0]
            ELSE [NoWifi EXCEPT !.on = TRUE, !.next = "scan task"]

-----------------------------------------------------------------------------
(* start_airplay_services.                                                 *)

Reach(c, pc) == at' = [at EXCEPT ![c] = pc] /\ UNCHANGED <<network, app, monitor, confirmed>>

Fails == failures < MaxFailures /\ failures' = failures + 1

CheckStarted(c) ==
  /\ at[c] = "start"
  /\ Reach(c, IF started THEN "idle" ELSE IF ready THEN "output" ELSE "init")
  /\ UNCHANGED <<ready, started, output, server, failures>>

(* What is initialised once; the PTP clock may fail to, what comes after   *)
(* it restarts the device.                                                 *)
InitInfrastructure(c) ==
  /\ at[c] = "init"
  /\ \/ ready' = TRUE /\ started' = started
        /\ failures' = failures /\ Reach(c, "output")
     \/ started' = FALSE /\ ready' = ready
        /\ Fails /\ Reach(c, "idle")
  /\ UNCHANGED <<output, server>>

StartOutput(c) ==
  /\ at[c] = "output"
  /\ output' = TRUE
  /\ Reach(c, "server")
  /\ UNCHANGED <<ready, started, server, failures>>

(* Variant: the playback task is left running when the server fails.       *)
StartServerOnly(c) ==
  /\ at[c] = "server"
  /\ \/ /\ ~server.handle
        /\ server' = [task |-> "starting", handle |-> TRUE]
        /\ failures' = failures /\ Reach(c, "done")
     \/ /\ IF server.handle THEN failures' = failures ELSE Fails
        /\ server' = server /\ Reach(c, "idle")
  /\ UNCHANGED <<ready, started, output>>

(* rtsp_server_start; the audio output is stopped again if it fails.       *)
StartServer(c) ==
  /\ at[c] = "server"
  /\ \/ /\ ~server.handle
        /\ server' = [task |-> "starting", handle |-> TRUE]
        /\ failures' = failures /\ started' = started /\ output' = output
        /\ Reach(c, "done")
     \/ /\ IF server.handle THEN failures' = failures ELSE Fails
        /\ server' = server /\ started' = FALSE /\ output' = FALSE
        /\ Reach(c, "idle")
  /\ UNCHANGED <<ready>>

SetStarted(c) ==
  /\ at[c] = "done"
  /\ started' = TRUE
  /\ Reach(c, "idle")
  /\ UNCHANGED <<ready, output, server, failures>>

Start(c) ==
  \/ CheckStarted(c) \/ InitInfrastructure(c) \/ StartOutput(c)
  \/ StartServer(c) \/ SetStarted(c)

(* server_task: without a socket, a port or a listener it ends, and leaves *)
(* its handle behind.                                                      *)
ServerTask ==
  /\ server.task = "starting"
  /\ \/ server' = [server EXCEPT !.task = "serving"] /\ failures' = failures
     \/ server' = [server EXCEPT !.task = "dead"] /\ Fails
  /\ UNCHANGED <<network, app, monitor, at, ready, started, output, confirmed>>

-----------------------------------------------------------------------------
(* app_main.                                                               *)

AppLooks ==
  /\ app.pc = "look"
  /\ app' = [pc |-> "wait", eth |-> eth]
  /\ wifi' = IF eth THEN wifi ELSE WifiInit
  /\ UNCHANGED <<eth, slipped, stranded, monitor, services, confirmed>>

(* WiFi is connected, has failed, or 30 s have passed.                     *)
AppCreatesMonitor ==
  /\ app.pc = "wait"
  /\ app' = [app EXCEPT !.pc = "start"]
  /\ monitor' = [monitor EXCEPT !.pc = "begin"]
  /\ UNCHANGED <<network, services, confirmed>>

AppStarts ==
  /\ app.pc = "start"
  /\ app' = [app EXCEPT !.pc = "done"]
  /\ at' = [at EXCEPT !["app"] = IF app.eth \/ wifi.sta THEN "start" ELSE "idle"]
  /\ UNCHANGED <<network, monitor, ready, started, output, server, failures, confirmed>>

App == AppLooks \/ AppCreatesMonitor \/ AppStarts

-----------------------------------------------------------------------------
(* network_monitor_task.                                                   *)

MonitorBegins ==
  /\ monitor.pc = "begin"
  /\ monitor' = [monitor EXCEPT
       !.pc = "sleep", !.hadNet = Network, !.dns = ~Network,
       !.wifi = wifi.sta \/ ~eth, !.hadEth = eth]
  /\ slipped' = (eth # app.eth)
  /\ UNCHANGED <<eth, wifi, stranded, app, services, confirmed>>

(* Variant: an image counts as healthy as soon as there is a network.      *)
LookAtNetwork ==
  /\ monitor.pc = "sleep" /\ app.pc = "done"
  /\ at["app"] = "idle" /\ at["monitor"] = "idle"
  /\ LET healthy == IF ~Network THEN 0
                    ELSE IF monitor.healthy < HealthyTicks THEN monitor.healthy + 1
                    ELSE monitor.healthy
     IN  /\ monitor' = [monitor EXCEPT !.pc = "switch", !.eth = eth, !.healthy = healthy]
         /\ confirmed' = (confirmed \/ healthy = HealthyTicks)
  /\ UNCHANGED <<network, app, services>>

(* Two seconds have passed: the monitor looks at the network, and marks    *)
(* the image valid when all has been well for long enough.  By then        *)
(* app_main is done.                                                       *)
Look ==
  /\ monitor.pc = "sleep" /\ app.pc = "done"
  /\ at["app"] = "idle" /\ at["monitor"] = "idle"
  /\ LET healthy == IF ~Network \/ ~started THEN 0
                    ELSE IF monitor.healthy < HealthyTicks THEN monitor.healthy + 1
                    ELSE monitor.healthy
     IN  /\ monitor' = [monitor EXCEPT !.pc = "switch", !.eth = eth, !.healthy = healthy]
         /\ confirmed' = (confirmed \/ healthy = HealthyTicks)
  /\ UNCHANGED <<network, app, services>>

(* Variant: the monitor forgets that it stopped or started WiFi.           *)
SwitchOnce ==
  /\ monitor.pc = "switch"
  /\ LET come == monitor.eth /\ ~monitor.hadEth /\ monitor.wifi
         gone == ~monitor.eth /\ monitor.hadEth
     IN  /\ wifi' = IF come THEN NoWifi ELSE IF gone THEN WifiInit ELSE wifi
         /\ stranded' = (stranded /\ ~come /\ ~(gone /\ ~wifi.on))
         /\ monitor' = [monitor EXCEPT
              !.pc = "retry", !.wifi = @ /\ ~come,
              !.hadEth = monitor.eth, !.net = monitor.eth \/ wifi'.sta]
  /\ UNCHANGED <<eth, slipped, app, services, confirmed>>

(* WiFi is stopped when Ethernet has come, and started when it has gone.   *)
SwitchWifi ==
  /\ monitor.pc = "switch"
  /\ LET come == monitor.eth /\ ~monitor.hadEth /\ monitor.wifi
         gone == ~monitor.eth /\ monitor.hadEth
     IN  /\ wifi' = IF come THEN NoWifi ELSE IF gone THEN WifiInit ELSE wifi
         /\ stranded' = (stranded /\ ~come /\ ~(gone /\ ~wifi.on))
         /\ monitor' = [monitor EXCEPT
              !.pc = "retry", !.wifi = (@ /\ ~come) \/ gone,
              !.hadEth = monitor.eth, !.net = monitor.eth \/ wifi'.sta]
  /\ UNCHANGED <<eth, slipped, app, services, confirmed>>

(* Variant: AirPlay is started only when the network comes.                *)
SkipRetry ==
  /\ monitor.pc = "retry"
  /\ monitor' = [monitor EXCEPT !.pc = "edge"]
  /\ UNCHANGED <<network, app, services, confirmed>>

(* As long as there is a network, a start of AirPlay that failed is        *)
(* repeated.                                                               *)
RetryStart ==
  /\ monitor.pc = "retry"
  /\ monitor' = [monitor EXCEPT !.pc = "edge"]
  /\ at' = [at EXCEPT !["monitor"] = IF monitor.net /\ ~started THEN "start" ELSE "idle"]
  /\ UNCHANGED <<network, app, ready, started, output, server, failures, confirmed>>

(* Variant: the DNS server is left running.                                *)
EdgeKeepsDns ==
  /\ monitor.pc = "edge" /\ at["monitor"] = "idle"
  /\ monitor' = [monitor EXCEPT !.pc = "sleep", !.hadNet = monitor.net,
                                !.dns = @ \/ ~monitor.net]
  /\ at' = [at EXCEPT !["monitor"] =
              IF monitor.net /\ ~monitor.hadNet THEN "start" ELSE "idle"]
  /\ UNCHANGED <<network, app, ready, started, output, server, failures, confirmed>>

(* When the network has come AirPlay is started and the DNS server         *)
(* stopped; when it has gone the DNS server is started.                    *)
NetworkEdge ==
  /\ monitor.pc = "edge" /\ at["monitor"] = "idle"
  /\ monitor' = [monitor EXCEPT
       !.pc = "sleep", !.hadNet = monitor.net,
       !.dns = IF monitor.net = monitor.hadNet THEN @ ELSE ~monitor.net]
  /\ at' = [at EXCEPT !["monitor"] =
              IF monitor.net /\ ~monitor.hadNet THEN "start" ELSE "idle"]
  /\ UNCHANGED <<network, app, ready, started, output, server, failures, confirmed>>

Monitor == MonitorBegins \/ Look \/ SwitchWifi \/ RetryStart \/ NetworkEdge

-----------------------------------------------------------------------------
Next ==
  \/ Ethernet \/ WifiSteps \/ Scan
  \/ App \/ Monitor \/ ServerTask
  \/ \E c \in Caller : Start(c)

Spec == Init /\ [][Next]_vars

(* The tasks run when they have something to do, and an attempt to connect *)
(* ends one way or the other.  Nothing is assumed of the network.          *)
FairSpec ==
  /\ Spec
  /\ WF_vars(WifiSteps)
  /\ WF_vars(App) /\ WF_vars(Monitor) /\ WF_vars(ServerTask)
  /\ \A c \in Caller : WF_vars(Start(c))

-----------------------------------------------------------------------------
NetworkTypeOK ==
  /\ eth \in BOOLEAN /\ slipped \in BOOLEAN /\ stranded \in BOOLEAN
  /\ wifi \in [on : BOOLEAN, sta : BOOLEAN, retry : 0..Threshold,
               next : {"none", "scan task", "attempt", "timer"}]

MonitorTypeOK ==
  /\ app \in [pc : {"look", "wait", "start", "done"}, eth : BOOLEAN]
  /\ monitor \in [pc : {"none", "begin", "sleep", "switch", "retry", "edge"},
                  hadNet : BOOLEAN, hadEth : BOOLEAN, dns : BOOLEAN, wifi : BOOLEAN,
                  net : BOOLEAN, eth : BOOLEAN, healthy : 0..HealthyTicks]
  /\ confirmed \in BOOLEAN

ServicesTypeOK ==
  /\ at \in [Caller -> {"idle", "start", "init", "output", "server", "done"}]
  /\ ready \in BOOLEAN /\ started \in BOOLEAN /\ output \in BOOLEAN
  /\ server \in [task : {"none", "starting", "serving", "dead"}, handle : BOOLEAN]
  /\ failures \in 0..MaxFailures

TypeOK == NetworkTypeOK /\ MonitorTypeOK /\ ServicesTypeOK

(* No service of AirPlay is left over from a start that failed: between    *)
(* calls there is a playback task and a server task if and only if AirPlay *)
(* counts as started.                                                      *)
StartIsAllOrNothing ==
  (\A c \in Caller : at[c] = "idle")
    => /\ output = started
       /\ server.handle = started
       /\ started => ready

(* An image is confirmed only after AirPlay was started by it: one that    *)
(* has a network but cannot serve is rolled back.                          *)
ConfirmedImageServes == confirmed => started

(* One of the networks is up for good.                                     *)
Stays == <>[]eth \/ <>[]wifi.sta

(* Once there is a network for good AirPlay is served, however often it    *)
(* failed to start, unless the server task itself failed (the comments     *)
(* "retries naturally" and "Retry path").                                  *)
NetworkIsServed == Stays => <>(server.task \in {"serving", "dead"})

(* Once Ethernet is down for good WiFi is on, and once it is up for good   *)
(* WiFi is off: however Ethernet flaps between the monitor's looks.  Only  *)
(* a change while app_main waits is never noticed.                         *)
OneInterface ==
  /\ <>[]~eth => <>[](wifi.on \/ slipped)
  /\ <>[]eth => <>[](~wifi.on \/ slipped)

(* The captive portal's DNS server runs for good when there is no network, *)
(* and is stopped when there is one.                                       *)
PortalFollowsNetwork ==
  /\ Stays => <>[]~monitor.dns
  /\ <>[]~Network => <>[]monitor.dns

(* A station that is not connected tries again and again, unless a scan    *)
(* from the web page took the timer away.                                  *)
WifiKeepsTrying ==
  []<>(~wifi.on \/ wifi.sta \/ wifi.next = "attempt" \/ stranded)
=============================================================================
