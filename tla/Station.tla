------------------------------- MODULE Station -------------------------------
(***************************************************************************)
(* The station's status and its address: the message handler, the          *)
(* supplicant, lwIP's thread and connect write one status, and a thread    *)
(* polls it to tell the application; sta_ip_start and sta_ip_down run in   *)
(* the supplicant's thread and in the task that connects.                  *)
(*                                                                         *)
(* lwIP (external): dhcp_start makes the DHCP record, dhcp_stop keeps it;  *)
(* an interface that comes up, or whose address changes, calls the         *)
(* registered status callback, in lwIP's thread, which the caller of the   *)
(* netifapi waits for.                                                     *)
(***************************************************************************)
EXTENDS Naturals

CONSTANTS
    MaxCount,   \* WIFI_CONNECT_ERROR_MAX_CNT
    Reports     \* the statuses the firmware and the supplicant report

Threads  == {"app", "wpas"}
Joining  == {"SCANNING", "SCAN_OVER", "CONNECTING", "NO_AP_FOUND", "ASSOC_FULL",
             "CONNECT_FAILED", "PASSWORD_WRONG", "DISCONNECTED"}
Joined   == {"BEACON_LOSE", "PASSWORD_WRONG", "DISCONNECTED"}
Abnormal == {"PASSWORD_WRONG", "NO_AP_FOUND", "BEACON_LOSE", "ASSOC_FULL",
             "DISCONNECTED", "CONNECT_FAILED"}
Status   == Joining \cup Joined \cup {"IDLE", "DHCP_FAILED", "CONNECTED", "GOT_IP"}
Events   == {"none", "CONNECTED", "CONNECT_FAILED", "DISCONNECTED"}

ASSUME StationAssumption ==
    MaxCount \in Nat \ {0} /\ Reports \subseteq Joining \cup Joined

VARIABLES
    status, abnormal,   \* g_connect_transient_status, g_connect_abnormal_status
    flag,               \* sta_ip_start_flag
    up, callback,       \* NETIF_FLAG_UP; wm_netif_status_callback is registered
    dhcp,               \* the DHCP record: "none", "off", "asking", "bound"
    link,               \* the supplicant is connected
    kept,               \* observation: a connect has left this link up
    tpc,                \* where the two threads are
    wanted,             \* a first connect has been made
    last,               \* last_stat of the polling thread
    connectErr,         \* s_connect_err
    event               \* what wifi_event_cb was last told

netif == <<flag, up, callback, dhcp>>
poll  == <<last, connectErr, event>>
joins == <<link, kept>>
nvars == <<status, abnormal, netif, joins, tpc, wanted, poll>>

NInit ==
    /\ status = "IDLE" /\ abnormal = "IDLE"
    /\ flag = FALSE /\ up = FALSE /\ callback = FALSE /\ dhcp = "none"
    /\ link = FALSE /\ kept = FALSE /\ tpc = [t \in Threads |-> "quiet"] /\ wanted = FALSE
    /\ last = "IDLE" /\ connectErr = 0 /\ event = "none"

AtStep(t, here)  == tpc[t] = here
ThreadTo(t, pos) == tpc' = [tpc EXCEPT ![t] = pos]

(* The first wrong password or missing access point is kept for ever.      *)
mhdr_set_abnormal_status(v) ==
    abnormal' = IF abnormal \in {"PASSWORD_WRONG", "NO_AP_FOUND"} THEN abnormal ELSE v

mhdr_set_station_status(v) ==
    /\ status' = v
    /\ IF v \in Abnormal THEN mhdr_set_abnormal_status(v) ELSE UNCHANGED abnormal

(* wm_netif_status_callback, on an interface that is up.                   *)
Callback(called, rec) ==
    IF called /\ rec # "none"
      THEN mhdr_set_station_status(IF rec = "bound" THEN "GOT_IP" ELSE "DHCP_FAILED")
      ELSE UNCHANGED <<status, abnormal>>
-----------------------------------------------------------------------------
(* The firmware's messages and the supplicant's own reports.               *)
Report(v) ==
    /\ wanted /\ v \in Reports \cap (IF link THEN Joined ELSE Joining)
    /\ mhdr_set_station_status(v)
    /\ UNCHANGED <<netif, joins, tpc, wanted, poll>>

(* SM_ASSOC_IND.                                                           *)
Associated ==
    /\ wanted /\ ~ link /\ status \notin {"CONNECTED", "GOT_IP"}
    /\ mhdr_set_station_status("CONNECTED")
    /\ UNCHANGED <<netif, joins, tpc, wanted, poll>>

(* The supplicant gives up: the first failure of a kind comes back.        *)
mhdr_set_station_status_when_reconnect_over ==
    /\ wanted /\ ~ link /\ status # "CONNECTED" /\ status' = abnormal
    /\ UNCHANGED <<abnormal, netif, joins, tpc, wanted, poll>>

(* WLAN_EVENT_CONNECTED and sta_ip_start.                                  *)
LinkUp ==
    /\ wanted /\ AtStep("wpas", "quiet") /\ link' = TRUE
    /\ ThreadTo("wpas", "start")
    /\ UNCHANGED <<status, abnormal, netif, kept, wanted, poll>>

IpStart ==
    /\ AtStep("wpas", "start") /\ flag' = TRUE
    /\ ThreadTo("wpas", IF flag THEN "address" ELSE "configure")
    /\ UNCHANGED <<status, abnormal, up, callback, dhcp, joins, wanted, poll>>

(* The address is read, and the status, and later the status is set.       *)
IpStartAgain ==
    /\ AtStep("wpas", "address")
    /\ ThreadTo("wpas", IF status = "CONNECTED" /\ up /\ dhcp = "bound" THEN "got" ELSE "quiet")
    /\ UNCHANGED <<status, abnormal, netif, joins, wanted, poll>>

IpGot ==
    /\ AtStep("wpas", "got") /\ ThreadTo("wpas", "quiet")
    /\ mhdr_set_station_status("GOT_IP")
    /\ UNCHANGED <<netif, joins, wanted, poll>>

(* net_configure_address, DHCP: down, no callback, no address.             *)
Configure ==
    /\ AtStep("wpas", "configure") /\ ThreadTo("wpas", "up")
    /\ up' = FALSE /\ callback' = FALSE
    /\ UNCHANGED <<status, abnormal, flag, dhcp, joins, wanted, poll>>

(* Then the callback, and the interface up.                                *)
ConfigureUp ==
    /\ AtStep("wpas", "up") /\ ThreadTo("wpas", "dhcp")
    /\ callback' = TRUE /\ up' = TRUE /\ Callback(~ up, dhcp)
    /\ UNCHANGED <<flag, dhcp, joins, wanted, poll>>

ConfigureDhcp ==
    /\ AtStep("wpas", "dhcp") /\ ThreadTo("wpas", "quiet") /\ dhcp' = "asking"
    /\ UNCHANGED <<status, abnormal, flag, up, callback, joins, wanted, poll>>

DhcpBound ==
    /\ dhcp = "asking" /\ up /\ link /\ dhcp' = "bound" /\ Callback(callback, "bound")
    /\ UNCHANGED <<flag, up, callback, joins, tpc, wanted, poll>>

(* The lease runs out, or its renewal is refused.                          *)
DhcpLost ==
    /\ dhcp = "bound" /\ up /\ dhcp' = "asking" /\ Callback(callback, "asking")
    /\ UNCHANGED <<flag, up, callback, joins, tpc, wanted, poll>>
-----------------------------------------------------------------------------
(* sta_ip_down: its test and its store, then the interface.                *)
IpDown(t) ==
    /\ AtStep(t, "down") /\ flag' = FALSE
    /\ ThreadTo(t, IF flag THEN "stop" ELSE "downed")
    /\ UNCHANGED <<status, abnormal, up, callback, dhcp, joins, wanted, poll>>

IpStop(t) ==
    /\ AtStep(t, "stop") /\ ThreadTo(t, "silence") /\ up' = FALSE
    /\ UNCHANGED <<status, abnormal, flag, callback, dhcp, joins, wanted, poll>>

IpSilence(t) ==
    /\ AtStep(t, "silence") /\ ThreadTo(t, "release") /\ callback' = FALSE
    /\ UNCHANGED <<status, abnormal, flag, up, dhcp, joins, wanted, poll>>

(* dhcp_stop takes a lease's address away, before or after the state.      *)
IpRelease(t) ==
    /\ AtStep(t, "release") /\ ThreadTo(t, "downed")
    /\ dhcp' = (IF dhcp = "none" THEN "none" ELSE "off")
    /\ \E rec \in {"off", "bound"} : Callback(callback /\ up /\ dhcp = "bound", rec)
    /\ UNCHANGED <<flag, up, callback, joins, wanted, poll>>

(* WLAN_EVENT_DISCONNECTED.                                                *)
LinkDown ==
    /\ link /\ AtStep("wpas", "quiet") /\ link' = FALSE /\ kept' = FALSE
    /\ ThreadTo("wpas", "down")
    /\ UNCHANGED <<status, abnormal, netif, wanted, poll>>

LinkDowned ==
    /\ AtStep("wpas", "downed") /\ ThreadTo("wpas", "quiet")
    /\ UNCHANGED <<status, abnormal, netif, joins, wanted, poll>>

(* bk_wlan_start_sta: sta_ip_down,                                         *)
Connect ==
    /\ AtStep("app", "quiet") /\ ThreadTo("app", "down")
    /\ UNCHANGED <<status, abnormal, netif, joins, wanted, poll>>

(* Mutant: the disconnect is asked for, not waited for.                    *)
Connecting_async ==
    /\ AtStep("app", "downed") /\ ThreadTo("app", "quiet") /\ wanted' = TRUE
    /\ mhdr_set_station_status("IDLE")
    /\ UNCHANGED <<netif, joins, poll>>

(* wlan_sta_disconnect, after which LinkDown has come, and the status.     *)
Connecting ==
    /\ AtStep("app", "downed") /\ ~ link /\ AtStep("wpas", "quiet")
    /\ ThreadTo("app", "quiet") /\ wanted' = TRUE
    /\ mhdr_set_station_status("IDLE")
    /\ UNCHANGED <<netif, joins, poll>>

(* No memory or a full queue: nothing is asked of the supplicant, and      *)
(* bk_wlan_start_sta goes on as if it had been.                            *)
ConnectingRefused ==
    /\ AtStep("app", "downed") /\ kept' = link
    /\ ThreadTo("app", "quiet") /\ wanted' = TRUE
    /\ mhdr_set_station_status("IDLE")
    /\ UNCHANGED <<netif, link, poll>>
-----------------------------------------------------------------------------
(* ty_wifi_state_get_thread: every 100 ms it reads the status and tells    *)
(* wifi_event_cb.  (What it changes is its own: one step.)                 *)
Counted == {"CONNECT_FAILED", "NO_AP_FOUND", "ASSOC_FULL"}
Told    == {"GOT_IP", "PASSWORD_WRONG", "DHCP_FAILED", "DISCONNECTED", "BEACON_LOSE"}

EventOf(s) == CASE s = "GOT_IP" -> "CONNECTED"
                [] s \in {"PASSWORD_WRONG", "DHCP_FAILED"} -> "CONNECT_FAILED"
                [] s \in {"DISCONNECTED", "BEACON_LOSE"} -> "DISCONNECTED"

(* Mutant: a disconnect is not noted in last_stat.                         *)
PollTell_unnoted ==
    /\ status # last /\ status \in Told /\ event' = EventOf(status)
    /\ connectErr' = (IF event' = "CONNECT_FAILED" THEN connectErr ELSE 0)
    /\ last' = (IF event' = "DISCONNECTED" THEN last ELSE status)
    /\ UNCHANGED <<status, abnormal, netif, joins, tpc, wanted>>

PollTell ==
    /\ status # last /\ status \in Told /\ last' = status /\ event' = EventOf(status)
    /\ connectErr' = (IF event' = "CONNECT_FAILED" THEN connectErr ELSE 0)
    /\ UNCHANGED <<status, abnormal, netif, joins, tpc, wanted>>

(* The failure of number MaxCount is told, and none after it; past that    *)
(* connectErr counts no further in the model.                              *)
PollCount ==
    /\ status # last /\ status \in Counted /\ last' = status
    /\ connectErr' = (IF connectErr > MaxCount THEN connectErr ELSE connectErr + 1)
    /\ event' = (IF connectErr' = MaxCount THEN "CONNECT_FAILED" ELSE event)
    /\ UNCHANGED <<status, abnormal, netif, joins, tpc, wanted>>

PollNote ==
    /\ status # last /\ status = "SCANNING" /\ last' = status
    /\ UNCHANGED <<status, abnormal, netif, joins, tpc, wanted, connectErr, event>>

Poll == PollTell \/ PollCount \/ PollNote

NNext ==
    \/ Poll \/ (\E v \in Reports : Report(v)) \/ Associated
    \/ mhdr_set_station_status_when_reconnect_over
    \/ LinkUp \/ IpStart \/ IpStartAgain \/ IpGot
    \/ Configure \/ ConfigureUp \/ ConfigureDhcp \/ DhcpBound \/ DhcpLost
    \/ (\E t \in Threads : IpDown(t) \/ IpStop(t) \/ IpSilence(t) \/ IpRelease(t))
    \/ LinkDown \/ LinkDowned \/ Connect \/ Connecting \/ ConnectingRefused

(* The polling thread runs.                                                *)
NFairness == WF_nvars(Poll)

NSpec == NInit /\ [][NNext]_nvars /\ NFairness
-----------------------------------------------------------------------------
(* While neither thread is at it, sta_ip_start_flag says the truth: the    *)
(* interface is up and asks for an address or has one, whatever            *)
(* sta_ip_start and sta_ip_down did to each other before, but where a      *)
(* connect could not take the link down: then until that link goes.        *)
IpFlagTruth ==
    flag /\ ~ kept /\ (\A t \in Threads : AtStep(t, "quiet")) =>
        up /\ callback /\ dhcp \in {"asking", "bound"}

(* The poll may miss a status, but of one in Told that stays the           *)
(* application is told, and of nothing else after it.  (A failure that is  *)
(* counted is told at its MaxCount-th time: this says nothing of those.)   *)
SteadyStatusTold == \A s \in Told :
    <>[](status = s) => <>[](event = EventOf(s))

(* "dhcp fail" (net.c:272): DHCP is reported as failed only where it has   *)
(* been tried, not before dhcp_start.                                      *)
DhcpFailedAfterTry ==
    [][status # "DHCP_FAILED" /\ status' = "DHCP_FAILED" => dhcp \in {"asking", "bound"}]_nvars
=============================================================================
