------------------------------ MODULE MCOpenWrt ------------------------------
(***************************************************************************)
(* The OpenWrt components, which share nothing: a behaviour exercises the  *)
(* network monitor or the WiFi connector and scanner, as part says.        *)
(***************************************************************************)
EXTENDS NetMonitor, Wifi

VARIABLE part

MCV4 == {<<1, 5>>}

MCCells == [r \in {0, 1} |-> {[ssid |-> "a", signal |-> -60 - r, words |-> {"wpa2", "psk"}],
                              [ssid |-> "b", signal |-> -60, words |-> {"none"}]}]
MCPassword == [s \in {"a", "b"} |-> "key of the network"]

\* A station somebody else configured, and the access point of the router.
MCWireless ==
    {<<[NewSection(Anonymous) EXCEPT !.device = 1, !.mode = "sta", !.ssid = "a", !.network = "wwan",
                                     !.encryption = "none"],
       [NewSection(<<"ap", 0>>) EXCEPT !.device = 0, !.mode = "ap", !.ssid = "home", !.network = "lan",
                                       !.encryption = "psk2", !.key = "key of the router"]>>}

MCMenu ==
    [c \in {"upstream", "admin"} |->
       IF c = "upstream"
       THEN {[op |-> "switch", radio |-> 0, ssid |-> "b", from |-> 0, fromSsid |-> "a"],
             [op |-> "switch", radio |-> 1, ssid |-> "b", from |-> 0, fromSsid |-> "a"],
             [op |-> "ubus", radio |-> 1, ssid |-> "a"],
             [op |-> "best", ssid |-> "a"]}
       ELSE {[op |-> "connect", radio |-> 0, ssid |-> "a"],
             [op |-> "disconnect"], [op |-> "cleanup"], [op |-> "wwan"]}]

MCInit ==
    /\ MonitorInit /\ WifiInit
    /\ part \in {"monitor", "wifi"}
    /\ \A i \in Ifaces : part = "wifi" \/ i \in Loopbacks => link[i].up

MCNext ==
    \/ part = "monitor" /\ MonitorNext /\ UNCHANGED <<wifiVars, part>>
    \/ part = "wifi" /\ WifiNext /\ UNCHANGED <<monitorVars, part>>

MCSpec ==
    /\ MCInit /\ [][MCNext]_<<monitorVars, wifiVars, part>>
    /\ WF_monitorVars(part = "monitor" /\ TaskSteps) /\ WF_monitorVars(part = "monitor" /\ Receive)
    /\ \A c \in Callers : WF_wifiVars(part = "wifi" /\ TimedSteps(c))
===============================================================================
