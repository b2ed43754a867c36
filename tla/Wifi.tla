---------------------------------- MODULE Wifi ----------------------------------
(***************************************************************************)
(* The WiFi connector and scanner of openwrt/: callers that scan, connect, *)
(* disconnect, switch the upstream network with a fallback, clean up and   *)
(* set up the wwan interface, by shell commands any of which may fail, or  *)
(* apply the same operations over an authenticated ubus session.  The      *)
(* configuration is shared, staged changes included.                       *)
(*                                                                         *)
(* The radios, the DHCP server and rpcd are external.  A radio associates  *)
(* with the network of its section if the credentials fit.  The last       *)
(* station section of a radio counts.                                      *)
(***************************************************************************)
EXTENDS Uci, WifiScan

CONSTANTS Radios,                    \* 0 .. n - 1, by name
          Cells,                     \* [Radios -> set of [ssid, signal, words]]
          Password,                  \* [SSID -> key]
          InitialWireless,           \* the configurations a router may start with
          Callers, Menu,             \* the callers and the calls each of them makes
          MaxFails, MaxPolls, MaxRetries

\* connect, disconnect, switch_upstream, cleanup_stale_stas, ensure_wwan_setup,
\* a setup applied by execute_ubus, find_best_radio_for_ssid.
CallNames == {"connect", "disconnect", "switch", "cleanup", "wwan", "ubus", "best"}

ASSUME WifiConfig == /\ MaxPolls \in Nat \ {0} /\ MaxRetries \in Nat
                     /\ \A c \in Callers : \A m \in Menu[c] : m.op \in CallNames

VARIABLES conf,                      \* [Configs -> [staged, saved]]
          air,                       \* [Radios -> [sta, assoc, ip]]: the running stations
          call,                      \* [Callers -> the operation under way]
          session,                   \* the ubus token: "none", "valid" or "expired"
          spent                      \* commands failed, commits failed

wifiVars == <<conf, air, call, session, spent>>

Idle == [op |-> "idle", pc |-> "idle", args |-> None, ops |-> <<>>, iface |-> None, count |-> 0,
         found |-> {}, clean |-> TRUE, alone |-> TRUE, result |-> "none"]
NoSta == [ssid |-> None, encryption |-> None, key |-> None]

\* The encryption a caller passes on is the one the scanner detected.
EncryptionOf(ssid) ==
    LET seen == {c \in UNION {Cells[r] : r \in Radios} : c.ssid = ssid}
    IN  IF seen = {} THEN "None" ELSE DetectEncryption((CHOOSE c \in seen : TRUE).words)

\* build_sta_uci_ops
BuildSta(radio, ssid) ==
    LET e == EncryptionOf(ssid)
    IN  <<Add(StaName(radio),
              <<<<"device", radio>>, <<"mode", "sta">>, <<"ssid", ssid>>, <<"network", "wwan">>,
                <<"encryption", ToUciValue(e)>>>>
                \o (IF e = "None" THEN <<>> ELSE <<<<"key", Password[ssid]>>>>))>>

\* Mutant: the changes are not committed before the reload.
FallbackUncommitted(radio, ssid) ==
    <<Add(StaName(radio), <<<<"device", radio>>, <<"mode", "sta">>, <<"ssid", ssid>>, <<"network", "wwan">>>>),
      Shell("wifi reload", None)>>

\* fallback_to: neither encryption nor key.
BuildFallback(radio, ssid) ==
    <<Add(StaName(radio), <<<<"device", radio>>, <<"mode", "sta">>, <<"ssid", ssid>>, <<"network", "wwan">>>>),
      Commit("wireless"), Shell("wifi reload", None)>>

BuildWwan == <<AddInterface, AddList("wwan"), Commit("network"), Commit("firewall")>>

Reload == <<Commit("wireless"), Shell("wifi reload", None)>>

ConnectOps(m) == <<Shell("purge ssid", m.ssid), Commit("wireless")>> \o BuildSta(m.radio, m.ssid)
                    \o Reload \o <<Shell("ifup wwan", None)>>

DisconnectOps == <<Shell("purge stas", None), Commit("wireless")>> \o Reload

\* build_switch_ops
SwitchOps(m) == <<Delete(StaName(m.from))>> \o BuildSta(m.radio, m.ssid)

\* The commands an operation runs before it looks at the outcome.
OpsOf(m) ==
    CASE m.op = "connect"    -> ConnectOps(m)
      [] m.op = "disconnect" -> DisconnectOps
      [] m.op = "switch"     -> SwitchOps(m) \o Reload
      [] m.op = "cleanup"    -> <<Shell("dedupe", None), Commit("wireless")>>
      [] m.op = "wwan"       -> BuildWwan
      [] m.op = "ubus"       -> BuildWwan \o BuildSta(m.radio, m.ssid) \o Reload
      [] m.op = "best"       -> <<>>

WifiInit ==
    /\ \E w \in InitialWireless :
         conf = [c \in Configs |->
                   CASE c = "wireless" -> [staged |-> w, saved |-> w]
                     [] c = "network"  -> [staged |-> {}, saved |-> {}]
                     [] c = "firewall" -> [staged |-> <<"wan">>, saved |-> <<"wan">>]]
    /\ air = [r \in Radios |-> [sta |-> NoSta, assoc |-> FALSE, ip |-> FALSE]]
    /\ call = [c \in Callers |-> Idle]
    /\ session = "none"
    /\ spent = [fails |-> 0, commits |-> 0]

-------------------------------------------------------------------------------
Busy(c) == call[c].pc # "idle"

\* A caller makes one call: a bound.
Begin(c) ==
    /\ call[c] = Idle
    /\ \E m \in Menu[c] :
         call' = [d \in Callers |->
                    IF d = c
                    THEN [Idle EXCEPT !.op = m.op, !.args = m,
                            !.pc = IF m.op = "best" THEN "radios" ELSE IF m.op = "ubus" THEN "login" ELSE "shell",
                            !.ops = OpsOf(m),
                            !.alone = \A e \in Callers : ~Busy(e)]
                    ELSE [call[d] EXCEPT !.alone = @ /\ ~Busy(d)]]
    /\ UNCHANGED <<conf, air, session, spent>>

Goto(c, pc) == call' = [call EXCEPT ![c].pc = pc]

\* What the caller gets; the arguments stay for the record of what was asked.
Return(c, result) == call' = [call EXCEPT ![c].pc = "idle", ![c].result = result]

\* `wifi reload` starts a station for the last section of each radio; an
\* address of before may still be there.
StaOf(wireless, r) ==
    LET own == SelectSeq(wireless, LAMBDA s : s.device = r /\ s.mode = "sta")
    IN  IF own = <<>> THEN NoSta
        ELSE [ssid |-> Last(own).ssid, encryption |-> Last(own).encryption, key |-> Last(own).key]

Reloaded == {[r \in Radios |-> [sta |-> StaOf(conf["wireless"].saved, r), assoc |-> FALSE,
                                ip |-> keep /\ air[r].ip]] : keep \in BOOLEAN}

\* execute_shell: one operation, of which a command may fail.
RunOp(c) ==
    /\ call[c].pc = "shell" /\ call[c].ops # <<>>
    /\ LET op == Head(call[c].ops)
           reloads == op.op = "shell" /\ op.command = "wifi reload"
       IN  \/ /\ conf' = ShellEffect(conf, op, {})
              /\ air' \in IF reloads THEN Reloaded ELSE {air}
              /\ call' = [call EXCEPT ![c].ops = Tail(@)]
              /\ UNCHANGED spent
           \/ /\ spent.fails < MaxFails
              /\ \E k \in CommandsOf(op) : conf' = ShellEffect(conf, op, {k})
              /\ spent' = [spent EXCEPT !.fails = @ + 1, !.commits = @ + One(op.op = "commit")]
              /\ call' = [call EXCEPT ![c].ops = Tail(@), ![c].clean = FALSE]
              /\ UNCHANGED air
    /\ UNCHANGED session

\* The commands are through; connect and switch_upstream look for the interface,
\* the fallback has put the old station back and its error is returned.
OpsDone(c) ==
    /\ call[c].pc = "shell" /\ call[c].ops = <<>>
    /\ IF call[c].op \in {"connect", "switch"} /\ call[c].iface = None THEN Goto(c, "find")
       ELSE Return(c, IF call[c].iface = None THEN "ok" ELSE "fell back")
    /\ UNCHANGED <<conf, air, session, spent>>

\* find_sta_interface: the first managed interface there is, of whichever radio;
\* wlan<n> if there is none or `iw dev` exits with an error; `iw dev` may not run.
FindInterface(c) ==
    /\ call[c].pc = "find"
    /\ LET managed == {r \in Radios : air[r].sta # NoSta}
       IN  \/ \E r \in IF managed = {} THEN {call[c].args.radio} ELSE managed :
                /\ call' = [call EXCEPT ![c].pc = "wait", ![c].iface = r]
                /\ UNCHANGED spent
           \/ /\ spent.fails < MaxFails
              /\ spent' = [spent EXCEPT !.fails = @ + 1]
              /\ \/ call' = [call EXCEPT ![c].pc = "wait", ![c].iface = call[c].args.radio]
                 \/ call' = [call EXCEPT ![c].pc = "idle", ![c].result = "command failed", ![c].clean = FALSE]
    /\ UNCHANGED <<conf, air, session>>

\* Mutant: no fallback.
FailsAtOnce(c, error) == Return(c, error)

\* connect returns the error; switch_upstream falls back first.
Fails(c, error) ==
    IF call[c].op = "switch"
    THEN call' = [call EXCEPT ![c].pc = "shell",
                              ![c].ops = BuildFallback(call[c].args.from, call[c].args.fromSsid)]
    ELSE Return(c, error)

\* Mutant: polling without a deadline.
PollIpForever(c) ==
    /\ call[c].pc = "wait" /\ air[call[c].iface].ip
    /\ Goto(c, "verify")
    /\ UNCHANGED <<conf, air, session, spent>>

\* wait_for_sta_ip: one round of polling, which may fetch a lease itself.
PollIp(c) ==
    /\ call[c].pc = "wait"
    /\ LET r == call[c].iface
       IN  \/ air[r].ip /\ call[c].count < MaxPolls /\ Goto(c, "verify") /\ UNCHANGED air
           \/ /\ ~air[r].ip /\ call[c].count < MaxPolls
              /\ call' = [call EXCEPT ![c].count = @ + 1]
              /\ \E got \in {FALSE, air[r].assoc} : air' = [air EXCEPT ![r].ip = got]
           \/ call[c].count = MaxPolls /\ Fails(c, "dhcp timeout") /\ UNCHANGED air
    /\ UNCHANGED <<conf, session, spent>>

\* verify_connection: iwgetid names the network the interface is on.
Verify(c) ==
    /\ call[c].pc = "verify"
    /\ LET r == call[c].iface
           on == IF air[r].assoc THEN air[r].sta.ssid ELSE None
       IN  \/ /\ IF on = call[c].args.ssid THEN Return(c, "ok") ELSE Fails(c, "verification failed")
              /\ UNCHANGED spent
           \/ /\ spent.fails < MaxFails
              /\ spent' = [spent EXCEPT !.fails = @ + 1]
              /\ Fails(c, "command failed")
    /\ UNCHANGED <<conf, air, session>>

-------------------------------------------------------------------------------
(* UbusClient: login, then one call per operation.  Without a token every  *)
(* call fails; a call may fail, or its effect may come without an answer.  *)

\* Whether rpcd accepts the login, and the form it is sent in, is its own matter.
Login(c) ==
    /\ call[c].pc = "login"
    /\ session' \in {"valid", session}
    /\ Goto(c, "ubus")
    /\ UNCHANGED <<conf, air, spent>>

\* rpc_call: without a token no request is made, with an expired one rpcd
\* answers with an error; a request or its answer may get lost.
Rpc == IF session # "valid" THEN {"denied"}
       ELSE {"ok"} \cup (IF spent.fails < MaxFails THEN {"failed", "answer lost"} ELSE {})

\* execute_ubus: one operation.
RunUbus(c) ==
    /\ call[c].pc = "ubus" /\ call[c].ops # <<>>
    /\ LET op == Head(call[c].ops)
       IN  \E answer \in IF op.op = "shell" THEN {"ok"} ELSE Rpc :
             /\ conf' = IF answer \in {"ok", "answer lost"} THEN UbusEffect(conf, op) ELSE conf
             /\ call' = [call EXCEPT ![c].ops = Tail(@), ![c].clean = @ /\ answer = "ok"]
             /\ spent' = [spent EXCEPT !.fails = @ + One(answer \in {"failed", "answer lost"}),
                                       !.commits = @ + One(answer # "ok" /\ op.op = "commit")]
    /\ UNCHANGED <<air, session>>

UbusDone(c) ==
    /\ call[c].pc = "ubus" /\ call[c].ops = <<>>
    /\ Return(c, IF call[c].clean THEN "ok" ELSE "some failed")
    /\ UNCHANGED <<conf, air, session, spent>>

SessionExpires ==
    /\ session = "valid"
    /\ session' = "expired"
    /\ UNCHANGED <<conf, air, call, spent>>

-------------------------------------------------------------------------------
(* WifiScanner: find_best_radio_for_ssid over scan_all_radios.             *)

GetRadios(c) ==
    /\ call[c].pc = "radios"
    /\ \/ /\ IF Radios = {} THEN Return(c, "no radios")
             ELSE call' = [call EXCEPT ![c].pc = "scan", ![c].ops = SetToSortSeq(Radios, <)]
          /\ UNCHANGED spent
       \/ /\ spent.fails < MaxFails
          /\ spent' = [spent EXCEPT !.fails = @ + 1]
          /\ Return(c, "command failed")
    /\ UNCHANGED <<conf, air, session>>

\* scan_radio: an attempt.  The last failed one gives the radio up.
ScanRadio(c) ==
    /\ call[c].pc = "scan" /\ call[c].ops # <<>>
    /\ LET r == Head(call[c].ops)
       IN  \/ /\ call[c].count < MaxRetries
              /\ call' = [call EXCEPT ![c].ops = Tail(@), ![c].count = 0,
                                      ![c].found = @ \cup Range(ParseIwinfo(Cells[r], r))]
              /\ UNCHANGED spent
           \/ /\ call[c].count < MaxRetries /\ spent.fails < MaxFails
              /\ call' = [call EXCEPT ![c].count = @ + 1]
              /\ spent' = [spent EXCEPT !.fails = @ + 1]
           \/ /\ call[c].count = MaxRetries
              /\ call' = [call EXCEPT ![c].ops = Tail(@), ![c].count = 0]
              /\ UNCHANGED spent
    /\ UNCHANGED <<conf, air, session>>

ScanDone(c) ==
    /\ call[c].pc = "scan" /\ call[c].ops = <<>>
    /\ call' = [call EXCEPT ![c].pc = "idle", ![c].result = "ok",
                            ![c].iface = BestRadio(call[c].found, call[c].args.ssid, None)]
    /\ UNCHANGED <<conf, air, session, spent>>

-------------------------------------------------------------------------------
(* The radios.                                                             *)

Fits(sta) == sta.encryption = ToUciValue(EncryptionOf(sta.ssid))
               /\ (EncryptionOf(sta.ssid) # "None" => sta.key = Password[sta.ssid])

Associate(r) ==
    /\ air[r].sta # NoSta /\ ~air[r].assoc
    /\ Fits(air[r].sta) /\ \E cell \in Cells[r] : cell.ssid = air[r].sta.ssid
    /\ air' = [air EXCEPT ![r].assoc = TRUE]
    /\ UNCHANGED <<conf, call, session, spent>>

\* What returns in time: the commands of the executors, which have a timeout, and
\* the requests over HTTP, which have one too.
TimedSteps(c) ==
    OpsDone(c) \/ FindInterface(c) \/ PollIp(c) \/ Verify(c) \/ Login(c)
      \/ RunUbus(c) \/ UbusDone(c) \/ GetRadios(c) \/ ScanRadio(c) \/ ScanDone(c)

CallSteps(c) == RunOp(c) \/ TimedSteps(c)

WifiNext == \/ \E c \in Callers : Begin(c) \/ CallSteps(c)
            \/ SessionExpires
            \/ \E r \in Radios : Associate(r)

\* execute_shell waits for its command without a timeout: RunOp is not fair.
WifiFairness == \A c \in Callers : WF_wifiVars(TimedSteps(c))

WifiSpec == WifiInit /\ [][WifiNext]_wifiVars /\ WifiFairness
-------------------------------------------------------------------------------
(* When no call is under way nothing is left staged, unless a commit       *)
(* failed: another program's commit would otherwise put half a change into *)
(* effect.  The staged area is shared by the callers (execute_shell).      *)
NothingLeftStaged ==
    (\A c \in Callers : ~Busy(c)) /\ spent.commits = 0 =>
        \A k \in Configs : conf[k].staged = conf[k].saved

(* A switch that returns an error leaves the old network configured on its *)
(* radio, if no other call ran beside it and its commands worked           *)
(* (switch_upstream, fallback_to).  Without credentials: README, gaps.     *)
SwitchFallsBack ==
    [][\A c \in Callers :
         /\ Busy(c) /\ call[c].op = "switch" /\ call[c].alone
         /\ call'[c].pc = "idle" /\ call'[c].result # "ok" /\ call'[c].clean
         => \E s \in Range(conf'["wireless"].saved) :
              s.name = StaName(call[c].args.from) /\ s.mode = "sta" /\ s.ssid = call[c].args.fromSsid]_wifiVars

(* Every call returns, although commands fail, leases never come and the   *)
(* session expires (wait_for_sta_ip, scan_radio, execute_ubus); the one    *)
(* thing it can wait for without end is a command of execute_shell.        *)
CallsReturn == \A c \in Callers : Busy(c) ~> (~Busy(c) \/ [](call[c].pc = "shell" /\ call[c].ops # <<>>))
===============================================================================
