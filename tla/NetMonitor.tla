------------------------------ MODULE NetMonitor ------------------------------
(***************************************************************************)
(* The rtnetlink monitor of openwrt/network_monitor.rs: one task that      *)
(* subscribes to the kernel, scans the interfaces, translates netlink      *)
(* messages into events, throttles them and sends them over a bounded      *)
(* channel; it reconnects after the socket is lost.                        *)
(*                                                                         *)
(* The kernel (links, addresses, default routes), its socket and the       *)
(* consumer of the channel are external.  A handler queries the kernel     *)
(* after the message was sent, so taking a message, querying and sending   *)
(* are steps of their own.  An IPv4 address is <<network, host>>.  A       *)
(* throttle entry is kept as the ticks it still suppresses.  MAC addresses *)
(* and logging are left out.                                               *)
(***************************************************************************)
EXTENDS Naturals, Sequences, FiniteSets, SequencesExt

CONSTANTS Ifaces, Loopbacks,         \* the links, and those with the loopback flag
          IgnoreInterfaces,          \* NetworkMonitorConfig.ignore_interfaces
          OnlyInterfaces,            \* NetworkMonitorConfig.only_interfaces
          ThrottleTicks,             \* throttle_duration
          EventBufferSize,           \* event_buffer_size
          V4, V6,                    \* the addresses the kernel may assign
          NoGateway,
          MaxChanges, MaxLosses, MaxBacklog   \* bounds of the environment

ASSUME MonitorConfig == /\ ThrottleTicks \in Nat /\ EventBufferSize \in Nat \ {0}
                        /\ IsFiniteSet(Ifaces) /\ Loopbacks \subseteq Ifaces

VARIABLES link,       \* kernel: [Ifaces -> [exists, up, addrs, route]]
          netlink,    \* the subscription: [connected, queue]
          task,       \* the monitor task: [pc, msg, out]
          throttle,   \* [Ifaces \X EventType -> 0..ThrottleTicks]
          events,     \* the channel
          receiver,   \* [open, up]: the consumer and the links it takes to be up
          cancelled,  \* the CancellationToken
          excuse,     \* history: why the consumer may be wrong about a link
          budget      \* changes and losses the environment has left

monitorVars == <<link, netlink, task, throttle, events, receiver, cancelled, excuse, budget>>

EventType == {"InterfaceUp", "InterfaceDown", "AddressAdded", "AddressDeleted"}
NoMsg == [type |-> "none"]
Addresses == V4 \cup V6
Messages == [type : {"NewLink"}, iface : Ifaces, up : BOOLEAN]
              \cup [type : {"DelLink"}, iface : Ifaces]
              \cup [type : {"NewAddress", "DelAddress"}, iface : Ifaces, addr : Addresses]

NewTask == [pc |-> "start", msg |-> NoMsg, out |-> <<>>]

MonitorInit ==
    /\ link \in [Ifaces -> [exists : {TRUE}, up : BOOLEAN, addrs : {{}}, route : {NoGateway}]]
    /\ netlink = [connected |-> FALSE, queue |-> <<>>]
    /\ task = NewTask
    /\ throttle = [k \in Ifaces \X EventType |-> 0]
    /\ events = <<>>
    /\ receiver = [open |-> TRUE, up |-> {}]
    /\ cancelled = FALSE
    /\ excuse = [i \in Ifaces |-> {}]
    /\ budget = [changes |-> MaxChanges, losses |-> MaxLosses]

-------------------------------------------------------------------------------
(* The kernel: every change is announced to the subscribers of the moment, *)
(* unless their buffer overruns (process_netlink_message ignores the       *)
(* payload that would say so).                                             *)

Announce(i, msgs, l) ==
    /\ task.pc # "done" /\ budget.changes > 0
    /\ link' = [link EXCEPT ![i] = l]
    /\ \/ /\ netlink.connected /\ Len(netlink.queue) + Len(msgs) <= MaxBacklog
          /\ netlink' = [netlink EXCEPT !.queue = @ \o msgs]
          /\ budget' = [budget EXCEPT !.changes = @ - 1]
          /\ UNCHANGED excuse
       \/ /\ netlink.connected /\ netlink.queue # <<>> /\ budget.losses > 0
          /\ excuse' = [excuse EXCEPT ![i] = @ \cup {"missed", "overrun"}]
          /\ budget' = [budget EXCEPT !.changes = @ - 1, !.losses = @ - 1]
          /\ UNCHANGED netlink
       \/ /\ ~netlink.connected
          /\ excuse' = [excuse EXCEPT ![i] = @ \cup {"missed"}]
          /\ budget' = [budget EXCEPT !.changes = @ - 1]
          /\ UNCHANGED netlink
    /\ UNCHANGED <<task, throttle, events, receiver, cancelled>>

LinkChanges(i) ==
    LET up == ~link[i].up
    IN  /\ link[i].exists
        /\ Announce(i, <<[type |-> "NewLink", iface |-> i, up |-> up]>>, [link[i] EXCEPT !.up = up])

LinkDeleted(i) ==
    /\ link[i].exists
    /\ Announce(i, SetToSeq({[type |-> "DelAddress", iface |-> i, addr |-> a] : a \in link[i].addrs})
                     \o <<[type |-> "DelLink", iface |-> i]>>,
                [exists |-> FALSE, up |-> FALSE, addrs |-> {}, route |-> NoGateway])

LinkCreated(i) ==
    /\ ~link[i].exists
    /\ \E up \in BOOLEAN :
         Announce(i, <<[type |-> "NewLink", iface |-> i, up |-> up]>>,
                  [exists |-> TRUE, up |-> up, addrs |-> {}, route |-> NoGateway])

AddressAssigned(i) ==
    /\ link[i].exists
    /\ \E a \in Addresses \ link[i].addrs, gw \in {NoGateway} \cup V4 :
         Announce(i, <<[type |-> "NewAddress", iface |-> i, addr |-> a]>>,
                  [link[i] EXCEPT !.addrs = @ \cup {a}, !.route = gw])

AddressRemoved(i) ==
    \E a \in link[i].addrs :
        Announce(i, <<[type |-> "DelAddress", iface |-> i, addr |-> a]>>,
                 [link[i] EXCEPT !.addrs = @ \ {a}])

\* The socket ends; what it had delivered is still read.
SocketLost ==
    /\ netlink.connected /\ budget.losses > 0
    /\ budget' = [budget EXCEPT !.losses = @ - 1]
    /\ netlink' = [netlink EXCEPT !.connected = FALSE]
    /\ UNCHANGED <<link, task, throttle, events, receiver, cancelled, excuse>>

-------------------------------------------------------------------------------
(* Pure parts of the monitor.                                              *)

ShouldProcess(i) == i \notin IgnoreInterfaces /\ (OnlyInterfaces = {} \/ i \in OnlyInterfaces)

\* query_interface_addresses: nothing comes back over a lost connection.
QueryAddresses(i) == IF netlink.connected THEN link[i].addrs ELSE {}

\* Method 1 and method 2 ask the same question: the default route over this link.
DefaultRoute(i) == IF netlink.connected THEN link[i].route ELSE NoGateway

\* Method 3: network + 1 of the first IPv4 address.
Heuristic(i) == {<<a[1], 1>> : a \in QueryAddresses(i) \cap V4}

InferGateway(i) ==
    IF DefaultRoute(i) # NoGateway THEN {DefaultRoute(i)}
    ELSE IF Heuristic(i) # {} THEN Heuristic(i) ELSE {NoGateway}

\* resolve_link_name: an address message only carries the index of the link.
Resolves(i) == netlink.connected /\ link[i].exists

ShouldEmit(i, type) == throttle[<<i, type>>] = 0

Up(i) == link[i].exists /\ link[i].up

\* get_current_interfaces, and the filter of emit_initial_scan.
CurrentlyUp == {i \in Ifaces : /\ netlink.connected /\ Up(i) /\ ShouldProcess(i)
                               /\ i \notin Loopbacks}

\* The event a handler makes of a message, or <<>> for an early return.
EventsOf(m) ==
    CASE m.type = "NewLink" ->
           IF m.up /\ m.iface \notin Loopbacks /\ ShouldProcess(m.iface)
           THEN {<<[type |-> "InterfaceUp", iface |-> m.iface, gateway |-> gw]>> : gw \in InferGateway(m.iface)}
           ELSE {<<>>}
      [] m.type = "DelLink" ->
           {IF ShouldProcess(m.iface) THEN <<[type |-> "InterfaceDown", iface |-> m.iface]>> ELSE <<>>}
      [] m.type = "NewAddress" ->
           IF Resolves(m.iface) /\ ShouldProcess(m.iface)
           THEN {<<[type |-> "AddressAdded", iface |-> m.iface, addr |-> m.addr, gateway |-> gw]>> : gw \in InferGateway(m.iface)}
           ELSE {<<>>}
      [] m.type = "DelAddress" ->
           {IF Resolves(m.iface) /\ ShouldProcess(m.iface)
            THEN <<[type |-> "AddressDeleted", iface |-> m.iface, addr |-> m.addr]>> ELSE <<>>}

-------------------------------------------------------------------------------
(* The task: start(), run_once() and the handlers.                         *)

Goes(pc) == task' = [task EXCEPT !.pc = pc]

\* Mutant: a reconnect goes straight to the messages.
ConnectUnscanned ==
    /\ task.pc = "start"
    /\ \/ cancelled /\ Goes("done") /\ UNCHANGED netlink
       \/ ~cancelled /\ Goes("wait") /\ netlink' = [connected |-> TRUE, queue |-> <<>>]
    /\ excuse' = [i \in Ifaces |-> excuse[i] \ {"overrun"}]
    /\ UNCHANGED <<link, throttle, events, receiver, cancelled, budget>>

\* The head of start()'s loop, and the multicast connection of run_once().
Connect ==
    /\ task.pc = "start"
    /\ \/ cancelled /\ Goes("done") /\ UNCHANGED <<netlink, excuse>>
       \/ /\ ~cancelled /\ Goes("scan")
          /\ netlink' = [connected |-> TRUE, queue |-> <<>>]
          /\ excuse' = [i \in Ifaces |-> excuse[i] \ {"overrun"}]
       \/ ~cancelled /\ Goes("backoff") /\ UNCHANGED <<netlink, excuse>>
    /\ UNCHANGED <<link, throttle, events, receiver, cancelled, budget>>

\* emit_initial_scan: an InterfaceUp without a gateway for every link the dump
\* returns as up, past the throttle.  A message of the dump that is an error is
\* skipped and a dump that fails is only logged: read is what came back.  The
\* history forgets what the scan will put right.
InitialScan ==
    /\ task.pc = "scan"
    /\ \E read \in SUBSET CurrentlyUp :
         /\ task' = [task EXCEPT !.pc = "send",
                       !.out = SetToSeq({[type |-> "InterfaceUp", iface |-> i, gateway |-> NoGateway] : i \in read})]
         /\ excuse' = [i \in Ifaces |-> IF i \in read THEN excuse[i] \cap {"overrun"}
                                         ELSE IF i \in CurrentlyUp THEN excuse[i] \cup {"unread"}
                                         ELSE excuse[i]]
    /\ UNCHANGED <<link, netlink, throttle, events, receiver, cancelled, budget>>

\* messages.next() in the select of run_once().
TakeMessage ==
    /\ task.pc = "wait" /\ netlink.queue # <<>>
    /\ task' = [task EXCEPT !.pc = "handle", !.msg = Head(netlink.queue)]
    /\ netlink' = [netlink EXCEPT !.queue = Tail(@)]
    /\ UNCHANGED <<link, throttle, events, receiver, cancelled, excuse, budget>>

\* process_netlink_message: the queries, then should_emit.
Handle ==
    /\ task.pc = "handle"
    /\ \E out \in EventsOf(task.msg) :
         LET e == out[1]
             emits == out # <<>> /\ ShouldEmit(e.iface, e.type)
         IN  /\ task' = [pc |-> "send", msg |-> NoMsg, out |-> IF emits THEN out ELSE <<>>]
             /\ throttle' = IF emits THEN [throttle EXCEPT ![<<e.iface, e.type>>] = ThrottleTicks] ELSE throttle
             /\ excuse' = IF out = <<>> THEN excuse
                          ELSE [excuse EXCEPT ![e.iface] = IF emits THEN @ \ {e.type} ELSE @ \cup {e.type}]
    /\ UNCHANGED <<link, netlink, events, receiver, cancelled, budget>>

\* send_event waits for room; a closed channel swallows the event and the task goes on.
SendEvent ==
    /\ task.pc = "send" /\ task.out # <<>>
    /\ \/ receiver.open /\ Len(events) < EventBufferSize /\ events' = Append(events, Head(task.out))
       \/ ~receiver.open /\ UNCHANGED events
    /\ task' = [task EXCEPT !.out = Tail(@)]
    /\ UNCHANGED <<link, netlink, throttle, receiver, cancelled, excuse, budget>>

Sent ==
    /\ task.pc = "send" /\ task.out = <<>>
    /\ Goes("wait")
    /\ UNCHANGED <<link, netlink, throttle, events, receiver, cancelled, excuse, budget>>

\* The stream ends once the delivered messages are read: an error for start().
StreamEnds ==
    /\ task.pc = "wait" /\ netlink.queue = <<>> /\ ~netlink.connected
    /\ Goes("backoff")
    /\ UNCHANGED <<link, netlink, throttle, events, receiver, cancelled, excuse, budget>>

\* Five seconds, unless the token is cancelled.
BackoffEnds ==
    /\ task.pc = "backoff" /\ ~cancelled
    /\ Goes("start")
    /\ UNCHANGED <<link, netlink, throttle, events, receiver, cancelled, excuse, budget>>

\* Mutant: run_once only waits for messages.
SeesCancelInBackoff ==
    /\ task.pc = "backoff" /\ cancelled
    /\ Goes("done")
    /\ UNCHANGED <<link, netlink, throttle, events, receiver, cancelled, excuse, budget>>

\* The two selects that look at the token.
SeesCancel ==
    /\ task.pc \in {"wait", "backoff"} /\ cancelled
    /\ Goes("done")
    /\ UNCHANGED <<link, netlink, throttle, events, receiver, cancelled, excuse, budget>>

\* stop(), or a clone of the token.
Stop ==
    /\ ~cancelled
    /\ cancelled' = TRUE
    /\ UNCHANGED <<link, netlink, task, throttle, events, receiver, excuse, budget>>

ClockTicks ==
    /\ \E k \in DOMAIN throttle : throttle[k] > 0
    /\ throttle' = [k \in DOMAIN throttle |-> IF throttle[k] > 0 THEN throttle[k] - 1 ELSE 0]
    /\ UNCHANGED <<link, netlink, task, events, receiver, cancelled, excuse, budget>>

-------------------------------------------------------------------------------
(* The consumer: it keeps the set of links the events describe as up.      *)

Picture(up, e) ==
    CASE e.type = "InterfaceUp"   -> up \cup {e.iface}
      [] e.type = "InterfaceDown" -> up \ {e.iface}
      [] OTHER                    -> up

Receive ==
    /\ receiver.open /\ events # <<>>
    /\ receiver' = [receiver EXCEPT !.up = Picture(@, Head(events))]
    /\ events' = Tail(events)
    /\ UNCHANGED <<link, netlink, task, throttle, cancelled, excuse, budget>>

DropReceiver ==
    /\ receiver.open
    /\ receiver' = [receiver EXCEPT !.open = FALSE]
    /\ events' = <<>>
    /\ UNCHANGED <<link, netlink, task, throttle, cancelled, excuse, budget>>

TaskSteps == Connect \/ InitialScan \/ TakeMessage \/ Handle \/ SendEvent \/ Sent
               \/ StreamEnds \/ BackoffEnds \/ SeesCancel

MonitorNext ==
    \/ TaskSteps \/ Stop \/ ClockTicks \/ Receive \/ DropReceiver \/ SocketLost
    \/ \E i \in Ifaces \ Loopbacks : LinkChanges(i) \/ LinkDeleted(i) \/ LinkCreated(i)
                           \/ AddressAssigned(i) \/ AddressRemoved(i)

\* The runtime polls the task; the consumer keeps reading or drops its end.
MonitorFairness == WF_monitorVars(TaskSteps) /\ WF_monitorVars(Receive)

MonitorSpec == MonitorInit /\ [][MonitorNext]_monitorVars /\ MonitorFairness
-------------------------------------------------------------------------------
\* Nothing is on its way from the kernel to the consumer.
Settled == /\ task.pc = "wait" /\ netlink.connected /\ netlink.queue = <<>>
           /\ receiver.open /\ events = <<>>

(* Once everything has arrived, the consumer knows every monitored link    *)
(* that is up, unless the throttle swallowed its InterfaceUp, the dump of  *)
(* the scan left it out or the socket overran; and it takes a deleted link *)
(* to be up only if its InterfaceDown was throttled, fell into a gap       *)
(* between two connections or was lost in an overrun.  Subscribing before  *)
(* scanning, and scanning again after every reconnect, is what makes this  *)
(* true (run_once, emit_initial_scan).  A link that lost its carrier is    *)
(* the matter of DownIsReported.                                           *)
PictureIsExplained ==
    Settled => \A i \in Ifaces :
        /\ i \in CurrentlyUp \ receiver.up => excuse[i] \cap {"InterfaceUp", "unread", "overrun"} # {}
        /\ i \in receiver.up /\ ~link[i].exists => excuse[i] \cap {"InterfaceDown", "missed"} # {}

(* "Interface went down (carrier lost or admin down)" (network_monitor.rs, *)
(* line 62): once everything has arrived, the consumer takes no link to be *)
(* up that is down, unless its InterfaceDown was throttled or missed.      *)
DownIsReported ==
    Settled => \A i \in receiver.up :
        Up(i) \/ excuse[i] \cap {"InterfaceDown", "missed"} # {}

(* stop() ends start(), whatever the task is doing (also when it waits for *)
(* room in the channel, as long as the consumer reads or is gone).         *)
StopEnds == cancelled ~> task.pc = "done"
===============================================================================
