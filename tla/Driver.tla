------------------------------- MODULE Driver -------------------------------
(***************************************************************************)
(* tollgate-net's Driver as its tasks really run: HTTP requests, the       *)
(* metering loop and the idle reaper, each a tokio task that takes one     *)
(* lock at a time.  handle() is atomic under the session lock; the actions *)
(* it returns are executed one by one afterwards, so the steps of          *)
(* different tasks interleave anywhere.  Module Session is the same system *)
(* with every effect list executed at once.                                *)
(*                                                                         *)
(* One peer.  Time is not priced here (PerSecond = 0) and outgoing         *)
(* messages are left out.                                                  *)
(***************************************************************************)
EXTENDS SessionCore, FiniteSets

CONSTANTS
    Http,           \* HTTP requests that may run at once
    Meter,          \* the metering loop
    Reaper,         \* the idle reaper
    IP,             \* addresses the peer may call from
    Amount,         \* value of the peer's tokens, scaled units
    Reaps,          \* whether a peer may stay silent past the idle timeout
    MaxRequests,    \* bound: requests the peer sends
    MaxUnits,       \* bound: units delivered to one address
    MaxMisreads     \* bound: counter readings that fail

ASSUME DriverAssumption ==
    /\ PerSecond = 0
    /\ Amount \in Nat /\ Reaps \in BOOLEAN
    /\ MaxRequests \in Nat /\ MaxUnits \in Nat /\ MaxMisreads \in Nat

NoIp == "no-ip"

Thread == Http \cup {Meter, Reaper}

VARIABLES
    known,          \* the peer is in Session.peers
    session,        \* its PeerSession
    peer_ip,        \* Inner.peer_ip
    seen,           \* Inner.last_seen: absent, recent, or idle for too long
    metered,        \* the peer is in Inner.metered
    allowed,        \* addresses the firewall lets through
    counter,        \* the firewall's counter of each address
    work,           \* what every task has left to do: actions to execute, messages
                    \* to handle, steps of peer_disconnected and of the loops
    target,         \* the address the metering loop is about to read
    reading,        \* what it has read and not yet fed to the session, or None
    requests,       \* requests so far
    misreads,       \* failed readings so far
    left,           \* history: the peer ended its last session itself
    crossed,        \* history: the reaper dropped the timestamp of a request
    overclaimed,    \* history: the peer reported more than it was sent
    money           \* history: [vouched, charged, forfeited, reaped]

vars == <<known, session, peer_ip, seen, metered, allowed, counter, work, target,
          reading, requests, misreads, left, crossed, overclaimed, money>>

firewall == <<allowed, counter>>
metering == <<target, reading, misreads>>
marks == <<crossed, overclaimed>>

Init ==
    /\ known = FALSE
    /\ session = NewSession
    /\ peer_ip = NoIp
    /\ seen = "absent"
    /\ metered = FALSE
    /\ allowed = {}
    /\ counter = [ip \in IP |-> 0]
    /\ work = [t \in Thread |-> <<>>]
    /\ target = NoIp
    /\ reading = None
    /\ requests = 0
    /\ misreads = 0
    /\ left = FALSE /\ crossed = FALSE /\ overclaimed = FALSE
    /\ money = [vouched |-> 0, charged |-> 0, forfeited |-> 0, reaped |-> 0]

-----------------------------------------------------------------------------
Doing(t, step) == work[t] # <<>> /\ Head(work[t]) = step

(* The task goes on with `first`, then with what it had left.              *)
Then(t, first) == work' = [work EXCEPT ![t] = first \o Tail(@)]

(* The actions of an effect, in the order handle() lists them.             *)
Actions(effect) ==
    (CASE effect.access = "Keep" -> <<>>
       [] AllowsDelivery(effect.access) -> <<"allow">>
       [] OTHER -> <<"deny">>)
    \o (CASE effect.meter = "Start" -> <<"start">>
          [] effect.meter = "Stop" -> <<"stop">>
          [] OTHER -> <<>>)

-----------------------------------------------------------------------------
(* http_exchange: an Announce, followed by at most one message.            *)
Request(t, ip, message) ==
    /\ work[t] = <<>> /\ requests < MaxRequests
    /\ requests' = requests + 1
    /\ peer_ip' = ip
    /\ work' = [work EXCEPT ![t] = <<"touch", "connect">> \o message]
    /\ UNCHANGED <<known, session, seen, metered, firewall, metering, left, marks, money>>

Touch(t) ==
    /\ Doing(t, "touch")
    /\ seen' = "recent"
    /\ crossed' = FALSE
    /\ Then(t, <<>>)
    /\ UNCHANGED <<known, session, peer_ip, metered, firewall, metering, requests, left,
                   overclaimed, money>>

(* Mutant: an Announce of a known peer starts its session afresh.          *)
ConnectAnew(t) ==
    /\ Doing(t, "connect")
    /\ known' = TRUE /\ left' = FALSE
    /\ session' = NewSession /\ Then(t, Actions(ConnectedEffect))
    /\ UNCHANGED <<peer_ip, seen, metered, firewall, metering, requests, marks, money>>

Connect(t) ==
    /\ Doing(t, "connect")
    /\ known' = TRUE
    /\ left' = FALSE
    /\ IF known THEN UNCHANGED session /\ Then(t, <<>>)
       ELSE session' = NewSession /\ Then(t, Actions(ConnectedEffect))
    /\ UNCHANGED <<peer_ip, seen, metered, firewall, metering, requests, marks, money>>

(* message_received, after its touch: an unknown peer's message is dropped *)
(* but for a Disconnect.                                                   *)
Token(t) ==
    /\ Doing(t, "token")
    /\ IF known THEN session' = TokenReceived(session) /\ Then(t, <<"verify">>)
       ELSE UNCHANGED session /\ Then(t, <<>>)
    /\ UNCHANGED <<known, peer_ip, seen, metered, firewall, metering, requests, left, marks, money>>

RejectMsg(t) ==
    /\ Doing(t, "reject")
    /\ IF known THEN session' = RejectReceived(session) /\ Then(t, Actions(RejectEffect(session)))
       ELSE UNCHANGED session /\ Then(t, <<>>)
    /\ UNCHANGED <<known, peer_ip, seen, metered, firewall, metering, requests, left, marks, money>>

(* A MeteringReport: what the peer says it has received in this metering   *)
(* session, which is too much if the firewall has not counted it since.    *)
ReportMsg(t) ==
    /\ Doing(t, "report")
    /\ \E received \in 0 .. MaxUnits + 1 :
         /\ session' = IF known THEN ReportReceived(session, received) ELSE session
         /\ overclaimed' = (overclaimed \/
              (known /\ session.last_counters # None
               /\ \E ip \in IP : session.metering_baseline + received > counter[ip]))
    /\ Then(t, <<>>)
    /\ UNCHANGED <<known, peer_ip, seen, metered, firewall, metering, requests, left, crossed, money>>

(* A Disconnect message: the peer gives up what it has left.               *)
DisconnectMsg(t) ==
    /\ Doing(t, "disconnect")
    /\ known' = FALSE
    /\ session' = NewSession
    /\ left' = (left \/ known)
    /\ money' = [money EXCEPT !.forfeited = @ + session.balance]
    /\ Then(t, Actions(Revoke))
    /\ UNCHANGED <<peer_ip, seen, metered, firewall, metering, requests, marks>>

(* dispatch, VerifyBootstrapToken: the mint answers, the session is told.  *)
(* A token still at the mint when the session ends is lost with the rest.  *)
Verified(t) ==
    /\ Doing(t, "verify")
    /\ money' = [money EXCEPT !.vouched = @ + Amount,
                              !.forfeited = IF left THEN @ + Amount ELSE @,
                              !.reaped = IF known \/ left THEN @ ELSE @ + Amount]
    /\ IF known THEN /\ session' = TokenAccepted(session, Amount, 0)
                     /\ Then(t, Actions(TokenAcceptedEffect))
       ELSE UNCHANGED session /\ Then(t, <<>>)
    /\ UNCHANGED <<known, peer_ip, seen, metered, firewall, metering, requests, left, marks>>

Refused(t) ==
    /\ Doing(t, "verify")
    /\ IF known THEN /\ session' = TokenRefused(session)
                     /\ Then(t, Actions(TokenRefusedEffect))
       ELSE UNCHANGED session /\ Then(t, <<>>)
    /\ UNCHANGED <<known, peer_ip, seen, metered, firewall, metering, requests, left, marks, money>>

-----------------------------------------------------------------------------
(* execute(): SetAccess acts on the address peer_ip has at that moment.    *)
SetAccess(t) ==
    /\ Doing(t, "allow") \/ Doing(t, "deny")
    /\ allowed' = IF peer_ip = NoIp THEN allowed
                  ELSE IF Doing(t, "allow") THEN allowed \cup {peer_ip}
                  ELSE allowed \ {peer_ip}
    /\ Then(t, <<>>)
    /\ UNCHANGED <<known, session, peer_ip, seen, metered, counter, metering, requests, left,
                   marks, money>>

SetMetering(t) ==
    /\ Doing(t, "start") \/ Doing(t, "stop") \/ Doing(t, "forget_metered")
    /\ metered' = Doing(t, "start")
    /\ Then(t, <<>>)
    /\ UNCHANGED <<known, session, peer_ip, seen, firewall, metering, requests, left, marks, money>>

-----------------------------------------------------------------------------
(* spawn_metering: look up the metered peer's address, read its counters   *)
(* without a lock, feed them to the session.                               *)
PickTarget ==
    /\ work[Meter] = <<>> /\ target = NoIp /\ reading = None
    /\ metered /\ peer_ip # NoIp
    /\ target' = peer_ip
    /\ UNCHANGED <<known, session, peer_ip, seen, metered, firewall, work, reading, misreads,
                   requests, left, marks, money>>

(* nft fails, or has no such counter, or its answer does not parse: zero.  *)
ReadCounters ==
    /\ target # NoIp
    /\ \/ reading' = counter[target] /\ UNCHANGED misreads
       \/ reading' = 0 /\ misreads < MaxMisreads /\ misreads' = misreads + 1
    /\ target' = NoIp
    /\ UNCHANGED <<known, session, peer_ip, seen, metered, firewall, work, requests, left, marks, money>>

MeterSample(t) ==
    /\ t = Meter /\ reading # None
    /\ reading' = None
    /\ IF known
       THEN /\ session' = Sampled(session, reading, 0)
            /\ money' = [money EXCEPT !.charged =
                            @ + (session.balance - Sampled(session, reading, 0).balance)]
            /\ work' = [work EXCEPT ![t] = Actions(SampledEffect(session, reading, 0))]
       ELSE UNCHANGED <<session, money, work>>
    /\ UNCHANGED <<known, peer_ip, seen, metered, firewall, target, misreads, requests, left, marks>>

-----------------------------------------------------------------------------
(* reap_idle: list the idle peers, look at the phase, disconnect.          *)
Sweep ==
    /\ work[Reaper] = <<>>
    /\ seen = "idle"
    /\ work' = [work EXCEPT ![Reaper] = <<"phase">>]
    /\ UNCHANGED <<known, session, peer_ip, seen, metered, firewall, metering, requests, left,
                   marks, money>>

(* Mutant: every known peer is kept.                                       *)
LookWhetherKnown(t) ==
    /\ Doing(t, "phase")
    /\ Then(t, IF known THEN <<>> ELSE <<"peer_disconnected">>)
    /\ UNCHANGED <<known, session, peer_ip, seen, metered, firewall, metering, requests, left,
                   marks, money>>

LookAtPhase(t) ==
    /\ Doing(t, "phase")
    /\ Then(t, IF known /\ session.phase = "Active" THEN <<>> ELSE <<"peer_disconnected">>)
    /\ UNCHANGED <<known, session, peer_ip, seen, metered, firewall, metering, requests, left,
                   marks, money>>

PeerDisconnected(t) ==
    /\ Doing(t, "peer_disconnected")
    /\ known' = FALSE
    /\ session' = NewSession
    /\ money' = [money EXCEPT !.reaped = @ + session.balance]
    /\ Then(t, Actions(Revoke) \o <<"forget_ip", "forget_seen", "forget_metered">>)
    /\ UNCHANGED <<peer_ip, seen, metered, firewall, metering, requests, left, marks>>

(* A request that came in meanwhile is forgotten with the rest: crossed,   *)
(* when the peer is known again, or about to be.                           *)
Forget(t) ==
    /\ Doing(t, "forget_ip") \/ Doing(t, "forget_seen")
    /\ peer_ip' = IF Doing(t, "forget_ip") THEN NoIp ELSE peer_ip
    /\ seen' = IF Doing(t, "forget_seen") THEN "absent" ELSE seen
    /\ crossed' = (crossed \/
         (Doing(t, "forget_seen") /\ (known \/ \E h \in Http : Doing(h, "connect"))))
    /\ Then(t, <<>>)
    /\ UNCHANGED <<known, session, metered, firewall, metering, requests, left, overclaimed, money>>

-----------------------------------------------------------------------------
(* The peer stays silent past the timeout; traffic flows.                  *)
GoesIdle ==
    /\ Reaps /\ seen = "recent"
    /\ seen' = "idle"
    /\ UNCHANGED <<known, session, peer_ip, metered, firewall, work, metering, requests, left,
                   marks, money>>

(* The firewall counts what it forwards to an address: while that is       *)
(* allowed, and afterwards what belongs to an established connection.      *)
Deliver(ip) ==
    /\ ip \in allowed \/ counter[ip] > 0
    /\ counter[ip] < MaxUnits
    /\ counter' = [counter EXCEPT ![ip] = @ + 1]
    /\ UNCHANGED <<known, session, peer_ip, seen, metered, allowed, work, metering, requests, left,
                   marks, money>>

(* At most one message follows the Announce, and is handled after a touch. *)
Messages == {<<>>} \cup {<<"touch", m>> : m \in {"token", "reject", "report", "disconnect"}}

(* A task that has something left to do does it.                           *)
TaskStep(t) ==
    \/ Touch(t) \/ Connect(t) \/ Token(t) \/ RejectMsg(t) \/ ReportMsg(t) \/ DisconnectMsg(t)
    \/ Verified(t) \/ Refused(t)
    \/ SetAccess(t) \/ SetMetering(t) \/ MeterSample(t)
    \/ LookAtPhase(t) \/ PeerDisconnected(t) \/ Forget(t)

Next ==
    \/ \E t \in Http, ip \in IP, message \in Messages : Request(t, ip, message)
    \/ \E t \in Thread : TaskStep(t)
    \/ PickTarget \/ ReadCounters \/ Sweep \/ GoesIdle
    \/ \E ip \in IP : Deliver(ip)

Spec == Init /\ [][Next]_vars

(* The reaper's interval keeps firing and tokio runs its task; nothing is  *)
(* assumed of requests, the mint or the metering loop.                     *)
FairSpec == Spec /\ WF_vars(Sweep) /\ WF_vars(TaskStep(Reaper))

-----------------------------------------------------------------------------
(* Under every interleaving of the tasks, what the mint vouched for is in  *)
(* the balance, was charged for traffic, was given up by the peer's own    *)
(* Disconnect, or fell to the reaper: nothing else loses or forges credit. *)
TokensAreCredited ==
    money.vouched = (IF known THEN session.balance ELSE 0)
                      + money.charged + money.forfeited + money.reaped

(* A peer with one address that never claims more than it was sent pays    *)
(* for every unit at most once, and once more for every counter reading    *)
(* that failed and read as zero, however its sessions, samples, reports    *)
(* and the reaper follow one another (session.rs: "a report arriving       *)
(* between samples doesn't double-charge").                                *)
ChargedForTraffic ==
    \A ip \in IP : IP = {ip} /\ ~overclaimed =>
        money.charged <= PerUnit * ((1 + misreads) * counter[ip])

(* reap_idle: a session that is not Active and whose peer is silent does   *)
(* not stay: it ends, or the peer pays or is heard of again.  Left out is  *)
(* the one whose request came in while the reaper was forgetting the peer. *)
IdleIsForgotten ==
    known /\ session.phase # "Active" /\ seen # "recent"
      ~> ~known \/ session.phase = "Active" \/ seen = "recent" \/ crossed

(* Nobody has anything left to execute.                                    *)
Quiet == \A t \in Thread : work[t] = <<>>

(* tollgate-bootstrap.md: "The provider never stops service if the balance *)
(* is positive": once every task is done, an Active peer is let through.   *)
ActiveIsServed ==
    Quiet /\ known /\ session.phase = "Active" => peer_ip \in allowed /\ metered

=============================================================================
