------------------------------ MODULE Session ------------------------------
(***************************************************************************)
(* tollgate-core's Session driven by tollgate-net's Driver, the way the    *)
(* Driver means to drive it: every event is handled and its effects        *)
(* carried out before the next event, with one exception that the code     *)
(* makes explicit - a bootstrap token is verified with the mint between    *)
(* the handling of the message and that of its result, and any event may   *)
(* fall in between (the session lock is not held across the await).        *)
(*                                                                         *)
(* The environment: peers send any message at any time, traffic flows      *)
(* while the firewall is open, wall-clock time passes.                     *)
(***************************************************************************)
EXTENDS SessionCore, FiniteSets

CONSTANTS
    Peer,           \* peer identities (public keys)
    Amounts,        \* values a verified token may have, scaled units
    Reports,        \* cumulative `received` values a peer may report
    ReadFails,      \* whether reading the counters may fail (and yield 0)
    TickMs,         \* the clock advances in steps of TickMs milliseconds
    StepBackMs,     \* a clock correction; 0 for a monotonic clock
    MaxClock,       \* bound: the largest clock reading
    MaxUnits,       \* bound: units delivered to one peer
    MaxCredit,      \* bound: credit accepted from one peer
    MaxPending      \* bound: verifications in flight for one peer

ASSUME PeerAssumption == IsFiniteSet(Peer)
ASSUME EnvAssumption ==
    /\ Amounts \subseteq Nat
    /\ Reports \subseteq Nat
    /\ ReadFails \in BOOLEAN
    /\ TickMs \in Nat \ {0}
    /\ StepBackMs \in Nat
    /\ {MaxClock, MaxUnits, MaxCredit, MaxPending} \subseteq Nat

VARIABLES
    peers,          \* keys of Session.peers
    session,        \* the PeerSession of every peer in `peers`
    access,         \* the access level the host last applied
    metered,        \* Driver.metered: the peers the metering loop samples
    pending,        \* VerifyBootstrapToken actions not yet answered
    delivered,      \* the firewall's cumulative counter for the peer
    clock,          \* the host's wall clock, milliseconds
    ledger          \* history: what was credited and charged

vars == <<peers, session, access, metered, pending, delivered, clock, ledger>>

-----------------------------------------------------------------------------
(* History of one PeerSession: `credited` and `cost` over its life,        *)
(* `units`, `due` (the sum of sample costs), `elapsed` (the time that went *)
(* by between samples, as the clock showed it), `samples` (those that had  *)
(* time to charge) since the metering baseline, `peak` the largest         *)
(* billable total since then.                                              *)

Ledger == [credited : Nat, cost : Nat, units : Nat, due : Int,
           elapsed : Nat, samples : Nat, peak : Nat]

NewLedger == [credited |-> 0, cost |-> 0, units |-> 0, due |-> 0,
              elapsed |-> 0, samples |-> 0, peak |-> 0]

Rebased(l) == [l EXCEPT !.units = 0, !.due = 0, !.elapsed = 0, !.samples = 0,
                        !.peak = 0]

Billed(l, s, counters) ==
    [l EXCEPT !.cost = @ + Charge(s, counters, clock),
              !.units = @ + NewUnits(s, counters),
              !.due = @ + SampleCost(s, counters, clock),
              !.elapsed = @ + SatSub(clock, s.last_meter_at),
              !.samples = @ + (IF clock > s.last_meter_at THEN 1 ELSE 0),
              !.peak = Reconcile(@, Billable(s, counters))]

LedgerAfterSample(l, s, counters) ==
    IF s.phase # "Active" THEN l
    ELSE IF s.last_counters = None THEN Rebased(l)
    ELSE Billed(l, s, counters)

-----------------------------------------------------------------------------
TypeOK ==
    /\ peers \subseteq Peer
    /\ session \in [Peer -> PeerSession]
    /\ access \in [Peer -> AccessLevels]
    /\ metered \subseteq Peer
    /\ pending \in [Peer -> Nat]
    /\ delivered \in [Peer -> Nat]
    /\ clock \in Nat
    /\ ledger \in [Peer -> Ledger]

Init ==
    /\ peers = {}
    /\ session = [p \in Peer |-> NewSession]
    /\ access = [p \in Peer |-> "None"]
    /\ metered = {}
    /\ pending = [p \in Peer |-> 0]
    /\ delivered = [p \in Peer |-> 0]
    /\ clock = 0
    /\ ledger = [p \in Peer |-> NewLedger]

-----------------------------------------------------------------------------
(* Driver::execute for SetAccess, StartMetering and StopMetering.          *)
Execute(p, effect) ==
    /\ access' = IF effect.access = "Keep" THEN access
                 ELSE [access EXCEPT ![p] = effect.access]
    /\ metered' = CASE effect.meter = "Start" -> metered \cup {p}
                    [] effect.meter = "Stop"  -> metered \ {p}
                    [] OTHER -> metered

(* Event::PeerConnected - sent again with every poll, so idempotent.       *)
PeerConnected(p) ==
    /\ peers' = peers \cup {p}
    /\ IF p \in peers
       THEN UNCHANGED <<session, ledger>> /\ Execute(p, NoEffect)
       ELSE /\ session' = [session EXCEPT ![p] = NewSession]
            /\ ledger' = [ledger EXCEPT ![p] = NewLedger]
            /\ Execute(p, ConnectedEffect)
    /\ UNCHANGED <<pending, delivered, clock>>

(* A BootstrapToken message: hand the token to the mint.                   *)
BootstrapToken(p) ==
    /\ p \in peers
    /\ pending[p] < MaxPending
    /\ session' = [session EXCEPT ![p] = TokenReceived(@)]
    /\ pending' = [pending EXCEPT ![p] = @ + 1]
    /\ UNCHANGED <<peers, access, metered, delivered, clock, ledger>>

(* The mint vouches for the token.  A peer that was torn down meanwhile is *)
(* unknown to the session, which then drops the event.                     *)
BootstrapVerified(p, amount) ==
    /\ pending[p] > 0
    /\ ledger[p].credited + amount <= MaxCredit
    /\ pending' = [pending EXCEPT ![p] = @ - 1]
    /\ IF p \in peers
       THEN /\ session' = [session EXCEPT ![p] = TokenAccepted(@, amount, clock)]
            /\ ledger' = [ledger EXCEPT ![p].credited = @ + amount]
            /\ Execute(p, TokenAcceptedEffect)
       ELSE UNCHANGED <<session, ledger>> /\ Execute(p, NoEffect)
    /\ UNCHANGED <<peers, delivered, clock>>

(* The mint refuses the token, or cannot be reached.                       *)
BootstrapRefused(p) ==
    /\ pending[p] > 0
    /\ pending' = [pending EXCEPT ![p] = @ - 1]
    /\ IF p \in peers
       THEN /\ session' = [session EXCEPT ![p] = TokenRefused(@)]
            /\ Execute(p, TokenRefusedEffect)
       ELSE UNCHANGED session /\ Execute(p, NoEffect)
    /\ UNCHANGED <<peers, delivered, clock, ledger>>

(* A Reject message.                                                       *)
RejectMessage(p) ==
    /\ p \in peers
    /\ session' = [session EXCEPT ![p] = RejectReceived(@)]
    /\ Execute(p, RejectEffect(session[p]))
    /\ UNCHANGED <<peers, pending, delivered, clock, ledger>>

(* A MeteringReport message.                                               *)
MeteringReport(p, received) ==
    /\ p \in peers
    /\ session' = [session EXCEPT ![p] = ReportReceived(@, received)]
    /\ UNCHANGED <<peers, access, metered, pending, delivered, clock, ledger>>

(* A Disconnect message or Event::PeerDisconnected: same cleanup.          *)
PeerDisconnected(p) ==
    /\ p \in peers
    /\ peers' = peers \ {p}
    /\ session' = [session EXCEPT ![p] = NewSession]
    /\ ledger' = [ledger EXCEPT ![p] = NewLedger]
    /\ Execute(p, Revoke)
    /\ UNCHANGED <<pending, delivered, clock>>

(* One turn of the metering loop for p: read the counters, feed a sample.  *)
(* A failed `nft list counters` reads as zero.                             *)
Readings(p) == IF ReadFails THEN {delivered[p], 0} ELSE {delivered[p]}

MeterSample(p, reading) ==
    /\ p \in metered
    /\ IF p \in peers
       THEN /\ session' = [session EXCEPT ![p] = Sampled(@, reading, clock)]
            /\ ledger' = [ledger EXCEPT
                            ![p] = LedgerAfterSample(@, session[p], reading)]
            /\ Execute(p, SampledEffect(session[p], reading, clock))
       ELSE UNCHANGED <<session, ledger>> /\ Execute(p, NoEffect)
    /\ UNCHANGED <<peers, pending, delivered, clock>>

-----------------------------------------------------------------------------
(* Environment.                                                            *)

(* The firewall forwards one unit to a peer it lets through.               *)
Deliver(p) ==
    /\ AllowsDelivery(access[p])
    /\ delivered[p] < MaxUnits
    /\ delivered' = [delivered EXCEPT ![p] = @ + 1]
    /\ UNCHANGED <<peers, session, access, metered, pending, clock, ledger>>

(* now_millis() reads SystemTime, which may be set back.                   *)
ClockAdvances ==
    /\ clock + TickMs <= MaxClock
    /\ clock' = clock + TickMs
    /\ UNCHANGED <<peers, session, access, metered, pending, delivered, ledger>>

ClockSetBack ==
    /\ StepBackMs > 0
    /\ clock >= StepBackMs
    /\ clock' = clock - StepBackMs
    /\ UNCHANGED <<peers, session, access, metered, pending, delivered, ledger>>

Next ==
    \/ \E p \in Peer :
         \/ PeerConnected(p)
         \/ BootstrapToken(p)
         \/ \E a \in Amounts : BootstrapVerified(p, a)
         \/ BootstrapRefused(p)
         \/ RejectMessage(p)
         \/ \E r \in Reports : MeteringReport(p, r)
         \/ PeerDisconnected(p)
         \/ \E reading \in Readings(p) : MeterSample(p, reading)
         \/ Deliver(p)
    \/ ClockAdvances
    \/ ClockSetBack

Spec == Init /\ [][Next]_vars

-----------------------------------------------------------------------------
(* Safety.                                                                 *)

(* What the host enforces follows the lifecycle: an Active peer is let     *)
(* through and metered, a Suspended or unknown peer is neither, whatever   *)
(* order messages, verification results and samples arrive in.             *)
AccessFollowsPhase ==
    \A p \in Peer :
        /\ p \in peers /\ session[p].phase = "Active"
             => AllowsDelivery(access[p]) /\ p \in metered
        /\ p \in peers /\ session[p].phase = "Suspended"
             => ~AllowsDelivery(access[p]) /\ p \notin metered
        /\ p \notin peers
             => ~AllowsDelivery(access[p]) /\ p \notin metered

(* Credit is never lost while the peer is known: everything credited is    *)
(* still in the balance or was used up by the price of what was metered.   *)
(* Re-announces, failed top-ups, suspension and re-admission keep it.      *)
(* (Beyond u64 the balance saturates and nothing is promised.)             *)
NoCreditLost ==
    \A p \in peers :
        ledger[p].credited <= U64Max
            => ledger[p].credited <= session[p].balance + ledger[p].cost

(* Whatever a peer reports, and in whatever order, every unit our own      *)
(* counters saw since the metering baseline - and every unit the peer ever *)
(* owned up to before a sample - has been billed by that sample.           *)
MeteredUsageIsBilled ==
    \A p \in peers :
        session[p].last_counters # None =>
            /\ ledger[p].units >= SatSub(session[p].last_counters,
                                         session[p].metering_baseline)
            /\ ledger[p].units >= ledger[p].peak

(* The sum of the sample costs since the baseline is the price of the      *)
(* elapsed time and the billed units, short by less than one scaled unit   *)
(* per sample (cost_scaled truncates every interval) and never over it.    *)
(* Meant for non-negative prices and costs below i64::MAX.                 *)
ChargeIsFair ==
    \A p \in peers :
        session[p].last_counters # None =>
            LET exact == PerSecond * ledger[p].elapsed
                         + 1000 * PerUnit * ledger[p].units
                due == 1000 * ledger[p].due
            IN  /\ due <= exact
                /\ exact - due <= 999 * ledger[p].samples

(* A peer is charged only by a sample taken while it is let through: no    *)
(* step takes balance from a peer the firewall blocks.                     *)
NeverChargedWhileBlocked ==
    [][\A p \in Peer :
         p \in peers \cap peers' /\ session'[p].balance < session[p].balance
           => AllowsDelivery(access[p]) /\ p \in metered]_vars

=============================================================================
