---------------------------- MODULE SessionCore ----------------------------
(***************************************************************************)
(* The pure half of tollgate-core's session.rs: one peer's PeerSession     *)
(* record, and for every event of Session::handle the record it leaves     *)
(* behind and the effects it asks the host for.  Session::handle is        *)
(* synchronous and touches one peer only, so each event is a function of   *)
(* that peer's record.  Hosts (modules Session, Driver) decide when the    *)
(* effects are carried out.                                                *)
(*                                                                         *)
(* Abstracted away: the `received` counters and the stored PriceSheet and  *)
(* Accept, none of which any transition reads.                             *)
(***************************************************************************)
EXTENDS Integers, Sequences

CONSTANTS
    PerSecond,      \* Price.per_second, scaled units per second
    PerUnit,        \* Price.per_unit, scaled units per delivered unit
    ToleranceBps,   \* MeteringPolicy.tolerance_bps
    MaxStreak,      \* MeteringPolicy.max_streak
    U64Max          \* the largest u64; small in the runs that reach it

ASSUME PriceAssumption == PerSecond \in Int /\ PerUnit \in Int
ASSUME PolicyAssumption == ToleranceBps \in Nat /\ MaxStreak \in 1..255
ASSUME WidthAssumption == U64Max \in Nat \ {0}

I64Max == U64Max \div 2

-----------------------------------------------------------------------------
(* Integer helpers: saturating u64 arithmetic, truncating i128 division.   *)

SatAdd(a, b) == IF a + b > U64Max THEN U64Max ELSE a + b

SatSub(a, b) == IF a > b THEN a - b ELSE 0

AbsDiff(a, b) == IF a > b THEN a - b ELSE b - a

(* Mutant: the remainder is rounded up.                                    *)
CeilThousandth(x) == (x + 999) \div 1000

TruncThousandth(x) == IF x >= 0 THEN x \div 1000 ELSE -((-x) \div 1000)

(* Price::cost_scaled: signed, the remainder below one scaled unit dropped *)
(* at every call, the sum clamped to i64.                                  *)
CostScaled(elapsed, units) ==
    LET total == TruncThousandth(elapsed * PerSecond) + units * PerUnit
    IN  IF total > I64Max THEN I64Max
        ELSE IF total < -I64Max - 1 THEN -I64Max - 1
        ELSE total

Reconcile(local, remote) == IF local > remote THEN local ELSE remote

-----------------------------------------------------------------------------
(* PeerSession.  None stands for Option::None of a counter.                *)

None == -1

Phases == {"New", "BootstrapPending", "Active", "Suspended"}

AccessLevels == {"None", "Active", "Suspended"}

AllowsDelivery(level) == level = "Active"

PeerSession ==
    [phase : Phases,
     balance : 0..U64Max,
     last_counters : Nat \cup {None},
     last_meter_at : Nat,
     metering_baseline : Nat,
     metering_start : Nat,
     peer_report : Nat \cup {None},
     billed_units : Nat,
     over_tolerance_streak : 0..255]

NewSession ==
    [phase |-> "New", balance |-> 0, last_counters |-> None,
     last_meter_at |-> 0, metering_baseline |-> 0, metering_start |-> 0,
     peer_report |-> None, billed_units |-> 0, over_tolerance_streak |-> 0]

ResetMetering(s, counters, now) ==
    [s EXCEPT !.last_counters = counters, !.last_meter_at = now,
              !.metering_baseline = counters, !.metering_start = now,
              !.peer_report = None, !.billed_units = 0,
              !.over_tolerance_streak = 0]

-----------------------------------------------------------------------------
(* What one call of handle() asks of the host.  Every arm of handle()      *)
(* emits its actions in the same order: the Sends, then at most one        *)
(* SetAccess, then at most one Start- or StopMetering.                     *)

Effect(send, access, meter) == [send |-> send, access |-> access, meter |-> meter]

NoEffect == Effect(<<>>, "Keep", "Keep")

Revoke == Effect(<<>>, "None", "Stop")

-----------------------------------------------------------------------------
(* Event::PeerConnected for a vacant entry.                                *)

ConnectedEffect == Effect(<<>>, "None", "Keep")

(* MessageReceived, BootstrapToken: from any phase.                        *)
TokenReceived(s) == [s EXCEPT !.phase = "BootstrapPending"]

(* MessageReceived, Reject.                                                *)
RejectReceived(s) == [s EXCEPT !.phase = "New"]

RejectEffect(s) == IF s.phase = "Active" THEN Revoke ELSE NoEffect

(* MessageReceived, MeteringReport: keep the peer's `received`.            *)
ReportReceived(s, received) == [s EXCEPT !.peer_report = received]

(* Mutant: a top-up replaces the balance.                                  *)
TokenReplaces(s, amount, now) ==
    [s EXCEPT !.balance = amount, !.phase = "Active",
              !.last_counters = IF s.phase = "Active" THEN @ ELSE None,
              !.last_meter_at = IF s.phase = "Active" THEN @ ELSE now]

(* Event::BootstrapVerified.                                               *)
TokenAccepted(s, amount, now) ==
    LET paid == [s EXCEPT !.balance = SatAdd(s.balance, amount),
                          !.phase = "Active"]
    IN  IF s.phase = "Active" THEN paid
        ELSE [paid EXCEPT !.last_counters = None, !.last_meter_at = now]

TokenAcceptedEffect == Effect(<<"Accepted">>, "Active", "Start")

TokenRefused(s) == [s EXCEPT !.phase = "New"]

TokenRefusedEffect == Effect(<<"Rejected">>, "None", "Keep")

-----------------------------------------------------------------------------
(* Event::MeterSample of an Active peer whose baseline is set.             *)

OurDelivered(s, counters) == SatSub(counters, s.metering_baseline)

(* Mutant: the peer's report replaces our own count.                       *)
BillableAsReported(s, counters) ==
    IF s.peer_report = None THEN OurDelivered(s, counters) ELSE s.peer_report

Billable(s, counters) ==
    IF s.peer_report = None THEN OurDelivered(s, counters)
    ELSE Reconcile(OurDelivered(s, counters), s.peer_report)

NewUnits(s, counters) == SatSub(Billable(s, counters), s.billed_units)

SampleCost(s, counters, now) ==
    CostScaled(SatSub(now, s.last_meter_at), NewUnits(s, counters))

Charge(s, counters, now) ==
    LET cost == SampleCost(s, counters, now) IN IF cost > 0 THEN cost ELSE 0

OverTolerance(s, counters) ==
    /\ s.peer_report # None
    /\ OurDelivered(s, counters) > 0
    /\ AbsDiff(OurDelivered(s, counters), s.peer_report) * 10000
         > OurDelivered(s, counters) * ToleranceBps

NextStreak(s, counters) ==
    IF s.peer_report = None THEN s.over_tolerance_streak
    ELSE IF OverTolerance(s, counters)
         THEN IF s.over_tolerance_streak < 255
              THEN s.over_tolerance_streak + 1 ELSE 255
         ELSE 0

Exhausted(s, counters, now) ==
    /\ SampleCost(s, counters, now) > 0
    /\ SatSub(s.balance, Charge(s, counters, now)) = 0

DriftPersisted(s, counters) == NextStreak(s, counters) >= MaxStreak

CutOff(s, counters, now) ==
    Exhausted(s, counters, now) \/ DriftPersisted(s, counters)

BilledSample(s, counters, now) ==
    [s EXCEPT !.billed_units = Billable(s, counters),
              !.last_counters = counters,
              !.last_meter_at = now,
              !.balance = SatSub(s.balance, Charge(s, counters, now)),
              !.over_tolerance_streak = NextStreak(s, counters),
              !.phase = IF CutOff(s, counters, now) THEN "Suspended" ELSE "Active"]

(* Mutant: the phase is not looked at.                                     *)
SampledInAnyPhase(s, counters, now) ==
    IF s.last_counters = None THEN ResetMetering(s, counters, now)
    ELSE [BilledSample(s, counters, now) EXCEPT
            !.phase = IF s.phase = "Active" THEN @ ELSE s.phase]

(* Mutant: the first sample is billed instead of taken as the baseline.    *)
SampledFromZero(s, counters, now) ==
    IF s.phase # "Active" THEN s ELSE BilledSample(s, counters, now)

Sampled(s, counters, now) ==
    IF s.phase # "Active" THEN s
    ELSE IF s.last_counters = None THEN ResetMetering(s, counters, now)
    ELSE BilledSample(s, counters, now)

SampledSends(s, counters, now) ==
    (IF OverTolerance(s, counters) THEN <<"TransitLoss">> ELSE <<>>)
      \o <<"Report">>
      \o (IF Exhausted(s, counters, now) THEN <<"BalanceExhausted">> ELSE <<>>)

(* Mutant: metering stops at exhaustion, access stays.                     *)
SampledEffectKeepsAccess(s, counters, now) ==
    IF s.phase = "Active" /\ s.last_counters # None /\ CutOff(s, counters, now)
    THEN Effect(SampledSends(s, counters, now), "Keep", "Stop") ELSE NoEffect

SampledEffect(s, counters, now) ==
    IF s.phase # "Active" \/ s.last_counters = None THEN NoEffect
    ELSE IF CutOff(s, counters, now)
         THEN Effect(SampledSends(s, counters, now), "Suspended", "Stop")
         ELSE Effect(SampledSends(s, counters, now), "Keep", "Keep")

=============================================================================
