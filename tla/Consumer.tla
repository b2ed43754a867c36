------------------------------ MODULE Consumer ------------------------------
(***************************************************************************)
(* tollgate-net's consume loop (client.rs run_consume, kept running by     *)
(* Driver::spawn_upstreams) against a provider whose session is            *)
(* SessionCore's.  The consumer pays, polls for what the provider queued   *)
(* for it, estimates what is left of its money and tops up; the provider   *)
(* meters, reports and cuts off at its own pace.                           *)
(*                                                                         *)
(* The provider handles an exchange at once (module Driver takes it        *)
(* apart), its clock never goes back, no price is negative ("not used in   *)
(* bootstrap-only mode", pricing.rs:13), and the consumer polls more often *)
(* than the provider's reaper sweeps.  Announce and PriceSheet are in      *)
(* every answer.                                                           *)
(***************************************************************************)
EXTENDS SessionCore

CONSTANTS
    Amount,         \* UpstreamConfig.amount, scaled units
    Topup,          \* UpstreamConfig.topup, scaled units
    Meters,         \* whether the consumer may have a counter of its own
    Pace,           \* units delivered, at most, between two polls or samples
    Step,           \* milliseconds the provider's clock advances by
    MaxTime,         \* bound: the provider's clock
    MaxUnits,       \* bound: units delivered
    MaxFailures,    \* bound: exchanges that fail
    MaxRefusals     \* bound: tokens the provider's mint does not vouch for

ASSUME ConsumerAssumption ==
    /\ {PerSecond, PerUnit, Step} \subseteq Nat
    /\ {Amount, Topup, Pace} \subseteq Nat \ {0}
    /\ Meters \subseteq BOOLEAN /\ Meters # {}
    /\ {MaxTime, MaxUnits, MaxFailures, MaxRefusals} \subseteq Nat

VARIABLES
    session,        \* the provider's PeerSession for this consumer
    outbox,         \* the provider's queue: latest report, a Reject for exhaustion
    time,           \* the provider's clock
    counter,        \* units: [delivered by the provider, received as metered]
    since,          \* units delivered since the last [poll, sample]
    metered,        \* the consumer has a counter of its own
    loop,           \* run_consume's locals and where it is
    online,         \* UpstreamState.online; its other fields are only shown
    faults,         \* [failures, refusals] so far
    samples         \* history: samples that billed time in [this, any] metering session

consumerVars == <<session, outbox, time, counter, since, metered, loop, online, faults, samples>>

NoReport == [elapsed |-> 0, delivered |-> None]

EmptyOutbox == [report |-> NoReport, exhausted |-> FALSE]

NotStarted == [at |-> "pay", paid |-> 0, acked |-> 0, baseline |-> 0,
               cut_off |-> FALSE]

ConsumerInit ==
    /\ session = NewSession
    /\ outbox = EmptyOutbox
    /\ time = 0
    /\ counter = [delivered |-> 0, received |-> 0]
    /\ since = [poll |-> 0, sample |-> 0]
    /\ metered \in Meters
    /\ loop = NotStarted
    /\ online = FALSE
    /\ faults = [failures |-> 0, refusals |-> 0]
    /\ samples = [this |-> 0, most |-> 0]

-----------------------------------------------------------------------------
(* The provider.                                                           *)

(* Traffic passes while access is granted; some of it may be lost on the   *)
(* way to the consumer's counter.                                          *)
Deliver(lost) ==
    /\ session.phase = "Active"
    /\ counter.delivered < MaxUnits /\ since.poll < Pace /\ since.sample < Pace
    /\ counter' = [delivered |-> counter.delivered + 1,
                   received |-> IF metered /\ ~lost THEN counter.received + 1
                                ELSE counter.received]
    /\ since' = [poll |-> since.poll + 1, sample |-> since.sample + 1]
    /\ UNCHANGED <<session, outbox, time, metered, loop, online, faults, samples>>

TimePasses ==
    /\ time + Step <= MaxTime
    /\ time' = time + Step
    /\ UNCHANGED <<session, outbox, counter, since, metered, loop, online, faults, samples>>

(* enqueue(): the latest report replaces the one before; a Reject stays    *)
(* until it is fetched.                                                    *)
Enqueue(sends, report) ==
    outbox' = [report |-> IF "Report" \in {sends[i] : i \in DOMAIN sends}
                          THEN report ELSE outbox.report,
               exhausted |-> outbox.exhausted
                   \/ "BalanceExhausted" \in {sends[i] : i \in DOMAIN sends}]

(* One turn of the metering loop.                                          *)
Sample ==
    /\ session.phase = "Active"
    /\ session' = Sampled(session, counter.delivered, time)
    /\ Enqueue(SampledEffect(session, counter.delivered, time).send,
               [elapsed |-> SatSub(time, session.metering_start),
                delivered |-> OurDelivered(session, counter.delivered)])
    /\ since' = [since EXCEPT !.sample = 0]
    /\ samples' = IF session.last_counters = None THEN [samples EXCEPT !.this = 0]
                  ELSE IF session.last_meter_at = time THEN samples
                  ELSE [this |-> samples.this + 1,
                        most |-> Reconcile(samples.most, samples.this + 1)]
    /\ UNCHANGED <<time, counter, metered, loop, online, faults>>

(* A BootstrapToken: the phase leaves Active before the mint answers, so   *)
(* every accepted token starts a metering session.                         *)
Credited(amount) == TokenAccepted(TokenReceived(session), amount, time)

Refused == TokenRefused(TokenReceived(session))

(* A MeteringReport(0, 0, acked) rides on the poll once there is one.      *)
Acknowledged ==
    IF loop.acked > 0 THEN ReportReceived(session, loop.acked) ELSE session

-----------------------------------------------------------------------------
(* The consumer.                                                           *)

(* What an exchange returns, as far as the consumer looks for it.          *)
Answer == outbox

(* raw_received: the consumer's own counter, of the next hop or of an      *)
(* interface; zero when it cannot be read.                                 *)
RawReceived == IF metered THEN {0, counter.received} ELSE {0}

(* run_consume begins with pay(); whatever else the answer holds is not    *)
(* looked at.                                                              *)
Pay(raw) ==
    /\ loop.at = "pay"
    /\ session' = Credited(Amount)
    /\ outbox' = EmptyOutbox
    /\ loop' = [NotStarted EXCEPT !.at = "poll", !.paid = Amount,
                                  !.baseline = raw]
    /\ online' = TRUE
    /\ UNCHANGED <<time, counter, since, metered, faults, samples>>

(* A refused first token ends run_consume; spawn_upstreams starts it again *)
PayRefused ==
    /\ loop.at = "pay" /\ faults.refusals < MaxRefusals
    /\ session' = Refused
    /\ outbox' = EmptyOutbox
    /\ online' = FALSE
    /\ faults' = [faults EXCEPT !.refusals = @ + 1]
    /\ UNCHANGED <<time, counter, since, metered, loop, samples>>

Baseline(raw) == IF Answer.exhausted THEN raw ELSE loop.baseline

(* The exhausting sample reports too, so without a meter the count that a  *)
(* Reject resets is set again at once.                                     *)
NextAcked(measured) ==
    IF metered THEN measured
    ELSE IF Answer.report # NoReport THEN Answer.report.delivered
    ELSE IF Answer.exhausted THEN 0 ELSE loop.acked

(* Nothing is owed without a report.                                       *)
Cost(measured) ==
    IF Answer.report = NoReport THEN 0
    ELSE CostScaled(Answer.report.elapsed,
                    IF metered THEN Reconcile(Answer.report.delivered, measured)
                    ELSE Answer.report.delivered)

(* Mutant: no report counts as nothing left.                               *)
MustTopUpUnreported(measured) ==
    Answer.exhausted \/ Answer.report = NoReport \/ loop.paid - Cost(measured) < Topup

(* Mutant: only the estimate is looked at.                                 *)
MustTopUpByEstimate(measured) == loop.paid - Cost(measured) < Topup

MustTopUp(measured) == Answer.exhausted \/ loop.paid - Cost(measured) < Topup

(* One poll, up to the decision to top up.  The counter is read twice.     *)
Poll(base, raw) ==
    LET measured == SatSub(raw, Baseline(base))
    IN  /\ loop.at = "poll"
        /\ session' = Acknowledged
        /\ outbox' = EmptyOutbox
        /\ since' = [since EXCEPT !.poll = 0]
        /\ loop' = [loop EXCEPT !.at = IF MustTopUp(measured) THEN "topup" ELSE "poll",
                                !.acked = NextAcked(measured),
                                !.baseline = Baseline(base),
                                !.cut_off = Answer.exhausted]
        /\ online' = (online \/ ~MustTopUp(measured))
        /\ UNCHANGED <<time, counter, metered, faults, samples>>

TopUp ==
    /\ loop.at = "topup"
    /\ session' = Credited(Topup)
    /\ outbox' = EmptyOutbox
    /\ loop' = [loop EXCEPT !.at = "poll", !.cut_off = FALSE,
                            !.paid = IF loop.cut_off THEN Topup ELSE @ + Topup]
    /\ online' = ~loop.cut_off
    /\ UNCHANGED <<time, counter, since, metered, faults, samples>>

(* A refused top-up is not tried again.                                    *)
TopUpRefused ==
    /\ loop.at = "topup" /\ faults.refusals < MaxRefusals
    /\ session' = Refused
    /\ outbox' = EmptyOutbox
    /\ loop' = [loop EXCEPT !.at = "poll", !.cut_off = FALSE]
    /\ online' = ~loop.cut_off
    /\ faults' = [faults EXCEPT !.refusals = @ + 1]
    /\ UNCHANGED <<time, counter, since, metered, samples>>

(* An exchange fails: the request is lost, or the answer to a request that *)
(* was handled.  run_consume returns the error, the upstream is offline,   *)
(* and the loop begins again with a payment.                               *)
Handled ==
    CASE loop.at = "pay" -> Credited(Amount)
      [] loop.at = "poll" -> Acknowledged
      [] loop.at = "topup" -> Credited(Topup)

ExchangeFails ==
    /\ faults.failures < MaxFailures
    /\ \/ UNCHANGED <<session, outbox>>
       \/ session' = Handled /\ outbox' = EmptyOutbox
    /\ loop' = NotStarted
    /\ online' = FALSE
    /\ faults' = [faults EXCEPT !.failures = @ + 1]
    /\ UNCHANGED <<time, counter, since, metered, samples>>

-----------------------------------------------------------------------------
Consume ==
    \/ \E raw \in RawReceived : Pay(raw)
    \/ \E base, raw \in RawReceived : Poll(base, raw)
    \/ TopUp

ConsumerNext ==
    \/ \E lost \in BOOLEAN : Deliver(lost)
    \/ TimePasses
    \/ Sample
    \/ Consume \/ PayRefused \/ TopUpRefused \/ ExchangeFails

(* Both loops keep turning: the metering ticker and the polling interval.  *)
ConsumerFairness == WF_consumerVars(Sample) /\ WF_consumerVars(Consume)

ConsumerSpec == ConsumerInit /\ [][ConsumerNext]_consumerVars /\ ConsumerFairness

-----------------------------------------------------------------------------
(* What the consumer has with the provider stays within one cycle of the   *)
(* watermark, and one more for every exchange that failed: it pays again   *)
(* only when little is left, however stale its estimate is.  A sample that *)
(* bills time drops up to one scaled unit, which the consumer's own sum    *)
(* over the whole time counts as spent: a cycle is longer by that.         *)
Cycle == (IF Amount > 2 * Topup THEN Amount ELSE 2 * Topup) + samples.most

ExposureIsBounded == ~metered => session.balance <= (1 + faults.failures) * Cycle

(* A consumer that has paid and runs out is served again: the Reject that  *)
(* says so is queued until a poll or a payment fetches it, whatever        *)
(* exchange fails.  (Not so after a refused top-up, nor after a cut for    *)
(* drift.)                                                                 *)
ServedAgain ==
    session # NewSession ~> session.phase = "Active" \/ faults.refusals > 0

(* tollgate-bootstrap.md:150: "refilling just ahead of zero, so a          *)
(* steady-state session never actually drops."                             *)
SteadySessionNeverDrops == session.phase # "Suspended"
=============================================================================
