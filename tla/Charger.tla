------------------------------ MODULE Charger -------------------------------
(***************************************************************************)
(* tollgate-charger-host: one ChargerDriver, the device it controls over   *)
(* MQTT (at least once, in order: the host's QoS) and the host that        *)
(* persists its journal, crashes and resumes it.                           *)
(*                                                                         *)
(* The driver's PendingStop reason only labels the report, so a flag       *)
(* stands for it.                                                          *)
(***************************************************************************)
EXTENDS DeliveryCore, Sequences

CONSTANTS
    Deposit, MaxSeconds, MaxCost, ExpiresAt,    \* time_money_grant
    PerSecondMillis,    \* PriceVector.per_second_millis
    StepMs,             \* the clock advances in steps of StepMs milliseconds
    MaxNow,             \* bound: the largest clock reading
    MaxCrashes,         \* bound: crashes of the host
    MaxRedeliveries,    \* bound: messages the broker delivers twice
    MaxOrders           \* bound: orders in flight when the user revokes

ASSUME ChargerAssumption ==
    /\ {Deposit, MaxSeconds, MaxCost, ExpiresAt, PerSecondMillis, MaxNow,
        MaxCrashes, MaxRedeliveries, MaxOrders} \subseteq Nat
    /\ StepMs \in Nat \ {0}

None == -1

TheGrant == [deposit |-> Deposit, max_units |-> Unbounded,
             max_seconds |-> MaxSeconds, max_cost |-> MaxCost,
             expires_at |-> ExpiresAt]

VARIABLES
    engine,         \* ChargerDriver.engine
    acked_at,       \* the accrual baseline
    last,           \* the last synthesized Progress: the journal to persist
    last_at,        \* last.at
    pending_stop,   \* ChargerDriver.pending_stop is set
    journal,        \* what the host persisted: [last, at]
    now,            \* the host's monotonic clock
    wire,           \* messages in flight: [device, host], each a sequence
    window,         \* the device's countdown: its end, or None
    faults,         \* [crashes, redeliveries] so far
    started_at,     \* history: when the device started, or None
    stopped,        \* history: PublishStop was sent
    books           \* history: Settle and Refund commands executed

driver == <<engine, acked_at, last, last_at, pending_stop>>
vars == <<driver, journal, now, wire, window, faults, started_at, stopped, books>>

(* The state open() leaves at time 0: the grant issued, start published.   *)
Init ==
    /\ engine = Granted(NewEngine, TheGrant)
    /\ acked_at = None
    /\ last = ZeroProgress /\ last_at = 0
    /\ pending_stop = FALSE
    /\ journal = [last |-> ZeroProgress, at |-> 0]
    /\ now = 0
    /\ wire = [device |-> <<"start">>, host |-> <<>>]
    /\ window = None /\ started_at = None
    /\ faults = [crashes |-> 0, redeliveries |-> 0]
    /\ stopped = FALSE
    /\ books = EmptyBooks

-----------------------------------------------------------------------------
(* ChargerDriver.                                                          *)

(* PublishStart carries whole seconds, so the device stops at or before    *)
(* the lease.                                                              *)
WindowEnd == (ExpiresAt \div 1000) * 1000

Elapsed(from, to) == IF to > from THEN to - from ELSE 0

(* Mutant: a started second counts in full.                                *)
SynthesizeRoundsUp(at) ==
    LET seconds == IF acked_at = None THEN 0 ELSE (Elapsed(acked_at, at) + 999) \div 1000
    IN  [units |-> 0, seconds |-> seconds, cost |-> seconds * PerSecondMillis]

Synthesize(at) ==
    LET seconds == IF acked_at = None THEN 0 ELSE Elapsed(acked_at, at) \div 1000
    IN  [units |-> 0, seconds |-> seconds, cost |-> seconds * PerSecondMillis]

(* Mutant: the order to stop is not published.                             *)
PublishNothing(message) == UNCHANGED wire

Publish(message) == wire' = [wire EXCEPT !.device = Append(@, message)]

(* A message leaves the queue, or the broker delivers it once more.        *)
Consumed ==
    \/ /\ wire' = [wire EXCEPT !.host = Tail(@)]
       /\ UNCHANGED faults
    \/ /\ faults.redeliveries < MaxRedeliveries
       /\ faults' = [faults EXCEPT !.redeliveries = @ + 1]
       /\ UNCHANGED wire

(* Inbound::GrantAck: whatever acked_at was.                               *)
GrantAck ==
    /\ wire.host # <<>> /\ Head(wire.host) = "ack"
    /\ acked_at' = now
    /\ Consumed
    /\ UNCHANGED <<engine, last, last_at, pending_stop, journal, now, window,
                   started_at, stopped, books>>

(* dispatch of a terminal report: settle if the engine is open.            *)
Terminal(cost) ==
    IF IsOpen(engine)
    THEN engine' = Closed(engine) /\ books' = Settled(books, engine, cost)
    ELSE UNCHANGED <<engine, books>>

(* Mutant: a pending stop does not freeze the journal.                     *)
DeviceTerminalThaws ==
    /\ wire.host # <<>> /\ Head(wire.host) \in {"done", "aborted"}
    /\ last' = Synthesize(now) /\ last_at' = now
    /\ Terminal(last'.cost)
    /\ Consumed
    /\ UNCHANGED <<acked_at, pending_stop, journal, now, window, started_at, stopped>>

(* Inbound::Done and Inbound::Aborted: settle now, or at the frozen        *)
(* journal when a stop is pending.                                         *)
DeviceTerminal ==
    /\ wire.host # <<>> /\ Head(wire.host) \in {"done", "aborted"}
    /\ IF pending_stop THEN UNCHANGED <<last, last_at>>
       ELSE last' = Synthesize(now) /\ last_at' = now
    /\ Terminal(last'.cost)
    /\ Consumed
    /\ UNCHANGED <<acked_at, pending_stop, journal, now, window, started_at, stopped>>

(* tick() with a stop pending: the wire stop gets no reply, settle at the  *)
(* journal.                                                                *)
TickSettles ==
    /\ engine.phase # "Done" /\ pending_stop
    /\ pending_stop' = FALSE
    /\ Terminal(last.cost)
    /\ UNCHANGED <<acked_at, last, last_at, journal, now, wire, window, faults,
                   started_at, stopped>>

(* tick() otherwise: feed the synthesized progress to the engine, carry    *)
(* out its StopDelivery, then let the engine look at the lease.            *)
TickProgress ==
    LET progress == Synthesize(now)
        observed == Progressed(engine, progress)
        stops == ProgressStops(engine, progress)
    IN  /\ engine.phase # "Done" /\ ~pending_stop
        /\ last' = progress /\ last_at' = now
        /\ pending_stop' = stops
        /\ stopped' = (stopped \/ stops)
        /\ IF stops THEN Publish("stop") ELSE UNCHANGED wire
        /\ IF Lapsed(observed, now)
           THEN /\ engine' = Closed(observed)
                /\ books' = Settled(books, observed, observed.last.cost)
           ELSE engine' = observed /\ UNCHANGED books
        /\ UNCHANGED <<acked_at, journal, now, window, faults, started_at>>

(* Mutant: no tick before the device has acknowledged.                     *)
TickOnceAcked == TickSettles \/ (acked_at # None /\ TickProgress)

Tick == TickSettles \/ TickProgress

(* revoke(): also before the ack, again, or after the end.                 *)
Revoke ==
    /\ Len(wire.device) < MaxOrders
    /\ pending_stop' = TRUE
    /\ IF IsOpen(engine) THEN stopped' = TRUE /\ Publish("stop")
       ELSE UNCHANGED <<stopped, wire>>
    /\ UNCHANGED <<engine, acked_at, last, last_at, journal, now, window, faults,
                   started_at, books>>

-----------------------------------------------------------------------------
(* The host: persist journal(), and resume an unsettled session from it.   *)
(* What the broker sent in between may be lost.                            *)

Persist ==
    /\ engine.phase # "Done"
    /\ journal' = [last |-> last, at |-> last_at]
    /\ UNCHANGED <<driver, now, wire, window, faults, started_at, stopped, books>>

CrashAndResume ==
    /\ engine.phase # "Done"
    /\ faults.crashes < MaxCrashes
    /\ faults' = [faults EXCEPT !.crashes = @ + 1]
    /\ engine' = Resume(TheGrant, journal.last)
    /\ acked_at' = Elapsed(journal.last.seconds * 1000, journal.at)
    /\ last' = journal.last /\ last_at' = journal.at
    /\ pending_stop' = FALSE
    /\ wire' \in {wire, [wire EXCEPT !.host = <<>>]}
    /\ UNCHANGED <<journal, now, window, started_at, stopped, books>>

ClockAdvances ==
    /\ now + StepMs <= MaxNow
    /\ now' = now + StepMs
    /\ UNCHANGED <<driver, journal, wire, window, faults, started_at, stopped, books>>

-----------------------------------------------------------------------------
(* The device, as MockCharger models it.                                   *)

DeviceStart ==
    /\ wire.device # <<>> /\ Head(wire.device) = "start"
    /\ IF window = None
       THEN /\ window' = WindowEnd /\ started_at' = now
            /\ wire' = [device |-> Tail(wire.device), host |-> Append(wire.host, "ack")]
       ELSE /\ wire' = [wire EXCEPT !.device = Tail(@)]
            /\ UNCHANGED <<window, started_at>>
    /\ UNCHANGED <<driver, journal, now, faults, stopped, books>>

DeviceStop ==
    /\ wire.device # <<>> /\ Head(wire.device) = "stop"
    /\ window' = None
    /\ wire' = [wire EXCEPT !.device = Tail(@)]
    /\ UNCHANGED <<driver, journal, now, faults, started_at, stopped, books>>

(* The countdown ends, or the user presses the button first.               *)
DeviceEnds ==
    /\ window # None
    /\ window' = None
    /\ wire' = [wire EXCEPT !.host =
                  Append(@, IF now >= window THEN "done" ELSE "aborted")]
    /\ UNCHANGED <<driver, journal, now, faults, started_at, stopped, books>>

Next ==
    \/ GrantAck \/ DeviceTerminal \/ Tick \/ Revoke
    \/ Persist \/ CrashAndResume \/ ClockAdvances
    \/ DeviceStart \/ DeviceStop \/ DeviceEnds

Spec == Init /\ [][Next]_vars

(* The host's timer keeps ticking and time passes; nothing is assumed of   *)
(* the device, the broker or the user.                                     *)
FairSpec == Spec /\ WF_vars(Tick) /\ WF_vars(ClockAdvances)

-----------------------------------------------------------------------------
(* The driver keeps the promise of Settlement through crashes, redelivered *)
(* and lost messages: one split of the deposit, within the money cap.      *)
Promise == INSTANCE Settlement WITH
    Offers <- {<<Deposit, Ceiling(TheGrant)>>},
    stage <- IF engine.phase = "Done" THEN "split" ELSE "locked",
    offer <- <<Deposit, Ceiling(TheGrant)>>,
    burned <- books.burned,
    refunded <- books.refunded

SplitsOnce == [][Promise!Next]_(Promise!svars)

(* Whatever is lost, the lease settles the session in the end.             *)
SettlesInTheEnd == Promise!EverySplit

(* Once the deposit is split the device does not go on delivering inside   *)
(* its window, unless the order to stop it is on its way.                  *)
NoDeliveryAfterSettlement ==
    engine.phase = "Done" /\ window # None /\ now < window
        => \E i \in 1..Len(wire.device) : wire.device[i] = "stop"

(* Until the first crash, the buyer pays for no more than the time from    *)
(* the device's start to the settlement, whatever is redelivered.          *)
PaidTimeWasServed ==
    faults.crashes = 0 =>
        books.burned * 1000 <= PerSecondMillis *
            (IF started_at = None THEN 0 ELSE now - started_at)

(* driver.rs: after a stop the driver settles "at the journal", which      *)
(* tick() calls "frozen": until a crash makes it forget the stop, nothing  *)
(* that arrives, and no tick, accrues any more.                            *)
FrozenAfterStop ==
    [][stopped /\ engine.phase # "Done" /\ faults'.crashes = 0
         => last'.cost = last.cost]_vars

=============================================================================
