------------------------------ MODULE Delivery ------------------------------
(***************************************************************************)
(* tollgate-core's DeliveryEngine under every order of the events a host   *)
(* may feed it: grants, cumulative readings that may go backwards,         *)
(* terminal reports, revocations and timer ticks.                          *)
(***************************************************************************)
EXTENDS DeliveryCore

CONSTANTS
    Grants,         \* grants the trust-holder may issue
    Readings,       \* progress the meter may report
    LateProgress,   \* whether the host feeds readings to an engine that is Done
    MaxNow          \* bound: the largest clock reading

ASSUME GrantsAssumption == Grants \subseteq {g \in Grant : Bounded(g)}
ASSUME ReadingsAssumption == Readings \subseteq Progress
ASSUME HostAssumption == LateProgress \in BOOLEAN /\ MaxNow \in Nat

VARIABLES
    engine,         \* the DeliveryEngine
    now,            \* the host's monotonic clock
    stopped,        \* history: StopDelivery was emitted
    books           \* history: settlements and refunds emitted

vars == <<engine, now, stopped, books>>

TypeOK ==
    /\ engine \in Engine
    /\ now \in Nat
    /\ stopped \in BOOLEAN
    /\ books \in Books

Init ==
    /\ engine = NewEngine
    /\ now = 0
    /\ stopped = FALSE
    /\ books = EmptyBooks

-----------------------------------------------------------------------------
GrantIssued(grant) ==
    /\ engine' = Granted(engine, grant)
    /\ UNCHANGED <<now, stopped, books>>

ProgressObserved(progress) ==
    /\ engine.phase = "Done" => LateProgress
    /\ engine' = Progressed(engine, progress)
    /\ stopped' = (stopped \/ ProgressStops(engine, progress))
    /\ UNCHANGED <<now, books>>

(* settle_from_totals closes the engine and emits both halves.             *)
Settle(cost) ==
    /\ engine' = Closed(engine)
    /\ books' = Settled(books, engine, cost)
    /\ UNCHANGED <<now, stopped>>

(* Mutant: a second terminal report settles again.                         *)
TerminalObservedAgain(cost) == engine.phase # "Idle" /\ Settle(cost)

(* Before a grant a terminal report is an alarm, after the end it is       *)
(* ignored.                                                                *)
TerminalObserved(cost) == IsOpen(engine) /\ Settle(cost)

RevokeRequested ==
    /\ IsOpen(engine)
    /\ stopped' = TRUE
    /\ UNCHANGED <<engine, now, books>>

Tick == Lapsed(engine, now) /\ Settle(engine.last.cost)

ClockAdvances ==
    /\ now < MaxNow
    /\ now' = now + 1
    /\ UNCHANGED <<engine, stopped, books>>

Next ==
    \/ \E grant \in Grants : GrantIssued(grant)
    \/ \E progress \in Readings : ProgressObserved(progress)
    \/ \E progress \in Readings : TerminalObserved(progress.cost)
    \/ RevokeRequested
    \/ Tick
    \/ ClockAdvances

Spec == Init /\ [][Next]_vars

(* The host's timer keeps ticking and time keeps passing.                  *)
FairSpec == Spec /\ WF_vars(Tick) /\ WF_vars(ClockAdvances)

-----------------------------------------------------------------------------
(* The engine implements Settlement: a deposit is split exactly once,      *)
(* never above the money cap, and (the lease) always in the end.           *)
Offer == <<engine.grant.deposit, Ceiling(engine.grant)>>

Promise == INSTANCE Settlement WITH
    Offers <- {<<g.deposit, Ceiling(g)>> : g \in Grants},
    stage <- IF engine.phase = "Idle" THEN "none"
             ELSE IF engine.phase = "Done" THEN "split" ELSE "locked",
    offer <- Offer,
    burned <- books.burned,
    refunded <- books.refunded

(* Every deposit is split exactly once between seller and buyer.           *)
SplitsOnce == Promise!Spec

(* The lease ends every grant, even when no terminal report ever comes.    *)
LeaseEndsGrant == Promise!EverySplit

(* The journal the lease settles at never goes backwards and is never      *)
(* replaced by that of another grant, whatever the meter reports.          *)
JournalStands ==
    [][engine.phase # "Idle"
         => /\ engine'.grant = engine.grant
            /\ Monotonic(engine'.last, engine.last)]_vars

(* A reading at or over a cap is never journalled without telling the      *)
(* delivery agent to stop (a cap of zero is reached before any reading).   *)
CapsAreEnforced ==
    engine.phase # "Idle" /\ CapReached(engine.grant, engine.last)
        => stopped \/ CapReached(engine.grant, ZeroProgress)

=============================================================================
