------------------------------ MODULE External ------------------------------
(***************************************************************************)
(* tollgate-charger-host's ExternalDriver: a delivery whose meter belongs  *)
(* to a third party that can only be called - quoted, started, polled and  *)
(* stopped.  The provider is external: it accrues while its session runs,  *)
(* and its stop receipt repeats its meter.                                 *)
(***************************************************************************)
EXTENDS DeliveryCore

CONSTANTS
    Rate,           \* the provider's price of one second
    MaxSeconds,     \* the window asked for, so the deposit is its quote
    LeaseMs,        \* the lease
    StepMs,         \* the clock advances in steps of StepMs milliseconds
    MaxNow,         \* bound: the largest clock reading
    MaxCrashes      \* bound: crashes of the host

Quote == Rate * MaxSeconds

VARIABLES
    engine,         \* ExternalDriver.engine
    session,        \* ExternalDriver.session is set
    last,           \* ExternalDriver.last
    journal,        \* the journal the host persisted
    now,            \* the host's monotonic clock
    provider,       \* the provider's session: [running, seconds]
    crashes,        \* crashes so far
    books           \* history: Settle and Refund actions executed

vars == <<engine, session, last, journal, now, provider, crashes, books>>

Init ==
    /\ engine = NewEngine
    /\ session = FALSE
    /\ last = ZeroProgress /\ journal = ZeroProgress
    /\ now = 0
    /\ provider = [running |-> FALSE, seconds |-> 0]
    /\ crashes = 0
    /\ books = EmptyBooks

(* The provider's meter as poll() reports it and stop() attests it.        *)
Meter == [units |-> 0, seconds |-> provider.seconds, cost |-> provider.seconds * Rate]

-----------------------------------------------------------------------------
(* open(): quote the window, start the provider, lock the quoted deposit.  *)
(* (A refused start leaves nothing behind.)                                *)
Open ==
    /\ engine.phase = "Idle"
    /\ now + LeaseMs <= MaxNow
    /\ engine' = Granted(engine,
                   [deposit |-> Quote, max_units |-> Unbounded,
                    max_seconds |-> MaxSeconds, max_cost |-> Unbounded,
                    expires_at |-> now + LeaseMs])
    /\ session' = TRUE
    /\ provider' = [provider EXCEPT !.running = TRUE]
    /\ UNCHANGED <<last, journal, now, crashes, books>>

(* tick(): poll, feed the engine, let it look at the lease.  translate()   *)
(* drops the engine's StopDelivery.                                        *)
Tick ==
    LET progress == IF session THEN Meter ELSE last
        observed == Progressed(engine, progress)
    IN  /\ IsOpen(engine)
        /\ last' = progress
        /\ IF Lapsed(observed, now)
           THEN /\ engine' = Closed(observed)
                /\ books' = Settled(books, observed, observed.last.cost)
           ELSE engine' = observed /\ UNCHANGED books
        /\ UNCHANGED <<session, journal, now, provider, crashes>>

(* Mutant: settle from the last poll.                                      *)
AttestedAtLastPoll == last.cost

(* The cost stop() settles: the receipt of the provider session, if any.   *)
Attested == IF session THEN Meter.cost ELSE last.cost

StopProvider ==
    /\ provider' = [provider EXCEPT !.running = @ /\ ~session]
    /\ session' = FALSE
    /\ engine' = Closed(engine)
    /\ books' = Settled(books, engine, Attested)
    /\ UNCHANGED <<last, journal, now, crashes>>

(* Mutant: stop() of a settled session settles again.                      *)
StopAgain == engine.phase # "Idle" /\ StopProvider

(* stop(): stop the provider and settle from its receipt, once.            *)
Stop == IsOpen(engine) /\ StopProvider

-----------------------------------------------------------------------------
(* The host and its environment.                                           *)

Persist ==
    /\ IsOpen(engine)
    /\ journal' = last
    /\ UNCHANGED <<engine, session, last, now, provider, crashes, books>>

CrashAndResume ==
    /\ IsOpen(engine)
    /\ crashes < MaxCrashes
    /\ crashes' = crashes + 1
    /\ engine' = Resume(engine.grant, journal)
    /\ session' = TRUE
    /\ last' = journal
    /\ UNCHANGED <<journal, now, provider, books>>

ClockAdvances ==
    /\ now + StepMs <= MaxNow
    /\ now' = now + StepMs
    /\ provider' = [provider EXCEPT !.seconds = @ + (IF provider.running THEN 1 ELSE 0)]
    /\ UNCHANGED <<engine, session, last, journal, crashes, books>>

Next == Open \/ Tick \/ Stop \/ Persist \/ CrashAndResume \/ ClockAdvances

Spec == Init /\ [][Next]_vars

(* The host polls and time passes; nobody is obliged to call stop().       *)
FairSpec == Spec /\ WF_vars(Tick) /\ WF_vars(ClockAdvances)

-----------------------------------------------------------------------------
(* The driver keeps the promise of Settlement across crashes.              *)
Promise == INSTANCE Settlement WITH
    Offers <- {<<Quote, Quote>>},
    stage <- IF engine.phase = "Idle" THEN "none"
             ELSE IF engine.phase = "Done" THEN "split" ELSE "locked",
    offer <- <<engine.grant.deposit, Ceiling(engine.grant)>>,
    burned <- books.burned,
    refunded <- books.refunded

(* The quoted deposit is split exactly once between provider and buyer.    *)
SplitsOnce == Promise!Spec

(* The lease settles the session although nobody calls stop().             *)
SettlesInTheEnd == Promise!EverySplit

(* The buyer never pays more than the provider metered so far, whatever is *)
(* lost in a crash, and pays all of it (up to the quote) when the session  *)
(* was settled by a stop.                                                  *)
PaysTheMeter ==
    engine.phase = "Done" =>
        /\ books.burned <= Meter.cost
        /\ ~session => books.burned = Smaller(Meter.cost, Quote)

=============================================================================
