------------------------------ MODULE MCCharger -----------------------------
(***************************************************************************)
(* The two hosts of tollgate-charger-host, which share the engine's code   *)
(* and no state: a behaviour is one of the ChargerDriver's or one of the   *)
(* ExternalDriver's, as part says.                                         *)
(***************************************************************************)
EXTENDS Charger

CONSTANTS
    Rate, LeaseMs,          \* the external provider's price, and the lease
    ExtStepMs, ExtMaxNow,   \* the external host's clock: its step, its bound
    ExtMaxCrashes           \* bound: crashes of the external host

ASSUME ExternalAssumption ==
    {Rate, LeaseMs, ExtStepMs, ExtMaxNow, ExtMaxCrashes} \subseteq Nat

VARIABLES
    part,
    ext_engine, ext_session, ext_last, ext_journal, ext_now, provider,
    ext_crashes, ext_books

E == INSTANCE External WITH
    StepMs <- ExtStepMs, MaxNow <- ExtMaxNow, MaxCrashes <- ExtMaxCrashes,
    engine <- ext_engine, session <- ext_session, last <- ext_last,
    journal <- ext_journal, now <- ext_now, crashes <- ext_crashes,
    books <- ext_books

externalVars == <<ext_engine, ext_session, ext_last, ext_journal, ext_now,
                  provider, ext_crashes, ext_books>>

MCInit == Init /\ E!Init /\ part \in {"charger", "external"}

MCNext ==
    \/ part = "charger" /\ Next /\ UNCHANGED <<externalVars, part>>
    \/ part = "external" /\ E!Next /\ UNCHANGED <<vars, part>>

MCSpec ==
    /\ MCInit /\ [][MCNext]_<<vars, externalVars, part>>
    /\ WF_vars(part = "charger" /\ Tick) /\ WF_vars(part = "charger" /\ ClockAdvances)
    /\ WF_externalVars(part = "external" /\ E!Tick)
    /\ WF_externalVars(part = "external" /\ E!ClockAdvances)

(* Both drivers keep Settlement's promise: the deposit is locked once and  *)
(* split once, whatever crashes, is lost or is delivered twice.            *)
BothSplitOnce == SplitsOnce /\ E!SplitsOnce

(* Both settle in the end, although nobody calls stop: the lease does.     *)
BothSettle == (part = "charger" => SettlesInTheEnd) /\ E!SettlesInTheEnd

(* The external driver's buyer pays what the provider's meter says.        *)
PaysTheMeter == E!PaysTheMeter
=============================================================================
