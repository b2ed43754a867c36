----------------------------- MODULE MintHealth -----------------------------
(***************************************************************************)
(* v1_compat/mint_health.rs and the advertisement built from it            *)
(* (merchant.rs): the initial probe and the periodic checks are two tasks  *)
(* that mark the same mints.  A mark takes the locks of the two maps one   *)
(* after the other, so the marks of the tasks may interleave.              *)
(***************************************************************************)
EXTENDS Integers, Sequences

CONSTANTS
    AcceptedMints,      \* the accepted mints, in configured order
    RecoveryThreshold,  \* recovery_threshold
    MaxUpDowns,         \* bound: changes of the mints
    MaxTimeouts         \* bound: probes of a healthy mint that fail

ASSUME MintHealthAssumption ==
    /\ \A i \in DOMAIN AcceptedMints :
         AcceptedMints[i] \in [url : STRING, unit : STRING, price_per_step : Nat, min_steps : Nat]
    /\ RecoveryThreshold \in Nat \ {0}
    /\ {MaxUpDowns, MaxTimeouts} \subseteq Nat

VARIABLES
    reachable,              \* the map of the same name
    consecutive_successes,  \* likewise
    prober,                 \* the tasks: [pc, todo, url]
    upMints,                \* the mints that answer
    luck,                   \* [changes, timeouts]: what may still go wrong
    streak,                 \* history: successful probes since the last failed one
    raced                   \* history: mints that both tasks marked at once

healthVars == <<reachable, consecutive_successes, prober, upMints, luck, streak, raced>>

Urls == {AcceptedMints[i].url : i \in DOMAIN AcceptedMints}
Probers == {"initial", "periodic"}

HealthInit ==
    /\ reachable = [u \in Urls |-> TRUE]
    /\ consecutive_successes = [u \in Urls |-> 0]
    /\ prober = [t \in Probers |-> [pc |-> IF t = "initial" THEN "probe" ELSE "sleep",
                                    todo |-> IF t = "initial" THEN Urls ELSE {},
                                    url |-> ""]]
    /\ upMints \in SUBSET Urls
    /\ luck = [changes |-> MaxUpDowns, timeouts |-> MaxTimeouts]
    /\ streak = [u \in Urls |-> 0]
    /\ raced = {}

ProbeAt(t, pc) == prober[t].pc = pc

(* Mutant: only the mints that are out of reach are probed.                *)
StartPassOfLost ==
    /\ ProbeAt("periodic", "sleep")
    /\ prober' = [prober EXCEPT !["periodic"].pc = "probe",
                                !["periodic"].todo = {u \in Urls : ~reachable[u]}]
    /\ UNCHANGED <<reachable, consecutive_successes, upMints, luck, streak, raced>>

(* The periodic task wakes up, the initial one still running or not.       *)
StartPass ==
    /\ ProbeAt("periodic", "sleep")
    /\ prober' = [prober EXCEPT !["periodic"].pc = "probe", !["periodic"].todo = Urls]
    /\ UNCHANGED <<reachable, consecutive_successes, upMints, luck, streak, raced>>

EndPass(t) ==
    /\ ProbeAt(t, "probe") /\ prober[t].todo = {}
    /\ prober' = [prober EXCEPT ![t].pc = IF t = "initial" THEN "ended" ELSE "sleep"]
    /\ UNCHANGED <<reachable, consecutive_successes, upMints, luck, streak, raced>>

Marking(t, u) ==
    prober[t].url = u /\ prober[t].pc \in {"reach", "count", "recover", "unreach", "reset"}

(* probe_mint has answered for one of the mints the pass has left.         *)
Probed(t) ==
    /\ ProbeAt(t, "probe")
    /\ \E u \in prober[t].todo, ok \in BOOLEAN :
         /\ ok => u \in upMints
         /\ luck' = IF ok \/ u \notin upMints THEN luck ELSE [luck EXCEPT !.timeouts = @ - 1]
         /\ luck'.timeouts >= 0
         /\ prober' = [prober EXCEPT ![t] = [pc |-> IF ok THEN "reach" ELSE "unreach",
                                             todo |-> @.todo \ {u}, url |-> u]]
         /\ streak' = [streak EXCEPT ![u] =
                         IF ~ok THEN 0 ELSE IF @ < RecoveryThreshold THEN @ + 1 ELSE @]
         /\ raced' = IF \E o \in Probers \ {t} : Marking(o, u) THEN raced \cup {u} ELSE raced
    /\ UNCHANGED <<reachable, consecutive_successes, upMints>>

Step(t, pc) == prober' = [prober EXCEPT ![t].pc = pc]

(* mark_reachable: the map is read, ...                                    *)
SeesReachable(t) ==
    /\ ProbeAt(t, "reach")
    /\ Step(t, IF reachable[prober[t].url] THEN "probe" ELSE "count")
    /\ UNCHANGED <<reachable, consecutive_successes, upMints, luck, streak, raced>>

(* ... the success is counted, ...                                         *)
CountsSuccess(t) ==
    LET u == prober[t].url
    IN  /\ ProbeAt(t, "count")
        /\ consecutive_successes' = [consecutive_successes EXCEPT ![u] = @ + 1]
        /\ Step(t, IF consecutive_successes[u] + 1 >= RecoveryThreshold THEN "recover"
                   ELSE "probe")
        /\ UNCHANGED <<reachable, upMints, luck, streak, raced>>

(* ... and the mint recovers.                                              *)
Recovers(t) ==
    /\ ProbeAt(t, "recover")
    /\ reachable' = [reachable EXCEPT ![prober[t].url] = TRUE]
    /\ Step(t, "reset")
    /\ UNCHANGED <<consecutive_successes, upMints, luck, streak, raced>>

(* Mutant: a failed probe leaves the count of successes.                   *)
MarkUnreachableKeepsCount(t) ==
    /\ ProbeAt(t, "unreach")
    /\ reachable' = [reachable EXCEPT ![prober[t].url] = FALSE]
    /\ Step(t, "probe")
    /\ UNCHANGED <<consecutive_successes, upMints, luck, streak, raced>>

MarkUnreachable(t) ==
    /\ ProbeAt(t, "unreach")
    /\ reachable' = [reachable EXCEPT ![prober[t].url] = FALSE]
    /\ Step(t, "reset")
    /\ UNCHANGED <<consecutive_successes, upMints, luck, streak, raced>>

(* The last step of both marks.                                            *)
ResetsCount(t) ==
    /\ ProbeAt(t, "reset")
    /\ consecutive_successes' = [consecutive_successes EXCEPT ![prober[t].url] = 0]
    /\ Step(t, "probe")
    /\ UNCHANGED <<reachable, upMints, luck, streak, raced>>

Prober(t) ==
    \/ EndPass(t) \/ Probed(t) \/ SeesReachable(t) \/ CountsSuccess(t) \/ Recovers(t)
    \/ MarkUnreachable(t) \/ ResetsCount(t)

MintUpDown ==
    /\ luck.changes > 0
    /\ luck' = [luck EXCEPT !.changes = @ - 1]
    /\ \E u \in Urls : upMints' = IF u \in upMints THEN upMints \ {u} ELSE upMints \cup {u}
    /\ UNCHANGED <<reachable, consecutive_successes, prober, streak, raced>>

HealthNext == StartPass \/ (\E t \in Probers : Prober(t)) \/ MintUpDown

(* The tasks run: a pass ends, and another one starts.                     *)
HealthSpec ==
    /\ HealthInit /\ [][HealthNext]_healthVars
    /\ WF_healthVars(StartPass) /\ \A t \in Probers : WF_healthVars(Prober(t))

-----------------------------------------------------------------------------
(* build_advertisement: the accepted mints that are reachable, with their  *)
(* prices, or the degraded form without any.                               *)
Advertisement ==
    LET offered == SelectSeq(AcceptedMints, LAMBDA m : reachable[m.url])
    IN  [degraded |-> offered = <<>>, price_per_step |-> offered]

(* A mint that was taken out of the advertisement comes back only after    *)
(* RecoveryThreshold successful probes in a row, whichever task made them, *)
(* unless the tasks once marked this mint at the same time.                *)
RecoveryIsEarned ==
    [][\A u \in Urls :
         ~reachable[u] /\ reachable'[u] /\ u \notin raced => streak[u] >= RecoveryThreshold]_healthVars

(* Once the mints stop changing, the advertisement settles on exactly the  *)
(* accepted mints that answer, and is degraded only if none does, also     *)
(* after marks that crossed.                                               *)
AdvertisementSettles ==
    <>[](/\ Advertisement.price_per_step = SelectSeq(AcceptedMints, LAMBDA m : m.url \in upMints)
         /\ Advertisement.degraded <=> upMints = {})

=============================================================================
