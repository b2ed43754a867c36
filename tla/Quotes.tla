------------------------------- MODULE Quotes -------------------------------
(***************************************************************************)
(* v1_compat/ln_quotes.rs: one Lightning quote, the monitor that polls the *)
(* mint for it, and the janitor that removes stale records from the store. *)
(* Every await is a step boundary: the monitor works on the copy of the    *)
(* record it read before the await and writes that copy back, whatever     *)
(* happened to the stored record in between.                               *)
(*                                                                         *)
(* The QuoteProcessor (wallet, sessions, valve) has no implementation in   *)
(* the repository: its calls fail at will, a failed mint_tokens may have   *)
(* issued the tokens, a failed grant_access grants nothing.  cached_state  *)
(* is never read back and is left out.                                     *)
(***************************************************************************)
EXTENDS Integers

CONSTANTS
    Lifetime,   \* max_lifetime of the monitor
    MaxAge,     \* max_age_secs of the janitor
    Retention,  \* how long a granted quote is kept
    Grace,      \* how long a quote outlives its invoice
    Expiries,   \* expiry times an invoice may have; 0 for none
    MaxPass,    \* bound: the last pass of the monitor ends by Lifetime + MaxPass
    MaxClock    \* bound: the largest clock reading

ASSUME QuotesAssumption ==
    /\ {Lifetime, MaxAge, Retention, Grace, MaxPass} \subseteq Nat
    /\ Expiries \subseteq Nat
    /\ MaxClock \in Nat /\ MaxClock > Lifetime + MaxPass + Retention

None == -1

VARIABLES
    store,      \* the quote's LightningQuoteRecord, if there is one: a set
    mint,       \* the mint's QuoteState of the quote: Unpaid, Paid or Issued
    clock,      \* time since the quote was created
    monitor,    \* [pc, record, now]: the task and its locals
    listed,     \* the janitor has the quote in its list of stale ones
    grants      \* history: how often access was granted

vars == <<store, mint, clock, monitor, listed, grants>>

(* LightningQuoteRecord, as the monitor and the janitor read it.           *)
NewRecord(expiry) == [expiry |-> expiry, processing |-> FALSE,
                      session_granted |-> FALSE, completed_at |-> None]

Init ==
    /\ \E expiry \in Expiries :
         /\ store = {NewRecord(expiry)}
         /\ monitor = [pc |-> "sleep", record |-> NewRecord(expiry), now |-> 0]
    /\ mint = "Unpaid"
    /\ clock = 0
    /\ listed = FALSE
    /\ grants = 0

-----------------------------------------------------------------------------
(* spawn_quote_monitor.                                                    *)

At(pc) == monitor.pc = pc

(* The monitor gives up: its time is over, the quote is gone or granted.   *)
Exits == clock >= Lifetime \/ \A r \in store : r.session_granted

Wakes ==
    /\ At("sleep")
    /\ \/ Exits /\ monitor' = [monitor EXCEPT !.pc = "exited"]
       \/ /\ ~Exits
          /\ \E r \in store :
                ~r.processing /\ monitor' = [monitor EXCEPT !.pc = "check", !.record = r]
    /\ UNCHANGED <<store, mint, clock, listed, grants>>

(* The copy is written back: an upsert.                                    *)
GoesOn(pc, record) ==
    /\ monitor' = [pc |-> pc, record |-> record, now |-> clock]
    /\ store' = {record}

StatusFails ==
    /\ At("check")
    /\ monitor' = [monitor EXCEPT !.pc = "sleep"]
    /\ UNCHANGED <<store, mint, clock, listed, grants>>

InFlight(record) == [record EXCEPT !.processing = TRUE]

ChecksStatus ==
    /\ At("check")
    /\ CASE mint = "Unpaid" -> GoesOn("sleep", monitor.record)
         [] mint = "Paid"   -> GoesOn("mint", InFlight(monitor.record))
         [] mint = "Issued" -> GoesOn("grant", InFlight(monitor.record))
    /\ UNCHANGED <<mint, clock, listed, grants>>

(* Mutant: a failed call leaves the quote in flight.                       *)
RetriesInFlight ==
    /\ monitor' = [monitor EXCEPT !.pc = "sleep"]
    /\ store' = {monitor.record}

(* Back to polling, no longer in flight.                                   *)
Retries ==
    LET record == [monitor.record EXCEPT !.processing = FALSE]
    IN  /\ monitor' = [monitor EXCEPT !.pc = "sleep", !.record = record]
        /\ store' = {record}

MintsTokens ==
    /\ At("mint")
    /\ mint' = "Issued"
    /\ monitor' = [monitor EXCEPT !.pc = "grant"]
    /\ UNCHANGED <<store, clock, listed, grants>>

MintFails ==
    /\ At("mint")
    /\ mint' \in {mint, "Issued"}
    /\ Retries
    /\ UNCHANGED <<clock, listed, grants>>

(* Mutant: the record is not marked as granted, and polling goes on.       *)
GrantsUnmarked ==
    /\ At("grant")
    /\ grants' = grants + 1
    /\ Retries
    /\ UNCHANGED <<mint, clock, listed>>

GrantsAccess ==
    LET record == [monitor.record EXCEPT !.session_granted = TRUE,
                                         !.completed_at = monitor.now]
    IN  /\ At("grant")
        /\ grants' = grants + 1
        /\ monitor' = [monitor EXCEPT !.pc = "exited", !.record = record]
        /\ store' = {record}
        /\ UNCHANGED <<mint, clock, listed>>

GrantFails ==
    /\ At("grant")
    /\ Retries
    /\ UNCHANGED <<mint, clock, listed, grants>>

Monitor ==
    \/ Wakes \/ StatusFails \/ ChecksStatus
    \/ MintsTokens \/ MintFails \/ GrantsAccess \/ GrantFails

-----------------------------------------------------------------------------
(* spawn_quote_janitor and list_stale.                                     *)

(* Mutant: only age counts.                                                *)
StaleByAge(r) == ~r.processing /\ ~r.session_granted /\ clock > MaxAge

Stale(r) ==
    \/ ~r.processing /\ ~r.session_granted /\ clock > MaxAge
    \/ r.session_granted /\ r.completed_at # None /\ clock - r.completed_at > Retention
    \/ r.expiry > 0 /\ clock > r.expiry + Grace

JanitorLists ==
    /\ ~listed /\ \E r \in store : Stale(r)
    /\ listed' = TRUE
    /\ UNCHANGED <<store, mint, clock, monitor, grants>>

(* What was listed is removed, whatever has become of it since.            *)
JanitorRemoves ==
    /\ listed
    /\ listed' = FALSE
    /\ store' = {}
    /\ UNCHANGED <<mint, clock, monitor, grants>>

Janitor == JanitorLists \/ JanitorRemoves

-----------------------------------------------------------------------------
(* The customer pays an invoice that has not expired; time passes.         *)
InvoicePaid ==
    /\ mint = "Unpaid"
    /\ monitor.record.expiry > 0 => clock <= monitor.record.expiry
    /\ mint' = "Paid"
    /\ UNCHANGED <<store, clock, monitor, listed, grants>>

ClockAdvances ==
    /\ clock < MaxClock
    /\ At("sleep") \/ At("exited") \/ clock < Lifetime + MaxPass
    /\ clock' = clock + 1
    /\ UNCHANGED <<store, mint, monitor, listed, grants>>

Next == Monitor \/ Janitor \/ InvoicePaid \/ ClockAdvances

Spec == Init /\ [][Next]_vars

(* The tasks keep running.  The processor's calls do not fail for ever: a  *)
(* call that is made again and again succeeds.  Nobody is obliged to pay,  *)
(* and nothing says how slow the tasks are compared with the clock.        *)
FairSpec ==
    /\ Spec
    /\ WF_vars(Monitor) /\ WF_vars(Janitor)
    /\ SF_vars(ChecksStatus) /\ SF_vars(MintsTokens) /\ SF_vars(GrantsAccess)

-----------------------------------------------------------------------------
(* One payment opens the valve once, and only when the mint has issued the *)
(* tokens: neither failed calls and their retries nor the janitor's        *)
(* removals lead to a grant without a payment or to a second one.          *)
GrantedOnce == grants <= (IF mint = "Issued" THEN 1 ELSE 0)

(* The monitor no longer polls from here on.                               *)
Deadline ==
    \/ clock >= Lifetime
    \/ monitor.record.expiry > 0 /\ clock > monitor.record.expiry + Grace

(* A payment is honoured whatever failures come in between, unless the     *)
(* monitor's lifetime or the quote's grace period runs out first.          *)
PaidIsGranted == mint # "Unpaid" ~> grants > 0 \/ Deadline

(* As time passes every quote leaves the store for good, although the      *)
(* monitor may write a record back that the janitor has removed.           *)
QuoteIsForgotten == <>(clock = MaxClock) => <>[](store = {})

=============================================================================
