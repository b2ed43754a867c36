---------------------------- MODULE DeliveryCore ----------------------------
(***************************************************************************)
(* The pure half of tollgate-core's delivery.rs: the budget guard and the  *)
(* single-delivery engine, as functions of the engine's record.  The       *)
(* guard exists exactly when the phase is not Idle, so the engine's record *)
(* holds the guard's two fields directly.                                  *)
(*                                                                         *)
(* Abstracted away: nonces (one engine serves one grant), receipts and the *)
(* TerminalKind, which no transition reads, and Progress.at.               *)
(***************************************************************************)
EXTENDS Integers

Unbounded == -1

Smaller(a, b) == IF a < b THEN a ELSE b

(* Grant and its Caps; Caps::bounded.                                      *)
Grant == [deposit : Nat, max_units : Nat \cup {Unbounded},
          max_seconds : Nat \cup {Unbounded}, max_cost : Nat \cup {Unbounded},
          expires_at : Nat]

Bounded(grant) ==
    \E cap \in {grant.max_units, grant.max_seconds, grant.max_cost} : cap # Unbounded

Progress == [units : Nat, seconds : Nat, cost : Nat]

ZeroProgress == [units |-> 0, seconds |-> 0, cost |-> 0]

-----------------------------------------------------------------------------
(* BudgetGuard.                                                            *)

(* apply() accepts a reading that no total of the journal exceeds.         *)
Monotonic(progress, last) ==
    /\ progress.units >= last.units
    /\ progress.seconds >= last.seconds
    /\ progress.cost >= last.cost

Reached(total, cap) == cap # Unbounded /\ total >= cap

CapReached(grant, last) ==
    \/ Reached(last.units, grant.max_units)
    \/ Reached(last.seconds, grant.max_seconds)
    \/ Reached(last.cost, grant.max_cost)

-----------------------------------------------------------------------------
(* DeliveryEngine.                                                         *)

DeliveryPhases == {"Idle", "Granted", "Delivering", "Done"}

Engine == [phase : DeliveryPhases, grant : Grant, last : Progress]

NoGrant == [deposit |-> 0, max_units |-> Unbounded, max_seconds |-> Unbounded,
            max_cost |-> Unbounded, expires_at |-> 0]

NewEngine == [phase |-> "Idle", grant |-> NoGrant, last |-> ZeroProgress]

Resume(grant, last) ==
    [phase |-> IF CapReached(grant, last) THEN "Granted" ELSE "Delivering",
     grant |-> grant, last |-> last]

IsOpen(e) == e.phase \in {"Granted", "Delivering"}

(* GrantIssued: a second grant is ignored.                                 *)
Granted(e, grant) ==
    IF e.phase = "Idle"
    THEN [phase |-> "Granted", grant |-> grant, last |-> ZeroProgress] ELSE e

(* ProgressObserved: a reading that goes backwards only raises an alarm.   *)
(* Mutant: a reading that goes backwards is journalled.                    *)
AcceptsBackwards(e, progress) == e.phase # "Idle"

Accepts(e, progress) == e.phase # "Idle" /\ Monotonic(progress, e.last)

Progressed(e, progress) ==
    IF Accepts(e, progress)
    THEN [e EXCEPT !.phase = "Delivering", !.last = progress] ELSE e

(* Mutant: the caps are tested before the reading is applied.              *)
ProgressStopsLate(e, progress) ==
    Accepts(e, progress) /\ CapReached(e.grant, e.last)

ProgressStops(e, progress) ==
    Accepts(e, progress) /\ CapReached(e.grant, progress)

(* Mutant: the lease binds only a grant without progress.                  *)
LapsedUnlessDelivering(e, now) == e.phase = "Granted" /\ now >= e.grant.expires_at

(* Tick: the lease has run out on an open grant.                           *)
Lapsed(e, now) == IsOpen(e) /\ now >= e.grant.expires_at

(* settle_from_totals: burn the attested cost, clamped to the deposit and  *)
(* to the money cap; the rest of the deposit is the refund.                *)
Ceiling(grant) ==
    IF grant.max_cost = Unbounded THEN grant.deposit
    ELSE Smaller(grant.deposit, grant.max_cost)

SettleAmount(e, cost) == Smaller(cost, Ceiling(e.grant))

Closed(e) == [e EXCEPT !.phase = "Done"]

(* The host's books: what SettleDelivery burned and RefundChange returned. *)
Books == [burned : Nat, refunded : Nat]

EmptyBooks == [burned |-> 0, refunded |-> 0]

Settled(books, e, cost) ==
    [burned |-> books.burned + SettleAmount(e, cost),
     refunded |-> books.refunded + (e.grant.deposit - SettleAmount(e, cost))]

=============================================================================
