----------------------------- MODULE Settlement -----------------------------
(***************************************************************************)
(* What a budgeted delivery promises the owner of the deposit, whatever    *)
(* the meter, the wire and the host do: the deposit is locked once, and    *)
(* split once - never more burned than the ceiling, the rest returned.     *)
(***************************************************************************)
EXTENDS Integers

CONSTANT Offers     \* pairs <<deposit, ceiling>> that may be locked

VARIABLES
    stage,          \* "none", "locked" or "split"
    offer,          \* the pair locked
    burned,         \* settled to the seller
    refunded        \* returned to the buyer

svars == <<stage, offer, burned, refunded>>

Init ==
    /\ stage = "none"
    /\ offer = <<0, 0>>
    /\ burned = 0
    /\ refunded = 0

Lock ==
    /\ stage = "none"
    /\ stage' = "locked"
    /\ offer' \in Offers
    /\ UNCHANGED <<burned, refunded>>

Split ==
    /\ stage = "locked"
    /\ stage' = "split"
    /\ burned' \in 0..offer[2]
    /\ refunded' = offer[1] - burned'
    /\ UNCHANGED offer

Next == Lock \/ Split

Spec == Init /\ [][Next]_svars

(* A locked deposit does not stay locked.                                  *)
EverySplit == stage = "locked" ~> stage = "split"

=============================================================================
