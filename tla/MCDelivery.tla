---------------------------- MODULE MCDelivery -----------------------------
(* Instances of module Delivery for TLC: one grant per kind of cap, a zero *)
(* lease included, and readings below, at and above every cap.             *)
EXTENDS Delivery

G(deposit, units, seconds, cost, expires) ==
    [deposit |-> deposit, max_units |-> units, max_seconds |-> seconds,
     max_cost |-> cost, expires_at |-> expires]

SomeGrants == {G(3, 2, Unbounded, Unbounded, 2), G(3, Unbounded, 1, 2, 2),
               G(2, Unbounded, Unbounded, 4, 1), G(0, Unbounded, 2, 0, 0)}

SomeReadings == [units : 0..2, seconds : 0..2, cost : {0, 2, 4}]
=============================================================================
