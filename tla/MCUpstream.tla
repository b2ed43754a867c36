----------------------------- MODULE MCUpstream -----------------------------
(* Instances of module Upstream for TLC.                                   *)
EXTENDS Upstream

CONSTANTS g1, g2

TwoGateways == {g1, g2}
BothInTurn == <<g1, g2>>

Routers(first, second) == [g \in TwoGateways |-> IF g = g1 THEN first ELSE second]

GoRouter == [plain |-> TRUE, offers |-> {1}]
JsonRouter == [GoRouter EXCEPT !.plain = FALSE]
Expensive == [GoRouter EXCEPT !.offers = {2}]
Foreign == [GoRouter EXCEPT !.offers = {}]

Faults(invoices, outages, mishaps) ==
    [funds |-> 2, invoices |-> invoices, outages |-> outages, mishaps |-> mishaps]

TwoAndOne == {
    [routers |-> Routers(GoRouter, GoRouter), purse |-> Faults(0, 1, 1)],
    [routers |-> Routers(GoRouter, Expensive), purse |-> Faults(1, 1, 1)],
    [routers |-> Routers(JsonRouter, Foreign), purse |-> Faults(1, 1, 0)]}

OneGateway == {g1}
Alone == <<g1>>
Cheap == {[routers |-> [g \in OneGateway |-> GoRouter], purse |-> Faults(0, 0, 0)]}
=============================================================================
