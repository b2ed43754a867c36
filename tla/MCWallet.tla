------------------------------ MODULE MCWallet ------------------------------
(* Instances of module Wallet for TLC: three proofs in four tokens, two of *)
(* them overlapping and one of a mint that is not accepted.                *)
EXTENDS Wallet

CONSTANTS a, b, c, t1, t2

Proofs == {a, b, c}
Tokens == {{a}, {a, b}, {b, c}, {c}}
AcceptedTokens == Tokens \ {{c}}
TwoTasks == {t1, t2}
=============================================================================
