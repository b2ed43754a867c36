------------------------------ MODULE MCDriver ------------------------------
(* Instances of module Driver for TLC.                                     *)
EXTENDS Driver

CONSTANTS h1, h2, ip1

OneRequest == {h1}
TwoRequests == {h1, h2}
OneAddress == {ip1}
=============================================================================
