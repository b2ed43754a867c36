----------------------------- MODULE MCSession -----------------------------
(* Instances of module Session for TLC.  Session::handle reads and writes  *)
(* the record of one peer only, so one peer shows every behaviour.         *)
EXTENDS Session

CONSTANT p1

OnePeer == {p1}
=============================================================================
