----------------------------- MODULE MCConsumer -----------------------------
(***************************************************************************)
(* Instances of module Consumer for TLC.  In the steady one a top-up       *)
(* follows its poll before anything else happens.                          *)
(***************************************************************************)
EXTENDS Consumer

SteadySpec == ConsumerInit /\ [][ConsumerNext /\ (loop.at = "poll" \/ Consume)]_consumerVars
=============================================================================
