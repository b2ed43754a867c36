----------------------------- MODULE MCPayment ------------------------------
(***************************************************************************)
(* The parts of a payment that share no state: a behaviour exercises the   *)
(* wallet that takes tokens, the loop that pays for a session, or the      *)
(* delivery engine that settles a deposit, as part says.  For a consumer   *)
(* with a counter of its own time stands still, to keep the instance small *)
(***************************************************************************)
EXTENDS MCDelivery, MCWallet, Consumer

VARIABLE part

PaymentInit ==
    /\ WalletInit /\ ConsumerInit /\ Init
    /\ part \in {"wallet", "consumer", "delivery"}
    /\ part # "consumer" => metered = FALSE

PaymentNext ==
    \/ part = "wallet" /\ WalletNext /\ UNCHANGED <<consumerVars, vars, part>>
    \/ part = "consumer" /\ ConsumerNext /\ (metered => time' = 0)
         /\ UNCHANGED <<walletVars, vars, part>>
    \/ part = "delivery" /\ Next /\ UNCHANGED <<walletVars, consumerVars, part>>

PaymentSpec ==
    /\ PaymentInit /\ [][PaymentNext]_<<walletVars, consumerVars, vars, part>>
    /\ WF_consumerVars(part = "consumer" /\ Sample) /\ WF_consumerVars(part = "consumer" /\ Consume)
    /\ WF_vars(part = "delivery" /\ Tick) /\ WF_vars(part = "delivery" /\ ClockAdvances)
=============================================================================
