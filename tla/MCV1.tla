-------------------------------- MODULE MCV1 --------------------------------
(***************************************************************************)
(* The v1 components that share no state: a behaviour exercises the        *)
(* Lightning quotes, the mint health, the provider or the wallet, as part  *)
(* says.  The provider advertises what the mint health has at its start.   *)
(***************************************************************************)
EXTENDS Quotes, V1Provider, CdkWallet

VARIABLE part

MCAccepted == <<[url |-> "a", unit |-> "sat", price_per_step |-> 2, min_steps |-> 2],
                [url |-> "b", unit |-> "sat", price_per_step |-> 1, min_steps |-> 1]>>
MCMaxPrice == [m \in {"milliseconds", "bytes"} |-> 100]
MCLeases == [a \in {"10.0.0.2"} |-> "laptop"]
MCMintUrls == <<"a", "b">>

MCInit ==
    /\ Init /\ HealthInit /\ ProviderInit /\ CdkInit
    /\ part \in {"quotes", "health", "provider", "wallet"}
    /\ part # "quotes" => monitor.record.expiry = 0
    /\ part # "health" => upMints = Urls
    /\ part # "wallet" => home = MCMintUrls[1]

MCNext ==
    \/ part = "quotes" /\ Next /\ UNCHANGED <<healthVars, providerVars, cdkVars, part>>
    \/ part = "health" /\ HealthNext /\ UNCHANGED <<vars, providerVars, cdkVars, part>>
    \/ part = "provider" /\ ProviderNext /\ UNCHANGED <<vars, healthVars, cdkVars, part>>
    \/ part = "wallet" /\ CdkNext /\ UNCHANGED <<vars, healthVars, providerVars, part>>

MCSpec ==
    /\ MCInit /\ [][MCNext]_<<vars, healthVars, providerVars, cdkVars, part>>
    /\ WF_vars(part = "quotes" /\ Monitor) /\ WF_vars(part = "quotes" /\ Janitor)
    /\ SF_vars(part = "quotes" /\ ChecksStatus) /\ SF_vars(part = "quotes" /\ MintsTokens)
    /\ SF_vars(part = "quotes" /\ GrantsAccess)
    /\ WF_healthVars(part = "health" /\ StartPass)
    /\ \A t \in Probers : WF_healthVars(part = "health" /\ Prober(t))
=============================================================================
