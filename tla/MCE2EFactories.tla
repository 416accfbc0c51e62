---------------------------- MODULE MCE2EFactories ----------------------------
(* An end-to-end test environment: every provider from blockfrost except  *)
(* the stub stake pool provider and the http transaction submitter, an     *)
(* in-memory key agent, and one getWallet call without idx.  The test      *)
(* asks keyAgentById for accounts 0 and 1 of the in-memory and ledger      *)
(* agents, passing its own params object or the env's.                     *)
EXTENDS E2EFactories

MCEnvProvider == [k \in {ProviderKinds[i] : i \in 1..Len(ProviderKinds)} |->
                    CASE k = "stakePool" -> "stub"
                      [] k = "txSubmit" -> "http"
                      [] OTHER -> "blockfrost"]

MCWalletIdx == [w \in Wallets |-> None]

=============================================================================
