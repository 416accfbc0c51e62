-------------------------- MODULE MCRewardsHistory --------------------------
(* RewardsHistory instantiated for TLC: one wallet account a1 and one       *)
(* foreign stake key k2; the remaining constants are given in the .cfg     *)
(* files.                                                                  *)
EXTENDS RewardsHistory

CONSTANTS a1, k2

Reg(k) == [kind |-> "registration", key |-> k]
Dereg(k) == [kind |-> "deregistration", key |-> k]
Deleg(k) == [kind |-> "delegation", key |-> k]

\* The wallet registers and delegates, delegates again, deregisters; another
\* wallet delegates its own key.
MCCertLists == {<<Reg(a1), Deleg(a1)>>, <<Deleg(a1)>>, <<Dereg(a1)>>, <<Deleg(k2)>>}

\* Transaction hashes in the reverse of the order db-sync numbers the rows.
MCHashes == <<50, 40, 30, 20, 10>>

=============================================================================
