------------------------------- MODULE MCEgress -------------------------------
(***************************************************************************)
(* Egress for TLC.  The committed lists are those of the repository        *)
(* without the two hosts they agree on first; the passing run edits a      *)
(* shorter list.                                                           *)
(***************************************************************************)
EXTENDS Egress

AllowedInRepo == <<"release-assets", "fullnode.testnet", "fullnode.mainnet">>
HostsInRunSh  == <<"fullnode.testnet", "release-assets", "fullnode.mainnet">>

=============================================================================
