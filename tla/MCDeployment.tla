----------------------------- MODULE MCDeployment -----------------------------
(***************************************************************************)
(* Deployment for TLC: an honest and a rogue image; a repository with one  *)
(* commit that is what is on chain, and one that claims to be.             *)
(***************************************************************************)
EXTENDS Deployment, TLC

CONSTANTS good, bad, i_good, i_bad, none_left, pkg, version_1

MCInputs      == good :> i_good @@ bad :> i_bad
MCExtras      == good :> none_left @@ bad :> none_left
MCPublishedAt == i_good :> ("mainnet" :> pkg) @@ i_bad :> ("mainnet" :> pkg)
MCToolchain   == i_good :> version_1 @@ i_bad :> version_1
MCOnChain     == pkg :> <<i_good, none_left>>
MCHomeSize    == i_good :> 1 @@ i_bad :> 1

MCPayload(c)   == PayloadOf(Once!Statement(c, "mainnet"))
MCClaims       == {MCPayload(good).claim, MCPayload(bad).claim}
MCTruePayloads == {MCPayload(good)}

KeySymmetry == Permutations(Keys)

=============================================================================
