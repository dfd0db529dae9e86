---------------------------- MODULE MCVerifyServer ----------------------------
(***************************************************************************)
(* VerifyServer for TLC.  The repository has a commit whose inputs are     *)
(* what is on chain, with a README beside them; one whose on-chain         *)
(* bytecode needs a file that is not a build input; one too large for the  *)
(* scratch space; and one that holds no package.                           *)
(***************************************************************************)
EXTENDS VerifyServer, TLC

CONSTANTS good, needs_extra, too_large, no_package,
          i_good, i_extra, i_large, readme, pkg1, pkg2, pkg3, v1, v2

MCCommits == {good, needs_extra, too_large, no_package}
MCInputs  == good :> i_good @@ needs_extra :> i_extra @@ too_large :> i_large
                @@ no_package :> None
MCExtras  == good :> readme @@ needs_extra :> readme @@ too_large :> NoExtras
                @@ no_package :> NoExtras
MCPublishedAt ==
    i_good :> ("mainnet" :> pkg1 @@ "devnet" :> pkg1)
        @@ i_extra :> ("mainnet" :> pkg2 @@ "devnet" :> None)
        @@ i_large :> ("mainnet" :> pkg3 @@ "devnet" :> None)
MCToolchain == i_good :> v1 @@ i_extra :> v1 @@ i_large :> v2
MCOnChain   == pkg1 :> <<i_good, NoExtras>> @@ pkg2 :> <<i_extra, readme>>
                @@ pkg3 :> <<i_large, NoExtras>>
MCHomeSize  == i_good :> 1 @@ i_extra :> 1 @@ i_large :> 3

(* For the liveness run, where the data does not matter: one good commit. *)
OneCommits     == {good}
OneInputs      == good :> i_good
OneExtras      == good :> NoExtras
OnePublishedAt == i_good :> ("mainnet" :> pkg1)
OneToolchain   == i_good :> v1
OneOnChain     == pkg1 :> <<i_good, NoExtras>>
OneHomeSize    == i_good :> 1

RequestSymmetry == Permutations(Requests)

=============================================================================
