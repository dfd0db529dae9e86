------------------------------- MODULE Packages -------------------------------
(***************************************************************************)
(* The data a verification works on: what the commits of a repository      *)
(* hold, what the tools make of it, and what is on chain.  Constants only, *)
(* shared by the verification server and by what it promises.              *)
(*                                                                         *)
(* Abstractions.                                                           *)
(*  - A package directory is its build inputs (Move.toml, Move.lock,       *)
(*    Published.toml and the .move sources), as one value, and whatever    *)
(*    else the checkout holds beside them.  Two commits may share their    *)
(*    inputs.                                                              *)
(*  - Compilation is injective in everything it can read: a file left in   *)
(*    the directory may change the bytecode.                               *)
(*  - Hashes are injective, so a hash is the value hashed.                 *)
(***************************************************************************)
EXTENDS Naturals

CONSTANTS
    Commits,      \* commits of the repository
    Inputs,       \* commit -> its build inputs, None if it holds no package
    Extras,       \* commit -> the other files of the package directory
    NoExtras,     \* no other files
    Envs,         \* values of build_env
    EgressEnvs,   \* those whose fullnode the enclave can reach
    PublishedAt,  \* inputs -> build_env -> the package Published.toml records
    Toolchain,    \* inputs -> the release that published the package
    OnChain,      \* package -> the bytecode published there
    RepoSize,     \* scratch units a clone of the repository takes
    HomeSize,     \* inputs -> scratch units the compiler and dependencies take
    None

InputSets  == {Inputs[c] : c \in Commits} \ {None}
ExtraSets  == {Extras[c] : c \in Commits} \cup {NoExtras}
Pkgs       == DOMAIN OnChain
Toolchains == {Toolchain[i] : i \in InputSets}

Compile(inputs, extras) == <<inputs, extras>>

ASSUME PackagesAssumption ==
    /\ Inputs \in [Commits -> InputSets \cup {None}]
    /\ Extras \in [Commits -> ExtraSets]
    /\ EgressEnvs \subseteq Envs
    /\ PublishedAt \in [InputSets -> [Envs -> Pkgs \cup {None}]]
    /\ Toolchain \in [InputSets -> Toolchains]
    /\ OnChain \in [Pkgs -> InputSets \X ExtraSets]
    /\ RepoSize \in Nat
    /\ HomeSize \in [InputSets -> Nat \ {0}]
    /\ None \notin Commits \cup InputSets \cup Pkgs \cup Toolchains

(* What a signed response says. *)
SourceVerification ==
    [pkg_id : Pkgs, source_hash : InputSets, git_sha : Commits,
     toolchain_version : Toolchains, toolchain_digest : Toolchains]

=============================================================================
