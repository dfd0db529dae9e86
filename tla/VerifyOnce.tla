------------------------------ MODULE VerifyOnce ------------------------------
(***************************************************************************)
(* What the verification server promises, without saying how: a client     *)
(* asks, the revision is resolved at ONE moment between the question and   *)
(* the answer, and the answer is either an error or a statement true of    *)
(* the commit found at that moment.  No lock, no scratch space, no tools.  *)
(***************************************************************************)
EXTENDS Packages

CONSTANTS
    Requests,  \* identities of requests
    Revs,      \* branches and tags of the remote repository
    Error,     \* the answer to a request that failed
    Lost       \* the end of a request that got no answer

VARIABLES
    remote,    \* revision -> the commit it names, or None
    request,   \* request -> what it asked, None before
    resolved,  \* request -> the commit its revision was found to name
    outcome    \* request -> None, Error, Lost or what was signed

onceVars == <<remote, request, resolved, outcome>>

VerifyRequest == [git_rev : Revs, plain : BOOLEAN, build_env : Envs]

OnceInit ==
    /\ remote \in [Revs -> Commits \cup {None}]
    /\ request = [r \in Requests |-> None]
    /\ resolved = [r \in Requests |-> None]
    /\ outcome = [r \in Requests |-> None]

(* The statement about commit c, and when it is true: the package that     *)
(* c's own Published.toml records for the environment is, byte for byte,   *)
(* what c's build inputs and nothing else compile to.                      *)
Statement(c, env) ==
    LET i == Inputs[c] IN
    [pkg_id |-> PublishedAt[i][env], source_hash |-> i, git_sha |-> c,
     toolchain_version |-> Toolchain[i], toolchain_digest |-> Toolchain[i]]

IsTrueOf(c, env) ==
    /\ Inputs[c] # None
    /\ PublishedAt[Inputs[c]][env] # None
    /\ OnChain[PublishedAt[Inputs[c]][env]] = Compile(Inputs[c], NoExtras)

Ask(r, q) ==
    /\ request[r] = None
    /\ request' = [request EXCEPT ![r] = q]
    /\ UNCHANGED <<remote, resolved, outcome>>

Move(rev, c) ==
    /\ remote' = [remote EXCEPT ![rev] = c]
    /\ UNCHANGED <<request, resolved, outcome>>

Resolve(r) ==
    /\ request[r] # None /\ outcome[r] = None /\ resolved[r] = None
    /\ request[r].plain
    /\ remote[request[r].git_rev] # None
    /\ resolved' = [resolved EXCEPT ![r] = remote[request[r].git_rev]]
    /\ UNCHANGED <<remote, request, outcome>>

Answer(r) ==
    /\ outcome[r] = None /\ resolved[r] # None
    /\ request[r].build_env \in EgressEnvs
    /\ IsTrueOf(resolved[r], request[r].build_env)
    /\ outcome' = [outcome EXCEPT ![r] = Statement(resolved[r], request[r].build_env)]
    /\ UNCHANGED <<remote, request, resolved>>

Refuse(r) ==
    /\ request[r] # None /\ outcome[r] = None
    /\ outcome' = [outcome EXCEPT ![r] = Error]
    /\ UNCHANGED <<remote, request, resolved>>

(* A crash, or the client going away.  An answer that was delivered is not *)
(* taken back.                                                             *)
Lose(rs) ==
    /\ \A r \in rs : request[r] # None /\ outcome[r] = None
    /\ outcome' = [r \in Requests |-> IF r \in rs THEN Lost ELSE outcome[r]]
    /\ UNCHANGED <<remote, request, resolved>>

OnceNext ==
    \/ \E r \in Requests :
        \/ \E q \in VerifyRequest : Ask(r, q)
        \/ Resolve(r) \/ Answer(r) \/ Refuse(r)
    \/ \E rev \in Revs, c \in Commits \cup {None} : Move(rev, c)
    \/ \E rs \in SUBSET Requests : Lose(rs)

OnceSpec == OnceInit /\ [][OnceNext]_onceVars

=============================================================================
