------------------------------ MODULE Deployment ------------------------------
(***************************************************************************)
(* The deployment: what the servers of honest machines promise (module     *)
(* VerifyOnce) composed with the life of those machines and with the chain *)
(* (module System).  System takes it on trust that an honest image signs   *)
(* true payloads only; here an honest machine signs what its handler       *)
(* found, and System is what comes out.                                    *)
(*                                                                         *)
(*  - A machine answers its requests as VerifyOnce says, which is what     *)
(*    VerifyServer shows of the handler.  When it dies, so do the requests *)
(*    it has not answered.                                                 *)
(*  - An answer is a signature; signing and answering are one step here,   *)
(*    since nobody sees a signature before the answer.                     *)
(*  - Machines with other images sign whatever they like.                  *)
(* Bounds: MaxMoves pushes to the repository, MaxSignatures answers.       *)
(***************************************************************************)
EXTENDS System

CONSTANTS
    Commits, Inputs, Extras, NoExtras, Envs, EgressEnvs, PublishedAt, Toolchain,
    OnChain, RepoSize, HomeSize,        \* as in Packages
    Requests, Revs, Error, Lost,        \* as in VerifyOnce
    MaxMoves

VARIABLES
    remote, request, resolved, outcome,  \* as in VerifyOnce
    server,  \* request -> the machine it was sent to, None before
    moves    \* pushes so far

Once == INSTANCE VerifyOnce

requestVars == <<remote, request, resolved, outcome, server, moves>>
deployVars  == <<sysVars, requestVars>>

(* The payload that says what a statement says: `pkg_id` is its subject,   *)
(* the other fields are its claim.                                         *)
PayloadOf(s) ==
    [pkg_id |-> s.pkg_id,
     claim  |-> <<s.source_hash, s.git_sha, s.toolchain_version, s.toolchain_digest>>]

ASSUME DeploymentAssumption ==
    /\ \A c \in Commits, env \in EgressEnvs : Once!IsTrueOf(c, env) =>
           PayloadOf(Once!Statement(c, env)) \in TruePayloads
    /\ {None, Error, Lost} \cap {Once!Statement(c, env) : c \in Commits, env \in Envs} = {}
    /\ None \notin Commits /\ None \notin Machines /\ None \notin Once!VerifyRequest
    /\ None \notin {Error, Lost}
    /\ MaxMoves \in Nat

Unanswered(r) == request[r] # None /\ outcome[r] = None
Answered(r)   == outcome[r] \notin {None, Error, Lost}

(* A machine up and running an image built from this repository. *)
Honest(m) == machine[m] # None /\ machine[m].image \in HonestImages

(* A request that waits for its answer is with an honest machine that is   *)
(* up: no request survives its server (MachineDies).                       *)
ServersAreUp == \A r \in Requests : Unanswered(r) => server[r] \in Machines /\ Honest(server[r])

DeployTypeOK ==
    /\ SysTypeOK
    /\ remote \in [Revs -> Commits \cup {None}]
    /\ request \in [Requests -> Once!VerifyRequest \cup {None}]
    /\ resolved \in [Requests -> Commits \cup {None}]
    /\ outcome \in [Requests -> {Once!Statement(c, env) : c \in Commits, env \in Envs}
                                    \cup {None, Error, Lost}]
    /\ server \in [Requests -> Machines \cup {None}]
    /\ moves \in 0 .. MaxMoves
    /\ ServersAreUp

DeployInit ==
    /\ SysInit
    /\ Once!OnceInit
    /\ server = [r \in Requests |-> None]
    /\ moves = 0

-----------------------------------------------------------------------------
(* Requests *)

Send(r, m, q) ==
    /\ Honest(m)
    /\ Once!Ask(r, q)
    /\ server' = [server EXCEPT ![r] = m]
    /\ UNCHANGED <<sysVars, moves>>

Work(r) ==
    /\ Once!Resolve(r) \/ Once!Refuse(r) \/ Once!Lose({r})
    /\ UNCHANGED <<sysVars, server, moves>>

(* What the handler signs is about the commit it checked out.  The slip    *)
(* asks the remote again.                                                  *)
SignsLatest(r)   == IF remote[request[r].git_rev] = None THEN resolved[r]
                    ELSE remote[request[r].git_rev]
SignsResolved(r) == resolved[r]

(* `process_data` succeeds: it signs the statement with the machine's key, *)
(* in the app's scope, and returns it.                                     *)
AnswerRequest(r, ts) ==
    LET s == Once!Statement(SignsResolved(r), request[r].build_env) IN
    /\ Once!Answer(r)
    /\ KeySigns(machine[server[r]].eph_kp,
                create_intent_message(VERIFY_SCOPE, ts, PayloadOf(s)))
    /\ UNCHANGED <<enclavesUp, server, moves>>

Push(rev, c) ==
    /\ moves < MaxMoves
    /\ Once!Move(rev, c)
    /\ moves' = moves + 1
    /\ UNCHANGED <<sysVars, server>>

-----------------------------------------------------------------------------
(* Machines *)

(* Memory, and with it every request under way, is gone.  In the slip      *)
(* requests outlive their machine.                                         *)
NothingUnderWay(m) == {}
UnderWay(m)        == {r \in Requests : server[r] = m /\ Unanswered(r)}

MachineDies(m) ==
    /\ Die(m)
    /\ Once!Lose(UnderWay(m))
    /\ UNCHANGED <<server, moves>>

OtherImageSigns(m, message) ==
    /\ ~Honest(m)
    /\ ProcessData(m, message)
    /\ UNCHANGED requestVars

Unaware ==
    /\ \/ \E m \in Machines :
           \/ \E i \in PcrValues, k \in Keys : Boot(m, i, k)
           \/ GetAttestation(m)
       \/ \E a \in Accounts, c \in ConfigIds, d \in documents, e \in EnclaveIds :
              Register(a, c, d, e)
       \/ ChainCall
    /\ UNCHANGED requestVars

DeployNext ==
    \/ \E r \in Requests :
        \/ \E m \in Machines, q \in Once!VerifyRequest : Send(r, m, q)
        \/ Work(r)
        \/ \E ts \in Timestamps : AnswerRequest(r, ts)
    \/ \E rev \in Revs, c \in Commits \cup {None} : Push(rev, c)
    \/ \E m \in Machines :
        \/ MachineDies(m)
        \/ \E message \in IntentMessage : OtherImageSigns(m, message)
    \/ Unaware

DeploySpec == DeployInit /\ [][DeployNext]_deployVars

-----------------------------------------------------------------------------
(* Properties *)

(* The deployment is the service of System: what its honest machines sign  *)
(* is true, although nothing but the server's promise says so.             *)
ImplementsSystem == SysSpec

(* Everything on chain can be traced to a request: as long as only honest  *)
(* images were ever expected, what an attestation says is what some server *)
(* answered, about the commit its revision named while it was at work.  A  *)
(* request that was refused, or lost with its machine, leaves no trace.    *)
AttestationsAnswerRequests ==
    (\A c \in ConfigIds, v \in Versions : rotations[c][v] \in HonestImages \cup {None})
        => \A a \in AttestationIds : attestations[a] # None =>
               \E r \in Requests :
                   /\ Answered(r)
                   /\ attestations[a].payload = PayloadOf(outcome[r])
                   /\ outcome[r].git_sha = resolved[r]

=============================================================================
