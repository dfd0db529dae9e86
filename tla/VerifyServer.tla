----------------------------- MODULE VerifyServer -----------------------------
(***************************************************************************)
(* The enclave's HTTP server: `process_data` of                            *)
(* src/nautilus-server/src/apps/source-verification/mod.rs as it runs on a *)
(* tokio runtime with a few worker threads, beside the cheap endpoints of  *)
(* src/nautilus-server/src/common.rs.                                      *)
(*                                                                         *)
(*  - A request waits for VERIFY_LOCK, tokio's FIFO mutex: the unlocking   *)
(*    task hands the lock to the first waiter, whose task runs when a      *)
(*    worker polls it.  Waiting is the handler's only await, so only a     *)
(*    waiting request can be dropped when its client goes away, and from   *)
(*    then on the handler keeps its worker thread: the external commands   *)
(*    are waited for synchronously.                                        *)
(*  - Every `?` and the final return leave through the same two drops, in  *)
(*    reverse order of declaration: the Workdir, then the guard.           *)
(*  - The scratch file system is a tmpfs of Capacity units.  A command     *)
(*    that does not fit fails with ENOSPC, leaving the file system full.   *)
(*    The removal of a Workdir may fail part-way, and nobody is told; what *)
(*    it leaves has a name of its own (a UUID) and only takes up space.    *)
(*  - A command ends when it ends: there is no timeout anywhere.           *)
(*  - A crash takes the process, its memory and the tmpfs.                 *)
(* Bounds: MaxMoves pushes to the remote, MaxCrashes crashes.              *)
(***************************************************************************)
EXTENDS Packages, SequencesExt

CONSTANTS
    Requests,   \* requests to /process_data
    Probes,     \* requests to /health_check and /get_attestation
    Endpoints,  \* the endpoints a probe tries, one await each
    Revs,       \* branches and tags of the remote repository
    Workers,    \* worker threads of the runtime (CPU_COUNT in the Makefile)
    Capacity,   \* units of scratch space (size= of the tmpfs in run.sh)
    MaxMoves,
    MaxCrashes,
    Error,
    Lost

ASSUME ServerAssumption ==
    /\ Workers \in Nat \ {0} /\ Capacity \in Nat /\ Endpoints \in Nat
    /\ MaxMoves \in Nat /\ MaxCrashes \in Nat
    /\ None \notin Requests

VARIABLES
    remote,   \* the remote repository: revision -> commit, or None
    request,  \* request -> what it asks, or None
    phase,    \* request -> where its task is
    holder,   \* the request that holds VERIFY_LOCK, or None
    queue,    \* the requests waiting for it, oldest first
    scratch,  \* request -> its Workdir, None if it does not exist
    used,     \* units of the tmpfs in use
    leaked,   \* those of them that belong to a Workdir that is gone
    local,    \* request -> the handler's local variables
    reply,    \* request -> the value the handler returns, or None
    probe,    \* probe -> polls left to do, None if it is not running
    bounds,   \* how often the environment moved a branch, or crashed us
    (* History, read by no action. *)
    resolved, \* request -> what its revision named when it was cloned
    enospc    \* request -> the units leaked when it ran out of space, or None

serverVars == <<remote, request, phase, holder, queue, scratch, used, leaked, local,
                reply, probe, bounds, resolved, enospc>>

VerifyRequest == [git_rev : Revs, plain : BOOLEAN, build_env : Envs]

(* The external commands: nothing but their end is ours. *)
CommandPhases == {"clone", "checkout", "rev_parse", "verify"}
Running == {"check", "clone", "checkout", "rev_parse", "prune", "source_hash",
            "verify", "read_toolchain", "sign", "drop_workdir", "drop_guard"}
Phases  == Running \cup {"idle", "waiting", "done", "lost"}

Workdir == [refs : [Revs -> Commits \cup {None}], commit : Commits \cup {None},
            extras : ExtraSets, home : Toolchains \cup {None}, size : 0 .. Capacity]
Locals  == [git_sha : Commits \cup {None}, source_hash : InputSets \cup {None},
            published_at : Pkgs \cup {None}, toolchain_version : Toolchains \cup {None},
            toolchain_digest : Toolchains \cup {None}]
NoLocals == [x \in {"git_sha", "source_hash", "published_at", "toolchain_version",
                    "toolchain_digest"} |-> None]

ASSUME RecordsAssumption == None \notin VerifyRequest /\ None \notin Workdir

ServerTypeOK ==
    /\ remote \in [Revs -> Commits \cup {None}]
    /\ request \in [Requests -> VerifyRequest \cup {None}]
    /\ phase \in [Requests -> Phases]
    /\ holder \in Requests \cup {None}
    /\ queue \in Seq(Requests)
    /\ scratch \in [Requests -> Workdir \cup {None}]
    /\ used \in 0 .. Capacity
    /\ leaked \in 0 .. Capacity
    /\ local \in [Requests -> Locals]
    /\ reply \in [Requests -> SourceVerification \cup {None, Error}]
    /\ probe \in [Probes -> 0 .. Endpoints \cup {None}]
    /\ bounds \in [moves : 0 .. MaxMoves, crashes : 0 .. MaxCrashes]
    /\ resolved \in [Requests -> Commits \cup {None}]
    /\ enospc \in [Requests -> 0 .. Capacity \cup {None}]

ServerInit ==
    /\ remote \in [Revs -> Commits \cup {None}]
    /\ request = [r \in Requests |-> None]
    /\ phase = [r \in Requests |-> "idle"]
    /\ holder = None
    /\ queue = <<>>
    /\ scratch = [r \in Requests |-> None]
    /\ used = 0
    /\ leaked = 0
    /\ local = [r \in Requests |-> NoLocals]
    /\ reply = [r \in Requests |-> None]
    /\ probe = [p \in Probes |-> None]
    /\ bounds = [moves |-> 0, crashes |-> 0]
    /\ resolved = [r \in Requests |-> None]
    /\ enospc = [r \in Requests |-> None]

-----------------------------------------------------------------------------
(* Helpers *)

(* The task of r keeps a worker thread from the moment it has the lock.    *)
(* With a blocking mutex the tasks that wait for it would keep one too.    *)
KeepsWorkerWaiting(r) == phase[r] \in Running \cup {"waiting"}
KeepsWorker(r)        == phase[r] \in Running
FreeWorker == Cardinality({r \in Requests : KeepsWorker(r)}) < Workers

Goto(r, p) == phase' = [phase EXCEPT ![r] = p]

(* tokio's unlock: the lock goes to the first waiter, if there is one.     *)
PassOn ==
    IF queue = <<>>
    THEN holder' = None /\ queue' = queue
    ELSE holder' = Head(queue) /\ queue' = Tail(queue)

(* A Workdir grows by n units and changes as `dir` says; without the sized *)
(* tmpfs it would just grow.                                               *)
WriteUnbounded(r, dir, n) ==
    /\ scratch' = [scratch EXCEPT ![r] = [dir EXCEPT !.size = @ + n]]
    /\ used' = used + n
Write(r, dir, n) ==
    /\ used + n <= Capacity
    /\ scratch' = [scratch EXCEPT ![r] = [dir EXCEPT !.size = @ + n]]
    /\ used' = used + n

(* An early return with an error; it leaves through the drops of Workdir   *)
(* and guard.  The slips have no Workdir to drop, and a lock that is to be *)
(* released by hand.                                                       *)
FailWithoutGuard(r) ==
    /\ reply' = [reply EXCEPT ![r] = Error]
    /\ Goto(r, "done")
FailWithoutWorkdir(r) ==
    /\ reply' = [reply EXCEPT ![r] = Error]
    /\ Goto(r, "drop_guard")
Fail(r) ==
    /\ reply' = [reply EXCEPT ![r] = Error]
    /\ Goto(r, "drop_workdir")

(* A command that needs n units and does not find them. *)
NoSpaceLeft(r, dir, n) ==
    /\ used + n > Capacity
    /\ scratch' = [scratch EXCEPT ![r] = [dir EXCEPT !.size = @ + (Capacity - used)]]
    /\ used' = Capacity
    /\ enospc' = [enospc EXCEPT ![r] = leaked]
    /\ Fail(r)

NewWorkdir == [refs |-> remote, commit |-> None, extras |-> NoExtras, home |-> None,
               size |-> 0]

-----------------------------------------------------------------------------
(* The handler *)

(* The handler's first poll: it takes the lock or joins the queue. *)
Arrive(r, q) ==
    /\ phase[r] = "idle" /\ FreeWorker
    /\ request' = [request EXCEPT ![r] = q]
    /\ \/ /\ holder = None
          /\ holder' = r /\ queue' = queue /\ Goto(r, "check")
       \/ /\ holder # None
          /\ queue' = Append(queue, r) /\ holder' = holder /\ Goto(r, "waiting")
    /\ UNCHANGED <<remote, scratch, used, leaked, local, reply, probe, bounds, resolved,
                   enospc>>

(* The lock has been handed to r and a worker polls its task; the slip     *)
(* does not wait for the lock.                                             *)
NeedsNoLock(r) == TRUE
HasLock(r)     == holder = r

Admit(r) ==
    /\ phase[r] = "waiting" /\ HasLock(r) /\ FreeWorker
    /\ Goto(r, "check")
    /\ UNCHANGED <<remote, request, holder, queue, scratch, used, leaked, local, reply,
                   probe, bounds, resolved, enospc>>

(* The client of a waiting request goes away and its handler is dropped.   *)
(* One that already owns the lock passes it on.                            *)
CancelLeavesQueue(r) ==
    \/ /\ holder = r /\ PassOn
    \/ /\ holder # r /\ holder' = holder
       /\ \E k \in DOMAIN queue : queue[k] = r /\ queue' = RemoveAt(queue, k)

Cancel(r) ==
    /\ phase[r] = "waiting"
    /\ CancelLeavesQueue(r)
    /\ Goto(r, "lost")
    /\ UNCHANGED <<remote, request, scratch, used, leaked, local, reply, probe, bounds,
                   resolved, enospc>>

(* `check_request` *)
CheckRequest(r) ==
    /\ phase[r] = "check"
    /\ \/ request[r].plain /\ Goto(r, "clone") /\ reply' = reply
       \/ ~request[r].plain /\ Fail(r)
    /\ UNCHANGED <<remote, request, holder, queue, scratch, used, leaked, local, probe,
                   bounds, resolved, enospc>>

(* `git clone`: every branch and tag as they are at this moment. *)
GitClone(r) ==
    /\ phase[r] = "clone"
    /\ \/ /\ Write(r, NewWorkdir, RepoSize)
          /\ Goto(r, "checkout")
          /\ resolved' = [resolved EXCEPT ![r] = remote[request[r].git_rev]]
          /\ UNCHANGED <<reply, enospc>>
       \/ NoSpaceLeft(r, NewWorkdir, RepoSize) /\ UNCHANGED resolved
    /\ UNCHANGED <<remote, request, holder, queue, leaked, local, probe, bounds>>

(* `git checkout`: of the clone's copy of the revision, if it has one. *)
CheckedOut(r) == scratch[r].refs[request[r].git_rev]

GitCheckout(r) ==
    /\ phase[r] = "checkout"
    /\ \/ /\ CheckedOut(r) # None
          /\ scratch' = [scratch EXCEPT ![r].commit = CheckedOut(r),
                                        ![r].extras = Extras[CheckedOut(r)]]
          /\ Goto(r, "rev_parse") /\ reply' = reply
       \/ CheckedOut(r) = None /\ Fail(r) /\ UNCHANGED scratch
    /\ UNCHANGED <<remote, request, holder, queue, used, leaked, local, probe, bounds,
                   resolved, enospc>>

GitRevParse(r) ==
    /\ phase[r] = "rev_parse"
    /\ local' = [local EXCEPT ![r].git_sha = scratch[r].commit]
    /\ Goto(r, "prune")
    /\ UNCHANGED <<remote, request, holder, queue, scratch, used, leaked, reply, probe,
                   bounds, resolved, enospc>>

(* `prune_to_build_inputs`: an error if the directory holds no package;    *)
(* otherwise only the build inputs stay.                                   *)
KeepEverything(r) == scratch[r].extras
KeptExtras(r)     == NoExtras

PruneToBuildInputs(r) ==
    /\ phase[r] = "prune"
    /\ \/ /\ Inputs[scratch[r].commit] # None
          /\ scratch' = [scratch EXCEPT ![r].extras = KeptExtras(r)]
          /\ Goto(r, "source_hash") /\ reply' = reply
       \/ Inputs[scratch[r].commit] = None /\ Fail(r) /\ UNCHANGED scratch
    /\ UNCHANGED <<remote, request, holder, queue, used, leaked, local, probe, bounds,
                   resolved, enospc>>

SourceHash(r) ==
    /\ phase[r] = "source_hash"
    /\ local' = [local EXCEPT ![r].source_hash = Inputs[scratch[r].commit]]
    /\ Goto(r, "verify")
    /\ UNCHANGED <<remote, request, holder, queue, scratch, used, leaked, reply, probe,
                   bounds, resolved, enospc>>

(* `verify-source`, a success if what the directory compiles to is on      *)
(* chain where its Published.toml says.  It installs the compiler and the  *)
(* dependencies in this request's MOVE_HOME.                               *)
VerifySource(r) ==
    LET i   == Inputs[scratch[r].commit]
        pkg == PublishedAt[i][request[r].build_env]
    IN
    /\ phase[r] = "verify"
    /\ \/ /\ request[r].build_env \in EgressEnvs
          /\ pkg # None
          /\ OnChain[pkg] = Compile(i, scratch[r].extras)
          /\ Write(r, [scratch[r] EXCEPT !.home = Toolchain[i]], HomeSize[i])
          /\ local' = [local EXCEPT ![r].published_at = pkg,
                                    ![r].toolchain_version = Toolchain[i]]
          /\ Goto(r, "read_toolchain")
          /\ UNCHANGED <<reply, enospc>>
       \/ /\ request[r].build_env \in EgressEnvs
          /\ NoSpaceLeft(r, scratch[r], HomeSize[i])
          /\ UNCHANGED local
    /\ UNCHANGED <<remote, request, holder, queue, leaked, probe, bounds, resolved>>

ReadToolchain(r) ==
    /\ phase[r] = "read_toolchain"
    /\ scratch[r].home # None
    /\ local' = [local EXCEPT ![r].toolchain_digest = scratch[r].home]
    /\ Goto(r, "sign")
    /\ UNCHANGED <<remote, request, holder, queue, scratch, used, leaked, reply, probe,
                   bounds, resolved, enospc>>

Sign(r) ==
    /\ phase[r] = "sign"
    /\ reply' = [reply EXCEPT ![r] =
            [pkg_id |-> local[r].published_at, source_hash |-> local[r].source_hash,
             git_sha |-> local[r].git_sha,
             toolchain_version |-> local[r].toolchain_version,
             toolchain_digest |-> local[r].toolchain_digest]]
    /\ Goto(r, "drop_workdir")
    /\ UNCHANGED <<remote, request, holder, queue, scratch, used, leaked, local, probe,
                   bounds, resolved, enospc>>

(* The `?`s: a command that exits with an error, verify-source finding a   *)
(* mismatch among them, and the I/O errors of the steps in between.        *)
FalliblePhases == Running \ {"check", "drop_workdir", "drop_guard"}

StepFails(r) ==
    /\ phase[r] \in FalliblePhases
    /\ Fail(r)
    /\ UNCHANGED <<remote, request, holder, queue, scratch, used, leaked, local, probe,
                   bounds, resolved, enospc>>

(* `Workdir::drop` removes what is there, or as much of it as it can: the  *)
(* error of remove_dir_all is ignored ...                                  *)
DirSize(r) == IF scratch[r] = None THEN 0 ELSE scratch[r].size

DropWorkdir(r) ==
    /\ phase[r] = "drop_workdir"
    /\ scratch' = [scratch EXCEPT ![r] = None]
    /\ \E left \in 0 .. DirSize(r) :
           /\ used' = used - DirSize(r) + left
           /\ leaked' = leaked + left
    /\ Goto(r, "drop_guard")
    /\ UNCHANGED <<remote, request, holder, queue, local, reply, probe, bounds, resolved,
                   enospc>>

(* ... and then the guard is dropped and the response is sent. *)
DropGuard(r) ==
    /\ phase[r] = "drop_guard"
    /\ PassOn
    /\ local' = [local EXCEPT ![r] = NoLocals]
    /\ Goto(r, "done")
    /\ UNCHANGED <<remote, request, scratch, used, leaked, reply, probe, bounds, resolved,
                   enospc>>

-----------------------------------------------------------------------------
(* The other endpoints, and the environment *)

(* `health_check` tries the endpoints one after the other, each within     *)
(* HEALTH_CHECK_TIMEOUT; `get_attestation` and `ping` try none.            *)
ProbeStart(p, n) ==
    /\ probe[p] = None /\ FreeWorker
    /\ probe' = [probe EXCEPT ![p] = n]
    /\ UNCHANGED <<remote, request, phase, holder, queue, scratch, used, leaked, local,
                   reply, bounds, resolved, enospc>>

ProbePoll(p) ==
    /\ probe[p] # None /\ FreeWorker
    /\ probe' = [probe EXCEPT ![p] = IF @ = 0 THEN None ELSE @ - 1]
    /\ UNCHANGED <<remote, request, phase, holder, queue, scratch, used, leaked, local,
                   reply, bounds, resolved, enospc>>

(* External: someone moves or deletes a branch or tag of the repository. *)
Push(rev, c) ==
    /\ bounds.moves < MaxMoves
    /\ bounds' = [bounds EXCEPT !.moves = @ + 1]
    /\ remote' = [remote EXCEPT ![rev] = c]
    /\ UNCHANGED <<request, phase, holder, queue, scratch, used, leaked, local, reply,
                   probe, resolved, enospc>>

(* The enclave dies and is started again: memory and tmpfs are gone.       *)
Crash ==
    /\ bounds.crashes < MaxCrashes
    /\ bounds' = [bounds EXCEPT !.crashes = @ + 1]
    /\ phase' = [r \in Requests |-> IF phase[r] \in Running \cup {"waiting"}
                                    THEN "lost" ELSE phase[r]]
    /\ reply' = [r \in Requests |-> IF phase[r] = "done" THEN reply[r] ELSE None]
    /\ holder' = None
    /\ queue' = <<>>
    /\ scratch' = [r \in Requests |-> None]
    /\ used' = 0
    /\ leaked' = 0
    /\ local' = [r \in Requests |-> NoLocals]
    /\ probe' = [p \in Probes |-> None]
    /\ UNCHANGED <<remote, request, resolved, enospc>>

(* The steps that end when an external command ends ...                    *)
Command(r) == \/ GitClone(r) \/ GitCheckout(r) \/ GitRevParse(r) \/ VerifySource(r)
              \/ (phase[r] \in CommandPhases /\ StepFails(r))

(* ... and those the handler takes by itself.                              *)
Handler(r) == \/ Admit(r) \/ CheckRequest(r) \/ PruneToBuildInputs(r)
              \/ SourceHash(r) \/ ReadToolchain(r) \/ Sign(r)
              \/ (phase[r] \notin CommandPhases /\ StepFails(r))
              \/ DropWorkdir(r) \/ DropGuard(r)

ServerNext ==
    \/ \E r \in Requests :
        \/ \E q \in VerifyRequest : Arrive(r, q)
        \/ Cancel(r) \/ Command(r) \/ Handler(r)
    \/ \E p \in Probes : ProbePoll(p) \/ \E n \in {0, Endpoints} : ProbeStart(p, n)
    \/ \E rev \in Revs, c \in Commits \cup {None} : Push(rev, c)
    \/ Crash

ServerSpec == ServerInit /\ [][ServerNext]_serverVars

(* A free worker polls whatever is runnable. *)
RuntimeFairness ==
    /\ \A r \in Requests : WF_serverVars(Handler(r))
    /\ \A p \in Probes : WF_serverVars(ProbePoll(p))

(* Nothing in the code makes a command end; this says that they do. *)
CommandsEnd == \A r \in Requests : WF_serverVars(Command(r))

FairServerSpec == ServerSpec /\ RuntimeFairness

-----------------------------------------------------------------------------
(* Properties *)

(* The reason for VERIFY_LOCK: whatever is being verified is being         *)
(* verified by the request that holds it.  The lock changes hands through  *)
(* unlocks, cancellations of its next owner, and crashes.                  *)
OneAtATime == \A r \in Requests : phase[r] \in Running => holder = r

(* The lock is never left with a request that will not release it, no      *)
(* waiter is forgotten, and nobody waits for a lock that is free.          *)
LockIsNeverOrphaned ==
    /\ holder # None => phase[holder] \in Running \cup {"waiting"}
    /\ \A r \in Requests : phase[r] = "waiting" =>
           holder = r \/ \E k \in DOMAIN queue : queue[k] = r
    /\ holder = None => queue = <<>>

(* No verification starts before the scratch of the one before it is gone, *)
(* whichever of the exits that took: but for what failed removals left,    *)
(* scratch space is in use only by the request that holds the lock.        *)
ScratchUnderLock ==
    /\ \A r \in Requests : scratch[r] # None => holder = r
    /\ holder = None => used = leaked

(* A request that fails for want of scratch space would have failed alone: *)
(* it pays for what an earlier removal could not remove, and never for the *)
(* files of another verification.                                          *)
NoSpuriousEnospc ==
    \A r \in Requests : enospc[r] # None =>
        \/ enospc[r] + RepoSize > Capacity
        \/ /\ resolved[r] # None /\ Inputs[resolved[r]] # None
           /\ enospc[r] + RepoSize + HomeSize[Inputs[resolved[r]]] > Capacity

(* The server implements what VerifyOnce promises: an answer is true of    *)
(* the commit that the revision named at one moment after the question,    *)
(* whatever is pushed meanwhile; what the build read is what was hashed;   *)
(* the digest is of the compiler that ran; and an answer once delivered    *)
(* survives a crash.                                                       *)
Once == INSTANCE VerifyOnce WITH
            outcome <- [r \in Requests |-> CASE phase[r] = "done" -> reply[r]
                                             [] phase[r] = "lost" -> Lost
                                             [] OTHER -> None]
ImplementsVerifyOnce == Once!OnceSpec

(* A verification that never ends costs the service one worker thread: the *)
(* probes are answered even if no command ever ends and requests pile up.  *)
ProbesAnswered == \A p \in Probes : probe[p] # None ~> probe[p] = None

(* If every command ends, every request is answered or dropped: *)
(* the lock finds its way through failures, cancellations and crashes.     *)
RequestsSettle ==
    CommandsEnd => \A r \in Requests : phase[r] # "idle" ~> phase[r] \in {"done", "lost"}

=============================================================================
