# A TLA+ development of the source verification service

The service tells, for a Move package on Sui, which source it was built from. An
AWS Nitro enclave clones a git repository, lets the Move compiler check that the
package directory compiles to the bytecode on chain, hashes the build inputs and
signs the result; a Move contract records what enclaves of the expected image
have signed. This directory models the parts that must be right for a recorded
attestation to be true, checks them with TLC on small instances, and proves the
main results with TLAPS for every value of the constants.

Paths below are relative to the repository; `nautilus-server/` stands for
`src/nautilus-server/`.

## 1. Inventory

| component | state it keeps | operations | who it meets |
|---|---|---|---|
| **Enclave registry** `move/enclave/sources/enclave.move` | shared objects: `Cap`, `EnclaveConfig` (PCRs, version), `Enclave` (key, version at registration, owner) | `new_cap`, `create_enclave_config`, `register_enclave`, `update_pcrs`, `update_name`, `destroy_old_enclave`, `deploy_old_enclave_by_owner`, `verify_signature` | called by the contract and by any account |
| **Attestation contract** `move/source-verification/sources/source_verification.move` | `Attestation` objects, the display registration | `init`, `attest_source`, `register_source_display` | the registry; the external `attestations` package |
| **Verification handler** `nautilus-server/src/apps/source-verification/mod.rs` | `VERIFY_LOCK`, one `Workdir` per request in scratch space, handler locals | `process_data` and the ten steps it is made of | git, `sui`, the remote repository, the fullnode; the tmpfs |
| **Source hash** `nautilus-server/src/source_hash.rs`, `src/bin/source-hash.rs`, `prune_except` | none of its own; reads and prunes a directory tree | `build_input_files`, `source_hash`, `prune_except` | the handler; consumers who reproduce a hash |
| **Conversions** `parse_pkg_id`, `IntentMessage` and the payload in `nautilus-server/src/` and in `source_verification.move`, the quoting in `attest_source.sh` | none | text to object id, payload to signed bytes (BCS) in Rust and again in Move, hex and back | between handler, script and contract |
| **Common endpoints** `nautilus-server/src/common.rs` | the results of a health check while it runs | `get_attestation`, `health_check` with `allowed_endpoints` and `check_endpoint`, `to_signed_response`, `ping` | the Nitro security module, the hosts of the image's endpoint list |
| **Boot** `nautilus-server/src/main.rs` | the ephemeral key pair, in memory only | start | everything that signs |
| **Start script** `nautilus-server/run.sh` | `/etc/hosts`, the sized tmpfs, the running forwarders | start | the host's vsock-proxies |
| **Egress configuration** `configure_enclave.sh`, `allowed_endpoints.yaml`, `run.sh` | three lists kept in different files | edit, launch an instance, build an image | the host |
| **Traffic forwarder** `nautilus-server/traffic_forwarder.py` | a listening socket, two sockets and two threads per connection | `server`, `forward` | TCP clients in the enclave, the host's vsock-proxies |
| **Client script** `attest_source.sh` | the developer's checkout, its remote-tracking branches, the response | the checks of the checkout, the request, the transaction | git, the server, the contract |
| **Operator scripts** `register_enclave.sh`, `expose_enclave.sh`, `reset_enclave.sh`, the rest of `configure_enclave.sh` | none | one command each | the server, the host, the chain |
| **Build and release** `Makefile`, `Containerfile`, workflows | none at run time | image build | — |

What makes each of them right, and what makes that hard:

* *Registry.* An `Enclave` carries only a version number. That number has to
  stand for PCRs through any order of rotations and registrations, with documents
  that have no nonce and can be presented again at any time, by anyone.
* *Contract.* The caller supplies every field of the payload; what is recorded
  must be what a key of an accepted enclave signed, and an enclave that was
  rotated away must be refused even if it signed before the rotation.
* *Handler.* Everything it promises is about interleavings and failures: one
  verification at a time through queueing, hand-over, client cancellation and
  crash; nothing left behind by any of nine early returns; one commit behind the
  hash, the git sha and the package although the branch moves; and a service that
  stays observable while a command hangs.
* *Source hash.* The tree is read four times while it shrinks, by two programs
  that have to come to the same result, in whatever order `readdir` gives.
* *Keys.* A restart is another key, while objects, documents and signatures of
  the old one live on.
* *Egress.* Host names, loopback addresses, ports and proxies agree only by
  position in lists that are edited, generated and deployed at different times.
* *Forwarder.* Two threads share two sockets and close both when a call raises;
  a server thread that raises is replaced while its port is still taken.
* *Health check.* It reads the list its image was built with, while names lead
  where `run.sh` and the instance say: it must notice when the three disagree, and
  only then.
* *Client script.* Its checks look at the checkout and at branches as they were
  fetched, the enclave at the remote as it is later; the answer must be about what
  was checked, or there must be none.
* *Conversions.* The signed bytes are built in one language and rebuilt in another
  from arguments that anyone may choose: they must agree on every honest answer
  and must not be readable as another one.

`PROJECT.json` lists these hazards at their lines with the properties that cover
them.

## 2. Modules

| module | models | builds on |
|---|---|---|
| `Enclave` | the registry, one action per public function | — |
| `SourceVerification` | the contract over the registry | `Enclave` |
| `System` | machines with honest and other images, documents, signatures, the chain: the end-to-end service | `SourceVerification` |
| `Deployment` | `System` whose honest machines sign what their servers found; implements `System` | `System`, `INSTANCE VerifyOnce` |
| `Packages` | the data of a verification (commits, inputs, on-chain bytecode), constants only | — |
| `VerifyOnce` | abstract specification: what one verification promises, no lock, files or tools | `Packages` |
| `VerifyServer` | the handler step by step, the lock, the scratch space, the runtime's workers, crashes; implements `VerifyOnce` | `Packages`, `INSTANCE VerifyOnce` |
| `BuildInputs` | abstract specification: what the source hash promises, in one step, no walk | — |
| `SourceHash` | listing, pruning and hashing a tree, by the enclave and by a consumer; implements `BuildInputs` | `INSTANCE BuildInputs` |
| `Wire` | conversions: object ids, signed bytes, hex; constant operators | — |
| `AttestScript` | one run of the client script between a developer, a remote that others move, an enclave and the contract | `Wire` |
| `Egress` | the lists, where a connection ends, and the health check | — |
| `Forwarder` | the accepting thread and the copying threads | — |
| `MC*` | values for TLC | the module of that name |
| `Enclave_proofs`, `SourceVerification_proofs` | theorems about the chain side | the second extends the first |
| `Deployment_proofs` | theorems about `System` and about its composition with the servers | `Deployment`, `SourceVerification_proofs` |
| `VerifyServer_proofs` | theorems about the handler: the lock; types, scratch space and the refinement | `VerifyServer` |
| `SourceHash_proofs` | theorems about walking, pruning and sorting, and the refinement of `BuildInputs` | `SourceHash` |
| `Egress_proofs`, `Forwarder_proofs`, `AttestScript_proofs` | theorems about where names lead and the health check; about the copying threads; about the conversions and the client script | the module of that name |

How state and actions correspond to the code:

* **Chain.** Objects live in tables indexed by UIDs, an entry going from `None`
  to an object and (enclaves) to `Deleted`, never back: UIDs are not reused. A
  transaction is atomic, so a function whose assertion fails is an action that is
  not enabled. `config_version(e) = version(c)` is the code's only test of
  currency (`NotRotated`). Versions are bounded by `MaxVersion`, standing for the
  largest u64: Move aborts on overflow. `rotations`, `origin` and `recorded` are
  history and read by no action. A signature is its key and its message, so that
  it verifies for exactly that message; a triple of PCRs, a payload's claim and
  a key are single values.
* **Handler.** `phase[r]` is the statement that `process_data` is at for request
  `r`. The only `await` is the lock, so only a waiting request can be dropped by
  its client (`Cancel`), and from then on the handler keeps its worker thread.
  `holder` and `queue` are tokio's FIFO mutex: unlocking hands the lock to the
  first waiter (`PassOn`), whose task runs later (`Admit`). Every `?` goes through
  `drop_workdir` and `drop_guard`, the reverse order of declaration. `git clone`
  copies all branches and tags as they are (`scratch[r].refs`); checkout,
  rev-parse, pruning, hashing and `verify-source` then work on that copy. The
  tmpfs has `Capacity` units; a command that does not fit fails with the file
  system full. Removing a `Workdir` may fail at any point and nobody is told: what
  stays counts as `leaked`. `Crash` takes memory and tmpfs.
* **Deployment.** A request is sent to a machine that runs an honest image, and
  is served as `VerifyOnce` says, which is what `VerifyServer` is shown to do. It
  dies with its machine. Answering and signing are one step, since a signature is
  seen by nobody before its answer; machines with other images sign anything.
* **Source hash.** The stack of directories still to visit is a set, any member
  of which may be next; a path's text is what `to_string_lossy` makes of it. A
  file stands for its contents, and a hash for the manifest that is digested.
  `BuildInputs` has the whole of it happen when a user's hash is there; walks and
  pruning are invisible steps.
* **Conversions.** A text is a sequence of symbols: the hex digits, and one symbol
  for all others. `Base` stands for 16 and `IdBytes` for 32, so that every short,
  long, odd and prefixed id can be enumerated; bytes are pairs of digits. What is
  signed is the sequence of bytes, and a signature verifies for exactly it.
* **Client script.** The developer edits, commits and pushes, then runs the script
  once and waits; others push and delete branches at any moment. `tracking` is
  what the checkout knows of the remote: a fetch may fail with a warning only, and
  does not prune. The enclave answers from the remote as it then is. `object` is what
  the script's environment names on chain: a rotation makes it stale, a restart before
  the answer leaves it with a key that does not sign. The transaction (`Submit`) ends in
  one of three ways: the contract records it, the contract aborts, or `sui client ptb`
  cannot read a text field, which the script puts between quotes, and sends nothing.
  (`shlex.quote` and `eval`, through which the fields come into the script, undo each
  other and are not modelled separately.) Once the script has ended, anyone may submit the
  response with any arguments and any enclave object; `Tried` bounds the arguments.
* **Egress.** Each list is a sequence; the host with number *n* in a list has
  address 127.0.0.(63+*n*) and port 8100+*n*. An image carries `run.sh` and
  `allowed_endpoints.yaml` as they were when it was built, and may have been
  generated with another instance. The health check asks the hosts of the image's
  list one by one; a name that leads to another host fails, since that host has no
  certificate for it. A list that is missing or garbled is an empty one, as documented
  (`common.rs:144-145`): the report is then empty, fails nobody, and can be told from a
  healthy one only by the hosts that are not in it. That is what `HealthyMeansReached`
  says of a report: which hosts it names, and what a good entry means.
* **Forwarder.** Of a stream only the number of chunks is kept. `blocked` is a
  thread inside `recv`, which `close` by the other thread does not wake; the peer
  is told only once that thread has left the call. `sending` is a thread inside
  `sendall`, which has no timeout: it returns when the kernels have room for the chunk,
  that is, when no more than `Room` chunks wait for the peer to read them, or when the
  peer has left. Any call of `server()` may raise, `start()` of a thread included: of
  the second copying thread, which leaves a connection with one, or of the successor,
  after which nobody listens any more (`unstarted`).

## 3. Runs

| run | instance | what it shows |
|---|---|---|
| `chain` | 1 cap, 1 config with 2 rotations, 2 enclaves, 2 accounts, 2 images, 2 keys, 1 signature | an enclave at its config's version proved the PCRs expected now (`CurrentMeansExpected`); its version names for ever the PCRs it proved (`EnclaveProvedItsVersion`); no call makes a stale enclave current (`StaleStaysStale`); an attestation says what a registered key signed in this scope (`AttestedWasSigned`); with one config, rotation is enforced (`RotationIsEnforced`) |
| `two_configs` | 2 configs under one cap | **violated**: `RotationIsEnforced`, see findings |
| `deployment` | an honest and a rogue image, 1 machine that may come back with the other, 2 keys, 1 request, 2 signatures, 2 commits, 1 push, replayed documents and responses | no attestation is false while honest images are expected (`NoFalseAttestation`), or after rotating back to one (`RotationStopsFalseAttestations`); each comes from a request (`AttestationsAnswerRequests`); and all this is the service of `System` (`ImplementsSystem`) |
| `server` | 3 requests (symmetric), 4 kinds of commit, 1 push, 1 crash, scratch for one verification, removals that may fail | `OneAtATime`, `LockIsNeverOrphaned`, `ScratchUnderLock`, `NoSpuriousEnospc`, and that the server implements `VerifyOnce` (`ImplementsVerifyOnce`) |
| `liveness` | 3 requests, 2 workers, 1 probe of 2 endpoints, 1 crash | probes are answered even if no command ends (`ProbesAnswered`); requests are settled if commands end (`RequestsSettle`) |
| `source_hash` | every tree over 8 paths | the hash covers exactly what the build can read (`HashCoversTheBuild`); the consumer's hash is the enclave's (`Reproducible`); symlinks are refused (`SymlinksAreRefused`); walking and pruning come to the same as listing in one step (`ImplementsBuildInputs`) |
| `lossy_names` | a source whose name is not UTF-8 | **violated**: `Reproducible`, see findings |
| `egress` | 2 instances, 2 edits of the endpoint list, garbled included, any interleaving of launching, checking out, building and checking | an image built from the `run.sh` generated with its instance reaches the hosts it names and no other (`GeneratedEgressIsRight`); a health report names the hosts of the image's list, and each it calls reachable is reached under its own name (`HealthyMeansReached`); where the egress is right and the hosts answer, all are (`WorkingEgressLooksHealthy`) |
| `canonical_egress` | the lists as committed | **violated**: `ForwardsToTheRespectiveDomains`, see findings |
| `forwarder` | 1 connection, 2 chunks each way, of which 1 fits the buffers, peers that read late or never, half-closes, departures and resets at any moment | the threads do not truncate each other (`NothingIsCutShort`), and unless one waits for ever for a peer that neither reads nor leaves, both end (`ThreadsEnd`); the forwarder listens again after an exception, if threads can be started (`ListensAgain`) |
| `attest_script` | 2 commits, 1 branch, 2 forms of origin, ids of 2 bytes of 2 binary digits, 69 addresses, 2 times, texts with and without a quote, a rotation and a restart | the answer is about the checked commit and its tracked files (`AnswerIsAboutTheCheckedCommit`); the signed id is the reported address (`PkgIdIsTheReportedAddress`); the transaction fails only for a rotation, a restart or a quote in a text (`RefusalsHaveACause`), and the contract takes no other reading of the response (`AcceptedIsWhatWasSigned`) |
| `untracked` | the same | **violated**: `AnswerIsAboutTheTree`, see findings |

Each module has one type invariant, checked in its first run.

**Why the bounds are enough.** On the chain, everything happens between one
config, one or two enclaves of it and two images; a version has to change twice
for a number to be reused or restored. In `server`, three requests are a holder,
the next owner that has been handed the lock but not polled, and one behind it;
the scratch space fits one verification and not two, so a leftover shows; one
push can fall between any two steps, and the four commits make every step fail
for its own reason. In `deployment` one machine is enough, since a second one
differs from it only in its key, and it can die and come back with the other
image and another key; two signatures are an old one and a new one. Three units of
scratch hold the largest verification that is to succeed, so that one unit left
over by a failed removal already makes the next one fail. `source_hash` has a manifest of each kind, nested and
non-Move files and a name for every rule of the walk. In `attest_script` a commit on
top of another, and a branch that may be at either or be gone, give every relation of
checkout, tracking branch and remote; texts of one and of two bytes, next to each
other, are what a missing length would confuse; `Tried` keeps the digest and all
quotes but those of the URL fixed in what others submit. In `forwarder` the second
chunk has to wait until the first one is read (`Room` = 1), so that a thread can be
inside `sendall` whatever the other one does. Where a bound only cuts
behaviours off (`MaxMoves`, `MaxCrashes`, `MaxSignatures`, `MaxEdits`, `Chunks`, the one run
of the client script), it is a guard of an environment action, never of the code; the proofs below are
for all its values.

**Deadlock.** All specifications end when their bounds are used up (or, the
forwarder, when its connections are gone), so the runs do not check deadlock; what
must not get stuck is stated as `LockIsNeverOrphaned`, `RequestsSettle`,
`ProbesAnswered`, `ThreadsEnd` and `ListensAgain`.

**Fairness.** `RuntimeFairness`: a tokio worker that is free polls tasks that can
run, so each request's handler step and each probe's poll is weakly fair.
Nothing is assumed of requests, clients, pushes and crashes. External commands (`git clone`, `checkout` and `rev-parse`, `sui`)
have no timeout in the code, so that they end is *not* assumed of the system: it is
the premise `CommandsEnd` within `RequestsSettle`, and `ProbesAnswered` does without.
There are two workers: the lock admits one verification, so one worker is always left
for the probes; with a single worker a hung command would take the probes with it. In
`Forwarder`, threads are scheduled and a thread's frame is freed after it raised; a
call that waits for a peer is enabled only by what the peer does, and nothing is assumed
of the peers. A thread inside `sendall` to a peer that neither reads nor leaves stays
there, which `ThreadsEnd` excepts by its premise: the code cannot promise more.
Likewise `ListensAgain` excepts the successor that cannot be started.

## 4. Findings

* `two_configs`. `attest_source` compares version numbers, and an `Enclave` does
  not say which config it was registered against
  (`source_verification.move:134`, `enclave.move:40-45`). Under a second config
  with the same version an enclave that was rotated away from the first is
  accepted for it. `DESIGN.md:112-117` says that rotation is immediate and without
  a window. Only the publisher can create configs of the type; with one config
  the property is proved.
* `lossy_names`. `collect_move_files` lists a name that is not UTF-8 by its lossy
  text (`source_hash.rs:103`). The enclave prunes the file it cannot name and
  signs a hash; the `source-hash` binary fails on the same checkout, although
  `source_hash.rs:6-9` says a consumer can reproduce the hash.
* `canonical_egress`. The committed `run.sh` numbers the endpoints in another
  order than `configure_enclave.sh` numbers the vsock-proxies from
  `allowed_endpoints.yaml`, so that two names lead to each other's host, against
  the comment at `run.sh:52`.
* `untracked`. `git diff --quiet HEAD -- .` (`attest_source.sh:57`) compares
  tracked files. A source file that was never added is compiled by the developer and
  hashed by `source-hash`, but is not in the commit the enclave attests, although
  `attest_source.sh:11-13` says that the checks stop such a divergence.

## 5. Proofs

Assumptions are the named `ASSUME`s of the modules: bounds are natural numbers,
`None` is not among the values it is distinguished from, images and payloads are
of their sets, and `PackagesAssumption`, `ScriptAssumption` and
`SourceHashAssumption`, the shape of the data. TLC evaluates all of them in its runs.

* **Registry** (`Enclave_proofs`). `TypeCorrect`, `VersionsStandForPcrs`
  (`CurrentMeansExpected`), `EnclavesProvedTheirVersion` and `StaleIsFinal`. The
  invariant `IInv` adds that the entry of `rotations` at a config's version is the
  PCRs it expects (`HistoryIsCurrent`), and that every live enclave came from a
  registration with a shared config and kept that document's key
  (`OriginIsKnown`): without them, nothing says that the number an enclave took
  at registration still means the same later.
* **Contract** (`SourceVerification_proofs`). The contract refines the registry
  (`ContractUsesRegistry`), so the above carries over; `ContractTypeCorrect`,
  `AttestationsAreSigned`, and `RotationEnforcedForOneConfig`, which *assumes one
  config*, as the finding shows it must. The invariant follows each attestation
  to a signature and to the registration of the enclave it was checked against,
  including enclaves deleted since.
* **Service** (`Deployment_proofs`, first part). The service refines the contract
  (`ServiceUsesContract`); `ServiceTypeCorrect`; `NoFalseAttestationEver`; and
  `RotationIsAKillSwitch`, for one config. The invariant links a key to
  the one image that ever generated it, documents and registered enclaves to that
  image, and every signature of an honest key to a true payload. That honest
  images sign the truth is the guard `MaySign` of `System`, taken on trust there.
* **Composition** (`Deployment_proofs`, second part). `DeploymentIsService` takes that trust
  away: every step of the deployment is a step of `System` or leaves it alone. When a
  machine signs, `RequestsOK` says that the request it answers has been with a running
  machine of an honest image since it was asked, so that the key is honest, and
  `VerifyOnce` that the statement is true of a commit. Then `System`'s theorems carry
  over (`DeployTypeCorrect`, `NoFalseAttestationDeployed`), and
  `AttestationsComeFromRequests` follows from `HonestSignaturesAreAnswers`, the
  invariant that traces each signature of an honest key to an answer. The
  assumption left is `DeploymentAssumption`: `TruePayloads` holds what is true of some
  commit.
* **Lock** (`VerifyServer_proofs`). `AdmitsOneAtATime` and `LockFindsItsWay`, for
  any number of requests. That only the holder runs is not inductive: the lock may
  go to the head of the queue, so `LockInv` also says that the queue holds waiting
  requests, each once, and never the holder.
* **Handler** (`VerifyServer_proofs`, second part). `ServerTypeCorrect`,
  `ScratchIsCleanedInTime`, `NobodyPaysForOthers`, and
  `ServerImplementsVerifyOnce`: a request is resolved when it is cloned and
  answered when its guard is dropped, every other step is invisible. `DataInv`
  says for each phase what the handler has established by then (`Knows`), that
  the space in use is that of the one `Workdir` there is (`UsedOK`), and which
  requests can have run out of space (`Spared`). `NobodyPaysForOthers` says that a
  request that does has done so alone, with nothing beside it but what failed removals
  left; those leftovers it may well pay for.
* **Source hash** (`SourceHash_proofs`). For every tree of every size:
  `HashTypeCorrect`, `HashCoversEveryBuild` and `SymlinksAlwaysRefused`, whatever the
  names are; `HashIsReproducible` and `SourceHashImplementsBuildInputs` if the names of
  sources are UTF-8 (`NamesAreUtf8`), which the run `lossy_names` shows has to be
  assumed. `HashInv` adds to the properties
  - `WalkInv`: there is a set of visited paths, whatever lies in a visited directory
    was visited or waits to be, and what is listed so far is exactly the listed texts of
    the visited. When nothing waits, nothing was missed: otherwise the missed paths
    would be a set without one whose parent is outside it, and directories nest;
  - `TreeInv`: pruning takes away nothing that is kept and at its end leaves nothing
    else, so that the second walk lists what the first one listed;
  - `AnswerInv`: who is done has an answer, and has refused what is to be refused.

  `Sorted` is shown to keep the texts of a list and to put them in order; a list in
  order that has no text twice is the only one of its set (`OneListing`), so the order of
  `readdir` does not show in the hash. That no text is there twice is counted: a list
  has as many places as it has texts. `SourceHashAssumption` says that the tree is
  finite and nests, that a lossy text is its own lossy text and keeps separators and
  extension, and that the order of texts is total.
* **Egress** (`Egress_proofs`). `EgressTypeCorrect`, `GeneratedEgressReaches`,
  `HealthIsEarned` and `HealthIsGranted`, for any lists and any number of edits. The names of a generated
  `run.sh` lead through its forwarders and the instance's proxies back to
  themselves, three numberings that compose to the identity; `EgressInv` says of what
  was generated with an instance that it has the instance's list, and of a health
  check that what it has answered and what it has still to ask are together the
  image's list, each answer as the egress stands.
* **Forwarder** (`Forwarder_proofs`). `ForwarderTypeCorrect` and
  `StreamsAreWhole`. Of a connection that no peer broke, `StreamOK` says that a thread
  past the end of its stream has passed all of it on, that a half is shut only by the
  thread that writes to it and has finished, and that sockets are closed only when
  both have.

* **Conversions and client script** (`AttestScript_proofs`). For any base, length of
  ids and texts: hex text is read back as the bytes it was made from
  (`HexRoundTrip`), the transaction's address literal as the id that was signed
  (`LiteralRoundTrip`); a text with its length first can be told from what follows it
  (`StringReadOneWay`), so that the signed bytes of two payloads differ
  (`PayloadReadOneWay`, `SignedReadOneWay`). `ScriptInv` says at each step of the script
  what it has established, and of a response that it is signed as it reads; from it
  follow `ScriptTypeCorrect`, `AnswersAreAboutTheCheckedCommit`, `RefusalsAreExplained`,
  `SignedBytesReadOneWay` and `PkgIdsAreReportedAddresses`. For the last, what a text
  of digits stands for is taken digit by digit: two digits to a byte stand for the same
  number, and zeros in front add nothing, however many are missing (`IdIsTheNumber`).
  Its induction is over positions in a text, stated of a set of numbers (`Induction`),
  which follows from the order of the naturals being well-founded. `ScriptAssumption`
  bounds the data: a text's bytes and its length fit a byte (the code's length prefix
  is of varying width, the model's is one byte), and a timestamp fits the u64 it is
  written as, so that two differ in their bytes.

Every invariant and every box property that a passing run checks, and every
refinement, is stated by a theorem. Only model-checked is liveness: `ProbesAnswered`,
`RequestsSettle`, `ThreadsEnd` and `ListensAgain`, since TLAPS has no ENABLED. The four
expected violations are counterexamples of TLC.

## 6. Not modelled

* `write_client_config` writes text for `sui`, `described` text for a person;
  `check_request` is one Boolean of a request. Timestamps are values nobody compares,
  so the clock of `now_ms` does not matter.
* The health check's rule for AWS hosts and the renaming of `kms` and
  `secretsmanager` hosts to a region: the list has no such host.
* How `sui client ptb` reads a quoted argument is external; the model takes it that a
  text without a quote is read as it is and one with a quote is refused. The shell's
  own quoting is left out, see above.
* The start order of `run.sh` and the operator scripts. What they leave to the
  operator: `expose_enclave.sh` sends the secrets once, after five seconds, and if
  the enclave does not listen by then its server never starts, although the
  script goes on; the host's vsock-proxies are started by user data, on the
  instance's first boot only.
* The image build and continuous integration have no state at run time.
* In the forwarder the backlog limit of 5, and the parts in which the kernel takes a
  chunk.
  Worth knowing: after an exception it refuses connections as long as one it
  accepted earlier lasts, since `bind` has no SO_REUSEADDR, and its successors
  retry in a tight loop.

## 7. Plan

Done: the core (registry, contract, service, handler) with its composition with the
servers, source hash with its abstract specification, egress with the health check,
the forwarder, client script and conversions: all modelled, checked and proved but for
liveness. Left, in this order:

1. `VerifyServer` with `BuildInputs` in place of the constants `Inputs` and
   `Extras`, which now stand for it by its comment only.
2. The boot of an enclave: the order in which `run.sh`, `expose_enclave.sh` and the
   host's proxies meet, and what a repeated or early call leaves behind.
3. Liveness end to end: that a request sent to a machine that stays up is answered
   and can be recorded, through `Deployment` and `VerifyServer`.
