--------------------------- MODULE Deployment_proofs ---------------------------
(***************************************************************************)
(* Proofs about the whole service, for any number of machines, images,     *)
(* keys, requests, restarts, replays and rotations: first of module        *)
(* System, where an honest image is one that signs only true statements;   *)
(* then of Deployment, which implements it with servers, so that nothing   *)
(* is left to trust about what honest images sign, all that was shown      *)
(* holds of it, and an attestation can be traced to a request.             *)
(***************************************************************************)
EXTENDS Deployment, SourceVerification_proofs

-----------------------------------------------------------------------------
(* Enclaves and chain *)

EnclavesUpOK ==
    /\ machine \in [Machines -> Machine \cup {None}]
    /\ documents \in SUBSET [pcrs : Pcrs, public_key : Keys]
    /\ keyImage \in [Keys -> PcrValues \cup {None}]

(* A running enclave has an image and a key. *)
LEMMA RunningMachine ==
    ASSUME EnclavesUpOK, NEW m \in Machines, machine[m] # None
    PROVE  machine[m].image \in PcrValues /\ machine[m].eph_kp \in Keys
BY DEF EnclavesUpOK, Machine

LEMMA EnclavesUpStep == EnclavesUpOK /\ [SysNext]_sysVars => EnclavesUpOK'
<1> SUFFICES ASSUME EnclavesUpOK, [SysNext]_sysVars PROVE EnclavesUpOK'
  OBVIOUS
<1>1. ASSUME NEW m \in Machines, NEW i \in PcrValues, NEW k \in Keys, Boot(m, i, k)
      PROVE EnclavesUpOK'
  BY <1>1 DEF Boot, EnclavesUpOK, Machine
<1>2. ASSUME NEW m \in Machines, Die(m) PROVE EnclavesUpOK'
  BY <1>2 DEF Die, EnclavesUpOK
<1>3. ASSUME NEW m \in Machines, GetAttestation(m) PROVE EnclavesUpOK'
  BY <1>3, RunningMachine DEF GetAttestation, EnclavesUpOK, Pcrs
<1>4. CASE UNCHANGED enclavesUp
  BY <1>4 DEF enclavesUp, EnclavesUpOK
<1> QED BY <1>1, <1>2, <1>3, <1>4 DEF SysNext, ProcessData, Register, ChainCall, sysVars

LEMMA EnclavesUpCorrect == SysSpec => []EnclavesUpOK
<1>1. SysInit => EnclavesUpOK
  BY DEF SysInit, EnclavesUpOK
<1> QED BY <1>1, EnclavesUpStep, PTL DEF SysSpec

LEMMA StepIsContractStep == EnclavesUpOK /\ [SysNext]_sysVars => [SVNext]_svVars
<1> SUFFICES ASSUME EnclavesUpOK, [SysNext]_sysVars PROVE [SVNext]_svVars
  OBVIOUS
<1>1. CASE UNCHANGED svVars
  BY <1>1
<1>2. ASSUME NEW m \in Machines, NEW message \in IntentMessage, ProcessData(m, message)
      PROVE SVNext
  BY <1>2, RunningMachine DEF ProcessData, SVNext
<1>3. ASSUME NEW a \in Accounts, NEW c \in ConfigIds, NEW d \in documents,
             NEW e \in EnclaveIds, Register(a, c, d, e)
      PROVE SVNext
  <2>1. d \in Document
    BY DEF EnclavesUpOK, Document
  <2> QED BY <1>3, <2>1 DEF Register, SVNext, RegistryCall
<1>4. CASE ChainCall
  BY <1>4 DEF ChainCall, SVNext, RegistryCall
<1> QED BY <1>1, <1>2, <1>3, <1>4
        DEF SysNext, Boot, Die, GetAttestation, sysVars

(* The chain sees only calls of the contract and of its registry, so all   *)
(* that is proved of them holds of the service.                            *)
THEOREM ServiceUsesContract == SysSpec => ImplementsContract
<1>1. SysInit => SVInit
  BY DEF SysInit
<1> QED BY <1>1, StepIsContractStep, EnclavesUpCorrect, PTL
        DEF SysSpec, SVSpec, ImplementsContract

(* All state of the service keeps its type.                                *)
THEOREM ServiceTypeCorrect == SysSpec => []SysTypeOK
<1>1. SVTypeOK /\ EnclavesUpOK => SysTypeOK
  BY DEF SysTypeOK, EnclavesUpOK
<1> QED BY <1>1, ServiceUsesContract, ContractTypeCorrect, EnclavesUpCorrect, PTL
        DEF ImplementsContract

-----------------------------------------------------------------------------
(* Whose key it is                                                         *)
(*                                                                         *)
(* Between a config's PCRs and a signature stand a document and a key, and *)
(* both outlive the enclave they came from.  The invariant says that a key *)
(* belongs to one image for ever.                                          *)

KeyOfImage ==
    /\ \A m \in Machines : machine[m] # None =>
           keyImage[machine[m].eph_kp] = machine[m].image
    /\ \A d \in documents : keyImage[d.public_key] = d.pcrs

HonestKeysSignTheTruth ==
    \A s \in signatures :
        /\ keyImage[s.pk] # None
        /\ keyImage[s.pk] \in HonestImages =>
               s.message.intent = VERIFY_SCOPE /\ s.message.payload \in TruePayloads

(* A registered enclave, deleted or not, presented a document that was     *)
(* issued, of PCRs that its config expected at some version.               *)
Presented(e) ==
    LET o == origin[e] IN
    /\ o \in Registration
    /\ o.document \in documents
    /\ Shared(o.config)
    /\ \E v \in Versions : v <= version(o.config)
                             /\ rotations[o.config][v] = o.document.pcrs

OriginsWereIssued == \A e \in EnclaveIds : enclaves[e] # None => Presented(e)

SysInv == KeyOfImage /\ HonestKeysSignTheTruth /\ OriginsWereIssued

(* Keys are never given to another image. *)
LEMMA KeysAreKept ==
    ASSUME EnclavesUpOK, [SysNext]_sysVars
    PROVE  \A k \in Keys : keyImage[k] # None => keyImage'[k] = keyImage[k]
BY DEF EnclavesUpOK, SysNext, Boot, FreshKey, Die, GetAttestation, ProcessData, Register,
       ChainCall, enclavesUp, sysVars

LEMMA KeyOfImageStep ==
    ASSUME EnclavesUpOK, KeyOfImage, [SysNext]_sysVars
    PROVE  KeyOfImage'
<1> USE SystemAssumption
<1>1. ASSUME NEW m \in Machines, NEW i \in PcrValues, NEW k \in Keys, Boot(m, i, k)
      PROVE KeyOfImage'
  <2>1. /\ keyImage'[k] = i
        /\ machine'[m] = [image |-> i, eph_kp |-> k]
        /\ \A n \in Machines \ {m} : machine'[n] = machine[n]
        /\ documents' = documents
    BY <1>1 DEF Boot, EnclavesUpOK
  <2>2. \A d \in documents : d.public_key \in Keys /\ d.pcrs \in PcrValues
    BY DEF EnclavesUpOK, Pcrs
  <2>3. \A n \in Machines : machine[n] # None =>
            machine[n].eph_kp \in Keys /\ machine[n].image \in PcrValues
    BY RunningMachine
  <2> QED BY <2>1, <2>2, <2>3, KeysAreKept DEF KeyOfImage
<1>2. ASSUME NEW m \in Machines, Die(m) PROVE KeyOfImage'
  BY <1>2 DEF Die, EnclavesUpOK, KeyOfImage
<1>3. ASSUME NEW m \in Machines, GetAttestation(m) PROVE KeyOfImage'
  BY <1>3 DEF GetAttestation, KeyOfImage
<1>4. CASE UNCHANGED enclavesUp
  BY <1>4 DEF enclavesUp, KeyOfImage
<1> QED BY <1>1, <1>2, <1>3, <1>4 DEF SysNext, ProcessData, Register, ChainCall, sysVars

LEMMA SignaturesStep ==
    ASSUME EnclavesUpOK, SVTypeOK, KeyOfImage, HonestKeysSignTheTruth, [SysNext]_sysVars
    PROVE  HonestKeysSignTheTruth'
<1>1. \A s \in signatures : s.pk \in Keys
  BY DEF SVTypeOK, Signature
<1>2. CASE signatures' = signatures
  BY <1>1, <1>2, KeysAreKept DEF HonestKeysSignTheTruth
<1>3. ASSUME NEW m \in Machines, NEW message \in IntentMessage, ProcessData(m, message)
      PROVE HonestKeysSignTheTruth'
  <2>1. machine[m] # None /\ UNCHANGED keyImage
    BY <1>3 DEF ProcessData, enclavesUp
  <2>2. signatures' = signatures \cup {[pk |-> machine[m].eph_kp, message |-> message]}
    BY <1>3 DEF ProcessData, KeySigns
  <2>3. keyImage[machine[m].eph_kp] = machine[m].image /\ machine[m].image \in PcrValues
    BY <2>1, RunningMachine DEF KeyOfImage
  <2>4. machine[m].image \in HonestImages =>
            message.intent = VERIFY_SCOPE /\ message.payload \in TruePayloads
    BY <1>3 DEF ProcessData, MaySign
  <2> QED BY <2>1, <2>2, <2>3, <2>4, SystemAssumption DEF HonestKeysSignTheTruth
<1> QED BY <1>2, <1>3
        DEF SysNext, Boot, Die, GetAttestation, Register, ChainCall, Publish, CapAction,
            Removal, Attesting, AttestSource, RegisterSourceDisplay, contract, svVars,
            sysVars

(* What an enclave presented stays issued and expected. *)
LEMMA PresentedIsKept ==
    ASSUME TypeOK, [Next]_vars, documents \subseteq documents',
           NEW e \in EnclaveIds, enclaves[e] # None, Presented(e)
    PROVE  Presented(e)'
<1>1. origin'[e] = origin[e]
  BY OriginsAreKept
<1>2. origin[e].config \in ConfigIds
  BY DEF Presented, Registration
<1>3. PICK v \in Versions : /\ v <= version(origin[e].config)
                            /\ rotations[origin[e].config][v] = origin[e].document.pcrs
  BY DEF Presented
<1>4. /\ configs'[origin[e].config] # None
      /\ v <= configs'[origin[e].config].version
      /\ rotations'[origin[e].config][v] = origin[e].document.pcrs
  BY <1>2, <1>3, RotationsAreKept DEF Presented, Shared, version
<1> QED BY <1>1, <1>4 DEF Presented, Shared, version

LEMMA OriginsStep ==
    ASSUME EnclavesUpOK, IInv, OriginsWereIssued, [SysNext]_sysVars
    PROVE  OriginsWereIssued'
<1>1. [Next]_vars
  BY StepIsContractStep, StepIsRegistryStep
<1>2. documents \subseteq documents'
  BY DEF SysNext, Boot, Die, GetAttestation, ProcessData, Register, ChainCall, enclavesUp,
         sysVars
<1>3. \A e \in EnclaveIds : enclaves[e] # None => Presented(e)'
  BY <1>1, <1>2, PresentedIsKept DEF OriginsWereIssued, IInv
<1>4. ASSUME NEW a \in Accounts, NEW c \in ConfigIds, NEW d \in documents,
             NEW e \in EnclaveIds, Register(a, c, d, e)
      PROVE  Presented(e)' /\ \A x \in EnclaveIds \ {e} : enclaves'[x] = enclaves[x]
  <2>1. /\ Shared(c) /\ configs[c].pcrs = d.pcrs
        /\ origin'[e] = [config |-> c, document |-> d]
        /\ UNCHANGED <<configs, rotations>>
        /\ \A x \in EnclaveIds \ {e} : enclaves'[x] = enclaves[x]
    BY <1>4 DEF Register, RegisterEnclave, LoadsPk, to_pcrs, IInv, TypeOK
  <2>2. version(c) \in Versions /\ version(c) <= version(c)
    BY <2>1, VersionAssumption DEF Shared, IInv, TypeOK, EnclaveConfig, Versions, version
  <2>3. rotations[c][version(c)] = d.pcrs
    BY <2>1 DEF IInv, HistoryIsCurrent
  <2>4. d \in Document
    BY DEF EnclavesUpOK, Document
  <2> QED BY <1>2, <2>1, <2>2, <2>3, <2>4 DEF Presented, Registration, Shared, version
<1>5. CASE \A e \in EnclaveIds : enclaves'[e] # None => enclaves[e] # None
  BY <1>3, <1>5 DEF OriginsWereIssued
<1>6. CASE \E a \in Accounts, c \in ConfigIds, d \in documents, e \in EnclaveIds :
               Register(a, c, d, e)
  BY <1>3, <1>4, <1>6 DEF OriginsWereIssued
<1>7. ChainCall => \A e \in EnclaveIds : enclaves'[e] # None => enclaves[e] # None
  BY DEF ChainCall, Publish, NewCap, CapAction, TransferCap, CreateEnclaveConfig,
         UpdatePcrs, UpdateName, Removal, DestroyOldEnclave, DeployOldEnclaveByOwner,
         Live, Attesting, AttestSource, RegisterSourceDisplay, vars, IInv, TypeOK
<1> QED BY <1>5, <1>6, <1>7
        DEF SysNext, Boot, Die, GetAttestation, ProcessData, KeySigns, svVars, vars, sysVars

LEMMA ServiceInvariants ==
    SysSpec => [](EnclavesUpOK /\ IInv /\ SVTypeOK /\ AttestationInv /\ SysInv)
<1>1. SysInit => SysInv
  BY DEF SysInit, SVInit, Init, SysInv, KeyOfImage, HonestKeysSignTheTruth,
         OriginsWereIssued
<1>2. EnclavesUpOK /\ IInv /\ SVTypeOK /\ SysInv /\ [SysNext]_sysVars => SysInv'
  BY KeyOfImageStep, SignaturesStep, OriginsStep DEF SysInv
<1> QED BY <1>1, <1>2, EnclavesUpCorrect, ServiceUsesContract, ContractInvariants, PTL
        DEF SysSpec, ImplementsContract

-----------------------------------------------------------------------------
(* What the service promises *)

OnlyHonestExpected ==
    \A c \in ConfigIds, v \in Versions : rotations[c][v] \in HonestImages \cup {None}

(* If no config ever expected another image, it was an honest image's key  *)
(* that signed what an attestation says.                                   *)
LEMMA AnHonestKeySigned ==
    ASSUME EnclavesUpOK, AttestationInv, SVTypeOK, SysInv, OnlyHonestExpected,
           NEW a \in AttestationIds, attestations[a] # None
    PROVE  \E s \in signatures : /\ keyImage[s.pk] \in HonestImages
                                 /\ s.message.payload = attestations[a].payload
<1> DEFINE e == recorded[a].enclave
           d == origin[e].document
<1>1. Grounded(a)
  BY DEF AttestationInv
<1>2. e \in EnclaveIds /\ Presented(e)
  BY <1>1 DEF Grounded, Call, SysInv, OriginsWereIssued
<1>3. d \in documents /\ d.pcrs \in PcrValues /\ keyImage[d.public_key] = d.pcrs
  BY <1>2 DEF Presented, SysInv, KeyOfImage, EnclavesUpOK, Pcrs
<1>4. d.pcrs \in HonestImages
  BY <1>2, <1>3, SystemAssumption DEF Presented, Registration, OnlyHonestExpected
<1>5. PICK ts \in Timestamps :
          [pk |-> d.public_key,
           message |-> create_intent_message(VERIFY_SCOPE, ts, attestations[a].payload)]
              \in signatures
  BY <1>1 DEF Grounded, SignedAs
<1> QED BY <1>3, <1>4, <1>5 DEF create_intent_message

(* No attestation is false while only honest images have been expected.    *)
THEOREM NoFalseAttestationEver == SysSpec => []NoFalseAttestation
<1>1. EnclavesUpOK /\ AttestationInv /\ SVTypeOK /\ SysInv => NoFalseAttestation
  BY AnHonestKeySigned
     DEF NoFalseAttestation, OnlyHonestExpected, SysInv, HonestKeysSignTheTruth
<1> QED BY <1>1, ServiceInvariants, PTL

(* The kill switch works for a deployment with one config.                 *)
THEOREM RotationIsAKillSwitch ==
    ASSUME \A c, d \in ConfigIds : c = d
    PROVE  SysSpec => RotationStopsFalseAttestations
<1>1. EnclavesUpOK /\ IInv /\ SVTypeOK /\ SysInv /\ [SysNext]_sysVars =>
        [\A a \in AttestationIds :
             (attestations[a] = None /\ attestations'[a] # None
                /\ attestations'[a].payload \notin TruePayloads)
             => \E c \in ConfigIds : Shared(c) /\ configs[c].pcrs \notin HonestImages]_sysVars
  <2> SUFFICES ASSUME EnclavesUpOK, IInv, SVTypeOK, SysInv, SysNext,
                      NEW a \in AttestationIds, attestations[a] = None,
                      attestations'[a] # None, attestations'[a].payload \notin TruePayloads
               PROVE  \E c \in ConfigIds : Shared(c) /\ configs[c].pcrs \notin HonestImages
    OBVIOUS
  <2>1. Attesting
    BY DEF SysNext, Boot, Die, GetAttestation, ProcessData, KeySigns, Register, ChainCall,
           Publish, CapAction, Removal, RegisterSourceDisplay, contract, svVars
  <2>2. PICK b \in AttestationIds, e \in EnclaveIds, c \in ConfigIds, p \in PkgIds,
             x \in Claims, ts \in Timestamps, sig \in signatures :
             AttestSource(b, e, c, p, x, ts, sig)
    BY <2>1 DEF Attesting
  <2> DEFINE payload == [pkg_id |-> p, claim |-> x]
             d == origin[e].document
  <2>3. b = a /\ attestations'[a].payload = payload
    BY <2>2 DEF AttestSource, SVTypeOK
  <2>4. Live(e) /\ Shared(c) /\ config_version(e) = version(c)
    BY <2>2 DEF AttestSource, NotRotated
  <2>5. sig.pk = enclaves[e].pk /\ sig.message.payload = payload
    BY <2>2 DEF AttestSource, verify_signature, create_intent_message
  <2>6. enclaves[e].pk = d.public_key /\ origin[e].config = c
    BY <2>4 DEF IInv, OriginIsKnown, Registration
  <2>7. configs[c].pcrs = d.pcrs
    BY <2>4, <2>6, IInvImpliesCurrentMeansExpected DEF CurrentMeansExpected, Current
  <2>8. keyImage[sig.pk] = d.pcrs
    BY <2>4, <2>5, <2>6 DEF Live, SysInv, OriginsWereIssued, Presented, KeyOfImage
  <2>9. d.pcrs \notin HonestImages
    BY <2>3, <2>5, <2>8 DEF SysInv, HonestKeysSignTheTruth
  <2> QED BY <2>4, <2>7, <2>9
<1> QED BY <1>1, ServiceInvariants, PTL DEF SysSpec, RotationStopsFalseAttestations

-----------------------------------------------------------------------------
(* Requests and machines *)

Statements == {Once!Statement(c, env) : c \in Commits, env \in Envs}

RequestsTyped ==
    /\ remote \in [Revs -> Commits \cup {None}]
    /\ request \in [Requests -> Once!VerifyRequest \cup {None}]
    /\ resolved \in [Requests -> Commits \cup {None}]
    /\ outcome \in [Requests -> Statements \cup {None, Error, Lost}]
    /\ server \in [Requests -> Machines \cup {None}]
    /\ moves \in 0 .. MaxMoves

ResolvedWereAsked == \A r \in Requests : resolved[r] # None => request[r] # None

RequestsOK == RequestsTyped /\ ServersAreUp /\ ResolvedWereAsked

(* Whatever the machines and the chain do, a request only moves as it is   *)
(* served.                                                                 *)
LEMMA RequestsTypedStep ==
    ASSUME RequestsOK, [DeployNext]_deployVars
    PROVE  RequestsTyped' /\ ResolvedWereAsked'
<1> USE DeploymentAssumption
<1>1. ASSUME NEW r \in Requests, NEW m \in Machines, NEW q \in Once!VerifyRequest, Send(r, m, q)
      PROVE  RequestsTyped' /\ ResolvedWereAsked'
  BY <1>1 DEF Send, Once!Ask, RequestsOK, RequestsTyped, ResolvedWereAsked
<1>2. ASSUME NEW r \in Requests, Work(r) PROVE RequestsTyped' /\ ResolvedWereAsked'
  <2>1. CASE Once!Resolve(r)
    <3>1. remote[request[r].git_rev] \in Commits
      BY <2>1 DEF Once!Resolve, Once!VerifyRequest, RequestsOK, RequestsTyped
    <3> QED BY <1>2, <2>1, <3>1
            DEF Work, Once!Resolve, RequestsOK, RequestsTyped, ResolvedWereAsked
  <2>2. CASE Once!Refuse(r)
    BY <1>2, <2>2 DEF Work, Once!Refuse, RequestsOK, RequestsTyped, ResolvedWereAsked
  <2>3. CASE Once!Lose({r})
    BY <1>2, <2>3 DEF Work, Once!Lose, RequestsOK, RequestsTyped, ResolvedWereAsked
  <2> QED BY <1>2, <2>1, <2>2, <2>3 DEF Work
<1>3. ASSUME NEW r \in Requests, NEW ts \in Timestamps, AnswerRequest(r, ts)
      PROVE  RequestsTyped' /\ ResolvedWereAsked'
  <2>1. /\ outcome' = [outcome EXCEPT ![r] =
                           Once!Statement(resolved[r], request[r].build_env)]
        /\ resolved[r] # None
        /\ UNCHANGED <<remote, request, resolved, server, moves>>
    BY <1>3 DEF AnswerRequest, Once!Answer
  <2>2. resolved[r] \in Commits /\ request[r].build_env \in Envs
    BY <2>1 DEF Once!VerifyRequest, RequestsOK, RequestsTyped, ResolvedWereAsked
  <2>3. Once!Statement(resolved[r], request[r].build_env) \in Statements
    BY <2>2 DEF Statements
  <2> QED BY <2>1, <2>3 DEF RequestsOK, RequestsTyped, ResolvedWereAsked
<1>4. ASSUME NEW rev \in Revs, NEW c \in Commits \cup {None}, Push(rev, c)
      PROVE  RequestsTyped' /\ ResolvedWereAsked'
  BY <1>4 DEF Push, Once!Move, RequestsOK, RequestsTyped, ResolvedWereAsked
<1>5. ASSUME NEW m \in Machines, MachineDies(m) PROVE RequestsTyped' /\ ResolvedWereAsked'
  BY <1>5 DEF MachineDies, Once!Lose, RequestsOK, RequestsTyped, ResolvedWereAsked
<1>6. CASE UNCHANGED requestVars
  BY <1>6 DEF requestVars, RequestsOK, RequestsTyped, ResolvedWereAsked
<1> QED BY <1>1, <1>2, <1>3, <1>4, <1>5, <1>6
        DEF DeployNext, OtherImageSigns, Unaware, deployVars

LEMMA ServersAreUpStep ==
    ASSUME EnclavesUpOK, RequestsOK, [DeployNext]_deployVars
    PROVE  ServersAreUp'
<1> USE DeploymentAssumption
<1>1. ASSUME NEW r \in Requests, NEW m \in Machines, NEW q \in Once!VerifyRequest, Send(r, m, q)
      PROVE  ServersAreUp'
  BY <1>1 DEF Send, Once!Ask, Unanswered, Honest, RequestsOK, RequestsTyped, ServersAreUp,
              sysVars, enclavesUp
<1>2. ASSUME UNCHANGED <<machine, request, server>>,
             \A r \in Requests : outcome[r] # None => outcome'[r] # None
      PROVE  ServersAreUp'
  BY <1>2 DEF Unanswered, Honest, RequestsOK, ServersAreUp
<1>3. ASSUME NEW r \in Requests, Work(r) PROVE ServersAreUp'
  BY <1>2, <1>3 DEF Work, Once!Resolve, Once!Refuse, Once!Lose, RequestsOK, RequestsTyped,
                    sysVars, enclavesUp
<1>4. ASSUME NEW r \in Requests, NEW ts \in Timestamps, AnswerRequest(r, ts)
      PROVE  ServersAreUp'
  BY <1>2, <1>4 DEF AnswerRequest, Once!Answer, RequestsOK, RequestsTyped, enclavesUp
<1>5. ASSUME NEW rev \in Revs, NEW c \in Commits \cup {None}, Push(rev, c)
      PROVE  ServersAreUp'
  BY <1>2, <1>5 DEF Push, Once!Move, sysVars, enclavesUp
<1>6. ASSUME NEW m \in Machines, MachineDies(m) PROVE ServersAreUp'
  <2>1. /\ outcome' = [r \in Requests |-> IF r \in UnderWay(m) THEN Lost ELSE outcome[r]]
        /\ UNCHANGED <<request, server>>
        /\ \A n \in Machines \ {m} : machine'[n] = machine[n]
    BY <1>6 DEF MachineDies, Die, Once!Lose, EnclavesUpOK
  <2>2. \A r \in Requests : Unanswered(r)' => Unanswered(r) /\ server[r] # m
    BY <2>1 DEF Unanswered, UnderWay
  <2> QED BY <2>1, <2>2 DEF RequestsOK, ServersAreUp, Honest
<1>7. CASE UNCHANGED requestVars /\ \A m \in Machines : Honest(m) => machine'[m] = machine[m]
  BY <1>7 DEF requestVars, Unanswered, Honest, RequestsOK, ServersAreUp
<1>8. ASSUME NEW m \in Machines, NEW message \in IntentMessage, OtherImageSigns(m, message)
      PROVE  ServersAreUp'
  BY <1>7, <1>8 DEF OtherImageSigns, ProcessData, enclavesUp
<1>9. CASE Unaware
  BY <1>7, <1>9
     DEF Unaware, Honest, Boot, GetAttestation, Register, ChainCall, enclavesUp, EnclavesUpOK
<1>10. CASE UNCHANGED deployVars
  BY <1>7, <1>10 DEF deployVars, sysVars, enclavesUp
<1> QED BY <1>1, <1>3, <1>4, <1>5, <1>6, <1>8, <1>9, <1>10 DEF DeployNext

LEMMA RequestsOKInit == DeployInit => RequestsOK
BY DeploymentAssumption
   DEF DeployInit, Once!OnceInit, RequestsOK, RequestsTyped, ServersAreUp, ResolvedWereAsked,
       Unanswered

-----------------------------------------------------------------------------
(* The deployment is the service *)

(* What an honest machine answers is true, and signed with its own key.    *)
LEMMA AnswersAreTrue ==
    ASSUME RequestsOK, NEW r \in Requests, NEW ts \in Timestamps, AnswerRequest(r, ts)
    PROVE  LET s == Once!Statement(resolved[r], request[r].build_env) IN
           /\ server[r] \in Machines /\ Honest(server[r])
           /\ PayloadOf(s) \in TruePayloads
           /\ create_intent_message(VERIFY_SCOPE, ts, PayloadOf(s)) \in IntentMessage
<1> USE DeploymentAssumption, SystemAssumption
<1>1. Once!Answer(r)
  BY DEF AnswerRequest
<1>2. resolved[r] \in Commits /\ request[r] # None /\ outcome[r] = None
  BY <1>1 DEF Once!Answer, RequestsOK, RequestsTyped, ResolvedWereAsked
<1>3. server[r] \in Machines /\ Honest(server[r])
  BY <1>2 DEF RequestsOK, ServersAreUp, Unanswered
<1>4. PayloadOf(Once!Statement(resolved[r], request[r].build_env)) \in TruePayloads
  BY <1>1, <1>2 DEF Once!Answer
<1> QED BY <1>3, <1>4
        DEF create_intent_message, IntentMessage, Scopes, VERIFY_SCOPE

LEMMA StepIsServiceStep ==
    ASSUME RequestsOK, [DeployNext]_deployVars
    PROVE  [SysNext]_sysVars
<1>1. ASSUME NEW r \in Requests, NEW ts \in Timestamps, AnswerRequest(r, ts)
      PROVE  SysNext
  <2> DEFINE message ==
               create_intent_message(VERIFY_SCOPE, ts,
                   PayloadOf(Once!Statement(resolved[r], request[r].build_env)))
  <2>1. /\ server[r] \in Machines /\ machine[server[r]] # None
        /\ message \in IntentMessage
        /\ message.intent = VERIFY_SCOPE /\ message.payload \in TruePayloads
    BY <1>1, AnswersAreTrue DEF Honest, create_intent_message
  <2>2. KeySigns(machine[server[r]].eph_kp, message) /\ UNCHANGED enclavesUp
    BY <1>1 DEF AnswerRequest, SignsResolved
  <2>3. ProcessData(server[r], message)
    BY <2>1, <2>2 DEF ProcessData, MaySign
  <2> QED BY <2>1, <2>3 DEF SysNext
<1>2. ASSUME NEW m \in Machines, MachineDies(m) PROVE SysNext
  BY <1>2 DEF MachineDies, SysNext
<1>3. ASSUME NEW m \in Machines, NEW message \in IntentMessage, OtherImageSigns(m, message)
      PROVE  SysNext
  BY <1>3 DEF OtherImageSigns, SysNext
<1>4. CASE Unaware
  BY <1>4 DEF Unaware, SysNext
<1>5. CASE UNCHANGED sysVars
  BY <1>5
<1> QED BY <1>1, <1>2, <1>3, <1>4, <1>5 DEF DeployNext, Send, Work, Push, deployVars

LEMMA DeployInvariants == DeploySpec => [](EnclavesUpOK /\ RequestsOK)
<1>1. DeployInit => EnclavesUpOK
  BY DEF DeployInit, SysInit, EnclavesUpOK
<1>2. EnclavesUpOK /\ RequestsOK /\ [DeployNext]_deployVars => EnclavesUpOK' /\ RequestsOK'
  BY StepIsServiceStep, EnclavesUpStep, RequestsTypedStep, ServersAreUpStep DEF RequestsOK
<1> QED BY <1>1, <1>2, RequestsOKInit, PTL DEF DeploySpec

(* What System assumes of honest machines, the servers' promise provides:  *)
(* an honest machine signs true statements only, in this app's scope.      *)
THEOREM DeploymentIsService == DeploySpec => ImplementsSystem
<1>1. DeployInit => SysInit
  BY DEF DeployInit
<1>2. RequestsOK /\ [DeployNext]_deployVars => [SysNext]_sysVars
  BY StepIsServiceStep
<1> QED BY <1>1, <1>2, DeployInvariants, PTL DEF DeploySpec, SysSpec, ImplementsSystem

(* Every server of the deployment does as VerifyOnce promises. *)
THEOREM DeploymentKeepsPromises == DeploySpec => Once!OnceSpec
<1>1. DeployInit => Once!OnceInit
  BY DEF DeployInit
<1>2. [DeployNext]_deployVars => [Once!OnceNext]_Once!onceVars
  BY DEF DeployNext, deployVars, requestVars, Send, Work, AnswerRequest, Push, MachineDies,
         OtherImageSigns, Unaware, UnderWay, Once!OnceNext, Once!onceVars
<1> QED BY <1>1, <1>2, PTL DEF DeploySpec, Once!OnceSpec

(* All state of the deployment keeps its type, and a request that waits    *)
(* for its answer is with an honest machine that has been up ever since.   *)
THEOREM DeployTypeCorrect == DeploySpec => []DeployTypeOK
<1>1. RequestsOK /\ SysTypeOK => DeployTypeOK
  BY DEF RequestsOK, RequestsTyped, Statements, DeployTypeOK
<1> QED BY <1>1, DeployInvariants, DeploymentIsService, ServiceTypeCorrect, PTL
        DEF ImplementsSystem

(* No attestation of the deployment is false while only honest images have *)
(* been expected.                                                          *)
THEOREM NoFalseAttestationDeployed == DeploySpec => []NoFalseAttestation
BY DeploymentIsService, NoFalseAttestationEver, PTL DEF ImplementsSystem

-----------------------------------------------------------------------------
(* Where attestations come from *)

AnsweredWith(payload) ==
    \E r \in Requests :
        /\ Answered(r)
        /\ payload = PayloadOf(outcome[r])
        /\ outcome[r].git_sha = resolved[r]

HonestSignaturesAreAnswers ==
    \A s \in signatures :
        keyImage[s.pk] \in HonestImages => AnsweredWith(s.message.payload)

(* An answer is final. *)
LEMMA AnswersAreKept ==
    ASSUME RequestsOK, [DeployNext]_deployVars, NEW payload, AnsweredWith(payload)
    PROVE  AnsweredWith(payload)'
<1>1. PICK r \in Requests : /\ Answered(r)
                            /\ payload = PayloadOf(outcome[r])
                            /\ outcome[r].git_sha = resolved[r]
  BY DEF AnsweredWith
<1>2. outcome'[r] = outcome[r] /\ resolved'[r] = resolved[r]
  BY <1>1 DEF Answered, DeployNext, deployVars, requestVars, Send, Once!Ask, Work,
     Once!Resolve, Once!Refuse, Once!Lose, AnswerRequest, Once!Answer, Push, Once!Move,
     MachineDies, UnderWay, Unanswered, OtherImageSigns, Unaware, RequestsOK, RequestsTyped
<1> QED BY <1>1, <1>2 DEF AnsweredWith, Answered, PayloadOf

LEMMA SignaturesAreAnswersStep ==
    ASSUME EnclavesUpOK, RequestsOK, SVTypeOK, SysInv, HonestSignaturesAreAnswers,
           [DeployNext]_deployVars
    PROVE  HonestSignaturesAreAnswers'
<1>1. [SysNext]_sysVars
  BY StepIsServiceStep
<1>2. ASSUME NEW s \in signatures
      PROVE  (keyImage[s.pk] \in HonestImages => AnsweredWith(s.message.payload))'
  <2>1. s.pk \in Keys /\ keyImage[s.pk] # None
    BY DEF SVTypeOK, Signature, SysInv, HonestKeysSignTheTruth
  <2>2. keyImage'[s.pk] = keyImage[s.pk]
    BY <1>1, <2>1, KeysAreKept
  <2> QED BY <2>2, AnswersAreKept DEF HonestSignaturesAreAnswers
<1>3. CASE signatures' = signatures
  BY <1>2, <1>3 DEF HonestSignaturesAreAnswers
<1>4. ASSUME NEW r \in Requests, NEW ts \in Timestamps, AnswerRequest(r, ts)
      PROVE  HonestSignaturesAreAnswers'
  <2> DEFINE st == Once!Statement(resolved[r], request[r].build_env)
  <2>1. /\ resolved[r] \in Commits /\ request[r].build_env \in Envs
        /\ outcome' = [outcome EXCEPT ![r] = st] /\ resolved' = resolved
        /\ signatures' = signatures \cup
               {[pk |-> machine[server[r]].eph_kp,
                 message |-> create_intent_message(VERIFY_SCOPE, ts, PayloadOf(st))]}
    BY <1>4 DEF AnswerRequest, Once!Answer, Once!VerifyRequest, KeySigns, SignsResolved,
                RequestsOK, RequestsTyped, ResolvedWereAsked
  <2>2. st \notin {None, Error, Lost} /\ st.git_sha = resolved[r]
    BY <2>1, DeploymentAssumption DEF Once!Statement
  <2>3. outcome'[r] = st
    BY <2>1 DEF RequestsOK, RequestsTyped
  <2> HIDE DEF st
  <2>4. PICK payload : payload = PayloadOf(st)
    OBVIOUS
  <2>5. AnsweredWith(payload)'
    <3>1. Answered(r)' /\ outcome'[r].git_sha = resolved'[r]
      BY <2>1, <2>2, <2>3 DEF Answered
    <3>2. payload = PayloadOf(outcome[r])'
      BY <2>3, <2>4 DEF PayloadOf
    <3> QED BY <3>1, <3>2 DEF AnsweredWith
  <2>6. \A s \in signatures' : s \in signatures \/ s.message.payload = payload
    BY <2>1, <2>4 DEF create_intent_message
  <2> QED BY <1>2, <2>5, <2>6 DEF HonestSignaturesAreAnswers
<1>5. ASSUME NEW m \in Machines, NEW message \in IntentMessage, OtherImageSigns(m, message)
      PROVE  HonestSignaturesAreAnswers'
  <2>1. /\ machine[m] # None /\ machine[m].image \notin HonestImages
        /\ signatures' = signatures \cup {[pk |-> machine[m].eph_kp, message |-> message]}
        /\ keyImage' = keyImage
    BY <1>5 DEF OtherImageSigns, Honest, ProcessData, KeySigns, enclavesUp
  <2>2. keyImage[machine[m].eph_kp] = machine[m].image
    BY <2>1 DEF SysInv, KeyOfImage
  <2> QED BY <1>2, <2>1, <2>2 DEF HonestSignaturesAreAnswers
<1>6. CASE Unaware
  BY <1>3, <1>6
     DEF Unaware, Boot, GetAttestation, Register, ChainCall, Publish, CapAction, Removal,
         Attesting, AttestSource, RegisterSourceDisplay, contract, svVars
<1> QED BY <1>3, <1>4, <1>5, <1>6
        DEF DeployNext, Send, Work, Push, MachineDies, Die, deployVars, sysVars, svVars,
            contract

(* While only honest images were ever expected, an attestation says what a *)
(* server answered to a request, about the commit it resolved.             *)
THEOREM AttestationsComeFromRequests == DeploySpec => []AttestationsAnswerRequests
<1>1. DeployInit => HonestSignaturesAreAnswers
  BY DEF DeployInit, SysInit, SVInit, HonestSignaturesAreAnswers
<1>2. EnclavesUpOK /\ RequestsOK /\ SVTypeOK /\ SysInv /\ HonestSignaturesAreAnswers
        /\ [DeployNext]_deployVars => HonestSignaturesAreAnswers'
  BY SignaturesAreAnswersStep
<1>3. EnclavesUpOK /\ AttestationInv /\ SVTypeOK /\ SysInv /\ HonestSignaturesAreAnswers
        => AttestationsAnswerRequests
  BY AnHonestKeySigned
     DEF AttestationsAnswerRequests, OnlyHonestExpected, HonestSignaturesAreAnswers,
         AnsweredWith
<1>4. DeploySpec => SysSpec
  BY DeploymentIsService DEF ImplementsSystem
<1> QED BY <1>1, <1>2, <1>3, <1>4, DeployInvariants, ServiceInvariants, PTL DEF DeploySpec

=============================================================================
