---------------------- MODULE SourceVerification_proofs ----------------------
(***************************************************************************)
(* Proofs about the attestation contract, for any number of enclaves,      *)
(* keys, packages, claims and attestations.                                *)
(***************************************************************************)
EXTENDS SourceVerification, Enclave_proofs

-----------------------------------------------------------------------------
(* The contract is a user of the registry *)

LEMMA StepIsRegistryStep == [SVNext]_svVars => [Next]_vars
<1> SUFFICES ASSUME [SVNext]_svVars PROVE [Next]_vars
  OBVIOUS
<1>1. CASE \E cap \in CapIds : Publish(cap)
  BY <1>1, PublisherAssumption DEF Publish, Next
<1>2. CASE RegistryCall
  BY <1>2 DEF RegistryCall, Next
<1>3. CASE \E k \in Keys, m \in IntentMessage : KeySigns(k, m)
  BY <1>3 DEF KeySigns
<1>4. CASE Attesting
  BY <1>4 DEF Attesting, AttestSource
<1>5. CASE RegisterSourceDisplay
  BY <1>5 DEF RegisterSourceDisplay
<1>6. CASE UNCHANGED svVars
  BY <1>6 DEF svVars
<1> QED BY <1>1, <1>2, <1>3, <1>4, <1>5, <1>6 DEF SVNext

(* Whatever is proved of the registry in Enclave_proofs holds of it under  *)
(* this package too.                                                       *)
THEOREM ContractUsesRegistry == SVSpec => Spec
<1>1. SVInit => Init
  BY DEF SVInit
<1> QED BY <1>1, StepIsRegistryStep, PTL DEF SVSpec, Spec

-----------------------------------------------------------------------------
(* Type correctness *)

LEMMA SVTypeStep == SVTypeOK /\ TypeOK' /\ [SVNext]_svVars => SVTypeOK'
<1> SUFFICES ASSUME SVTypeOK, TypeOK', [SVNext]_svVars PROVE SVTypeOK'
  OBVIOUS
<1>1. CASE \E cap \in CapIds : Publish(cap)
  BY <1>1 DEF Publish, SVTypeOK
<1>2. CASE RegistryCall
  BY <1>2 DEF RegistryCall, contract, SVTypeOK
<1>3. CASE \E k \in Keys, m \in IntentMessage : KeySigns(k, m)
  BY <1>3 DEF KeySigns, SVTypeOK, Signature
<1>4. ASSUME NEW a \in AttestationIds, NEW e \in EnclaveIds, NEW c \in ConfigIds,
             NEW p \in PkgIds, NEW x \in Claims, NEW ts \in Timestamps,
             NEW sig \in signatures, AttestSource(a, e, c, p, x, ts, sig)
      PROVE SVTypeOK'
  <2>1. version(c) \in Versions
    BY <1>4 DEF AttestSource, NotRotated, Shared, SVTypeOK, TypeOK, EnclaveConfig, version
  <2> QED BY <1>4, <2>1
          DEF AttestSource, SVTypeOK, Attestation, SourceVerificationPayload, Call
<1>5. CASE RegisterSourceDisplay
  BY <1>5 DEF RegisterSourceDisplay, SVTypeOK
<1>6. CASE UNCHANGED svVars
  BY <1>6 DEF svVars, contract, SVTypeOK
<1> QED BY <1>1, <1>2, <1>3, <1>4, <1>5, <1>6 DEF SVNext, Attesting

(* The contract's own state stays well formed beside the registry's.       *)
THEOREM ContractTypeCorrect == SVSpec => []SVTypeOK
<1>1. SVInit => SVTypeOK
  BY InitEstablishesIInv DEF SVInit, SVTypeOK, IInv
<1> QED BY <1>1, SVTypeStep, ContractUsesRegistry, TypeCorrect, PTL DEF SVSpec

-----------------------------------------------------------------------------
(* What was written stays written                                          *)

(* No step of the registry rewrites the document of an enclave that was    *)
(* registered, even after the enclave is deleted ...                       *)
LEMMA OriginsAreKept ==
    ASSUME TypeOK, [Next]_vars, NEW e \in EnclaveIds, enclaves[e] # None
    PROVE  enclaves'[e] # None /\ origin'[e] = origin[e]
<1>1. CASE UNCHANGED <<enclaves, origin>>
  BY <1>1
<1>2. CASE Removal
  BY <1>2, NullAssumption
     DEF Removal, DestroyOldEnclave, DeployOldEnclaveByOwner, TypeOK
<1>3. ASSUME NEW a \in Accounts, NEW c \in ConfigIds, NEW d \in Document,
             NEW x \in EnclaveIds, RegisterEnclave(a, c, d, x)
      PROVE  enclaves'[e] # None /\ origin'[e] = origin[e]
  BY <1>3 DEF RegisterEnclave, TypeOK
<1> QED BY <1>1, <1>2, <1>3
        DEF Next, vars, CapAction, NewCap, TransferCap, CreateEnclaveConfig, UpdatePcrs,
            UpdateName

(* ... or the PCRs a config expected at a version it has reached.          *)
LEMMA RotationsAreKept ==
    ASSUME TypeOK, [Next]_vars, NEW c \in ConfigIds, Shared(c),
           NEW v \in Versions, v <= version(c)
    PROVE  /\ Shared(c)' /\ v <= version(c)'
           /\ rotations'[c][v] = rotations[c][v]
<1>1. configs[c] \in EnclaveConfig /\ version(c) \in Nat /\ v \in Nat
  BY VersionAssumption DEF Shared, TypeOK, EnclaveConfig, version, Versions
<1>2. CASE UNCHANGED <<configs, rotations>>
  BY <1>2 DEF Shared, version
<1>3. ASSUME NEW a \in Accounts, NEW cap \in CapIds, NEW d \in ConfigIds,
             NEW n \in Names, NEW p \in Pcrs, CreateEnclaveConfig(a, cap, d, n, p)
      PROVE Shared(c)' /\ v <= version(c)' /\ rotations'[c][v] = rotations[c][v]
  BY <1>3 DEF CreateEnclaveConfig, TypeOK, Shared, version
<1>4. ASSUME NEW a \in Accounts, NEW cap \in CapIds, NEW d \in ConfigIds,
             NEW p \in Pcrs, UpdatePcrs(a, cap, d, p)
      PROVE configs'[c] \in EnclaveConfig /\ v <= version(c)'
            /\ rotations'[c][v] = rotations[c][v]
  <2>1. CASE c # d
    BY <1>1, <1>4, <2>1 DEF UpdatePcrs, TypeOK, version
  <2>2. CASE c = d
    <3> DEFINE new == [name |-> configs[c].name, pcrs |-> p,
                       capability_id |-> configs[c].capability_id,
                       version |-> version(c) + 1]
    <3>1. configs'[c] = [configs[c] EXCEPT !.pcrs = p, !.version = version(c) + 1]
      BY <1>4, <2>2 DEF UpdatePcrs, TypeOK, NextVersion
    <3>2. [configs[c] EXCEPT !.pcrs = p, !.version = version(c) + 1] = new
      BY <1>1, RotatedConfig
    <3>3. new \in EnclaveConfig
      BY <1>1, <1>4, <2>2, VersionAssumption
         DEF UpdatePcrs, CanIncrement, EnclaveConfig, Versions, version
    <3>4. rotations'[c] = [rotations[c] EXCEPT ![version(c) + 1] = p]
      BY <1>4, <2>2 DEF UpdatePcrs, TypeOK, NextVersion
    <3>5. rotations[c] \in [Versions -> Pcrs \cup {None}] /\ v # version(c) + 1
      BY <1>1 DEF TypeOK
    <3>6. rotations'[c][v] = rotations[c][v]
      BY <3>4, <3>5
    <3>7. version(c)' = version(c) + 1
      BY <3>1, <3>2 DEF version
    <3> QED BY <1>1, <3>1, <3>2, <3>3, <3>6, <3>7
  <2> QED BY <2>1, <2>2
<1>5. ASSUME NEW a \in Accounts, NEW cap \in CapIds, NEW d \in ConfigIds,
             NEW n \in Names, UpdateName(a, cap, d, n)
      PROVE configs'[c] \in EnclaveConfig /\ v <= version(c)'
            /\ rotations'[c][v] = rotations[c][v]
  BY <1>1, <1>5 DEF UpdateName, TypeOK, EnclaveConfig, version
<1>6. configs'[c] \in EnclaveConfig => Shared(c)'
  BY NullAssumption DEF Shared
<1> QED BY <1>2, <1>3, <1>4, <1>5, <1>6
        DEF Next, vars, CapAction, Removal, NewCap, TransferCap, RegisterEnclave,
            DestroyOldEnclave, DeployOldEnclaveByOwner

-----------------------------------------------------------------------------
(* Attestations *)

(* The message an attestation was recorded for, under the key its enclave  *)
(* proved, is among the signatures made.                                   *)
SignedAs(a) ==
    \E ts \in Timestamps :
        [pk |-> origin[recorded[a].enclave].document.public_key,
         message |-> create_intent_message(VERIFY_SCOPE, ts, attestations[a].payload)]
            \in signatures

Grounded(a) ==
    /\ recorded[a] \in Call
    /\ enclaves[recorded[a].enclave] # None
    /\ origin[recorded[a].enclave] \in Registration
    /\ Shared(recorded[a].config)
    /\ recorded[a].version <= version(recorded[a].config)
    /\ SignedAs(a)

AttestationInv ==
    \A a \in AttestationIds :
        (attestations[a] # None \/ recorded[a] # None) => Grounded(a)

LEMMA GroundedStaysGrounded ==
    ASSUME SVTypeOK, [Next]_vars, NEW a \in AttestationIds, Grounded(a),
           attestations'[a] = attestations[a], recorded'[a] = recorded[a],
           signatures \subseteq signatures'
    PROVE  Grounded(a)'
<1> DEFINE r == recorded[a]
<1>1. r.enclave \in EnclaveIds /\ r.config \in ConfigIds /\ r.version \in Versions
  BY DEF Grounded, Call
<1>2. enclaves'[r.enclave] # None /\ origin'[r.enclave] = origin[r.enclave]
  BY <1>1, OriginsAreKept DEF Grounded, SVTypeOK
<1>3. configs'[r.config] # None /\ r.version <= configs'[r.config].version
  BY <1>1, RotationsAreKept DEF Grounded, SVTypeOK, Shared, version
<1>4. SignedAs(a)'
  BY <1>2 DEF Grounded, SignedAs
<1> QED BY <1>2, <1>3, <1>4 DEF Grounded, Shared, version

LEMMA AttestSourceGrounds ==
    ASSUME IInv, SVTypeOK, NEW a \in AttestationIds, NEW e \in EnclaveIds,
           NEW c \in ConfigIds, NEW p \in PkgIds, NEW x \in Claims,
           NEW ts \in Timestamps, NEW sig \in signatures,
           AttestSource(a, e, c, p, x, ts, sig)
    PROVE  Grounded(a)'
<1> DEFINE payload == [pkg_id |-> p, claim |-> x]
<1>1. /\ Live(e) /\ Shared(c) /\ config_version(e) = version(c)
      /\ UNCHANGED <<configs, enclaves, rotations, origin, signatures>>
  BY DEF AttestSource, NotRotated, vars
<1>2. /\ recorded'[a] = [enclave |-> e, config |-> c, version |-> version(c)]
      /\ attestations'[a].payload = payload
  BY DEF AttestSource, SVTypeOK
<1>3. version(c) \in Versions /\ version(c) \in Nat
  BY <1>1, VersionAssumption
     DEF Shared, SVTypeOK, TypeOK, EnclaveConfig, Versions, version
<1>4. recorded'[a] \in Call
  BY <1>2, <1>3 DEF Call
<1>5. origin[e] \in Registration /\ enclaves[e].pk = origin[e].document.public_key
  BY <1>1 DEF IInv, OriginIsKnown
<1>6. sig = [pk |-> enclaves[e].pk,
             message |-> create_intent_message(VERIFY_SCOPE, ts, payload)]
  BY DEF AttestSource, verify_signature
<1>7. SignedAs(a)'
  <2>1. [pk |-> origin'[recorded'[a].enclave].document.public_key,
         message |-> create_intent_message(VERIFY_SCOPE, ts, attestations'[a].payload)]
            \in signatures'
    BY <1>1, <1>2, <1>5, <1>6
  <2> QED BY <2>1 DEF SignedAs, create_intent_message, VERIFY_SCOPE
<1> QED BY <1>1, <1>2, <1>3, <1>4, <1>5, <1>7 DEF Grounded, Live, Shared, version

LEMMA AttestationStep ==
    IInv /\ SVTypeOK /\ AttestationInv /\ [SVNext]_svVars => AttestationInv'
<1> SUFFICES ASSUME IInv, SVTypeOK, AttestationInv, [SVNext]_svVars
             PROVE  AttestationInv'
  OBVIOUS
<1>1. [Next]_vars
  BY StepIsRegistryStep
<1>2. CASE UNCHANGED <<attestations, recorded>> /\ signatures \subseteq signatures'
  BY <1>1, <1>2, GroundedStaysGrounded DEF AttestationInv
<1>3. ASSUME NEW a \in AttestationIds, NEW e \in EnclaveIds, NEW c \in ConfigIds,
             NEW p \in PkgIds, NEW x \in Claims, NEW ts \in Timestamps,
             NEW sig \in signatures, AttestSource(a, e, c, p, x, ts, sig)
      PROVE AttestationInv'
  <2>1. Grounded(a)'
    BY <1>3, AttestSourceGrounds
  <2>2. \A b \in AttestationIds \ {a} :
            attestations'[b] = attestations[b] /\ recorded'[b] = recorded[b]
    BY <1>3 DEF AttestSource, SVTypeOK
  <2>3. signatures \subseteq signatures'
    BY <1>3 DEF AttestSource
  <2> QED BY <1>1, <2>1, <2>2, <2>3, GroundedStaysGrounded DEF AttestationInv
<1> QED BY <1>2, <1>3
        DEF SVNext, Publish, RegistryCall, contract, KeySigns, Attesting,
            RegisterSourceDisplay, svVars

LEMMA ContractInvariants == SVSpec => [](IInv /\ SVTypeOK /\ AttestationInv)
<1>1. SVInit => IInv /\ AttestationInv
  BY InitEstablishesIInv DEF SVInit, AttestationInv
<1>2. IInv /\ TypeOK' /\ [SVNext]_svVars => IInv'
  BY StepIsRegistryStep, Inductive
<1> QED BY <1>1, <1>2, AttestationStep, ContractTypeCorrect, ContractUsesRegistry,
           TypeCorrect, PTL DEF SVSpec

(* Every attestation says what some enclave's key signed in this app's     *)
(* scope, whatever arguments callers pass and however many configs, caps   *)
(* and rotations there are.                                                *)
THEOREM AttestationsAreSigned == SVSpec => []AttestedWasSigned
<1>1. AttestationInv => AttestedWasSigned
  BY DEF AttestationInv, Grounded, SignedAs, AttestedWasSigned
<1> QED BY <1>1, ContractInvariants, PTL

-----------------------------------------------------------------------------
(* Rotation *)

LEMMA RotationStep ==
    ASSUME \A c, d \in ConfigIds : c = d
    PROVE  IInv /\ SVTypeOK /\ AttestationInv /\ RotationIsEnforced /\ [SVNext]_svVars
             => RotationIsEnforced'
<1> SUFFICES ASSUME IInv, SVTypeOK, AttestationInv, RotationIsEnforced, [SVNext]_svVars,
                    NEW a \in AttestationIds, recorded'[a] # None
             PROVE  origin'[recorded'[a].enclave].document.pcrs
                      = rotations'[recorded'[a].config][recorded'[a].version]
  BY DEF RotationIsEnforced
<1>1. CASE recorded'[a] = recorded[a]
  <2> DEFINE r == recorded[a]
  <2>1. Grounded(a) /\ [Next]_vars
    BY <1>1, StepIsRegistryStep DEF AttestationInv
  <2>2. r.enclave \in EnclaveIds /\ r.config \in ConfigIds /\ r.version \in Versions
    BY <2>1 DEF Grounded, Call
  <2>3. origin'[r.enclave] = origin[r.enclave]
    BY <2>1, <2>2, OriginsAreKept DEF Grounded, SVTypeOK
  <2>4. rotations'[r.config][r.version] = rotations[r.config][r.version]
    BY <2>1, <2>2, RotationsAreKept DEF Grounded, SVTypeOK
  <2> QED BY <1>1, <2>3, <2>4 DEF RotationIsEnforced
<1>2. CASE recorded'[a] # recorded[a]
  <2>1. Attesting
    BY <1>2 DEF SVNext, Publish, RegistryCall, contract, KeySigns,
                RegisterSourceDisplay, svVars
  <2>2. PICK b \in AttestationIds, e \in EnclaveIds, c \in ConfigIds, p \in PkgIds,
             x \in Claims, ts \in Timestamps, sig \in signatures :
             AttestSource(b, e, c, p, x, ts, sig)
    BY <2>1 DEF Attesting
  <2>3. b = a
    BY <1>2, <2>2 DEF AttestSource, SVTypeOK
  <2>4. /\ recorded'[a] = [enclave |-> e, config |-> c, version |-> version(c)]
        /\ Live(e) /\ Shared(c) /\ config_version(e) = version(c)
        /\ UNCHANGED <<rotations, origin>>
    BY <2>2, <2>3 DEF AttestSource, NotRotated, SVTypeOK, vars
  <2>5. origin[e].config = c
    BY <2>4 DEF IInv, OriginIsKnown, Registration
  <2>6. rotations[c][config_version(e)] = origin[e].document.pcrs
    BY <2>4, <2>5 DEF IInv, EnclaveProvedItsVersion
  <2> QED BY <2>4, <2>6
<1> QED BY <1>1, <1>2

(* With one config for the witness type, rotation is enforced: an          *)
(* attestation recorded while the config expected some PCRs was signed by  *)
(* an enclave that proved exactly those.                                   *)
THEOREM RotationEnforcedForOneConfig ==
    ASSUME \A c, d \in ConfigIds : c = d
    PROVE  SVSpec => []RotationIsEnforced
<1>1. SVInit => RotationIsEnforced
  BY DEF SVInit, RotationIsEnforced
<1> QED BY <1>1, RotationStep, ContractInvariants, PTL DEF SVSpec

=============================================================================
