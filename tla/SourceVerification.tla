-------------------------- MODULE SourceVerification --------------------------
(***************************************************************************)
(* The attestation contract, move/source-verification/sources/             *)
(* source_verification.move: the registry of module Enclave for the        *)
(* witness SourceVerifier, and the two functions the package adds.         *)
(*                                                                         *)
(* Abstractions.                                                           *)
(*  - A signature is the message it was made over together with its key,   *)
(*    so it verifies for exactly that message and nobody else can make it. *)
(*  - A payload is the package it is about and one value for everything    *)
(*    else it says (the source hash, the git fields, the toolchain).       *)
(*  - The `attestations` package is external: `attest` creates one object  *)
(*    and `register_display` works once per payload type.                  *)
(* Bounds: AttestationIds limits the attestations and MaxSignatures the    *)
(* signatures of one behaviour.                                            *)
(***************************************************************************)
EXTENDS Enclave, FiniteSets

CONSTANTS
    Publisher,       \* the account that publishes the package
    PkgIds,          \* on-chain packages
    Claims,          \* what a payload says about its package
    Timestamps,      \* the timestamps signers stamp
    AttestationIds,  \* UIDs of Attestation<SourceVerification>
    MaxSignatures    \* bound on the signatures made

ASSUME PublisherAssumption == Publisher \in Accounts

VERIFY_SCOPE == 0
Scopes       == 0 .. 1    \* the scope of this app and one of another

SourceVerificationPayload == [pkg_id : PkgIds, claim : Claims]
IntentMessage == [intent : Scopes, timestamp_ms : Timestamps,
                  payload : SourceVerificationPayload]
Signature     == [pk : Keys, message : IntentMessage]
Attestation   == [subject : PkgIds, payload : SourceVerificationPayload]

VARIABLES
    published,     \* the package exists, `init` has run
    signatures,    \* the signatures made so far
    attestations,  \* UID -> the attestation
    displayed,     \* `register_source_display` has run
    (* History: the call that recorded each attestation. *)
    recorded

contract == <<published, signatures, attestations, displayed, recorded>>
svVars   == <<vars, contract>>

Call == [enclave : EnclaveIds, config : ConfigIds, version : Versions]

SVTypeOK ==
    /\ TypeOK
    /\ published \in BOOLEAN
    /\ signatures \in SUBSET Signature
    /\ attestations \in [AttestationIds -> Attestation \cup {None}]
    /\ displayed \in BOOLEAN
    /\ recorded \in [AttestationIds -> Call \cup {None}]

SVInit ==
    /\ Init
    /\ published = FALSE
    /\ signatures = {}
    /\ attestations = [a \in AttestationIds |-> None]
    /\ displayed = FALSE
    /\ recorded = [a \in AttestationIds |-> None]

-----------------------------------------------------------------------------
(* Helpers *)

create_intent_message(intent, ts, payload) ==
    [intent |-> intent, timestamp_ms |-> ts, payload |-> payload]

(* `verify_signature`, and a slip of it that checks the key but rebuilds   *)
(* the message from the signature instead of from the caller's arguments.  *)
VerifySignatureOfAnything(e, scope, ts, payload, sig) == sig.pk = enclaves[e].pk
verify_signature(e, scope, ts, payload, sig) ==
    sig = [pk |-> enclaves[e].pk, message |-> create_intent_message(scope, ts, payload)]

(* `attest_source`'s first assertion, and the slip of leaving it out. *)
AnyVersion(e, c)   == Live(e) /\ Shared(c)
NotRotated(e, c)   == Live(e) /\ Shared(c) /\ config_version(e) = version(c)

-----------------------------------------------------------------------------
(* Actions *)

(* `init`, run once by the transaction that publishes the package. *)
Publish(cap) ==
    /\ ~published
    /\ NewCap(cap, Publisher)
    /\ published' = TRUE
    /\ UNCHANGED <<signatures, attestations, displayed, recorded>>

(* Everything the registry offers its users; the witness, and so `new_cap`, *)
(* is this package's alone.                                                 *)
RegistryCall ==
    /\ published
    /\ \/ CapAction
       \/ Removal
       \/ \E a \in Accounts, c \in ConfigIds, d \in Document, e \in EnclaveIds :
              RegisterEnclave(a, c, d, e)
    /\ UNCHANGED contract

(* External: the holder of a secret key signs a message of its choosing. *)
KeySigns(k, message) ==
    /\ Cardinality(signatures) < MaxSignatures
    /\ signatures' = signatures \cup {[pk |-> k, message |-> message]}
    /\ UNCHANGED <<vars, published, attestations, displayed, recorded>>

(* `attest_source`: the caller supplies the payload's fields, the timestamp *)
(* and the signature, and the payload is rebuilt from the fields.           *)
AttestSource(a, e, c, pkg_id, claim, ts, sig) ==
    LET payload == [pkg_id |-> pkg_id, claim |-> claim] IN
    /\ attestations[a] = None
    /\ NotRotated(e, c)
    /\ verify_signature(e, VERIFY_SCOPE, ts, payload, sig)
    /\ attestations' = [attestations EXCEPT ![a] = [subject |-> pkg_id, payload |-> payload]]
    /\ recorded' = [recorded EXCEPT ![a] = [enclave |-> e, config |-> c,
                                            version |-> version(c)]]
    /\ UNCHANGED <<vars, published, signatures, displayed>>

RegisterSourceDisplay ==
    /\ published /\ ~displayed
    /\ displayed' = TRUE
    /\ UNCHANGED <<vars, published, signatures, attestations, recorded>>

Attesting ==
    \E a \in AttestationIds, e \in EnclaveIds, c \in ConfigIds, p \in PkgIds,
       x \in Claims, ts \in Timestamps, sig \in signatures :
        AttestSource(a, e, c, p, x, ts, sig)

SVNext ==
    \/ \E cap \in CapIds : Publish(cap)
    \/ RegistryCall
    \/ \E k \in Keys, m \in IntentMessage : KeySigns(k, m)
    \/ Attesting
    \/ RegisterSourceDisplay

SVSpec == SVInit /\ [][SVNext]_svVars

-----------------------------------------------------------------------------
(* Properties *)

(* What an attestation says was signed, in this app's scope, by the key of *)
(* an enclave whose document committed to that key.  The caller chooses    *)
(* the fields, the timestamp, the enclave and the config.                  *)
AttestedWasSigned ==
    \A a \in AttestationIds : attestations[a] # None =>
        \E ts \in Timestamps :
            [pk |-> origin[recorded[a].enclave].document.public_key,
             message |-> create_intent_message(VERIFY_SCOPE, ts, attestations[a].payload)]
                \in signatures

(* "Rotation is enforced": every attestation was signed by the key of an   *)
(* enclave that had proved the very PCRs the caller's config expected when *)
(* the attestation was recorded.  The check compares two version numbers,  *)
(* and an Enclave does not say which config its number belongs to, so this *)
(* holds of deployments with one config only.                              *)
RotationIsEnforced ==
    \A a \in AttestationIds : recorded[a] # None =>
        LET r == recorded[a] IN
        origin[r.enclave].document.pcrs = rotations[r.config][r.version]

=============================================================================
