-------------------------------- MODULE System --------------------------------
(***************************************************************************)
(* The whole service: enclaves that boot, attest, sign and die             *)
(* (src/nautilus-server), and the contract that registers them and records *)
(* what they sign (module SourceVerification).                             *)
(*                                                                         *)
(*  - A machine runs an image.  It generates its key at boot and keeps it  *)
(*    in memory only, so a restart is a new key; the Enclave object and    *)
(*    the attestation documents of the old key remain.                     *)
(*  - A document carries no nonce: once issued it can be presented again   *)
(*    at any later time, by anyone.                                        *)
(*  - An honest image signs, in this app's scope, only statements that are *)
(*    true; that is what VerifyServer shows of the server.  Any other      *)
(*    image signs whatever it likes.                                       *)
(*  - A signature can be submitted at any later time, by anyone.           *)
(***************************************************************************)
EXTENDS SourceVerification

CONSTANTS
    Machines,      \* hosts that run enclaves
    HonestImages,  \* the PCR values of images built from this repository
    TruePayloads   \* the payloads that are true

ASSUME SystemAssumption ==
    /\ HonestImages \subseteq PcrValues
    /\ TruePayloads \subseteq SourceVerificationPayload
    /\ None \notin PcrValues

VARIABLES
    machine,    \* host -> its running enclave: image and key, or None
    documents,  \* the attestation documents issued so far
    keyImage    \* key -> the image that generated it, None if nobody did

enclavesUp == <<machine, documents, keyImage>>
sysVars    == <<svVars, enclavesUp>>

Machine == [image : PcrValues, eph_kp : Keys]

SysTypeOK ==
    /\ SVTypeOK
    /\ machine \in [Machines -> Machine \cup {None}]
    /\ documents \in SUBSET [pcrs : Pcrs, public_key : Keys]
    /\ keyImage \in [Keys -> PcrValues \cup {None}]

SysInit ==
    /\ SVInit
    /\ machine = [m \in Machines |-> None]
    /\ documents = {}
    /\ keyImage = [k \in Keys |-> None]

-----------------------------------------------------------------------------
(* Enclaves *)

(* A fresh key; the slip restores the key of an earlier boot. *)
AnyKey(k)   == TRUE
FreshKey(k) == keyImage[k] = None

(* `main`: generate the ephemeral key, then serve. *)
Boot(m, image, k) ==
    /\ machine[m] = None
    /\ FreshKey(k)
    /\ machine' = [machine EXCEPT ![m] = [image |-> image, eph_kp |-> k]]
    /\ keyImage' = [keyImage EXCEPT ![k] = image]
    /\ UNCHANGED <<svVars, documents>>

(* The enclave dies, and the only copy of its secret key with it. *)
Die(m) ==
    /\ machine[m] # None
    /\ machine' = [machine EXCEPT ![m] = None]
    /\ UNCHANGED <<svVars, documents, keyImage>>

(* `get_attestation`: the PCRs of the image that asks, and its key. *)
GetAttestation(m) ==
    /\ machine[m] # None
    /\ documents' = documents \cup {[pcrs |-> machine[m].image,
                                     public_key |-> machine[m].eph_kp]}
    /\ UNCHANGED <<svVars, machine, keyImage>>

(* `process_data` ends in `to_signed_response`. *)
MaySign(m, message) ==
    machine[m].image \in HonestImages =>
        message.intent = VERIFY_SCOPE /\ message.payload \in TruePayloads

ProcessData(m, message) ==
    /\ machine[m] # None
    /\ MaySign(m, message)
    /\ KeySigns(machine[m].eph_kp, message)
    /\ UNCHANGED enclavesUp

-----------------------------------------------------------------------------
(* The chain *)

(* `load_nitro_attestation` accepts documents that were really issued. *)
Register(a, c, d, e) ==
    /\ published
    /\ RegisterEnclave(a, c, d, e)
    /\ UNCHANGED <<contract, enclavesUp>>

ChainCall ==
    /\ \/ \E cap \in CapIds : Publish(cap)
       \/ published /\ (CapAction \/ Removal) /\ UNCHANGED contract
       \/ Attesting
       \/ RegisterSourceDisplay
    /\ UNCHANGED enclavesUp

SysNext ==
    \/ \E m \in Machines :
        \/ \E i \in PcrValues, k \in Keys : Boot(m, i, k)
        \/ Die(m)
        \/ GetAttestation(m)
        \/ \E message \in IntentMessage : ProcessData(m, message)
    \/ \E a \in Accounts, c \in ConfigIds, d \in documents, e \in EnclaveIds :
           Register(a, c, d, e)
    \/ ChainCall

SysSpec == SysInit /\ [][SysNext]_sysVars

-----------------------------------------------------------------------------
(* Properties *)

(* The end-to-end promise: as long as every PCR value that any config has  *)
(* ever expected is that of an honest image, every attestation on chain is *)
(* true, whatever other images sign, whoever replays documents and         *)
(* responses, and however often enclaves die and are registered again.     *)
NoFalseAttestation ==
    (\A c \in ConfigIds, v \in Versions : rotations[c][v] \in HonestImages \cup {None})
        => \A a \in AttestationIds :
               attestations[a] # None => attestations[a].payload \in TruePayloads

(* The kill switch: once the PCRs are rotated to an honest image's, no     *)
(* further false attestation is recorded, although the dishonest image's   *)
(* documents, signatures and Enclave objects are all still there.          *)
RotationStopsFalseAttestations ==
    [][\A a \in AttestationIds :
           (attestations[a] = None /\ attestations'[a] # None
              /\ attestations'[a].payload \notin TruePayloads)
           => \E c \in ConfigIds : Shared(c) /\ configs[c].pcrs \notin HonestImages]_sysVars

(* The chain sees nothing but calls of the contract and of its registry.   *)
ImplementsContract == SVSpec

=============================================================================
