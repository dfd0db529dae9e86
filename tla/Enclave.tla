------------------------------- MODULE Enclave -------------------------------
(***************************************************************************)
(* The on-chain enclave registry, move/enclave/sources/enclave.move, for   *)
(* one witness type T.                                                     *)
(*                                                                         *)
(* Each public function is an action; a transaction is atomic, so a        *)
(* function whose assertion fails is an action that is not enabled.        *)
(* Objects live in tables indexed by UIDs.  A UID is never reused: a table *)
(* entry goes from None to an object, and an enclave's from the object to  *)
(* Deleted.                                                                *)
(*                                                                         *)
(* Abstractions.                                                           *)
(*  - A triple Pcrs(pcr0, pcr1, pcr2) is one member of PcrValues.          *)
(*  - An attestation document is what `load_nitro_attestation` has already *)
(*    verified: the PCRs it carries and the public key, which a document   *)
(*    may lack.                                                            *)
(*  - MaxVersion stands for the largest u64: Move arithmetic aborts rather *)
(*    than wrap, so a rotation past it is not enabled.                     *)
(***************************************************************************)
EXTENDS Naturals

CONSTANTS
    Accounts,      \* addresses that send transactions
    PcrValues,     \* the PCR triples images measure to
    Keys,          \* ephemeral public keys
    Names,         \* names of enclave configs
    CapIds,        \* UIDs of Cap<T>
    ConfigIds,     \* UIDs of EnclaveConfig<T>
    EnclaveIds,    \* UIDs of Enclave<T>
    MaxVersion,    \* the largest config version
    None,          \* a UID not yet issued; no key in a document
    Deleted        \* an object whose UID was deleted

ASSUME VersionAssumption == MaxVersion \in Nat

Pcrs     == PcrValues
Versions == 0 .. MaxVersion

EnclaveConfig == [name : Names, pcrs : Pcrs, capability_id : CapIds, version : Versions]
EnclaveObject == [pk : Keys, config_version : Versions, owner : Accounts]
Document      == [pcrs : Pcrs, public_key : Keys \cup {None}]

ASSUME NullAssumption ==
    /\ None # Deleted
    /\ None \notin Accounts /\ None \notin Keys
    /\ None \notin EnclaveConfig
    /\ {None, Deleted} \cap EnclaveObject = {}

VARIABLES
    caps,       \* Cap<T>: UID -> the account that owns it
    configs,    \* EnclaveConfig<T>: UID -> the shared object
    enclaves,   \* Enclave<T>: UID -> the shared object
    (* History, read by no action. *)
    rotations,  \* config -> version -> the PCRs it expected at that version
    origin      \* enclave -> the config and the document it registered with

chain   == <<caps, configs, enclaves>>
history == <<rotations, origin>>
vars    == <<caps, configs, enclaves, rotations, origin>>

Registration == [config : ConfigIds, document : Document]

TypeOK ==
    /\ caps \in [CapIds -> Accounts \cup {None}]
    /\ configs \in [ConfigIds -> EnclaveConfig \cup {None}]
    /\ enclaves \in [EnclaveIds -> EnclaveObject \cup {None, Deleted}]
    /\ rotations \in [ConfigIds -> [Versions -> Pcrs \cup {None}]]
    /\ origin \in [EnclaveIds -> Registration \cup {None}]

Init ==
    /\ caps = [c \in CapIds |-> None]
    /\ configs = [c \in ConfigIds |-> None]
    /\ enclaves = [e \in EnclaveIds |-> None]
    /\ rotations = [c \in ConfigIds |-> [v \in Versions |-> None]]
    /\ origin = [e \in EnclaveIds |-> None]

-----------------------------------------------------------------------------
(* Helpers *)

Live(e)   == enclaves[e] \notin {None, Deleted}
Shared(c) == configs[c] # None

config_version(e) == enclaves[e].config_version
version(c)        == configs[c].version

to_pcrs(document) == document.pcrs

(* `assert_is_valid_for_config` *)
CapIsValidForConfig(cap, c) == cap = configs[c].capability_id

(* The version `update_pcrs` moves a config to, and two slips of it: the    *)
(* increment left out, and a counter that wraps.                           *)
VersionKept(c)    == version(c)
VersionWrapped(c) == (version(c) + 1) % MaxVersion
NextVersion(c)    == version(c) + 1

(* Adding 1 to a u64 aborts at its largest value; it does not wrap. *)
CanIncrement(c) == version(c) < MaxVersion

(* `destroy_old_enclave`'s comparison. *)
IsOld(e, c) == config_version(e) < version(c)

(* `load_pk`: the document must carry the PCRs the config expects now, and *)
(* `destroy_some` aborts on a document without a key.  Each slip drops one *)
(* of the two.                                                             *)
LoadsPkOfAnyImage(c, document) == document.public_key # None
LoadsPkWithoutKey(c, document) == to_pcrs(document) = configs[c].pcrs
LoadsPk(c, document) ==
    /\ to_pcrs(document) = configs[c].pcrs
    /\ document.public_key # None

-----------------------------------------------------------------------------
(* Actions *)

(* `new_cap`: the module that owns the witness T mints a cap. *)
NewCap(cap, holder) ==
    /\ caps[cap] = None
    /\ caps' = [caps EXCEPT ![cap] = holder]
    /\ UNCHANGED <<configs, enclaves, rotations, origin>>

(* A Cap has `store`, so its owner may transfer it (sui::transfer). *)
TransferCap(sender, cap, recipient) ==
    /\ caps[cap] = sender
    /\ caps' = [caps EXCEPT ![cap] = recipient]
    /\ UNCHANGED <<configs, enclaves, rotations, origin>>

CreateEnclaveConfig(sender, cap, c, name, pcrs) ==
    /\ caps[cap] = sender
    /\ configs[c] = None
    /\ configs' = [configs EXCEPT ![c] = [name |-> name, pcrs |-> pcrs,
                                          capability_id |-> cap, version |-> 0]]
    /\ rotations' = [rotations EXCEPT ![c][0] = pcrs]
    /\ UNCHANGED <<caps, enclaves, origin>>

RegisterEnclave(sender, c, document, e) ==
    /\ Shared(c)
    /\ LoadsPk(c, document)
    /\ enclaves[e] = None
    /\ enclaves' = [enclaves EXCEPT ![e] = [pk |-> document.public_key,
                                            config_version |-> version(c),
                                            owner |-> sender]]
    /\ origin' = [origin EXCEPT ![e] = [config |-> c, document |-> document]]
    /\ UNCHANGED <<caps, configs, rotations>>

UpdatePcrs(sender, cap, c, pcrs) ==
    /\ caps[cap] = sender
    /\ Shared(c)
    /\ CapIsValidForConfig(cap, c)
    /\ CanIncrement(c)
    /\ configs' = [configs EXCEPT ![c] = [@ EXCEPT !.pcrs = pcrs, !.version = NextVersion(c)]]
    /\ rotations' = [rotations EXCEPT ![c][NextVersion(c)] = pcrs]
    /\ UNCHANGED <<caps, enclaves, origin>>

UpdateName(sender, cap, c, name) ==
    /\ caps[cap] = sender
    /\ Shared(c)
    /\ CapIsValidForConfig(cap, c)
    /\ configs' = [configs EXCEPT ![c].name = name]
    /\ UNCHANGED <<caps, enclaves, rotations, origin>>

(* Anyone may call it, with any config of the type. *)
DestroyOldEnclave(e, c) ==
    /\ Live(e) /\ Shared(c)
    /\ IsOld(e, c)
    /\ enclaves' = [enclaves EXCEPT ![e] = Deleted]
    /\ UNCHANGED <<caps, configs, rotations, origin>>

DeployOldEnclaveByOwner(sender, e) ==
    /\ Live(e)
    /\ enclaves[e].owner = sender
    /\ enclaves' = [enclaves EXCEPT ![e] = Deleted]
    /\ UNCHANGED <<caps, configs, rotations, origin>>

CapAction ==
    \E a \in Accounts, cap \in CapIds :
        \/ \E b \in Accounts : TransferCap(a, cap, b)
        \/ \E c \in ConfigIds, n \in Names, p \in Pcrs : CreateEnclaveConfig(a, cap, c, n, p)
        \/ \E c \in ConfigIds, p \in Pcrs : UpdatePcrs(a, cap, c, p)
        \/ \E c \in ConfigIds, n \in Names : UpdateName(a, cap, c, n)

Removal ==
    \E e \in EnclaveIds :
        \/ \E c \in ConfigIds : DestroyOldEnclave(e, c)
        \/ \E a \in Accounts : DeployOldEnclaveByOwner(a, e)

Next ==
    \/ \E cap \in CapIds, a \in Accounts : NewCap(cap, a)
    \/ CapAction
    \/ \E a \in Accounts, c \in ConfigIds, d \in Document, e \in EnclaveIds :
           RegisterEnclave(a, c, d, e)
    \/ Removal

Spec == Init /\ [][Next]_vars

-----------------------------------------------------------------------------
(* Properties *)

Current(e, c) == Live(e) /\ Shared(c) /\ config_version(e) = version(c)
Stale(e, c)   == Live(e) /\ Shared(c) /\ config_version(e) < version(c)

(* Whoever compares an enclave's version with that of the config it        *)
(* registered with learns about PCRs: an enclave at the config's version   *)
(* proved, by its document, the PCRs the config expects now, and the key   *)
(* it carries is the one that document committed to.  A rotation that      *)
(* forgets the version, or a registration that takes the wrong one, breaks *)
(* this only after a later rotation.                                       *)
CurrentMeansExpected ==
    \A e \in EnclaveIds : Live(e) =>
        LET o == origin[e] IN
        /\ Shared(o.config)
        /\ enclaves[e].pk = o.document.public_key
        /\ Current(e, o.config) => o.document.pcrs = configs[o.config].pcrs

(* The version an enclave carries names, for ever, the PCRs it proved: the *)
(* PCRs its config expected at that version are those of its document.     *)
EnclaveProvedItsVersion ==
    \A e \in EnclaveIds : Live(e) =>
        LET o == origin[e] IN
        /\ config_version(e) <= version(o.config)
        /\ rotations[o.config][config_version(e)] = o.document.pcrs

(* A rotation is final for the enclaves it leaves behind: no later call,   *)
(* not even one that restores the old PCRs, makes a stale enclave current  *)
(* again for that config.                                                  *)
StaleStaysStale ==
    [][\A e \in EnclaveIds, c \in ConfigIds :
           Stale(e, c) /\ Live(e)' => Stale(e, c)']_vars

=============================================================================
