---------------------------- MODULE Enclave_proofs ----------------------------
(***************************************************************************)
(* Proofs about module Enclave, for any number of caps, configs, enclaves, *)
(* keys and PCR values and any largest version.                            *)
(***************************************************************************)
EXTENDS Enclave, TLAPS

-----------------------------------------------------------------------------
(* Type correctness *)

(* Every function of the registry keeps the objects well formed; in        *)
(* particular no enclave is ever registered without a key.                 *)
THEOREM TypeCorrect == Spec => []TypeOK
<1>1. Init => TypeOK
  BY VersionAssumption DEF Init, TypeOK, Versions
<1>2. TypeOK /\ [Next]_vars => TypeOK'
  <2> SUFFICES ASSUME TypeOK, [Next]_vars PROVE TypeOK'
    OBVIOUS
  <2> USE VersionAssumption DEF TypeOK, Versions
  <2>1. ASSUME NEW cap \in CapIds, NEW a \in Accounts, NewCap(cap, a) PROVE TypeOK'
    BY <2>1 DEF NewCap
  <2>2. ASSUME NEW a \in Accounts, NEW cap \in CapIds, NEW b \in Accounts,
               TransferCap(a, cap, b)
        PROVE TypeOK'
    BY <2>2 DEF TransferCap
  <2>3. ASSUME NEW a \in Accounts, NEW cap \in CapIds, NEW c \in ConfigIds,
               NEW n \in Names, NEW p \in Pcrs, CreateEnclaveConfig(a, cap, c, n, p)
        PROVE TypeOK'
    BY <2>3 DEF CreateEnclaveConfig, EnclaveConfig
  <2>4. ASSUME NEW a \in Accounts, NEW cap \in CapIds, NEW c \in ConfigIds,
               NEW p \in Pcrs, UpdatePcrs(a, cap, c, p)
        PROVE TypeOK'
    <3>1. configs[c] \in EnclaveConfig
      BY <2>4 DEF UpdatePcrs, Shared
    <3>2. NextVersion(c) \in 0 .. MaxVersion
      BY <2>4, <3>1 DEF UpdatePcrs, CanIncrement, EnclaveConfig, NextVersion, version
    <3> QED BY <2>4, <3>1, <3>2 DEF UpdatePcrs, EnclaveConfig
  <2>5. ASSUME NEW a \in Accounts, NEW cap \in CapIds, NEW c \in ConfigIds,
               NEW n \in Names, UpdateName(a, cap, c, n)
        PROVE TypeOK'
    <3>1. configs[c] \in EnclaveConfig
      BY <2>5 DEF UpdateName, Shared
    <3> QED BY <2>5, <3>1 DEF UpdateName, EnclaveConfig
  <2>6. ASSUME NEW a \in Accounts, NEW c \in ConfigIds, NEW d \in Document,
               NEW e \in EnclaveIds, RegisterEnclave(a, c, d, e)
        PROVE TypeOK'
    <3>1. configs[c] \in EnclaveConfig /\ d.public_key \in Keys
      BY <2>6 DEF RegisterEnclave, Shared, LoadsPk, Document
    <3> QED BY <2>6, <3>1
        DEF RegisterEnclave, EnclaveObject, EnclaveConfig, Registration, version
  <2>7. ASSUME NEW e \in EnclaveIds, NEW c \in ConfigIds, DestroyOldEnclave(e, c)
        PROVE TypeOK'
    BY <2>7 DEF DestroyOldEnclave
  <2>8. ASSUME NEW a \in Accounts, NEW e \in EnclaveIds, DeployOldEnclaveByOwner(a, e)
        PROVE TypeOK'
    BY <2>8 DEF DeployOldEnclaveByOwner
  <2>9. CASE UNCHANGED vars
    BY <2>9 DEF vars
  <2> QED BY <2>1, <2>2, <2>3, <2>4, <2>5, <2>6, <2>7, <2>8, <2>9
      DEF Next, CapAction, Removal
<1> QED BY <1>1, <1>2, PTL DEF Spec

-----------------------------------------------------------------------------
(* Safety                                                                  *)
(*                                                                         *)
(* The version number is all an enclave keeps of its registration, so the  *)
(* invariants need what the number stands for: the history of the config   *)
(* is only ever extended, and its last entry is what the config expects.   *)

HistoryIsCurrent ==
    \A c \in ConfigIds : Shared(c) => rotations[c][version(c)] = configs[c].pcrs

OriginIsKnown ==
    \A e \in EnclaveIds : Live(e) =>
        /\ origin[e] \in Registration
        /\ Shared(origin[e].config)
        /\ enclaves[e].pk = origin[e].document.public_key

IInv == TypeOK /\ HistoryIsCurrent /\ OriginIsKnown /\ EnclaveProvedItsVersion

LEMMA InitEstablishesIInv == Init => IInv
BY VersionAssumption
   DEF Init, IInv, TypeOK, HistoryIsCurrent, OriginIsKnown, EnclaveProvedItsVersion,
       Live, Shared, Versions

(* At the version it carries, an enclave's document matches its config.    *)
LEMMA IInvImpliesCurrentMeansExpected == IInv => CurrentMeansExpected
<1> SUFFICES ASSUME IInv, NEW e \in EnclaveIds, Live(e)
             PROVE /\ Shared(origin[e].config)
                   /\ enclaves[e].pk = origin[e].document.public_key
                   /\ Current(e, origin[e].config) =>
                        origin[e].document.pcrs = configs[origin[e].config].pcrs
  BY DEF CurrentMeansExpected
<1>1. Shared(origin[e].config) /\ origin[e].config \in ConfigIds
      /\ enclaves[e].pk = origin[e].document.public_key
  BY DEF IInv, OriginIsKnown, Registration
<1>2. rotations[origin[e].config][version(origin[e].config)]
        = configs[origin[e].config].pcrs
  BY <1>1 DEF IInv, HistoryIsCurrent
<1>3. rotations[origin[e].config][config_version(e)] = origin[e].document.pcrs
  BY DEF IInv, EnclaveProvedItsVersion
<1> QED BY <1>1, <1>2, <1>3 DEF Current

(* What a rotation does to a config, field by field.                       *)
LEMMA RotatedConfig ==
    ASSUME NEW r \in EnclaveConfig, NEW p, NEW v
    PROVE  [r EXCEPT !.pcrs = p, !.version = v]
             = [name |-> r.name, pcrs |-> p, capability_id |-> r.capability_id, version |-> v]
<1>1. r = [name |-> r.name, pcrs |-> r.pcrs, capability_id |-> r.capability_id,
           version |-> r.version]
  BY DEF EnclaveConfig
<1> DEFINE s == [name |-> r.name, pcrs |-> p, capability_id |-> r.capability_id,
                 version |-> r.version]
<1>2. [r EXCEPT !.pcrs = p] = s
  BY <1>1
<1>3. [s EXCEPT !.version = v]
        = [name |-> r.name, pcrs |-> p, capability_id |-> r.capability_id, version |-> v]
  OBVIOUS
<1> QED BY <1>2, <1>3

(* The steps that leave configs, their history and the enclaves alone.     *)
LEMMA QuietStepKeepsIInv ==
    ASSUME IInv, TypeOK', UNCHANGED <<configs, enclaves, rotations, origin>>
    PROVE  IInv'
BY DEF IInv, HistoryIsCurrent, OriginIsKnown, EnclaveProvedItsVersion, Live, Shared,
       version, config_version

(* Deleting an enclave leaves the others as they were.                     *)
LEMMA DeletionKeepsIInv ==
    ASSUME IInv, TypeOK', NEW e \in EnclaveIds,
           enclaves' = [enclaves EXCEPT ![e] = Deleted],
           UNCHANGED <<configs, rotations, origin>>
    PROVE  IInv'
<1>1. \A x \in EnclaveIds : Live(x)' => Live(x) /\ enclaves'[x] = enclaves[x]
  BY DEF Live, IInv, TypeOK
<1> QED BY <1>1 DEF IInv, HistoryIsCurrent, OriginIsKnown, EnclaveProvedItsVersion,
                    Shared, version, config_version

(* A step that replaces one config, by one at the same or the next version *)
(* with the history extended to match, keeps what the enclaves proved.     *)
LEMMA ConfigStepKeepsIInv ==
    ASSUME IInv, TypeOK', NEW c \in ConfigIds, NEW new \in EnclaveConfig,
           configs' = [configs EXCEPT ![c] = new],
           rotations' = [rotations EXCEPT ![c][new.version] = new.pcrs],
           Shared(c) => \/ new.version = version(c) + 1
                        \/ new.version = version(c) /\ new.pcrs = configs[c].pcrs,
           UNCHANGED <<enclaves, origin>>
    PROVE  IInv'
<1> USE DEF IInv, TypeOK
<1>1. /\ configs'[c] = new
      /\ \A d \in ConfigIds \ {c} : configs'[d] = configs[d] /\ rotations'[d] = rotations[d]
      /\ rotations'[c] = [rotations[c] EXCEPT ![new.version] = new.pcrs]
  OBVIOUS
<1>2. new \in EnclaveConfig /\ new.version \in Versions /\ new # None
  BY NullAssumption DEF EnclaveConfig
<1>3. rotations'[c][new.version] = new.pcrs
  BY <1>1, <1>2
<1>4. HistoryIsCurrent'
  BY <1>1, <1>2, <1>3 DEF HistoryIsCurrent, Shared, version
<1>5. OriginIsKnown'
  BY <1>1, <1>2 DEF OriginIsKnown, Live, Shared
<1>6. EnclaveProvedItsVersion'
  <2> SUFFICES ASSUME NEW e \in EnclaveIds, Live(e)
               PROVE /\ config_version(e) <= version(origin[e].config)'
                     /\ rotations'[origin[e].config][config_version(e)]
                          = origin[e].document.pcrs
    BY DEF EnclaveProvedItsVersion, Live, config_version
  <2>1. /\ config_version(e) <= version(origin[e].config)
        /\ rotations[origin[e].config][config_version(e)] = origin[e].document.pcrs
    BY DEF EnclaveProvedItsVersion
  <2>2. /\ enclaves[e] \in EnclaveObject /\ config_version(e) \in Versions
        /\ origin[e].config \in ConfigIds /\ Shared(origin[e].config)
    BY DEF Live, EnclaveObject, config_version, OriginIsKnown, Registration
  <2>3. CASE origin[e].config # c
    BY <1>1, <2>1, <2>2, <2>3 DEF version
  <2>4. CASE origin[e].config = c
    <3>1. configs[c] \in EnclaveConfig /\ version(c) \in Versions
      BY <2>2, <2>4 DEF Shared, EnclaveConfig, version
    <3>2. rotations[c][version(c)] = configs[c].pcrs
      BY <2>2, <2>4 DEF HistoryIsCurrent
    <3>3. CASE new.version = version(c) + 1
      BY <1>1, <1>2, <2>1, <2>2, <2>4, <3>1, <3>3, VersionAssumption DEF version, Versions
    <3>4. CASE new.version = version(c) /\ new.pcrs = configs[c].pcrs
      BY <1>1, <1>2, <2>1, <2>2, <2>4, <3>1, <3>2, <3>4 DEF version
    <3> QED BY <2>2, <2>4, <3>3, <3>4
  <2> QED BY <2>3, <2>4
<1> QED BY <1>4, <1>5, <1>6

THEOREM Inductive == IInv /\ TypeOK' /\ [Next]_vars => IInv'
<1> SUFFICES ASSUME IInv, TypeOK', [Next]_vars PROVE IInv'
  OBVIOUS
<1>1. ASSUME NEW cap \in CapIds, NEW a \in Accounts, NewCap(cap, a) PROVE IInv'
  BY <1>1, QuietStepKeepsIInv DEF NewCap
<1>2. ASSUME NEW a \in Accounts, NEW cap \in CapIds, NEW b \in Accounts,
             TransferCap(a, cap, b)
      PROVE IInv'
  BY <1>2, QuietStepKeepsIInv DEF TransferCap
<1>3. ASSUME NEW a \in Accounts, NEW cap \in CapIds, NEW c \in ConfigIds,
             NEW n \in Names, NEW p \in Pcrs, CreateEnclaveConfig(a, cap, c, n, p)
      PROVE IInv'
  <2> DEFINE new == [name |-> n, pcrs |-> p, capability_id |-> cap, version |-> 0]
  <2>1. new \in EnclaveConfig
    BY VersionAssumption DEF EnclaveConfig, Versions
  <2>2. ~Shared(c)
    BY <1>3 DEF CreateEnclaveConfig, Shared
  <2>3. /\ configs' = [configs EXCEPT ![c] = new]
        /\ rotations' = [rotations EXCEPT ![c][new.version] = new.pcrs]
        /\ UNCHANGED <<enclaves, origin>>
    BY <1>3 DEF CreateEnclaveConfig
  <2> HIDE DEF new
  <2> QED BY <2>1, <2>2, <2>3, ConfigStepKeepsIInv
<1>4. ASSUME NEW a \in Accounts, NEW cap \in CapIds, NEW c \in ConfigIds,
             NEW p \in Pcrs, UpdatePcrs(a, cap, c, p)
      PROVE IInv'
  <2> DEFINE new == [name |-> configs[c].name, pcrs |-> p,
                     capability_id |-> configs[c].capability_id, version |-> version(c) + 1]
  <2>1. configs[c] \in EnclaveConfig
    BY <1>4 DEF UpdatePcrs, Shared, IInv, TypeOK
  <2>2. /\ new \in EnclaveConfig /\ new.version = version(c) + 1 /\ new.pcrs = p
    BY <1>4, <2>1, VersionAssumption DEF UpdatePcrs, CanIncrement, EnclaveConfig, Versions, version
  <2>3. /\ configs' = [configs EXCEPT ![c] = new]
        /\ UNCHANGED <<enclaves, origin>>
    <3>1. configs' = [configs EXCEPT ![c] = [configs[c] EXCEPT !.pcrs = p,
                                                               !.version = version(c) + 1]]
          /\ UNCHANGED <<enclaves, origin>>
      BY <1>4 DEF UpdatePcrs, NextVersion
    <3>2. [configs[c] EXCEPT !.pcrs = p, !.version = version(c) + 1] = new
      BY <2>1, RotatedConfig
    <3> QED BY <3>1, <3>2
  <2>4. rotations' = [rotations EXCEPT ![c][new.version] = new.pcrs]
    BY <1>4, <2>2 DEF UpdatePcrs, NextVersion
  <2> HIDE DEF new
  <2> QED BY <2>2, <2>3, <2>4, ConfigStepKeepsIInv
<1>5. ASSUME NEW a \in Accounts, NEW cap \in CapIds, NEW c \in ConfigIds,
             NEW n \in Names, UpdateName(a, cap, c, n)
      PROVE IInv'
  <2> DEFINE new == [configs[c] EXCEPT !.name = n]
  <2>1. configs[c] \in EnclaveConfig /\ Shared(c)
    BY <1>5 DEF UpdateName, Shared, IInv, TypeOK
  <2>2. /\ new \in EnclaveConfig /\ new.version = version(c) /\ new.pcrs = configs[c].pcrs
    BY <2>1 DEF EnclaveConfig, version
  <2>3. /\ configs' = [configs EXCEPT ![c] = new]
        /\ UNCHANGED <<enclaves, origin>>
    BY <1>5, <2>1 DEF UpdateName, EnclaveConfig, IInv, TypeOK
  <2>4. rotations[c][version(c)] = configs[c].pcrs
    BY <2>1 DEF IInv, HistoryIsCurrent
  <2>5. rotations' = [rotations EXCEPT ![c][new.version] = new.pcrs]
    BY <1>5, <2>2, <2>4 DEF UpdateName, IInv, TypeOK
  <2> HIDE DEF new
  <2> QED BY <2>2, <2>3, <2>5, ConfigStepKeepsIInv
<1>6. ASSUME NEW a \in Accounts, NEW c \in ConfigIds, NEW d \in Document,
             NEW e \in EnclaveIds, RegisterEnclave(a, c, d, e)
      PROVE IInv'
  <2> DEFINE obj == [pk |-> d.public_key, config_version |-> version(c), owner |-> a]
             reg == [config |-> c, document |-> d]
  <2>1. /\ configs[c] \in EnclaveConfig /\ Shared(c) /\ version(c) \in Nat
        /\ d.pcrs = configs[c].pcrs
        /\ reg \in Registration
    BY <1>6, VersionAssumption
       DEF RegisterEnclave, LoadsPk, to_pcrs, Shared, IInv, TypeOK, Registration,
           EnclaveConfig, Versions, version
  <2>2. /\ enclaves'[e] = obj /\ origin'[e] = reg
        /\ \A x \in EnclaveIds \ {e} : enclaves'[x] = enclaves[x] /\ origin'[x] = origin[x]
        /\ UNCHANGED <<configs, rotations>>
    BY <1>6 DEF RegisterEnclave, IInv, TypeOK
  <2>3. rotations[c][version(c)] = d.pcrs
    BY <2>1 DEF IInv, HistoryIsCurrent
  <2>4. HistoryIsCurrent'
    BY <2>2 DEF HistoryIsCurrent, IInv, Shared, version
  <2>5. OriginIsKnown'
    BY <2>1, <2>2 DEF OriginIsKnown, IInv, Live, Shared
  <2>6. EnclaveProvedItsVersion'
    BY <2>1, <2>2, <2>3
       DEF EnclaveProvedItsVersion, IInv, Live, version, config_version
  <2> QED BY <2>4, <2>5, <2>6 DEF IInv
<1>7. ASSUME NEW e \in EnclaveIds, NEW c \in ConfigIds, DestroyOldEnclave(e, c)
      PROVE IInv'
  BY <1>7, DeletionKeepsIInv DEF DestroyOldEnclave
<1>8. ASSUME NEW a \in Accounts, NEW e \in EnclaveIds, DeployOldEnclaveByOwner(a, e)
      PROVE IInv'
  BY <1>8, DeletionKeepsIInv DEF DeployOldEnclaveByOwner
<1>9. CASE UNCHANGED vars
  BY <1>9, QuietStepKeepsIInv DEF vars
<1> QED BY <1>1, <1>2, <1>3, <1>4, <1>5, <1>6, <1>7, <1>8, <1>9
    DEF Next, CapAction, Removal

(* The version comparison means what its users take it to mean: for any    *)
(* configs, rotations and registrations, an enclave at its config's        *)
(* version proved the PCRs its config expects, under the key it carries.   *)
THEOREM VersionsStandForPcrs ==
    Spec => [](CurrentMeansExpected /\ EnclaveProvedItsVersion)
<1>1. Init => IInv
  BY InitEstablishesIInv
<1>2. IInv => CurrentMeansExpected /\ EnclaveProvedItsVersion
  BY IInvImpliesCurrentMeansExpected DEF IInv
<1> QED BY <1>1, <1>2, TypeCorrect, Inductive, PTL DEF Spec

-----------------------------------------------------------------------------
(* Action properties *)

(* An Enclave object holds the number of the rotation whose PCRs its        *)
(* document proved, whatever was called since.                             *)
THEOREM EnclavesProvedTheirVersion == Spec => []EnclaveProvedItsVersion
<1>1. (CurrentMeansExpected /\ EnclaveProvedItsVersion) => EnclaveProvedItsVersion
  OBVIOUS
<1> QED BY <1>1, VersionsStandForPcrs, PTL

(* Versions never fall and an enclave never changes, so no later call      *)
(* makes a stale enclave current again.                                    *)
THEOREM StaleIsFinal == Spec => StaleStaysStale
<1>1. TypeOK /\ TypeOK' /\ [Next]_vars =>
        [\A e \in EnclaveIds, c \in ConfigIds :
             Stale(e, c) /\ Live(e)' => Stale(e, c)']_vars
  <2> SUFFICES ASSUME TypeOK, TypeOK', Next, NEW e \in EnclaveIds, NEW c \in ConfigIds,
                      Stale(e, c), Live(e)'
               PROVE  Stale(e, c)'
    BY DEF Stale
  <2>1. enclaves'[e] = enclaves[e]
    BY DEF TypeOK, Next, CapAction, Removal, NewCap, TransferCap, CreateEnclaveConfig,
           UpdatePcrs, UpdateName, RegisterEnclave, DestroyOldEnclave,
           DeployOldEnclaveByOwner, Stale, Live
  <2>2. Shared(c)' /\ version(c) <= version(c)'
    <3>1. configs[c] \in EnclaveConfig /\ version(c) \in Nat /\ Shared(c)
      BY VersionAssumption DEF Stale, Shared, TypeOK, EnclaveConfig, version, Versions
    <3>2. CASE UNCHANGED configs
      BY <3>1, <3>2 DEF Shared, version
    <3>3. ASSUME NEW a \in Accounts, NEW cap \in CapIds, NEW d \in ConfigIds,
                 NEW n \in Names, NEW p \in Pcrs, CreateEnclaveConfig(a, cap, d, n, p)
          PROVE Shared(c)' /\ version(c) <= version(c)'
      BY <3>1, <3>3 DEF CreateEnclaveConfig, TypeOK, Shared, version
    <3>4. ASSUME NEW a \in Accounts, NEW cap \in CapIds, NEW d \in ConfigIds,
                 NEW p \in Pcrs, UpdatePcrs(a, cap, d, p)
          PROVE configs'[c] \in EnclaveConfig /\ version(c) <= version(c)'
      <4>1. CASE c # d
        BY <3>1, <3>4, <4>1 DEF UpdatePcrs, TypeOK, version
      <4>2. CASE c = d
        <5> DEFINE new == [name |-> configs[c].name, pcrs |-> p,
                           capability_id |-> configs[c].capability_id,
                           version |-> version(c) + 1]
        <5>1. configs'[c] = new
          <6>1. configs'[c] = [configs[c] EXCEPT !.pcrs = p, !.version = version(c) + 1]
            BY <3>4, <4>2 DEF UpdatePcrs, TypeOK, NextVersion
          <6>2. [configs[c] EXCEPT !.pcrs = p, !.version = version(c) + 1] = new
            BY <3>1, RotatedConfig
          <6> QED BY <6>1, <6>2
        <5>2. new \in EnclaveConfig
          BY <3>1, <3>4, <4>2, VersionAssumption
             DEF UpdatePcrs, CanIncrement, EnclaveConfig, Versions, version
        <5> QED BY <3>1, <5>1, <5>2 DEF version
      <4> QED BY <4>1, <4>2
    <3>5. ASSUME NEW a \in Accounts, NEW cap \in CapIds, NEW d \in ConfigIds,
                 NEW n \in Names, UpdateName(a, cap, d, n)
          PROVE configs'[c] \in EnclaveConfig /\ version(c) <= version(c)'
      BY <3>1, <3>5 DEF UpdateName, TypeOK, EnclaveConfig, version
    <3>6. configs'[c] \in EnclaveConfig => Shared(c)'
      BY NullAssumption DEF Shared
    <3> QED BY <3>2, <3>3, <3>4, <3>5, <3>6
            DEF Next, CapAction, Removal, NewCap, TransferCap, RegisterEnclave,
                DestroyOldEnclave, DeployOldEnclaveByOwner
  <2>3. config_version(e) \in Nat /\ version(c) \in Nat /\ config_version(e) < version(c)
    BY VersionAssumption
       DEF Stale, Live, Shared, TypeOK, EnclaveObject, EnclaveConfig, Versions,
           version, config_version
  <2>4. version(c)' \in Nat
    BY <2>2, VersionAssumption DEF TypeOK, Shared, EnclaveConfig, Versions, version
  <2> QED BY <2>1, <2>2, <2>3, <2>4 DEF Stale, Live, config_version
<1> QED BY <1>1, TypeCorrect, PTL DEF Spec, StaleStaysStale

=============================================================================
