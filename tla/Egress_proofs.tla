----------------------------- MODULE Egress_proofs -----------------------------
(***************************************************************************)
(* Proofs about the egress and its health check, for any lists of hosts,   *)
(* any number of instances, of edits and of images.                        *)
(***************************************************************************)
EXTENDS Egress, TLAPS

-----------------------------------------------------------------------------
(* Lemmas about lists and what configure_enclave.sh makes of them *)

(* The bounded lists that are edited are lists. *)
LEMMA AllowlistsAreLists == Allowlists \subseteq Lists
<1> SUFFICES ASSUME NEW l \in Allowlists PROVE l \in Lists
  OBVIOUS
<1>1. PICK m \in 0 .. Cardinality(Hosts) : l \in [1 .. m -> Hosts]
  BY DEF Allowlists, BoundedSeq, SeqOf
<1>2. m \in Nat
  OBVIOUS
<1>3. l \in Seq(Hosts)
  BY <1>1, <1>2
<1> QED BY <1>3 DEF Allowlists, Lists

LEMMA ListedIsList ==
    ASSUME NEW yaml \in Lists \cup {Garbled}
    PROVE  ListedBy(yaml) \in Lists
<1>1. <<>> \in Lists
  BY DEF Lists, IsInjective
<1> QED BY <1>1 DEF ListedBy

(* What is numbered by a list is found under its number, and nothing else. *)
LEMMA ResolveNumbered ==
    ASSUME NEW l \in Lists, NEW h \in Hosts
    PROVE  /\ h \notin ToSet(l) => Resolve(Numbered(l), h) = None
           /\ \A k \in DOMAIN l : l[k] = h => Resolve(Numbered(l), h) = k
<1> DEFINE at == {k \in DOMAIN Numbered(l) : Numbered(l)[k][2] = h}
<1>1. DOMAIN Numbered(l) = DOMAIN l /\ \A k \in DOMAIN l : Numbered(l)[k] = <<k, l[k]>>
  BY DEF Numbered, Lists
<1>2. at = {k \in DOMAIN l : l[k] = h}
  BY <1>1
<1>3. h \notin ToSet(l) => Resolve(Numbered(l), h) = None
  BY <1>2 DEF Resolve, ToSet
<1>4. ASSUME NEW k \in DOMAIN l, l[k] = h
      PROVE  Resolve(Numbered(l), h) = k
  <2>1. at = {k}
    BY <1>2, <1>4 DEF Lists, IsInjective
  <2>2. k <= k
    BY <1>4 DEF Lists
  <2>3. (CHOOSE j \in at : \A i \in at : j <= i) = k
    BY <2>1, <2>2
  <2>4. Resolve(Numbered(l), h) = Numbered(l)[CHOOSE j \in at : \A i \in at : j <= i][1]
    BY <2>1 DEF Resolve
  <2>5. Resolve(Numbered(l), h) = Numbered(l)[k][1]
    BY <2>3, <2>4
  <2> QED BY <1>1, <2>5
<1> QED BY <1>3, <1>4

LEMMA LookupForwarder ==
    ASSUME NEW l \in Lists
    PROVE  /\ \A k \in DOMAIN l : Lookup(Forwarders(l), k) = k
           /\ Lookup(Forwarders(l), None) = None
<1>1. DOMAIN Forwarders(l) = DOMAIN l /\ \A k \in DOMAIN l : Forwarders(l)[k] = <<k, k>>
  BY DEF Forwarders, Lists
<1>2. ASSUME NEW x
      PROVE  {k \in DOMAIN Forwarders(l) : Forwarders(l)[k][1] = x} = DOMAIN l \cap {x}
  BY <1>1
<1>3. Lookup(Forwarders(l), None) = None
  <2>1. DOMAIN l \cap {None} = {}
    BY EgressAssumption DEF Lists
  <2> QED BY <1>2, <2>1 DEF Lookup
<1>4. ASSUME NEW k \in DOMAIN l PROVE Lookup(Forwarders(l), k) = k
  <2> DEFINE at == {j \in DOMAIN Forwarders(l) : Forwarders(l)[j][1] = k}
  <2>1. at = {k}
    BY <1>2, <1>4
  <2>2. k <= k
    BY <1>4 DEF Lists
  <2>3. (CHOOSE j \in at : \A i \in at : j <= i) = k
    BY <2>1, <2>2
  <2>4. Lookup(Forwarders(l), k)
          = Forwarders(l)[CHOOSE j \in at : \A i \in at : j <= i][2]
    BY <2>1 DEF Lookup
  <2>5. Lookup(Forwarders(l), k) = Forwarders(l)[k][2]
    BY <2>3, <2>4
  <2> QED BY <1>1, <2>5
<1> QED BY <1>3, <1>4

(* The three maps compose to the identity on the list they were made from. *)
LEMMA GeneratedMapsAgree ==
    ASSUME NEW i \in Instances, NEW sh, proxies[i] \in Lists,
           enclave[i].run_sh = Regenerated(sh, proxies[i])
    PROVE  /\ \A h \in ToSet(proxies[i]) : Reached(i, h) = h
           /\ \A h \in Hosts \ ToSet(proxies[i]) : Reached(i, h) = None
<1>1. /\ enclave[i].run_sh.hosts = Numbered(proxies[i])
      /\ enclave[i].run_sh.forwarders = Forwarders(proxies[i])
  BY DEF Regenerated
<1>2. DOMAIN proxies[i] \subseteq Nat
  BY DEF Lists
<1>3. ASSUME NEW h \in ToSet(proxies[i]) PROVE Reached(i, h) = h
  <2>1. PICK k \in DOMAIN proxies[i] : proxies[i][k] = h
    BY <1>3 DEF ToSet
  <2>2. h \in Hosts
    BY <2>1 DEF Lists
  <2>3. Resolve(Numbered(proxies[i]), h) = k
    BY <2>1, <2>2, ResolveNumbered
  <2>4. Lookup(Forwarders(proxies[i]), k) = k
    BY <2>1, LookupForwarder
  <2> QED BY <1>1, <2>1, <2>3, <2>4 DEF Reached
<1>4. ASSUME NEW h \in Hosts \ ToSet(proxies[i]) PROVE Reached(i, h) = None
  <2>1. Resolve(Numbered(proxies[i]), h) = None
    BY <1>4, ResolveNumbered
  <2>2. Lookup(Forwarders(proxies[i]), None) = None
    BY LookupForwarder
  <2> QED BY <1>1, <1>2, <2>1, <2>2, EgressAssumption DEF Reached
<1> QED BY <1>3, <1>4

-----------------------------------------------------------------------------
(* The inductive invariant *)

(* An instance that was launched has the proxies of a list, and the run.sh *)
(* generated with it is of that list; only there do enclaves run.          *)
LaunchesOK ==
    /\ endpoints \in Lists \cup {Garbled}
    /\ DOMAIN proxies = Instances /\ DOMAIN generated = Instances
    /\ DOMAIN enclave = Instances
    /\ \A i \in Instances : proxies[i] # None =>
            /\ proxies[i] \in Lists
            /\ generated[i] = Regenerated(run_sh, proxies[i])
    /\ \A i \in Instances : enclave[i] # None =>
            /\ proxies[i] # None
            /\ enclave[i].endpoints \in Lists \cup {Garbled}

(* A health check asks the enclave that runs.  The hosts it has asked and  *)
(* those it will ask are those of the image's list, and what it says of a  *)
(* host that answered well is whether it is reached.                       *)
Check == [on : Instances, left : Seq(Hosts),
          status : UNION {[hs -> BOOLEAN] : hs \in SUBSET Hosts}, mute : SUBSET Hosts]

Tells(h) ==
    /\ check.status[h] => Reached(check.on, h) = h
    /\ Reached(check.on, h) = h /\ h \notin check.mute => check.status[h]

CheckOK == check # None =>
    /\ check \in Check
    /\ enclave[check.on] # None
    /\ DOMAIN check.status \cup ToSet(check.left)
          = ToSet(ListedBy(enclave[check.on].endpoints))
    /\ \A h \in DOMAIN check.status : Tells(h)

EgressInv == LaunchesOK /\ CheckOK

LEMMA InitEstablishesEgress == EgressInit => EgressInv
<1> SUFFICES ASSUME EgressInit PROVE EgressInv
  OBVIOUS
<1>1. LaunchesOK
  BY EgressAssumption DEF EgressInit, LaunchesOK, Lists
<1> QED BY <1>1 DEF EgressInit, EgressInv, CheckOK

(* What was generated does not depend on what run.sh was before. *)
LEMMA GeneratedFromAnything ==
    ASSUME NEW sh, NEW tree, NEW l PROVE Regenerated(sh, l) = Regenerated(tree, l)
BY DEF Regenerated

LEMMA LaunchesStep == LaunchesOK /\ [EgressNext]_egressVars => LaunchesOK'
<1> SUFFICES ASSUME LaunchesOK, [EgressNext]_egressVars PROVE LaunchesOK'
  OBVIOUS
<1> USE DEF LaunchesOK
<1>1. ASSUME NEW yaml \in Allowlists \cup {Garbled}, EditEndpoints(yaml) PROVE LaunchesOK'
  BY <1>1, AllowlistsAreLists DEF EditEndpoints
<1>2. ASSUME NEW i \in Instances, ConfigureEnclave(i) PROVE LaunchesOK'
  <2>1. /\ proxies'[i] = ListedBy(endpoints) /\ generated'[i] = Regenerated(run_sh, proxies'[i])
        /\ enclave[i] = None
        /\ \A j \in Instances \ {i} :
              proxies'[j] = proxies[j] /\ generated'[j] = generated[j]
    BY <1>2 DEF ConfigureEnclave
  <2>2. proxies'[i] \in Lists
    BY <2>1, ListedIsList
  <2>3. ASSUME NEW j \in Instances, proxies'[j] # None
        PROVE  proxies'[j] \in Lists /\ generated'[j] = Regenerated(run_sh', proxies'[j])
    BY <2>1, <2>2, <2>3, GeneratedFromAnything
  <2> QED BY <1>2, <2>1, <2>3 DEF ConfigureEnclave
<1>3. ASSUME NEW i \in Instances, MakeRun(i) PROVE LaunchesOK'
  <2>1. enclave'[i].endpoints = endpoints
    BY <1>3 DEF MakeRun
  <2> QED BY <1>3, <2>1 DEF MakeRun
<1>4. ASSUME NEW i \in Instances, StartHealthCheck(i) PROVE LaunchesOK'
  BY <1>4 DEF StartHealthCheck
<1>5. ASSUME NEW answer, Probe(answer) PROVE LaunchesOK'
  BY <1>5 DEF Probe
<1>6. CASE CheckoutRunSh
  BY <1>6, GeneratedFromAnything DEF CheckoutRunSh
<1>7. CASE UNCHANGED egressVars
  BY <1>7 DEF egressVars
<1> QED BY <1>1, <1>2, <1>3, <1>4, <1>5, <1>6, <1>7 DEF EgressNext

(* Where connections end depends on the image and the proxies alone. *)
LEMMA ReachedKept ==
    ASSUME NEW i, enclave'[i] = enclave[i], proxies'[i] = proxies[i]
    PROVE  \A h : Reached(i, h)' = Reached(i, h)
BY DEF Reached

LEMMA CheckKept ==
    ASSUME CheckOK, check' = check,
           check # None => /\ enclave'[check.on] = enclave[check.on]
                           /\ proxies'[check.on] = proxies[check.on]
    PROVE  CheckOK'
<1> SUFFICES ASSUME check # None PROVE CheckOK'
  BY DEF CheckOK
<1>1. \A h : Reached(check.on, h)' = Reached(check.on, h)
  BY ReachedKept
<1> QED BY <1>1 DEF CheckOK, Tells

(* One host asked.  Its state is known, that of the others is kept. *)
LEMMA ProbeKeepsCheck ==
    ASSUME LaunchesOK, CheckOK, NEW answer, Probe(answer)
    PROVE  CheckOK'
<1> DEFINE h == Head(check.left)
<1>1. /\ check \in Check /\ check # None /\ check.left # <<>>
      /\ enclave' = enclave /\ proxies' = proxies
  BY DEF Probe, CheckOK
<1>2. /\ h \in Hosts /\ Tail(check.left) \in Seq(Hosts)
      /\ ToSet(check.left) = {h} \cup ToSet(Tail(check.left))
  <2>1. h \in Hosts /\ Tail(check.left) \in Seq(Hosts)
    BY <1>1 DEF Check
  <2>2. \A k \in DOMAIN check.left : k = 1 \/ check.left[k] = Tail(check.left)[k - 1]
    BY <1>1 DEF Check
  <2>3. \A k \in DOMAIN Tail(check.left) :
            k + 1 \in DOMAIN check.left /\ Tail(check.left)[k] = check.left[k + 1]
    BY <1>1 DEF Check
  <2>4. \A k \in DOMAIN check.left : k = 1 \/ k - 1 \in DOMAIN Tail(check.left)
    BY <1>1 DEF Check
  <2>5. 1 \in DOMAIN check.left /\ check.left[1] = h
    BY <1>1 DEF Check
  <2> QED BY <2>1, <2>2, <2>3, <2>4, <2>5 DEF ToSet
<1>3. /\ check'.on = check.on /\ check'.left = Tail(check.left)
      /\ DOMAIN check'.status = DOMAIN check.status \cup {h}
      /\ check'.status[h] = check_endpoint(check.on, h, answer)
      /\ \A x \in DOMAIN check.status \ {h} : check'.status[x] = check.status[x]
      /\ check'.mute = IF answer = "success" THEN check.mute ELSE check.mute \cup {h}
  BY <1>1 DEF Probe, Check
<1>4. check' \in Check
  <2>1. check_endpoint(check.on, h, answer) \in BOOLEAN
    BY DEF check_endpoint
  <2>2. PICK hs \in SUBSET Hosts : check.status \in [hs -> BOOLEAN]
    BY <1>1 DEF Check
  <2> DEFINE status == [x \in DOMAIN check.status \cup {h} |->
                          IF x = h THEN check_endpoint(check.on, h, answer)
                          ELSE check.status[x]]
  <2>3. status \in [hs \cup {h} -> BOOLEAN] /\ hs \cup {h} \in SUBSET Hosts
    BY <1>2, <2>1, <2>2
  <2>4. check' = [check EXCEPT !.left = Tail(check.left), !.status = status,
                               !.mute = check'.mute]
    BY <1>1, <1>3 DEF Probe, Check
  <2>5. check'.mute \in SUBSET Hosts
    BY <1>1, <1>2, <1>3 DEF Check
  <2> HIDE DEF status
  <2> QED BY <1>1, <1>2, <2>3, <2>4, <2>5 DEF Check
<1>5. \A x : Reached(check.on, x)' = Reached(check.on, x)
  BY <1>1, <1>3 DEF Reached
<1>6. ASSUME NEW x \in DOMAIN check'.status PROVE Tells(x)'
  <2>1. CASE x = h
    BY <1>3, <1>5, <2>1 DEF Tells, check_endpoint
  <2>2. CASE x # h
    BY <1>3, <1>5, <1>6, <2>2 DEF Tells, CheckOK, Probe
  <2> QED BY <2>1, <2>2
<1> QED BY <1>1, <1>2, <1>3, <1>4, <1>6 DEF CheckOK

LEMMA CheckStep == EgressInv /\ [EgressNext]_egressVars => CheckOK'
<1> SUFFICES ASSUME LaunchesOK, CheckOK, [EgressNext]_egressVars PROVE CheckOK'
  BY DEF EgressInv
<1>1. ASSUME NEW yaml \in Allowlists \cup {Garbled}, EditEndpoints(yaml) PROVE CheckOK'
  BY <1>1, CheckKept DEF EditEndpoints
<1>2. ASSUME NEW i \in Instances, ConfigureEnclave(i) PROVE CheckOK'
  <2>1. check # None => check.on # i /\ check.on \in Instances
    BY <1>2 DEF ConfigureEnclave, LaunchesOK, CheckOK, Check
  <2> QED BY <1>2, <2>1, CheckKept DEF ConfigureEnclave, LaunchesOK
<1>3. ASSUME NEW i \in Instances, MakeRun(i) PROVE CheckOK'
  <2>1. CASE check # None /\ check.on = i
    BY <1>3, <2>1 DEF MakeRun, CheckOK
  <2>2. CASE ~(check # None /\ check.on = i)
    <3>1. check' = check /\ proxies' = proxies
      BY <1>3, <2>2 DEF MakeRun
    <3>2. check # None => enclave'[check.on] = enclave[check.on]
      BY <1>3, <2>2 DEF MakeRun, CheckOK, Check, LaunchesOK
    <3> QED BY <3>1, <3>2, CheckKept
  <2> QED BY <2>1, <2>2
<1>4. ASSUME NEW i \in Instances, StartHealthCheck(i) PROVE CheckOK'
  <2>1. ListedBy(enclave[i].endpoints) \in Seq(Hosts)
    BY <1>4, ListedIsList DEF StartHealthCheck, LaunchesOK, Lists
  <2>2. << >> \in [{} -> BOOLEAN]
    OBVIOUS
  <2>3. check' = [on |-> i, left |-> ListedBy(enclave[i].endpoints),
                  status |-> << >>, mute |-> {}]
    BY <1>4 DEF StartHealthCheck, allowed_endpoints
  <2>4. check' \in Check
    BY <2>1, <2>2, <2>3 DEF Check
  <2>5. DOMAIN check'.status = {} /\ check'.on = i
    BY <2>3
  <2> QED BY <1>4, <2>3, <2>4, <2>5 DEF StartHealthCheck, CheckOK
<1>5. ASSUME NEW answer, Probe(answer) PROVE CheckOK'
  BY <1>5, ProbeKeepsCheck
<1>6. CASE CheckoutRunSh
  BY <1>6, CheckKept DEF CheckoutRunSh
<1>7. CASE UNCHANGED egressVars
  BY <1>7, CheckKept DEF egressVars
<1> QED BY <1>1, <1>2, <1>3, <1>4, <1>5, <1>6, <1>7 DEF EgressNext

LEMMA EgressInvariant == EgressSpec => []EgressInv
<1>1. EgressInv /\ [EgressNext]_egressVars => EgressInv'
  BY LaunchesStep, CheckStep DEF EgressInv
<1> QED BY <1>1, InitEstablishesEgress, PTL DEF EgressSpec

-----------------------------------------------------------------------------
(* Types *)

LEMMA GeneratedIsRunSh ==
    ASSUME NEW l \in Lists, NEW sh PROVE Regenerated(sh, l) \in RunSh
<1>1. Len(l) \in Nat /\ \A k \in 1 .. Len(l) : l[k] \in Hosts
  BY DEF Lists
<1>2. /\ Numbered(l) \in Seq(Nat \X Hosts) /\ GivenOnce(Numbered(l))
  BY <1>1 DEF Numbered, GivenOnce
<1>3. /\ Forwarders(l) \in Seq(Nat \X Nat) /\ GivenOnce(Forwarders(l))
  BY <1>1 DEF Forwarders, GivenOnce
<1> QED BY <1>2, <1>3 DEF Regenerated, RunSh

LEMMA TailIsList ==
    ASSUME NEW l \in Lists, l # <<>> PROVE Tail(l) \in Lists
<1>1. /\ Tail(l) \in Seq(Hosts)
      /\ \A k \in DOMAIN Tail(l) : k \in Nat /\ k + 1 \in DOMAIN l /\ Tail(l)[k] = l[k + 1]
  BY DEF Lists
<1>2. ASSUME NEW j \in DOMAIN Tail(l), NEW k \in DOMAIN Tail(l), Tail(l)[j] = Tail(l)[k]
      PROVE  j = k
  <2>1. j + 1 = k + 1
    BY <1>1, <1>2 DEF Lists, IsInjective
  <2> QED BY <1>1, <2>1
<1> QED BY <1>1, <1>2 DEF Lists, IsInjective

LEMMA InitTyped == EgressInit => EgressTypeOK
<1> SUFFICES ASSUME EgressInit PROVE EgressTypeOK
  OBVIOUS
<1>1. AllowedEndpoints \in Lists /\ HostEntries \in Lists
  BY EgressAssumption DEF Lists
<1>2. Committed \in RunSh
  BY <1>1, GeneratedIsRunSh DEF Committed, Regenerated
<1>3. edits \in 0 .. MaxEdits
  BY EgressAssumption DEF EgressInit
<1> QED BY <1>1, <1>2, <1>3 DEF EgressInit, EgressTypeOK, Yaml

LEMMA TypeStep == EgressTypeOK /\ EgressInv /\ [EgressNext]_egressVars => EgressTypeOK'
<1> SUFFICES ASSUME EgressTypeOK, EgressInv, [EgressNext]_egressVars PROVE EgressTypeOK'
  OBVIOUS
<1> USE DEF EgressTypeOK
<1>1. ASSUME NEW yaml \in Allowlists \cup {Garbled}, EditEndpoints(yaml) PROVE EgressTypeOK'
  <2>1. yaml \in Yaml
    BY AllowlistsAreLists DEF Yaml
  <2>2. edits' \in 0 .. MaxEdits
    BY <1>1, EgressAssumption DEF EditEndpoints
  <2> QED BY <1>1, <2>1, <2>2 DEF EditEndpoints
<1>2. ASSUME NEW i \in Instances, ConfigureEnclave(i) PROVE EgressTypeOK'
  <2>1. ListedBy(endpoints) \in Lists
    BY ListedIsList DEF Yaml
  <2>2. Regenerated(run_sh, ListedBy(endpoints)) \in RunSh
    BY <2>1, GeneratedIsRunSh
  <2> QED BY <1>2, <2>1, <2>2 DEF ConfigureEnclave
<1>3. ASSUME NEW i \in Instances, MakeRun(i) PROVE EgressTypeOK'
  <2>1. [run_sh |-> run_sh, endpoints |-> endpoints] \in Image
    BY DEF Image
  <2> QED BY <1>3, <2>1 DEF MakeRun
<1>4. ASSUME NEW i \in Instances, StartHealthCheck(i) PROVE EgressTypeOK'
  <2>1. ListedBy(enclave[i].endpoints) \in Lists
    BY <1>4, ListedIsList DEF StartHealthCheck, EgressInv, LaunchesOK
  <2>2. << >> \in [{} -> BOOLEAN]
    OBVIOUS
  <2>3. check' \in HealthCheck
    BY <1>4, <2>1, <2>2 DEF StartHealthCheck, allowed_endpoints, HealthCheck
  <2> QED BY <1>4, <2>3 DEF StartHealthCheck
<1>5. ASSUME NEW answer, Probe(answer) PROVE EgressTypeOK'
  <2>1. check \in HealthCheck /\ check.left # <<>>
    BY <1>5 DEF Probe
  <2>2. Tail(check.left) \in Lists
    BY <2>1, TailIsList DEF HealthCheck
  <2>3. check'.left = Tail(check.left)
    BY <1>5, <2>1 DEF Probe, HealthCheck
  <2>4. check' # None => check' \in Check
    BY <1>5, ProbeKeepsCheck DEF EgressInv, CheckOK
  <2>5. check' # None => check' \in HealthCheck
    BY <2>2, <2>3, <2>4 DEF Check, HealthCheck
  <2> QED BY <1>5, <2>5 DEF Probe
<1>6. CASE CheckoutRunSh
  <2>1. Committed \in RunSh
    BY EgressAssumption, GeneratedIsRunSh DEF Committed, Regenerated, Lists
  <2> QED BY <1>6, <2>1 DEF CheckoutRunSh
<1>7. CASE UNCHANGED egressVars
  BY <1>7 DEF egressVars
<1> QED BY <1>1, <1>2, <1>3, <1>4, <1>5, <1>6, <1>7 DEF EgressNext

-----------------------------------------------------------------------------
(* The theorems *)

(* The configuration keeps its type: run.sh gives out every address and    *)
(* every forwarder once, whatever it is generated from, and no list names  *)
(* a host twice.                                                           *)
THEOREM EgressTypeCorrect == EgressSpec => []EgressTypeOK
<1> QED BY InitTyped, TypeStep, EgressInvariant, PTL DEF EgressSpec

(* An image built from the run.sh generated with its instance reaches every *)
(* host the instance forwards to, each under its own name: configure_enclave *)
(* numbers /etc/hosts, forwarders and proxies alike, whatever was before.  *)
THEOREM GeneratedEgressReaches == EgressSpec => []GeneratedEgressIsRight
<1>1. EgressInv => GeneratedEgressIsRight
  <2> SUFFICES ASSUME EgressInv, NEW i \in Instances,
                      enclave[i] # None, enclave[i].run_sh = generated[i]
               PROVE  /\ \A h \in ToSet(proxies[i]) : Reached(i, h) = h
                      /\ \A h \in Hosts : Reached(i, h) \in {h, None}
    BY DEF GeneratedEgressIsRight
  <2>1. proxies[i] \in Lists /\ enclave[i].run_sh = Regenerated(run_sh, proxies[i])
    BY DEF EgressInv, LaunchesOK
  <2> QED BY <2>1, GeneratedMapsAgree
<1> QED BY <1>1, EgressInvariant, PTL

(* A report is neither a lie of omission nor of confusion: it is about all *)
(* hosts of the image's list, and what it calls reachable is reached.      *)
THEOREM HealthIsEarned == EgressSpec => []HealthyMeansReached
<1>1. EgressInv => HealthyMeansReached
  <2> SUFFICES ASSUME EgressInv, NEW i \in Instances, Checked(i)
               PROVE  /\ DOMAIN check.status = ToSet(ListedBy(enclave[i].endpoints))
                      /\ \A h \in DOMAIN check.status : check.status[h] => Reached(i, h) = h
    BY DEF HealthyMeansReached
  <2>1. check # None /\ check.on = i /\ ToSet(check.left) = {}
    BY DEF Checked, ToSet
  <2> QED BY <2>1 DEF EgressInv, CheckOK, Tells
<1> QED BY <1>1, EgressInvariant, PTL

(* And an egress that works is reported healthy if its hosts answer well.  *)
THEOREM HealthIsGranted == EgressSpec => []WorkingEgressLooksHealthy
<1>1. EgressInv /\ GeneratedEgressIsRight => WorkingEgressLooksHealthy
  <2> SUFFICES ASSUME EgressInv, GeneratedEgressIsRight, NEW i \in Instances,
                      Checked(i), check.mute = {},
                      enclave[i].run_sh = generated[i],
                      ListedBy(enclave[i].endpoints) = proxies[i],
                      NEW h \in DOMAIN check.status
               PROVE  check.status[h]
    BY DEF WorkingEgressLooksHealthy, Healthy
  <2>0. check # None /\ check.on = i /\ check.left = <<>>
    BY DEF Checked
  <2>1. enclave[i] # None /\ h \in ToSet(proxies[i])
    BY <2>0 DEF EgressInv, CheckOK
  <2>2. Reached(i, h) = h
    BY <2>1 DEF GeneratedEgressIsRight
  <2> QED BY <2>0, <2>2 DEF EgressInv, CheckOK, Tells
<1> QED BY <1>1, GeneratedEgressReaches, EgressInvariant, PTL

=============================================================================
