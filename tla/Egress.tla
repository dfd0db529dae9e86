-------------------------------- MODULE Egress --------------------------------
(***************************************************************************)
(* How an enclave without DNS reaches the few hosts it may reach.          *)
(*                                                                         *)
(*   host name --/etc/hosts--> loopback address --traffic_forwarder-->     *)
(*       vsock port --vsock-proxy on the instance--> host                  *)
(*                                                                         *)
(* The first two maps are lines of src/nautilus-server/run.sh, part of the *)
(* measured image; the third is made when the instance is launched, by     *)
(* configure_enclave.sh, from allowed_endpoints.yaml.  All three number    *)
(* the hosts by their position in a list, 127.0.0.64 and port 8101 first;  *)
(* here the first is number 1.  Whether they agree depends on which run.sh *)
(* the image was built from.  /health_check is how an operator finds out.  *)
(* Bounds: MaxEdits edits of allowed_endpoints.yaml, one health check at a *)
(* time.                                                                   *)
(***************************************************************************)
EXTENDS Naturals, SequencesExt

CONSTANTS
    Hosts,
    AllowedEndpoints,  \* allowed_endpoints.yaml as committed
    HostEntries,       \* the hosts in the order of run.sh as committed
    Instances,
    MaxEdits,
    Garbled,           \* a file that is no YAML, or whose `endpoints` is no list
    None

ASSUME EgressAssumption ==
    /\ AllowedEndpoints \in Seq(Hosts) /\ IsInjective(AllowedEndpoints)
    /\ HostEntries \in Seq(Hosts) /\ IsInjective(HostEntries)
    /\ MaxEdits \in Nat
    /\ None \notin Nat

VARIABLES
    endpoints,  \* allowed_endpoints.yaml in the working tree
    run_sh,     \* run.sh in the working tree
    proxies,    \* instance -> its vsock-proxies: port -> host; None if not launched
    enclave,    \* instance -> the image it runs, or None: the run.sh and the
                \* allowed_endpoints.yaml it was built with
    edits,
    check,      \* the last request to /health_check, None or
                \* [on, left to probe, status: host -> reachable,
                \*  mute: history, the hosts that did not answer well]
    generated   \* history: instance -> the run.sh generated when it was launched

egressVars == <<endpoints, run_sh, proxies, enclave, edits, check, generated>>

(* The two blocks of run.sh, as the pairs they contain in their order; no  *)
(* address is given out twice.                                             *)
GivenOnce(pairs) == \A j, k \in DOMAIN pairs : pairs[j][1] = pairs[k][1] => j = k
RunSh == {sh \in [hosts : Seq(Nat \X Hosts), forwarders : Seq(Nat \X Nat)] :
            GivenOnce(sh.hosts) /\ GivenOnce(sh.forwarders)}

Numbered(list)   == [i \in 1 .. Len(list) |-> <<i, list[i]>>]
Forwarders(list) == [i \in 1 .. Len(list) |-> <<i, i>>]
Committed == [hosts |-> Numbered(HostEntries), forwarders |-> Forwarders(HostEntries)]

Lists == {l \in Seq(Hosts) : IsInjective(l)}

(* Those that edits choose from, all of them if there are finitely many    *)
(* hosts; and the file as a whole.                                         *)
Allowlists == {l \in BoundedSeq(Hosts, Cardinality(Hosts)) : IsInjective(l)}
Yaml       == Lists \cup {Garbled}

(* What `yq` and the server make of the file: nothing, not a failure.  The *)
(* slip never finds the file.                                              *)
ListedBy(yaml) == IF yaml = Garbled THEN <<>> ELSE yaml
NoListInImage(yaml) == <<>>
allowed_endpoints(yaml) == ListedBy(yaml)

Image == [run_sh : RunSh, endpoints : Yaml]
HealthCheck ==
    [on : Instances, left : Lists, mute : SUBSET Hosts,
     status : UNION {[hs -> BOOLEAN] : hs \in SUBSET Hosts}]

EgressTypeOK ==
    /\ endpoints \in Yaml
    /\ run_sh \in RunSh
    /\ proxies \in [Instances -> Lists \cup {None}]
    /\ enclave \in [Instances -> Image \cup {None}]
    /\ check \in HealthCheck \cup {None}
    /\ edits \in 0 .. MaxEdits
    /\ generated \in [Instances -> RunSh \cup {None}]

EgressInit ==
    /\ endpoints = AllowedEndpoints
    /\ run_sh = Committed
    /\ proxies = [i \in Instances |-> None]
    /\ enclave = [i \in Instances |-> None]
    /\ edits = 0
    /\ check = None
    /\ generated = [i \in Instances |-> None]

-----------------------------------------------------------------------------

(* configure_enclave.sh rewrites both blocks: it deletes the lines that    *)
(* are there and inserts one per endpoint at the head of the block.  The   *)
(* slips leave the old forwarders, and leave the hosts as they are.        *)
RegeneratedOverOld(sh, list) ==
    [hosts |-> Numbered(list), forwarders |-> sh.forwarders \o Forwarders(list)]
RegeneratedForwarders(sh, list) == [sh EXCEPT !.forwarders = Forwarders(list)]
Regenerated(sh, list) ==
    [hosts |-> Numbered(list), forwarders |-> Forwarders(list)]

EditEndpoints(yaml) ==
    /\ edits < MaxEdits
    /\ edits' = edits + 1
    /\ endpoints' = yaml
    /\ UNCHANGED <<run_sh, proxies, enclave, check, generated>>

(* One run of configure_enclave.sh: a new instance whose proxies follow    *)
(* the endpoints, and a new run.sh in the working tree.                    *)
ConfigureEnclave(i) ==
    /\ proxies[i] = None
    /\ proxies' = [proxies EXCEPT ![i] = ListedBy(endpoints)]
    /\ run_sh' = Regenerated(run_sh, ListedBy(endpoints))
    /\ generated' = [generated EXCEPT ![i] = run_sh']
    /\ UNCHANGED <<endpoints, enclave, edits, check>>

(* `git checkout run.sh`, or a fresh clone: what the canonical image is    *)
(* built from.                                                             *)
CheckoutRunSh ==
    /\ run_sh # Committed
    /\ run_sh' = Committed
    /\ UNCHANGED <<endpoints, proxies, enclave, edits, check, generated>>

(* `make && make run` on the instance: the image takes both files from the *)
(* working tree.  A health check of the enclave that it replaces is lost.  *)
MakeRun(i) ==
    /\ proxies[i] # None
    /\ enclave' = [enclave EXCEPT ![i] = [run_sh |-> run_sh, endpoints |-> endpoints]]
    /\ check' = IF check # None /\ check.on = i THEN None ELSE check
    /\ UNCHANGED <<endpoints, run_sh, proxies, edits, generated>>

-----------------------------------------------------------------------------
(* Where a connection ends, and what the health check sees of it *)

(* The first pair that starts with x: /etc/hosts is read from the top, and *)
(* of two forwarders at one address the first gets it.                     *)
Lookup(pairs, x) ==
    LET at == {k \in DOMAIN pairs : pairs[k][1] = x} IN
    IF at = {} THEN None ELSE pairs[CHOOSE k \in at : \A j \in at : k <= j][2]

Resolve(pairs, host) ==
    LET at == {k \in DOMAIN pairs : pairs[k][2] = host} IN
    IF at = {} THEN None ELSE pairs[CHOOSE k \in at : \A j \in at : k <= j][1]

(* Where a connection that the enclave on instance i opens to a host ends. *)
Reached(i, host) ==
    LET sh == enclave[i].run_sh
        port == Lookup(sh.forwarders, Resolve(sh.hosts, host)) IN
    IF port \in DOMAIN proxies[i] THEN proxies[i][port] ELSE None

(* A host other than the one that was named has no certificate for the     *)
(* name: the request fails.  One that is reached says OK, says something   *)
(* else, or says nothing for five seconds.  The slips take any answer, and *)
(* ask of every host the word that only AWS hosts say.                     *)
AnyAnswerCounts(i, host, answer) == Reached(i, host) # None /\ answer = "success"
HealthyBodyNeeded(i, host, answer) == Reached(i, host) = host /\ answer = "healthy"
check_endpoint(i, host, answer) == Reached(i, host) = host /\ answer = "success"

StartHealthCheck(i) ==
    /\ enclave[i] # None
    /\ check # None => check.left = <<>>
    /\ check' = [on |-> i, left |-> allowed_endpoints(enclave[i].endpoints),
                 status |-> << >>, mute |-> {}]
    /\ UNCHANGED <<endpoints, run_sh, proxies, enclave, edits, generated>>

(* The hosts are asked one after another.                                  *)
Probe(answer) ==
    /\ check # None /\ check.left # <<>>
    /\ LET h == Head(check.left) IN
       check' = [check EXCEPT !.left = Tail(@),
                              !.status = [x \in DOMAIN @ \cup {h} |->
                                  IF x = h THEN check_endpoint(check.on, h, answer)
                                  ELSE @[x]],
                              !.mute = IF answer = "success" THEN @ ELSE @ \cup {h}]
    /\ UNCHANGED <<endpoints, run_sh, proxies, enclave, edits, generated>>

EgressNext ==
    \/ \E yaml \in Allowlists \cup {Garbled} : EditEndpoints(yaml)
    \/ \E i \in Instances : ConfigureEnclave(i) \/ MakeRun(i) \/ StartHealthCheck(i)
    \/ \E answer \in {"success", "error", "timeout"} : Probe(answer)
    \/ CheckoutRunSh

EgressSpec == EgressInit /\ [][EgressNext]_egressVars

-----------------------------------------------------------------------------
(* Properties *)

(* An image built from the run.sh that was generated with its instance     *)
(* reaches every host that was allowed then, and under no name another     *)
(* one, whatever was configured before, on whichever instances.            *)
GeneratedEgressIsRight ==
    \A i \in Instances : (enclave[i] # None /\ enclave[i].run_sh = generated[i]) =>
        /\ \A h \in ToSet(proxies[i]) : Reached(i, h) = h
        /\ \A h \in Hosts : Reached(i, h) \in {h, None}

(* What /health_check is for: a report names every host of the list that   *)
(* the image was built with, and one that it says is reachable is reached, *)
(* under its own name, through three lists that may disagree.  So a run.sh *)
(* of another order or of another list shows, and a list that is empty or  *)
(* cannot be read shows as an empty report, which says nothing of any host *)
(* and is the only sign of it.                                             *)
Checked(i) == check # None /\ check.on = i /\ check.left = <<>>
Healthy(i) == Checked(i) /\ \A h \in DOMAIN check.status : check.status[h]

HealthyMeansReached ==
    \A i \in Instances : Checked(i) =>
        /\ DOMAIN check.status = ToSet(ListedBy(enclave[i].endpoints))
        /\ \A h \in DOMAIN check.status : check.status[h] => Reached(i, h) = h

(* And it does not cry wolf: what was generated with the instance, built   *)
(* without an edit of the list in between, is healthy unless a host did    *)
(* not answer well when it was asked.                                      *)
WorkingEgressLooksHealthy ==
    \A i \in Instances :
        ( /\ Checked(i) /\ check.mute = {}
          /\ enclave[i].run_sh = generated[i]
          /\ ListedBy(enclave[i].endpoints) = proxies[i] ) => Healthy(i)

(* "There is a vsock-proxy that listens for this and forwards to the       *)
(* respective domains": whatever an enclave's image calls a host ends at   *)
(* that host.                                                              *)
ForwardsToTheRespectiveDomains ==
    \A i \in Instances : enclave[i] # None =>
        \A k \in DOMAIN enclave[i].run_sh.hosts :
            LET h == enclave[i].run_sh.hosts[k][2] IN Reached(i, h) = h

=============================================================================
