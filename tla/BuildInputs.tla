------------------------------ MODULE BuildInputs ------------------------------
(***************************************************************************)
(* What the source hash promises, without walks, pruning or their order    *)
(* (the head of src/nautilus-server/src/source_hash.rs): a tree has build  *)
(* inputs or is refused, whoever hashes it lists these inputs in the order *)
(* of their texts, and the enclave's build is left with nothing else.      *)
(* VerifyServer's summary of a package, Inputs[commit] and Extras[commit], *)
(* is this.                                                                *)
(***************************************************************************)
EXTENDS Naturals, FiniteSets, Functions

CONSTANTS Trees, Users, Enclave, MoveToml, Manifests, Sources, MoveFiles, UnderSources,
          Rank,  \* path -> its place in the order of texts
          Absent, Error

VARIABLES
    checkout,  \* the tree
    answer,    \* who -> the hash, Error, or Absent so far
    build      \* the files the enclave's build may read; Absent before it may

inputsVars == <<checkout, answer, build>>

(* "Move.toml, Move.lock, and Published.toml when present, plus every      *)
(* .move file under sources/ (recursively).  Nothing else."                *)
BuildInputsOf(tree) == {p \in Manifests \cup MoveFiles : tree[p] = "file"}

(* "Errors if package_dir has no Move.toml, or if a build input is a       *)
(* symlink."                                                               *)
Refused(tree) ==
    \/ tree[MoveToml] # "file"
    \/ \E p \in Manifests \cup {Sources} \cup UnderSources : tree[p] = "link"

(* "Lexicographically sorted." *)
Listing(files) ==
    CHOOSE s \in [1 .. Cardinality(files) -> files] :
        IsInjective(s) /\ \A i, j \in DOMAIN s : i < j => Rank[s[i]] < Rank[s[j]]

InputsInit ==
    /\ checkout \in Trees
    /\ answer = [u \in Users |-> Absent]
    /\ build = Absent

Answer(u) ==
    /\ answer[u] = Absent
    /\ answer' = [answer EXCEPT ![u] =
            IF Refused(checkout) THEN Error
            ELSE Listing(BuildInputsOf(checkout))]
    /\ build' = IF u = Enclave /\ ~Refused(checkout)
                THEN BuildInputsOf(checkout) ELSE build
    /\ UNCHANGED checkout

InputsNext == \E u \in Users : Answer(u)
InputsSpec == InputsInit /\ [][InputsNext]_inputsVars

=============================================================================
