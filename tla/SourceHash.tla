------------------------------ MODULE SourceHash ------------------------------
(***************************************************************************)
(* The build inputs of a package and the hash over them:                   *)
(* src/nautilus-server/src/source_hash.rs, used twice over one tree.       *)
(*                                                                         *)
(*  - A consumer runs the `source-hash` binary over a local checkout,      *)
(*    which only reads it.                                                 *)
(*  - The enclave lists the build inputs of its clone, prunes everything   *)
(*    else (`prune_to_build_inputs` of apps/source-verification/mod.rs),   *)
(*    and then hashes what is left, listing it again.                      *)
(*                                                                         *)
(* Directories are read in whatever order the file system gives; a walk is *)
(* a set of entries still to visit, any of which may be next.  A path is   *)
(* an abstract value; its text is what `to_string_lossy` makes of it, and  *)
(* two paths may share a text.  A file stands for its own contents, so no  *)
(* two are alike, and the hash is the manifest it is a digest of.          *)
(***************************************************************************)
EXTENDS Naturals, FiniteSets, SequencesExt

CONSTANTS
    Paths,      \* what the tree may contain, below the package directory
    Top,        \* the package directory itself
    Parent,     \* path -> the directory it is in, Top or a path
    MoveToml,   \* the paths that the code names
    OtherManifests,
    Sources,
    MoveNames,  \* the paths whose extension is `move`
    Text,       \* path -> its lossy text, a path or none of this tree
    Rank,       \* text -> its place in the lexicographic order
    Absent,
    Error

Kinds  == {"file", "dir", "link", Absent}
Texts  == {Text[p] : p \in Paths}
Manifests == OtherManifests \cup {MoveToml}

(* What lies below `sources`, at any depth. *)
InSources[p \in Paths] ==
    Parent[p] # Top /\ (Parent[p] = Sources \/ InSources[Parent[p]])

(* Directories are nested finitely, so that any set of paths has one that  *)
(* lies in none of the others.  A lossy text is its own text, and keeps    *)
(* the separators and the extension of the path.                           *)
ASSUME SourceHashAssumption ==
    /\ IsFiniteSet(Paths)
    /\ Manifests \cup {Sources} \cup MoveNames \subseteq Paths /\ Top \notin Paths
    /\ \A p \in Paths : Parent[p] \in Paths \cup {Top}
    /\ \A S \in SUBSET Paths : S # {} => \E p \in S : Parent[p] \notin S
    /\ \A p \in Manifests \cup {Sources} : Text[p] = p /\ Parent[p] = Top
    /\ \A s \in Texts \cap Paths : Text[s] = s
    /\ \A p \in MoveNames :
           InSources[p] /\ Text[p] \in Paths => Text[p] \in MoveNames /\ InSources[Text[p]]
    /\ \A s, t \in Texts : Rank[s] \in Nat /\ (Rank[s] = Rank[t] => s = t)
    /\ Absent \notin {"file", "dir", "link"}
    /\ Error # Absent /\ Error \notin Seq(Texts) /\ Absent \notin Seq(Texts)

VARIABLES
    tree,     \* the package directory: path -> what it is
    pc,       \* where the three uses of the walk are
    todo,     \* directory entries the walk has not visited yet
    files,    \* the texts it has collected, in the order it met them
    keep,     \* the build inputs prune_except is to leave
    result,   \* who -> the hash it computed, Error, or Absent so far
    checkout  \* history: the tree as it was cloned and checked out

hashVars == <<tree, pc, todo, files, keep, result, checkout>>

Present(p)  == tree[p] # Absent
Entries(d)  == {p \in Paths : Parent[p] = d /\ Present(p)}
Consumer    == "source-hash"
Enclave     == "enclave"

(* The phases of one use after another; both users hash by `walk`ing. *)
Steps == {"local", "local walk", "keep", "keep walk", "prune", "hash", "hash walk", "done"}
WalkPhase == [local |-> "local walk", keep |-> "keep walk", hash |-> "hash walk"]
User(step) == IF step \in {"local", "local walk"} THEN Consumer ELSE Enclave

(* What a file system can hold: whatever is there is in a directory. *)
Trees == {t \in [Paths -> Kinds] :
            \A p \in Paths : t[p] # Absent /\ Parent[p] # Top => t[Parent[p]] = "dir"}

HashTypeOK ==
    /\ tree \in Trees
    /\ pc \in Steps
    /\ todo \subseteq Paths
    /\ files \in Seq(Texts)
    /\ keep \subseteq Texts
    /\ result \in [{Consumer, Enclave} -> Seq(Texts) \cup {Error, Absent}]
    /\ checkout \in Trees

HashInit ==
    /\ tree \in Trees
    /\ pc = "local"
    /\ todo = {}
    /\ files = <<>>
    /\ keep = {}
    /\ result = [u \in {Consumer, Enclave} |-> Absent]
    /\ checkout = tree

-----------------------------------------------------------------------------
(* `build_input_files` *)

(* An error ends its user's work; the consumer's leaves the enclave's.     *)
Fails(user) ==
    /\ result' = [result EXCEPT ![user] = Error]
    /\ pc' = IF user = Consumer THEN "keep" ELSE "done"
    /\ todo' = {} /\ files' = <<>>
    /\ UNCHANGED <<tree, keep, checkout>>

(* `is_regular_file` makes an error of a symlink, and so does the look at  *)
(* `sources`; a Move.toml is required.                                     *)
IsPackage ==
    /\ tree[MoveToml] = "file"
    /\ \A p \in Manifests \cup {Sources} : tree[p] # "link"

(* The manifests, whose order will not matter, and where the walk starts.  *)
BuildInputFiles ==
    /\ pc \in DOMAIN WalkPhase
    /\ \/ /\ IsPackage
          /\ files' = SetToSeq({p \in Manifests : tree[p] = "file"})
          /\ todo' = IF tree[Sources] = "dir" THEN Entries(Sources) ELSE {}
          /\ pc' = WalkPhase[pc]
          /\ UNCHANGED <<tree, keep, result, checkout>>
       \/ ~IsPackage /\ Fails(User(pc))

(* `collect_move_files`: one directory entry.  The slips ask for the type  *)
(* of what a symlink points to, and forget the files of directories below. *)
IsLinkFollowed(p) == FALSE
IsLink(p)         == tree[p] = "link"
CollectsTopOnly(p) == tree[p] # "dir" /\ p \in MoveNames /\ Parent[p] = Sources
CollectsFile(p)    == tree[p] # "dir" /\ p \in MoveNames

Walking == pc \in {WalkPhase[s] : s \in DOMAIN WalkPhase}

CollectMoveFile(p) ==
    /\ Walking /\ p \in todo
    /\ \/ IsLink(p) /\ Fails(User(pc))
       \/ /\ ~IsLink(p)
          /\ todo' = (todo \ {p}) \cup (IF tree[p] = "dir" THEN Entries(p) ELSE {})
          /\ files' = IF CollectsFile(p) THEN Append(files, Text[p]) ELSE files
          /\ UNCHANGED <<tree, pc, keep, result, checkout>>

(* `files.sort()`, every text at its place; the slip leaves them in the    *)
(* order they were read.                                                   *)
Before(fs, j, i) == Rank[fs[j]] < Rank[fs[i]] \/ (fs[j] = fs[i] /\ j <= i)
Place(fs, i)     == Cardinality({j \in DOMAIN fs : Before(fs, j, i)})
AsRead(fs) == fs
Sorted(fs) == [k \in DOMAIN fs |-> fs[CHOOSE i \in DOMAIN fs : Place(fs, i) = k]]

-----------------------------------------------------------------------------
(* `source_hash` and `prune_to_build_inputs` *)

(* Every listed file is read by its text; reading would follow a symlink. *)
Readable(fs) == \A s \in ToSet(fs) : s \in Paths /\ tree[s] \in {"file", "link"}

SourceHash ==
    /\ pc \in {"local walk", "hash walk"} /\ todo = {}
    /\ \/ /\ Readable(files)
          /\ result' = [result EXCEPT ![User(pc)] = Sorted(files)]
          /\ pc' = IF pc = "local walk" THEN "keep" ELSE "done"
          /\ files' = <<>>
          /\ UNCHANGED <<tree, todo, keep, checkout>>
       \/ ~Readable(files) /\ Fails(User(pc))

ListedKeep ==
    /\ pc = "keep walk" /\ todo = {}
    /\ keep' = ToSet(files)
    /\ files' = <<>>
    /\ pc' = "prune"
    /\ UNCHANGED <<tree, todo, result, checkout>>

(* What `prune_except` takes away: files that are not in `keep`, symlinks  *)
(* whatever their name, and directories once they are empty.  The slips    *)
(* spare what lies in `sources`, and take directories that are not empty.  *)
PrunableWithEntries(p) ==
    \/ tree[p] = "file" /\ p \notin keep
    \/ tree[p] \in {"link", "dir"}
SparesSources(p) ==
    \/ tree[p] = "file" /\ p \notin keep /\ Parent[p] # Sources
    \/ tree[p] = "link"
    \/ tree[p] = "dir" /\ Entries(p) = {}
Prunable(p) ==
    \/ tree[p] = "file" /\ p \notin keep
    \/ tree[p] = "link"
    \/ tree[p] = "dir" /\ Entries(p) = {}

PruneEntry(p) ==
    /\ pc = "prune" /\ Prunable(p)
    /\ tree' = [tree EXCEPT ![p] = Absent]
    /\ UNCHANGED <<pc, todo, files, keep, result, checkout>>

Pruned ==
    /\ pc = "prune" /\ \A p \in Paths : ~Prunable(p)
    /\ pc' = "hash"
    /\ UNCHANGED <<tree, todo, files, keep, result, checkout>>

HashNext ==
    \/ BuildInputFiles
    \/ \E p \in Paths : CollectMoveFile(p) \/ PruneEntry(p)
    \/ SourceHash \/ ListedKeep \/ Pruned

HashSpec == HashInit /\ [][HashNext]_hashVars

-----------------------------------------------------------------------------
(* Properties *)

(* A hash the enclave signs covers every file that is left for the build   *)
(* to read, each once, and nothing but files and their directories is left.*)
HashCoversTheBuild ==
    (pc = "done" /\ result[Enclave] # Error) =>
        LET left == {p \in Paths : Present(p) /\ tree[p] # "dir"} IN
        /\ \A p \in left : tree[p] = "file"
        /\ ToSet(result[Enclave]) = left
        /\ Len(result[Enclave]) = Cardinality(left)

(* Whoever has the tree can reproduce the hash in an attestation: over the *)
(* same checkout both users compute the same hash or both refuse, whatever *)
(* order their directories are read in and although one of them pruned.    *)
Reproducible == pc = "done" => result[Consumer] = result[Enclave]

(* No hash stands for a tree with a symlink where build inputs are: not in *)
(* place of a manifest or of `sources`, and nowhere below `sources`.       *)
SymlinksAreRefused ==
    (pc = "done" /\ \E p \in Manifests \cup {Sources} \cup {q \in Paths : InSources[q]} :
                       checkout[p] = "link")
        => result[Consumer] = Error /\ result[Enclave] = Error

(* All of it at once: the walks, the pruning and the two listings are one  *)
(* step that gives the answer, about the tree as it was checked out, and   *)
(* leaves the build exactly what was hashed.                               *)
Promise == INSTANCE BuildInputs WITH
    Users        <- {Consumer, Enclave},
    MoveFiles    <- {p \in MoveNames : InSources[p]},
    UnderSources <- {p \in Paths : InSources[p]},
    Rank         <- [p \in Paths |-> Rank[Text[p]]],
    answer       <- result,
    build        <- IF pc = "done" /\ result[Enclave] # Error
                    THEN {p \in Paths : Present(p) /\ tree[p] # "dir"} ELSE Absent

ImplementsBuildInputs == Promise!InputsSpec

=============================================================================
