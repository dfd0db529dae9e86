--------------------------- MODULE SourceHash_proofs ---------------------------
(***************************************************************************)
(* Proofs about the build inputs and the hash over them, for any tree of   *)
(* any depth, any names and any order in which directories are read.       *)
(***************************************************************************)
EXTENDS SourceHash, FunctionTheorems, FiniteSetTheorems, SequenceTheorems, TLAPS

-----------------------------------------------------------------------------
(* Counting                                                                *)

LEMMA CountingUp ==
    ASSUME NEW n \in Nat
    PROVE  IsFiniteSet(1 .. n) /\ Cardinality(1 .. n) = n
BY FS_Interval

(* A one-to-one function into a finite set of the same size takes every    *)
(* value.                                                                  *)
LEMMA InjectionsAreOnto ==
    ASSUME NEW n \in Nat, NEW f \in [1 .. n -> 1 .. n],
           \A a, b \in 1 .. n : f[a] = f[b] => a = b
    PROVE  \A k \in 1 .. n : \E i \in 1 .. n : f[i] = k
<1>1. IsFiniteSet(1 .. n)
  BY FS_Interval
<1>2. f \in Injection(1 .. n, 1 .. n)
  BY Fun_IsInj
<1>3. f \in Surjection(1 .. n, 1 .. n)
  BY <1>1, <1>2, FS_Injection
<1> QED BY <1>3 DEF Surjection

(* A finite set is listed by a sequence that has each element once.        *)
LEMMA ListingExists ==
    ASSUME NEW S, IsFiniteSet(S)
    PROVE  /\ SetToSeq(S) \in Seq(S) /\ Len(SetToSeq(S)) = Cardinality(S)
           /\ ToSet(SetToSeq(S)) = S
<1> DEFINE n == Cardinality(S)
<1>1. n \in Nat /\ Bijection(1 .. n, S) # {}
  BY FS_CardinalityType DEF ExistsBijection
<1>2. \E f \in [1 .. n -> S] : IsInjective(f)
  BY <1>1 DEF Bijection, Injection
<1>3. SetToSeq(S) \in [1 .. n -> S] /\ IsInjective(SetToSeq(S))
  BY <1>2 DEF SetToSeq
<1>4. SetToSeq(S) \in Surjection(1 .. n, S)
  <2>1. SetToSeq(S) \in Injection(1 .. n, S)
    BY <1>3 DEF Injection
  <2>2. IsFiniteSet(1 .. n) /\ Cardinality(1 .. n) = n
    BY <1>1, FS_Interval
  <2> HIDE DEF n
  <2>3. Cardinality(S) = n
    BY DEF n
  <2> QED BY <2>1, <2>2, <2>3, FS_Injection
<1> HIDE DEF n
<1>5. SetToSeq(S) \in Seq(S) /\ Len(SetToSeq(S)) = n
  BY <1>1, <1>3
<1>6. ToSet(SetToSeq(S)) = S
  BY <1>3, <1>4 DEF ToSet, Surjection
<1> QED BY <1>5, <1>6 DEF n

(* As many elements as places: none appears twice.                         *)
LEMMA NoneTwice ==
    ASSUME NEW S, NEW s \in Seq(S), IsFiniteSet(ToSet(s)), Len(s) = Cardinality(ToSet(s))
    PROVE  IsInjective(s)
<1>1. s \in Surjection(1 .. Len(s), ToSet(s))
  <2>1. DOMAIN s = 1 .. Len(s) /\ s \in [1 .. Len(s) -> S]
    OBVIOUS
  <2>2. s \in [1 .. Len(s) -> ToSet(s)]
    BY <2>1 DEF ToSet
  <2>3. \A t \in ToSet(s) : \E i \in 1 .. Len(s) : s[i] = t
    BY <2>1 DEF ToSet
  <2> QED BY <2>2, <2>3, Fun_IsSurj
<1>2. IsFiniteSet(1 .. Len(s)) /\ Cardinality(1 .. Len(s)) = Len(s)
  BY LenProperties, CountingUp
<1>3. s \in Injection(1 .. Len(s), ToSet(s))
  BY <1>1, <1>2, FS_SurjSameCardinalityImpliesInj
<1> QED BY <1>3 DEF Injection

LEMMA OnceEachCounts ==
    ASSUME NEW S, NEW s \in Seq(S), IsInjective(s)
    PROVE  IsFiniteSet(ToSet(s)) /\ Len(s) = Cardinality(ToSet(s))
<1>1. s \in Surjection(1 .. Len(s), ToSet(s)) /\ s \in Injection(1 .. Len(s), ToSet(s))
  BY DEF Surjection, Injection, ToSet, IsInjective
<1>2. IsFiniteSet(1 .. Len(s)) /\ Cardinality(1 .. Len(s)) = Len(s)
  BY LenProperties, CountingUp
<1> QED BY <1>1, <1>2, FS_Surjection

-----------------------------------------------------------------------------
(* Sorting                                                                 *)

LEMMA RanksAreOrdered ==
    /\ \A s \in Texts : Rank[s] \in Nat
    /\ \A s, t \in Texts : Rank[s] = Rank[t] => s = t
BY SourceHashAssumption

(* Before is a total order of the places of a list.                        *)
LEMMA BeforeIsTotal ==
    ASSUME NEW fs \in Seq(Texts)
    PROVE  \A i, j, k \in DOMAIN fs :
              /\ Before(fs, i, i)
              /\ Before(fs, i, j) \/ Before(fs, j, i)
              /\ Before(fs, i, j) /\ Before(fs, j, i) => i = j
              /\ Before(fs, i, j) /\ Before(fs, j, k) => Before(fs, i, k)
<1> SUFFICES ASSUME NEW i \in DOMAIN fs, NEW j \in DOMAIN fs, NEW k \in DOMAIN fs
             PROVE  /\ Before(fs, i, i)
                    /\ Before(fs, i, j) \/ Before(fs, j, i)
                    /\ Before(fs, i, j) /\ Before(fs, j, i) => i = j
                    /\ Before(fs, i, j) /\ Before(fs, j, k) => Before(fs, i, k)
  OBVIOUS
<1>1. fs[i] \in Texts /\ fs[j] \in Texts /\ fs[k] \in Texts
      /\ i \in Nat /\ j \in Nat /\ k \in Nat
  OBVIOUS
<1>2. /\ Rank[fs[i]] \in Nat /\ Rank[fs[j]] \in Nat /\ Rank[fs[k]] \in Nat
      /\ Rank[fs[i]] = Rank[fs[j]] => fs[i] = fs[j]
  BY <1>1, RanksAreOrdered
<1> HIDE DEF Texts
<1> QED BY <1>1, <1>2 DEF Before

(* Every place of the sorted list is the place of one entry.               *)
LEMMA PlacesAreDistinct ==
    ASSUME NEW fs \in Seq(Texts)
    PROVE  /\ \A i \in DOMAIN fs : Place(fs, i) \in 1 .. Len(fs)
           /\ \A i, j \in DOMAIN fs : Place(fs, i) = Place(fs, j) => i = j
           /\ \A i, j \in DOMAIN fs : Place(fs, i) < Place(fs, j) => Before(fs, i, j)
           /\ \A k \in 1 .. Len(fs) : \E i \in DOMAIN fs : Place(fs, i) = k
<1> DEFINE n == Len(fs)
           S(i) == {j \in DOMAIN fs : Before(fs, j, i)}
<1>1. n \in Nat /\ DOMAIN fs = 1 .. n /\ IsFiniteSet(1 .. n) /\ Cardinality(1 .. n) = n
  BY LenProperties, CountingUp
<1>2. \A i, j, k \in 1 .. n :
              /\ Before(fs, i, i)
              /\ Before(fs, i, j) \/ Before(fs, j, i)
              /\ Before(fs, i, j) /\ Before(fs, j, i) => i = j
              /\ Before(fs, i, j) /\ Before(fs, j, k) => Before(fs, i, k)
  BY <1>1, BeforeIsTotal
<1>3. \A i \in 1 .. n : /\ S(i) \in SUBSET (1 .. n) /\ i \in S(i)
                        /\ IsFiniteSet(S(i)) /\ Cardinality(S(i)) \in 1 .. n
  <2> SUFFICES ASSUME NEW i \in 1 .. n
               PROVE /\ S(i) \in SUBSET (1 .. n) /\ i \in S(i)
                     /\ IsFiniteSet(S(i)) /\ Cardinality(S(i)) \in 1 .. n
    OBVIOUS
  <2>1. S(i) \in SUBSET (1 .. n) /\ i \in S(i)
    BY <1>1, <1>2
  <2> HIDE DEF S
  <2>2. IsFiniteSet(S(i)) /\ Cardinality(S(i)) <= n
    BY <1>1, <2>1, FS_Subset
  <2>3. Cardinality(S(i)) \in Nat /\ Cardinality(S(i)) # 0
    BY <2>1, <2>2, FS_CardinalityType, FS_EmptySet
  <2> QED BY <1>1, <2>1, <2>2, <2>3
<1>4. \A i, j \in 1 .. n : Before(fs, i, j) => Cardinality(S(i)) <= Cardinality(S(j))
  <2> SUFFICES ASSUME NEW i \in 1 .. n, NEW j \in 1 .. n, Before(fs, i, j)
               PROVE  Cardinality(S(i)) <= Cardinality(S(j))
    OBVIOUS
  <2>1. S(i) \in SUBSET S(j)
    BY <1>1, <1>2
  <2> HIDE DEF S
  <2> QED BY <1>3, <2>1, FS_Subset
<1>5. \A i, j \in 1 .. n : Cardinality(S(i)) = Cardinality(S(j)) => i = j
  <2> SUFFICES ASSUME NEW i \in 1 .. n, NEW j \in 1 .. n, Before(fs, i, j),
                      Cardinality(S(i)) = Cardinality(S(j))
               PROVE  i = j
    BY <1>2
  <2>1. S(i) \in SUBSET S(j)
    BY <1>1, <1>2
  <2>2. S(i) = S(j)
    <3> HIDE DEF S
    <3> QED BY <1>3, <2>1, FS_Subset
  <2>3. j \in S(i)
    BY <2>2, <1>3
  <2> QED BY <2>3, <1>2
<1>6. \A i \in 1 .. n : Place(fs, i) = Cardinality(S(i))
  BY DEF Place
<1> HIDE DEF S
<1>7. \A i, j \in 1 .. n : Place(fs, i) < Place(fs, j) => Before(fs, i, j)
  <2> SUFFICES ASSUME NEW i \in 1 .. n, NEW j \in 1 .. n, Place(fs, i) < Place(fs, j),
                      ~Before(fs, i, j)
               PROVE  FALSE
    OBVIOUS
  <2>1. Before(fs, j, i)
    BY <1>2
  <2>2. Cardinality(S(j)) <= Cardinality(S(i)) /\ Cardinality(S(i)) < Cardinality(S(j))
    BY <1>4, <1>6, <2>1
  <2>3. Cardinality(S(i)) \in Nat /\ Cardinality(S(j)) \in Nat
    BY <1>3
  <2> QED BY <2>2, <2>3
<1>8. \A k \in 1 .. n : \E i \in 1 .. n : Place(fs, i) = k
  <2> DEFINE f == [i \in 1 .. n |-> Cardinality(S(i))]
  <2>1. f \in [1 .. n -> 1 .. n] /\ \A a, b \in 1 .. n : f[a] = f[b] => a = b
    BY <1>3, <1>5
  <2>2. \A i \in 1 .. n : f[i] = Place(fs, i)
    BY <1>6
  <2> HIDE DEF f, n
  <2>3. \A k \in 1 .. n : \E i \in 1 .. n : f[i] = k
    BY <1>1, <2>1, InjectionsAreOnto
  <2> QED BY <2>2, <2>3
<1> QED BY <1>1, <1>3, <1>5, <1>6, <1>7, <1>8

(* What files.sort() gives: the same texts, as often, in order.            *)
LEMMA SortedLists ==
    ASSUME NEW fs \in Seq(Texts)
    PROVE  /\ Sorted(fs) \in Seq(Texts) /\ Len(Sorted(fs)) = Len(fs)
           /\ ToSet(Sorted(fs)) = ToSet(fs)
           /\ IsInjective(fs) =>
                 /\ IsInjective(Sorted(fs))
                 /\ \A k, l \in 1 .. Len(fs) : k < l => Rank[Sorted(fs)[k]] < Rank[Sorted(fs)[l]]
<1> DEFINE n    == Len(fs)
           p(k) == CHOOSE i \in DOMAIN fs : Place(fs, i) = k
<1>1. n \in Nat /\ DOMAIN fs = 1 .. n
  OBVIOUS
<1>2. \A k \in 1 .. n : p(k) \in 1 .. n /\ Place(fs, p(k)) = k
  BY <1>1, PlacesAreDistinct
<1>3. \A i \in 1 .. n : Place(fs, i) \in 1 .. n /\ p(Place(fs, i)) = i
  BY <1>1, PlacesAreDistinct
<1>4. Sorted(fs) = [k \in 1 .. n |-> fs[p(k)]]
  BY <1>1 DEF Sorted
<1> HIDE DEF p, n
<1>5. Sorted(fs) \in Seq(Texts) /\ Len(Sorted(fs)) = n
  <2>1. Sorted(fs) \in [1 .. n -> Texts]
    BY <1>1, <1>2, <1>4
  <2> QED BY <1>1, <2>1
<1>6. ToSet(Sorted(fs)) = ToSet(fs)
  <2>1. DOMAIN Sorted(fs) = 1 .. n /\ DOMAIN fs = 1 .. n
    BY <1>1, <1>4
  <2>2. \A i \in 1 .. n : Sorted(fs)[Place(fs, i)] = fs[i]
    BY <1>3, <1>4
  <2>3. \A k \in 1 .. n : Sorted(fs)[k] = fs[p(k)]
    BY <1>4
  <2> QED BY <1>2, <1>3, <2>1, <2>2, <2>3 DEF ToSet
<1>7. ASSUME IsInjective(fs)
      PROVE  /\ IsInjective(Sorted(fs))
             /\ \A k, l \in 1 .. n : k < l => Rank[Sorted(fs)[k]] < Rank[Sorted(fs)[l]]
  <2>1. \A i, j \in 1 .. n : fs[i] = fs[j] => i = j
    BY <1>1, <1>7 DEF IsInjective
  <2>2. IsInjective(Sorted(fs))
    <3>1. \A k, l \in 1 .. n : Sorted(fs)[k] = Sorted(fs)[l] => p(k) = p(l)
      BY <1>2, <1>4, <2>1
    <3>2. \A k, l \in 1 .. n : p(k) = p(l) => k = l
      BY <1>2
    <3>3. DOMAIN Sorted(fs) = 1 .. n
      BY <1>4
    <3> QED BY <3>1, <3>2, <3>3 DEF IsInjective
  <2>3. ASSUME NEW k \in 1 .. n, NEW l \in 1 .. n, k < l
        PROVE  Rank[Sorted(fs)[k]] < Rank[Sorted(fs)[l]]
    <3>1. Before(fs, p(k), p(l)) /\ p(k) # p(l)
      <4>1. p(k) \in DOMAIN fs /\ p(l) \in DOMAIN fs
            /\ Place(fs, p(k)) = k /\ Place(fs, p(l)) = l
        BY <1>1, <1>2
      <4>2. Place(fs, p(k)) < Place(fs, p(l)) /\ Place(fs, p(k)) # Place(fs, p(l))
        BY <2>3, <4>1
      <4>3. Before(fs, p(k), p(l))
        BY <4>1, <4>2, PlacesAreDistinct
      <4> QED BY <4>2, <4>3
    <3>2. fs[p(k)] # fs[p(l)]
      BY <1>2, <2>1, <3>1
    <3> QED BY <1>4, <3>1, <3>2 DEF Before
  <2> QED BY <2>2, <2>3
<1> QED BY <1>5, <1>6, <1>7 DEF n

(* In an ordered list the place of an element is the number of elements of *)
(* no higher rank; so there is one ordered list of a set.                  *)
IsListing(s, n, S, R) ==
    s \in Bijection(1 .. n, S) /\ \A i, j \in 1 .. n : i < j => R[s[i]] < R[s[j]]

NoHigher(x, S, R) == {y \in S : R[y] <= R[x]}

LEMMA ListingPlace ==
    ASSUME NEW S, NEW R, \A x \in S : R[x] \in Nat, NEW n \in Nat, NEW s, IsListing(s, n, S, R)
    PROVE  \A i \in 1 .. n : Cardinality(NoHigher(s[i], S, R)) = i
<1>1. /\ s \in [1 .. n -> S] /\ \A y \in S : \E j \in 1 .. n : s[j] = y
      /\ \A a, b \in 1 .. n : s[a] = s[b] => a = b
      /\ \A i, j \in 1 .. n : i < j => R[s[i]] < R[s[j]]
  BY Fun_BijectionProperties DEF IsListing
<1> SUFFICES ASSUME NEW i \in 1 .. n
             PROVE  Cardinality(NoHigher(s[i], S, R)) = i
  OBVIOUS
<1> DEFINE U == {y \in S : R[y] <= R[s[i]]}
           g == [j \in 1 .. i |-> s[j]]
<1>2. \A j \in 1 .. n : s[j] \in U <=> j <= i
  <2> SUFFICES ASSUME NEW j \in 1 .. n PROVE R[s[j]] <= R[s[i]] <=> j <= i
    BY <1>1
  <2>1. R[s[j]] \in Nat /\ R[s[i]] \in Nat
    BY <1>1
  <2>2. j < i \/ j = i \/ i < j
    OBVIOUS
  <2> QED BY <1>1, <2>1, <2>2
<1>3. g \in [1 .. i -> U]
  <2>1. \A j \in 1 .. i : j \in 1 .. n /\ j <= i
    OBVIOUS
  <2> QED BY <1>2, <2>1
<1>4. \A a, b \in 1 .. i : g[a] = g[b] => a = b
  BY <1>1
<1>5. \A y \in U : \E j \in 1 .. i : g[j] = y
  <2> SUFFICES ASSUME NEW y \in U PROVE \E j \in 1 .. i : g[j] = y
    OBVIOUS
  <2>1. PICK j \in 1 .. n : s[j] = y
    BY <1>1
  <2>2. j \in 1 .. i
    BY <1>2, <2>1
  <2> QED BY <2>1, <2>2
<1> HIDE DEF U, g
<1>6. ExistsBijection(1 .. i, U)
  BY <1>3, <1>4, <1>5, Fun_IsBij DEF ExistsBijection
<1>7. IsFiniteSet(1 .. i) /\ Cardinality(1 .. i) = i
  BY CountingUp
<1>8. Cardinality(U) = i
  BY <1>6, <1>7, FS_Bijection
<1> QED BY <1>8 DEF U, NoHigher

LEMMA OneListing ==
    ASSUME NEW S, NEW R, \A x \in S : R[x] \in Nat, NEW n \in Nat,
           NEW s, IsListing(s, n, S, R), NEW t, IsListing(t, n, S, R)
    PROVE  s = t
<1>1. s \in [1 .. n -> S] /\ t \in [1 .. n -> S]
      /\ \A y \in S : \E j \in 1 .. n : t[j] = y
  BY Fun_BijectionProperties DEF IsListing
<1>2. \A k \in 1 .. n : Cardinality(NoHigher(s[k], S, R)) = k
  BY ListingPlace
<1>3. \A k \in 1 .. n : Cardinality(NoHigher(t[k], S, R)) = k
  BY ListingPlace
<1>4. ASSUME NEW i \in 1 .. n PROVE s[i] = t[i]
  <2>1. PICK j \in 1 .. n : t[j] = s[i]
    BY <1>1
  <2> QED BY <1>2, <1>3, <2>1
<1> QED BY <1>1, <1>4

-----------------------------------------------------------------------------
(* Trees                                                                   *)

(* What the recursive definition defines: the paths below `sources` are    *)
(* its entries and the entries of directories below it.                    *)
Enters(p, S) == Parent[p] # Top /\ (Parent[p] = Sources \/ Parent[p] \in S)
Below ==
    {p \in Paths :
        \A S \in SUBSET Paths : (\A q \in Paths : Enters(q, S) => q \in S) => p \in S}

LEMMA BelowIsFixed == \A p \in Paths : p \in Below <=> Enters(p, Below)
<1> DEFINE T == {p \in Paths : Enters(p, Below)}
<1>1. T \subseteq Below
  BY DEF Below, Enters
<1>2. \A q \in Paths : Enters(q, T) => q \in T
  BY <1>1 DEF Enters
<1>3. Below \subseteq T
  <2>1. T \in SUBSET Paths
    OBVIOUS
  <2> HIDE DEF T
  <2> QED BY <1>2, <2>1 DEF Below
<1> QED BY <1>1, <1>3

LEMMA InSourcesIsBelow ==
    /\ InSources \in [Paths -> BOOLEAN]
    /\ \A p \in Paths : InSources[p] <=> Enters(p, {q \in Paths : InSources[q]})
<1> DEFINE Step(f, p) == Parent[p] # Top /\ (Parent[p] = Sources \/ f[Parent[p]])
           f0 == [p \in Paths |-> p \in Below]
<1>1. f0 = [p \in Paths |-> Step(f0, p)]
  <2> SUFFICES ASSUME NEW p \in Paths PROVE (p \in Below) = Step(f0, p)
    OBVIOUS
  <2>1. Parent[p] # Top => f0[Parent[p]] = (Parent[p] \in Below)
    BY SourceHashAssumption
  <2>2. p \in Below <=> Enters(p, Below)
    BY BelowIsFixed
  <2>3. p \in Below <=> Step(f0, p)
    BY <2>1, <2>2 DEF Enters
  <2>4. (p \in Below) \in BOOLEAN /\ Step(f0, p) \in BOOLEAN
    <3> HIDE DEF f0
    <3> QED OBVIOUS
  <2> HIDE DEF Step, f0
  <2> QED BY <2>3, <2>4
<1>2. InSources = [p \in Paths |-> Step(InSources, p)]
  BY <1>1 DEF InSources
<1> QED BY <1>2, SourceHashAssumption DEF Enters

LEMMA EntersSources ==
    \A p \in Paths :
        InSources[p] <=> Parent[p] = Sources \/ (Parent[p] \in Paths /\ InSources[Parent[p]])
<1>1. Sources \in Paths /\ Top \notin Paths /\ \A p \in Paths : Parent[p] \in Paths \cup {Top}
  BY SourceHashAssumption
<1> QED BY <1>1, InSourcesIsBelow DEF Enters

-----------------------------------------------------------------------------
(* The inductive invariant                                                 *)

(* What a listing of a tree is to find, and what refuses it.               *)
Listed(t) == {p \in Manifests \cup {q \in MoveNames : InSources[q]} : t[p] = "file"}
Linked(t) ==
    \E p \in Manifests \cup {Sources} \cup {q \in Paths : InSources[q]} : t[p] = "link"
RefusedTree(t) == t[MoveToml] # "file" \/ Linked(t)

(* A walk that has visited V: nothing that is there can be missed, as      *)
(* whatever is in a visited directory was visited or still waits in todo;  *)
(* the walk has met no symlink, and has taken each file once.              *)
Found(V) == {p \in Manifests \cup (V \cap MoveNames) : tree[p] = "file"}
Explored(V) ==
    /\ V \cap todo = {}
    /\ \A p \in V \cup todo : Present(p) /\ InSources[p] /\ Parent[p] \in {Sources} \cup V
    /\ \A p \in Paths : Present(p) /\ Parent[p] \in {Sources} \cup V => p \in V \cup todo
    /\ \A p \in V : tree[p] # "link"
    /\ ToSet(files) = {Text[p] : p \in Found(V)}
    /\ Len(files) = Cardinality(Found(V))

WalkInv == Walking => IsPackage /\ \E V \in SUBSET Paths : Explored(V)

Local  == {"local", "local walk"}
Kept   == {"prune", "hash", "hash walk"}
Ending == {"hash", "hash walk"}

(* Whoever is done has an answer, and has refused what is to be refused.   *)
AnswerInv ==
    /\ pc \in Local <=> result[Consumer] = Absent
    /\ pc # "done" <=> result[Enclave] = Absent
    /\ pc \notin Local /\ RefusedTree(checkout) => result[Consumer] = Error
    /\ pc = "done" /\ RefusedTree(checkout) => result[Enclave] = Error

(* Only the pruning changes the tree: it takes nothing that is kept, and   *)
(* in the end leaves nothing else.                                         *)
TreeInv ==
    /\ pc \in Local \cup {"keep", "keep walk"} => tree = checkout
    /\ pc \in Kept =>
          /\ ~RefusedTree(checkout)
          /\ keep = {Text[p] : p \in Listed(checkout)}
          /\ \A p \in Paths : /\ tree[p] \in {checkout[p], Absent}
                              /\ checkout[p] = "file" /\ p \in keep => tree[p] = "file"
    /\ pc \in Ending =>
          \A p \in Paths : tree[p] \in {"dir", Absent} \/ (tree[p] = "file" /\ p \in keep)

HashInv == HashTypeOK /\ WalkInv /\ AnswerInv /\ TreeInv /\ HashCoversTheBuild

LEMMA WalkPhases ==
    /\ DOMAIN WalkPhase = {"local", "keep", "hash"}
    /\ WalkPhase["local"] = "local walk" /\ WalkPhase["keep"] = "keep walk"
    /\ WalkPhase["hash"] = "hash walk"
    /\ Walking <=> pc \in {"local walk", "keep walk", "hash walk"}
    /\ Walking' <=> pc' \in {"local walk", "keep walk", "hash walk"}
<1>1. DOMAIN WalkPhase = {"local", "keep", "hash"}
  BY DEF WalkPhase
<1>2. /\ WalkPhase["local"] = "local walk" /\ WalkPhase["keep"] = "keep walk"
      /\ WalkPhase["hash"] = "hash walk"
  BY DEF WalkPhase
<1> QED BY <1>1, <1>2 DEF Walking

LEMMA UsersAndMarks ==
    /\ Consumer # Enclave
    /\ Absent \notin {"file", "dir", "link"} /\ Error # Absent
    /\ Error \notin Seq(Texts) /\ Absent \notin Seq(Texts)
BY SourceHashAssumption DEF Consumer, Enclave

(* A walk with nothing left to visit has found every build input.          *)
LEMMA WalkIsComplete ==
    ASSUME HashTypeOK, WalkInv, Walking, todo = {}
    PROVE  /\ IsPackage /\ ~RefusedTree(tree)
           /\ ToSet(files) = {Text[p] : p \in Listed(tree)}
           /\ Len(files) = Cardinality(Listed(tree))
<1>1. PICK V \in SUBSET Paths : Explored(V)
  BY DEF WalkInv
<1> DEFINE missed == {p \in Paths : Present(p) /\ InSources[p] /\ p \notin V}
<1>2. missed = {}
  <2> SUFFICES ASSUME missed # {} PROVE FALSE
    OBVIOUS
  <2>1. PICK p \in missed : Parent[p] \notin missed
    <3>1. missed \in SUBSET Paths
      OBVIOUS
    <3> HIDE DEF missed
    <3> QED BY <3>1, SourceHashAssumption
  <2>2. p \in Paths /\ Present(p) /\ InSources[p] /\ p \notin V
    BY <2>1
  <2>3. Parent[p] # Sources /\ Parent[p] \notin V
    BY <1>1, <2>2 DEF Explored
  <2>4. Parent[p] \in Paths /\ InSources[Parent[p]]
    BY <2>2, <2>3, EntersSources
  <2>5. Present(Parent[p])
    <3>1. Parent[p] # Top
      BY <2>4, SourceHashAssumption
    <3>2. tree[Parent[p]] = "dir"
      BY <2>2, <3>1 DEF HashTypeOK, Trees, Present
    <3> QED BY <3>2, UsersAndMarks DEF Present
  <2> QED BY <2>1, <2>3, <2>4, <2>5
<1>3. \A p \in Paths : p \in V <=> Present(p) /\ InSources[p]
  BY <1>1, <1>2 DEF Explored
<1>4. IsPackage
  BY DEF WalkInv
<1>5. Manifests \cup {Sources} \cup MoveNames \subseteq Paths
  BY SourceHashAssumption
<1>6. Found(V) = Listed(tree)
  BY <1>3, <1>5, UsersAndMarks DEF Found, Listed, Present
<1>7. ~RefusedTree(tree)
  <2>1. \A p \in Paths : InSources[p] => tree[p] # "link"
    BY <1>1, <1>3, UsersAndMarks DEF Explored, Present
  <2> QED BY <1>4, <2>1 DEF RefusedTree, Linked, IsPackage
<1> QED BY <1>1, <1>4, <1>6, <1>7 DEF Explored

-----------------------------------------------------------------------------
(* Every step preserves it                                                 *)

LEMMA PathFacts ==
    /\ Manifests \cup {Sources} \cup MoveNames \subseteq Paths /\ Sources \in Paths
    /\ Top \notin Paths
    /\ \A p \in Paths : Parent[p] # p
    /\ \A p \in Paths : InSources[p] => p \notin Manifests \cup {Sources}
    /\ \A p \in Paths : Text[p] \in Texts
    /\ \A p \in Manifests : Text[p] = p
    /\ MoveToml \in Manifests
<1>1. \A p \in Paths : Parent[p] # p
  <2> SUFFICES ASSUME NEW p \in Paths PROVE Parent[p] # p
    OBVIOUS
  <2>1. {p} \in SUBSET Paths /\ {p} # {}
    OBVIOUS
  <2>2. \E q \in {p} : Parent[q] \notin {p}
    BY <2>1, SourceHashAssumption
  <2> QED BY <2>2
<1>2. \A p \in Paths : InSources[p] => Parent[p] # Top
  BY InSourcesIsBelow DEF Enters
<1>3. \A p \in Manifests \cup {Sources} : Parent[p] = Top /\ Text[p] = p
  BY SourceHashAssumption
<1>4. Manifests \cup {Sources} \cup MoveNames \subseteq Paths /\ Top \notin Paths
  BY SourceHashAssumption
<1> QED BY <1>1, <1>2, <1>3, <1>4 DEF Texts, Manifests

LEMMA FailsKeepsInv ==
    ASSUME HashInv, pc \in {"local", "keep", "hash", "local walk", "keep walk", "hash walk"},
           Fails(User(pc))
    PROVE  HashInv'
<1>1. CASE pc \in Local
  <2>1. User(pc) = Consumer
    BY <1>1 DEF User, Local
  <2>2. /\ result' = [result EXCEPT ![Consumer] = Error] /\ pc' = "keep"
        /\ todo' = {} /\ files' = <<>> /\ UNCHANGED <<tree, keep, checkout>>
    BY <2>1 DEF Fails
  <2>3. HashTypeOK'
    <3>1. <<>> \in Seq(Texts)
      BY EmptySeq
    <3> QED BY <2>2, <3>1 DEF HashInv, HashTypeOK, Steps
  <2>4. ~(Walking')
    BY <2>2, WalkPhases
  <2>5. AnswerInv'
    BY <1>1, <2>2, UsersAndMarks DEF HashInv, HashTypeOK, AnswerInv, Local, RefusedTree, Linked
  <2>6. TreeInv'
    BY <1>1, <2>2 DEF HashInv, TreeInv, Local, Kept, Ending
  <2> QED BY <2>2, <2>3, <2>4, <2>5, <2>6 DEF HashInv, WalkInv, HashCoversTheBuild
<1>2. CASE pc \notin Local
  <2>1. User(pc) = Enclave
    BY <1>2 DEF User, Local
  <2>2. /\ result' = [result EXCEPT ![Enclave] = Error] /\ pc' = "done"
        /\ todo' = {} /\ files' = <<>> /\ UNCHANGED <<tree, keep, checkout>>
    BY <2>1, UsersAndMarks DEF Fails
  <2>3. HashTypeOK'
    <3>1. <<>> \in Seq(Texts)
      BY EmptySeq
    <3> QED BY <2>2, <3>1 DEF HashInv, HashTypeOK, Steps
  <2>4. ~(Walking')
    BY <2>2, WalkPhases
  <2>5. AnswerInv'
    BY <1>2, <2>2, UsersAndMarks DEF HashInv, HashTypeOK, AnswerInv, Local, RefusedTree, Linked
  <2>6. TreeInv'
    BY <2>2 DEF TreeInv, Local, Kept, Ending
  <2>7. result'[Enclave] = Error
    BY <2>2 DEF HashInv, HashTypeOK
  <2> QED BY <2>2, <2>3, <2>4, <2>5, <2>6, <2>7 DEF HashInv, WalkInv, HashCoversTheBuild
<1> QED BY <1>1, <1>2

LEMMA EntriesOfDirectories ==
    ASSUME HashTypeOK, NEW d \in Paths, tree[d] # "dir"
    PROVE  Entries(d) = {}
BY PathFacts, UsersAndMarks DEF HashTypeOK, Trees, Entries, Present

LEMMA StartKeepsInv ==
    ASSUME HashInv, BuildInputFiles
    PROVE  HashInv'
<1>1. pc \in {"local", "keep", "hash"}
  BY WalkPhases DEF BuildInputFiles
<1>2. CASE ~IsPackage
  BY <1>1, <1>2, FailsKeepsInv DEF BuildInputFiles
<1>3. CASE IsPackage
  <2> DEFINE S == {p \in Manifests : tree[p] = "file"}
  <2>1. /\ files' = SetToSeq(S) /\ pc' = WalkPhase[pc]
        /\ todo' = Entries(Sources)
        /\ tree' = tree /\ keep' = keep /\ result' = result /\ checkout' = checkout
    BY <1>3, EntriesOfDirectories, PathFacts DEF BuildInputFiles, HashInv
  <2>2. IsFiniteSet(S) /\ S \subseteq Texts
    <3>1. S \subseteq Paths
      BY PathFacts
    <3>2. S \subseteq Texts
      BY PathFacts
    <3> HIDE DEF S
    <3> QED BY <3>1, <3>2, SourceHashAssumption, FS_Subset
  <2>3. files' \in Seq(S) /\ Len(files') = Cardinality(S) /\ ToSet(files') = S
    <3> HIDE DEF S
    <3> QED BY <2>1, <2>2, ListingExists
  <2>4. pc' \in {"local walk", "keep walk", "hash walk"}
        /\ (pc \in Local <=> pc' \in Local) /\ (pc = "hash" <=> pc' = "hash walk")
        /\ (pc = "keep" <=> pc' = "keep walk")
    BY <1>1, <2>1, WalkPhases DEF Local
  <2>5. HashTypeOK'
    <3>1. files' \in Seq(Texts)
      BY <2>2, <2>3
    <3>2. todo' \subseteq Paths
      BY <2>1 DEF Entries
    <3> QED BY <2>1, <2>4, <3>1, <3>2 DEF HashInv, HashTypeOK, Steps, Trees
  <2>6. WalkInv'
    <3>1. IsPackage'
      BY <1>3, <2>1 DEF IsPackage
    <3>2. Found({})' = S
      BY <2>1 DEF Found
    <3>3. S = {Text[p] : p \in S}
      BY PathFacts
    <3>4. \A p \in todo' : Present(p)' /\ InSources[p] /\ Parent[p] = Sources
      BY <2>1, EntersSources DEF Entries, Present
    <3>5. \A p \in Paths : Present(p)' /\ Parent[p] = Sources => p \in todo'
      BY <2>1 DEF Entries, Present
    <3>6. Explored({})'
      <4> HIDE DEF S
      <4> QED BY <2>3, <3>2, <3>3, <3>4, <3>5 DEF Explored
    <3> QED BY <3>1, <3>6 DEF WalkInv
  <2>7. AnswerInv'
    BY <2>1, <2>4, <1>1 DEF HashInv, AnswerInv, RefusedTree, Linked, Local
  <2>8. TreeInv'
    BY <2>1, <2>4, <1>1 DEF HashInv, TreeInv, RefusedTree, Linked, Listed, Kept, Ending, Local
  <2> QED BY <2>4, <2>5, <2>6, <2>7, <2>8 DEF HashInv, HashCoversTheBuild
<1> QED BY <1>2, <1>3

LEMMA AppendedLists ==
    ASSUME NEW s \in Seq(Texts), NEW e \in Texts
    PROVE  /\ Append(s, e) \in Seq(Texts) /\ Len(Append(s, e)) = Len(s) + 1
           /\ ToSet(Append(s, e)) = ToSet(s) \cup {e}
<1>1. Append(s, e) \in Seq(Texts) /\ Len(Append(s, e)) = Len(s) + 1 /\ Len(s) \in Nat
  BY AppendProperties, LenProperties
<1>2. DOMAIN s = 1 .. Len(s) /\ DOMAIN Append(s, e) = 1 .. Len(s) + 1
  BY <1>1, LenProperties
<1>3. /\ \A i \in 1 .. Len(s) : Append(s, e)[i] = s[i]
      /\ Append(s, e)[Len(s) + 1] = e
  BY AppendProperties
<1>4. \A i \in 1 .. Len(s) + 1 : i \in 1 .. Len(s) \/ i = Len(s) + 1
  BY <1>1
<1>5. Len(s) + 1 \in 1 .. Len(s) + 1 /\ \A i \in 1 .. Len(s) : i \in 1 .. Len(s) + 1
  BY <1>1
<1>6. ToSet(Append(s, e)) = ToSet(s) \cup {e}
  <2> DEFINE n == Len(s)
             t == Append(s, e)
  <2>1. /\ DOMAIN s = 1 .. n /\ DOMAIN t = 1 .. n + 1
        /\ \A i \in 1 .. n : t[i] = s[i]
        /\ t[n + 1] = e
        /\ \A i \in 1 .. n + 1 : i \in 1 .. n \/ i = n + 1
        /\ n + 1 \in 1 .. n + 1 /\ \A i \in 1 .. n : i \in 1 .. n + 1
    BY <1>2, <1>3, <1>4, <1>5
  <2> HIDE DEF n, t
  <2>2. ToSet(t) = ToSet(s) \cup {e}
    BY <2>1, Zenon DEF ToSet
  <2> QED BY <2>2 DEF t
<1> QED BY <1>1, <1>6

LEMMA CollectKeepsInv ==
    ASSUME HashInv, NEW p \in Paths, CollectMoveFile(p)
    PROVE  HashInv'
<1>1. pc \in {"local walk", "keep walk", "hash walk"} /\ Walking
  BY WalkPhases DEF CollectMoveFile
<1>2. CASE IsLink(p)
  BY <1>1, <1>2, FailsKeepsInv DEF CollectMoveFile
<1>3. CASE ~IsLink(p)
  <2>1. /\ p \in todo /\ tree[p] # "link"
        /\ todo' = (todo \ {p}) \cup Entries(p)
        /\ files' = IF tree[p] # "dir" /\ p \in MoveNames
                    THEN Append(files, Text[p]) ELSE files
        /\ tree' = tree /\ pc' = pc /\ keep' = keep /\ result' = result
        /\ checkout' = checkout
    BY <1>3, EntriesOfDirectories DEF CollectMoveFile, CollectsFile, IsLink, HashInv
  <2>2. Text[p] \in Texts
    BY PathFacts
  <2>3. HashTypeOK'
    <3>1. files' \in Seq(Texts)
      BY <2>1, <2>2, AppendedLists DEF HashInv, HashTypeOK
    <3>2. todo' \subseteq Paths
      BY <2>1 DEF Entries, HashInv, HashTypeOK
    <3> QED BY <2>1, <3>1, <3>2 DEF HashInv, HashTypeOK
  <2>4. IsPackage /\ IsPackage'
    BY <1>1, <2>1 DEF HashInv, WalkInv, IsPackage
  <2>5. PICK V \in SUBSET Paths : Explored(V)
    BY <1>1 DEF HashInv, WalkInv
  <2>6. p \notin V /\ Present(p) /\ InSources[p] /\ Parent[p] \in {Sources} \cup V
    BY <2>1, <2>5 DEF Explored
  <2>7. p \notin Manifests \cup {Sources} /\ Parent[p] # p
    BY <2>6, PathFacts
  <2> DEFINE W == V \cup {p}
  <2>8. W \cap todo' = {}
    <3>1. \A q \in Entries(p) : q # p /\ q \notin V
      BY <2>5, <2>6, <2>7 DEF Entries, Explored
    <3> QED BY <2>1, <2>5, <3>1 DEF Explored
  <2>9. \A q \in W \cup todo' :
           Present(q)' /\ InSources[q] /\ Parent[q] \in {Sources} \cup W
    <3>1. \A q \in Entries(p) : Present(q) /\ InSources[q] /\ Parent[q] = p
      BY <2>6, EntersSources DEF Entries
    <3> QED BY <2>1, <2>5, <2>6, <3>1 DEF Explored, Present
  <2>10. \A q \in Paths : Present(q)' /\ Parent[q] \in {Sources} \cup W => q \in W \cup todo'
    BY <2>1, <2>5 DEF Explored, Present, Entries
  <2>11. \A q \in W : tree'[q] # "link"
    BY <2>1, <2>5 DEF Explored
  <2>12. ToSet(files') = {Text[q] : q \in Found(W)'} /\ Len(files') = Cardinality(Found(W)')
    <3>1. CASE tree[p] # "dir" /\ p \in MoveNames
      <4>1. tree[p] = "file"
        BY <2>1, <2>6, <3>1, UsersAndMarks DEF Present, HashInv, HashTypeOK, Trees, Kinds
      <4>2. Found(W)' = Found(V) \cup {p} /\ p \notin Found(V)
        BY <2>1, <2>6, <2>7, <3>1, <4>1 DEF Found
      <4>3. IsFiniteSet(Found(V))
        <5>1. Found(V) \subseteq Paths
          BY PathFacts DEF Found
        <5> QED BY <5>1, SourceHashAssumption, FS_Subset
      <4>4. Cardinality(Found(V) \cup {p}) = Cardinality(Found(V)) + 1
        BY <4>2, <4>3, FS_AddElement
      <4>5. files \in Seq(Texts) /\ ToSet(files) = {Text[q] : q \in Found(V)}
            /\ Len(files) = Cardinality(Found(V))
        BY <2>5 DEF Explored, HashInv, HashTypeOK
      <4>6. files' = Append(files, Text[p])
        BY <2>1, <3>1
      <4>7. /\ ToSet(files') = {Text[q] : q \in Found(V)} \cup {Text[p]}
            /\ Len(files') = Cardinality(Found(V)) + 1
        BY <2>2, <4>5, <4>6, AppendedLists
      <4>8. {Text[q] : q \in Found(V) \cup {p}} = {Text[q] : q \in Found(V)} \cup {Text[p]}
        OBVIOUS
      <4> QED BY <4>2, <4>4, <4>7, <4>8
    <3>2. CASE ~(tree[p] # "dir" /\ p \in MoveNames)
      <4>1. Found(W)' = Found(V)
        BY <2>1, <2>6, <2>7, <3>2 DEF Found
      <4>2. files' = files
        BY <2>1, <3>2
      <4> QED BY <2>5, <4>1, <4>2 DEF Explored
    <3> QED BY <3>1, <3>2
  <2>13. WalkInv'
    <3>1. W \in SUBSET Paths
      OBVIOUS
    <3>2. Explored(W)'
      <4> HIDE DEF W
      <4> QED BY <2>8, <2>9, <2>10, <2>11, <2>12 DEF Explored
    <3> QED BY <2>4, <3>1, <3>2 DEF WalkInv
  <2>14. AnswerInv'
    BY <2>1 DEF HashInv, AnswerInv, RefusedTree, Linked
  <2>15. TreeInv'
    BY <2>1 DEF HashInv, TreeInv, RefusedTree, Linked, Listed
  <2> QED BY <1>1, <2>1, <2>3, <2>13, <2>14, <2>15 DEF HashInv, HashCoversTheBuild
<1> QED BY <1>2, <1>3

(* Once the tree is pruned its files are its build inputs and no others,   *)
(* and each is called what its text says, whatever the names were before.  *)
LEMMA LeftIsListed ==
    ASSUME HashTypeOK, TreeInv, pc \in Ending
    PROVE  /\ Listed(tree) = {p \in Paths : tree[p] = "file"}
           /\ {Text[p] : p \in Listed(tree)} = Listed(tree)
           /\ \A p \in Paths : tree[p] # "link"
<1>1. \A p \in Paths : tree[p] \in {"dir", Absent} \/ (tree[p] = "file" /\ p \in keep)
  BY DEF TreeInv
<1>2. keep = {Text[p] : p \in Listed(checkout)}
  BY DEF TreeInv, Kept, Ending
<1>3. ASSUME NEW p \in Paths, tree[p] = "file"
      PROVE  p \in Listed(tree) /\ Text[p] = p
  <2>1. p \in keep
    BY <1>1, <1>3, UsersAndMarks
  <2>2. PICK q \in Listed(checkout) : p = Text[q]
    BY <1>2, <2>1
  <2>3. Text[p] = p
    <3>1. q \in Paths
      BY PathFacts DEF Listed
    <3>2. p \in Texts \cap Paths
      BY <2>2, <3>1, PathFacts
    <3> QED BY <3>2, SourceHashAssumption
  <2>4. p \in Manifests \/ (p \in MoveNames /\ InSources[p])
    <3>1. CASE q \in Manifests
      BY <2>2, <3>1, PathFacts
    <3>2. CASE q \in MoveNames /\ InSources[q]
      BY <2>2, <3>2, SourceHashAssumption
    <3> QED BY <3>1, <3>2 DEF Listed
  <2> QED BY <1>3, <2>3, <2>4 DEF Listed
<1>4. Listed(tree) \subseteq {p \in Paths : tree[p] = "file"}
  BY PathFacts DEF Listed
<1> QED BY <1>1, <1>3, <1>4, UsersAndMarks

LEMMA HashKeepsInv ==
    ASSUME HashInv, SourceHash
    PROVE  HashInv'
<1>1. pc \in {"local walk", "hash walk"} /\ Walking /\ todo = {}
  BY WalkPhases DEF SourceHash
<1>2. CASE ~Readable(files)
  BY <1>1, <1>2, FailsKeepsInv DEF SourceHash
<1>3. CASE Readable(files)
  <2>1. /\ result' = [result EXCEPT ![User(pc)] = Sorted(files)]
        /\ pc' = IF pc = "local walk" THEN "keep" ELSE "done"
        /\ files' = <<>>
        /\ tree' = tree /\ todo' = todo /\ keep' = keep /\ checkout' = checkout
    BY <1>3 DEF SourceHash
  <2>2. /\ ~RefusedTree(tree)
        /\ ToSet(files) = {Text[p] : p \in Listed(tree)}
        /\ Len(files) = Cardinality(Listed(tree))
    BY <1>1, WalkIsComplete DEF HashInv
  <2>3. files \in Seq(Texts)
    BY DEF HashInv, HashTypeOK
  <2>4. /\ Sorted(files) \in Seq(Texts) /\ Len(Sorted(files)) = Len(files)
        /\ ToSet(Sorted(files)) = ToSet(files)
    BY <2>3, SortedLists
  <2>5. HashTypeOK'
    <3>1. <<>> \in Seq(Texts)
      BY EmptySeq
    <3>2. User(pc) \in {Consumer, Enclave}
      BY DEF User
    <3>3. pc' \in Steps
      BY <2>1 DEF Steps
    <3> QED BY <2>1, <2>4, <3>1, <3>2, <3>3 DEF HashInv, HashTypeOK
  <2>6. ~(Walking')
    BY <2>1, WalkPhases
  <2>7. CASE pc = "local walk"
    <3>1. User(pc) = Consumer /\ pc' = "keep"
      BY <2>1, <2>7 DEF User
    <3>2. result' = [result EXCEPT ![Consumer] = Sorted(files)]
      BY <2>1, <3>1
    <3>3. tree = checkout
      BY <2>7 DEF HashInv, TreeInv, Local
    <3>4. result'[Enclave] = Absent
      BY <2>7, <3>2, UsersAndMarks DEF HashInv, HashTypeOK, AnswerInv
    <3>5. ~RefusedTree(checkout) /\ ~(RefusedTree(checkout)')
      BY <2>1, <2>2, <3>3 DEF RefusedTree, Linked
    <3>6. AnswerInv'
      <4>1. result'[Consumer] # Absent
        BY <2>4, <3>2, UsersAndMarks DEF HashInv, HashTypeOK
      <4> QED BY <3>1, <3>4, <3>5, <4>1 DEF AnswerInv, Local
    <3>7. TreeInv'
      BY <2>1, <3>1, <3>3 DEF TreeInv, Local, Kept, Ending
    <3> QED BY <2>5, <2>6, <3>1, <3>6, <3>7 DEF HashInv, WalkInv, HashCoversTheBuild
  <2>8. CASE pc = "hash walk"
    <3>1. User(pc) = Enclave /\ pc' = "done" /\ pc \in Ending
      BY <2>1, <2>8 DEF User, Ending
    <3>2. result' = [result EXCEPT ![Enclave] = Sorted(files)]
      BY <2>1, <3>1
    <3>3. result'[Enclave] = Sorted(files)
      BY <3>2 DEF HashInv, HashTypeOK
    <3>4. ~RefusedTree(checkout) /\ ~(RefusedTree(checkout)')
      BY <2>1, <2>8 DEF HashInv, TreeInv, Kept, RefusedTree, Linked
    <3>5. AnswerInv'
      <4>1. result[Consumer] # Absent
        BY <2>8 DEF HashInv, AnswerInv, Local
      <4>2. result'[Consumer] # Absent
        BY <3>2, <4>1, UsersAndMarks DEF HashInv, HashTypeOK
      <4>3. result'[Enclave] # Absent
        BY <2>4, <3>3, UsersAndMarks
      <4> QED BY <3>1, <3>4, <4>2, <4>3 DEF AnswerInv, Local
    <3>6. TreeInv'
      BY <3>1 DEF TreeInv, Local, Kept, Ending
    <3>7. HashCoversTheBuild'
      <4> DEFINE left == {p \in Paths : Present(p) /\ tree[p] # "dir"}
      <4>1. /\ Listed(tree) = {p \in Paths : tree[p] = "file"}
            /\ {Text[p] : p \in Listed(tree)} = Listed(tree)
            /\ \A p \in Paths : tree[p] # "link"
        BY <3>1, LeftIsListed DEF HashInv
      <4>2. left = {p \in Paths : tree[p] = "file"}
        BY <4>1, UsersAndMarks DEF Present, HashInv, HashTypeOK, Trees, Kinds
      <4>3. /\ \A p \in left : tree[p] = "file"
            /\ ToSet(Sorted(files)) = left
            /\ Len(Sorted(files)) = Cardinality(left)
        BY <2>2, <2>4, <4>1, <4>2
      <4>4. {p \in Paths : Present(p) /\ tree[p] # "dir"}' = left
        BY <2>1 DEF Present
      <4> HIDE DEF left
      <4>5. /\ \A p \in left : tree'[p] = "file"
            /\ ToSet(result'[Enclave]) = left
            /\ Len(result'[Enclave]) = Cardinality(left)
        BY <2>1, <3>3, <4>3
      <4> QED BY <4>4, <4>5 DEF HashCoversTheBuild
    <3> QED BY <2>5, <2>6, <3>5, <3>6, <3>7 DEF HashInv, WalkInv
  <2> QED BY <1>1, <2>7, <2>8
<1> QED BY <1>2, <1>3

LEMMA KeepKeepsInv ==
    ASSUME HashInv, ListedKeep
    PROVE  HashInv'
<1>1. /\ pc = "keep walk" /\ Walking /\ todo = {} /\ keep' = ToSet(files) /\ files' = <<>>
      /\ pc' = "prune"
      /\ tree' = tree /\ todo' = todo /\ result' = result /\ checkout' = checkout
  BY WalkPhases DEF ListedKeep
<1>2. /\ ~RefusedTree(tree)
      /\ ToSet(files) = {Text[p] : p \in Listed(tree)}
  BY <1>1, WalkIsComplete DEF HashInv
<1>3. tree = checkout
  BY <1>1 DEF HashInv, TreeInv, Local
<1>4. HashTypeOK'
  <2>1. <<>> \in Seq(Texts)
    BY EmptySeq
  <2>2. ToSet(files) \subseteq Texts
    BY DEF HashInv, HashTypeOK, ToSet
  <2> QED BY <1>1, <2>1, <2>2 DEF HashInv, HashTypeOK, Steps
<1>5. ~(Walking')
  BY <1>1, WalkPhases
<1>6. AnswerInv'
  BY <1>1 DEF HashInv, AnswerInv, Local, RefusedTree, Linked
<1>7. TreeInv'
  <2>1. ~(RefusedTree(checkout)')
    BY <1>1, <1>2, <1>3 DEF RefusedTree, Linked
  <2>2. keep' = {Text[p] : p \in Listed(checkout)'}
    BY <1>1, <1>2, <1>3 DEF Listed
  <2>3. pc' \notin Local \cup {"keep", "keep walk"} /\ pc' \notin Ending
    BY <1>1 DEF Local, Ending
  <2> QED BY <1>1, <1>3, <2>1, <2>2, <2>3 DEF TreeInv
<1> QED BY <1>1, <1>4, <1>5, <1>6, <1>7 DEF HashInv, WalkInv, HashCoversTheBuild

LEMMA PruneKeepsInv ==
    ASSUME HashInv, NEW p \in Paths, PruneEntry(p)
    PROVE  HashInv'
<1>1. /\ pc = "prune" /\ Prunable(p) /\ tree' = [tree EXCEPT ![p] = Absent]
      /\ pc' = pc /\ todo' = todo /\ files' = files /\ keep' = keep /\ result' = result
      /\ checkout' = checkout
  BY DEF PruneEntry
<1>2. tree \in [Paths -> Kinds] /\ \A q \in Paths : tree[q] # Absent /\ Parent[q] # Top
                                                   => tree[Parent[q]] = "dir"
  BY DEF HashInv, HashTypeOK, Trees
<1>3. \A q \in Paths : tree'[q] = IF q = p THEN Absent ELSE tree[q]
  BY <1>1, <1>2
<1>4. HashTypeOK'
  <2>1. ASSUME NEW q \in Paths, tree'[q] # Absent, Parent[q] # Top
        PROVE  tree'[Parent[q]] = "dir"
    <3>1. tree[q] # Absent /\ tree[Parent[q]] = "dir"
      BY <1>2, <1>3, <2>1
    <3>2. Parent[q] # p
      BY <1>1, <3>1, UsersAndMarks DEF Prunable, Entries, Present
    <3>3. Parent[q] \in Paths
      BY <2>1, SourceHashAssumption
    <3> QED BY <1>3, <3>1, <3>2, <3>3
  <2>2. tree' \in Trees
    <3>1. tree' \in [Paths -> Kinds]
      BY <1>1, <1>2 DEF Kinds
    <3> QED BY <2>1, <3>1 DEF Trees
  <2> QED BY <1>1, <2>2 DEF HashInv, HashTypeOK
<1>5. ~(Walking')
  BY <1>1, WalkPhases
<1>6. AnswerInv'
  BY <1>1 DEF HashInv, AnswerInv, Local, RefusedTree, Linked
<1>7. TreeInv'
  <2>1. ~RefusedTree(checkout) /\ ~(RefusedTree(checkout)')
    BY <1>1 DEF HashInv, TreeInv, Kept, RefusedTree, Linked
  <2>2. keep' = {Text[q] : q \in Listed(checkout)'}
    BY <1>1 DEF HashInv, TreeInv, Kept, Listed
  <2>3. \A q \in Paths : /\ tree[q] \in {checkout[q], Absent}
                         /\ checkout[q] = "file" /\ q \in keep => tree[q] = "file"
    BY <1>1 DEF HashInv, TreeInv, Kept
  <2>4. tree[p] = "file" => p \notin keep
    BY <1>1, UsersAndMarks DEF Prunable
  <2>5. \A q \in Paths : /\ tree'[q] \in {checkout'[q], Absent}
                         /\ checkout'[q] = "file" /\ q \in keep' => tree'[q] = "file"
    BY <1>1, <1>3, <2>3, <2>4
  <2>6. pc' \notin Local \cup {"keep", "keep walk"} /\ pc' \notin Ending
    BY <1>1 DEF Local, Ending
  <2> QED BY <2>1, <2>2, <2>5, <2>6 DEF TreeInv
<1> QED BY <1>1, <1>4, <1>5, <1>6, <1>7 DEF HashInv, WalkInv, HashCoversTheBuild

LEMMA PrunedKeepsInv ==
    ASSUME HashInv, Pruned
    PROVE  HashInv'
<1>1. /\ pc = "prune" /\ pc' = "hash"
      /\ \A p \in Paths : ~Prunable(p)
      /\ tree' = tree /\ todo' = todo /\ files' = files /\ keep' = keep /\ result' = result
      /\ checkout' = checkout
  BY DEF Pruned
<1>2. \A p \in Paths : tree[p] \in {"dir", Absent} \/ (tree[p] = "file" /\ p \in keep)
  BY <1>1 DEF Prunable, HashInv, HashTypeOK, Trees, Kinds
<1>3. HashTypeOK'
  BY <1>1 DEF HashInv, HashTypeOK, Steps
<1>4. ~(Walking')
  BY <1>1, WalkPhases
<1>5. AnswerInv'
  BY <1>1 DEF HashInv, AnswerInv, Local, RefusedTree, Linked
<1>6. TreeInv'
  BY <1>1, <1>2 DEF HashInv, TreeInv, Kept, Local, RefusedTree, Linked, Listed
<1> QED BY <1>1, <1>3, <1>4, <1>5, <1>6 DEF HashInv, WalkInv, HashCoversTheBuild

LEMMA StepKeepsInv ==
    ASSUME HashInv, [HashNext]_hashVars
    PROVE  HashInv'
<1>1. CASE BuildInputFiles
  BY <1>1, StartKeepsInv
<1>2. ASSUME NEW p \in Paths, CollectMoveFile(p) PROVE HashInv'
  BY <1>2, CollectKeepsInv
<1>3. ASSUME NEW p \in Paths, PruneEntry(p) PROVE HashInv'
  BY <1>3, PruneKeepsInv
<1>4. CASE SourceHash
  BY <1>4, HashKeepsInv
<1>5. CASE ListedKeep
  BY <1>5, KeepKeepsInv
<1>6. CASE Pruned
  BY <1>6, PrunedKeepsInv
<1>7. CASE UNCHANGED hashVars
  <2>1. HashTypeOK'
    BY <1>7 DEF hashVars, HashInv, HashTypeOK
  <2>2. WalkInv'
    <3>1. Walking' => Walking
      BY <1>7, WalkPhases DEF hashVars
    <3>2. ASSUME NEW V \in SUBSET Paths, Explored(V) PROVE Explored(V)'
      BY <1>7, <3>2 DEF hashVars, Explored, Found, Present
    <3>3. IsPackage => IsPackage'
      BY <1>7 DEF hashVars, IsPackage
    <3> QED BY <3>1, <3>2, <3>3 DEF HashInv, WalkInv
  <2>3. AnswerInv'
    BY <1>7 DEF hashVars, HashInv, AnswerInv, RefusedTree, Linked
  <2>4. TreeInv'
    BY <1>7 DEF hashVars, HashInv, TreeInv, RefusedTree, Linked, Listed
  <2>5. HashCoversTheBuild'
    BY <1>7 DEF hashVars, HashInv, HashCoversTheBuild, Present
  <2> QED BY <2>1, <2>2, <2>3, <2>4, <2>5 DEF HashInv
<1> QED BY <1>1, <1>2, <1>3, <1>4, <1>5, <1>6, <1>7 DEF HashNext

LEMMA InitHasInv ==
    ASSUME HashInit
    PROVE  HashInv
<1>1. HashTypeOK
  <2>1. <<>> \in Seq(Texts)
    BY EmptySeq
  <2> QED BY <2>1 DEF HashInit, HashTypeOK, Steps
<1>2. WalkInv
  BY WalkPhases DEF HashInit, WalkInv
<1>3. AnswerInv
  BY DEF HashInit, AnswerInv, Local
<1>4. TreeInv
  BY DEF HashInit, TreeInv, Kept, Ending
<1> QED BY <1>1, <1>2, <1>3, <1>4 DEF HashInit, HashInv, HashCoversTheBuild

(* In every state the walks, the answers and the tree are as above.        *)
THEOREM HashInvariant == HashSpec => []HashInv
BY InitHasInv, StepKeepsInv, PTL DEF HashSpec

(* Type correctness: the walk collects texts of paths of the tree, and     *)
(* every tree of the run is one a file system can hold.                    *)
THEOREM HashTypeCorrect == HashSpec => []HashTypeOK
<1>1. HashInv => HashTypeOK
  BY DEF HashInv
<1> QED BY <1>1, HashInvariant, PTL

(* The hash the enclave signs covers every file that is left for the build *)
(* to read, each once, and nothing but files and their directories is      *)
(* left: `prune_to_build_inputs` before `source_hash`, for names of any    *)
(* bytes.                                                                  *)
THEOREM HashCoversEveryBuild == HashSpec => []HashCoversTheBuild
<1>1. HashInv => HashCoversTheBuild
  BY DEF HashInv
<1> QED BY <1>1, HashInvariant, PTL

(* A symlink in the place of a build input, or anywhere below `sources`,   *)
(* is an error for both users: `is_regular_file`, `collect_move_files`.    *)
THEOREM SymlinksAlwaysRefused == HashSpec => []SymlinksAreRefused
<1>1. HashInv => SymlinksAreRefused
  BY DEF HashInv, AnswerInv, SymlinksAreRefused, RefusedTree, Linked, Local
<1> QED BY <1>1, HashInvariant, PTL

-----------------------------------------------------------------------------
(* One answer for both users.  A source whose name is not UTF-8 is listed  *)
(* by a text that is not its name: the run lossy_names shows that the two  *)
(* users may then disagree, so that what follows is about other names.     *)
NamesAreUtf8 == \A p \in MoveNames : InSources[p] => Text[p] = p

TheRank   == [p \in Paths |-> Rank[Text[p]]]
TheAnswer == IF RefusedTree(checkout) THEN Error ELSE Promise!Listing(Listed(checkout))

LEMMA PromiseMeans ==
    /\ Promise!Refused(checkout) <=> RefusedTree(checkout)
    /\ Promise!BuildInputsOf(checkout) = Listed(checkout)
<1>1. Promise!Refused(checkout) <=> RefusedTree(checkout)
  BY DEF Promise!Refused, RefusedTree, Linked
<1>2. Promise!BuildInputsOf(checkout) = Listed(checkout)
  BY DEF Promise!BuildInputsOf, Listed
<1> QED BY <1>1, <1>2

LEMMA TextsAreNames ==
    ASSUME NamesAreUtf8, NEW S, S \subseteq Manifests \cup {q \in MoveNames : InSources[q]}
    PROVE  /\ S \subseteq Paths /\ S \subseteq Texts /\ IsFiniteSet(S)
           /\ \A p \in S : Text[p] = p
           /\ {Text[p] : p \in S} = S
<1>1. S \subseteq Paths /\ \A p \in S : Text[p] = p
  BY PathFacts DEF NamesAreUtf8
<1>2. S \subseteq Texts
  BY <1>1, PathFacts
<1>3. IsFiniteSet(S)
  BY <1>1, SourceHashAssumption, FS_Subset
<1> QED BY <1>1, <1>2, <1>3

(* Sorting what a walk has collected gives the one list that is in order.  *)
LEMMA SortedIsTheListing ==
    ASSUME NamesAreUtf8, NEW fs \in Seq(Texts),
           NEW S, S \subseteq Manifests \cup {q \in MoveNames : InSources[q]},
           ToSet(fs) = S, Len(fs) = Cardinality(S)
    PROVE  Sorted(fs) = Promise!Listing(S)
<1> DEFINE n == Cardinality(S)
           IsOrdered(s) == \A i, j \in DOMAIN s : i < j => TheRank[s[i]] < TheRank[s[j]]
           IsOne(s) == s \in [1 .. n -> S] /\ IsInjective(s) /\ IsOrdered(s)
<1>1. S \subseteq Paths /\ S \subseteq Texts /\ IsFiniteSet(S) /\ \A p \in S : Text[p] = p
  BY TextsAreNames
<1>2. n \in Nat
  BY <1>1, FS_CardinalityType
<1>3. \A x \in S : TheRank[x] \in Nat /\ TheRank[x] = Rank[x]
  BY <1>1, RanksAreOrdered DEF TheRank
<1>4. IsInjective(fs)
  BY <1>1, NoneTwice
<1>5. IsOne(Sorted(fs))
  <2>1. /\ Sorted(fs) \in Seq(Texts) /\ Len(Sorted(fs)) = n /\ ToSet(Sorted(fs)) = S
        /\ IsInjective(Sorted(fs))
        /\ \A k, l \in 1 .. n : k < l => Rank[Sorted(fs)[k]] < Rank[Sorted(fs)[l]]
    BY <1>4, SortedLists
  <2>2. DOMAIN Sorted(fs) = 1 .. n /\ Sorted(fs) \in [1 .. n -> Texts]
    BY <2>1, LenProperties
  <2>3. \A i \in 1 .. n : Sorted(fs)[i] \in S
    BY <2>1, <2>2 DEF ToSet
  <2>4. Sorted(fs) \in [1 .. n -> S]
    BY <2>2, <2>3
  <2>5. IsOrdered(Sorted(fs))
    BY <1>3, <2>1, <2>2, <2>3
  <2> QED BY <2>1, <2>4, <2>5
<1>6. \A s : IsOne(s) => IsListing(s, n, S, TheRank)
  <2> SUFFICES ASSUME NEW s, IsOne(s) PROVE IsListing(s, n, S, TheRank)
    OBVIOUS
  <2>1. s \in [1 .. n -> S] /\ DOMAIN s = 1 .. n /\ IsInjective(s) /\ IsOrdered(s)
    OBVIOUS
  <2>2. s \in Injection(1 .. n, S)
    BY <2>1 DEF Injection
  <2>3. IsFiniteSet(1 .. n) /\ Cardinality(1 .. n) = n
    BY <1>2, CountingUp
  <2>4. s \in Surjection(1 .. n, S)
    <3>1. Cardinality(S) = n
      OBVIOUS
    <3> HIDE DEF n
    <3> QED BY <1>1, <2>2, <2>3, <3>1, FS_Injection
  <2> HIDE DEF n
  <2>5. s \in Bijection(1 .. n, S)
    BY <2>2, <2>4 DEF Bijection
  <2> QED BY <2>1, <2>5 DEF IsListing
<1>7. Promise!Listing(S) = CHOOSE s \in [1 .. n -> S] : IsInjective(s) /\ IsOrdered(s)
  <2>1. Promise!Cardinality(S) = Cardinality(S)
    BY DEF Promise!Cardinality, Cardinality
  <2>2. \A s : Promise!IsInjective(s) <=> IsInjective(s)
    BY DEF Promise!IsInjective, IsInjective
  <2> HIDE DEF TheRank
  <2> QED BY <2>1, <2>2 DEF Promise!Listing, TheRank
<1>8. IsOne(Promise!Listing(S))
  <2> HIDE DEF n, IsOrdered
  <2> QED BY <1>5, <1>7
<1> HIDE DEF n, IsOne
<1> QED BY <1>2, <1>3, <1>5, <1>6, <1>8, OneListing

(* The build of the refinement: the files it may read, once it may.        *)
Build == IF pc = "done" /\ result[Enclave] # Error
         THEN {p \in Paths : Present(p) /\ tree[p] # "dir"} ELSE Absent

LEMMA AnswersMeans ==
    ASSUME NEW u \in {Consumer, Enclave}
    PROVE  Promise!Answer(u) <=>
              /\ result[u] = Absent
              /\ result' = [result EXCEPT ![u] = TheAnswer]
              /\ Build' = IF u = Enclave /\ ~RefusedTree(checkout)
                          THEN Listed(checkout) ELSE Build
              /\ checkout' = checkout
BY PromiseMeans DEF Promise!Answer, TheAnswer, Build

(* Giving up is the answer about a tree that is to be refused.             *)
LEMMA FailsIsAnswer ==
    ASSUME HashInv, pc \in {"local", "keep", "hash", "local walk", "keep walk", "hash walk"},
           Fails(User(pc)), RefusedTree(checkout)
    PROVE  Promise!InputsNext
<1>1. TheAnswer = Error /\ pc # "done" /\ Build = Absent
  BY DEF TheAnswer, Build
<1>2. CASE pc \in Local
  <2>1. User(pc) = Consumer
    BY <1>2 DEF User, Local
  <2>2. result' = [result EXCEPT ![Consumer] = Error] /\ pc' = "keep" /\ checkout' = checkout
    BY <2>1 DEF Fails
  <2>3. result[Consumer] = Absent
    BY <1>2 DEF HashInv, AnswerInv
  <2>4. Build' = Absent
    BY <2>2 DEF Build
  <2>5. Promise!Answer(Consumer)
    BY <1>1, <2>2, <2>3, <2>4, AnswersMeans, UsersAndMarks
  <2> QED BY <2>5 DEF Promise!InputsNext
<1>3. CASE pc \notin Local
  <2>1. User(pc) = Enclave
    BY <1>3 DEF User, Local
  <2>2. result' = [result EXCEPT ![Enclave] = Error] /\ pc' = "done" /\ checkout' = checkout
    BY <2>1, UsersAndMarks DEF Fails
  <2>3. result[Enclave] = Absent
    BY <1>1 DEF HashInv, AnswerInv
  <2>4. Build' = Absent
    <3>1. result'[Enclave] = Error
      BY <2>2 DEF HashInv, HashTypeOK
    <3> QED BY <3>1 DEF Build
  <2>5. Promise!Answer(Enclave)
    BY <1>1, <2>2, <2>3, <2>4, AnswersMeans
  <2> QED BY <2>5 DEF Promise!InputsNext
<1> QED BY <1>2, <1>3

(* The pruned tree is a package without symlinks, whose build inputs are   *)
(* those of the checkout.                                                  *)
LEMMA PrunedIsThePackage ==
    ASSUME HashInv, pc \in Ending
    PROVE  /\ IsPackage /\ \A p \in Paths : tree[p] # "link"
           /\ NamesAreUtf8 => Listed(tree) = Listed(checkout)
<1>1. /\ ~RefusedTree(checkout)
      /\ keep = {Text[p] : p \in Listed(checkout)}
      /\ \A p \in Paths : /\ tree[p] \in {checkout[p], Absent}
                          /\ checkout[p] = "file" /\ p \in keep => tree[p] = "file"
  BY DEF HashInv, TreeInv, Ending, Kept
<1>2. \A p \in Paths : tree[p] # "link"
  BY LeftIsListed DEF HashInv
<1>3. IsPackage
  <2>1. checkout[MoveToml] = "file" /\ MoveToml \in Listed(checkout)
    BY <1>1, PathFacts DEF RefusedTree, Listed
  <2>2. MoveToml \in keep
    BY <1>1, <2>1, PathFacts
  <2>3. tree[MoveToml] = "file"
    BY <1>1, <2>1, <2>2, PathFacts
  <2> QED BY <1>2, <2>3, PathFacts DEF IsPackage
<1>4. ASSUME NamesAreUtf8 PROVE Listed(tree) = Listed(checkout)
  <2>1. \A p \in Listed(checkout) : p \in Paths /\ Text[p] = p
    BY <1>4, PathFacts DEF Listed, NamesAreUtf8
  <2>2. Listed(checkout) \subseteq Listed(tree)
    BY <1>1, <2>1 DEF Listed
  <2>3. Listed(tree) \subseteq Listed(checkout)
    BY <1>1, PathFacts, UsersAndMarks DEF Listed
  <2> QED BY <2>2, <2>3
<1> QED BY <1>2, <1>3, <1>4

LEMMA StartImplements ==
    ASSUME HashInv, BuildInputFiles
    PROVE  Promise!InputsNext \/ UNCHANGED Promise!inputsVars
<1>1. pc \in {"local", "keep", "hash"}
  BY WalkPhases DEF BuildInputFiles
<1>2. CASE ~IsPackage
  <2>1. RefusedTree(tree)
    BY <1>2 DEF IsPackage, RefusedTree, Linked
  <2>2. pc # "hash"
    BY <1>2, PrunedIsThePackage DEF Ending
  <2>3. RefusedTree(checkout)
    BY <1>1, <2>1, <2>2 DEF HashInv, TreeInv, Local
  <2> QED BY <1>1, <1>2, <2>3, FailsIsAnswer DEF BuildInputFiles
<1>3. CASE IsPackage
  <2>1. pc' = WalkPhase[pc] /\ result' = result /\ checkout' = checkout
    BY <1>3 DEF BuildInputFiles
  <2>2. pc # "done" /\ pc' # "done"
    BY <1>1, <2>1, WalkPhases
  <2>3. Build' = Build
    BY <2>2 DEF Build
  <2> QED BY <2>1, <2>3 DEF Promise!inputsVars, Build
<1> QED BY <1>2, <1>3

LEMMA CollectImplements ==
    ASSUME HashInv, NEW p \in Paths, CollectMoveFile(p)
    PROVE  Promise!InputsNext \/ UNCHANGED Promise!inputsVars
<1>1. pc \in {"local walk", "keep walk", "hash walk"} /\ Walking
  BY WalkPhases DEF CollectMoveFile
<1>2. CASE IsLink(p)
  <2>1. InSources[p] /\ tree[p] = "link"
    BY <1>1, <1>2 DEF HashInv, WalkInv, Explored, CollectMoveFile, IsLink
  <2>2. RefusedTree(tree)
    BY <2>1 DEF RefusedTree, Linked
  <2>3. pc # "hash walk"
    BY <2>1, PrunedIsThePackage DEF Ending
  <2>4. RefusedTree(checkout)
    BY <1>1, <2>2, <2>3 DEF HashInv, TreeInv, Local
  <2> QED BY <1>1, <1>2, <2>4, FailsIsAnswer DEF CollectMoveFile
<1>3. CASE ~IsLink(p)
  <2>1. pc' = pc /\ result' = result /\ checkout' = checkout
    BY <1>3 DEF CollectMoveFile
  <2>2. Build' = Build
    BY <1>1, <2>1 DEF Build
  <2> QED BY <2>1, <2>2 DEF Promise!inputsVars, Build
<1> QED BY <1>2, <1>3

LEMMA HashImplements ==
    ASSUME NamesAreUtf8, HashInv, SourceHash
    PROVE  Promise!InputsNext
<1>1. pc \in {"local walk", "hash walk"} /\ Walking /\ todo = {}
  BY WalkPhases DEF SourceHash
<1>2. /\ ~RefusedTree(tree)
      /\ ToSet(files) = {Text[p] : p \in Listed(tree)}
      /\ Len(files) = Cardinality(Listed(tree))
  BY <1>1, WalkIsComplete DEF HashInv
<1>3. Listed(tree) \subseteq Manifests \cup {q \in MoveNames : InSources[q]}
  BY DEF Listed
<1>4. ToSet(files) = Listed(tree) /\ Listed(tree) \subseteq Paths
  BY <1>2, <1>3, TextsAreNames
<1>5. Readable(files)
  BY <1>4 DEF Readable, Listed
<1>6. Sorted(files) = Promise!Listing(Listed(tree)) /\ Sorted(files) \in Seq(Texts)
  BY <1>2, <1>3, <1>4, SortedIsTheListing, SortedLists DEF HashInv, HashTypeOK
<1>7. ~RefusedTree(checkout) /\ Listed(tree) = Listed(checkout)
  <2>1. CASE pc = "local walk"
    BY <1>2, <2>1 DEF HashInv, TreeInv, Local
  <2>2. CASE pc = "hash walk"
    BY <2>2, PrunedIsThePackage DEF HashInv, TreeInv, Ending, Kept
  <2> QED BY <1>1, <2>1, <2>2
<1>8. TheAnswer = Sorted(files)
  BY <1>6, <1>7 DEF TheAnswer
<1>9. /\ result' = [result EXCEPT ![User(pc)] = Sorted(files)]
      /\ pc' = IF pc = "local walk" THEN "keep" ELSE "done"
      /\ tree' = tree /\ checkout' = checkout
  BY <1>5 DEF SourceHash
<1>10. Build = Absent
  BY <1>1 DEF Build
<1>11. CASE pc = "local walk"
  <2>1. User(pc) = Consumer /\ pc' = "keep"
    BY <1>9, <1>11 DEF User
  <2>2. result[Consumer] = Absent
    BY <1>11 DEF HashInv, AnswerInv, Local
  <2>3. Build' = Absent
    BY <2>1 DEF Build
  <2>4. Promise!Answer(Consumer)
    BY <1>8, <1>9, <1>10, <2>1, <2>2, <2>3, AnswersMeans, UsersAndMarks
  <2> QED BY <2>4 DEF Promise!InputsNext
<1>12. CASE pc = "hash walk"
  <2>1. User(pc) = Enclave /\ pc' = "done"
    BY <1>9, <1>12 DEF User
  <2>2. result[Enclave] = Absent
    BY <1>12 DEF HashInv, AnswerInv
  <2>3. result'[Enclave] = Sorted(files) /\ Sorted(files) # Error
    BY <1>6, <1>9, <2>1, UsersAndMarks DEF HashInv, HashTypeOK
  <2>4. {p \in Paths : Present(p)' /\ tree'[p] # "dir"} = Listed(checkout)
    <3>1. Listed(tree) = {p \in Paths : tree[p] = "file"} /\ \A p \in Paths : tree[p] # "link"
      BY <1>12, LeftIsListed DEF HashInv, Ending
    <3>2. \A p \in Paths : Present(p)' /\ tree'[p] # "dir" <=> tree[p] = "file"
      BY <1>9, <3>1, UsersAndMarks DEF Present, HashInv, HashTypeOK, Trees, Kinds
    <3> QED BY <1>7, <3>1, <3>2
  <2>5. Build' = Listed(checkout)
    BY <2>1, <2>3, <2>4 DEF Build
  <2>6. Promise!Answer(Enclave)
    BY <1>7, <1>8, <1>9, <2>1, <2>2, <2>5, AnswersMeans
  <2> QED BY <2>6 DEF Promise!InputsNext
<1> QED BY <1>1, <1>11, <1>12

LEMMA StepImplements ==
    ASSUME NamesAreUtf8, HashInv, [HashNext]_hashVars
    PROVE  [Promise!InputsNext]_(Promise!inputsVars)
<1>1. CASE BuildInputFiles
  BY <1>1, StartImplements
<1>2. ASSUME NEW p \in Paths, CollectMoveFile(p) PROVE [Promise!InputsNext]_(Promise!inputsVars)
  BY <1>2, CollectImplements
<1>3. CASE SourceHash
  BY <1>3, HashImplements
<1>4. ASSUME (\E p \in Paths : PruneEntry(p)) \/ ListedKeep \/ Pruned
      PROVE  UNCHANGED Promise!inputsVars
  <2>1. pc # "done" /\ pc' # "done" /\ result' = result /\ checkout' = checkout
    BY <1>4 DEF PruneEntry, ListedKeep, Pruned
  <2> QED BY <2>1 DEF Promise!inputsVars
<1>5. CASE UNCHANGED hashVars
  BY <1>5 DEF hashVars, Promise!inputsVars, Present
<1> QED BY <1>1, <1>2, <1>3, <1>4, <1>5 DEF HashNext

(* Walks, pruning and listings are one step that gives the answer: the     *)
(* listing of both users implements what the head of source_hash.rs        *)
(* promises.                                                               *)
THEOREM SourceHashImplementsBuildInputs ==
    ASSUME NamesAreUtf8
    PROVE  HashSpec => ImplementsBuildInputs
<1>1. HashInit => Promise!InputsInit
  BY DEF HashInit, Promise!InputsInit
<1>2. HashInv /\ [HashNext]_hashVars => [Promise!InputsNext]_(Promise!inputsVars)
  BY StepImplements
<1> QED BY <1>1, <1>2, HashInvariant, PTL
        DEF HashSpec, ImplementsBuildInputs, Promise!InputsSpec

(* There is one answer that either user can come to.                       *)
Agreed == \A u \in {Consumer, Enclave} : result[u] \in {Absent, TheAnswer}

LEMMA OneAnswer ==
    ASSUME Promise!Answer(Consumer) \/ Promise!Answer(Enclave), HashTypeOK, Agreed
    PROVE  Agreed'
<1>1. checkout' = checkout
  BY AnswersMeans
<1>2. TheAnswer' = TheAnswer
  BY <1>1 DEF TheAnswer, RefusedTree, Linked, Listed, Promise!Listing
<1>3. PICK v \in {Consumer, Enclave} : result' = [result EXCEPT ![v] = TheAnswer]
  BY AnswersMeans
<1> QED BY <1>2, <1>3 DEF HashTypeOK, Agreed

(* Whoever has the tree can reproduce the hash of an attestation: over the *)
(* same checkout the `source-hash` binary and the enclave compute the same *)
(* hash or both refuse, in whatever order directories are read and though  *)
(* the enclave prunes its clone first.                                     *)
THEOREM HashIsReproducible ==
    ASSUME NamesAreUtf8
    PROVE  HashSpec => []Reproducible
<1>1. HashInit => Agreed
  BY DEF HashInit, Agreed
<1>2. ASSUME HashInv, Agreed, [HashNext]_hashVars PROVE Agreed'
  <2>1. CASE Promise!InputsNext
    BY <1>2, <2>1, OneAnswer DEF Promise!InputsNext, HashInv
  <2>2. CASE UNCHANGED Promise!inputsVars
    BY <1>2, <2>2 DEF Promise!inputsVars, Agreed, TheAnswer, RefusedTree, Linked, Listed,
                      Promise!Listing
  <2> QED BY <1>2, <2>1, <2>2, StepImplements
<1>3. HashInv /\ Agreed => Reproducible
  BY DEF HashInv, AnswerInv, Agreed, Reproducible, Local
<1> QED BY <1>1, <1>2, <1>3, HashInvariant, PTL DEF HashSpec

=============================================================================
