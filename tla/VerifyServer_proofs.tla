-------------------------- MODULE VerifyServer_proofs --------------------------
(***************************************************************************)
(* Proofs about the verification server, for any number of requests,       *)
(* probes, worker threads and any amount of scratch space.                 *)
(***************************************************************************)
EXTENDS VerifyServer, SequenceTheorems, TLAPS

-----------------------------------------------------------------------------
(* The lock                                                                *)
(*                                                                         *)
(* That the holder is the only one running is not inductive: the lock may  *)
(* be handed to the head of the queue, and that must be a waiting request  *)
(* that appears once.  So the invariant is about the queue as well.        *)

InQueue(r) == \E k \in DOMAIN queue : queue[k] = r

QueueOK ==
    /\ phase \in [Requests -> Phases]
    /\ holder \in Requests \cup {None}
    /\ queue \in Seq(Requests)
    /\ \A j, k \in DOMAIN queue : queue[j] = queue[k] => j = k
    /\ \A k \in DOMAIN queue : phase[queue[k]] = "waiting" /\ queue[k] # holder

LockInv == QueueOK /\ OneAtATime /\ LockIsNeverOrphaned

(* Unlocking hands the lock to the first waiter and takes it off the       *)
(* queue, everyone else keeping their place.                               *)
LEMMA PassOnEffect ==
    ASSUME QueueOK, PassOn
    PROVE  /\ queue' \in Seq(Requests)
           /\ holder' \in Requests \cup {None}
           /\ \A j, k \in DOMAIN queue' : queue'[j] = queue'[k] => j = k
           /\ \A k \in DOMAIN queue' : queue'[k] # holder' /\ InQueue(queue'[k])
           /\ \A r \in Requests : InQueue(r) => r = holder' \/ InQueue(r)'
           /\ holder' # None => InQueue(holder')
           /\ holder' = None => queue' = <<>>
<1>1. CASE queue = <<>>
  BY <1>1 DEF PassOn, QueueOK, InQueue
<1>2. CASE queue # <<>>
  <2>1. holder' = Head(queue) /\ queue' = Tail(queue)
    BY <1>2 DEF PassOn
  <2>2. /\ queue \in Seq(Requests) /\ DOMAIN queue = 1 .. Len(queue)
        /\ Len(queue) \in Nat \ {0}
    BY <1>2, LenProperties, EmptySeq DEF QueueOK
  <2>3. /\ Head(queue) \in Requests
        /\ Tail(queue) \in Seq(Requests)
        /\ Len(Tail(queue)) = Len(queue) - 1
        /\ \A k \in 1 .. Len(Tail(queue)) : Tail(queue)[k] = queue[k + 1]
    BY <1>2, HeadTailProperties DEF QueueOK
  <2>4. Head(queue) = queue[1] /\ 1 \in DOMAIN queue
    BY <2>2
  <2>5. DOMAIN Tail(queue) = 1 .. Len(queue) - 1
    BY <2>3, LenProperties
  <2>6. \A k \in DOMAIN Tail(queue) : k + 1 \in DOMAIN queue /\ k + 1 # 1
    BY <2>2, <2>5
  <2>7. \A j, k \in DOMAIN queue' : queue'[j] = queue'[k] => j = k
    BY <2>1, <2>2, <2>3, <2>5, <2>6 DEF QueueOK
  <2>8. \A k \in DOMAIN queue' : queue'[k] # holder' /\ InQueue(queue'[k])
    BY <2>1, <2>2, <2>3, <2>4, <2>5, <2>6 DEF QueueOK, InQueue
  <2>9. ASSUME NEW r \in Requests, InQueue(r) PROVE r = holder' \/ InQueue(r)'
    <3>1. PICK k \in DOMAIN queue : queue[k] = r
      BY <2>9 DEF InQueue
    <3>2. CASE k = 1
      BY <2>1, <2>4, <3>1, <3>2
    <3>3. CASE k # 1
      <4>1. k - 1 \in DOMAIN Tail(queue) /\ Tail(queue)[k - 1] = r
        BY <2>2, <2>3, <2>5, <3>1, <3>3
      <4> QED BY <2>1, <4>1 DEF InQueue
    <3> QED BY <3>2, <3>3
  <2>10. InQueue(holder') /\ holder' # None
    BY <2>1, <2>3, <2>4, ServerAssumption DEF InQueue
  <2> QED BY <2>1, <2>3, <2>7, <2>8, <2>9, <2>10
<1> QED BY <1>1, <1>2

(* A step of a request that keeps running. *)
Internal(r) ==
    /\ phase[r] \in Running
    /\ \E p \in Running : Goto(r, p)
    /\ UNCHANGED <<holder, queue>>

LEMMA InternalSteps ==
    ASSUME NEW r \in Requests,
           \/ CheckRequest(r) \/ GitClone(r) \/ GitCheckout(r) \/ GitRevParse(r)
           \/ PruneToBuildInputs(r) \/ SourceHash(r) \/ VerifySource(r)
           \/ ReadToolchain(r) \/ Sign(r) \/ StepFails(r) \/ DropWorkdir(r)
    PROVE  Internal(r)
<1> USE DEF Internal, Running, Fail, Goto
<1>1. CASE CheckRequest(r) BY <1>1 DEF CheckRequest
<1>2. CASE GitClone(r) BY <1>2 DEF GitClone, NoSpaceLeft
<1>3. CASE GitCheckout(r) BY <1>3 DEF GitCheckout
<1>4. CASE GitRevParse(r) BY <1>4 DEF GitRevParse
<1>5. CASE PruneToBuildInputs(r) BY <1>5 DEF PruneToBuildInputs
<1>6. CASE SourceHash(r) BY <1>6 DEF SourceHash
<1>7. CASE VerifySource(r) BY <1>7 DEF VerifySource, NoSpaceLeft
<1>8. CASE ReadToolchain(r) BY <1>8 DEF ReadToolchain
<1>9. CASE Sign(r) BY <1>9 DEF Sign
<1>10. CASE StepFails(r) BY <1>10 DEF StepFails, FalliblePhases
<1>11. CASE DropWorkdir(r) BY <1>11 DEF DropWorkdir
<1> QED BY <1>1, <1>2, <1>3, <1>4, <1>5, <1>6, <1>7, <1>8, <1>9, <1>10, <1>11

(* Every step is one of the few kinds that lock and phases can tell apart. *)
LEMMA StepKinds ==
    ASSUME [ServerNext]_serverVars
    PROVE  \/ UNCHANGED <<phase, holder, queue>>
           \/ \E r \in Requests : Internal(r)
           \/ \E r \in Requests : \E q \in VerifyRequest : Arrive(r, q)
           \/ \E r \in Requests : Admit(r) \/ Cancel(r) \/ DropGuard(r)
           \/ Crash
BY InternalSteps
   DEF ServerNext, serverVars, Command, Handler, ProbeStart, ProbePoll, Push

LEMMA InternalKeepsLockInv ==
    ASSUME LockInv, NEW r \in Requests, Internal(r)
    PROVE  LockInv'
<1>1. PICK p \in Running : phase' = [phase EXCEPT ![r] = p]
  BY DEF Internal, Goto
<1>2. phase[r] \in Running /\ holder = r /\ UNCHANGED <<holder, queue>>
  BY DEF Internal, LockInv, OneAtATime
<1>3. p \in Phases /\ p # "waiting" /\ phase[r] # "waiting"
  BY <1>2 DEF Running, Phases
<1>4. QueueOK'
  BY <1>1, <1>2, <1>3 DEF LockInv, QueueOK
<1>5. OneAtATime' /\ LockIsNeverOrphaned'
  BY <1>1, <1>2, <1>3 DEF LockInv, QueueOK, OneAtATime, LockIsNeverOrphaned
<1> QED BY <1>4, <1>5 DEF LockInv

LEMMA ArriveKeepsLockInv ==
    ASSUME LockInv, NEW r \in Requests, NEW q \in VerifyRequest, Arrive(r, q)
    PROVE  LockInv'
<1>1. phase[r] = "idle" /\ r # holder /\ ~InQueue(r) /\ r # None
  BY ServerAssumption
     DEF Arrive, LockInv, QueueOK, LockIsNeverOrphaned, Running, InQueue
<1>2. CASE holder = None /\ holder' = r /\ queue' = queue /\ Goto(r, "check")
  <2>1. queue = <<>> /\ DOMAIN queue = {}
    BY <1>2 DEF LockInv, LockIsNeverOrphaned
  <2>2. QueueOK'
    BY <1>1, <1>2, <2>1 DEF LockInv, QueueOK, Goto, Running, Phases
  <2>3. \A x \in Requests : phase'[x] = IF x = r THEN "check" ELSE phase[x]
    BY <1>2 DEF Goto, LockInv, QueueOK
  <2>4. \A x \in Requests : phase[x] \notin Running \cup {"waiting"}
    BY <1>2, <2>1, ServerAssumption DEF LockInv, OneAtATime, LockIsNeverOrphaned
  <2>5. OneAtATime'
    BY <1>2, <2>3, <2>4 DEF OneAtATime
  <2>6. LockIsNeverOrphaned'
    BY <1>1, <1>2, <2>1, <2>3, <2>4 DEF LockIsNeverOrphaned, Running
  <2> QED BY <2>2, <2>5, <2>6 DEF LockInv
<1>3. CASE holder # None /\ queue' = Append(queue, r) /\ holder' = holder
           /\ Goto(r, "waiting")
  <2>1. /\ queue \in Seq(Requests) /\ DOMAIN queue = 1 .. Len(queue) /\ Len(queue) \in Nat
    BY LenProperties DEF LockInv, QueueOK
  <2>2. /\ queue' \in Seq(Requests)
        /\ DOMAIN queue' = 1 .. Len(queue) + 1
        /\ queue'[Len(queue) + 1] = r
        /\ \A k \in DOMAIN queue : queue'[k] = queue[k]
    BY <1>3, <2>1, AppendProperties, LenProperties
  <2>3. \A k \in DOMAIN queue' : k \in DOMAIN queue \/ k = Len(queue) + 1
    BY <2>1, <2>2
  <2>4. \A k \in DOMAIN queue : queue[k] # r /\ k # Len(queue) + 1 /\ k \in DOMAIN queue'
    BY <1>1, <2>1, <2>2 DEF InQueue
  <2>5. Len(queue) + 1 \in DOMAIN queue'
    BY <2>1, <2>2
  <2>6. phase' = [phase EXCEPT ![r] = "waiting"] /\ "waiting" \in Phases
        /\ "waiting" \notin Running
    BY <1>3 DEF Goto, Phases, Running
  <2>7. QueueOK'
    BY <1>1, <1>3, <2>2, <2>3, <2>4, <2>6 DEF LockInv, QueueOK
  <2>8. OneAtATime'
    BY <1>3, <2>6 DEF LockInv, QueueOK, OneAtATime
  <2>9. ASSUME NEW x \in Requests, phase'[x] = "waiting"
        PROVE  holder' = x \/ InQueue(x)'
    <3>1. CASE x = r
      BY <2>2, <2>5, <3>1 DEF InQueue
    <3>2. CASE x # r
      <4>1. holder = x \/ InQueue(x)
        BY <2>6, <2>9, <3>2 DEF LockInv, QueueOK, LockIsNeverOrphaned, InQueue
      <4> QED BY <1>3, <2>2, <2>4, <4>1 DEF InQueue
    <3> QED BY <3>1, <3>2
  <2>10. phase'[holder] \in Running \cup {"waiting"} /\ holder \in Requests
    BY <1>1, <1>3, <2>6 DEF LockInv, QueueOK, LockIsNeverOrphaned
  <2> QED BY <1>3, <2>7, <2>8, <2>9, <2>10 DEF LockInv, LockIsNeverOrphaned, InQueue
<1> QED BY <1>2, <1>3 DEF Arrive

LEMMA AdmitKeepsLockInv ==
    ASSUME LockInv, NEW r \in Requests, Admit(r)
    PROVE  LockInv'
<1>1. /\ phase[r] = "waiting" /\ holder = r /\ r # None
      /\ phase' = [phase EXCEPT ![r] = "check"] /\ UNCHANGED <<holder, queue>>
  BY ServerAssumption DEF Admit, HasLock, Goto
<1>2. QueueOK'
  BY <1>1 DEF LockInv, QueueOK, Running, Phases
<1>3. OneAtATime' /\ LockIsNeverOrphaned'
  BY <1>1 DEF LockInv, QueueOK, OneAtATime, LockIsNeverOrphaned, Running
<1> QED BY <1>2, <1>3 DEF LockInv

(* The holder leaves and passes the lock on, when its work is done or when *)
(* it is cancelled between being handed the lock and being polled.         *)
LEMMA HolderLeavesKeepsLockInv ==
    ASSUME LockInv, NEW r \in Requests, holder = r, PassOn,
           NEW p \in {"done", "lost"}, Goto(r, p)
    PROVE  LockInv'
<1>1. /\ queue' \in Seq(Requests)
      /\ holder' \in Requests \cup {None}
      /\ \A j, k \in DOMAIN queue' : queue'[j] = queue'[k] => j = k
      /\ \A k \in DOMAIN queue' : queue'[k] # holder' /\ InQueue(queue'[k])
      /\ \A x \in Requests : InQueue(x) => x = holder' \/ InQueue(x)'
      /\ holder' # None => InQueue(holder')
      /\ holder' = None => queue' = <<>>
  BY PassOnEffect DEF LockInv
<1>2. p \in Phases /\ p # "waiting" /\ p \notin Running
  BY DEF Phases, Running
<1>3. \A x \in Requests : phase'[x] = IF x = r THEN p ELSE phase[x]
  BY DEF Goto, LockInv, QueueOK
<1>4. \A x \in Requests : InQueue(x) => x # r /\ phase[x] = "waiting"
  BY DEF LockInv, QueueOK, InQueue
<1>5. QueueOK'
  <2>1. \A k \in DOMAIN queue' : queue'[k] \in Requests
    BY <1>1, LenProperties, ElementOfSeq
  <2>2. phase' \in [Requests -> Phases]
    BY <1>2 DEF Goto, LockInv, QueueOK
  <2> QED BY <1>1, <1>3, <1>4, <2>1, <2>2 DEF QueueOK
<1>6. OneAtATime'
  BY <1>2, <1>3 DEF LockInv, OneAtATime
<1>7. ASSUME holder' # None PROVE phase'[holder'] = "waiting"
  BY <1>1, <1>3, <1>4, <1>7
<1>8. ASSUME NEW x \in Requests, phase'[x] = "waiting" PROVE holder' = x \/ InQueue(x)'
  BY <1>1, <1>2, <1>3, <1>8 DEF LockInv, LockIsNeverOrphaned, InQueue
<1> QED BY <1>1, <1>5, <1>6, <1>7, <1>8 DEF LockInv, LockIsNeverOrphaned, InQueue

(* A waiter that is cancelled leaves the others where they were.           *)
LEMMA RemovedFromQueue ==
    ASSUME QueueOK, NEW k \in DOMAIN queue, queue' = RemoveAt(queue, k)
    PROVE  /\ queue' \in Seq(Requests)
           /\ \A i, j \in DOMAIN queue' : queue'[i] = queue'[j] => i = j
           /\ \A j \in DOMAIN queue' : InQueue(queue'[j]) /\ queue'[j] # queue[k]
           /\ \A r \in Requests : InQueue(r) /\ r # queue[k] => InQueue(r)'
<1> DEFINE n == Len(queue)
           a == SubSeq(queue, 1, k - 1)
           b == SubSeq(queue, k + 1, n)
<1>1. /\ queue \in Seq(Requests) /\ n \in Nat /\ DOMAIN queue = 1 .. n
      /\ k \in Nat /\ 1 <= k /\ k <= n
      /\ \A j \in 1 .. n : queue[j] \in Requests
  BY LenProperties, ElementOfSeq DEF QueueOK
<1>2. /\ a \in Seq(Requests) /\ Len(a) = k - 1
      /\ \A j \in 1 .. k - 1 : a[j] = queue[j]
  <2>1. 1 \in Int /\ k - 1 \in Int /\ \A j \in 1 .. k - 1 : queue[j] \in Requests
    BY <1>1
  <2> HIDE DEF n
  <2>2. /\ a \in Seq(Requests)
        /\ Len(a) = IF 1 <= k - 1 THEN k - 1 - 1 + 1 ELSE 0
        /\ \A j \in 1 .. k - 1 - 1 + 1 : a[j] = queue[1 + j - 1]
    BY <2>1, SubSeqProperties
  <2> QED BY <1>1, <2>2
<1>3. /\ b \in Seq(Requests) /\ Len(b) = n - k
      /\ \A j \in 1 .. n - k : b[j] = queue[k + j]
  <2>1. k + 1 \in Int /\ n \in Int /\ \A j \in k + 1 .. n : queue[j] \in Requests
    BY <1>1
  <2> HIDE DEF n
  <2>2. /\ b \in Seq(Requests)
        /\ Len(b) = IF k + 1 <= n THEN n - (k + 1) + 1 ELSE 0
        /\ \A j \in 1 .. n - (k + 1) + 1 : b[j] = queue[(k + 1) + j - 1]
    BY <2>1, SubSeqProperties
  <2> QED BY <1>1, <2>2
<1> HIDE DEF a, b, n
<1>4. queue' = a \o b
  BY DEF RemoveAt, a, b, n
<1>5. /\ queue' \in Seq(Requests) /\ DOMAIN queue' = 1 .. n - 1
      /\ \A j \in 1 .. n - 1 : queue'[j] = IF j <= k - 1 THEN queue[j] ELSE queue[j + 1]
  <2>1. /\ a \o b \in Seq(Requests) /\ Len(a \o b) = Len(a) + Len(b)
        /\ \A i \in 1 .. Len(a) + Len(b) :
               (a \o b)[i] = IF i <= Len(a) THEN a[i] ELSE b[i - Len(a)]
    BY <1>2, <1>3, ConcatProperties
  <2>2. DOMAIN (a \o b) = 1 .. Len(a \o b)
    BY <2>1, LenProperties
  <2>3. Len(a) + Len(b) = n - 1
    BY <1>1, <1>2, <1>3
  <2>4. ASSUME NEW j \in 1 .. n - 1
        PROVE  (a \o b)[j] = IF j <= k - 1 THEN queue[j] ELSE queue[j + 1]
    <3>1. CASE j <= k - 1
      BY <1>1, <1>2, <2>1, <2>3, <2>4, <3>1
    <3>2. CASE ~(j <= k - 1)
      <4>1. j - (k - 1) \in 1 .. n - k /\ k + (j - (k - 1)) = j + 1
        BY <1>1, <3>2
      <4>2. (a \o b)[j] = b[j - (k - 1)]
        BY <1>1, <1>2, <2>1, <2>3, <3>2
      <4> QED BY <1>3, <3>2, <4>1, <4>2
    <3> QED BY <3>1, <3>2
  <2> QED BY <1>4, <2>1, <2>2, <2>3, <2>4
<1> DEFINE old(j) == IF j <= k - 1 THEN j ELSE j + 1
<1>6. \A j \in DOMAIN queue' : /\ old(j) \in DOMAIN queue /\ old(j) # k
                               /\ queue'[j] = queue[old(j)]
  BY <1>1, <1>5
<1>7. \A i, j \in DOMAIN queue' : old(i) = old(j) => i = j
  BY <1>1, <1>5
<1>8. \A i, j \in DOMAIN queue : queue[i] = queue[j] => i = j
  BY DEF QueueOK
<1>9. ASSUME NEW r \in Requests, InQueue(r), r # queue[k] PROVE InQueue(r)'
  <2>1. PICK j \in DOMAIN queue : queue[j] = r
    BY <1>9 DEF InQueue
  <2>2. j # k
    BY <1>9, <2>1
  <2>3. \E i \in DOMAIN queue' : old(i) = j
    <3>1. CASE j < k
      BY <1>1, <1>5, <2>1, <3>1
    <3>2. CASE j > k
      <4>1. j - 1 \in DOMAIN queue' /\ old(j - 1) = j
        BY <1>1, <1>5, <2>1, <3>2
      <4> QED BY <4>1
    <3> QED BY <1>1, <2>1, <2>2, <3>1, <3>2
  <2> QED BY <1>6, <2>1, <2>3 DEF InQueue
<1> HIDE DEF old
<1>10. \A i, j \in DOMAIN queue' : queue'[i] = queue'[j] => i = j
  BY <1>6, <1>7, <1>8
<1>11. \A j \in DOMAIN queue' : InQueue(queue'[j]) /\ queue'[j] # queue[k]
  BY <1>6, <1>8 DEF InQueue
<1> QED BY <1>5, <1>9, <1>10, <1>11

LEMMA CancelKeepsLockInv ==
    ASSUME LockInv, NEW r \in Requests, Cancel(r)
    PROVE  LockInv'
<1>1. CASE holder = r /\ PassOn
  BY <1>1, HolderLeavesKeepsLockInv DEF Cancel
<1>2. CASE /\ holder # r /\ holder' = holder
           /\ \E k \in DOMAIN queue : queue[k] = r /\ queue' = RemoveAt(queue, k)
  <2>1. PICK k \in DOMAIN queue : queue[k] = r /\ queue' = RemoveAt(queue, k)
    BY <1>2
  <2>2. /\ queue' \in Seq(Requests)
        /\ \A i, j \in DOMAIN queue' : queue'[i] = queue'[j] => i = j
        /\ \A j \in DOMAIN queue' : InQueue(queue'[j]) /\ queue'[j] # r
        /\ \A x \in Requests : InQueue(x) /\ x # r => InQueue(x)'
    BY <2>1, RemovedFromQueue DEF LockInv
  <2>3. \A x \in Requests : phase'[x] = IF x = r THEN "lost" ELSE phase[x]
    BY DEF Cancel, Goto, LockInv, QueueOK
  <2>4. "lost" \in Phases /\ "lost" # "waiting" /\ "lost" \notin Running
    BY DEF Phases, Running
  <2>5. \A j \in DOMAIN queue' : queue'[j] \in Requests
    BY <2>2, LenProperties, ElementOfSeq
  <2>6. QueueOK'
    <3>1. phase' \in [Requests -> Phases]
      BY <2>4 DEF Cancel, Goto, LockInv, QueueOK
    <3>2. \A x \in Requests : InQueue(x) => phase[x] = "waiting" /\ x # holder
      BY DEF LockInv, QueueOK, InQueue
    <3> QED BY <1>2, <2>2, <2>3, <2>5, <3>1, <3>2 DEF LockInv, QueueOK
  <2>7. OneAtATime'
    BY <1>2, <2>3, <2>4 DEF LockInv, OneAtATime
  <2>8. LockIsNeverOrphaned'
    <3>1. holder # None
      BY <2>1 DEF LockInv, LockIsNeverOrphaned
    <3>2. holder \in Requests /\ phase'[holder] \in Running \cup {"waiting"}
      BY <1>2, <2>3, <3>1 DEF LockInv, QueueOK, LockIsNeverOrphaned
    <3>3. \A x \in Requests : phase'[x] = "waiting" => holder = x \/ InQueue(x)'
      BY <2>2, <2>3, <2>4 DEF LockInv, LockIsNeverOrphaned, InQueue
    <3> QED BY <1>2, <3>1, <3>2, <3>3 DEF LockIsNeverOrphaned, InQueue
  <2> QED BY <2>6, <2>7, <2>8 DEF LockInv
<1> QED BY <1>1, <1>2 DEF Cancel, CancelLeavesQueue

LEMMA CrashKeepsLockInv == LockInv /\ Crash => LockInv'
<1> SUFFICES ASSUME LockInv, Crash PROVE LockInv'
  OBVIOUS
<1>1. holder' = None /\ queue' = <<>> /\ DOMAIN <<>> = {} /\ <<>> \in Seq(Requests)
  BY DEF Crash
<1>2. \A r \in Requests : phase'[r] \in Phases \ (Running \cup {"waiting"})
  BY DEF Crash, LockInv, QueueOK, Phases, Running
<1>3. phase' \in [Requests -> Phases]
  BY <1>2 DEF Crash
<1> QED BY <1>1, <1>2, <1>3 DEF LockInv, QueueOK, OneAtATime, LockIsNeverOrphaned

LEMMA LockInvInductive == LockInv /\ [ServerNext]_serverVars => LockInv'
<1> SUFFICES ASSUME LockInv, [ServerNext]_serverVars PROVE LockInv'
  OBVIOUS
<1>1. CASE UNCHANGED <<phase, holder, queue>>
  BY <1>1 DEF LockInv, QueueOK, OneAtATime, LockIsNeverOrphaned
<1>2. ASSUME NEW r \in Requests, DropGuard(r) PROVE LockInv'
  <2>1. holder = r
    BY <1>2 DEF DropGuard, LockInv, OneAtATime, Running
  <2> QED BY <1>2, <2>1, HolderLeavesKeepsLockInv DEF DropGuard
<1> QED BY <1>1, <1>2, StepKinds, InternalKeepsLockInv, ArriveKeepsLockInv,
           AdmitKeepsLockInv, CancelKeepsLockInv, CrashKeepsLockInv

LEMMA LockInvHolds == ServerSpec => []LockInv
<1>1. ServerInit => LockInv
  BY DEF ServerInit, LockInv, QueueOK, OneAtATime, LockIsNeverOrphaned, Running, Phases
<1> QED BY <1>1, LockInvInductive, PTL DEF ServerSpec

(* VERIFY_LOCK does what its comment asks for: one verification at a time, *)
(* through hand-overs, cancellations of the next owner, and crashes.       *)
THEOREM AdmitsOneAtATime == ServerSpec => []OneAtATime
BY LockInvHolds, PTL DEF LockInv

(* And it is never lost: no waiter is forgotten, and whoever has the lock  *)
(* is running or about to.                                                 *)
THEOREM LockFindsItsWay == ServerSpec => []LockIsNeverOrphaned
BY LockInvHolds, PTL DEF LockInv

-----------------------------------------------------------------------------
(* The data                                                                *)
(*                                                                         *)
(* What the handler of r has established when its task is at phase[r]: the *)
(* clone holds the revision as it was resolved, what is checked out is the *)
(* commit it named, and so on up to the answer.                            *)

HasDir == {"checkout", "rev_parse", "prune", "source_hash", "verify",
           "read_toolchain", "sign", "drop_workdir"}

Cloned     == HasDir \ {"drop_workdir"}
CheckedOutPhases == Cloned \ {"checkout"}
Named      == CheckedOutPhases \ {"rev_parse"}
Pruned     == Named \ {"prune"}
Hashed     == Pruned \ {"source_hash"}
Verified   == {"read_toolchain", "sign"}
Answered   == {"drop_workdir", "drop_guard", "done"}

(* The statement that VerifyOnce allows as an answer to r. *)
Env(r)      == request[r].build_env
Truth(r)    == /\ resolved[r] # None
               /\ Env(r) \in EgressEnvs
               /\ Once!IsTrueOf(resolved[r], Env(r))
MyInputs(r) == Inputs[resolved[r]]

Knows(r) ==
    /\ phase[r] = "idle" <=> request[r] = None
    /\ scratch[r] # None => phase[r] \in HasDir
    /\ phase[r] \in {"idle", "waiting", "check", "clone"} => resolved[r] = None
    /\ phase[r] \in {"clone"} \cup Cloned => request[r].plain
    /\ phase[r] \in Cloned =>
           scratch[r] # None /\ scratch[r].refs[request[r].git_rev] = resolved[r]
    /\ phase[r] \in CheckedOutPhases =>
           resolved[r] # None /\ scratch[r].commit = resolved[r]
    /\ phase[r] \in Named => local[r].git_sha = resolved[r]
    /\ phase[r] \in Pruned => MyInputs(r) # None /\ scratch[r].extras = NoExtras
    /\ phase[r] \in Hashed => local[r].source_hash = MyInputs(r)
    /\ phase[r] \in Verified =>
           /\ Truth(r)
           /\ local[r].published_at = PublishedAt[MyInputs(r)][Env(r)]
           /\ local[r].toolchain_version = Toolchain[MyInputs(r)]
           /\ scratch[r].home = Toolchain[MyInputs(r)]
    /\ phase[r] = "sign" => local[r].toolchain_digest = Toolchain[MyInputs(r)]
    /\ phase[r] \in Answered =>
           \/ reply[r] = Error
           \/ Truth(r) /\ reply[r] = Once!Statement(resolved[r], Env(r))

(* The scratch space in use is what failed removals left and the one       *)
(* Workdir there is; until the compiler is installed that is a clone.      *)
UsedOK ==
    /\ \A r \in Requests : scratch[r] # None => used = leaked + scratch[r].size
    /\ (\A r \in Requests : scratch[r] = None) => used = leaked

Spared(r) ==
    /\ phase[r] \in Cloned \ Verified => scratch[r].size = RepoSize
    /\ enospc[r] # None =>
           /\ phase[r] \in Answered \cup {"lost"}
           /\ \/ enospc[r] + RepoSize > Capacity
              \/ /\ resolved[r] # None /\ MyInputs(r) # None
                 /\ enospc[r] + RepoSize + HomeSize[MyInputs(r)] > Capacity

DataInv ==
    /\ LockInv /\ ServerTypeOK /\ UsedOK
    /\ \A r \in Requests : Knows(r) /\ Spared(r)

(* A request the step has nothing to do with. *)
Same(r) ==
    /\ phase'[r] = phase[r] /\ request'[r] = request[r] /\ resolved'[r] = resolved[r]
    /\ reply'[r] = reply[r] /\ local'[r] = local[r] /\ scratch'[r] = scratch[r]
    /\ enospc'[r] = enospc[r]

LEMMA SameStays ==
    ASSUME NEW r \in Requests, Knows(r), Spared(r), Same(r)
    PROVE  Knows(r)' /\ Spared(r)'
BY DEF Knows, Spared, Same, Truth, Env, MyInputs, Once!IsTrueOf, Once!Statement

(* Only the running request has a Workdir. *)
LEMMA OnlyMine ==
    ASSUME DataInv, NEW r \in Requests, phase[r] \in Running
    PROVE  /\ holder = r
           /\ \A x \in Requests : x # r => scratch[x] = None
           /\ scratch[r] # None => used = leaked + scratch[r].size
           /\ scratch[r] = None => used = leaked
<1>1. \A x \in Requests : scratch[x] # None => phase[x] \in Running
  BY DEF DataInv, Knows, HasDir, Running
<1> QED BY <1>1 DEF DataInv, UsedOK, LockInv, OneAtATime

-----------------------------------------------------------------------------
(* The steps                                                               *)
(*                                                                         *)
(* What is left to show of a step of r: the type of what changed, the      *)
(* space in use, and what r knows afterwards.                              *)
StepOf(r) == \A x \in Requests : x # r => Same(x)

LEMMA OneMoves ==
    ASSUME DataInv, NEW r \in Requests, StepOf(r), LockInv', ServerTypeOK', UsedOK',
           Knows(r)', Spared(r)'
    PROVE  DataInv'
BY SameStays DEF DataInv, StepOf

LEMMA ArriveKeepsData ==
    ASSUME DataInv, LockInv', NEW r \in Requests, NEW q \in VerifyRequest, Arrive(r, q)
    PROVE  DataInv'
<1>1. PICK p \in {"check", "waiting"} : phase' = [phase EXCEPT ![r] = p]
  BY DEF Arrive, Goto
<1>2. /\ phase[r] = "idle" /\ request' = [request EXCEPT ![r] = q]
      /\ UNCHANGED <<remote, scratch, used, leaked, local, reply, probe, bounds, resolved, enospc>>
  BY DEF Arrive
<1>3. ServerTypeOK'
  BY <1>1, <1>2 DEF DataInv, ServerTypeOK, LockInv, QueueOK, Phases, Running
<1>4. StepOf(r)
  BY <1>1, <1>2 DEF StepOf, Same, DataInv, ServerTypeOK
<1>5. UsedOK'
  BY <1>2 DEF UsedOK, DataInv
<1>6. /\ phase'[r] = p /\ request'[r] = q
      /\ p \notin HasDir \cup Answered \cup {"lost", "clone", "idle"}
  BY <1>1, <1>2 DEF DataInv, ServerTypeOK, HasDir, Answered
<1>7. Knows(r)' /\ Spared(r)'
  BY <1>2, <1>6, RecordsAssumption
     DEF DataInv, Knows, Spared, HasDir, Cloned, CheckedOutPhases, Named, Pruned, Hashed,
         Verified, Answered
<1> QED BY <1>3, <1>4, <1>5, <1>7, OneMoves

(* A step that moves r on and touches no files. *)
LEMMA MovesKeepData ==
    ASSUME DataInv, LockInv', NEW r \in Requests, NEW p \in Phases, Goto(r, p),
           \/ phase[r] = "waiting" /\ p \in {"check", "lost"} /\ reply' = reply
           \/ phase[r] = "check" /\ p = "clone" /\ request[r].plain /\ reply' = reply
           \/ /\ phase[r] \in Running \ {"drop_workdir", "drop_guard"}
              /\ p = "drop_workdir"
              /\ reply' = [reply EXCEPT ![r] = Error],
           UNCHANGED <<remote, request, scratch, used, leaked, local, probe, bounds, resolved,
                       enospc>>
    PROVE  DataInv'
<1>1. ServerTypeOK'
  BY DEF Goto, DataInv, ServerTypeOK, LockInv, QueueOK
<1>2. StepOf(r)
  BY DEF StepOf, Same, Goto, DataInv, ServerTypeOK
<1>3. UsedOK'
  BY DEF UsedOK, DataInv
<1>4. phase'[r] = p
  BY DEF Goto, DataInv, ServerTypeOK
<1>5. Knows(r) /\ Spared(r)
  BY DEF DataInv
<1>6. Knows(r)' /\ Spared(r)'
  <2>1. CASE phase[r] = "waiting" /\ p \in {"check", "lost"}
    BY <1>4, <1>5, <2>1
       DEF Knows, Spared, HasDir, Cloned, CheckedOutPhases, Named, Pruned, Hashed,
           Verified, Answered, MyInputs
  <2>2. CASE phase[r] = "check" /\ p = "clone" /\ request[r].plain
    BY <1>4, <1>5, <2>2
       DEF Knows, Spared, HasDir, Cloned, CheckedOutPhases, Named, Pruned, Hashed,
           Verified, Answered, MyInputs
  <2>3. CASE /\ phase[r] \in Running \ {"drop_workdir", "drop_guard"}
             /\ p = "drop_workdir" /\ reply' = [reply EXCEPT ![r] = Error]
    <3>1. reply'[r] = Error
      BY <2>3 DEF DataInv, ServerTypeOK
    <3>2. Knows(r)'
      BY <1>4, <1>5, <2>3, <3>1
         DEF Knows, HasDir, Cloned, CheckedOutPhases, Named, Pruned, Hashed, Verified,
             Answered, Running
    <3>3. Spared(r)'
      BY <1>4, <1>5, <2>3
         DEF Spared, Cloned, HasDir, Verified, Answered, Running, MyInputs
    <3> QED BY <3>2, <3>3
  <2> QED BY <2>1, <2>2, <2>3
<1> QED BY <1>1, <1>2, <1>3, <1>6, OneMoves

LEMMA CheckRequestKeepsData ==
    ASSUME DataInv, LockInv', NEW r \in Requests, CheckRequest(r) PROVE DataInv'
BY MovesKeepData DEF CheckRequest, Fail, Running, Phases

LEMMA StepFailsKeepsData ==
    ASSUME DataInv, LockInv', NEW r \in Requests, StepFails(r) PROVE DataInv'
BY MovesKeepData DEF StepFails, FalliblePhases, Fail, Running, Phases

LEMMA AdmitKeepsData ==
    ASSUME DataInv, LockInv', NEW r \in Requests, Admit(r) PROVE DataInv'
BY MovesKeepData DEF Admit, Running, Phases

LEMMA CancelKeepsData ==
    ASSUME DataInv, LockInv', NEW r \in Requests, Cancel(r) PROVE DataInv'
BY MovesKeepData DEF Cancel, Running, Phases

(* A directory that grows by n units keeps what is in it. *)
Grown(dir, n) == [dir EXCEPT !.size = @ + n]

LEMMA Grow ==
    ASSUME NEW d \in Workdir, NEW n \in Nat, d.size + n <= Capacity
    PROVE  /\ Grown(d, n) \in Workdir /\ Grown(d, n).size = d.size + n
           /\ Grown(d, n).refs = d.refs /\ Grown(d, n).commit = d.commit
           /\ Grown(d, n).extras = d.extras /\ Grown(d, n).home = d.home
BY ServerAssumption DEF Workdir, Grown

LEMMA NewDir ==
    ASSUME ServerTypeOK
    PROVE  NewWorkdir \in Workdir /\ NewWorkdir.size = 0 /\ NewWorkdir.refs = remote
BY ServerAssumption DEF NewWorkdir, Workdir, ServerTypeOK, ExtraSets

(* r writes n units into its directory d, or runs out of space. *)
LEMMA WriteEffect ==
    ASSUME DataInv, NEW r \in Requests, phase[r] \in Running,
           NEW d \in Workdir, leaked + d.size = used, NEW n \in Nat,
           Write(r, d, n) \/ NoSpaceLeft(r, d, n), leaked' = leaked
    PROVE  /\ scratch' \in [Requests -> Workdir \cup {None}]
           /\ scratch'[r] \in Workdir /\ scratch'[r] # None
           /\ used' \in 0 .. Capacity
           /\ \A x \in Requests : x # r => scratch'[x] = scratch[x]
           /\ UsedOK'
           /\ Write(r, d, n) =>
                /\ scratch'[r].size = d.size + n
                /\ scratch'[r].refs = d.refs /\ scratch'[r].commit = d.commit
                /\ scratch'[r].extras = d.extras /\ scratch'[r].home = d.home
<1> DEFINE m == IF Write(r, d, n) THEN n ELSE Capacity - used
<1>1. used \in 0 .. Capacity /\ leaked \in Nat /\ d.size \in Nat /\ Capacity \in Nat
  BY ServerAssumption DEF DataInv, ServerTypeOK, Workdir
<1>2. m \in Nat /\ used + m <= Capacity /\ d.size + m <= Capacity
  BY <1>1 DEF Write
<1>3. scratch' = [scratch EXCEPT ![r] = Grown(d, m)] /\ used' = used + m
  BY <1>1 DEF Write, NoSpaceLeft, Grown
<1>4. Write(r, d, n) => m = n
  OBVIOUS
<1> HIDE DEF m
<1>5. /\ Grown(d, m) \in Workdir /\ Grown(d, m).size = d.size + m
      /\ Grown(d, m).refs = d.refs /\ Grown(d, m).commit = d.commit
      /\ Grown(d, m).extras = d.extras /\ Grown(d, m).home = d.home
  BY <1>2, Grow
<1>6. /\ scratch' \in [Requests -> Workdir \cup {None}]
      /\ scratch'[r] = Grown(d, m)
      /\ \A x \in Requests : x # r => scratch'[x] = scratch[x]
  BY <1>3, <1>5 DEF DataInv, ServerTypeOK
<1>7. Grown(d, m) # None
  BY <1>5, RecordsAssumption
<1>8. UsedOK'
  BY <1>1, <1>2, <1>3, <1>5, <1>6, <1>7, OnlyMine DEF UsedOK
<1>9. used' \in 0 .. Capacity
  BY <1>1, <1>2, <1>3
<1> QED BY <1>4, <1>5, <1>6, <1>7, <1>8, <1>9

LEMMA GitCloneKeepsData ==
    ASSUME DataInv, LockInv', NEW r \in Requests, GitClone(r) PROVE DataInv'
<1>1. /\ phase[r] = "clone" /\ phase[r] \in Running
      /\ UNCHANGED <<remote, request, leaked, local, probe, bounds>>
  BY DEF GitClone, Running
<1>2. Knows(r) /\ Spared(r) /\ ServerTypeOK
  BY DEF DataInv
<1>3. scratch[r] = None /\ used = leaked /\ leaked \in 0 .. Capacity
  BY <1>1, <1>2, OnlyMine DEF Knows, HasDir, ServerTypeOK
<1>4. /\ NewWorkdir \in Workdir /\ leaked + NewWorkdir.size = used
      /\ NewWorkdir.size = 0 /\ NewWorkdir.refs = remote /\ RepoSize \in Nat
  BY <1>2, <1>3, NewDir, PackagesAssumption
<1>5. request[r] \in VerifyRequest
  BY <1>1, <1>2 DEF Knows, ServerTypeOK
<1>6. CASE /\ Write(r, NewWorkdir, RepoSize) /\ Goto(r, "checkout")
           /\ resolved' = [resolved EXCEPT ![r] = remote[request[r].git_rev]]
           /\ UNCHANGED <<reply, enospc>>
  <2>1. /\ scratch' \in [Requests -> Workdir \cup {None}]
        /\ scratch'[r] # None /\ scratch'[r].size = RepoSize
        /\ used' \in 0 .. Capacity
        /\ \A x \in Requests : x # r => scratch'[x] = scratch[x]
        /\ UsedOK' /\ scratch'[r].refs = remote
    BY <1>1, <1>3, <1>4, <1>6, WriteEffect
  <2>2. request[r].git_rev \in Revs
    BY <1>5 DEF VerifyRequest
  <2>3. phase'[r] = "checkout" /\ resolved'[r] = remote[request[r].git_rev]
    BY <1>2, <1>6 DEF Goto, ServerTypeOK
  <2>4. ServerTypeOK'
    BY <1>1, <1>2, <1>6, <2>1, <2>2 DEF ServerTypeOK, Goto, Phases, Running, LockInv, QueueOK
  <2>5. StepOf(r)
    BY <1>1, <1>2, <1>6, <2>1 DEF StepOf, Same, Goto, ServerTypeOK
  <2>6. Knows(r)'
    BY <1>1, <1>2, <2>1, <2>3
       DEF Knows, HasDir, Cloned, CheckedOutPhases, Named, Pruned, Hashed, Verified, Answered
  <2>7. Spared(r)'
    BY <1>1, <1>2, <1>6, <2>1, <2>3 DEF Spared, HasDir, Cloned, Verified, Answered
  <2> QED BY <2>1, <2>4, <2>5, <2>6, <2>7, OneMoves
<1>7. CASE NoSpaceLeft(r, NewWorkdir, RepoSize) /\ UNCHANGED resolved
  <2>1. /\ scratch' \in [Requests -> Workdir \cup {None}]
        /\ used' \in 0 .. Capacity /\ UsedOK'
        /\ \A x \in Requests : x # r => scratch'[x] = scratch[x]
    BY <1>1, <1>3, <1>4, <1>7, WriteEffect
  <2>2. /\ leaked + RepoSize > Capacity /\ enospc' = [enospc EXCEPT ![r] = leaked]
        /\ reply' = [reply EXCEPT ![r] = Error] /\ Goto(r, "drop_workdir")
    BY <1>3, <1>4, <1>7, ServerAssumption DEF NoSpaceLeft, Fail
  <2>3. phase'[r] = "drop_workdir" /\ reply'[r] = Error
    BY <1>2, <2>2 DEF Goto, ServerTypeOK
  <2>4. ServerTypeOK'
    BY <1>1, <1>2, <1>7, <2>1, <2>2 DEF ServerTypeOK, Goto, Phases, Running, LockInv, QueueOK
  <2>5. StepOf(r)
    BY <1>1, <1>2, <1>7, <2>1, <2>2 DEF StepOf, Same, Goto, ServerTypeOK
  <2>6. Knows(r)'
    BY <1>1, <1>2, <2>3
       DEF Knows, HasDir, Cloned, CheckedOutPhases, Named, Pruned, Hashed, Verified, Answered
  <2>7. Spared(r)'
    BY <1>2, <2>2, <2>3 DEF Spared, HasDir, Cloned, Verified, Answered, ServerTypeOK
  <2> QED BY <2>1, <2>4, <2>5, <2>6, <2>7, OneMoves
<1> QED BY <1>6, <1>7 DEF GitClone

(* A step that changes the directory of r, but not its size.               *)
LEMMA SameSize ==
    ASSUME DataInv, NEW r \in Requests, phase[r] \in Running, scratch[r] # None,
           scratch' \in [Requests -> Workdir \cup {None}],
           \A x \in Requests : x # r => scratch'[x] = scratch[x],
           scratch'[r].size = scratch[r].size, scratch'[r] # None,
           used' = used, leaked' = leaked
    PROVE  UsedOK'
BY OnlyMine DEF UsedOK

LEMMA GitCheckoutKeepsData ==
    ASSUME DataInv, LockInv', NEW r \in Requests, GitCheckout(r) PROVE DataInv'
<1> DEFINE c == CheckedOut(r)
<1>1. /\ phase[r] = "checkout" /\ phase[r] \in Running
      /\ UNCHANGED <<remote, request, used, leaked, local, probe, bounds, resolved, enospc>>
  BY DEF GitCheckout, Running
<1>2. Knows(r) /\ Spared(r) /\ ServerTypeOK
  BY DEF DataInv
<1>3. request[r] \in VerifyRequest /\ scratch[r] \in Workdir /\ scratch[r] # None
  BY <1>1, <1>2 DEF Knows, ServerTypeOK, HasDir, Cloned
<1>4. CASE c = None /\ Fail(r) /\ UNCHANGED scratch
  BY <1>1, <1>4, MovesKeepData DEF Fail, Running, Phases
<1>5. CASE /\ c # None
           /\ scratch' = [scratch EXCEPT ![r].commit = c, ![r].extras = Extras[c]]
           /\ Goto(r, "rev_parse") /\ reply' = reply
  <2>1. c = resolved[r]
    BY <1>1, <1>2 DEF Knows, CheckedOut, Cloned, HasDir
  <2>2. c \in Commits /\ Extras[c] \in ExtraSets
    BY <1>2, <1>5, <2>1, PackagesAssumption DEF ServerTypeOK
  <2> HIDE DEF c
  <2>3. scratch' = [scratch EXCEPT ![r] = [scratch[r] EXCEPT !.commit = c, !.extras = Extras[c]]]
    BY <1>2, <1>5 DEF ServerTypeOK
  <2>4. /\ [scratch[r] EXCEPT !.commit = c, !.extras = Extras[c]] \in Workdir
        /\ [scratch[r] EXCEPT !.commit = c, !.extras = Extras[c]].commit = c
        /\ [scratch[r] EXCEPT !.commit = c, !.extras = Extras[c]].refs = scratch[r].refs
        /\ [scratch[r] EXCEPT !.commit = c, !.extras = Extras[c]].size = scratch[r].size
    BY <1>3, <2>2 DEF Workdir
  <2>5. /\ scratch' \in [Requests -> Workdir \cup {None}]
        /\ \A x \in Requests : x # r => scratch'[x] = scratch[x]
        /\ scratch'[r] # None /\ scratch'[r].commit = c
        /\ scratch'[r].refs = scratch[r].refs /\ scratch'[r].size = scratch[r].size
    BY <1>2, <2>3, <2>4, RecordsAssumption DEF ServerTypeOK
  <2>6. phase'[r] = "rev_parse"
    BY <1>2, <1>5 DEF Goto, ServerTypeOK
  <2>7. ServerTypeOK'
    BY <1>1, <1>2, <1>5, <2>5 DEF ServerTypeOK, Goto, Phases, Running, LockInv, QueueOK
  <2>8. StepOf(r)
    BY <1>1, <1>2, <1>5, <2>5 DEF StepOf, Same, Goto, ServerTypeOK
  <2>9. UsedOK'
    BY <1>1, <1>3, <2>5, SameSize
  <2>10. Knows(r)'
    BY <1>1, <1>2, <1>5, <2>1, <2>5, <2>6
       DEF Knows, HasDir, Cloned, CheckedOutPhases, Named, Pruned, Hashed, Verified, Answered
  <2>11. Spared(r)'
    BY <1>1, <1>2, <2>5, <2>6 DEF Spared, HasDir, Cloned, Verified, Answered
  <2> QED BY <2>7, <2>8, <2>9, <2>10, <2>11, OneMoves
<1> QED BY <1>4, <1>5 DEF GitCheckout

(* Past the pruning, r works on the inputs of a commit of the repository.  *)
LEMMA InputsKnown ==
    ASSUME DataInv, NEW r \in Requests, phase[r] \in Pruned
    PROVE  /\ resolved[r] \in Commits /\ MyInputs(r) \in InputSets
           /\ Toolchain[MyInputs(r)] \in Toolchains
           /\ HomeSize[MyInputs(r)] \in Nat
           /\ \A e \in Envs : PublishedAt[MyInputs(r)][e] \in Pkgs \cup {None}
<1>1. resolved[r] \in Commits /\ MyInputs(r) # None
  BY DEF DataInv, Knows, ServerTypeOK, Pruned, Named, CheckedOutPhases
<1>2. MyInputs(r) \in InputSets
  BY <1>1, PackagesAssumption DEF MyInputs
<1> QED BY <1>1, <1>2, PackagesAssumption

LEMMA GitRevParseKeepsData ==
    ASSUME DataInv, LockInv', NEW r \in Requests, GitRevParse(r) PROVE DataInv'
<1> DEFINE v == scratch[r].commit
<1>1. /\ phase[r] = "rev_parse" /\ phase[r] \in Running /\ Goto(r, "prune")
      /\ local' = [local EXCEPT ![r].git_sha = v]
      /\ UNCHANGED <<remote, request, scratch, used, leaked, reply, probe, bounds, resolved,
                     enospc>>
  BY DEF GitRevParse, Running
<1>2. Knows(r) /\ Spared(r) /\ ServerTypeOK
  BY DEF DataInv
<1>3. v = resolved[r] /\ v \in Commits
  BY <1>1, <1>2 DEF ServerTypeOK, Knows, HasDir, Cloned, CheckedOutPhases, Named, Pruned,
                    Hashed, Verified
<1> HIDE DEF v
<1>4. /\ local[r] \in Locals
      /\ [local[r] EXCEPT !.git_sha = v] \in Locals
      /\ local' = [local EXCEPT ![r] = [local[r] EXCEPT !.git_sha = v]]
  <2>1. local \in [Requests -> Locals]
    BY <1>2 DEF ServerTypeOK
  <2>2. [local[r] EXCEPT !.git_sha = v] \in Locals
    BY <1>3, <2>1 DEF Locals
  <2> QED BY <1>1, <2>1, <2>2
<1>5. local' \in [Requests -> Locals] /\ local'[r] = [local[r] EXCEPT !.git_sha = v]
      /\ \A x \in Requests : x # r => local'[x] = local[x]
  BY <1>2, <1>4 DEF ServerTypeOK
<1>6. local'[r].git_sha = v /\ \A f \in DOMAIN NoLocals \ {"git_sha"} : local'[r][f] = local[r][f]
  BY <1>4, <1>5 DEF Locals, NoLocals
<1>7. phase'[r] = "prune"
  BY <1>1, <1>2 DEF Goto, ServerTypeOK
<1>8. ServerTypeOK'
  BY <1>1, <1>2, <1>5 DEF ServerTypeOK, Goto, Phases, Running, LockInv, QueueOK
<1>9. StepOf(r)
  BY <1>1, <1>2, <1>5 DEF StepOf, Same, Goto, ServerTypeOK
<1>10. UsedOK'
  BY <1>1 DEF UsedOK, DataInv
<1>11. Knows(r)'
  BY <1>1, <1>2, <1>3, <1>6, <1>7
     DEF Knows, HasDir, Cloned, CheckedOutPhases, Named, Pruned, Hashed, Verified, Answered,
         NoLocals, Truth, Env, MyInputs
<1>12. Spared(r)'
  BY <1>1, <1>2, <1>7 DEF Spared, HasDir, Cloned, Verified, Answered
<1> QED BY <1>8, <1>9, <1>10, <1>11, <1>12, OneMoves

LEMMA SourceHashKeepsData ==
    ASSUME DataInv, LockInv', NEW r \in Requests, SourceHash(r) PROVE DataInv'
<1> DEFINE v == Inputs[scratch[r].commit]
<1>1. /\ phase[r] = "source_hash" /\ phase[r] \in Running /\ Goto(r, "verify")
      /\ local' = [local EXCEPT ![r].source_hash = v]
      /\ UNCHANGED <<remote, request, scratch, used, leaked, reply, probe, bounds, resolved,
                     enospc>>
  BY DEF SourceHash, Running
<1>2. Knows(r) /\ Spared(r) /\ ServerTypeOK
  BY DEF DataInv
<1>3. v = MyInputs(r) /\ v \in InputSets
  BY <1>1, <1>2, PackagesAssumption
     DEF ServerTypeOK, MyInputs, Knows, HasDir, Cloned, CheckedOutPhases, Named, Pruned, Hashed,
         Verified
<1> HIDE DEF v
<1>4. /\ local[r] \in Locals
      /\ [local[r] EXCEPT !.source_hash = v] \in Locals
      /\ local' = [local EXCEPT ![r] = [local[r] EXCEPT !.source_hash = v]]
  <2>1. local \in [Requests -> Locals]
    BY <1>2 DEF ServerTypeOK
  <2>2. [local[r] EXCEPT !.source_hash = v] \in Locals
    BY <1>3, <2>1 DEF Locals
  <2> QED BY <1>1, <2>1, <2>2
<1>5. local' \in [Requests -> Locals] /\ local'[r] = [local[r] EXCEPT !.source_hash = v]
      /\ \A x \in Requests : x # r => local'[x] = local[x]
  BY <1>2, <1>4 DEF ServerTypeOK
<1>6. /\ local'[r].source_hash = v
      /\ \A f \in DOMAIN NoLocals \ {"source_hash"} : local'[r][f] = local[r][f]
  BY <1>4, <1>5 DEF Locals, NoLocals
<1>7. phase'[r] = "verify"
  BY <1>1, <1>2 DEF Goto, ServerTypeOK
<1>8. ServerTypeOK'
  BY <1>1, <1>2, <1>5 DEF ServerTypeOK, Goto, Phases, Running, LockInv, QueueOK
<1>9. StepOf(r)
  BY <1>1, <1>2, <1>5 DEF StepOf, Same, Goto, ServerTypeOK
<1>10. UsedOK'
  BY <1>1 DEF UsedOK, DataInv
<1>11. Knows(r)'
  BY <1>1, <1>2, <1>3, <1>6, <1>7
     DEF Knows, HasDir, Cloned, CheckedOutPhases, Named, Pruned, Hashed, Verified, Answered,
         NoLocals, Truth, Env, MyInputs
<1>12. Spared(r)'
  BY <1>1, <1>2, <1>7 DEF Spared, HasDir, Cloned, Verified, Answered
<1> QED BY <1>8, <1>9, <1>10, <1>11, <1>12, OneMoves

LEMMA ReadToolchainKeepsData ==
    ASSUME DataInv, LockInv', NEW r \in Requests, ReadToolchain(r) PROVE DataInv'
<1> DEFINE v == scratch[r].home
<1>1. /\ phase[r] = "read_toolchain" /\ phase[r] \in Running /\ Goto(r, "sign")
      /\ local' = [local EXCEPT ![r].toolchain_digest = v]
      /\ UNCHANGED <<remote, request, scratch, used, leaked, reply, probe, bounds, resolved,
                     enospc>>
  BY DEF ReadToolchain, Running
<1>2. Knows(r) /\ Spared(r) /\ ServerTypeOK
  BY DEF DataInv
<1>3. v = Toolchain[MyInputs(r)] /\ v \in Toolchains
  BY <1>1, <1>2, InputsKnown DEF Knows, Pruned, Named, CheckedOutPhases, Cloned, HasDir, Verified
<1> HIDE DEF v
<1>4. /\ local[r] \in Locals
      /\ [local[r] EXCEPT !.toolchain_digest = v] \in Locals
      /\ local' = [local EXCEPT ![r] = [local[r] EXCEPT !.toolchain_digest = v]]
  <2>1. local \in [Requests -> Locals]
    BY <1>2 DEF ServerTypeOK
  <2>2. [local[r] EXCEPT !.toolchain_digest = v] \in Locals
    BY <1>3, <2>1 DEF Locals
  <2> QED BY <1>1, <2>1, <2>2
<1>5. local' \in [Requests -> Locals] /\ local'[r] = [local[r] EXCEPT !.toolchain_digest = v]
      /\ \A x \in Requests : x # r => local'[x] = local[x]
  BY <1>2, <1>4 DEF ServerTypeOK
<1>6. /\ local'[r].toolchain_digest = v
      /\ \A f \in DOMAIN NoLocals \ {"toolchain_digest"} : local'[r][f] = local[r][f]
  BY <1>4, <1>5 DEF Locals, NoLocals
<1>7. phase'[r] = "sign"
  BY <1>1, <1>2 DEF Goto, ServerTypeOK
<1>8. ServerTypeOK'
  BY <1>1, <1>2, <1>5 DEF ServerTypeOK, Goto, Phases, Running, LockInv, QueueOK
<1>9. StepOf(r)
  BY <1>1, <1>2, <1>5 DEF StepOf, Same, Goto, ServerTypeOK
<1>10. UsedOK'
  BY <1>1 DEF UsedOK, DataInv
<1>11. Knows(r)'
  BY <1>1, <1>2, <1>3, <1>6, <1>7
     DEF Knows, HasDir, Cloned, CheckedOutPhases, Named, Pruned, Hashed, Verified, Answered,
         NoLocals, Truth, Env, MyInputs
<1>12. Spared(r)'
  BY <1>1, <1>2, <1>7 DEF Spared, HasDir, Cloned, Verified, Answered
<1> QED BY <1>8, <1>9, <1>10, <1>11, <1>12, OneMoves

LEMMA PruneToBuildInputsKeepsData ==
    ASSUME DataInv, LockInv', NEW r \in Requests, PruneToBuildInputs(r) PROVE DataInv'
<1>1. /\ phase[r] = "prune" /\ phase[r] \in Running
      /\ UNCHANGED <<remote, request, used, leaked, local, probe, bounds, resolved, enospc>>
  BY DEF PruneToBuildInputs, Running
<1>2. Knows(r) /\ Spared(r) /\ ServerTypeOK
  BY DEF DataInv
<1>3. scratch[r] \in Workdir /\ scratch[r] # None /\ scratch[r].commit = resolved[r]
  BY <1>1, <1>2 DEF Knows, ServerTypeOK, HasDir, Cloned, CheckedOutPhases
<1>4. CASE Inputs[scratch[r].commit] = None /\ Fail(r) /\ UNCHANGED scratch
  BY <1>1, <1>4, MovesKeepData DEF Fail, Running, Phases
<1>5. CASE /\ Inputs[scratch[r].commit] # None
           /\ scratch' = [scratch EXCEPT ![r].extras = KeptExtras(r)]
           /\ Goto(r, "source_hash") /\ reply' = reply
  <2>1. /\ [scratch[r] EXCEPT !.extras = NoExtras] \in Workdir
        /\ [scratch[r] EXCEPT !.extras = NoExtras].commit = scratch[r].commit
        /\ [scratch[r] EXCEPT !.extras = NoExtras].refs = scratch[r].refs
        /\ [scratch[r] EXCEPT !.extras = NoExtras].size = scratch[r].size
        /\ [scratch[r] EXCEPT !.extras = NoExtras].extras = NoExtras
    BY <1>3 DEF Workdir, ExtraSets
  <2>2. scratch' = [scratch EXCEPT ![r] = [scratch[r] EXCEPT !.extras = NoExtras]]
    BY <1>2, <1>5 DEF ServerTypeOK, KeptExtras
  <2>3. /\ scratch' \in [Requests -> Workdir \cup {None}]
        /\ \A x \in Requests : x # r => scratch'[x] = scratch[x]
        /\ scratch'[r] # None /\ scratch'[r].commit = scratch[r].commit
        /\ scratch'[r].refs = scratch[r].refs /\ scratch'[r].size = scratch[r].size
        /\ scratch'[r].extras = NoExtras
    BY <1>2, <2>1, <2>2, RecordsAssumption DEF ServerTypeOK
  <2>4. phase'[r] = "source_hash"
    BY <1>2, <1>5 DEF Goto, ServerTypeOK
  <2>5. ServerTypeOK'
    BY <1>1, <1>2, <1>5, <2>3 DEF ServerTypeOK, Goto, Phases, Running, LockInv, QueueOK
  <2>6. StepOf(r)
    BY <1>1, <1>2, <1>5, <2>3 DEF StepOf, Same, Goto, ServerTypeOK
  <2>7. UsedOK'
    BY <1>1, <1>3, <2>3, SameSize
  <2>8. Knows(r)'
    BY <1>1, <1>2, <1>3, <1>5, <2>3, <2>4
       DEF Knows, HasDir, Cloned, CheckedOutPhases, Named, Pruned, Hashed, Verified, Answered,
           MyInputs
  <2>9. Spared(r)'
    BY <1>1, <1>2, <2>3, <2>4 DEF Spared, HasDir, Cloned, Verified, Answered
  <2> QED BY <2>5, <2>6, <2>7, <2>8, <2>9, OneMoves
<1> QED BY <1>4, <1>5 DEF PruneToBuildInputs

LEMMA VerifySourceKeepsData ==
    ASSUME DataInv, LockInv', NEW r \in Requests, VerifySource(r) PROVE DataInv'
<1> DEFINE i   == Inputs[scratch[r].commit]
           pkg == PublishedAt[i][request[r].build_env]
           d   == [scratch[r] EXCEPT !.home = Toolchain[i]]
<1>1. /\ phase[r] = "verify" /\ phase[r] \in Running /\ phase[r] \in Pruned
      /\ Env(r) \in EgressEnvs
      /\ UNCHANGED <<remote, request, leaked, probe, bounds, resolved>>
  BY DEF VerifySource, Running, Pruned, Named, CheckedOutPhases, Cloned, HasDir, Env
<1>2. Knows(r) /\ Spared(r) /\ ServerTypeOK
  BY DEF DataInv
<1>3. /\ scratch[r] \in Workdir /\ scratch[r] # None /\ scratch[r].commit = resolved[r]
      /\ scratch[r].extras = NoExtras /\ request[r] \in VerifyRequest
      /\ scratch[r].size = RepoSize /\ leaked + scratch[r].size = used
      /\ leaked \in 0 .. Capacity
  BY <1>1, <1>2, OnlyMine
     DEF Knows, Spared, ServerTypeOK, HasDir, Cloned, CheckedOutPhases, Named, Pruned, Verified
<1>4. i = MyInputs(r) /\ i \in InputSets /\ Toolchain[i] \in Toolchains
      /\ HomeSize[i] \in Nat /\ resolved[r] # None /\ i # None
  BY <1>1, <1>3, InputsKnown, PackagesAssumption DEF MyInputs, InputSets
<1>5. pkg = PublishedAt[MyInputs(r)][Env(r)] /\ pkg \in Pkgs \cup {None}
  BY <1>1, <1>3, <1>4, InputsKnown DEF Env, VerifyRequest
<1>6. /\ d \in Workdir /\ leaked + d.size = used /\ d.home = Toolchain[i]
      /\ d.refs = scratch[r].refs /\ d.commit = scratch[r].commit
      /\ d.extras = scratch[r].extras
  BY <1>3, <1>4 DEF Workdir
<1> HIDE DEF d
<1>7. CASE /\ pkg # None /\ OnChain[pkg] = Compile(i, scratch[r].extras)
           /\ Write(r, d, HomeSize[i])
           /\ local' = [local EXCEPT ![r].published_at = pkg,
                                     ![r].toolchain_version = Toolchain[i]]
           /\ Goto(r, "read_toolchain")
           /\ UNCHANGED <<reply, enospc>>
  <2>1. /\ scratch' \in [Requests -> Workdir \cup {None}]
        /\ scratch'[r] # None /\ used' \in 0 .. Capacity /\ UsedOK'
        /\ \A x \in Requests : x # r => scratch'[x] = scratch[x]
        /\ scratch'[r].refs = scratch[r].refs /\ scratch'[r].commit = scratch[r].commit
        /\ scratch'[r].extras = scratch[r].extras /\ scratch'[r].home = Toolchain[i]
    BY <1>1, <1>4, <1>6, <1>7, WriteEffect
  <2>2. Truth(r)
    BY <1>1, <1>3, <1>4, <1>5, <1>7 DEF Truth, Once!IsTrueOf, MyInputs, Compile, Once!Compile
  <2> DEFINE l == [local[r] EXCEPT !.published_at = pkg, !.toolchain_version = Toolchain[i]]
  <2>3. pkg \in Pkgs /\ Toolchain[i] \in Toolchains
    BY <1>4, <1>5, <1>7
  <2> HIDE DEF pkg, i
  <2>4. /\ l \in Locals /\ l.published_at = pkg /\ l.toolchain_version = Toolchain[i]
        /\ l.git_sha = local[r].git_sha /\ l.source_hash = local[r].source_hash
    BY <1>2, <2>3 DEF ServerTypeOK, Locals
  <2>5. local' = [local EXCEPT ![r] = l]
    BY <1>2, <1>7 DEF ServerTypeOK
  <2> HIDE DEF l
  <2>6. /\ local' \in [Requests -> Locals] /\ local'[r] = l
        /\ \A x \in Requests : x # r => local'[x] = local[x]
    BY <1>2, <2>4, <2>5 DEF ServerTypeOK
  <2>7. phase'[r] = "read_toolchain"
    BY <1>2, <1>7 DEF Goto, ServerTypeOK
  <2>8. ServerTypeOK'
    BY <1>1, <1>2, <1>7, <2>1, <2>6 DEF ServerTypeOK, Goto, Phases, Running, LockInv, QueueOK
  <2>9. StepOf(r)
    BY <1>1, <1>2, <1>7, <2>1, <2>6 DEF StepOf, Same, Goto, ServerTypeOK
  <2>10. Truth(r)'
    BY <1>1, <2>2 DEF Truth, Env, Once!IsTrueOf
  <2>11. Knows(r)'
    BY <1>1, <1>2, <1>3, <1>4, <1>5, <2>1, <2>4, <2>6, <2>7, <2>10
       DEF Knows, HasDir, Cloned, CheckedOutPhases, Named, Pruned, Hashed, Verified, Answered,
           Env, MyInputs
  <2>12. Spared(r)'
    BY <1>1, <1>2, <1>7, <2>7 DEF Spared, HasDir, Cloned, Verified, Answered
  <2> QED BY <2>1, <2>8, <2>9, <2>11, <2>12, OneMoves
<1>8. CASE NoSpaceLeft(r, scratch[r], HomeSize[i]) /\ UNCHANGED local
  <2>1. /\ scratch' \in [Requests -> Workdir \cup {None}]
        /\ used' \in 0 .. Capacity /\ UsedOK'
        /\ \A x \in Requests : x # r => scratch'[x] = scratch[x]
    BY <1>1, <1>3, <1>4, <1>8, WriteEffect
  <2>2. /\ leaked + RepoSize + HomeSize[i] > Capacity
        /\ enospc' = [enospc EXCEPT ![r] = leaked]
        /\ reply' = [reply EXCEPT ![r] = Error] /\ Goto(r, "drop_workdir")
    BY <1>3, <1>8 DEF NoSpaceLeft, Fail
  <2>3. phase'[r] = "drop_workdir" /\ reply'[r] = Error
    BY <1>2, <2>2 DEF Goto, ServerTypeOK
  <2>4. ServerTypeOK'
    BY <1>1, <1>2, <1>8, <2>1, <2>2 DEF ServerTypeOK, Goto, Phases, Running, LockInv, QueueOK
  <2>5. StepOf(r)
    BY <1>1, <1>2, <1>8, <2>1, <2>2 DEF StepOf, Same, Goto, ServerTypeOK
  <2>6. Knows(r)'
    BY <1>1, <1>2, <2>3
       DEF Knows, HasDir, Cloned, CheckedOutPhases, Named, Pruned, Hashed, Verified, Answered
  <2>7. Spared(r)'
    BY <1>1, <1>2, <1>4, <2>2, <2>3
       DEF Spared, HasDir, Cloned, Verified, Answered, MyInputs, ServerTypeOK
  <2> QED BY <2>1, <2>4, <2>5, <2>6, <2>7, OneMoves
<1> QED BY <1>7, <1>8 DEF VerifySource, d

(* What r signs is the statement VerifyOnce allows. *)
LEMMA SignKeepsData ==
    ASSUME DataInv, LockInv', NEW r \in Requests, Sign(r) PROVE DataInv'
<1> DEFINE sv == [pkg_id |-> local[r].published_at, source_hash |-> local[r].source_hash,
                  git_sha |-> local[r].git_sha,
                  toolchain_version |-> local[r].toolchain_version,
                  toolchain_digest |-> local[r].toolchain_digest]
<1>1. /\ phase[r] = "sign" /\ phase[r] \in Running /\ phase[r] \in Pruned
      /\ reply' = [reply EXCEPT ![r] = sv] /\ Goto(r, "drop_workdir")
      /\ UNCHANGED <<remote, request, scratch, used, leaked, local, probe, bounds, resolved,
                     enospc>>
  BY DEF Sign, Running, Pruned, Named, CheckedOutPhases, Cloned, HasDir
<1>2. Knows(r) /\ Spared(r) /\ ServerTypeOK
  BY DEF DataInv
<1>3. Truth(r) /\ sv = Once!Statement(resolved[r], Env(r))
  BY <1>1, <1>2
     DEF Knows, Once!Statement, HasDir, Cloned, CheckedOutPhases, Named, Pruned, Hashed,
         Verified, MyInputs
<1>4. sv \in SourceVerification
  <2>1. /\ local[r].published_at = PublishedAt[MyInputs(r)][Env(r)]
        /\ local[r].published_at # None
        /\ local[r].git_sha = resolved[r] /\ local[r].source_hash = MyInputs(r)
        /\ local[r].toolchain_version = Toolchain[MyInputs(r)]
        /\ local[r].toolchain_digest = Toolchain[MyInputs(r)]
    BY <1>1, <1>2, <1>3
       DEF Knows, HasDir, Cloned, CheckedOutPhases, Named, Pruned, Hashed, Verified,
           MyInputs, Truth, Once!IsTrueOf
  <2>2. Env(r) \in Envs
    BY <1>3, PackagesAssumption DEF Truth
  <2>3. /\ local[r].published_at \in Pkgs /\ local[r].source_hash \in InputSets
        /\ local[r].git_sha \in Commits /\ local[r].toolchain_version \in Toolchains
        /\ local[r].toolchain_digest \in Toolchains
    BY <1>1, <2>1, <2>2, InputsKnown
  <2> QED BY <2>3 DEF SourceVerification
<1> HIDE DEF sv
<1>5. phase'[r] = "drop_workdir" /\ reply'[r] = sv
  BY <1>1, <1>2 DEF Goto, ServerTypeOK
<1>6. ServerTypeOK'
  BY <1>1, <1>2, <1>4 DEF ServerTypeOK, Goto, Phases, Running, LockInv, QueueOK
<1>7. StepOf(r)
  BY <1>1, <1>2 DEF StepOf, Same, Goto, ServerTypeOK
<1>8. UsedOK'
  BY <1>1 DEF UsedOK, DataInv
<1>9. Truth(r)' /\ reply'[r] = Once!Statement(resolved[r], Env(r))'
  BY <1>1, <1>3, <1>5 DEF Truth, Env, Once!IsTrueOf, Once!Statement
<1>10. Knows(r)'
  BY <1>1, <1>2, <1>5, <1>9
     DEF Knows, HasDir, Cloned, CheckedOutPhases, Named, Pruned, Hashed, Verified, Answered
<1>11. Spared(r)'
  BY <1>1, <1>2, <1>5 DEF Spared, HasDir, Cloned, Verified, Answered, MyInputs
<1> QED BY <1>6, <1>7, <1>8, <1>10, <1>11, OneMoves

LEMMA DropWorkdirKeepsData ==
    ASSUME DataInv, LockInv', NEW r \in Requests, DropWorkdir(r) PROVE DataInv'
<1>1. /\ phase[r] = "drop_workdir" /\ phase[r] \in Running
      /\ scratch' = [scratch EXCEPT ![r] = None]
      /\ \E left \in 0 .. DirSize(r) :
             used' = used - DirSize(r) + left /\ leaked' = leaked + left
      /\ Goto(r, "drop_guard")
      /\ UNCHANGED <<remote, request, local, reply, probe, bounds, resolved, enospc>>
  BY DEF DropWorkdir, Running
<1>2. Knows(r) /\ Spared(r) /\ ServerTypeOK
  BY DEF DataInv
<1>3. /\ scratch' \in [Requests -> Workdir \cup {None}]
      /\ \A x \in Requests : scratch'[x] = None
  BY <1>1, <1>2, OnlyMine DEF ServerTypeOK
<1>4. used' = leaked' /\ used' \in 0 .. Capacity
  <2>1. PICK left \in 0 .. DirSize(r) :
            used' = used - DirSize(r) + left /\ leaked' = leaked + left
    BY <1>1
  <2>2. used = leaked + DirSize(r) /\ DirSize(r) \in Nat
    BY <1>1, <1>2, OnlyMine DEF ServerTypeOK, DirSize, Workdir
  <2>3. used \in 0 .. Capacity /\ leaked \in Nat /\ Capacity \in Nat
    BY <1>2, ServerAssumption DEF ServerTypeOK
  <2> QED BY <2>1, <2>2, <2>3
<1>5. phase'[r] = "drop_guard"
  BY <1>1, <1>2 DEF Goto, ServerTypeOK
<1>6. ServerTypeOK'
  BY <1>1, <1>2, <1>3, <1>4, ServerAssumption
     DEF ServerTypeOK, Goto, Phases, Running, LockInv, QueueOK
<1>7. StepOf(r)
  BY <1>1, <1>2 DEF StepOf, Same, Goto, ServerTypeOK
<1>8. UsedOK'
  BY <1>3, <1>4 DEF UsedOK
<1>9. Knows(r)'
  BY <1>1, <1>2, <1>3, <1>5
     DEF Knows, HasDir, Cloned, CheckedOutPhases, Named, Pruned, Hashed, Verified, Answered,
         Truth, Env, Once!IsTrueOf, Once!Statement
<1>10. Spared(r)'
  BY <1>1, <1>2, <1>5 DEF Spared, HasDir, Cloned, Verified, Answered, MyInputs
<1> QED BY <1>6, <1>7, <1>8, <1>9, <1>10, OneMoves

LEMMA DropGuardKeepsData ==
    ASSUME DataInv, LockInv', NEW r \in Requests, DropGuard(r) PROVE DataInv'
<1>1. /\ phase[r] = "drop_guard" /\ Goto(r, "done")
      /\ local' = [local EXCEPT ![r] = NoLocals]
      /\ UNCHANGED <<remote, request, scratch, used, leaked, reply, probe, bounds, resolved,
                     enospc>>
  BY DEF DropGuard
<1>2. Knows(r) /\ Spared(r) /\ ServerTypeOK
  BY DEF DataInv
<1>3. NoLocals \in Locals
  BY DEF NoLocals, Locals
<1>4. phase'[r] = "done"
  BY <1>1, <1>2 DEF Goto, ServerTypeOK
<1>5. ServerTypeOK'
  BY <1>1, <1>2, <1>3 DEF ServerTypeOK, Goto, Phases, LockInv, QueueOK
<1>6. StepOf(r)
  BY <1>1, <1>2 DEF StepOf, Same, Goto, ServerTypeOK
<1>7. UsedOK'
  BY <1>1 DEF UsedOK, DataInv
<1>8. Knows(r)'
  BY <1>1, <1>2, <1>4
     DEF Knows, HasDir, Cloned, CheckedOutPhases, Named, Pruned, Hashed, Verified, Answered,
         Truth, Env, Once!IsTrueOf, Once!Statement
<1>9. Spared(r)'
  BY <1>1, <1>2, <1>4 DEF Spared, HasDir, Cloned, Verified, Answered, MyInputs
<1> QED BY <1>5, <1>6, <1>7, <1>8, <1>9, OneMoves

(* The probes and the environment touch no request. *)
LEMMA NoRequestMoves ==
    ASSUME DataInv, LockInv', ServerTypeOK',
           UNCHANGED <<request, phase, scratch, used, leaked, local, reply, resolved,
                       enospc>>
    PROVE  DataInv'
<1>1. \A r \in Requests : Same(r)
  BY DEF Same
<1>2. UsedOK'
  BY DEF UsedOK, DataInv
<1> QED BY <1>1, <1>2, SameStays DEF DataInv

LEMMA ProbesKeepData ==
    ASSUME DataInv, LockInv', NEW p \in Probes,
           ProbePoll(p) \/ \E n \in {0, Endpoints} : ProbeStart(p, n)
    PROVE  DataInv'
<1>1. ServerTypeOK
  BY DEF DataInv
<1>2. UNCHANGED <<remote, request, phase, scratch, used, leaked, local, reply, bounds, resolved,
                  enospc>>
  BY DEF ProbeStart, ProbePoll
<1>3. probe' \in [Probes -> 0 .. Endpoints \cup {None}]
  <2>1. CASE \E n \in {0, Endpoints} : ProbeStart(p, n)
    BY <1>1, <2>1, ServerAssumption DEF ServerTypeOK, ProbeStart
  <2>2. CASE ProbePoll(p)
    <3>1. probe[p] \in 0 .. Endpoints
      BY <1>1, <2>2 DEF ServerTypeOK, ProbePoll
    <3>2. (IF probe[p] = 0 THEN None ELSE probe[p] - 1) \in 0 .. Endpoints \cup {None}
      BY <3>1, ServerAssumption
    <3> QED BY <1>1, <2>2, <3>2 DEF ServerTypeOK, ProbePoll
  <2> QED BY <2>1, <2>2
<1>4. ServerTypeOK'
  BY <1>1, <1>2, <1>3 DEF ServerTypeOK, LockInv, QueueOK
<1> QED BY <1>2, <1>4, NoRequestMoves

LEMMA PushKeepsData ==
    ASSUME DataInv, LockInv', NEW rev \in Revs, NEW c \in Commits \cup {None}, Push(rev, c)
    PROVE  DataInv'
<1>1. ServerTypeOK /\ bounds.moves < MaxMoves
  BY DEF DataInv, Push
<1>2. /\ UNCHANGED <<request, phase, scratch, used, leaked, local, reply, probe, resolved, enospc>>
      /\ bounds' = [bounds EXCEPT !.moves = @ + 1]
      /\ remote' = [remote EXCEPT ![rev] = c]
  BY DEF Push
<1>3. bounds' \in [moves : 0 .. MaxMoves, crashes : 0 .. MaxCrashes]
  <2>1. bounds \in [moves : 0 .. MaxMoves, crashes : 0 .. MaxCrashes]
    BY <1>1 DEF ServerTypeOK
  <2>2. bounds' = [bounds EXCEPT !.moves = @ + 1]
    BY <1>2
  <2>3. bounds.moves + 1 \in 0 .. MaxMoves
    BY <1>1, <2>1, ServerAssumption
  <2> QED BY ONLY <2>1, <2>2, <2>3
<1>4. remote' \in [Revs -> Commits \cup {None}]
  BY <1>1, <1>2 DEF ServerTypeOK
<1>5. ServerTypeOK'
  BY <1>1, <1>2, <1>3, <1>4 DEF ServerTypeOK, LockInv, QueueOK
<1> QED BY <1>2, <1>5, NoRequestMoves

LEMMA CrashKeepsData == ASSUME DataInv, LockInv', Crash PROVE DataInv'
<1>1. /\ phase' = [r \in Requests |-> IF phase[r] \in Running \cup {"waiting"}
                                      THEN "lost" ELSE phase[r]]
      /\ reply' = [r \in Requests |-> IF phase[r] = "done" THEN reply[r] ELSE None]
      /\ scratch' = [r \in Requests |-> None] /\ used' = 0 /\ leaked' = 0
      /\ UNCHANGED <<remote, request, resolved, enospc>>
  BY DEF Crash
<1>2. ServerTypeOK /\ \A r \in Requests : Knows(r) /\ Spared(r)
  BY DEF DataInv
<1>3. ServerTypeOK'
  <2>1. phase' \in [Requests -> Phases]
    BY <1>1, <1>2 DEF ServerTypeOK, Phases
  <2>2. /\ scratch' \in [Requests -> Workdir \cup {None}]
        /\ used' \in 0 .. Capacity /\ leaked' \in 0 .. Capacity
    BY <1>1, ServerAssumption
  <2>3. local' \in [Requests -> Locals]
    BY DEF Crash, NoLocals, Locals
  <2>4. reply' \in [Requests -> SourceVerification \cup {None, Error}]
    BY <1>1, <1>2 DEF ServerTypeOK
  <2>5. probe' \in [Probes -> 0 .. Endpoints \cup {None}]
    BY DEF Crash
  <2>6. bounds' \in [moves : 0 .. MaxMoves, crashes : 0 .. MaxCrashes]
    <3>1. bounds \in [moves : 0 .. MaxMoves, crashes : 0 .. MaxCrashes]
      BY <1>2 DEF ServerTypeOK
    <3>2. bounds.crashes < MaxCrashes /\ bounds' = [bounds EXCEPT !.crashes = @ + 1]
      BY DEF Crash
    <3>3. bounds.crashes + 1 \in 0 .. MaxCrashes
      BY <3>1, <3>2, ServerAssumption
    <3> QED BY ONLY <3>1, <3>2, <3>3
  <2> QED BY <1>1, <1>2, <2>1, <2>2, <2>3, <2>4, <2>5, <2>6
          DEF ServerTypeOK, LockInv, QueueOK
<1>4. UsedOK'
  BY <1>1 DEF UsedOK
<1>5. ASSUME NEW r \in Requests PROVE Knows(r)' /\ Spared(r)'
  <2>1. /\ \/ phase'[r] = phase[r] /\ phase[r] \in {"idle", "done", "lost"}
           \/ phase'[r] = "lost" /\ phase[r] \notin {"idle", "done"}
        /\ scratch'[r] = None /\ (phase[r] = "done" => reply'[r] = reply[r])
    BY <1>1, <1>2 DEF ServerTypeOK, Phases, Running
  <2>2. Knows(r) /\ Spared(r)
    BY <1>2
  <2>3. Knows(r)'
    BY <1>1, <2>1, <2>2
       DEF Knows, HasDir, Cloned, CheckedOutPhases, Named, Pruned, Hashed, Verified, Answered,
           Truth, Env, Once!IsTrueOf, Once!Statement
  <2>4. Spared(r)'
    BY <1>1, <2>1, <2>2 DEF Spared, HasDir, Cloned, Verified, Answered, MyInputs
  <2> QED BY <2>3, <2>4
<1> QED BY <1>3, <1>4, <1>5 DEF DataInv

-----------------------------------------------------------------------------
(* The invariant holds, and what follows from it                           *)

LEMMA DataInvInductive == DataInv /\ [ServerNext]_serverVars => DataInv'
<1> SUFFICES ASSUME DataInv, [ServerNext]_serverVars PROVE DataInv'
  OBVIOUS
<1>1. LockInv'
  BY LockInvInductive DEF DataInv
<1>2. CASE UNCHANGED serverVars
  <2>1. \A r \in Requests : Same(r)
    BY <1>2 DEF Same, serverVars
  <2>2. ServerTypeOK' /\ UsedOK'
    BY <1>2 DEF serverVars, DataInv, ServerTypeOK, UsedOK
  <2> QED BY <1>1, <2>1, <2>2, SameStays DEF DataInv
<1>3. ASSUME NEW r \in Requests, Command(r) \/ Handler(r) PROVE DataInv'
  BY <1>1, <1>3, GitCloneKeepsData, GitCheckoutKeepsData, VerifySourceKeepsData,
     StepFailsKeepsData, AdmitKeepsData, CheckRequestKeepsData, GitRevParseKeepsData,
     PruneToBuildInputsKeepsData, SourceHashKeepsData, ReadToolchainKeepsData,
     SignKeepsData, DropWorkdirKeepsData, DropGuardKeepsData
     DEF Command, Handler
<1>4. ASSUME NEW r \in Requests, Cancel(r) \/ \E q \in VerifyRequest : Arrive(r, q)
      PROVE  DataInv'
  BY <1>1, <1>4, CancelKeepsData, ArriveKeepsData
<1>5. ASSUME NEW p \in Probes, ProbePoll(p) \/ \E n \in {0, Endpoints} : ProbeStart(p, n)
      PROVE  DataInv'
  BY <1>1, <1>5, ProbesKeepData
<1>6. ASSUME NEW rev \in Revs, NEW c \in Commits \cup {None}, Push(rev, c) PROVE DataInv'
  BY <1>1, <1>6, PushKeepsData
<1>7. CASE Crash
  BY <1>1, <1>7, CrashKeepsData
<1> QED BY <1>2, <1>3, <1>4, <1>5, <1>6, <1>7 DEF ServerNext

LEMMA DataInvInit == ServerInit => DataInv
<1> SUFFICES ASSUME ServerInit PROVE DataInv
  OBVIOUS
<1>1. LockInv
  BY DEF ServerInit, LockInv, QueueOK, OneAtATime, LockIsNeverOrphaned, Running, Phases
<1>2. NoLocals \in Locals
  BY DEF NoLocals, Locals
<1>3. ServerTypeOK
  BY <1>1, <1>2, ServerAssumption DEF ServerInit, ServerTypeOK, LockInv, QueueOK
<1>4. UsedOK
  BY DEF ServerInit, UsedOK
<1>5. \A r \in Requests : Knows(r) /\ Spared(r)
  BY DEF ServerInit, Knows, Spared, HasDir, Cloned, CheckedOutPhases, Named, Pruned, Hashed,
         Verified, Answered
<1> QED BY <1>1, <1>3, <1>4, <1>5 DEF DataInv

LEMMA DataInvHolds == ServerSpec => []DataInv
BY DataInvInit, DataInvInductive, PTL DEF ServerSpec

(* The server's state keeps its type: among the rest, what it signs is     *)
(* always a complete statement, and it never writes more than there is     *)
(* room for.                                                               *)
THEOREM ServerTypeCorrect == ServerSpec => []ServerTypeOK
BY DataInvHolds, PTL DEF DataInv

(* Scratch space is in use only by the request that holds VERIFY_LOCK and  *)
(* by what failed removals left: every early return, cancellation and      *)
(* crash is past its removal before the next verification can start.       *)
THEOREM ScratchIsCleanedInTime == ServerSpec => []ScratchUnderLock
<1>1. DataInv => ScratchUnderLock
  <2> SUFFICES ASSUME DataInv PROVE ScratchUnderLock
    OBVIOUS
  <2>1. \A r \in Requests : scratch[r] # None => phase[r] \in Running
    BY DEF DataInv, Knows, HasDir, Running
  <2>2. \A r \in Requests : scratch[r] # None => holder = r
    BY <2>1 DEF DataInv, LockInv, OneAtATime
  <2>3. \A r \in Requests : r # None
    BY ServerAssumption
  <2> QED BY <2>2, <2>3 DEF ScratchUnderLock, DataInv, UsedOK
<1> QED BY <1>1, DataInvHolds, PTL

(* A request that runs out of scratch space would have done so alone, with *)
(* nothing beside it but what failed removals left.                        *)
THEOREM NobodyPaysForOthers == ServerSpec => []NoSpuriousEnospc
<1>1. DataInv => NoSpuriousEnospc
  BY DEF DataInv, Spared, NoSpuriousEnospc, MyInputs, ServerTypeOK
<1> QED BY <1>1, DataInvHolds, PTL

-----------------------------------------------------------------------------
(* The server implements VerifyOnce                                        *)
(*                                                                         *)
(* A request is resolved when it is cloned, and answered when the guard is *)
(* dropped; no other step of the handler shows.                            *)

Outcome == [r \in Requests |-> CASE phase[r] = "done" -> reply[r]
                                 [] phase[r] = "lost" -> Lost
                                 [] OTHER -> None]

(* A step that lets no request end shows nothing but what it does to the   *)
(* remote, the requests and the resolutions.                               *)
LEMMA NobodyEnds ==
    ASSUME DataInv, NEW r \in Requests, NEW p \in Phases \ {"done", "lost"}, Goto(r, p),
           phase[r] \notin {"done", "lost"},
           \A x \in Requests : x # r => reply'[x] = reply[x]
    PROVE  Outcome' = Outcome
<1>1. \A x \in Requests : phase'[x] = IF x = r THEN p ELSE phase[x]
  BY DEF Goto, DataInv, ServerTypeOK
<1> QED BY <1>1 DEF Outcome

LEMMA OneEnds ==
    ASSUME DataInv, NEW r \in Requests, NEW p \in {"done", "lost"}, Goto(r, p),
           phase[r] \notin {"done", "lost"}, reply' = reply
    PROVE  /\ Outcome[r] = None
           /\ Outcome' = [Outcome EXCEPT ![r] = IF p = "done" THEN reply[r] ELSE Lost]
<1>1. \A x \in Requests : phase'[x] = IF x = r THEN p ELSE phase[x]
  BY DEF Goto, DataInv, ServerTypeOK
<1> QED BY <1>1 DEF Outcome

LEMMA HandlerImplementsOnce ==
    ASSUME DataInv, NEW r \in Requests, Command(r) \/ Handler(r)
    PROVE  [Once!OnceNext]_Once!onceVars
<1>1. ServerTypeOK /\ Knows(r)
  BY DEF DataInv
<1>2. CASE \E p \in Running : Goto(r, p) /\ phase[r] \in Running \cup {"waiting"}
                              /\ (\A x \in Requests : x # r => reply'[x] = reply[x])
                              /\ UNCHANGED <<remote, request, resolved>>
  <2>1. Outcome' = Outcome
    BY <1>2, NobodyEnds DEF Running, Phases
  <2> QED BY <1>2, <2>1 DEF Once!onceVars, Outcome
<1>3. CASE GitClone(r) /\ ~UNCHANGED resolved
  <2>1. /\ phase[r] = "clone" /\ Goto(r, "checkout")
        /\ resolved' = [resolved EXCEPT ![r] = remote[request[r].git_rev]]
        /\ UNCHANGED <<remote, request, reply>>
    BY <1>3 DEF GitClone
  <2>2. Outcome' = Outcome
    BY <2>1, NobodyEnds DEF Running, Phases
  <2>3. resolved[r] = None /\ request[r].plain /\ request[r] # None
    BY <1>1, <2>1 DEF Knows
  <2>4. remote[request[r].git_rev] # None
    BY <1>1, <1>3, <2>1, <2>3 DEF ServerTypeOK
  <2>5. Outcome[r] = None
    BY <2>1 DEF Outcome
  <2>6. Once!Resolve(r)
    BY <2>1, <2>2, <2>3, <2>4, <2>5 DEF Once!Resolve, Outcome
  <2> QED BY <2>6 DEF Once!OnceNext
<1>4. CASE DropGuard(r)
  <2>1. /\ phase[r] = "drop_guard" /\ Goto(r, "done")
        /\ UNCHANGED <<remote, request, resolved, reply>>
    BY <1>4 DEF DropGuard
  <2>2. Outcome[r] = None /\ Outcome' = [Outcome EXCEPT ![r] = reply[r]]
    BY <2>1, OneEnds
  <2>3. request[r] # None
    BY <1>1, <2>1 DEF Knows
  <2>4. CASE reply[r] = Error
    <3>1. Once!Refuse(r)
      BY <2>1, <2>2, <2>3, <2>4 DEF Once!Refuse, Outcome
    <3> QED BY <3>1 DEF Once!OnceNext
  <2>5. CASE Truth(r) /\ reply[r] = Once!Statement(resolved[r], Env(r))
    <3>1. Once!Answer(r)
      BY <2>1, <2>2, <2>5 DEF Once!Answer, Outcome, Truth, Env
    <3> QED BY <3>1 DEF Once!OnceNext
  <2> QED BY <1>1, <2>1, <2>4, <2>5 DEF Knows, Answered
<1>5. CASE GitClone(r) /\ UNCHANGED resolved
  BY <1>2, <1>5 DEF GitClone, NoSpaceLeft, Fail, Running, DataInv, ServerTypeOK
<1>6. CASE \/ Admit(r) \/ CheckRequest(r) \/ GitRevParse(r) \/ PruneToBuildInputs(r)
           \/ SourceHash(r) \/ ReadToolchain(r) \/ Sign(r) \/ StepFails(r) \/ DropWorkdir(r)
           \/ GitCheckout(r) \/ VerifySource(r)
  <2>1. CASE Admit(r) BY <1>2, <2>1 DEF Admit, Running
  <2>2. CASE CheckRequest(r) BY <1>1, <1>2, <2>2 DEF CheckRequest, Fail, Running, ServerTypeOK
  <2>3. CASE GitRevParse(r) BY <1>2, <2>3 DEF GitRevParse, Running
  <2>4. CASE PruneToBuildInputs(r)
    BY <1>1, <1>2, <2>4 DEF PruneToBuildInputs, Fail, Running, ServerTypeOK
  <2>5. CASE SourceHash(r) BY <1>2, <2>5 DEF SourceHash, Running
  <2>6. CASE ReadToolchain(r) BY <1>2, <2>6 DEF ReadToolchain, Running
  <2>7. CASE Sign(r) BY <1>1, <1>2, <2>7 DEF Sign, Running, ServerTypeOK
  <2>8. CASE StepFails(r)
    BY <1>1, <1>2, <2>8 DEF StepFails, FalliblePhases, Fail, Running, ServerTypeOK
  <2>9. CASE DropWorkdir(r) BY <1>2, <2>9 DEF DropWorkdir, Running
  <2>10. CASE GitCheckout(r) BY <1>1, <1>2, <2>10 DEF GitCheckout, Fail, Running, ServerTypeOK
  <2>11. CASE VerifySource(r)
    BY <1>1, <1>2, <2>11 DEF VerifySource, NoSpaceLeft, Fail, Running, ServerTypeOK
  <2> QED BY <1>6, <2>1, <2>2, <2>3, <2>4, <2>5, <2>6, <2>7, <2>8, <2>9, <2>10, <2>11
<1> QED BY <1>3, <1>4, <1>5, <1>6 DEF Command, Handler

LEMMA EnvironmentImplementsOnce ==
    ASSUME DataInv, ServerNext, ~\E r \in Requests : Command(r) \/ Handler(r)
    PROVE  [Once!OnceNext]_Once!onceVars
<1>1. ServerTypeOK /\ \A r \in Requests : Knows(r)
  BY DEF DataInv
<1>2. ASSUME NEW r \in Requests, NEW q \in VerifyRequest, Arrive(r, q)
      PROVE  Once!Ask(r, q) /\ q \in Once!VerifyRequest
  <2>1. PICK p \in {"check", "waiting"} : Goto(r, p)
    BY <1>2 DEF Arrive
  <2>2. /\ phase[r] = "idle" /\ request' = [request EXCEPT ![r] = q]
        /\ UNCHANGED <<remote, resolved, reply>>
    BY <1>2 DEF Arrive
  <2>3. Outcome' = Outcome
    BY <2>1, <2>2, NobodyEnds DEF Running, Phases
  <2>4. request[r] = None
    BY <1>1, <2>2 DEF Knows
  <2> QED BY <2>2, <2>3, <2>4 DEF Once!Ask, Outcome, VerifyRequest, Once!VerifyRequest
<1>3. ASSUME NEW r \in Requests, Cancel(r) PROVE Once!Lose({r})
  <2>1. phase[r] = "waiting" /\ Goto(r, "lost")
        /\ UNCHANGED <<remote, request, resolved, reply>>
    BY <1>3 DEF Cancel
  <2>2. Outcome[r] = None /\ Outcome' = [Outcome EXCEPT ![r] = Lost]
    BY <2>1, OneEnds
  <2>3. request[r] # None
    BY <1>1, <2>1 DEF Knows
  <2>4. Outcome' = [x \in Requests |-> IF x \in {r} THEN Lost ELSE Outcome[x]]
    BY <2>2 DEF Outcome
  <2> QED BY <2>1, <2>2, <2>3, <2>4 DEF Once!Lose, Outcome
<1>4. ASSUME NEW p \in Probes, ProbePoll(p) \/ \E n \in {0, Endpoints} : ProbeStart(p, n)
      PROVE  UNCHANGED Once!onceVars
  BY <1>4 DEF ProbePoll, ProbeStart, Once!onceVars
<1>5. ASSUME NEW rev \in Revs, NEW c \in Commits \cup {None}, Push(rev, c) PROVE Once!Move(rev, c)
  BY <1>5 DEF Push, Once!Move
<1>6. CASE Crash
  <2>1. PICK rs \in SUBSET Requests :
            rs = {r \in Requests : phase[r] \in Running \cup {"waiting"}}
    OBVIOUS
  <2>2. /\ \A r \in Requests : phase'[r] = IF r \in rs THEN "lost" ELSE phase[r]
        /\ \A r \in Requests : phase[r] = "done" => reply'[r] = reply[r]
        /\ UNCHANGED <<remote, request, resolved>>
    BY <1>6, <2>1 DEF Crash
  <2>3. \A r \in rs : request[r] # None /\ Outcome[r] = None
    BY <1>1, <2>1 DEF Knows, Running, Outcome
  <2>4. Outcome' = [r \in Requests |-> IF r \in rs THEN Lost ELSE Outcome[r]]
    BY <2>1, <2>2, <2>3 DEF Outcome, Running
  <2>5. Once!Lose(rs)
    BY <2>2, <2>3, <2>4 DEF Once!Lose, Outcome
  <2> QED BY <2>5 DEF Once!OnceNext
<1> QED BY <1>2, <1>3, <1>4, <1>5, <1>6 DEF ServerNext, Once!OnceNext

LEMMA StepImplementsOnce ==
    DataInv /\ [ServerNext]_serverVars => [Once!OnceNext]_Once!onceVars
<1> SUFFICES ASSUME DataInv, [ServerNext]_serverVars PROVE [Once!OnceNext]_Once!onceVars
  OBVIOUS
<1>1. CASE UNCHANGED serverVars
  BY <1>1 DEF serverVars, Once!onceVars
<1> QED BY <1>1, HandlerImplementsOnce, EnvironmentImplementsOnce

(* The server implements VerifyOnce: whatever is pushed, fails, crashes or *)
(* is cancelled meanwhile, an answer is a statement that is true of the    *)
(* one commit which the revision named at one moment after the question.   *)
THEOREM ServerImplementsVerifyOnce == ServerSpec => ImplementsVerifyOnce
<1>1. ServerInit => Once!OnceInit
  BY DEF ServerInit, Once!OnceInit
<1> QED BY <1>1, StepImplementsOnce, DataInvHolds, PTL
        DEF ServerSpec, ImplementsVerifyOnce, Once!OnceSpec
=============================================================================
