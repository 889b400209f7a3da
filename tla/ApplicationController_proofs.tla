--------------------- MODULE ApplicationController_proofs ---------------------
(***************************************************************************)
(* Proofs about ApplicationController, for every value of its constants.   *)
(***************************************************************************)
EXTENDS ApplicationController, TLAPS

-----------------------------------------------------------------------------
(* The store: a step keeps every version already written.                  *)

LogGrows ==
    \A n \in Applications :
        /\ Latest(n) <= Latest(n)'
        /\ \A v \in 0..Latest(n) : At(n, v)' = At(n, v)

\* What a write does to the log: it adds one version and keeps the others.
LEMMA WriteGrows ==
    ASSUME NEW n \in Applications, NEW entry \in Entry, StoreTypeOK, Write(n, entry)
    PROVE  StoreTypeOK' /\ LogGrows
<1>1. log \in [Applications -> Seq(Entry)]
  BY DEF StoreTypeOK
<1>2. log' = [log EXCEPT ![n] = Append(log[n], entry)]
  BY DEF Write
<1>3. log' \in [Applications -> Seq(Entry)]
  BY <1>1, <1>2
<1>4. StoreTypeOK'
  BY <1>3 DEF Write, StoreTypeOK
<1>5. ASSUME NEW a \in Applications
      PROVE  Latest(a) <= Latest(a)' /\ \A v \in 0..Latest(a) : At(a, v)' = At(a, v)
  <2>1. CASE a = n
    <3>1. log[n] \in Seq(Entry) /\ log'[n] = Append(log[n], entry)
      BY <1>1, <1>2
    <3>2. Len(log'[n]) = Len(log[n]) + 1 /\ \A v \in 1..Len(log[n]) : log'[n][v] = log[n][v]
      BY <3>1
    <3> QED  BY <2>1, <3>1, <3>2 DEF Latest, At
  <2>2. CASE a # n
    <3>1. log'[a] = log[a] /\ Len(log[a]) \in Nat
      BY <2>2, <1>1, <1>2
    <3> QED  BY <3>1 DEF Latest, At
  <2> QED  BY <2>1, <2>2
<1> QED  BY <1>4, <1>5 DEF LogGrows

\* An unchanged log grows trivially.
LEMMA SameLogGrows ==
    ASSUME StoreTypeOK, UNCHANGED log PROVE LogGrows
<1>1. \A n \in Applications : Len(log[n]) \in Nat
  BY DEF StoreTypeOK
<1> QED  BY <1>1 DEF LogGrows, Latest, At

\* The users' steps keep the store's type and its written versions.
LEMMA UserStepGrows ==
    ASSUME StoreTypeOK, UserStep PROVE StoreTypeOK' /\ LogGrows
<1>1. ASSUME NEW n \in Applications, NEW r \in Replicas,
             CreateApplication(n, r) \/ UpdateApplication(n, r)
      PROVE  StoreTypeOK' /\ LogGrows
  BY <1>1, WriteGrows, Stored(r) \in Entry DEF CreateApplication, UpdateApplication, Entry
<1>2. ASSUME NEW n \in Applications, DeleteApplication(n)
      PROVE  StoreTypeOK' /\ LogGrows
  BY <1>2, WriteGrows, Absent \in Entry DEF DeleteApplication, Entry
<1>3. ASSUME NEW p \in pods, EvictPod(p)
      PROVE  StoreTypeOK' /\ LogGrows
  BY <1>3, SameLogGrows DEF EvictPod, StoreTypeOK
<1> QED  BY <1>1, <1>2, <1>3 DEF UserStep

\* So does a create the API server accepts.
LEMMA StorePodGrows ==
    ASSUME NEW p \in Pod, StoreTypeOK, StorePod(p) PROVE StoreTypeOK' /\ LogGrows
BY SameLogGrows DEF StorePod, StoreTypeOK

-----------------------------------------------------------------------------
(* The type invariant.                                                     *)

\* The parts of TypeOK that speak of the log survive a step that only grows it.
LEMMA VersionsGrow ==
    ASSUME TypeOK, StoreTypeOK', LogGrows, UNCHANGED <<cache, pc, req, crapp>>
    PROVE  /\ \A m \in Managers, n \in Applications : cache'[m][n] <= Latest(n)'
           /\ \A m \in Managers : pc'[m] = "create" => Existed(req[m], crapp[m])'
<1>1. \A n \in Applications :
        Latest(n) \in Nat /\ Latest(n)' \in Nat /\ Latest(n) <= Latest(n)'
  BY DEF TypeOK, StoreTypeOK, Latest, LogGrows
<1>2. ASSUME NEW m \in Managers, NEW n \in Applications
      PROVE  cache'[m][n] <= Latest(n)'
  <2>1. cache'[m][n] = cache[m][n] /\ cache[m][n] \in Nat /\ cache[m][n] <= Latest(n)
    BY DEF TypeOK
  <2> QED  BY <1>1, <2>1
<1>3. ASSUME NEW m \in Managers, pc'[m] = "create"
      PROVE  Existed(req[m], crapp[m])'
  <2>1. req[m] \in Applications /\ Existed(req[m], crapp[m])
    BY <1>3 DEF TypeOK
  <2>2. At(req[m], crapp[m])' = At(req[m], crapp[m])
    BY <1>1, <2>1 DEF Existed, LogGrows
  <2> QED  BY <1>1, <2>1, <2>2 DEF Existed
<1> QED  BY <1>2, <1>3

\* The Pod a worker in its loop builds is a Pod.
LEMMA NextPodType ==
    ASSUME TypeOK, NEW m \in Managers PROVE NextPod(m) \in Pod
BY DEF TypeOK, NextPod, PodOf, Pod

\* Adding a request to a work queue leaves it a set of requests.
LEMMA EnqueueType ==
    ASSUME TypeOK, NEW m \in Managers, NEW n \in Applications, Enqueue(m, n)
    PROVE  dirty' \in [Managers -> SUBSET Applications]
<1>1. dirty[m] \cup {n} \in SUBSET Applications
  BY DEF TypeOK
<1>2. dirty' = [dirty EXCEPT ![m] = dirty[m] \cup {n}] /\ dirty \in [Managers -> SUBSET Applications]
  BY DEF TypeOK, Enqueue
<1> QED  BY <1>1, <1>2

\* It drops no request, and the one it adds is in.
LEMMA EnqueueGrows ==
    ASSUME TypeOK, NEW m \in Managers, NEW n \in Applications, Enqueue(m, n)
    PROVE  n \in dirty'[m] /\ \A k \in Managers : dirty[k] \subseteq dirty'[k]
<1>1. dirty' = [dirty EXCEPT ![m] = dirty[m] \cup {n}] /\ dirty \in [Managers -> SUBSET Applications]
  BY DEF TypeOK, Enqueue
<1>2. dirty'[m] = dirty[m] \cup {n} /\ \A k \in Managers \ {m} : dirty'[k] = dirty[k]
  BY <1>1
<1> QED  BY <1>2

\* A worker that returns, for whatever reason, leaves everything well typed.
LEMMA ReleaseType ==
    ASSUME TypeOK, NEW m \in Managers, Release(m), UNCHANGED <<storeVars, cache>>
    PROVE  /\ pc' \in [Managers -> {"idle", "get", "create"}]
           /\ req' \in [Managers -> Applications]
           /\ crapp' \in [Managers -> Nat]
           /\ i' \in [Managers -> Nat]
           /\ \A k \in Managers : pc'[k] = "create" => Existed(req[k], crapp[k])'
           /\ UNCHANGED req
           /\ StoreTypeOK'
           /\ \A k \in Managers, n \in Applications : cache'[k][n] <= Latest(n)'
BY DEF TypeOK, StoreTypeOK, Release, storeVars, Latest, Existed, At

\* Every step keeps the types and the versions already written.
LEMMA TypeStep ==
    ASSUME TypeOK, [Next]_vars PROVE TypeOK' /\ LogGrows
<1>0. StoreTypeOK
  BY DEF TypeOK
<1>1. ASSUME Users PROVE TypeOK' /\ LogGrows
  <2>1. StoreTypeOK' /\ LogGrows
    BY <1>0, <1>1, UserStepGrows DEF Users
  <2>2. UNCHANGED <<managerVars, queueVars, workerVars, late, reconciled, faults>>
    BY <1>1 DEF Users
  <2> QED
    BY <2>1, <2>2, VersionsGrow DEF TypeOK, managerVars, queueVars, workerVars
<1>2. ASSUME NEW m \in Managers, Start(m) PROVE TypeOK' /\ LogGrows
  <2>1. PICK snapshot \in Snapshots : StartController(m, snapshot)
    BY <1>2 DEF Start
  <2>2. snapshot \in [Applications -> Nat] /\ \A n \in Applications : snapshot[n] <= Latest(n)
    BY MaxEditsAssumption DEF Snapshots
  <2>3. UNCHANGED <<storeVars, backoff, workerVars, late, faults>>
    BY <2>1 DEF StartController
  <2>4. StoreTypeOK' /\ UNCHANGED log
    BY <1>0, <2>3 DEF StoreTypeOK, storeVars
  <2>5. /\ cache' \in [Managers -> [Applications -> Nat]]
        /\ \A k \in Managers, n \in Applications : cache'[k][n] <= Latest(n)'
    BY <2>1, <2>2, <2>4 DEF StartController, TypeOK, Latest
  <2>6. /\ dirty' \in [Managers -> SUBSET Applications]
        /\ reconciled' \in [Managers -> [Applications -> Nat]]
        /\ running' \subseteq Managers /\ lease' \subseteq Managers
    BY <2>1 DEF StartController, TypeOK
  <2> QED
    BY <2>3, <2>4, <2>5, <2>6, SameLogGrows, <1>0 DEF TypeOK, workerVars, Latest, Existed, At
<1>3. ASSUME NEW m \in Managers, StopManager(m) PROVE TypeOK' /\ LogGrows
  <2>1. Release(m) /\ UNCHANGED <<storeVars, lease, cache, reconciled>>
    BY <1>3 DEF StopManager
  <2>2. late' \subseteq Pod
    <3>1. late \subseteq Pod /\ (late' = late \/ late' = late \cup {NextPod(m)})
      BY <1>3 DEF StopManager, MayArrive, TypeOK
    <3> QED  BY <3>1, NextPodType
  <2>3. /\ running' \subseteq Managers
        /\ dirty' \in [Managers -> SUBSET Applications]
        /\ backoff' \in [Managers -> SUBSET Applications]
        /\ faults' \in Nat
    BY <1>3 DEF StopManager, TypeOK, Fault
  <2> QED
    BY <1>0, <2>1, <2>2, <2>3, ReleaseType, SameLogGrows DEF TypeOK, storeVars
<1>4. ASSUME NEW m \in Managers, ExpireLease(m) PROVE TypeOK' /\ LogGrows
  <2>1. /\ UNCHANGED <<storeVars, running, cache, queueVars, workerVars, late, reconciled>>
        /\ lease' \subseteq Managers /\ faults' \in Nat
    BY <1>4 DEF ExpireLease, Fault, TypeOK, queueVars
  <2>2. StoreTypeOK' /\ UNCHANGED log
    BY <1>0, <2>1 DEF StoreTypeOK, storeVars
  <2> QED
    BY <2>1, <2>2, SameLogGrows DEF TypeOK, queueVars, workerVars, Latest, Existed, At
<1>5. ASSUME NEW m \in Managers, NEW n \in Applications, Watch(m, n)
      PROVE  TypeOK' /\ LogGrows
  <2>1. PICK v \in 1..MaxEdits : WatchEvent(m, n, v)
    BY <1>5 DEF Watch
  <2>2. UNCHANGED <<storeVars, managerVars, backoff, workerVars, late, reconciled, faults>>
    BY <2>1 DEF WatchEvent
  <2>3. StoreTypeOK' /\ UNCHANGED log
    BY <1>0, <2>2 DEF StoreTypeOK, storeVars
  <2>4. v \in Nat /\ v <= Latest(n) /\ cache' = [cache EXCEPT ![m][n] = v]
    BY <2>1, MaxEditsAssumption, <1>0 DEF WatchEvent, StoreTypeOK, Latest, TypeOK
  <2>5. /\ cache' \in [Managers -> [Applications -> Nat]]
        /\ \A k \in Managers, a \in Applications : cache'[k][a] <= Latest(a)'
    BY <2>3, <2>4 DEF TypeOK, Latest
  <2>6. dirty' \in [Managers -> SUBSET Applications]
    BY <2>1, EnqueueType DEF WatchEvent, TypeOK
  <2> QED
    BY <1>0, <2>2, <2>3, <2>5, <2>6, SameLogGrows DEF TypeOK, managerVars, workerVars, Latest, Existed, At
<1>6. ASSUME NEW m \in Managers, NEW n \in Applications,
             Resync(m, n) \/ BackoffExpires(m, n)
      PROVE  TypeOK' /\ LogGrows
  <2>1. /\ Enqueue(m, n)
        /\ UNCHANGED <<storeVars, managerVars, cache, workerVars, late, reconciled, faults>>
        /\ \/ UNCHANGED backoff
           \/ backoff' = [backoff EXCEPT ![m] = backoff[m] \ {n}]
    BY <1>6 DEF Resync, BackoffExpires
  <2>2. dirty' \in [Managers -> SUBSET Applications]
    BY <2>1, EnqueueType
  <2>3. backoff \in [Managers -> SUBSET Applications]
    BY DEF TypeOK
  <2>4. backoff[m] \ {n} \in SUBSET Applications
    BY <2>3
  <2>5. backoff' \in [Managers -> SUBSET Applications]
    <3>1. CASE UNCHANGED backoff
      BY <2>3, <3>1
    <3>2. CASE backoff' = [backoff EXCEPT ![m] = backoff[m] \ {n}]
      BY <2>3, <2>4, <3>2
    <3> QED  BY <2>1, <3>1, <3>2
  <2>6. StoreTypeOK' /\ UNCHANGED log
    BY <1>0, <2>1 DEF StoreTypeOK, storeVars
  <2> QED
    BY <2>1, <2>2, <2>5, <2>6, SameLogGrows
    DEF TypeOK, managerVars, workerVars, Latest, Existed, At
<1>7. ASSUME NEW m \in Managers, NEW n \in Applications, Dequeue(m, n)
      PROVE  TypeOK' /\ LogGrows
  BY <1>0, <1>7, SameLogGrows
  DEF Dequeue, TypeOK, StoreTypeOK, storeVars, managerVars, Latest, Existed, At
<1>8. ASSUME NEW m \in Managers, GetFound(m) PROVE TypeOK' /\ LogGrows
  <2>1. UNCHANGED <<storeVars, managerVars, queueVars, req, late, reconciled, faults>>
    BY <1>8 DEF GetFound
  <2>2. StoreTypeOK' /\ UNCHANGED log
    BY <1>0, <2>1 DEF StoreTypeOK, storeVars
  <2>3. req[m] \in Applications /\ cache[m][req[m]] \in Nat /\ cache[m][req[m]] <= Latest(req[m])
    BY DEF TypeOK
  <2>4. cache[m][req[m]] # 0
    BY <1>8 DEF GetFound, Found, At, Absent
  <2>5. Existed(req[m], cache[m][req[m]])
    BY <1>0, <1>8, <2>3, <2>4 DEF StoreTypeOK, Latest, Existed, GetFound, Found
  <2>6. /\ pc' \in [Managers -> {"idle", "get", "create"}]
        /\ crapp' \in [Managers -> Nat]
        /\ i' \in [Managers -> Nat]
    BY <1>8, <2>3 DEF GetFound, TypeOK
  <2>7. ASSUME NEW k \in Managers, pc'[k] = "create" PROVE Existed(req[k], crapp[k])'
    <3>1. CASE k = m  BY <1>8, <2>1, <2>2, <2>5, <3>1 DEF GetFound, TypeOK, Latest, Existed, At
    <3>2. CASE k # m  BY <1>8, <2>1, <2>2, <2>7, <3>2 DEF GetFound, TypeOK, Latest, Existed, At
    <3> QED  BY <3>1, <3>2
  <2> QED
    BY <1>0, <2>1, <2>2, <2>6, <2>7, SameLogGrows DEF TypeOK, managerVars, queueVars, Latest, Existed, At
<1>9. ASSUME NEW m \in Managers,
             GetNotFound(m) \/ GetFails(m) \/ CreateExists(m) \/ CreateForbidden(m) \/ CreateFails(m)
      PROVE  TypeOK' /\ LogGrows
  <2>1. Release(m) /\ UNCHANGED <<storeVars, managerVars, cache, dirty, reconciled>>
    BY <1>9 DEF GetNotFound, GetFails, CreateExists, CreateForbidden, CreateFails,
                ReturnNil, ReturnError
  <2>2. backoff' \in [Managers -> SUBSET Applications]
    BY <1>9 DEF GetNotFound, GetFails, CreateExists, CreateForbidden, CreateFails,
                ReturnNil, ReturnError, TypeOK
  <2>3. late' \subseteq Pod
    BY <1>9, NextPodType
    DEF GetNotFound, GetFails, CreateExists, CreateForbidden, CreateFails, MayArrive, TypeOK
  <2>4. faults' \in Nat
    BY <1>9 DEF GetNotFound, GetFails, CreateExists, CreateForbidden, CreateFails, Fault, TypeOK
  <2> QED
    BY <1>0, <2>1, <2>2, <2>3, <2>4, ReleaseType, SameLogGrows DEF TypeOK, storeVars, managerVars
<1>10. ASSUME NEW m \in Managers, CreatePod(m) PROVE TypeOK' /\ LogGrows
  <2>1. StoreTypeOK' /\ LogGrows
    BY <1>0, <1>10, NextPodType, StorePodGrows DEF CreatePod
  <2>2. UNCHANGED <<managerVars, queueVars, pc, req, crapp, late, reconciled, faults>>
    BY <1>10 DEF CreatePod
  <2>3. i' \in [Managers -> Nat]
    BY <1>10 DEF CreatePod, TypeOK
  <2> QED
    BY <2>1, <2>2, <2>3, VersionsGrow DEF TypeOK, managerVars, queueVars
<1>11. ASSUME NEW m \in Managers, Finish(m) PROVE TypeOK' /\ LogGrows
  <2>1. /\ Release(m)
        /\ UNCHANGED <<storeVars, managerVars, cache, dirty, backoff, late, faults>>
    BY <1>11 DEF Finish, ReturnNil
  <2>2. reconciled' \in [Managers -> [Applications -> Nat]]
    BY <1>11 DEF Finish, TypeOK
  <2> QED
    BY <1>0, <2>1, <2>2, ReleaseType, SameLogGrows DEF TypeOK, storeVars, managerVars
<1>12. ASSUME NEW p \in late, LateCreate(p) PROVE TypeOK' /\ LogGrows
  <2>1. p \in Pod /\ late' \subseteq Pod
    BY <1>12 DEF LateCreate, TypeOK
  <2>2. StoreTypeOK' /\ LogGrows
    BY <1>0, <1>12, <2>1, StorePodGrows, SameLogGrows DEF LateCreate, storeVars, StoreTypeOK
  <2>3. UNCHANGED <<managerVars, queueVars, workerVars, reconciled, faults>>
    BY <1>12 DEF LateCreate
  <2> QED
    BY <2>1, <2>2, <2>3, VersionsGrow DEF TypeOK, managerVars, queueVars, workerVars
<1>13. ASSUME UNCHANGED vars PROVE TypeOK' /\ LogGrows
  BY <1>0, <1>13, SameLogGrows
  DEF vars, storeVars, managerVars, queueVars, workerVars, TypeOK, StoreTypeOK, Latest, Existed, At
<1> QED
  BY <1>1, <1>2, <1>3, <1>4, <1>5, <1>6, <1>7, <1>8, <1>9, <1>10, <1>11, <1>12, <1>13
  DEF Next, Work

\* The type invariant holds at the start.
LEMMA TypeInit == Init => TypeOK
BY ApplicationsAssumption
DEF Init, StoreInit, TypeOK, StoreTypeOK, Latest

\* Type correctness, with the bounds that matter: no cache and no worker is ahead
\* of the store, and a worker in its loop has a version that exists.
THEOREM TypeCorrect == Spec => []TypeOK
<1>1. TypeOK /\ [Next]_vars => TypeOK'
  BY TypeStep
<1> QED  BY TypeInit, <1>1, PTL DEF Spec

-----------------------------------------------------------------------------
(* What a step can do to the Pods, to the creates under way and to the     *)
(* workers: the frame the invariants below are proved from.                *)

\* The Pods that may come to exist or to be under way in one step.
Candidates == late \cup {NextPod(m) : m \in {k \in Managers : Creating(k)}}

\* The worker of m does not move on.
SameWorker(m) ==
    pc'[m] = pc[m] /\ req'[m] = req[m] /\ crapp'[m] = crapp[m] /\ i'[m] = i[m]

\* The worker of m is out of its loop, or at the loop's start.
AtStart(m) == pc'[m] # "create" \/ i'[m] = 0

\* The worker of m has made its Pod and goes on to the next.
Advanced(m) ==
    /\ Creating(m)
    /\ pc'[m] = pc[m] /\ req'[m] = req[m] /\ crapp'[m] = crapp[m] /\ i'[m] = i[m] + 1
    /\ StorePod(NextPod(m))
    /\ UNCHANGED late

Frame ==
    /\ created \subseteq created' /\ created' \subseteq created \cup Candidates
    /\ late' \subseteq late \cup Candidates
    /\ \A m \in Managers : SameWorker(m) \/ AtStart(m) \/ Advanced(m)

\* A step that leaves the store and the late creates alone and one worker idle.
LEMMA ReturnFrame ==
    ASSUME TypeOK, NEW m \in Managers, Release(m), UNCHANGED storeVars,
           late' \subseteq late \cup Candidates
    PROVE  Frame
<1>1. UNCHANGED created
  BY DEF storeVars
<1>2. ASSUME NEW k \in Managers PROVE SameWorker(k) \/ AtStart(k)
  BY DEF TypeOK, Release, SameWorker, AtStart
<1> QED  BY <1>1, <1>2 DEF Frame

\* A step of some other part of the system.
LEMMA OtherFrame ==
    ASSUME UNCHANGED workerVars, late' \subseteq late,
           created \subseteq created', created' \subseteq created \cup late
    PROVE  Frame
BY DEF Frame, Candidates, workerVars, SameWorker

\* Every step stays within the frame.
LEMMA StepFrame == ASSUME TypeOK, [Next]_vars PROVE Frame
<1>1. ASSUME Users PROVE Frame
  BY <1>1, OtherFrame
  DEF Users, UserStep, CreateApplication, UpdateApplication, DeleteApplication, EvictPod, Write
<1>2. ASSUME NEW m \in Managers, Start(m) \/ ExpireLease(m) PROVE Frame
  BY <1>2, OtherFrame DEF Start, StartController, ExpireLease, storeVars
<1>3. ASSUME NEW m \in Managers, StopManager(m) PROVE Frame
  <2>1. late' \subseteq late \cup Candidates
    BY <1>3 DEF StopManager, MayArrive, Candidates, Creating
  <2> QED  BY <1>3, <2>1, ReturnFrame DEF StopManager
<1>4. ASSUME NEW m \in Managers, NEW n \in Applications,
             Watch(m, n) \/ Resync(m, n) \/ BackoffExpires(m, n)
      PROVE  Frame
  BY <1>4, OtherFrame DEF Watch, WatchEvent, Resync, BackoffExpires, storeVars
<1>5. ASSUME NEW m \in Managers, NEW n \in Applications, Dequeue(m, n) PROVE Frame
  BY <1>5 DEF Dequeue, storeVars, TypeOK, Frame, SameWorker, AtStart
<1>6. ASSUME NEW m \in Managers, GetFound(m) PROVE Frame
  BY <1>6 DEF GetFound, storeVars, TypeOK, Frame, SameWorker, AtStart
<1>7. ASSUME NEW m \in Managers,
             GetNotFound(m) \/ GetFails(m) \/ CreateExists(m) \/ CreateForbidden(m)
             \/ CreateFails(m) \/ Finish(m)
      PROVE  Frame
  <2>1. Release(m) /\ UNCHANGED storeVars
    BY <1>7 DEF GetNotFound, GetFails, CreateExists, CreateForbidden, CreateFails, Finish,
                ReturnNil, ReturnError
  <2>2. late' \subseteq late \cup Candidates
    BY <1>7 DEF GetNotFound, GetFails, CreateExists, CreateForbidden, CreateFails, Finish,
                MayArrive, Candidates
  <2> QED  BY <2>1, <2>2, ReturnFrame
<1>8. ASSUME NEW m \in Managers, CreatePod(m) PROVE Frame
  <2>1. Creating(m) /\ StorePod(NextPod(m)) /\ UNCHANGED <<pc, req, crapp, late>>
    BY <1>8 DEF CreatePod
  <2>2. NextPod(m) \in Candidates
    BY <2>1 DEF Candidates
  <2>3. created' = created \cup {NextPod(m)}
    BY <2>1 DEF StorePod
  <2>4. ASSUME NEW k \in Managers PROVE SameWorker(k) \/ Advanced(k)
    BY <1>8, <2>1 DEF CreatePod, TypeOK, SameWorker, Advanced
  <2> QED  BY <2>1, <2>2, <2>3, <2>4 DEF Frame
<1>9. ASSUME NEW p \in late, LateCreate(p) PROVE Frame
  BY <1>9, OtherFrame DEF LateCreate, StorePod, storeVars
<1>10. ASSUME UNCHANGED vars PROVE Frame
  BY <1>10, OtherFrame DEF vars, storeVars
<1> QED
  BY <1>1, <1>2, <1>3, <1>4, <1>5, <1>6, <1>7, <1>8, <1>9, <1>10 DEF Next, Work

-----------------------------------------------------------------------------
(* Every Pod was asked for, and made in order.                             *)

AskedFor(p) ==
    /\ p.from \in 1..Latest(p.app)
    /\ p.ordinal < At(p.app, p.from).replicas

\* The Pod before p, if there is one, was made.
Ordered(p) == p.ordinal > 0 => PodOf(p.app, p.ordinal - 1, p.from) \in created

\* PodsWereAsked is not inductive: a create may be applied long after it was sent,
\* and its order rests on what the loop has done before.
PodsInv ==
    /\ \A p \in created \cup late : AskedFor(p) /\ Ordered(p)
    /\ \A m \in Managers :
        pc[m] = "create" /\ i[m] > 0 => PodOf(req[m], i[m] - 1, crapp[m]) \in created

\* What a worker is about to create is asked for and in order.
LEMMA NextPodAsked ==
    ASSUME TypeOK, PodsInv, NEW m \in Managers, Creating(m)
    PROVE  NextPod(m) \in Pod /\ AskedFor(NextPod(m)) /\ Ordered(NextPod(m))
<1>1. crapp[m] \in 1..Latest(req[m]) /\ i[m] < At(req[m], crapp[m]).replicas
  BY DEF TypeOK, Creating, Existed, MorePods
<1>2. i[m] > 0 => PodOf(req[m], i[m] - 1, crapp[m]) \in created
  BY DEF PodsInv, Creating
<1> QED  BY <1>1, <1>2, NextPodType DEF NextPod, PodOf, AskedFor, Ordered

\* Every step keeps what is known of the Pods.
LEMMA PodsStep == ASSUME TypeOK, PodsInv, [Next]_vars PROVE PodsInv'
<1>1. Frame /\ LogGrows /\ TypeOK'
  BY StepFrame, TypeStep
<1>2. ASSUME NEW p \in Pod, AskedFor(p), Ordered(p) PROVE AskedFor(p)' /\ Ordered(p)'
  <2>1. p.app \in Applications /\ Latest(p.app) \in Nat /\ Latest(p.app)' \in Nat
    BY <1>1 DEF Pod, TypeOK, StoreTypeOK, Latest
  <2>2. Latest(p.app) <= Latest(p.app)' /\ At(p.app, p.from)' = At(p.app, p.from)
    BY <1>1, <1>2, <2>1 DEF LogGrows, AskedFor
  <2> QED  BY <1>1, <1>2, <2>1, <2>2 DEF AskedFor, Ordered, Frame, PodOf
<1>3. ASSUME NEW p \in created' \cup late' PROVE AskedFor(p)' /\ Ordered(p)'
  <2>1. CASE p \in created \cup late
    <3>1. p \in Pod /\ AskedFor(p) /\ Ordered(p)
      BY <2>1 DEF PodsInv, TypeOK, StoreTypeOK
    <3> QED  BY <3>1, <1>2
  <2>2. CASE \E m \in Managers : Creating(m) /\ p = NextPod(m)
    BY <2>2, NextPodAsked, <1>2
  <2> QED  BY <1>1, <2>1, <2>2 DEF Frame, Candidates
<1>4. ASSUME NEW m \in Managers, pc'[m] = "create", i'[m] > 0
      PROVE  PodOf(req'[m], i'[m] - 1, crapp'[m]) \in created'
  <2>1. CASE SameWorker(m)
    BY <1>1, <1>4, <2>1 DEF SameWorker, PodsInv, Frame
  <2>2. CASE AtStart(m)
    BY <1>4, <2>2 DEF AtStart
  <2>3. CASE Advanced(m)
    <3>1. PodOf(req'[m], i'[m] - 1, crapp'[m]) = NextPod(m)
      BY <2>3 DEF Advanced, NextPod, PodOf, TypeOK
    <3> QED  BY <2>3, <3>1 DEF Advanced, StorePod
  <2> QED  BY <1>1, <2>1, <2>2, <2>3 DEF Frame
<1>5. ASSUME NEW m \in Managers
      PROVE  (pc[m] = "create" /\ i[m] > 0 => PodOf(req[m], i[m] - 1, crapp[m]) \in created)'
  BY <1>4 DEF PodOf
<1> QED  BY <1>3, <1>5 DEF PodsInv

\* At the start there are no Pods.
LEMMA PodsInvInit == Init => PodsInv
BY DEF Init, StoreInit, PodsInv

\* PodsWereAsked for every number of managers, faults and edits.
THEOREM AskedAlways == Spec => []PodsWereAsked
<1>1. TypeOK /\ PodsInv /\ [Next]_vars => TypeOK' /\ PodsInv'
  BY TypeStep, PodsStep
<1>2. PodsInv => PodsWereAsked
  BY DEF PodsInv, AskedFor, PodsWereAsked
<1> QED  BY TypeInit, PodsInvInit, <1>1, <1>2, PTL DEF Spec

-----------------------------------------------------------------------------
(* The controller implements ApplicationPods.                              *)

\* The two modules read the store alike.
LEMMA SameStore ==
    /\ \A n, v : Abstract!At(n, v) = At(n, v)
    /\ \A n : Abstract!Latest(n) = Latest(n)
    /\ \A n, k, v : Abstract!PodOf(n, k, v) = PodOf(n, k, v)
    /\ \A p : Abstract!StorePod(p) <=> StorePod(p)
    /\ Abstract!UserStep <=> UserStep
    /\ Abstract!StoreInit <=> StoreInit
    /\ Abstract!storeVars = storeVars
BY DEF Abstract!At, At, Abstract!Absent, Absent, Abstract!Latest, Latest, Abstract!PodOf, PodOf,
       Abstract!StorePod, StorePod, Abstract!NameTaken, NameTaken, Abstract!SameName, SameName,
       Abstract!UserStep, UserStep, Abstract!CreateApplication, CreateApplication,
       Abstract!UpdateApplication, UpdateApplication, Abstract!DeleteApplication, DeleteApplication,
       Abstract!EvictPod, EvictPod, Abstract!Write, Write, Abstract!Stored, Stored,
       Abstract!StoreInit, StoreInit, Abstract!storeVars, storeVars

\* Storing a Pod that was asked for, in order, is a step of ApplicationPods.
LEMMA StoreAsked ==
    ASSUME TypeOK, NEW p \in Pod, AskedFor(p), Ordered(p), StorePod(p)
    PROVE  Abstract!AbstractNext
<1>1. /\ p.app \in Applications /\ p.ordinal \in Nat
      /\ p.from \in 1..Latest(p.app)
      /\ PodOf(p.app, p.ordinal, p.from) = p
  BY DEF Pod, PodOf, AskedFor
<1>2. At(p.app, p.from) \in Entry
  <2>1. log[p.app] \in Seq(Entry) /\ p.from \in 1..Len(log[p.app])
    BY <1>1 DEF TypeOK, StoreTypeOK, Latest
  <2> QED  BY <2>1 DEF At
<1>3. At(p.app, p.from).replicas \in Int
  <2>1. CASE At(p.app, p.from) = Absent
    BY <2>1 DEF Absent
  <2>2. CASE \E r \in Replicas : At(p.app, p.from) = Stored(r)
    <3>1. PICK r \in Replicas : At(p.app, p.from) = Stored(r)
      BY <2>2
    <3>2. Stored(r).replicas = r
      BY DEF Stored
    <3> QED  BY <3>1, <3>2, ReplicasAssumption
  <2> QED  BY <1>2, <2>1, <2>2 DEF Entry
<1>4. p.ordinal \in Abstract!Ordinals(p.app, p.from)
  BY <1>1, <1>3, SameStore DEF AskedFor, Abstract!Ordinals
<1>5. Abstract!AddPod(p.app, p.ordinal, p.from)
  BY <1>1, SameStore DEF Abstract!AddPod, Ordered
<1> QED
  BY <1>1, <1>4, <1>5, SameStore DEF Abstract!AbstractNext

\* Every step adds a Pod as ApplicationPods allows, or leaves the Pods alone.
LEMMA AbstractStep ==
    ASSUME TypeOK, PodsInv, [Next]_vars
    PROVE  Abstract!AbstractNext \/ UNCHANGED storeVars
<1>1. CASE Users
  BY <1>1, SameStore DEF Users, Abstract!AbstractNext
<1>2. ASSUME NEW m \in Managers, CreatePod(m) PROVE Abstract!AbstractNext
  BY <1>2, NextPodAsked, StoreAsked DEF CreatePod
<1>3. ASSUME NEW p \in late, LateCreate(p) PROVE Abstract!AbstractNext \/ UNCHANGED storeVars
  <2>1. p \in Pod /\ AskedFor(p) /\ Ordered(p)
    BY DEF TypeOK, PodsInv
  <2> QED  BY <1>3, <2>1, StoreAsked DEF LateCreate
<1>4. ASSUME NEW m \in Managers,
             \/ Start(m) \/ StopManager(m) \/ ExpireLease(m)
             \/ GetFound(m) \/ GetNotFound(m) \/ GetFails(m)
             \/ CreateExists(m) \/ CreateForbidden(m) \/ CreateFails(m) \/ Finish(m)
      PROVE  UNCHANGED storeVars
  BY <1>4
  DEF Start, StartController, StopManager, ExpireLease, GetFound, GetNotFound, GetFails,
      CreateExists, CreateForbidden, CreateFails, Finish, storeVars
<1>5. ASSUME NEW m \in Managers, NEW n \in Applications,
             Watch(m, n) \/ Resync(m, n) \/ BackoffExpires(m, n) \/ Dequeue(m, n)
      PROVE  UNCHANGED storeVars
  BY <1>5 DEF Watch, WatchEvent, Resync, BackoffExpires, Dequeue, storeVars
<1>6. CASE UNCHANGED vars
  BY <1>6 DEF vars
<1> QED
  BY <1>1, <1>2, <1>3, <1>4, <1>5, <1>6 DEF Next, Work

\* Whatever the managers do, the Pods they make are added one at a time, under a
\* free name, asked for by a version and in the order of their ordinals.
THEOREM Implements == Spec => AddsPodsOnly
<1>1. Init => Abstract!StoreInit
  BY SameStore DEF Init
<1>2. TypeOK /\ PodsInv /\ [Next]_vars => TypeOK' /\ PodsInv'
  BY TypeStep, PodsStep
<1>3. TypeOK /\ PodsInv /\ [Next]_vars => [Abstract!AbstractNext]_(Abstract!storeVars)
  BY AbstractStep, SameStore DEF storeVars, Abstract!storeVars
<1> QED
  BY TypeInit, PodsInvInit, <1>1, <1>2, <1>3, PTL
  DEF Spec, AddsPodsOnly, Abstract!AbstractSpec

-----------------------------------------------------------------------------
(* No update is lost: NoLostUpdate is inductive with TypeOK.               *)

\* What m knows of n stays kept when nothing of it changes but the queues grow.
LEMMA KeptStays ==
    ASSUME TypeOK, LogGrows, NEW m \in Managers, NEW n \in Applications, Kept(m, n),
           cache'[m][n] = cache[m][n], reconciled'[m][n] = reconciled[m][n], SameWorker(m),
           dirty[m] \cup backoff[m] \subseteq dirty'[m] \cup backoff'[m]
    PROVE  Kept(m, n)'
<1>1. At(n, cache[m][n])' = At(n, cache[m][n])
  BY DEF TypeOK, StoreTypeOK, LogGrows, Latest, At
<1> QED  BY <1>1 DEF Kept, Serving, SameWorker

\* A step of another manager, of a user or of the API server touches none of it.
LEMMA KeptElsewhere ==
    ASSUME TypeOK, LogGrows, NEW m \in Managers, NEW n \in Applications, Kept(m, n),
           cache'[m] = cache[m], reconciled'[m] = reconciled[m], SameWorker(m),
           dirty'[m] = dirty[m], backoff'[m] = backoff[m]
    PROVE  Kept(m, n)'
BY KeptStays

\* A run that returns an error has its request put back; the others keep theirs.
LEMMA KeptOnError ==
    ASSUME TypeOK, LogGrows, NEW m \in Managers, NEW n \in Applications, Kept(m, n),
           ReturnError(m), pc[m] # "idle", UNCHANGED <<log, cache, dirty, reconciled>>
    PROVE  Kept(m, n)'
<1>1. At(n, cache[m][n])' = At(n, cache[m][n])
  BY DEF At
<1>2. backoff'[m] = backoff[m] \cup {req[m]} /\ pc'[m] = "idle" /\ dirty'[m] = dirty[m]
  BY DEF ReturnError, Release, TypeOK
<1> QED  BY <1>1, <1>2 DEF Kept, Serving

\* Every step keeps the request.
LEMMA NoLostStep == ASSUME TypeOK, NoLostUpdate, [Next]_vars PROVE NoLostUpdate'
<1> SUFFICES ASSUME NEW m \in running', NEW n \in Applications PROVE Kept(m, n)'
  BY DEF NoLostUpdate
<1>0. LogGrows /\ TypeOK' /\ m \in Managers
  BY TypeStep DEF TypeOK
<1>1. ASSUME m \in running, Users \/ (\E p \in late : LateCreate(p)) \/ UNCHANGED vars
      PROVE  Kept(m, n)'
  BY <1>0, <1>1, KeptElsewhere
  DEF NoLostUpdate, Users, LateCreate, vars, queueVars, workerVars, SameWorker
<1>2. ASSUME NEW k \in Managers, Start(k) PROVE Kept(m, n)'
  <2>1. PICK snapshot \in Snapshots : StartController(k, snapshot)
    BY <1>2 DEF Start
  <2>2. CASE k = m
    <3>1. cache'[m][n] = snapshot[n] /\ UNCHANGED log
      BY <2>1, <2>2 DEF StartController, TypeOK, storeVars
    <3>2. At(n, snapshot[n]).exists => n \in dirty'[m]
      BY <2>1, <2>2 DEF StartController, TypeOK
    <3>3. At(n, cache[m][n])' = At(n, snapshot[n])
      BY <3>1 DEF At
    <3> QED  BY <3>2, <3>3 DEF Kept
  <2>3. CASE k # m
    <3>1. m \in running
      BY <2>1, <2>3 DEF StartController
    <3>2. /\ cache'[m] = cache[m] /\ reconciled'[m] = reconciled[m] /\ dirty'[m] = dirty[m]
          /\ backoff'[m] = backoff[m] /\ SameWorker(m)
      BY <1>0, <2>1, <2>3 DEF StartController, TypeOK, workerVars, SameWorker
    <3> QED  BY <1>0, <3>1, <3>2, KeptElsewhere DEF NoLostUpdate
  <2> QED  BY <2>2, <2>3
<1>3. ASSUME NEW k \in Managers, StopManager(k) PROVE Kept(m, n)'
  <2>1. m \in running /\ k # m
    BY <1>3 DEF StopManager
  <2>2. /\ cache'[m] = cache[m] /\ reconciled'[m] = reconciled[m] /\ dirty'[m] = dirty[m]
        /\ backoff'[m] = backoff[m] /\ SameWorker(m)
    BY <1>0, <1>3, <2>1 DEF StopManager, Release, TypeOK, SameWorker
  <2> QED  BY <1>0, <2>1, <2>2, KeptElsewhere DEF NoLostUpdate
<1>4. ASSUME NEW k \in Managers, ExpireLease(k) PROVE Kept(m, n)'
  BY <1>0, <1>4, KeptElsewhere
  DEF NoLostUpdate, ExpireLease, queueVars, workerVars, SameWorker
<1>5. ASSUME NEW k \in Managers, NEW a \in Applications, Watch(k, a) PROVE Kept(m, n)'
  <2>1. PICK v \in 1..MaxEdits : WatchEvent(k, a, v)
    BY <1>5 DEF Watch
  <2>2. m \in running /\ Kept(m, n)
    BY <2>1 DEF WatchEvent, managerVars, NoLostUpdate
  <2>3. backoff' = backoff /\ reconciled' = reconciled /\ SameWorker(m) /\ UNCHANGED log
    BY <2>1 DEF WatchEvent, workerVars, storeVars, SameWorker
  <2>4. dirty[m] \subseteq dirty'[m]
    BY <1>0, <2>1, EnqueueGrows DEF WatchEvent
  <2>5. CASE k = m /\ a = n
    <3>1. cache'[m][n] = v
      BY <1>0, <2>1, <2>5 DEF WatchEvent, TypeOK
    <3>2. At(n, v).exists => n \in dirty'[m]
      BY <1>0, <2>1, <2>5, EnqueueGrows DEF WatchEvent
    <3>3. At(n, cache[m][n])' = At(n, v)
      BY <2>3, <3>1 DEF At
    <3> QED  BY <3>2, <3>3 DEF Kept
  <2>6. CASE ~(k = m /\ a = n)
    <3>1. cache'[m][n] = cache[m][n]
      BY <1>0, <2>1, <2>6 DEF WatchEvent, TypeOK
    <3> QED  BY <1>0, <2>2, <2>3, <2>4, <3>1, KeptStays
  <2> QED  BY <2>5, <2>6
<1>6. ASSUME NEW k \in Managers, NEW a \in Applications, Resync(k, a) \/ BackoffExpires(k, a)
      PROVE  Kept(m, n)'
  <2>1. m \in running /\ Kept(m, n)
    BY <1>6 DEF Resync, BackoffExpires, managerVars, NoLostUpdate
  <2>2. cache' = cache /\ reconciled' = reconciled /\ SameWorker(m)
    BY <1>6 DEF Resync, BackoffExpires, workerVars, SameWorker
  <2>3. dirty[m] \cup backoff[m] \subseteq dirty'[m] \cup backoff'[m]
    <3>1. dirty[m] \subseteq dirty'[m] /\ a \in dirty'[k]
      BY <1>0, <1>6, EnqueueGrows DEF Resync, BackoffExpires
    <3>2. CASE Resync(k, a)
      BY <3>1, <3>2 DEF Resync
    <3>3. CASE BackoffExpires(k, a)
      <4>1. backoff'[m] = IF k = m THEN backoff[m] \ {a} ELSE backoff[m]
        BY <1>0, <3>3 DEF BackoffExpires, TypeOK
      <4> QED  BY <3>1, <4>1
    <3> QED  BY <1>6, <3>2, <3>3
  <2> QED  BY <1>0, <2>1, <2>2, <2>3, KeptStays
<1>7. ASSUME NEW k \in Managers, NEW a \in Applications, Dequeue(k, a) PROVE Kept(m, n)'
  <2>1. m \in running /\ Kept(m, n) /\ UNCHANGED <<log, cache, backoff, crapp, reconciled>>
    BY <1>7 DEF Dequeue, managerVars, storeVars, NoLostUpdate
  <2>2. CASE k = m
    <3>1. /\ pc[m] = "idle" /\ pc'[m] = "get" /\ req'[m] = a
          /\ dirty'[m] = dirty[m] \ {a}
      BY <1>0, <1>7, <2>2 DEF Dequeue, TypeOK
    <3>2. At(n, cache[m][n])' = At(n, cache[m][n])
      BY <2>1 DEF At
    <3> QED  BY <2>1, <3>1, <3>2 DEF Kept, Serving
  <2>3. CASE k # m
    <3>1. dirty'[m] = dirty[m] /\ SameWorker(m)
      BY <1>0, <1>7, <2>3 DEF Dequeue, TypeOK, SameWorker
    <3> QED  BY <1>0, <2>1, <3>1, KeptElsewhere
  <2> QED  BY <2>2, <2>3
<1>8. ASSUME NEW k \in Managers, k # m, Work(k) \/ GetFails(k) \/ CreateFails(k)
      PROVE  Kept(m, n)'
  <2>1. m \in running /\ Kept(m, n) /\ UNCHANGED <<cache, dirty>>
    BY <1>8
    DEF Work, GetFound, GetNotFound, GetFails, CreatePod, CreateExists, CreateForbidden,
        CreateFails, Finish, managerVars, queueVars, NoLostUpdate
  <2>2. SameWorker(m)
    BY <1>0, <1>8
    DEF Work, GetFound, GetNotFound, GetFails, CreatePod, CreateExists, CreateForbidden,
        CreateFails, Finish, ReturnError, ReturnNil, Release, TypeOK, SameWorker
  <2>3. backoff'[m] = backoff[m] /\ reconciled'[m] = reconciled[m]
    BY <1>0, <1>8
    DEF Work, GetFound, GetNotFound, GetFails, CreatePod, CreateExists, CreateForbidden,
        CreateFails, Finish, ReturnError, ReturnNil, queueVars, TypeOK
  <2> QED  BY <1>0, <2>1, <2>2, <2>3, KeptElsewhere
<1>9. ASSUME GetFails(m) \/ CreateExists(m) \/ CreateForbidden(m) \/ CreateFails(m)
      PROVE  Kept(m, n)'
  BY <1>0, <1>9, KeptOnError
  DEF GetFails, CreateExists, CreateForbidden, CreateFails, Creating, managerVars, storeVars,
      NoLostUpdate
<1>10. ASSUME GetFound(m) PROVE Kept(m, n)'
  <2>1. /\ Kept(m, n) /\ UNCHANGED <<log, cache, dirty, backoff, req, reconciled>>
        /\ pc[m] = "get" /\ pc'[m] = "create" /\ crapp'[m] = cache[m][req[m]]
    BY <1>0, <1>10 DEF GetFound, managerVars, storeVars, queueVars, NoLostUpdate, TypeOK
  <2>2. At(n, cache[m][n])' = At(n, cache[m][n])
    BY <2>1 DEF At
  <2> QED  BY <2>1, <2>2 DEF Kept, Serving
<1>11. ASSUME GetNotFound(m) PROVE Kept(m, n)'
  <2>1. /\ Kept(m, n) /\ UNCHANGED <<log, cache, dirty, backoff, reconciled>>
        /\ pc[m] = "get" /\ pc'[m] = "idle" /\ ~At(req[m], cache[m][req[m]]).exists
    BY <1>0, <1>11
    DEF GetNotFound, ReturnNil, Release, Found, managerVars, storeVars, NoLostUpdate, TypeOK
  <2>2. At(n, cache[m][n])' = At(n, cache[m][n])
    BY <2>1 DEF At
  <2> QED  BY <2>1, <2>2 DEF Kept, Serving
<1>12. ASSUME CreatePod(m) PROVE Kept(m, n)'
  <2>1. /\ Kept(m, n) /\ UNCHANGED <<log, cache, dirty, backoff, pc, req, crapp, reconciled>>
    BY <1>0, <1>12 DEF CreatePod, StorePod, managerVars, queueVars, NoLostUpdate
  <2>2. At(n, cache[m][n])' = At(n, cache[m][n])
    BY <2>1 DEF At
  <2> QED  BY <2>1, <2>2 DEF Kept, Serving
<1>13. ASSUME Finish(m) PROVE Kept(m, n)'
  <2>1. /\ Kept(m, n) /\ UNCHANGED <<log, cache, dirty, backoff>>
        /\ pc[m] = "create" /\ pc'[m] = "idle"
        /\ reconciled'[m][n] = IF n = req[m] THEN crapp[m] ELSE reconciled[m][n]
    BY <1>0, <1>13 DEF Finish, ReturnNil, Release, managerVars, storeVars, NoLostUpdate, TypeOK
  <2>2. At(n, cache[m][n])' = At(n, cache[m][n])
    BY <2>1 DEF At
  <2> QED  BY <2>1, <2>2 DEF Kept, Serving
<1> QED
  <2>1. CASE UNCHANGED vars
    BY <1>1, <2>1 DEF vars, managerVars
  <2>2. CASE Users \/ \E p \in late : LateCreate(p)
    BY <1>1, <2>2 DEF Users, LateCreate, managerVars
  <2>3. ASSUME NEW k \in Managers, Start(k) \/ StopManager(k) \/ ExpireLease(k)
        PROVE  Kept(m, n)'
    BY <1>2, <1>3, <1>4, <2>3
  <2>4. ASSUME NEW k \in Managers, NEW a \in Applications,
               Watch(k, a) \/ Resync(k, a) \/ BackoffExpires(k, a) \/ Dequeue(k, a)
        PROVE  Kept(m, n)'
    BY <1>5, <1>6, <1>7, <2>4
  <2>5. ASSUME NEW k \in Managers, Work(k) \/ GetFails(k) \/ CreateFails(k)
        PROVE  Kept(m, n)'
    BY <1>8, <1>9, <1>10, <1>11, <1>12, <1>13, <2>5 DEF Work
  <2> QED  BY <2>1, <2>2, <2>3, <2>4, <2>5 DEF Next

\* NoLostUpdate for every number of managers, Applications, faults and edits.
THEOREM NothingLost == Spec => []NoLostUpdate
<1>1. Init => NoLostUpdate
  BY DEF Init, NoLostUpdate
<1>2. TypeOK /\ NoLostUpdate /\ [Next]_vars => TypeOK' /\ NoLostUpdate'
  BY TypeStep, NoLostStep
<1> QED  BY TypeInit, <1>1, <1>2, PTL DEF Spec

-----------------------------------------------------------------------------
(***************************************************************************)
(* The Pods of an Application come from one version and have no gap        *)
(* (OneVersion).  OneVersion says nothing of the runs and creates under    *)
(* way, so it is not inductive.  OneRun is: at any time at most one run,   *)
(* or one create whose sender gave up, is past Pod 0, and it is about to   *)
(* add exactly the next Pod of the version all Pods come from.             *)
(***************************************************************************)

First(n, k, v) == {PodOf(n, j, v) : j \in 0..(k - 1)}

\* The worker of m has made Pod 0 of n in its present run.
Past(m, n) == pc[m] = "create" /\ req[m] = n /\ i[m] > 0

\* A create for a Pod of n other than Pod 0.
PastPod(p, n) == p.app = n /\ p.ordinal > 0

\* n has its first k Pods, all from v, and what is past Pod 0 is one, at Pod k.
RunsAre(n, k, v) ==
    /\ PodsOf(n) = First(n, k, v)
    /\ \A m \in Managers : Past(m, n) => i[m] = k /\ crapp[m] = v
    /\ \A p \in late : PastPod(p, n) => p = PodOf(n, k, v)
    /\ \A m, l \in Managers : Past(m, n) /\ Past(l, n) => m = l
    /\ \A m \in Managers, p \in late : ~(Past(m, n) /\ PastPod(p, n))

OneRun == \A n \in Applications \ evicted : \E k, v \in Nat : RunsAre(n, k, v)

-----------------------------------------------------------------------------
\* A step that neither makes a Pod of n nor brings a run past Pod 0; a run that
\* ends may leave its create behind.
LEMMA RunsStay ==
    ASSUME TypeOK, NEW n \in Applications, NEW k \in Nat, NEW v \in Nat, RunsAre(n, k, v),
           PodsOf(n)' = PodsOf(n), late' \subseteq late,
           \A m \in Managers : Past(m, n)' => Past(m, n) /\ i'[m] = i[m] /\ crapp'[m] = crapp[m]
    PROVE  RunsAre(n, k, v)'
<1>1. First(n, k, v)' = First(n, k, v) /\ PodOf(n, k, v)' = PodOf(n, k, v)
  BY DEF First, PodOf
<1>2. \A p : PastPod(p, n)' <=> PastPod(p, n)
  BY DEF PastPod
<1> QED  BY <1>1, <1>2 DEF RunsAre

\* A run that ends, its create left behind.
LEMMA RunsLeaveBehind ==
    ASSUME TypeOK, NEW n \in Applications, NEW k \in Nat, NEW v \in Nat, RunsAre(n, k, v),
           NEW m \in Managers, Creating(m), Release(m), UNCHANGED storeVars,
           late' = late \cup {NextPod(m)}
    PROVE  RunsAre(n, k, v)'
<1>1. PodsOf(n)' = PodsOf(n)
  BY DEF PodsOf, storeVars
<1>2. \A l \in Managers : Past(l, n)' =>
        l # m /\ Past(l, n) /\ i'[l] = i[l] /\ crapp'[l] = crapp[l]
  BY DEF Past, Release, TypeOK
<1>3. First(n, k, v)' = First(n, k, v) /\ PodOf(n, k, v)' = PodOf(n, k, v)
  BY DEF First, PodOf
<1>4. \A p : PastPod(p, n)' <=> PastPod(p, n)
  BY DEF PastPod
<1>5. PastPod(NextPod(m), n) => Past(m, n) /\ NextPod(m) = PodOf(n, k, v)
  BY DEF PastPod, NextPod, PodOf, Past, Creating, RunsAre
<1> QED  BY <1>1, <1>2, <1>3, <1>4, <1>5 DEF RunsAre

\* Storing a Pod of another Application leaves n's alone.
LEMMA OtherPod ==
    ASSUME NEW p, NEW n, StorePod(p), p.app # n PROVE PodsOf(n)' = PodsOf(n)
BY DEF StorePod, PodsOf

\* Pod 0 can only be stored while there is no Pod.
LEMMA PodZero ==
    ASSUME NEW n \in Applications, NEW k \in Nat, NEW v \in Nat, RunsAre(n, k, v),
           NEW p \in Pod, p.app = n, p.ordinal = 0, StorePod(p)
    PROVE  k = 0 /\ PodsOf(n)' = First(n, 1, p.from)
<1>1. k = 0
  <2> SUFFICES ASSUME k # 0 PROVE FALSE
    OBVIOUS
  <2>1. PodOf(n, 0, v) \in PodsOf(n)
    BY DEF RunsAre, First
  <2> QED  BY <2>1 DEF StorePod, NameTaken, SameName, PodsOf, PodOf
<1>2. PodsOf(n) = {}
  BY <1>1 DEF RunsAre, First
<1>3. PodsOf(n)' = {p}
  BY <1>2 DEF StorePod, PodsOf
<1>4. p = PodOf(n, 0, p.from)
  BY DEF Pod, PodOf
<1>5. First(n, 1, p.from) = {PodOf(n, 0, p.from)}
  BY DEF First
<1> QED  BY <1>1, <1>3, <1>4, <1>5

\* The next Pod of the one version.
LEMMA PodNext ==
    ASSUME NEW n \in Applications, NEW k \in Nat, NEW v \in Nat, RunsAre(n, k, v),
           StorePod(PodOf(n, k, v))
    PROVE  PodsOf(n)' = First(n, k + 1, v)
<1>1. PodsOf(n)' = PodsOf(n) \cup {PodOf(n, k, v)}
  BY DEF StorePod, PodsOf, PodOf
<1>2. First(n, k + 1, v) = First(n, k, v) \cup {PodOf(n, k, v)}
  BY DEF First
<1> QED  BY <1>1, <1>2 DEF RunsAre

-----------------------------------------------------------------------------
\* A worker that does not move, or starts over, is past Pod 0 only if it was.
LEMMA NotPast ==
    ASSUME NEW m \in Managers, NEW n \in Applications, SameWorker(m) \/ AtStart(m)
    PROVE  Past(m, n)' => Past(m, n) /\ i'[m] = i[m] /\ crapp'[m] = crapp[m]
BY DEF SameWorker, AtStart, Past

\* A worker makes a Pod.
LEMMA CreateStep ==
    ASSUME TypeOK, NEW n \in Applications, NEW k \in Nat, NEW v \in Nat, RunsAre(n, k, v),
           NEW m \in Managers, CreatePod(m)
    PROVE  \E k2, v2 \in Nat : RunsAre(n, k2, v2)'
<1>1. /\ StorePod(NextPod(m)) /\ Creating(m) /\ UNCHANGED <<pc, req, crapp, late>>
      /\ i' = [i EXCEPT ![m] = i[m] + 1] /\ i \in [Managers -> Nat]
  BY DEF CreatePod, TypeOK
<1>2. NextPod(m) \in Pod /\ NextPod(m) = PodOf(req[m], i[m], crapp[m]) /\ crapp[m] \in Nat
  BY NextPodType DEF NextPod, TypeOK
<1>3. /\ NextPod(m).app = req[m] /\ NextPod(m).ordinal = i[m] /\ NextPod(m).from = crapp[m]
  BY <1>2 DEF PodOf
<1>4. \A l \in Managers \ {m} :
        (Past(l, n)' <=> Past(l, n)) /\ i'[l] = i[l] /\ crapp'[l] = crapp[l]
  BY <1>1 DEF Past
<1>5. \A p : PastPod(p, n)' <=> PastPod(p, n)
  BY DEF PastPod
<1>6. CASE req[m] # n
  <2>1. PodsOf(n)' = PodsOf(n)
    BY <1>1, <1>3, <1>6, OtherPod
  <2>2. ~Past(m, n)'
    BY <1>1, <1>6 DEF Past
  <2> QED  BY <1>1, <1>4, <2>1, <2>2, RunsStay
<1>7. CASE req[m] = n /\ i[m] = 0
  <2>1. k = 0 /\ PodsOf(n)' = First(n, 1, crapp[m])
    BY <1>1, <1>2, <1>3, <1>7, PodZero
  <2>2. \A l \in Managers : ~Past(l, n)
    BY <2>1 DEF RunsAre, Past
  <2>3. \A p \in late : ~PastPod(p, n)
    BY <2>1 DEF RunsAre, PastPod, PodOf
  <2>4. i'[m] = 1
    BY <1>1, <1>7
  <2>5. \A l \in Managers : Past(l, n)' => l = m
    BY <1>4, <2>2
  <2>6. First(n, 1, crapp[m])' = First(n, 1, crapp'[m])
    BY DEF First, PodOf
  <2>7. RunsAre(n, 1, crapp[m])'
    BY <1>1, <1>5, <2>1, <2>3, <2>4, <2>5, <2>6 DEF RunsAre
  <2>8. crapp'[m] \in Nat /\ crapp'[m] = crapp[m]
    BY <1>1, <1>2
  <2> QED  BY <2>7, <2>8 DEF RunsAre, First, PodOf, PodsOf, Past
<1>8. CASE req[m] = n /\ i[m] > 0
  <2>1. Past(m, n)
    BY <1>1, <1>8 DEF Past, Creating
  <2>2. k = i[m] /\ v = crapp[m]
    BY <2>1 DEF RunsAre
  <2>3. PodsOf(n)' = First(n, k + 1, v)
    BY <1>1, <1>2, <1>8, <2>2, PodNext
  <2>4. \A l \in Managers : Past(l, n)' => l = m
    BY <1>4, <2>1 DEF RunsAre
  <2>5. \A p \in late : ~PastPod(p, n)
    BY <2>1 DEF RunsAre
  <2>6. i'[m] = k + 1 /\ crapp'[m] = v
    BY <1>1, <2>2
  <2>7. RunsAre(n, k + 1, v)'
    BY <1>1, <1>5, <2>3, <2>4, <2>5, <2>6 DEF RunsAre, First, PodOf
  <2> QED  BY <2>7
<1>9. i[m] \in Nat
  BY <1>1
<1> QED  BY <1>6, <1>7, <1>8, <1>9

\* A create its sender gave up on is applied.
LEMMA LateStep ==
    ASSUME TypeOK, NEW n \in Applications, NEW k \in Nat, NEW v \in Nat, RunsAre(n, k, v),
           NEW p \in late, LateCreate(p)
    PROVE  \E k2, v2 \in Nat : RunsAre(n, k2, v2)'
<1>1. p \in Pod /\ late' = late \ {p} /\ UNCHANGED <<pc, req, crapp, i>>
  BY DEF LateCreate, workerVars, TypeOK
<1>2. \A l \in Managers :
        (Past(l, n)' <=> Past(l, n)) /\ i'[l] = i[l] /\ crapp'[l] = crapp[l]
  BY <1>1 DEF Past
<1>3. \A q : PastPod(q, n)' <=> PastPod(q, n)
  BY DEF PastPod
<1>4. CASE UNCHANGED storeVars \/ (StorePod(p) /\ p.app # n)
  <2>1. PodsOf(n)' = PodsOf(n)
    BY <1>4, OtherPod DEF storeVars, PodsOf
  <2> QED  BY <1>1, <1>2, <2>1, RunsStay
<1>5. CASE StorePod(p) /\ p.app = n /\ p.ordinal = 0
  <2>1. k = 0 /\ PodsOf(n)' = First(n, 1, p.from)
    BY <1>1, <1>5, PodZero
  <2>2. \A l \in Managers : ~Past(l, n)
    BY <2>1 DEF RunsAre, Past
  <2>3. \A q \in late : ~PastPod(q, n)
    BY <2>1 DEF RunsAre, PastPod, PodOf
  <2>4. RunsAre(n, 1, p.from)'
    BY <1>1, <1>2, <1>3, <2>1, <2>2, <2>3 DEF RunsAre, First, PodOf
  <2> QED  BY <1>1, <2>4 DEF Pod
<1>6. CASE StorePod(p) /\ p.app = n /\ p.ordinal # 0
  <2>1. PastPod(p, n)
    BY <1>1, <1>6 DEF PastPod, Pod
  <2>2. p = PodOf(n, k, v)
    BY <2>1 DEF RunsAre
  <2>3. PodsOf(n)' = First(n, k + 1, v)
    BY <1>6, <2>2, PodNext
  <2>4. \A q \in late' : ~PastPod(q, n)
    BY <1>1, <2>2 DEF RunsAre
  <2>5. \A l \in Managers : ~Past(l, n)
    BY <2>1 DEF RunsAre
  <2>6. RunsAre(n, k + 1, v)'
    BY <1>1, <1>2, <1>3, <2>3, <2>4, <2>5 DEF RunsAre, First, PodOf
  <2> QED  BY <2>6
<1> QED  BY <1>4, <1>5, <1>6 DEF LateCreate

\* A create that fails, or whose manager stops, may be left behind.
LEMMA GiveUpStep ==
    ASSUME TypeOK, NEW n \in Applications, NEW k \in Nat, NEW v \in Nat, RunsAre(n, k, v),
           NEW m \in Managers, Release(m), UNCHANGED storeVars,
           UNCHANGED late \/ (Creating(m) /\ MayArrive(m))
    PROVE  RunsAre(n, k, v)'
<1>1. PodsOf(n)' = PodsOf(n)
  BY DEF PodsOf, storeVars
<1>2. \A l \in Managers : SameWorker(l) \/ AtStart(l)
  BY DEF Release, TypeOK, SameWorker, AtStart
<1>3. CASE UNCHANGED late
  BY <1>1, <1>2, <1>3, NotPast, RunsStay
<1>4. CASE Creating(m) /\ late' = late \cup {NextPod(m)}
  BY <1>4, RunsLeaveBehind
<1> QED  BY <1>3, <1>4 DEF MayArrive

\* Every step keeps OneRun.
LEMMA OneRunStep == ASSUME TypeOK, OneRun, [Next]_vars PROVE OneRun'
<1> SUFFICES ASSUME NEW n \in Applications \ evicted'
             PROVE  \E k2, v2 \in Nat : RunsAre(n, k2, v2)'
  BY DEF OneRun
<1>1. evicted \subseteq evicted'
  BY DEF Next, Users, UserStep, CreateApplication, UpdateApplication, DeleteApplication,
         EvictPod, Write, Start, StartController, StopManager, ExpireLease, Watch, WatchEvent,
         Resync, BackoffExpires, Dequeue, Work, GetFound, GetNotFound, GetFails, CreatePod,
         CreateExists, CreateForbidden, CreateFails, Finish, LateCreate, StorePod,
         vars, storeVars
<1>2. PICK k \in Nat, v \in Nat : RunsAre(n, k, v)
  BY <1>1 DEF OneRun
<1>3. ASSUME PodsOf(n)' = PodsOf(n), late' = late,
             \A m \in Managers : SameWorker(m) \/ AtStart(m)
      PROVE  \E k2, v2 \in Nat : RunsAre(n, k2, v2)'
  BY <1>2, <1>3, NotPast, RunsStay
<1>4. CASE Users
  <2>1. PodsOf(n)' = PodsOf(n)
    <3>1. CASE \E p \in pods : EvictPod(p)
      BY <3>1 DEF EvictPod, PodsOf
    <3>2. CASE ~\E p \in pods : EvictPod(p)
      BY <1>4, <3>2
      DEF Users, UserStep, CreateApplication, UpdateApplication, DeleteApplication, Write, PodsOf
    <3> QED  BY <3>1, <3>2
  <2> QED  BY <1>3, <1>4, <2>1 DEF Users, workerVars, SameWorker
<1>5. ASSUME NEW m \in Managers, Start(m) \/ ExpireLease(m)
      PROVE  \E k2, v2 \in Nat : RunsAre(n, k2, v2)'
  BY <1>3, <1>5
  DEF Start, StartController, ExpireLease, PodsOf, storeVars, workerVars, SameWorker
<1>6. ASSUME NEW m \in Managers, NEW a \in Applications,
             Watch(m, a) \/ Resync(m, a) \/ BackoffExpires(m, a) \/ Dequeue(m, a)
      PROVE  \E k2, v2 \in Nat : RunsAre(n, k2, v2)'
  <2>1. PodsOf(n)' = PodsOf(n) /\ late' = late
    BY <1>6 DEF Watch, WatchEvent, Resync, BackoffExpires, Dequeue, PodsOf, storeVars
  <2>2. ASSUME NEW l \in Managers PROVE SameWorker(l) \/ AtStart(l)
    BY <1>6
    DEF Watch, WatchEvent, Resync, BackoffExpires, Dequeue, workerVars, TypeOK, SameWorker, AtStart
  <2> QED  BY <1>3, <2>1, <2>2
<1>7. ASSUME NEW m \in Managers, GetFound(m)
      PROVE  \E k2, v2 \in Nat : RunsAre(n, k2, v2)'
  <2>1. PodsOf(n)' = PodsOf(n) /\ late' = late
    BY <1>7 DEF GetFound, PodsOf, storeVars
  <2>2. ASSUME NEW l \in Managers PROVE SameWorker(l) \/ AtStart(l)
    BY <1>7 DEF GetFound, TypeOK, SameWorker, AtStart
  <2> QED  BY <1>3, <2>1, <2>2
<1>8. ASSUME NEW m \in Managers,
             \/ StopManager(m) \/ GetNotFound(m) \/ GetFails(m) \/ CreateExists(m)
             \/ CreateForbidden(m) \/ CreateFails(m) \/ Finish(m)
      PROVE  \E k2, v2 \in Nat : RunsAre(n, k2, v2)'
  <2>1. Release(m) /\ UNCHANGED storeVars
    BY <1>8
    DEF StopManager, GetNotFound, GetFails, CreateExists, CreateForbidden, CreateFails, Finish,
        ReturnNil, ReturnError
  <2>2. UNCHANGED late \/ (Creating(m) /\ MayArrive(m))
    BY <1>8
    DEF StopManager, GetNotFound, GetFails, CreateExists, CreateForbidden, CreateFails, Finish,
        Creating
  <2> QED  BY <1>2, <2>1, <2>2, GiveUpStep
<1>9. ASSUME NEW m \in Managers, CreatePod(m)
      PROVE  \E k2, v2 \in Nat : RunsAre(n, k2, v2)'
  BY <1>2, <1>9, CreateStep
<1>10. ASSUME NEW p \in late, LateCreate(p)
       PROVE  \E k2, v2 \in Nat : RunsAre(n, k2, v2)'
  BY <1>2, <1>10, LateStep
<1>11. CASE UNCHANGED vars
  BY <1>3, <1>11 DEF vars, storeVars, workerVars, PodsOf, SameWorker
<1> QED
  BY <1>4, <1>5, <1>6, <1>7, <1>8, <1>9, <1>10, <1>11 DEF Next, Work

\* At the start there is no run.
LEMMA OneRunInit == Init => OneRun
<1> SUFFICES ASSUME Init, NEW n \in Applications PROVE RunsAre(n, 0, 0)
  BY DEF OneRun
<1>1. PodsOf(n) = {} /\ late = {} /\ \A m \in Managers : pc[m] = "idle"
  BY DEF Init, StoreInit, PodsOf
<1>2. First(n, 0, 0) = {}
  BY DEF First
<1> QED  BY <1>1, <1>2 DEF RunsAre, Past

\* OneRun is strong enough.
LEMMA OneRunImplies == ASSUME OneRun PROVE OneVersion
<1> SUFFICES ASSUME NEW n \in Applications \ evicted, NEW p \in PodsOf(n), NEW q \in PodsOf(n)
             PROVE  p.from = q.from /\ \A j \in 0..p.ordinal : \E r \in PodsOf(n) : r.ordinal = j
  BY DEF OneVersion
<1>1. PICK k \in Nat, v \in Nat : PodsOf(n) = First(n, k, v)
  BY DEF OneRun, RunsAre
<1>2. p.from = v /\ q.from = v /\ p.ordinal \in 0..(k - 1)
  BY <1>1 DEF First, PodOf
<1>3. ASSUME NEW j \in 0..p.ordinal PROVE \E r \in PodsOf(n) : r.ordinal = j
  <2>1. j \in 0..(k - 1)
    BY <1>2
  <2>2. PodOf(n, j, v) \in PodsOf(n) /\ PodOf(n, j, v).ordinal = j
    BY <1>1, <2>1 DEF First, PodOf
  <2> QED  BY <2>2
<1> QED  BY <1>2, <1>3

\* However many managers race, crash and lose answers: as long as nobody deletes its
\* Pods, an Application's Pods come from one version and are numbered without a gap.
THEOREM OneVersionAlways == Spec => []OneVersion
<1>1. TypeOK /\ OneRun /\ [Next]_vars => TypeOK' /\ OneRun'
  BY TypeStep, OneRunStep
<1> QED  BY TypeInit, OneRunInit, OneRunImplies, <1>1, PTL DEF Spec
=============================================================================
