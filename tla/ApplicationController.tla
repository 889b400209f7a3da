------------------------ MODULE ApplicationController ------------------------
(***************************************************************************)
(* The application operator: its managers (replicas of the deployment,     *)
(* cmd/main.go), each with an informer cache, a work queue and one worker  *)
(* that runs ApplicationReconciler.Reconcile.                              *)
(*                                                                         *)
(* Reconcile reads the Application from the cache, then sends one create   *)
(* per Pod.  Every API call is a step of its own, so other managers, users *)
(* and crashes interleave between any two of them.                         *)
(***************************************************************************)
EXTENDS ApplicationStore

CONSTANTS
    Managers,       \* the processes of the deployment
    LeaderElect,    \* the flag --leader-elect
    MayCreatePods,  \* the service account's role allows "create pods"
    MaxFaults       \* bound: crashes, failed calls and lost leases

ASSUME FlagsAssumption == LeaderElect \in BOOLEAN /\ MayCreatePods \in BOOLEAN
ASSUME MaxFaultsAssumption == MaxFaults \in Nat

VARIABLES
    running,    \* the managers whose controller runs
    lease,      \* the managers the lease is held by: none or one
    cache,      \* cache[m][n]: version of n the informer of m last saw
    dirty,      \* dirty[m]: the work queue of m, without its order
    backoff,    \* backoff[m]: requests AddRateLimited has not yet put back
    pc,         \* pc[m]: where the worker of m is: "idle", "get" or "create"
    req,        \* req[m]: the request the worker of m serves
    crapp,      \* crapp[m]: the version of req[m] that Get returned
    i,          \* i[m]: the loop variable
    late,       \* creates sent and given up on that may still be applied
    reconciled, \* history: reconciled[m][n]: version m last got a nil error for
    faults      \* faults so far

managerVars == <<running, lease>>
queueVars == <<cache, dirty, backoff>>
workerVars == <<pc, req, crapp, i>>
vars == <<storeVars, managerVars, queueVars, workerVars, late, reconciled, faults>>

-----------------------------------------------------------------------------
\* The worker of m is in Reconcile for n.
Serving(m, n) == pc[m] # "idle" /\ req[m] = n

\* The Pod the worker of m builds next.
NextPod(m) == PodOf(req[m], i[m], crapp[m])

\* Mutant: the loop condition is <=.
MorePodsOffByOne(m) == i[m] <= At(req[m], crapp[m]).replicas

\* for i := 0; i < int(crapp.Spec.Replicas); i++
MorePods(m) == i[m] < At(req[m], crapp[m]).replicas

\* n was stored at version v.
Existed(n, v) == v \in 1..Latest(n) /\ At(n, v).exists

TypeOK ==
    /\ StoreTypeOK
    /\ running \subseteq Managers
    /\ lease \subseteq Managers
    /\ cache \in [Managers -> [Applications -> Nat]]
    /\ \A m \in Managers, n \in Applications : cache[m][n] <= Latest(n)
    /\ dirty \in [Managers -> SUBSET Applications]
    /\ backoff \in [Managers -> SUBSET Applications]
    /\ pc \in [Managers -> {"idle", "get", "create"}]
    /\ req \in [Managers -> Applications]
    /\ crapp \in [Managers -> Nat]
    /\ i \in [Managers -> Nat]
    /\ \A m \in Managers : pc[m] = "create" => Existed(req[m], crapp[m])
    /\ late \subseteq Pod
    /\ reconciled \in [Managers -> [Applications -> Nat]]
    /\ faults \in Nat

Init ==
    /\ StoreInit
    /\ running = {}
    /\ lease = {}
    /\ cache = [m \in Managers |-> [n \in Applications |-> 0]]
    /\ dirty = [m \in Managers |-> {}]
    /\ backoff = [m \in Managers |-> {}]
    /\ pc = [m \in Managers |-> "idle"]
    /\ req = [m \in Managers |-> CHOOSE n \in Applications : TRUE]
    /\ crapp = [m \in Managers |-> 0]
    /\ i = [m \in Managers |-> 0]
    /\ late = {}
    /\ reconciled = [m \in Managers |-> [n \in Applications |-> 0]]
    /\ faults = 0

-----------------------------------------------------------------------------
(* Managers: ctrl.NewManager and mgr.Start in cmd/main.go.                 *)

Fault == faults < MaxFaults /\ faults' = faults + 1

\* The controller of m starts: it holds the lease if it was asked to, its cache
\* holds some list of the store (a list may be served from an old snapshot), and
\* a create event enqueues every Application in it.
StartController(m, snapshot) ==
    /\ m \notin running
    /\ LeaderElect => lease \subseteq {m}
    /\ \A n \in Applications : snapshot[n] <= Latest(n)
    /\ running' = running \cup {m}
    /\ lease' = IF LeaderElect THEN {m} ELSE lease
    /\ cache' = [cache EXCEPT ![m] = snapshot]
    /\ dirty' = [dirty EXCEPT ![m] =
                    {n \in Applications : At(n, snapshot[n]).exists}]
    /\ reconciled' = [reconciled EXCEPT ![m] = [n \in Applications |-> 0]]
    /\ UNCHANGED <<storeVars, backoff, workerVars, late, faults>>

\* The worker of m has nothing in hand.
Release(m) ==
    /\ pc' = [pc EXCEPT ![m] = "idle"]
    /\ crapp' = [crapp EXCEPT ![m] = 0]
    /\ i' = [i EXCEPT ![m] = 0]
    /\ UNCHANGED req

\* A request m sent may reach the API server after m gave up on it.
MayArrive(m) == late' \in {late, late \cup {NextPod(m)}}

\* The process ends (crash, OOM, lost lease noticed, redeployment).  Its memory
\* goes; the lease stays, LeaderElectionReleaseOnCancel being commented out.
StopManager(m) ==
    /\ m \in running
    /\ Fault
    /\ running' = running \ {m}
    /\ Release(m)
    /\ dirty' = [dirty EXCEPT ![m] = {}]
    /\ backoff' = [backoff EXCEPT ![m] = {}]
    /\ IF pc[m] = "create" /\ MayCreatePods /\ MorePods(m)
       THEN MayArrive(m)
       ELSE UNCHANGED late
    /\ UNCHANGED <<storeVars, lease, cache, reconciled>>

\* The lease runs out.  A holder that still runs (paused, partitioned) goes on:
\* nothing fences its API calls.
ExpireLease(m) ==
    /\ m \in lease
    /\ IF m \in running THEN Fault ELSE UNCHANGED faults
    /\ lease' = {}
    /\ UNCHANGED <<storeVars, running, queueVars, workerVars, late, reconciled>>

-----------------------------------------------------------------------------
(* The watch and the work queue: For(&crappsv1.Application{}) in           *)
(* SetupWithManager.  Pods are not watched.                                *)

\* Mutant: an event for the request in hand is dropped, not kept for later.
EnqueueUnlessServing(m, n) ==
    dirty' = [dirty EXCEPT ![m] = IF Serving(m, n) THEN @ ELSE @ \cup {n}]

Enqueue(m, n) == dirty' = [dirty EXCEPT ![m] = @ \cup {n}]

\* The informer moves to a newer version v, the next one or, after a relist, a
\* later one; it reports it unless it neither knew n before nor knows it now.
WatchEvent(m, n, v) ==
    /\ m \in running
    /\ v \in (cache[m][n] + 1)..Latest(n)
    /\ cache' = [cache EXCEPT ![m][n] = v]
    /\ IF At(n, cache[m][n]).exists \/ At(n, v).exists
       THEN Enqueue(m, n)
       ELSE UNCHANGED dirty
    /\ UNCHANGED <<storeVars, managerVars, backoff, workerVars, late, reconciled, faults>>

\* The periodic resync replays the cache.
Resync(m, n) ==
    /\ m \in running
    /\ At(n, cache[m][n]).exists
    /\ Enqueue(m, n)
    /\ UNCHANGED <<storeVars, managerVars, cache, backoff, workerVars, late, reconciled, faults>>

BackoffExpires(m, n) ==
    /\ n \in backoff[m]
    /\ backoff' = [backoff EXCEPT ![m] = @ \ {n}]
    /\ Enqueue(m, n)
    /\ UNCHANGED <<storeVars, managerVars, cache, workerVars, late, reconciled, faults>>

Dequeue(m, n) ==
    /\ m \in running
    /\ pc[m] = "idle"
    /\ n \in dirty[m]
    /\ dirty' = [dirty EXCEPT ![m] = @ \ {n}]
    /\ pc' = [pc EXCEPT ![m] = "get"]
    /\ req' = [req EXCEPT ![m] = n]
    /\ UNCHANGED <<storeVars, managerVars, cache, backoff, crapp, i, late, reconciled, faults>>

-----------------------------------------------------------------------------
(* Reconcile.                                                              *)

\* return ctrl.Result{}, nil
ReturnNil(m) == Release(m) /\ UNCHANGED backoff

\* return ctrl.Result{RequeueAfter: 1 * time.Minute}, err: controller-runtime
\* looks at the error first and calls AddRateLimited.
ReturnError(m) ==
    /\ Release(m)
    /\ backoff' = [backoff EXCEPT ![m] = @ \cup {req[m]}]

\* Mutant: errors.IsNotFound is not looked at and the empty crapp is used.
FoundAlways(m) == TRUE

\* The cache the client reads from has the requested Application.
Found(m) == At(req[m], cache[m][req[m]]).exists

GetFound(m) ==
    /\ pc[m] = "get"
    /\ Found(m)
    /\ pc' = [pc EXCEPT ![m] = "create"]
    /\ crapp' = [crapp EXCEPT ![m] = cache[m][req[m]]]
    /\ i' = [i EXCEPT ![m] = 0]
    /\ UNCHANGED <<storeVars, managerVars, queueVars, req, late, reconciled, faults>>

GetNotFound(m) ==
    /\ pc[m] = "get"
    /\ ~Found(m)
    /\ ReturnNil(m)
    /\ UNCHANGED <<storeVars, managerVars, cache, dirty, late, reconciled, faults>>

GetFails(m) ==
    /\ pc[m] = "get"
    /\ Fault
    /\ ReturnError(m)
    /\ UNCHANGED <<storeVars, managerVars, cache, dirty, late, reconciled>>

\* r.Create(ctx, pod) is about to be sent.
Creating(m) == pc[m] = "create" /\ MorePods(m)

\* Mutant: the loop's body returns after its first Pod.
CreatePodAndReturn(m) ==
    /\ Creating(m)
    /\ MayCreatePods
    /\ StorePod(NextPod(m))
    /\ ReturnNil(m)
    /\ UNCHANGED <<managerVars, cache, dirty, late, reconciled, faults>>

CreatePod(m) ==
    /\ Creating(m)
    /\ MayCreatePods
    /\ StorePod(NextPod(m))
    /\ i' = [i EXCEPT ![m] = @ + 1]
    /\ UNCHANGED <<managerVars, queueVars, pc, req, crapp, late, reconciled, faults>>

\* Mutant: AlreadyExists is taken for success and the loop goes on.
SkipExisting(m) ==
    /\ Creating(m)
    /\ MayCreatePods
    /\ NameTaken(NextPod(m))
    /\ i' = [i EXCEPT ![m] = @ + 1]
    /\ UNCHANGED <<storeVars, managerVars, queueVars, pc, req, crapp, late, reconciled, faults>>

\* AlreadyExists is an error like any other.
CreateExists(m) ==
    /\ Creating(m)
    /\ MayCreatePods
    /\ NameTaken(NextPod(m))
    /\ ReturnError(m)
    /\ UNCHANGED <<storeVars, managerVars, cache, dirty, late, reconciled, faults>>

CreateForbidden(m) ==
    /\ Creating(m)
    /\ ~MayCreatePods
    /\ ReturnError(m)
    /\ UNCHANGED <<storeVars, managerVars, cache, dirty, late, reconciled, faults>>

\* A rejected create, or one whose answer was lost.
CreateFails(m) ==
    /\ Creating(m)
    /\ MayCreatePods
    /\ Fault
    /\ ReturnError(m)
    /\ MayArrive(m)
    /\ UNCHANGED <<storeVars, managerVars, cache, dirty, reconciled>>

Finish(m) ==
    /\ pc[m] = "create"
    /\ ~MorePods(m)
    /\ reconciled' = [reconciled EXCEPT ![m][req[m]] = crapp[m]]
    /\ ReturnNil(m)
    /\ UNCHANGED <<storeVars, managerVars, cache, dirty, late, faults>>

\* The API server applies, or turns out never to have got, a create its sender
\* gave up on.
LateCreate(p) ==
    /\ late' = late \ {p}
    /\ StorePod(p) \/ UNCHANGED storeVars
    /\ UNCHANGED <<managerVars, queueVars, workerVars, reconciled, faults>>

-----------------------------------------------------------------------------
Snapshots == {s \in [Applications -> 0..MaxEdits] :
                \A n \in Applications : s[n] <= Latest(n)}

Start(m) == \E snapshot \in Snapshots : StartController(m, snapshot)

Watch(m, n) == \E v \in 1..MaxEdits : WatchEvent(m, n, v)

\* The steps of the worker that need no failure.
Work(m) ==
    \/ GetFound(m)
    \/ GetNotFound(m)
    \/ CreatePod(m)
    \/ CreateExists(m)
    \/ CreateForbidden(m)
    \/ Finish(m)

Users ==
    UserStep /\ UNCHANGED <<managerVars, queueVars, workerVars, late, reconciled, faults>>

Next ==
    \/ Users
    \/ \E m \in Managers :
        \/ Start(m) \/ StopManager(m) \/ ExpireLease(m)
        \/ \E n \in Applications :
            Watch(m, n) \/ Resync(m, n) \/ BackoffExpires(m, n) \/ Dequeue(m, n)
        \/ Work(m) \/ GetFails(m) \/ CreateFails(m)
    \/ \E p \in late : LateCreate(p)

Spec == Init /\ [][Next]_vars

\* A stopped manager is restarted by its deployment, a dead holder's lease runs
\* out, the watch and the timers make progress, and so does the worker.  The work
\* queue is FIFO; without its order in the model that is strong fairness.
Fairness ==
    /\ \A m \in Managers :
        /\ WF_vars(Start(m))
        /\ WF_vars(m \notin running /\ ExpireLease(m))
        /\ WF_vars(Work(m))
    /\ \A m \in Managers, n \in Applications :
        /\ WF_vars(Watch(m, n))
        /\ WF_vars(BackoffExpires(m, n))
        /\ SF_vars(Dequeue(m, n))

FairSpec == Spec /\ Fairness

-----------------------------------------------------------------------------
(* Safety.                                                                 *)

\* Every Pod ever made was asked for by a version of its Application: its ordinal
\* is below that version's replicas, however stale the cache it was made from,
\* and however late its create reached the API server.
PodsWereAsked ==
    \A p \in created :
        /\ p.from \in 1..Latest(p.app)
        /\ p.ordinal < At(p.app, p.from).replicas

\* Whatever version of an Application a running manager knows, it has reconciled
\* it, is doing so, or still has the request: no event that arrives while the
\* worker is busy, and no failed call, makes it forget one.
Kept(m, n) ==
    At(n, cache[m][n]).exists =>
        \/ n \in dirty[m] \cup backoff[m]
        \/ Serving(m, n) /\ (pc[m] = "create" => crapp[m] = cache[m][n])
        \/ ~Serving(m, n) /\ reconciled[m][n] = cache[m][n]

NoLostUpdate == \A m \in running, n \in Applications : Kept(m, n)

\* While none of its Pods was deleted from outside, an Application's Pods are
\* numbered 0, 1, ... without a gap and all come from one version: the create of
\* Pod 0 decides which of the racing runs goes on, the others fail on its name.
OneVersion ==
    \A n \in Applications \ evicted : \A p, q \in PodsOf(n) :
        /\ p.from = q.from
        /\ \A j \in 0..p.ordinal : \E r \in PodsOf(n) : r.ordinal = j

\* The controller never deletes or changes a Pod, and never makes one but in
\* order, under a free name and asked for: it implements ApplicationPods.
Abstract == INSTANCE ApplicationPods
AddsPodsOnly == Abstract!AbstractSpec

-----------------------------------------------------------------------------
(* Liveness.                                                               *)

PickedUp(n, v) ==
    \E m \in Managers :
        \/ pc[m] = "create" /\ req[m] = n /\ crapp[m] = v
        \/ reconciled[m][n] = v

\* Every version a user stores is read by a reconcile run, unless another write
\* replaces it first; crashes, lost leases and failed calls only delay it.
EditsArePickedUp ==
    \A n \in Applications, v \in 1..MaxEdits :
        (Latest(n) = v /\ At(n, v).exists) ~> (Latest(n) > v \/ PickedUp(n, v))

\* The Pods version v of n asks for.
Wanted(n, v) == {PodOf(n, j, v) : j \in 0..(At(n, v).replicas - 1)}

\* Once an Application has a Pod, it gets all the Pods of one of its versions.
\* It holds while no call fails and no manager stops; leader election is not
\* needed for it.
StartedRunCompletes ==
    \A n \in Applications :
        (PodsOf(n) # {}) ~> (\E v \in 1..Latest(n) : PodsOf(n) = Wanted(n, v))

-----------------------------------------------------------------------------
(* What comments in the code say, and the code does not do.                *)

\* "perform operations to make the cluster state reflect the state specified by
\* the user": once the user stops, the Pods are those of the last version.
ReflectsUserState ==
    \A n \in Applications :
        (Latest(n) = MaxEdits /\ At(n, MaxEdits).exists) ~>
            (Cardinality(PodsOf(n)) = Cardinality(Wanted(n, Latest(n))))

\* "aims to move the current state of the cluster closer to the desired state".
MovesCloser ==
    \A n \in Applications :
        (PodsOf(n) = {} /\ Wanted(n, Latest(n)) # {}) ~> (PodsOf(n) # {})
=============================================================================
