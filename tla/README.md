# A verification project for cloud-native-tour

TLA+ models of the parts of `foenye/cloud-native-tour` that have behaviour of
their own, TLC runs that check them on small instances, and theorems that TLAPS
checks for every value of the constants. Paths below are relative to the root
of the repository.

## 1. The system

The repository is a Go monorepo of three modules that meet only through the
Kubernetes API server, and the scripts that build them.

| Component | Source | State | Operations | Hard part |
|---|---|---|---|---|
| Application reconciler | `operators/application-operator/internal/controller` | none of its own: an informer cache, a work queue and one worker per process; the Applications and Pods in the API server | `Reconcile` (read, then one create per Pod), the watch and queue set up by `SetupWithManager` | runs interleave with users, with other managers and with crashes; a failed run starts again from Pod 0; answers get lost |
| Operator process | `operators/application-operator/cmd/main.go` | scheme, TLS option lists, certificate watchers, leader lease | package initialisation, `main`, exit and restart, elect | a lease is not a fence; two option lists begin as one slice; certificates are renewed under a running process; any call may fail half way |
| Shared informer factories | `*/pkg/client/informers/externalversions` | informer maps, `startedInformers`, `shuttingDown`, `wg`, all behind one mutex | `InformerFor`, `Start`, `Shutdown`, `WaitForCacheSync` | goroutines, a lock, a wait group, stop channels |
| Greeting API objects | `crd-getting-started/pkg/apis/greeting` | one `Foo` in two API versions | conversion through the internal type, defaulting, deep copy | a field that lives in an annotation in v1 and in the spec in v2; a map shared between an object and its conversion |
| Registration API objects | `kube-aggregator/pkg/apis/registration` | `APIService` in two versions | conversion, defaulting, deep copy | optional port: pointer in the versions, number inside |
| Protobuf codecs | four `generated.pb.go` | a buffer and an index into it | `Marshal`, `Size`, `Unmarshal`, skipping of unknown fields | lengths read from the wire, overflow, nesting, nil against empty |
| API registration | `*/pkg/apis/*/register.go`, `zz_generated.register.go`, `*/clientset/scheme` | scheme builders, the clientsets' schemes | `init`, `AddToScheme` | variables are bound before the `init` functions fill what they point to |
| Clientsets, listers, fakes | `*/pkg/client/clientset_generated`, `*/pkg/client/listers` | REST clients with a version, a rate limiter and an HTTP client each | `NewForConfig`, `NewForConfigAndClient`, of a clientset or of one version | one config shared by goroutines and by versions |
| Typed informers | `*/pkg/client/informers/externalversions/*` | the factory's options; the caches of the informers | accessors, `ForResource`, list and watch functions | list and watch must select the same objects, and every way to an informer must lead to the same one |
| Scripts, manifests, OpenAPI | `hack`, `kube-code-generator`, `config`, `pkg/generated` | none | | |

How they interact. Users write Applications to the API server; the watch of each
operator process copies them, late, to its cache and queues their names; the
worker takes one name at a time, reads the Application *from the cache* and
creates Pods *in the API server*. Nothing watches the Pods. Programs that use
the `Foo` or `APIService` API share one informer factory per process between
goroutines, made with one of its clientsets, and the objects its caches hold are converted, defaulted and copied
by the functions of the API packages; the codecs put the same objects on the
wire.

What makes each of them correct:

* **Reconciler**: every Pod was asked for by some version of its Application; a
  request is never lost, whatever fails; racing runs do not mix versions; every
  edit is picked up in the end; and, as the comment of `Reconcile` says, the
  cluster moves to the state the user specified (it does not, see section 10).
* **Factory**: one instance per type; an informer runs at most once; nothing is
  started once `Shutdown` was called and nothing runs once it has returned; the
  answer of `WaitForCacheSync` is true and complete; every call returns.
* **API objects**: conversion keeps what both versions can say, in every
  direction and order; a deep copy is independent of its original; a conversion
  that writes into a shared map is not noticed by the other objects that share it.
* **Operator process**: each server has exactly the TLS options its flags ask for;
  a renewed certificate reaches it without a restart; whatever fails, the operator
  comes up and stays up.
* **Clients and informers**: every client speaks its own version; rate limiters are
  shared where the documentation says so and nowhere else; a cache is what the factory's
  filters select of a state the server was in, and catches up.
* **Codecs**: what was written is read back, fields of a newer version set aside; `Size` is what `Marshal` writes; no
  input makes `Unmarshal` look outside the slice it was given, or loop for ever.

## 2. The plan

1. `ApplicationStore`, `ApplicationController`, `ApplicationPods`: the operator,
   the one part of the repository that is a distributed program. Done.
2. `SharedInformerFactory`, `InformerLifecycle`: the one part that is a
   multi-threaded program. Done.
3. `FooObjects`: aliasing and conversion in the greeting API. Done.
4. The wire format: message descriptions, a decoder as a state machine on bytes
   and an encoder; runs on encoded values and on arbitrary bytes; a theorem that
   the decoder stays inside its slices for every input and every width. Done.
5. `APIServiceObjects`: conversion, the optional port, defaulting and the
   sharing of `CABundle` and conditions in the registration API. Done.
6. `OperatorStart`: the life of one operator process, with a model of Go slices
   for the two TLS option lists that start from one backing array. Done.
7. `Clientsets`, `TypedInformers`: a program from package initialisation over its
   clients to the caches of its informers. Done.

Theorems, in order of worth: the operator's safety and its refinement; the
factory's safety and its refinement; isolation and agreement of converted
objects; the decoder's bounds; the clients' and caches' safety; the option lists.
All have theirs.

Which module composes which: `ApplicationController` extends `ApplicationStore`;
`TypedInformers` extends `Clientsets`; `ProtoDecoder` extends `ApiMessages`,
`ProtoRoundTrip` the decoder and `ProtoEncoder`; `ApplicationController` and
`SharedInformerFactory` implement `ApplicationPods` and `InformerLifecycle`.
`MC...` modules name constants for TLC.

## 3. The application operator

`ApplicationStore` is the API server and its users. An Application is the log of
its writes, so a *version* is an index into the log; the replica count is kept,
and everything else a write says is abstracted to its version, which each Pod
records as `from` (the code copies labels and the Pod template from the object it
read). `EvictPod` is whatever deletes Pods from outside.

`ApplicationController` is the operator. Variables against code:

| Variable | Code |
|---|---|
| `running`, `lease` | the processes whose controller runs; the holder of the lease of `LeaderElectionID` (`cmd/main.go:186`) |
| `cache`, `dirty`, `backoff` | the manager's informer cache (the client `Get` reads), the set inside the work queue, and what `AddRateLimited` has still to put back |
| `pc`, `req`, `crapp`, `i` | the worker: where `Reconcile` is, its request, the version it read, the loop variable |
| `late` | creates whose sender is gone or has given up, still on their way to the API server |
| `reconciled`, `created`, `evicted` | history only: no action reads them |

Each API call of `Reconcile` is one action, so users, other managers, crashes and
watch events come between any two of them: `GetFound`, `GetNotFound`, `GetFails`
are the three exits of the read; `CreatePod`, `CreateExists`, `CreateForbidden`,
`CreateFails` the outcomes of one create; `Finish` the end of the loop. All
errors go through `ReturnError`: controller-runtime ignores `RequeueAfter` beside
an error and calls `AddRateLimited`. A lost answer and a lost lease do not
stop anything: `MayArrive` lets the API server apply the create later.

`ApplicationPods` is the abstract specification: Pods are only added, one at a
time, under a free name, asked for by a version of the Application, and Pod *i*
of a version only after Pod *i-1* of that version was made.

| Run | Instance | Shows |
|---|---|---|
| `controller_safety` | 1 Application, 2 managers without election, 2 writes with replicas -1, 1 or 2, 1 fault, Pods evicted | `TypeOK`, `NoLostUpdate`, `OneVersion`, `PodsWereAsked`, `AddsPodsOnly` |
| `controller_pickup` | 1 Application, 2 writes with replicas -1 or 1, 2 managers with one worker each and election, the shipped role (no right to create Pods), 2 faults | `EditsArePickedUp` |
| `controller_complete` | 2 racing managers, no fault | `StartedRunCompletes` |
| `controller_scale_up` | 1 manager, no fault | violates `ReflectsUserState` |
| `controller_forbidden` | 1 manager, the shipped role | violates `MovesCloser` |

Why the bounds are enough. Two managers give every race between two
runs, and a third could only repeat what one of them does, since runs meet only in the Pod names
and the first to make Pod 0 decides. Two writes give a stale cache, an edit during
a run, delete and re-create. Two replicas give a loop with a first, a
middle and a last test, and -1 is the value no validation stops. One fault
already separates a run from its create (`late`), or a process from its queue.
In `controller_pickup` the second write may come during the run of the
first version, before it or after it, and be an edit or a delete. -1 replicas make a run that ends well, after which nothing but the work queue brings the
Application back, 1 makes one that is refused and retried for ever. The event of an edit
that is dropped because its Application is in hand is then lost for good in the first case (the
mutant of that property). There is one Application, because what a second one could do to it, keep
the worker from it, is what the fairness below excludes: the queue is a FIFO.
The invariants of this part are also proved without these bounds
(section 11), so the runs matter most for the liveness properties.

Fairness (`Fairness`): a stopped process is started again by its Deployment; the
lease of a dead holder runs out; watch, timers and the worker go on. Weak
fairness is enough for all of these but one: the real work queue is a FIFO, the model keeps
only its set, so `Dequeue` has strong fairness in place of the order. Nothing is
assumed of users, of faults (which are bounded, `MaxFaults`), of a lease that is
lost while its holder runs, of late creates or of resyncs.

`CHECK_DEADLOCK FALSE`: without a create that fails for ever, the operator does come to
rest once users stop at `MaxEdits`; such a state is a legitimate end.

## 4. The shared informer factory

`SharedInformerFactory` has one action per step that another goroutine can tell
from its neighbours. `lock` is `f.lock`; `InformerFor` and `Start` hold it over
several actions (look up, make, store; test the flag, then one `Spawn` per type);
the critical sections of `Shutdown` and of the snapshot in `WaitForCacheSync`
touch guarded state only and are one action each, enabled while the lock is free.
`wg.Wait` is `ShutdownReturns`, enabled at zero. `routines` are the goroutines
`Start` spawned; each counts down the wait group when its stop channel is closed.
`made`, `handed`, `owed`, `down` are history.

Both factories (`kube-aggregator` and `crd-getting-started`) are
this type; they differ in the groups their accessors name.

`InformerLifecycle` is what the comments of the interface promise: an informer
goes from requestable to running to stopped, starts only while the factory is
open, and is not running when a `Shutdown` has returned.

| Run | Instance | Shows |
|---|---|---|
| `factory` | 2 goroutines, 2 types, 1 stop channel | `TypeOK`, `NoneAfterShutdown`, `OneInformer`, `SyncAnswers`, `NoAddAfterShutdown`, `KeepsLifecycle`, `CallsReturn` |

Two goroutines put a second call into every window of a first, and two types give a
loop that is half done. A call that has not got the lock yet has not begun: `CallsReturn` is
about those that have. A second stop channel would not fit the time a liveness check
has; the safety properties are proved for any number of
goroutines, types and channels (section 11), so the run matters most for `CallsReturn`.
Calls are not bounded: goroutines call again for ever. `FairSpec` assumes weak
fairness of the steps of a call that was made, of the goroutines and of
closing the stop channels, and strong fairness of taking the mutex for the
snapshot, as Go's mutex hands itself to a starving waiter. It does not assume that
anybody makes a call. A program that never closes its channels does hang in
`Shutdown`, as the comment there says.

## 5. Greeting objects

`FooObjects` is the heap of a program that uses the greeting API. Go maps and
slices are references, and whose memory an object's labels, annotations and
conditions are in is the interesting part: a reference is the number of the
struct its map or slice was made for. `ConvertHub` is the plain v2 conversion,
which assigns every field and so shares all three; `ConvertHubItem` the
list conversion, which reinterprets the array of structs through `unsafe.Pointer`;
`ConvertToV1` writes the image into the annotations, *its source's own map
unless that is nil*; `ConvertFromV1` reads it back; `DefaultV1` and `DefaultV2`
the defaulters; `DeepCopy` copies all three. `EditImage`, `EditAnnotation` and
`EditConditions` are the program.

A *family* is what conversion connects; a deep copy starts a new one.
`Isolated` says that two families share no memory. `OneFamilyChanges` says that
no step changes what objects of two families read. `ConversionsAgree` says
that converting in any order and as often as one likes leaves all objects of a
family in agreement on image and configuration (and on the status, for those that did not
pass v1, which has none): the write into the shared annotations is harmless
because the internal version and v2 never read that key, and all v1 objects of
one untouched family have the same image.

Run `foo_objects`: up to three objects from one, every order of operations, two
images, two phases, two condition lists. Three objects give
every chain of two conversions or copies and every pair that shares with a
third; the theorems below cover any number.

## 6. Registration objects

`APIServiceObjects` is the same kind of heap for `APIService`. What differs from
a Foo is the port: a pointer inside the `ServiceReference` in v1 and v1beta1, a
number inside, so that conversion cannot share the `ServiceReference` and makes a
new one, while `CABundle` and conditions are reinterpreted in place. A
reference is again the number of the object it was made for; `portAt` of a
`ServiceReference` is the pointer to the port, and for an internal one its own
home. `Convert` is `autoConvert_*_APIService_To_*` with all it calls, also for
an item of a list; `DeepCopy` the three `DeepCopyInto`; `Default` is
`SetObjectDefaults_APIService`; `Decode` a codec of the scheme, with the
defaulting that is registered (none); the four `Edit` actions are the program.

`Isolated` says that no two objects share a `ServiceReference` or port, not even
conversions of each other, and that families share nothing. `OneAddressChanges`
says the same of what can be observed: no step changes what two objects say of
where the server is. `ConversionsAgree` is about everything but the port,
`PortDecided` about the port: nil, 0 and 443 are three different things, and
which of them an object ends with depends on the order in which it was defaulted
and converted. The history fields `decoded`, `viaInternal` and `defaulted` of an
object say what that order was.

| Run | Instance | Shows |
|---|---|---|
| `api_service_objects` | up to 3 objects from one, ports 0 and 443, two of each other content, one family edited | `TypeOK`, `Isolated`, `OneAddressChanges`, `ConversionsAgree`, `PortDecided` |
| `api_service_port` | the same | violates `PortDefaults443` |

Three objects give a conversion and its way back, a conversion and a copy of
it, and defaulting before, between and after them; the theorems cover any number.

## 7. The wire format

The four `generated.pb.go` are one generator's work: the same varint loop,
length tests and `skipGenerated` for every message, and two lists per message
that have to agree with each other, the cases of `Unmarshal` and the tags
`MarshalToSizedBuffer` writes. `ApiMessages` holds the two lists for all 21
messages, separately, as the code does: a case is a *kind* (`Text`, `Pointer(t)`,
`List(t)`, ...) and a value of a message the sequence of its fields. v1beta1 of
the registration API is line for line the code of v1 and has v1's tables.

`ProtoDecoder` is `Unmarshal` with the calls it makes, one action per byte of a
varint and per decision. Variables against code:

| Variable | Code |
|---|---|
| `input` | the first call, its message type and bytes |
| `call`, `callers` | the call stack: the slice `dAtA` as a part of the input, `l`, `iNdEx`, `preIndex` and the field being read; of a call that waits, `iNdEx` is where it goes on (`postIndex`, or `preIndex` below `skipGenerated`) |
| `msg`, `outer` | the message decoded into, and those of the callers |
| `acc`, `weight` | `wire`, `msglen`, `stringLen`, `v`, ...: the varint so far, modulo 2^64, and `1 << shift` |
| `depth` | `depth` in `skipGenerated` |
| `pc` | which varint is read, or which test comes next; `done` and `failed` |

`Descend` and `UnknownField` are calls, `Ascend` and `SkipReturns` their returns; an
error at any depth fails the whole call. `Int64` is `int(x)` and what a sum of
two ints wraps to, `ToInt32` is `int32(x)`. The codecs of `ObjectMeta`,
`ListMeta` and `Time` are outside the repository: their bytes are kept as they
are, and `Externals` says which of them those codecs accept.

`ProtoEncoder` has `Size` and what `MarshalToSizedBuffer` leaves in the buffer as functions
of a message, and `ProtoRoundTrip` makes inputs with them: any number of messages of the
same type one after the other (`Joined`), which merge to one (`MergedAll`), and what
a newer version of the program writes for a message (`Extended`): as `Marshal`, but before,
between and behind the fields of the message, and of every message in it, it may put fields
that `Unmarshal` has no case for (`NewField`). Such a field is a sequence of tokens, as
`skipGenerated` goes through them: a tag, the bytes its wire type asks for, and how many
groups are open behind it (`Follows`); the field ends where none is (`Group`). In a group a
token may have the number of a known field, and as the code does not compare the number
of an end tag with that of the start tag, neither does `Follows`. `Newer` is
told by `extra` what to put where; a place is the way of pieces that leads there. A varint
in a new field is any word, written in as few bytes as `encodeVarintGenerated` does. What may be
marshalled is `Values`, the values of the Go types: every string, every number of an
int32, nil where there is a pointer, lists of any length. `Merged`, `Zero`, `Written` and `Size` are
recursive functions on the message types, which nest four deep.

| Run | Instance | Shows |
|---|---|---|
| `proto_codecs` | all strings of up to 5 bytes over tags (known, unknown, groups, every wire type), small lengths and continuation bytes, for 4 message types with nesting and lists | `TypeOK`, `InBounds`, `Returns` |
| | encodings of every message of the four files, most of them inside the lists; `APIServiceSpec`, `APIServiceStatus` and `Foo` also alone or joined; nil, empty, short and 130-byte strings; the extreme and the negative int32 | the same, `ReadsBack`, `SizeExact` |
| | an `APIServiceSpec` with one of 8 new fields at each place; a `Foo` with one of 7, of every wire type, groups in groups included, at each of 10 places in it, its status and the conditions there, or with three at every place | the same, `SkipsUnknown` |

Bounds. With 64-bit words an overflowing length takes ten bytes. `Word` and
`Word32` scale the widths to 10 and 6 bits: two or three bytes make a
negative length, or one whose sum with an index is negative, five bytes
leave room for a tag and a message around it, lengths from 128 on
take two bytes, and negative numbers are the longest varints, as they are
with 64. Encodings too long for ten bits are left out. `InBounds` is proved for every width of at least 5 bits that
is longer than the input needs (`WordAssumption`, `InputsAssumption`), `SizeExact`, `ReadsBack` and `SkipsUnknown`
for those among them that hold the tags and of which 32 bits are the low part
(`WidthAssumption`), for all messages and all new fields. The properties do not depend on
which bytes a string holds, only on which of them are read as tags and lengths, which the
alphabets vary.

`Returns` assumes weak fairness of `Next`: the code is sequential and nothing
blocks. Once it has returned only `Rest` is enabled, so that a deadlock before
that would be an error.

## 8. The life of an operator process

`OperatorStart` is `cmd/main.go` from the first `init` to the end of `mgr.Start`.
Variables against code:

| Variable | Code |
|---|---|
| `pc` | where `init` or `main` is; `exited` after `os.Exit(1)` |
| `builder`, `scheme` | `SchemeBuilder` of `api/v1`, `scheme` |
| `arrays`, `tlsOpts`, `given` | the backing arrays of all option lists, the slice `tlsOpts` (an array and a length), the slices in the options of the two servers |
| `watchers`, `held`, `added` | `webhookCertWatcher` and `metricsCertWatcher` that are not nil, the certificate each has read, those given to `mgr.Add` |
| `flags`, `disk` | the command line; the certificate files, of which a renewal replaces one before the other |

`append` is modelled as Go does it: in place while the array has room, which every
slice of that array sees, otherwise into a new array that has grown. That the two
servers' lists do not disturb each other (`OwnOptions`) rests on an array grown
from nothing having room for one element only; with a preallocated `tlsOpts` the
second `append` would overwrite the webhook's certificate by that of the metrics
server (the mutant of that property). `Exit` is any call that returns an error, and
the end of `mgr.Start`; `LoadFails` is a certificate that main reads while it is
being replaced. `Restart` is the kubelet, `ReadCertificate` the goroutine of a
watcher.

| Run | Instance | Shows |
|---|---|---|
| `operator_start` | every combination of flags, 2 renewals per server, 1 fault | `TypeOK`, `OwnOptions`, `RotationReachesServers`, `ComesUp` |

Two renewals let one fall into a start and one into the running operator, or two
into one start; a fault may happen at any call. Fairness (`Fairness`):
main does not stop by itself, a container that exits is restarted, a watcher polls its files,
and a renewal that has begun is completed (`RotateKey`), without which main would read
half a pair for ever. Renewals and faults are bounded and not fair. `CHECK_DEADLOCK FALSE`:
once the last renewal is read the process runs on without changing anything.

## 9. Client programs

`Clientsets` is a program that uses the generated clients. First its packages are
initialised: `InitVersion` is what the `init` functions of one version's package
register, `InitScheme` the call of `AddToScheme` in a clientset's scheme package, in any
order the imports allow. `AddToScheme` was made into a method value before, bound to
the builder's *address*; bound to its value it would see what was registered then, which is
nothing.

Then goroutines make clients from one `rest.Config`. Its copies are `mem`: the
program's own, one per goroutine for the constructor that is called (`"set"`), and
one for the constructor that calls for a single client (`"typed"`). `NewForConfig`,
`NewForConfigAndClient` (of a clientset) and `TypedNewForConfig`,
`TypedNewForConfigAndClient` (of a version's package) start a call; `HTTPClientFor`,
`RateLimiterKept`, `RateLimiterMade`, `BurstRefused`, `TypedConfig` and
`RESTClientFor` are its steps; missing files, a missing burst and a host that is not
a URL (`RESTClientRefused`) end it. A rate limiter is known by who made it.

`TypedInformers` goes on with the same program: `NewSharedInformerFactory` takes
one of the clientsets and the factory's options; `TypedInformer` is `Informer()` or
`Lister()` of a version, `ForResource` the generic way, both end in `InformerFor`;
`ListWatch` is `NewFiltered...Informer`, with the two functions' client and filter. `List`,
`Watch`, `WatchEvent` and `WatchEnds` are client-go's reflector and the API server,
a log of the states of its objects: a list comes from a state not older than what
the reflector has seen, a watch goes on where the list or the last watch ended, and
an object that leaves the selection is deleted from the watch.

| Run | Instance | Shows |
|---|---|---|
| `client_program` | 2 goroutines with a call each, every config (with and without limiter, burst, valid TLS files and a valid host; negative, zero and positive QPS), every factory option, 2 namespaces, 2 writes, 1 watch that ends | `TypeOK`, `OwnVersion`, `OneBudget`, `MirrorsServer`, `OneIndexer`, `CatchesUp` |

Two goroutines give every pair of constructors and every interleaving of two.
Two namespaces give one that is selected and one that is not; two writes bring an
object into the selection and out of it again, before, between or after list and watch; one end
of a watch gives a watch that is opened again and one that must list again. The safety
properties are proved without these bounds. Fairness: only of
a started informer's reflector (`Reflect`), which client-go retries for ever.
`CHECK_DEADLOCK FALSE`: a program whose calls all failed, or with nothing to do any more, is at rest.

## 10. What the runs found

* `controller_scale_up`. The comment of `Reconcile`
  (`operators/application-operator/internal/controller/application_controller.go:45-50`)
  says the loop moves the cluster to the state the user specified. After an
  update of `replicas` it does not: the run starts again at Pod 0, whose
  name is taken, and `AlreadyExists` ends it (`:78-81`). For the same reason the
  retry asked for after a failed create never gets past Pod 0. No Pod is ever
  deleted.
* `controller_forbidden`. The role generated from the markers (`:41-43`) has no rule
  for pods, so as shipped no create succeeds.
* `api_service_port`. The types say of an APIService's port "Default to 443 for
  backward compatibility" (`kube-aggregator/pkg/apis/registration/v1/types.go:79`).
  The function that does it is reached only through `addDefaultingFuncs`
  (`v1/defaults.go:8`), which nothing calls, so an object decoded without a port is
  converted to one with port 0.

## 11. What is proved

All theorems hold for every value of the constants under the `ASSUME`s of the
modules (the constants are of the right type; `Types` is finite; `None`, `Unset`
are not ordinary values); no bound is needed. Where a specification has a bound
(`MaxEdits`, `MaxRotations`, `MaxWrites`, ...) it is any number.

`ApplicationController_proofs`: `TypeCorrect` (every cached, read or reconciled
version exists), `AskedAlways`, `Implements`, `NothingLost`,
`OneVersionAlways`. The argument rests on the log only growing (`LogGrows`): what a
version says never changes, so a worker's version stays good. The invariant for
the Pods adds to `PodsWereAsked` what makes it inductive: it also holds for
creates still under way, and a worker at `i > 0` has made Pod `i-1` of its
version. `NoLostUpdate` is strengthened to name where each request is. For `OneVersion` the
invariant says that at most one version of an Application has a live run, one past
Pod 0, and that Pods exist only up to where that run got: everyone else needs
the name of Pod 0, which is taken.

`SharedInformerFactory_proofs`: `FactoryTypeCorrect`, `NoneRunsAfterShutdown`,
`OneInformerAlways`, `AnswersAlways`, `NoLateAdd`, `FactoryImplements`. The
invariant is that `wg` is the number of goroutines that are not done, that a type
is in `startedInformers` exactly when it has its one goroutine, that a goroutine
in `Start`'s loop holds the lock and saw the flag unset, and that `shuttingDown`
holds once anyone waits. `FactoryImplements` maps each step to `Launch`, `Halt`, `Close`,
`Shut` or a stutter.

`FooObjects_proofs`: `FooTypeCorrect`, `IsolatedAlways`, `OneFamilyAlways`,
`ConversionsAgreeAlways`. The invariant (`Owned`) says whose family owns each
cell; a frame lemma says what a step leaves readable in the other families.

`APIServiceObjects_proofs`: `APIServiceTypeCorrect`, `APIServiceIsolated`,
`PortDecidedAlways`, `OneAddressChangesAlways`, `APIServiceVersionsAgree`. The
invariant says that an object's `ServiceReference` and port are at its own home or
nil (`Sound`), that bundle and conditions are at a home of its family (`Owned`),
that an object that ever was internal has a port, which is why a late default
finds nothing to do, and that the port is the expected one (`Decided`).
`EditShape` gives all four edits one form.

`ProtoDecoder_proofs`: `DecoderTypeCorrect`, `InBoundsAlways`. Besides `InBounds`,
the invariant says that `skipGenerated` always has a caller, that the field being read is
one of the message's (so that what is descended into has an `Unmarshal` of its own,
`MessagesClosed`), and that `skipGenerated` starts a field only at an index that
is not negative. The heart is arithmetic, `SumFits`: a sum of two ints below half a
word that is not negative did not wrap, so the two comparisons in the code do
bound the slice. `PushFrames` and `PopFrames` say once for all calls and returns that
the slices stay nested.

`ProtoRoundTrip_proofs`: `SizeIsLength`, `SizeExactAlways`. The heart is `VarintLength`:
`encodeVarintGenerated` takes 7 bits per byte from the low end, `sovGenerated` counts the
bits of `v | 1` by `bits.Len64`, and both come to the same number of bytes. A message is
then a sequence of *pieces*, a tag and what follows it; `Size` is the sum over the
fields, what is written the pieces in a row, and a message in it counts
with its length in front. The module also proves what the decoder has to find:
taking the pieces of `v` one by one into a message `m`, as the cases of `Unmarshal` do,
makes `Merged[t][m][v]` (`PiecesApplied`), and merging with the zero message changes nothing
(`ZeroNeutral`), so that one encoding alone gives `v` back.

`ProtoDecoder_proofs` also proves `ReadsBackAlways` and `SkipsUnknownAlways`, from `Inv` and
one more invariant, `Faithful`. Both are about texts that stand for a message, and one
argument serves both. Let `W` say which texts may stand for each message inside another:
`Marshalled`, where it is what `Marshal` writes, or `Renewed`, where it is what a newer
version writes there, which depends on the place. `Rendered(W, t, n, ps, r)` says
that the text `r` begins where `n` groups are open and holds the pieces `ps` of a message of type `t`:
it is the least relation that holds of the empty text and is kept when a piece,
or a token that may stand there, is put in front. So a text that is not empty begins with one
of the two (`RenderedBegins`), the texts of fields that no case knows hold no pieces
(`RenderedField`), and texts in a row hold the pieces of both (`RenderedConcat`). That the
inputs are such texts is `JoinedRendered` and `ExtendedRendered`.

`Faithful` gives each call on the stack a goal, the message it will end with. Between two fields the rest of
the slice of the running call is rendered from some pieces, and taking those into `msg` as it
is now makes the goal (`BetweenPieces`). In the middle of a piece (`InPiece`) the rest of that piece
stands before them, and in the middle of a varint its bytes so far and those ahead make the
number (`Counting`). In the tag of a new field (`InNewField`) the field's text is still there from
`preIndex` on, where `Unmarshal` goes back to; in `skipGenerated` (`Skipping`) what is ahead is a text that
begins with `depth` groups open, and its slice is the rest of its caller's (`SkipFrame`), so that
what it has skipped is what its caller moves on by. When `depth` is 0 again a
text with no group open remains, which is `BetweenPieces` of the caller (`SkipReturnsReads`). A call that waits has the goal its
remaining pieces make once its field holds the goal of the call it waits for (`Waits`); the caller of
`skipGenerated` waits for no message and has the same goal as it (`Waiting`). Calls of `Unmarshal` push a goal,
their returns pop it, every other step keeps the goals, and no error exit is enabled (`NotRefused`): every
tag is one that was written, groups never close more often than they open, and no length is negative
or leaves the slice. TLC cannot evaluate `Faithful` itself, which chooses among all texts; what it implies are
`ReadsBack` and `SkipsUnknown`, which TLC checks.

What a recursive function computes is proved without an induction principle that takes an
operator: `Least` and `SetInduction` say of *sets* what induction says of predicates, and
`RecursionExists` that a function defined by recursion to smaller numbers exists, so
that the `CHOOSE` behind a recursive definition has its equation (`SizeUnfolds`, `WrittenUnfolds`,
`MergedUnfolds`, `EncodeVarintUnfolds`, ...). For the messages the number is `Rank`, the depth to which
their types nest.

`OperatorStart_proofs`: `StartTypeCorrect`, `OwnOptionsAlways`. The invariant
(`TlsOptsFull`) says that `tlsOpts` never has spare capacity, so that every later
`append` makes a new array (`AppendMakesArray`) and all lists built before keep
their contents (`ContentsKept`).

`TypedInformers_proofs`: `ClientProgramTypeCorrect`, `OwnVersionAlways`,
`OneBudgetAlways`, `MirrorsServerAlways`, `OneIndexerAlways`. For the clients the invariant
(`CallInv`) says of each call where its copies of the config are and what is in them:
the program's QPS, the limiter of its `Budget`, the version that is next. A goroutine
writes to its own copies only, so another's call is not disturbed
(`OthersKept`). For the informers (`InformersRight`) it says that what is kept for a type is
the informer its own package makes; this lists and watches with one
selection (`InformerSelects`), and then an event takes the selection of one state to
that of the next (`EventSelects`).

Only model-checked: the liveness properties (`EditsArePickedUp`,
`StartedRunCompletes`, `CallsReturn`, `Returns`, `RotationReachesServers`, `ComesUp`,
`CatchesUp`), which need fairness, and the three violated
properties, which are counterexamples. Every invariant, action property and
refinement that a run checks has a theorem.

## 12. What is not modelled

* Operator: Pods of other origin under the operator's names, names too long for the API
  server, graceful deletion, finalizers (the code has none), namespaces (the
  request's is used throughout), more than one worker per process (the default
  is one), the order of the work queue, and of `main` the flag texts, logging, the
  filter of the metrics server and the probes' answers. Relists appear as jumps of the watch to a later
  version.
* Factory: custom resync periods and transforms, which do not change what a cache
  follows, and what an informer does with events, which is client-go's.
* Greeting objects: two goroutines on one object. The package has no lock and
  leaves that to its callers, none of which is in the repository.
* Registration with a scheme: `install.Install` and the registration of the internal
  types, which nothing in the repository calls.
* Clients: `New` and the `OrDie` variants; the verbs other than list and watch and the
  listers, one REST call or index lookup each;
  user agent, API path and serializer, which are set as the version is. The fake clientsets are
  for tests; their watches ignore label selectors and where a list ended
  (`fake/clientset_generated.go:37-45`), so that a cache fed by one may miss a write
  between its list and its watch: `MirrorsServer` is about the real client only.
* Informers of a client program: the factory's lock, `Shutdown` and waiting, which
  `SharedInformerFactory` models with one type per call; storage and conversion of the
  two versions of one object in the API server.
* OpenAPI definitions, scripts, images, manifests: data.
* Codecs: `String()`, the `XXX_` methods and descriptors, used by the proto
  library through reflection; which error is returned; the contents of
  `ObjectMeta`, `ListMeta` and `Time`, whose codecs are not in the repository; `MarshalTo` into a buffer
  of the caller's.
* Registration objects: metadata, which is assigned and copied as a Foo's, and, as
  there, a second goroutine.
