----------------------------- MODULE TypedInformers -----------------------------
(***************************************************************************)
(* The program of Clientsets goes on: with one of its clientsets it makes  *)
(* an informer factory (pkg/client/informers/externalversions), asks it    *)
(* for informers and listers by version or by resource, and starts them.   *)
(*                                                                         *)
(* The informers' list and watch functions are the repository's, the       *)
(* reflector that calls them is client-go's; the API server keeps a log of *)
(* the states of its objects and answers lists and watches from it.  An    *)
(* object is one Foo per namespace, or one APIService, which has none.     *)
(* SharedInformerFactory models the factory's lock, Shutdown and waiting.  *)
(***************************************************************************)
EXTENDS Clientsets

CONSTANTS
    Namespaces,     \* the namespaces, and the names of the objects in them
    All,            \* metav1.NamespaceAll
    MaxWrites,      \* bound: writes to the API server
    MaxBreaks       \* bound: watches that end or expire

ASSUME AllAssumption == All \notin Namespaces
ASSUME BoundsAssumption == {MaxWrites, MaxBreaks} \subseteq Nat

VARIABLES
    reads,      \* reads[v]: the version the clientset's client for v asks for
    options,    \* the factory's namespace, and whether its tweak selects labelled objects
    informers,  \* informers[v]: the informer stored for the type of v, None if none is
    started,    \* the versions whose informer runs
    handed,     \* history: the versions asked for and the type whose informer was given
    log,        \* the states of the objects on the API server, oldest first
    indexer,    \* indexer[v]: the objects in the cache of v's informer
    seen,       \* seen[v]: the place in log its reflector has reached, 0 before the first list
    reflector,  \* reflector[v]: what its reflector does: list, watch (open one) or stream
    breaks      \* watches ended so far

informerVars == <<reads, options, informers, started, handed, log, indexer, seen, reflector, breaks>>
vars == <<clientVars, informerVars>>

-----------------------------------------------------------------------------
Objects == Namespaces
States == {"absent", "plain", "labelled"}
Nothing == [o \in Objects |-> "absent"]

Filter == [namespace : Namespaces \cup {All}, labelled : BOOLEAN]

Matches(filter, o, state) ==
    /\ state # "absent"
    /\ filter.namespace \in {All, o}
    /\ filter.labelled => state = "labelled"

\* What a list with that filter returns.
Selection(filter, states) == [o \in Objects |-> IF Matches(filter, o, states[o]) THEN states[o] ELSE "absent"]

\* NewFiltered...Informer: ListFunc and WatchFunc apply the tweak and call a client.
Informer == [client : Versions, list : Filter, watch : Filter]

ASSUME NoneAssumption == None \notin Callers \cup Clients \cup Limiters \cup RESTClient \cup Informer

ListWatchUntweaked(v, namespace) ==
    [client |-> v, list |-> [namespace |-> namespace, labelled |-> options.labelled],
     watch |-> [namespace |-> namespace, labelled |-> FALSE]]

ListWatch(v, namespace) ==
    [client |-> v, list |-> [namespace |-> namespace, labelled |-> options.labelled],
     watch |-> [namespace |-> namespace, labelled |-> options.labelled]]

GreetingV1Informer == ListWatch("greeting/v1", options.namespace)
GreetingV2Informer == ListWatch("greeting/v2", options.namespace)
RegistrationV1Informer == ListWatch("registration/v1", All)
RegistrationV1beta1Informer == ListWatch("registration/v1beta1", All)

DefaultInformer(v) ==
    CASE v = "greeting/v1" -> GreetingV1Informer
      [] v = "greeting/v2" -> GreetingV2Informer
      [] v = "registration/v1" -> RegistrationV1Informer
      [] v = "registration/v1beta1" -> RegistrationV1beta1Informer

TypeOK ==
    /\ ClientTypeOK
    /\ reads \in [Versions -> Clients \cup {None}]
    /\ options \in Filter
    /\ informers \in [Versions -> Informer \cup {None}]
    /\ started \subseteq {v \in Versions : informers[v] # None}
    /\ handed \subseteq [asked : Versions, got : Versions]
    /\ log \in Seq([Objects -> States]) /\ Len(log) \in 1..(MaxWrites + 1)
    /\ indexer \in [Versions -> [Objects -> States]]
    /\ seen \in [Versions -> 0..Len(log)] /\ \A v \in Versions : seen[v] > 0 => v \in started
    /\ reflector \in [Versions -> {"list", "watch", "stream"}]
    /\ \A v \in Versions : reflector[v] # "list" => seen[v] > 0
    /\ breaks \in 0..MaxBreaks

Init ==
    /\ ClientInit
    /\ reads = [v \in Versions |-> None]
    /\ options = [namespace |-> All, labelled |-> FALSE]
    /\ informers = [v \in Versions |-> None] /\ started = {} /\ handed = {}
    /\ log = <<Nothing>> /\ indexer = [v \in Versions |-> Nothing]
    /\ seen = [v \in Versions |-> 0] /\ reflector = [v \in Versions |-> "list"]
    /\ breaks = 0

-----------------------------------------------------------------------------
\* The goroutines have ended; the clientset one of them made is given to a factory with
\* the options WithNamespace and WithTweakListOptions, or without, and the rest of what
\* they made is garbage.
NewSharedInformerFactory(g, namespace, labelled) ==
    /\ stage = "clients" /\ \A h \in Callers : call[h].pc \in {"done", "failed"}
    /\ call[g].pc = "done" /\ ~call[g].one
    /\ stage' = "informers"
    /\ reads' = [v \in Versions |-> IF made[g][v] = None THEN None ELSE made[g][v].version]
    /\ options' = [namespace |-> namespace, labelled |-> labelled]
    /\ mem' = [s \in Slots |-> NoConfig]
    /\ call' = [h \in Callers |-> NoCall] /\ made' = NothingMade
    /\ UNCHANGED <<inited, builder, scheme, informers, started, handed, log, indexer, seen, reflector, breaks>>

\* InformerFor, called with the type of version key and a constructor: the first call
\* for a type makes its informer.
InformerFor(asked, key, informer) ==
    /\ stage = "informers" /\ reads[asked] # None
    /\ informers' = [informers EXCEPT ![key] = IF @ = None THEN informer ELSE @]
    /\ handed' = handed \cup {[asked |-> asked, got |-> key]}
    /\ UNCHANGED <<clientVars, reads, options, started, log, indexer, seen, reflector, breaks>>

\* Informer() or Lister() of a version's informer, which the group's and the version's
\* accessors make anew each time, with the factory's options.
TypedInformer(v) == InformerFor(v, v, DefaultInformer(v))

\* The switch of ForResource: the accessor that the resource of a version leads to.  For
\* other resources it returns an error.
GreetingResourcesStuck == [v \in VersionsOf("greeting") |-> "greeting/v1"]

GreetingResources == [v \in VersionsOf("greeting") |-> v]
RegistrationResources == [v \in VersionsOf("registration") |-> v]

ForResource(v) ==
    LET to == IF v \in VersionsOf("greeting") THEN GreetingResources[v] ELSE RegistrationResources[v] IN
    InformerFor(v, to, DefaultInformer(to))

\* Start runs what was asked for so far.
Start ==
    /\ stage = "informers"
    /\ started' = {v \in Versions : informers[v] # None}
    /\ UNCHANGED <<clientVars, reads, options, informers, handed, log, indexer, seen, reflector, breaks>>

-----------------------------------------------------------------------------
\* The API server's users.
Write(o, state) ==
    /\ stage = "informers" /\ Len(log) <= MaxWrites /\ log[Len(log)][o] # state
    /\ log' = Append(log, [log[Len(log)] EXCEPT ![o] = state])
    /\ UNCHANGED <<clientVars, reads, options, informers, started, handed, indexer, seen, reflector, breaks>>

\* What an informer's client gets must be a type its scheme knows.
CanReadUnstarted(v) == informers[v] # None /\ <<reads[informers[v].client], "types">> \in scheme

CanRead(v) == v \in started /\ <<reads[informers[v].client], "types">> \in scheme

\* A list is answered from a state that is not older than what was seen before.
List(v, place) ==
    /\ CanRead(v) /\ reflector[v] = "list"
    /\ place \in 1..Len(log) /\ place >= seen[v]
    /\ indexer' = [indexer EXCEPT ![v] = Selection(informers[v].list, log[place])]
    /\ seen' = [seen EXCEPT ![v] = place]
    /\ reflector' = [reflector EXCEPT ![v] = "watch"]
    /\ UNCHANGED <<clientVars, reads, options, informers, started, handed, log, breaks>>

\* A watch is opened at the place the list, or the watch before it, has reached.
Watch(v) ==
    /\ CanRead(v) /\ reflector[v] = "watch"
    /\ reflector' = [reflector EXCEPT ![v] = "stream"]
    /\ UNCHANGED <<clientVars, reads, options, informers, started, handed, log, indexer, seen, breaks>>

\* The next write: added or modified if its result matches the watch's options, deleted
\* if only what it replaced did, nothing otherwise.
EventApplied(v, before, after) ==
    [o \in Objects |->
        IF before[o] = after[o] \/ ~(Matches(informers[v].watch, o, before[o]) \/ Matches(informers[v].watch, o, after[o]))
        THEN indexer[v][o]
        ELSE IF Matches(informers[v].watch, o, after[o]) THEN after[o] ELSE "absent"]

WatchEvent(v) ==
    /\ CanRead(v) /\ reflector[v] = "stream" /\ seen[v] < Len(log)
    /\ indexer' = [indexer EXCEPT ![v] = EventApplied(v, log[seen[v]], log[seen[v] + 1])]
    /\ seen' = [seen EXCEPT ![v] = @ + 1]
    /\ UNCHANGED <<clientVars, reads, options, informers, started, handed, log, reflector, breaks>>

\* A watch ends, and is opened again where it ended, or that place is no longer served.
WatchEnds(v, next) ==
    /\ reflector[v] = "stream" /\ breaks < MaxBreaks
    /\ reflector' = [reflector EXCEPT ![v] = next] /\ breaks' = breaks + 1
    /\ UNCHANGED <<clientVars, reads, options, informers, started, handed, log, indexer, seen>>

-----------------------------------------------------------------------------
Reflect(v) == Watch(v) \/ WatchEvent(v) \/ \E place \in 1..Len(log) : List(v, place)

Next ==
    \/ ClientNext /\ UNCHANGED informerVars
    \/ \E g \in Callers, namespace \in Namespaces \cup {All}, labelled \in BOOLEAN :
         NewSharedInformerFactory(g, namespace, labelled)
    \/ \E v \in Versions : TypedInformer(v) \/ ForResource(v)
    \/ Start
    \/ \E o \in Objects, state \in States : Write(o, state)
    \/ \E v \in Versions : Reflect(v) \/ WatchEnds(v, "watch") \/ WatchEnds(v, "list")

Spec == Init /\ [][Next]_vars

\* A started informer's goroutine lists, watches and is served in the end.
FairSpec == Spec /\ \A v \in Versions : WF_vars(Reflect(v))

-----------------------------------------------------------------------------
\* "Listers obtained via this SharedInformerFactory will be subject to the same filters
\* as specified here": a cache holds what the factory's options select, of one state the
\* API server was in, whatever the watch brought since the list.
Namespaced(v) == v \in VersionsOf("greeting")

Asked(v) == [options EXCEPT !.namespace = IF Namespaced(v) THEN @ ELSE All]

MirrorsServer ==
    \A v \in Versions : seen[v] > 0 => indexer[v] = Selection(Asked(v), log[seen[v]])

\* Every way to ask for a version's informer leads to the one informer of its type, and
\* that one reads through a client of its version.
OneIndexer ==
    \A h \in handed :
        /\ h.got = h.asked
        /\ informers[h.asked] # None /\ reads[informers[h.asked].client] = h.asked

\* Once the writes and the breaks end, every started informer catches up with the server.
CatchesUp == \A v \in Versions : <>[](v \in started => seen[v] = Len(log))
=============================================================================
