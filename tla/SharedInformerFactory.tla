------------------------- MODULE SharedInformerFactory -------------------------
(***************************************************************************)
(* sharedInformerFactory, the type both modules generate                   *)
(* (pkg/client/informers/externalversions/factory.go): goroutines of a     *)
(* program call InformerFor, Start, Shutdown and WaitForCacheSync on one   *)
(* factory.                                                                *)
(*                                                                         *)
(* The mutex is explicit where other goroutines can see the inside of a    *)
(* critical section (Start spawns while it holds the lock, InformerFor     *)
(* looks up and then stores); the sections of Shutdown and of the snapshot *)
(* in WaitForCacheSync touch only state the mutex guards and are one step. *)
(***************************************************************************)
EXTENDS Naturals, Sequences, FiniteSets

CONSTANTS
    Callers,    \* goroutines that use the factory
    Types,      \* the informer types, as reflect.Type
    Channels,   \* stop channels
    None        \* no caller, type or channel

ASSUME NoneAssumption == None \notin Callers \cup Types \cup Channels
ASSUME TypesAssumption == IsFiniteSet(Types)

VARIABLES
    lock,               \* f.lock: its holder or None
    informers,          \* f.informers: the instance stored for a type, 0 for none
    startedInformers,   \* f.startedInformers: the types marked true
    shuttingDown,       \* f.shuttingDown
    wg,                 \* f.wg: its counter
    routines,           \* the goroutines Start spawned, oldest first
    closed,             \* the stop channels closed so far
    synced,             \* the types whose informer HasSynced
    pc,                 \* pc[c]: where c is, see Places
    want,               \* want[c]: the type c asked InformerFor for
    todo,               \* todo[c]: the types c's loop has not reached yet
    stopCh,             \* stopCh[c]: the channel c passed
    ok,                 \* ok[c]: the types c's WaitForCacheSync reports true
    missed,             \* missed[c]: the types it reports false
    owed,               \* history: the types started when c called WaitForCacheSync
    made,               \* history: calls of newFunc for a type
    handed,             \* history: the instances InformerFor returned for a type
    down                \* history: some Shutdown has returned

guarded == <<informers, startedInformers, shuttingDown>>
routineVars == <<wg, routines, synced>>
callVars == <<want, todo, stopCh, ok, missed, owed>>
history == <<made, handed, down>>
vars == <<lock, guarded, routineVars, closed, pc, callVars, history>>

-----------------------------------------------------------------------------
Places == {
    "idle",
    "lookup",   \* in InformerFor, lock held
    "new",      \* in InformerFor, nothing found, lock held
    "start",    \* in Start, lock held, before the test of shuttingDown
    "spawn",    \* in Start's loop, lock held
    "wait",     \* in Shutdown, at f.wg.Wait
    "snapshot", \* in WaitForCacheSync, before f.lock.Lock
    "sync"}     \* in WaitForCacheSync's loop

Locked == {"lookup", "new", "start", "spawn"}

Routine == [type : Types, stopCh : Channels, at : {"ready", "running", "done"}]

TypeOK ==
    /\ lock \in Callers \cup {None}
    /\ \A c \in Callers : pc[c] \in Locked => lock = c
    /\ informers \in [Types -> Nat]
    /\ startedInformers \subseteq {t \in Types : informers[t] # 0}
    /\ shuttingDown \in BOOLEAN
    /\ wg \in Nat
    /\ routines \in Seq(Routine)
    /\ closed \subseteq Channels
    /\ synced \subseteq startedInformers
    /\ pc \in [Callers -> Places]
    /\ want \in [Callers -> Types \cup {None}]
    /\ \A c \in Callers : pc[c] \in {"lookup", "new"} => want[c] \in Types
    /\ todo \in [Callers -> SUBSET Types]
    /\ stopCh \in [Callers -> Channels \cup {None}]
    /\ \A c \in Callers : pc[c] \in {"start", "spawn", "snapshot", "sync"} => stopCh[c] \in Channels
    /\ ok \in [Callers -> SUBSET startedInformers]
    /\ missed \in [Callers -> SUBSET startedInformers]
    /\ owed \in [Callers -> SUBSET startedInformers]
    /\ made \in [Types -> Nat]
    /\ handed \in [Types -> SUBSET Nat]
    /\ down \in BOOLEAN

Init ==
    /\ lock = None
    /\ informers = [t \in Types |-> 0]
    /\ startedInformers = {}
    /\ shuttingDown = FALSE
    /\ wg = 0
    /\ routines = <<>>
    /\ closed = {}
    /\ synced = {}
    /\ pc = [c \in Callers |-> "idle"]
    /\ want = [c \in Callers |-> None]
    /\ todo = [c \in Callers |-> {}]
    /\ stopCh = [c \in Callers |-> None]
    /\ ok = [c \in Callers |-> {}]
    /\ missed = [c \in Callers |-> {}]
    /\ owed = [c \in Callers |-> {}]
    /\ made = [t \in Types |-> 0]
    /\ handed = [t \in Types |-> {}]
    /\ down = FALSE

Goto(c, place) == pc' = [pc EXCEPT ![c] = place]

\* c's call returns and its variables go.
Return(c) ==
    /\ Goto(c, "idle")
    /\ want' = [want EXCEPT ![c] = None]
    /\ todo' = [todo EXCEPT ![c] = {}]
    /\ stopCh' = [stopCh EXCEPT ![c] = None]
    /\ ok' = [ok EXCEPT ![c] = {}]
    /\ missed' = [missed EXCEPT ![c] = {}]
    /\ owed' = [owed EXCEPT ![c] = {}]

\* Mutant: a section of the factory forgets f.lock.Lock().
AcquireNot(c) == UNCHANGED lock

\* f.lock.Lock()
Acquire(c) == lock = None /\ lock' = c

\* defer f.lock.Unlock()
Release(c) == lock' = None

-----------------------------------------------------------------------------
(* InformerFor                                                             *)

InformerFor(c, t) ==
    /\ pc[c] = "idle"
    /\ Acquire(c)
    /\ Goto(c, "lookup")
    /\ want' = [want EXCEPT ![c] = t]
    /\ UNCHANGED <<guarded, routineVars, closed, todo, stopCh, ok, missed, owed, history>>

\* return informer
Hand(t, informer) == handed' = [handed EXCEPT ![t] = @ \cup {informer}]

InformerExists(c) ==
    /\ pc[c] = "lookup"
    /\ informers[want[c]] # 0
    /\ Hand(want[c], informers[want[c]])
    /\ Release(c)
    /\ Return(c)
    /\ UNCHANGED <<guarded, routineVars, closed, made, down>>

InformerMissing(c) ==
    /\ pc[c] = "lookup"
    /\ informers[want[c]] = 0
    /\ Goto(c, "new")
    /\ UNCHANGED <<lock, guarded, routineVars, closed, callVars, history>>

\* The instances of a type are numbered by the calls of newFunc.
InformerNew(c) ==
    LET t == want[c] IN
    /\ pc[c] = "new"
    /\ made' = [made EXCEPT ![t] = @ + 1]
    /\ informers' = [informers EXCEPT ![t] = made[t] + 1]
    /\ Hand(t, made[t] + 1)
    /\ Release(c)
    /\ Return(c)
    /\ UNCHANGED <<startedInformers, shuttingDown, routineVars, closed, down>>

-----------------------------------------------------------------------------
(* Start                                                                   *)

Requested == {t \in Types : informers[t] # 0}

Start(c, ch) ==
    /\ pc[c] = "idle"
    /\ Acquire(c)
    /\ Goto(c, "start")
    /\ stopCh' = [stopCh EXCEPT ![c] = ch]
    /\ UNCHANGED <<guarded, routineVars, closed, want, todo, ok, missed, owed, history>>

StartRefused(c) ==
    /\ pc[c] = "start"
    /\ shuttingDown
    /\ Release(c)
    /\ Return(c)
    /\ UNCHANGED <<guarded, routineVars, closed, history>>

\* Mutant: Start does not look at shuttingDown.
StartAnyway(c) ==
    /\ pc[c] = "start"
    /\ todo' = [todo EXCEPT ![c] = Requested]
    /\ Goto(c, "spawn")
    /\ UNCHANGED <<lock, guarded, routineVars, closed, want, stopCh, ok, missed, owed, history>>

StartLoop(c) ==
    /\ pc[c] = "start"
    /\ ~shuttingDown
    /\ todo' = [todo EXCEPT ![c] = Requested]
    /\ Goto(c, "spawn")
    /\ UNCHANGED <<lock, guarded, routineVars, closed, want, stopCh, ok, missed, owed, history>>

Reached(c, t) == t \in todo[c] /\ todo' = [todo EXCEPT ![c] = @ \ {t}]

SkipStarted(c, t) ==
    /\ pc[c] = "spawn"
    /\ Reached(c, t)
    /\ t \in startedInformers
    /\ UNCHANGED <<lock, guarded, routineVars, closed, pc, want, stopCh, ok, missed, owed, history>>

\* Mutant: startedInformers is not looked at.
SpawnAgain(c, t) ==
    /\ pc[c] = "spawn"
    /\ Reached(c, t)
    /\ wg' = wg + 1
    /\ routines' = Append(routines, [type |-> t, stopCh |-> stopCh[c], at |-> "ready"])
    /\ startedInformers' = startedInformers \cup {t}
    /\ UNCHANGED <<lock, informers, shuttingDown, synced, closed, pc, want, stopCh, ok, missed, owed, history>>

\* f.wg.Add(1); go func() {...}(); f.startedInformers[informerType] = true
Spawn(c, t) ==
    /\ pc[c] = "spawn"
    /\ Reached(c, t)
    /\ t \notin startedInformers
    /\ wg' = wg + 1
    /\ routines' = Append(routines, [type |-> t, stopCh |-> stopCh[c], at |-> "ready"])
    /\ startedInformers' = startedInformers \cup {t}
    /\ UNCHANGED <<lock, informers, shuttingDown, synced, closed, pc, want, stopCh, ok, missed, owed, history>>

StartReturns(c) ==
    /\ pc[c] = "spawn"
    /\ todo[c] = {}
    /\ Release(c)
    /\ Return(c)
    /\ UNCHANGED <<guarded, routineVars, closed, history>>

-----------------------------------------------------------------------------
(* The goroutines Start spawned: client-go's informer.Run until the stop   *)
(* channel closes, then f.wg.Done.                                         *)

Live(k) == routines[k].at # "done"

RoutineRuns(k) ==
    /\ routines[k].at = "ready"
    /\ routines' = [routines EXCEPT ![k].at = "running"]
    /\ UNCHANGED <<lock, guarded, wg, synced, closed, pc, callVars, history>>

RoutineSyncs(k) ==
    /\ routines[k].at = "running"
    /\ routines[k].type \notin synced
    /\ synced' = synced \cup {routines[k].type}
    /\ UNCHANGED <<lock, guarded, wg, routines, closed, pc, callVars, history>>

\* Mutant: wg.Done is not deferred and an early return misses it.
RoutineReturnsUndone(k) ==
    /\ routines[k].at = "running"
    /\ routines[k].stopCh \in closed
    /\ routines' = [routines EXCEPT ![k].at = "done"]
    /\ wg' = IF routines[k].type \in synced THEN wg - 1 ELSE wg
    /\ UNCHANGED <<lock, guarded, synced, closed, pc, callVars, history>>

RoutineReturns(k) ==
    /\ routines[k].at = "running"
    /\ routines[k].stopCh \in closed
    /\ routines' = [routines EXCEPT ![k].at = "done"]
    /\ wg' = wg - 1
    /\ UNCHANGED <<lock, guarded, synced, closed, pc, callVars, history>>

\* The owner of a stop channel closes it.
CloseChannel(ch) ==
    /\ ch \notin closed
    /\ closed' = closed \cup {ch}
    /\ UNCHANGED <<lock, guarded, routineVars, pc, callVars, history>>

-----------------------------------------------------------------------------
(* Shutdown                                                                *)

\* Mutant: shuttingDown is set without the lock.
ShutdownUnlocked(c) ==
    /\ pc[c] = "idle"
    /\ shuttingDown' = TRUE
    /\ Goto(c, "wait")
    /\ UNCHANGED <<lock, informers, startedInformers, routineVars, closed, callVars, history>>

Shutdown(c) ==
    /\ pc[c] = "idle"
    /\ lock = None
    /\ shuttingDown' = TRUE
    /\ Goto(c, "wait")
    /\ UNCHANGED <<lock, informers, startedInformers, routineVars, closed, callVars, history>>

\* f.wg.Wait() returns.
ShutdownReturns(c) ==
    /\ pc[c] = "wait"
    /\ wg = 0
    /\ down' = TRUE
    /\ Return(c)
    /\ UNCHANGED <<lock, guarded, routineVars, closed, made, handed>>

-----------------------------------------------------------------------------
(* WaitForCacheSync                                                        *)

WaitForCacheSync(c, ch) ==
    /\ pc[c] = "idle"
    /\ Goto(c, "snapshot")
    /\ stopCh' = [stopCh EXCEPT ![c] = ch]
    /\ owed' = [owed EXCEPT ![c] = startedInformers]
    /\ UNCHANGED <<lock, guarded, routineVars, closed, want, todo, ok, missed, history>>

Snapshot(c) ==
    /\ pc[c] = "snapshot"
    /\ lock = None
    /\ todo' = [todo EXCEPT ![c] = Requested \cap startedInformers]
    /\ Goto(c, "sync")
    /\ UNCHANGED <<lock, guarded, routineVars, closed, want, stopCh, ok, missed, owed, history>>

\* Mutant: the loop goes on without waiting for HasSynced.
SyncedUnchecked(c, t) ==
    /\ pc[c] = "sync"
    /\ Reached(c, t)
    /\ ok' = [ok EXCEPT ![c] = @ \cup {t}]
    /\ UNCHANGED <<lock, guarded, routineVars, closed, pc, want, stopCh, missed, owed, history>>

\* cache.WaitForCacheSync(stopCh, informer.HasSynced) returns true.
Synced(c, t) ==
    /\ pc[c] = "sync"
    /\ Reached(c, t)
    /\ t \in synced
    /\ ok' = [ok EXCEPT ![c] = @ \cup {t}]
    /\ UNCHANGED <<lock, guarded, routineVars, closed, pc, want, stopCh, missed, owed, history>>

\* It returns false.
NotSynced(c, t) ==
    /\ pc[c] = "sync"
    /\ Reached(c, t)
    /\ stopCh[c] \in closed
    /\ missed' = [missed EXCEPT ![c] = @ \cup {t}]
    /\ UNCHANGED <<lock, guarded, routineVars, closed, pc, want, stopCh, ok, owed, history>>

SyncReturns(c) ==
    /\ pc[c] = "sync"
    /\ todo[c] = {}
    /\ Return(c)
    /\ UNCHANGED <<lock, guarded, routineVars, closed, history>>

-----------------------------------------------------------------------------
Call(c) ==
    \/ \E t \in Types : InformerFor(c, t)
    \/ \E ch \in Channels : Start(c, ch) \/ WaitForCacheSync(c, ch)
    \/ Shutdown(c)

\* The steps of a call once it is made.
Proceed(c) ==
    \/ InformerExists(c) \/ InformerMissing(c) \/ InformerNew(c)
    \/ StartRefused(c) \/ StartLoop(c) \/ StartReturns(c)
    \/ ShutdownReturns(c)
    \/ SyncReturns(c)
    \/ \E t \in Types : SkipStarted(c, t) \/ Spawn(c, t) \/ Synced(c, t) \/ NotSynced(c, t)

Next ==
    \/ \E c \in Callers : Call(c) \/ Proceed(c) \/ Snapshot(c)
    \/ \E k \in DOMAIN routines : RoutineRuns(k) \/ RoutineSyncs(k) \/ RoutineReturns(k)
    \/ \E ch \in Channels : CloseChannel(ch)

Spec == Init /\ [][Next]_vars

\* Goroutines are scheduled, sync.Mutex starves nobody, and the owners of the stop
\* channels close them in the end, as the comment on Shutdown asks.
Fairness ==
    /\ \A c \in Callers : WF_vars(Proceed(c)) /\ SF_vars(Snapshot(c))
    /\ WF_vars(\E k \in DOMAIN routines : RoutineRuns(k) \/ RoutineReturns(k))
    /\ \A ch \in Channels : WF_vars(CloseChannel(ch))

FairSpec == Spec /\ Fairness

-----------------------------------------------------------------------------
\* "Shutdown blocks until all goroutines have terminated", and it stays so: once any
\* Shutdown has returned no goroutine of the factory runs, whatever is called later.
NoneAfterShutdown == down => \A k \in DOMAIN routines : ~Live(k)

\* However many callers race on InformerFor, all of them share one instance per type,
\* the one Start runs.
OneInformer == \A t \in Types : \A a, b \in handed[t] : a = b /\ a = informers[t]

\* What WaitForCacheSync answers: every informer started before the call is in the
\* answer, true means synced, and false means that the stop channel was closed.
SyncAnswers ==
    \A c \in Callers : pc[c] = "sync" /\ todo[c] = {} =>
        /\ owed[c] \subseteq ok[c] \cup missed[c]
        /\ ok[c] \subseteq synced
        /\ missed[c] # {} => stopCh[c] \in closed

\* "At that point no new informers can be started anymore": from the moment Shutdown
\* sets the flag the wait group's counter only falls, so no Add races with a Wait.
NoAddAfterShutdown == [][shuttingDown' => wg' <= wg]_vars

\* The factory implements InformerLifecycle.
Phase(t) ==
    IF t \notin startedInformers THEN "requestable"
    ELSE IF \E k \in DOMAIN routines : routines[k].type = t /\ Live(k) THEN "running"
    ELSE "stopped"

Gate == IF down THEN "shut" ELSE IF shuttingDown THEN "closing" ELSE "open"

Lifecycle == INSTANCE InformerLifecycle WITH phase <- [t \in Types |-> Phase(t)], gate <- Gate
KeepsLifecycle == Lifecycle!LifecycleSpec

\* Every call returns: Shutdown and WaitForCacheSync because the channels are closed,
\* InformerFor and Start because nothing blocks while they hold the lock.
CallsReturn == \A c \in Callers : pc[c] # "idle" ~> pc[c] = "idle"
=============================================================================
