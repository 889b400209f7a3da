---------------------- MODULE SharedInformerFactory_proofs ----------------------
(***************************************************************************)
(* Proofs about SharedInformerFactory, for any number of callers, types    *)
(* and stop channels.                                                      *)
(***************************************************************************)
EXTENDS SharedInformerFactory, FiniteSetTheorems, TLAPS

-----------------------------------------------------------------------------
(* The inductive invariant.  The wait group's counter is the number of     *)
(* live goroutines; each of them runs an informer marked as started, no    *)
(* two the same; and what a caller holds in its variables is still true    *)
(* when it uses it.                                                        *)

LiveSet == {k \in DOMAIN routines : Live(k)}

RoutinesOK ==
    /\ wg = Cardinality(LiveSet)
    /\ \A k \in DOMAIN routines : routines[k].type \in startedInformers
    /\ \A k, l \in DOMAIN routines : routines[k].type = routines[l].type => k = l

CallOK(c) ==
    /\ pc[c] = "new" => informers[want[c]] = 0
    /\ pc[c] # "sync" => ok[c] = {} /\ missed[c] = {}
    /\ pc[c] = "spawn" => todo[c] \subseteq Requested /\ ~shuttingDown
    /\ pc[c] = "sync" =>
        /\ todo[c] \subseteq startedInformers
        /\ owed[c] \subseteq todo[c] \cup ok[c] \cup missed[c]
        /\ ok[c] \subseteq synced
        /\ missed[c] # {} => stopCh[c] \in closed

DownOK ==
    /\ \A c \in Callers : pc[c] = "wait" => shuttingDown
    /\ down => shuttingDown /\ LiveSet = {}

HandedOK ==
    \A t \in Types : handed[t] \subseteq {informers[t]} /\ (informers[t] = 0 => handed[t] = {})

Inv == TypeOK /\ RoutinesOK /\ (\A c \in Callers : CallOK(c)) /\ DownOK /\ HandedOK

-----------------------------------------------------------------------------
(* The wait group.                                                         *)

\* There are finitely many goroutines.
LEMMA LiveSetFinite ==
    ASSUME routines \in Seq(Routine)
    PROVE  IsFiniteSet(LiveSet) /\ Cardinality(LiveSet) \in Nat
<1>1. DOMAIN routines = 1..Len(routines) /\ Len(routines) \in Nat
  OBVIOUS
<1>2. IsFiniteSet(1..Len(routines))
  BY <1>1, FS_Interval
<1>3. LiveSet \subseteq 1..Len(routines)
  BY <1>1 DEF LiveSet
<1> QED  BY <1>2, <1>3, FS_Subset, FS_CardinalityType

\* A wait group at zero means that no goroutine is live, and conversely.
LEMMA ZeroMeansNone ==
    ASSUME routines \in Seq(Routine), RoutinesOK PROVE (wg = 0) <=> (LiveSet = {})
BY LiveSetFinite, FS_EmptySet DEF RoutinesOK

\* Spawning an informer that was not started.
LEMMA SpawnRoutines ==
    ASSUME TypeOK, RoutinesOK, NEW c \in Callers, NEW t \in Types, Spawn(c, t),
           stopCh[c] \in Channels
    PROVE  RoutinesOK' /\ routines' \in Seq(Routine)
<1> DEFINE r == [type |-> t, stopCh |-> stopCh[c], at |-> "ready"]
<1>1. /\ routines \in Seq(Routine) /\ r \in Routine /\ routines' = Append(routines, r)
      /\ t \notin startedInformers /\ startedInformers' = startedInformers \cup {t}
      /\ wg' = wg + 1
  BY DEF Spawn, TypeOK, Routine
<1>2. /\ Len(routines) \in Nat /\ DOMAIN routines = 1..Len(routines)
      /\ DOMAIN routines' = 1..(Len(routines) + 1)
      /\ routines'[Len(routines) + 1] = r
      /\ \A k \in 1..Len(routines) : routines'[k] = routines[k]
  BY <1>1
<1>3. LiveSet' = LiveSet \cup {Len(routines) + 1} /\ Len(routines) + 1 \notin LiveSet
  BY <1>2 DEF LiveSet, Live
<1>4. Cardinality(LiveSet') = Cardinality(LiveSet) + 1
  BY <1>1, <1>3, LiveSetFinite, FS_AddElement
<1>5. \A k \in DOMAIN routines' : routines'[k].type \in startedInformers'
  BY <1>1, <1>2 DEF RoutinesOK
<1>6. ASSUME NEW k \in DOMAIN routines', NEW l \in DOMAIN routines',
             routines'[k].type = routines'[l].type
      PROVE  k = l
  <2>1. ASSUME NEW j \in 1..Len(routines) PROVE routines'[j].type # t
    BY <1>1, <1>2, <2>1 DEF RoutinesOK
  <2>2. CASE k \in 1..Len(routines) /\ l \in 1..Len(routines)
    BY <1>2, <1>6, <2>2 DEF RoutinesOK
  <2> QED  BY <1>2, <1>6, <2>1, <2>2
<1>7. routines' \in Seq(Routine)
  BY <1>1
<1> QED  BY <1>1, <1>4, <1>5, <1>6, <1>7 DEF RoutinesOK

\* A goroutine changes its place, staying alive or not.
LEMMA MoveRoutines ==
    ASSUME TypeOK, RoutinesOK, NEW k \in DOMAIN routines, UNCHANGED startedInformers,
           \/ RoutineRuns(k) \/ RoutineReturns(k)
    PROVE  RoutinesOK' /\ routines' \in Seq(Routine) /\ wg' \in Nat /\ LiveSet' \subseteq LiveSet
<1>1. PICK place \in {"running", "done"} : routines' = [routines EXCEPT ![k].at = place]
  BY DEF RoutineRuns, RoutineReturns
<1>2. /\ routines \in Seq(Routine) /\ Len(routines) \in Nat /\ DOMAIN routines = 1..Len(routines)
      /\ routines[k] \in Routine
  BY DEF TypeOK
<1>3. routines' \in Seq(Routine)
  <2>1. [routines[k] EXCEPT !.at = place] \in Routine
    BY <1>1, <1>2 DEF Routine
  <2>2. routines' = [routines EXCEPT ![k] = [routines[k] EXCEPT !.at = place]]
    BY <1>1
  <2> QED  BY <1>2, <2>1, <2>2
<1>4. /\ DOMAIN routines' = DOMAIN routines
      /\ routines'[k].at = place
      /\ \A l \in DOMAIN routines : routines'[l].type = routines[l].type
      /\ \A l \in DOMAIN routines \ {k} : routines'[l] = routines[l]
  BY <1>1, <1>2 DEF Routine
<1>5. k \in LiveSet
  BY DEF RoutineRuns, RoutineReturns, LiveSet, Live
<1>6. CASE RoutineRuns(k)
  <2>1. routines'[k].at = "running" /\ wg' = wg
    BY <1>2, <1>6 DEF RoutineRuns, Routine
  <2>2. LiveSet' = LiveSet
    BY <1>4, <1>5, <2>1 DEF LiveSet, Live
  <2> QED  BY <1>3, <1>4, <2>1, <2>2 DEF RoutinesOK, TypeOK
<1>7. CASE RoutineReturns(k)
  <2>1. routines'[k].at = "done" /\ wg' = wg - 1
    BY <1>2, <1>7 DEF RoutineReturns, Routine
  <2>2. LiveSet' = LiveSet \ {k}
    BY <1>4, <1>5, <2>1 DEF LiveSet, Live
  <2>3. Cardinality(LiveSet') = Cardinality(LiveSet) - 1 /\ Cardinality(LiveSet') \in Nat
    BY <1>2, <1>5, <2>2, LiveSetFinite, FS_RemoveElement, FS_CardinalityType
  <2> QED  BY <1>3, <1>4, <2>1, <2>2, <2>3 DEF RoutinesOK
<1> QED  BY <1>6, <1>7

\* A step that leaves the goroutines alone.
LEMMA SameRoutines ==
    ASSUME RoutinesOK, UNCHANGED <<wg, routines>>, startedInformers \subseteq startedInformers'
    PROVE  RoutinesOK' /\ LiveSet' = LiveSet
BY DEF RoutinesOK, LiveSet, Live

-----------------------------------------------------------------------------
(* The invariant holds.                                                    *)

\* The shared state only grows: nothing is un-started, un-synced or re-opened.
Grows ==
    /\ startedInformers \subseteq startedInformers'
    /\ synced \subseteq synced'
    /\ closed \subseteq closed'
    /\ \A t \in Types : informers[t] # 0 => informers'[t] = informers[t]

\* What a caller that does not move relies on is left alone.
LEMMA CallStays ==
    ASSUME TypeOK, NEW d \in Callers, CallOK(d), Grows,
           pc'[d] = pc[d], want'[d] = want[d], todo'[d] = todo[d], stopCh'[d] = stopCh[d],
           ok'[d] = ok[d], missed'[d] = missed[d], owed'[d] = owed[d],
           pc[d] = "new" => UNCHANGED informers,
           pc[d] = "spawn" => UNCHANGED shuttingDown
    PROVE  CallOK(d)'
BY DEF CallOK, Grows, Requested, TypeOK

\* A caller at one of these places relies on nothing.
LEMMA CallFresh ==
    ASSUME NEW d \in Callers, pc'[d] \in {"idle", "lookup", "start", "wait", "snapshot"},
           ok'[d] = {}, missed'[d] = {}
    PROVE  CallOK(d)'
BY DEF CallOK

\* Steps of the environment: goroutines and owners of stop channels.
LEMMA RoutineStep ==
    ASSUME Inv, \/ \E k \in DOMAIN routines :
                        RoutineRuns(k) \/ RoutineSyncs(k) \/ RoutineReturns(k)
                \/ \E ch \in Channels : CloseChannel(ch)
                \/ UNCHANGED vars
    PROVE  Inv'
<1>1. UNCHANGED <<lock, guarded, pc, callVars, history>>
  BY DEF RoutineRuns, RoutineSyncs, RoutineReturns, CloseChannel, vars
<1>2. /\ RoutinesOK' /\ LiveSet' \subseteq LiveSet
      /\ routines' \in Seq(Routine) /\ wg' \in Nat
  <2>1. CASE \E k \in DOMAIN routines : RoutineRuns(k) \/ RoutineReturns(k)
    BY <1>1, <2>1, MoveRoutines DEF Inv, guarded
  <2>2. CASE UNCHANGED <<wg, routines>>
    BY <1>1, <2>2, SameRoutines DEF Inv, guarded, TypeOK
  <2> QED
    BY <2>1, <2>2 DEF RoutineSyncs, CloseChannel, vars, routineVars
<1>3. Grows /\ synced' \subseteq startedInformers /\ closed' \subseteq Channels
  BY <1>1
  DEF RoutineRuns, RoutineSyncs, RoutineReturns, CloseChannel, vars, routineVars, guarded, Grows,
      Inv, TypeOK, RoutinesOK
<1>4. TypeOK'
  BY <1>1, <1>2, <1>3 DEF Inv, TypeOK, guarded, callVars, history
<1>5. ASSUME NEW d \in Callers PROVE CallOK(d)'
  BY <1>1, <1>3, CallStays DEF Inv, guarded, callVars
<1>6. DownOK' /\ HandedOK'
  BY <1>1, <1>2 DEF Inv, DownOK, HandedOK, guarded, history
<1> QED  BY <1>2, <1>4, <1>5, <1>6 DEF Inv

\* Calls that are made, and the snapshot of WaitForCacheSync.
LEMMA CallStep ==
    ASSUME Inv, NEW c \in Callers, Call(c) \/ Snapshot(c) PROVE Inv'
<1>1. UNCHANGED <<informers, startedInformers, routineVars, closed, ok, missed, history>>
  BY DEF Call, InformerFor, Start, WaitForCacheSync, Shutdown, Snapshot, guarded, callVars
<1>2. RoutinesOK' /\ LiveSet' = LiveSet /\ Grows
  BY <1>1, SameRoutines DEF Inv, routineVars, Grows
<1>3. \A d \in Callers \ {c} :
        /\ pc'[d] = pc[d] /\ want'[d] = want[d] /\ todo'[d] = todo[d]
        /\ stopCh'[d] = stopCh[d] /\ owed'[d] = owed[d]
  BY DEF Call, InformerFor, Start, WaitForCacheSync, Shutdown, Snapshot, guarded, callVars, Goto,
         Inv, TypeOK
<1>4. \A d \in Callers : pc[d] = "spawn" => UNCHANGED shuttingDown
  BY NoneAssumption
  DEF Call, InformerFor, Start, WaitForCacheSync, Shutdown, Snapshot, guarded, Inv, TypeOK, Locked
<1>5. TypeOK'
  <2>1. CASE \E t \in Types : InformerFor(c, t)
    BY <1>1, <2>1, NoneAssumption
    DEF Inv, TypeOK, InformerFor, Acquire, Goto, Places, Locked, guarded, routineVars, history
  <2>2. CASE \E ch \in Channels : Start(c, ch)
    BY <1>1, <2>2, NoneAssumption
    DEF Inv, TypeOK, Start, Acquire, Goto, Places, Locked, guarded, routineVars, history
  <2>3. CASE \E ch \in Channels : WaitForCacheSync(c, ch)
    BY <1>1, <2>3
    DEF Inv, TypeOK, WaitForCacheSync, Goto, Places, Locked, guarded, routineVars, history
  <2>4. CASE Shutdown(c)
    BY <1>1, <2>4
    DEF Inv, TypeOK, Shutdown, Goto, Places, Locked, routineVars, callVars, history
  <2>5. CASE Snapshot(c)
    BY <1>1, <2>5
    DEF Inv, TypeOK, Snapshot, Requested, Goto, Places, Locked, guarded, routineVars, history
  <2> QED  BY <2>1, <2>2, <2>3, <2>4, <2>5 DEF Call
<1>6. CallOK(c)'
  <2>1. CASE Snapshot(c)
    <3>1. /\ pc'[c] = "sync" /\ todo'[c] = Requested \cap startedInformers
          /\ owed'[c] = owed[c] /\ owed[c] \subseteq startedInformers
          /\ startedInformers \subseteq Requested
      BY <2>1 DEF Snapshot, Goto, Inv, TypeOK, Requested
    <3>2. ok'[c] = {} /\ missed'[c] = {}
      BY <1>1, <2>1 DEF Snapshot, Inv, CallOK
    <3> QED  BY <1>1, <3>1, <3>2 DEF CallOK
  <2>2. CASE Call(c)
    <3>1. pc'[c] \in {"lookup", "start", "snapshot", "wait"}
      BY <2>2 DEF Call, InformerFor, Start, WaitForCacheSync, Shutdown, Goto, Inv, TypeOK
    <3>2. ok'[c] = {} /\ missed'[c] = {}
      BY <1>1, <2>2
      DEF Call, InformerFor, Start, WaitForCacheSync, Shutdown, Inv, CallOK
    <3> QED  BY <3>1, <3>2, CallFresh
  <2> QED  BY <2>1, <2>2
<1>7. ASSUME NEW d \in Callers PROVE CallOK(d)'
  BY <1>1, <1>2, <1>3, <1>4, <1>6, CallStays DEF Inv
<1>8. DownOK' /\ HandedOK'
  BY <1>1, <1>2
  DEF Call, InformerFor, Start, WaitForCacheSync, Shutdown, Snapshot, guarded, Goto,
      Inv, TypeOK, DownOK, HandedOK, history
<1> QED  BY <1>2, <1>5, <1>7, <1>8 DEF Inv

\* A call that returns touches no other caller's variables.
LEMMA ReturnStays ==
    ASSUME TypeOK, NEW c \in Callers, Return(c), Grows,
           \A d \in Callers : CallOK(d),
           \A d \in Callers \ {c} : pc[d] = "new" => UNCHANGED informers,
           UNCHANGED shuttingDown
    PROVE  \A d \in Callers : CallOK(d)'
<1>1. CallOK(c)'
  <2>1. pc'[c] = "idle" /\ ok'[c] = {} /\ missed'[c] = {}
    BY DEF Return, Goto, TypeOK
  <2> QED  BY <2>1, CallFresh
<1>2. ASSUME NEW d \in Callers \ {c} PROVE CallOK(d)'
  <2>1. /\ pc'[d] = pc[d] /\ want'[d] = want[d] /\ todo'[d] = todo[d]
        /\ stopCh'[d] = stopCh[d] /\ owed'[d] = owed[d]
        /\ ok'[d] = ok[d] /\ missed'[d] = missed[d]
    BY DEF Return, Goto, TypeOK
  <2> QED  BY <2>1, CallStays
<1> QED  BY <1>1, <1>2

\* A call that returns leaves its caller's variables well typed.
LEMMA ReturnType ==
    ASSUME TypeOK, NEW c \in Callers, Return(c), UNCHANGED startedInformers
    PROVE  /\ pc' \in [Callers -> Places] /\ pc'[c] = "idle"
           /\ \A d \in Callers \ {c} : pc'[d] = pc[d]
           /\ want' \in [Callers -> Types \cup {None}]
           /\ \A d \in Callers : pc'[d] \in {"lookup", "new"} => want'[d] \in Types
           /\ stopCh' \in [Callers -> Channels \cup {None}]
           /\ \A d \in Callers :
                pc'[d] \in {"start", "spawn", "snapshot", "sync"} => stopCh'[d] \in Channels
           /\ todo' \in [Callers -> SUBSET Types]
           /\ ok' \in [Callers -> SUBSET startedInformers']
           /\ missed' \in [Callers -> SUBSET startedInformers']
           /\ owed' \in [Callers -> SUBSET startedInformers']
BY DEF TypeOK, Return, Goto, Places

\* Nobody else is in a section of the lock's holder.
LEMMA Exclusive ==
    ASSUME TypeOK, NEW c \in Callers, pc[c] \in Locked
    PROVE  lock = c /\ \A d \in Callers \ {c} : pc[d] \notin Locked
BY NoneAssumption DEF TypeOK

\* Calls that return without having changed what the lock guards.
LEMMA PlainReturnStep ==
    ASSUME Inv, NEW c \in Callers,
           InformerExists(c) \/ StartRefused(c) \/ StartReturns(c) \/ SyncReturns(c)
    PROVE  Inv'
<1>1. /\ Return(c) /\ UNCHANGED <<guarded, routineVars, closed, made, down>>
      /\ (lock' = None /\ pc[c] \in Locked) \/ UNCHANGED lock
  BY DEF InformerExists, StartRefused, StartReturns, SyncReturns, Release, history, Locked
<1>2. RoutinesOK' /\ LiveSet' = LiveSet /\ Grows
  BY <1>1, SameRoutines DEF Inv, guarded, routineVars, Grows
<1>3. \A d \in Callers : CallOK(d)'
  BY <1>1, <1>2, ReturnStays DEF Inv, guarded
<1>4. handed' \in [Types -> SUBSET Nat] /\ HandedOK'
  <2>1. CASE InformerExists(c)
    <3> DEFINE t == want[c]
    <3>1. /\ t \in Types /\ informers[t] # 0 /\ informers[t] \in Nat
          /\ handed \in [Types -> SUBSET Nat] /\ informers' = informers
      BY <1>1, <2>1 DEF InformerExists, Inv, TypeOK, guarded
    <3>2. handed' = [handed EXCEPT ![t] = handed[t] \cup {informers[t]}]
      BY <2>1, <3>1 DEF InformerExists, Hand
    <3>3. handed[t] \cup {informers[t]} \in SUBSET Nat
      BY <3>1
    <3>4. handed' \in [Types -> SUBSET Nat]
      BY <3>1, <3>2, <3>3
    <3>5. /\ handed'[t] = handed[t] \cup {informers[t]}
          /\ \A u \in Types \ {t} : handed'[u] = handed[u]
      BY <3>1, <3>2
    <3> QED  BY <3>1, <3>4, <3>5 DEF Inv, HandedOK
  <2>2. CASE UNCHANGED handed
    BY <1>1, <2>2 DEF Inv, TypeOK, HandedOK, guarded
  <2> QED
    BY <2>1, <2>2 DEF StartRefused, StartReturns, SyncReturns, history
<1>5. lock' \in Callers \cup {None} /\ \A d \in Callers : pc'[d] \in Locked => lock' = d
  <2>1. pc'[c] \notin Locked /\ \A d \in Callers \ {c} : pc'[d] = pc[d]
    BY <1>1 DEF Return, Goto, Inv, TypeOK, Locked
  <2>2. CASE lock' = None /\ pc[c] \in Locked
    <3>1. \A d \in Callers \ {c} : pc[d] \notin Locked
      BY <2>2, Exclusive DEF Inv
    <3> QED  BY <2>1, <2>2, <3>1
  <2>3. CASE UNCHANGED lock
    BY <2>1, <2>3 DEF Inv, TypeOK
  <2> QED  BY <1>1, <2>2, <2>3
<1>6. TypeOK'
  BY <1>1, <1>4, <1>5, ReturnType DEF Inv, TypeOK, guarded, routineVars
<1>7. DownOK'
  BY <1>1, <1>2 DEF Inv, DownOK, guarded, Return, Goto, TypeOK
<1> QED  BY <1>2, <1>3, <1>4, <1>6, <1>7 DEF Inv

\* InformerFor stores and returns a new instance.
LEMMA NewStep == ASSUME Inv, NEW c \in Callers, InformerNew(c) PROVE Inv'
<1> DEFINE t == want[c]
<1>1. /\ t \in Types /\ informers[t] = 0 /\ pc[c] = "new" /\ Return(c) /\ lock' = None
      /\ UNCHANGED <<startedInformers, shuttingDown, routineVars, closed, down>>
  BY DEF InformerNew, Inv, TypeOK, CallOK, Release
<1>2. /\ informers' \in [Types -> Nat] /\ informers'[t] = made[t] + 1 /\ made[t] \in Nat
      /\ \A u \in Types \ {t} : informers'[u] = informers[u]
      /\ made' \in [Types -> Nat] /\ handed' \in [Types -> SUBSET Nat]
      /\ handed'[t] = handed[t] \cup {made[t] + 1}
      /\ \A u \in Types \ {t} : handed'[u] = handed[u]
  BY <1>1 DEF InformerNew, Hand, Inv, TypeOK
<1>3. RoutinesOK' /\ LiveSet' = LiveSet /\ Grows
  BY <1>1, <1>2, SameRoutines DEF Inv, routineVars, Grows
<1>4. \A d \in Callers \ {c} : pc[d] \notin Locked
  BY <1>1, Exclusive DEF Inv, Locked
<1>5. \A d \in Callers : CallOK(d)'
  BY <1>1, <1>3, <1>4, ReturnStays DEF Inv, Locked
<1>6. HandedOK'
  BY <1>1, <1>2 DEF HandedOK, Inv
<1>7. TypeOK'
  <2>1. TypeOK
    BY DEF Inv
  <2>2. \A d \in Callers : pc'[d] \notin Locked
    BY <1>1, <1>4, <2>1 DEF Return, Goto, TypeOK, Locked
  <2>3. UNCHANGED <<startedInformers, shuttingDown, routines, wg, synced, closed>>
    BY <1>1 DEF routineVars
  <2> QED
    BY <1>1, <1>2, <2>1, <2>2, <2>3, ReturnType DEF TypeOK, Locked
<1>8. DownOK'
  BY <1>1, <1>3 DEF Inv, DownOK, Return, Goto, TypeOK
<1> QED  BY <1>3, <1>5, <1>6, <1>7, <1>8 DEF Inv

\* Shutdown returns once the counter is zero.
LEMMA ShutdownReturnsStep == ASSUME Inv, NEW c \in Callers, ShutdownReturns(c) PROVE Inv'
<1>1. /\ pc[c] = "wait" /\ wg = 0 /\ Return(c)
      /\ UNCHANGED <<lock, guarded, routineVars, closed, made, handed>>
  BY DEF ShutdownReturns
<1>2. RoutinesOK' /\ LiveSet' = LiveSet /\ Grows
  BY <1>1, SameRoutines DEF Inv, guarded, routineVars, Grows
<1>3. \A d \in Callers : CallOK(d)'
  BY <1>1, <1>2, ReturnStays DEF Inv, guarded
<1>4. LiveSet = {} /\ shuttingDown
  BY <1>1, ZeroMeansNone DEF Inv, TypeOK, DownOK
<1>5. DownOK' /\ HandedOK'
  BY <1>1, <1>2, <1>4 DEF Inv, DownOK, HandedOK, guarded, Return, Goto, TypeOK
<1>6. TypeOK'
  BY <1>1, ReturnType DEF Inv, TypeOK, guarded, routineVars, ShutdownReturns, Locked
<1> QED  BY <1>2, <1>3, <1>5, <1>6 DEF Inv

\* Steps inside a call that neither take nor give up the lock.
LEMMA InsideStep ==
    ASSUME Inv, NEW c \in Callers,
           \/ InformerMissing(c) \/ StartLoop(c)
           \/ \E t \in Types : SkipStarted(c, t) \/ Synced(c, t) \/ NotSynced(c, t)
    PROVE  Inv'
<1>1. UNCHANGED <<lock, guarded, routineVars, closed, want, stopCh, owed, history>>
  BY DEF InformerMissing, StartLoop, SkipStarted, Synced, NotSynced, callVars
<1>2. RoutinesOK' /\ LiveSet' = LiveSet /\ Grows
  BY <1>1, SameRoutines DEF Inv, guarded, routineVars, Grows
<1>3. \A d \in Callers \ {c} :
        pc'[d] = pc[d] /\ todo'[d] = todo[d] /\ ok'[d] = ok[d] /\ missed'[d] = missed[d]
  BY DEF InformerMissing, StartLoop, SkipStarted, Synced, NotSynced, Reached, callVars, Goto,
         Inv, TypeOK
<1>4. CallOK(c)' /\ TypeOK' /\ (pc'[c] = "wait" => pc[c] = "wait")
  <2>1. CASE InformerMissing(c)
    <3>1. pc'[c] = "new" /\ UNCHANGED callVars
      BY <2>1 DEF InformerMissing, Goto, Inv, TypeOK
    <3>2. CallOK(c)'
      BY <1>1, <2>1, <3>1 DEF InformerMissing, Inv, CallOK, callVars, guarded
    <3>3. TypeOK'
      BY <1>1, <2>1, <3>1
      DEF InformerMissing, Goto, Inv, TypeOK, callVars, guarded, routineVars, history, Places, Locked
    <3> QED  BY <3>1, <3>2, <3>3
  <2>2. CASE StartLoop(c)
    <3>1. pc'[c] = "spawn" /\ todo'[c] = Requested /\ ~shuttingDown /\ UNCHANGED <<ok, missed>>
      BY <2>2 DEF StartLoop, Goto, Inv, TypeOK
    <3>2. CallOK(c)'
      BY <1>1, <2>2, <3>1 DEF StartLoop, Inv, CallOK, guarded, Requested
    <3>3. TypeOK'
      BY <1>1, <2>2, <3>1
      DEF StartLoop, Requested, Goto, Inv, TypeOK, guarded, routineVars, history, Places, Locked
    <3> QED  BY <3>1, <3>2, <3>3
  <2>3. CASE \E t \in Types : SkipStarted(c, t)
    <3>1. pc[c] = "spawn" /\ UNCHANGED <<pc, ok, missed>> /\ todo'[c] \subseteq todo[c]
      BY <2>3 DEF SkipStarted, Reached, Inv, TypeOK
    <3>2. CallOK(c)'
      BY <1>1, <3>1 DEF Inv, CallOK, guarded, Requested
    <3>3. TypeOK'
      BY <1>1, <2>3, <3>1
      DEF SkipStarted, Reached, Inv, TypeOK, guarded, routineVars, history
    <3> QED  BY <3>1, <3>2, <3>3
  <2>4. CASE \E t \in Types : Synced(c, t)
    <3>1. PICK t \in Types : Synced(c, t)
      BY <2>4
    <3>2. /\ pc[c] = "sync" /\ UNCHANGED <<pc, missed>> /\ t \in synced
          /\ t \in todo[c] /\ todo'[c] = todo[c] \ {t} /\ ok'[c] = ok[c] \cup {t}
      BY <3>1 DEF Synced, Reached, Inv, TypeOK
    <3>3. CallOK(c)'
      BY <1>1, <3>2 DEF Inv, CallOK, guarded, routineVars
    <3>4. TypeOK'
      BY <1>1, <3>1, <3>2
      DEF Synced, Reached, Inv, TypeOK, guarded, routineVars, history
    <3> QED  BY <3>2, <3>3, <3>4
  <2>5. CASE \E t \in Types : NotSynced(c, t)
    <3>1. PICK t \in Types : NotSynced(c, t)
      BY <2>5
    <3>2. /\ pc[c] = "sync" /\ UNCHANGED <<pc, ok>> /\ stopCh[c] \in closed
          /\ t \in todo[c] /\ todo'[c] = todo[c] \ {t} /\ missed'[c] = missed[c] \cup {t}
          /\ t \in startedInformers
      BY <3>1 DEF NotSynced, Reached, Inv, TypeOK, CallOK
    <3>3. CallOK(c)'
      BY <1>1, <3>2 DEF Inv, CallOK, guarded, routineVars
    <3>4. TypeOK'
      BY <1>1, <3>1, <3>2
      DEF NotSynced, Reached, Inv, TypeOK, guarded, routineVars, history
    <3> QED  BY <3>2, <3>3, <3>4
  <2> QED  BY <2>1, <2>2, <2>3, <2>4, <2>5
<1>5. ASSUME NEW d \in Callers PROVE CallOK(d)'
  <2>1. CASE d = c
    BY <1>4, <2>1
  <2>2. CASE d # c
    BY <1>1, <1>2, <1>3, <2>2, CallStays DEF Inv, guarded
  <2> QED  BY <2>1, <2>2
<1>6. DownOK' /\ HandedOK'
  BY <1>1, <1>2, <1>3, <1>4 DEF Inv, DownOK, HandedOK, guarded, history
<1> QED  BY <1>2, <1>4, <1>5, <1>6 DEF Inv

\* Start spawns a goroutine.
LEMMA SpawnStep ==
    ASSUME Inv, NEW c \in Callers, NEW t \in Types, Spawn(c, t) PROVE Inv'
<1>1. /\ pc[c] = "spawn" /\ t \in todo[c] /\ t \notin startedInformers
      /\ startedInformers' = startedInformers \cup {t} /\ wg' = wg + 1
      /\ UNCHANGED <<lock, informers, shuttingDown, synced, closed, pc, want, stopCh, ok, missed,
                     owed, history>>
      /\ todo' = [todo EXCEPT ![c] = todo[c] \ {t}]
      /\ stopCh[c] \in Channels /\ informers[t] # 0 /\ ~shuttingDown
  BY DEF Spawn, Reached, Inv, TypeOK, CallOK, Requested
<1>2. RoutinesOK' /\ routines' \in Seq(Routine) /\ Grows
  BY <1>1, SpawnRoutines DEF Inv, Grows
<1>3. TypeOK'
  BY <1>1, <1>2 DEF Inv, TypeOK, history
<1>4. ASSUME NEW d \in Callers PROVE CallOK(d)'
  <2>1. CASE d = c
    BY <1>1, <2>1 DEF Inv, TypeOK, CallOK, Requested
  <2>2. CASE d # c
    BY <1>1, <1>2, <2>2, CallStays DEF Inv, TypeOK
  <2> QED  BY <2>1, <2>2
<1>5. DownOK' /\ HandedOK'
  BY <1>1 DEF Inv, DownOK, HandedOK, history
<1> QED  BY <1>2, <1>3, <1>4, <1>5 DEF Inv

\* A new factory satisfies the invariant.
LEMMA InvInit == ASSUME Init PROVE Inv
<1>1. LiveSet = {} /\ DOMAIN routines = {} /\ Cardinality(LiveSet) = 0
  BY FS_EmptySet DEF Init, LiveSet
<1>2. TypeOK
  <2>1. routines \in Seq(Routine)
    BY DEF Init
  <2>2. startedInformers = {} /\ {} \subseteq {t \in Types : informers[t] # 0}
    BY DEF Init
  <2>3. /\ pc \in [Callers -> Places]
        /\ \A c \in Callers : pc[c] = "idle"
    BY DEF Init, Places
  <2>4. /\ want \in [Callers -> Types \cup {None}] /\ stopCh \in [Callers -> Channels \cup {None}]
        /\ todo \in [Callers -> SUBSET Types]
        /\ ok \in [Callers -> SUBSET startedInformers]
        /\ missed \in [Callers -> SUBSET startedInformers]
        /\ owed \in [Callers -> SUBSET startedInformers]
        /\ handed \in [Types -> SUBSET Nat]
    BY <2>2 DEF Init
  <2>5. /\ lock = None /\ informers \in [Types -> Nat] /\ made \in [Types -> Nat]
        /\ shuttingDown \in BOOLEAN /\ down \in BOOLEAN /\ wg \in Nat /\ closed = {} /\ synced = {}
    BY DEF Init
  <2> QED  BY <2>1, <2>2, <2>3, <2>4, <2>5 DEF TypeOK, Locked
<1>3. RoutinesOK
  BY <1>1 DEF Init, RoutinesOK
<1>4. (\A c \in Callers : CallOK(c)) /\ DownOK /\ HandedOK
  BY <1>1 DEF Init, CallOK, DownOK, HandedOK
<1> QED  BY <1>2, <1>3, <1>4 DEF Inv

\* Every step of a caller or a goroutine keeps the invariant.
LEMMA InvStep == ASSUME Inv, [Next]_vars PROVE Inv'
<1>1. CASE \E c \in Callers : Call(c) \/ Snapshot(c)
  BY <1>1, CallStep
<1>2. CASE \E c \in Callers : Proceed(c)
  <2>1. PICK c \in Callers : Proceed(c)
    BY <1>2
  <2>2. CASE InformerExists(c) \/ StartRefused(c) \/ StartReturns(c) \/ SyncReturns(c)
    BY <2>2, PlainReturnStep
  <2>3. CASE InformerNew(c)
    BY <2>3, NewStep
  <2>4. CASE ShutdownReturns(c)
    BY <2>4, ShutdownReturnsStep
  <2>5. CASE \/ InformerMissing(c) \/ StartLoop(c)
             \/ \E t \in Types : SkipStarted(c, t) \/ Synced(c, t) \/ NotSynced(c, t)
    BY <2>5, InsideStep
  <2>6. CASE \E t \in Types : Spawn(c, t)
    BY <2>6, SpawnStep
  <2> QED  BY <2>1, <2>2, <2>3, <2>4, <2>5, <2>6 DEF Proceed
<1>3. CASE \/ \E k \in DOMAIN routines : RoutineRuns(k) \/ RoutineSyncs(k) \/ RoutineReturns(k)
           \/ \E ch \in Channels : CloseChannel(ch)
           \/ UNCHANGED vars
  BY <1>3, RoutineStep
<1> QED  BY <1>1, <1>2, <1>3 DEF Next

\* The invariant holds always.
LEMMA Invariance == Spec => []Inv
BY InvInit, InvStep, PTL DEF Spec

-----------------------------------------------------------------------------
(* What it implies.                                                        *)

\* The factory's state stays well formed: what is started was requested, what is
\* synced was started, and no two callers are in a section of the lock.
THEOREM FactoryTypeCorrect == Spec => []TypeOK
<1>1. Inv => TypeOK
  BY DEF Inv
<1> QED  BY <1>1, Invariance, PTL

\* Once any Shutdown has returned no goroutine of the factory runs, because the wait
\* group's counter is the number of live goroutines and nothing is spawned any more.
THEOREM NoneRunsAfterShutdown == Spec => []NoneAfterShutdown
<1>1. Inv => NoneAfterShutdown
  BY DEF Inv, DownOK, LiveSet, NoneAfterShutdown
<1> QED  BY <1>1, Invariance, PTL

\* All callers of InformerFor share the one instance that Start runs.
THEOREM OneInformerAlways == Spec => []OneInformer
<1>1. Inv => OneInformer
  BY DEF Inv, HandedOK, OneInformer
<1> QED  BY <1>1, Invariance, PTL

\* WaitForCacheSync answers for every informer that was started before the call, and
\* answers truly.
THEOREM AnswersAlways == Spec => []SyncAnswers
<1>1. Inv => SyncAnswers
  BY DEF Inv, CallOK, SyncAnswers
<1> QED  BY <1>1, Invariance, PTL

\* No Add of the wait group after Shutdown set the flag, whatever Start was doing.
THEOREM NoLateAdd == Spec => NoAddAfterShutdown
<1>1. ASSUME Inv, [Next]_vars PROVE shuttingDown' => wg' <= wg
  <2>1. wg \in Nat
    BY <1>1 DEF Inv, TypeOK
  <2>2. ASSUME NEW c \in Callers, NEW t \in Types, Spawn(c, t) PROVE ~shuttingDown'
    BY <1>1, <2>2 DEF Spawn, Inv, CallOK
  <2>3. ASSUME NEW c \in Callers, Call(c) \/ Snapshot(c) PROVE wg' = wg
    BY <2>3 DEF Call, InformerFor, Start, WaitForCacheSync, Shutdown, Snapshot, routineVars
  <2>4. ASSUME NEW c \in Callers, Proceed(c) PROVE wg' = wg \/ \E t \in Types : Spawn(c, t)
    BY <2>4
    DEF Proceed, InformerExists, InformerMissing, InformerNew, StartRefused, StartLoop,
        StartReturns, ShutdownReturns, SyncReturns, SkipStarted, Synced, NotSynced, routineVars
  <2>5. ASSUME NEW k \in DOMAIN routines, RoutineRuns(k) \/ RoutineSyncs(k) \/ RoutineReturns(k)
        PROVE  wg' = wg \/ wg' = wg - 1
    BY <2>5 DEF RoutineRuns, RoutineSyncs, RoutineReturns
  <2>6. ASSUME UNCHANGED vars \/ \E ch \in Channels : CloseChannel(ch) PROVE wg' = wg
    BY <2>6 DEF CloseChannel, vars, routineVars
  <2> QED  BY <1>1, <2>1, <2>2, <2>3, <2>4, <2>5, <2>6 DEF Next
<1> QED  BY <1>1, Invariance, PTL DEF Spec, NoAddAfterShutdown

-----------------------------------------------------------------------------
(* The factory implements InformerLifecycle.                               *)

Phases == [t \in Types |-> Phase(t)]

\* A step that leaves these variables alone is a stutter of the lifecycle.
LEMMA PhasesStay ==
    ASSUME UNCHANGED <<startedInformers, routines>> PROVE Phases' = Phases
<1>1. ASSUME NEW t \in Types PROVE Phase(t)' = Phase(t)
  BY DEF Phase, Live
<1> QED  BY <1>1 DEF Phases

\* Spawning the goroutine launches the informer.
LEMMA SpawnLaunches ==
    ASSUME Inv, NEW c \in Callers, NEW t \in Types, Spawn(c, t) PROVE Lifecycle!Launch(t)
<1> DEFINE new == Len(routines) + 1
<1>1. /\ t \notin startedInformers /\ startedInformers' = startedInformers \cup {t}
      /\ routines' = Append(routines, [type |-> t, stopCh |-> stopCh[c], at |-> "ready"])
      /\ ~shuttingDown /\ ~down /\ UNCHANGED <<shuttingDown, down>>
  BY DEF Spawn, Inv, CallOK, DownOK, history
<1>2. /\ Len(routines) \in Nat /\ DOMAIN routines = 1..Len(routines) /\ DOMAIN routines' = 1..new
      /\ new \in DOMAIN routines'
      /\ routines'[new].type = t /\ routines'[new].at = "ready"
      /\ \A k \in DOMAIN routines : k \in DOMAIN routines' /\ routines'[k] = routines[k]
  BY <1>1 DEF Inv, TypeOK
<1>3. Phase(t) = "requestable" /\ Phase(t)' = "running"
  BY <1>1, <1>2 DEF Phase, Live
<1>4. ASSUME NEW u \in Types \ {t} PROVE Phase(u)' = Phase(u)
  <2>1. (\E k \in DOMAIN routines : routines[k].type = u /\ Live(k))'
        <=> \E k \in DOMAIN routines : routines[k].type = u /\ Live(k)
    BY <1>2 DEF Live
  <2> QED  BY <1>1, <2>1 DEF Phase
<1>5. Phases' = [Phases EXCEPT ![t] = "running"] /\ Phases[t] = "requestable"
  BY <1>3, <1>4 DEF Phases
<1>6. Gate = "open" /\ UNCHANGED Gate
  BY <1>1 DEF Gate
<1> QED  BY <1>5, <1>6 DEF Lifecycle!Launch, Phases

\* The return of the goroutine halts the informer.
LEMMA ReturnHalts ==
    ASSUME Inv, NEW k \in DOMAIN routines, RoutineReturns(k)
    PROVE  \E t \in Types : Lifecycle!Halt(t)
<1>1. routines \in Seq(Routine) /\ routines[k] \in Routine
  BY DEF Inv, TypeOK
<1>2. PICK t \in Types : t = routines[k].type
  BY <1>1 DEF Routine
<1>3. /\ routines[k].at = "running" /\ UNCHANGED <<startedInformers, shuttingDown, down>>
      /\ routines' = [routines EXCEPT ![k].at = "done"]
  BY DEF RoutineReturns, guarded, history
<1>4. /\ t \in startedInformers
      /\ \A l \in DOMAIN routines : routines[l].type = t => l = k
  BY <1>2 DEF Inv, RoutinesOK
<1>5. /\ DOMAIN routines' = DOMAIN routines
      /\ routines'[k].at = "done"
      /\ \A l \in DOMAIN routines : routines'[l].type = routines[l].type
      /\ \A l \in DOMAIN routines \ {k} : routines'[l] = routines[l]
  BY <1>1, <1>3 DEF Routine
<1>6. Phase(t) = "running"
  BY <1>3, <1>4, <1>2 DEF Phase, Live
<1>7. \A l \in DOMAIN routines' : routines'[l].type = t => ~(routines'[l].at # "done")
  BY <1>4, <1>5
<1>8. Phase(t)' = "stopped"
  BY <1>3, <1>4, <1>7 DEF Phase, Live
<1>9. ASSUME NEW u \in Types \ {t} PROVE Phase(u)' = Phase(u)
  <2>1. (\E l \in DOMAIN routines : routines[l].type = u /\ Live(l))'
        <=> \E l \in DOMAIN routines : routines[l].type = u /\ Live(l)
    BY <1>5, <1>2 DEF Live
  <2> QED  BY <1>3, <2>1 DEF Phase
<1>10. Phases' = [Phases EXCEPT ![t] = "stopped"] /\ Phases[t] = "running"
  BY <1>4, <1>6, <1>8, <1>9 DEF Phases
<1> QED  BY <1>3, <1>10 DEF Lifecycle!Halt, Phases, Gate

\* The goroutine running or syncing is not seen in the lifecycle.
LEMMA RunKeepsPhases ==
    ASSUME Inv, NEW k \in DOMAIN routines, RoutineRuns(k) \/ RoutineSyncs(k)
    PROVE  Phases' = Phases
<1>1. CASE RoutineSyncs(k)
  BY <1>1, PhasesStay DEF RoutineSyncs, guarded
<1>2. CASE RoutineRuns(k)
  <2>1. /\ routines \in Seq(Routine) /\ routines[k] \in Routine
        /\ routines[k].at = "ready" /\ UNCHANGED startedInformers
        /\ routines' = [routines EXCEPT ![k].at = "running"]
    BY <1>2 DEF RoutineRuns, guarded, Inv, TypeOK
  <2>2. /\ DOMAIN routines' = DOMAIN routines
        /\ \A l \in DOMAIN routines :
              routines'[l].type = routines[l].type
              /\ (routines'[l].at # "done" <=> routines[l].at # "done")
    BY <2>1 DEF Routine
  <2>3. ASSUME NEW t \in Types PROVE Phase(t)' = Phase(t)
    <3>1. (\E l \in DOMAIN routines : routines[l].type = t /\ Live(l))'
          <=> \E l \in DOMAIN routines : routines[l].type = t /\ Live(l)
      BY <2>2 DEF Live
    <3> QED  BY <2>1, <3>1 DEF Phase
  <2> QED  BY <2>3 DEF Phases
<1> QED  BY <1>1, <1>2

\* Every step of the factory is a step of the lifecycle, or a stutter.
LEMMA LifecycleStep ==
    ASSUME Inv, [Next]_vars PROVE [Lifecycle!LifecycleNext]_(Lifecycle!lifecycleVars)
<1>1. ASSUME Phases' = Phases, UNCHANGED Gate PROVE UNCHANGED Lifecycle!lifecycleVars
  BY <1>1 DEF Lifecycle!lifecycleVars, Phases
<1>2. CASE \E c \in Callers, t \in Types : Spawn(c, t)
  BY <1>2, SpawnLaunches DEF Lifecycle!LifecycleNext
<1>3. CASE \E k \in DOMAIN routines : RoutineReturns(k)
  BY <1>3, ReturnHalts DEF Lifecycle!LifecycleNext
<1>4. CASE \E k \in DOMAIN routines : RoutineRuns(k) \/ RoutineSyncs(k)
  BY <1>1, <1>4, RunKeepsPhases DEF RoutineRuns, RoutineSyncs, guarded, history, Gate
<1>5. CASE \E c \in Callers : Shutdown(c)
  <2>1. shuttingDown' = TRUE /\ UNCHANGED <<startedInformers, routines, down>>
    BY <1>5 DEF Shutdown, routineVars, history
  <2>2. Phases' = Phases
    BY <2>1, PhasesStay
  <2>3. CASE shuttingDown
    BY <1>1, <2>1, <2>2, <2>3 DEF Gate, Inv, TypeOK
  <2>4. CASE ~shuttingDown
    <3>1. Gate = "open" /\ Gate' = "closing"
      BY <2>1, <2>4 DEF Gate, Inv, DownOK
    <3>2. Lifecycle!Close
      BY <2>2, <3>1 DEF Lifecycle!Close, Phases
    <3> QED  BY <3>2 DEF Lifecycle!LifecycleNext
  <2> QED  BY <2>3, <2>4
<1>6. CASE \E c \in Callers : ShutdownReturns(c)
  <2>1. /\ down' = TRUE /\ wg = 0 /\ UNCHANGED <<startedInformers, routines, shuttingDown>>
        /\ shuttingDown
    BY <1>6 DEF ShutdownReturns, guarded, routineVars, Inv, DownOK
  <2>2. Phases' = Phases
    BY <2>1, PhasesStay
  <2>3. \A t \in Types : Phase(t) # "running"
    BY <2>1, ZeroMeansNone DEF Inv, TypeOK, LiveSet, Phase
  <2>4. CASE down
    BY <1>1, <2>1, <2>2, <2>4 DEF Gate
  <2>5. CASE ~down
    <3>1. Gate = "closing" /\ Gate' = "shut"
      BY <2>1, <2>5 DEF Gate
    <3>2. Lifecycle!Shut
      BY <2>2, <2>3, <3>1 DEF Lifecycle!Shut, Phases
    <3> QED  BY <3>2 DEF Lifecycle!LifecycleNext
  <2> QED  BY <2>4, <2>5
<1>7. CASE UNCHANGED <<startedInformers, routines, shuttingDown, down>>
  BY <1>1, <1>7, PhasesStay DEF Gate
<1>8. ASSUME NEW c \in Callers, Call(c) \/ Snapshot(c)
      PROVE  Shutdown(c) \/ UNCHANGED <<startedInformers, routines, shuttingDown, down>>
  BY <1>8
  DEF Call, InformerFor, Start, WaitForCacheSync, Snapshot, guarded, routineVars, history
<1>9. ASSUME NEW c \in Callers, Proceed(c)
      PROVE  \/ \E t \in Types : Spawn(c, t)
             \/ ShutdownReturns(c)
             \/ UNCHANGED <<startedInformers, routines, shuttingDown, down>>
  BY <1>9
  DEF Proceed, InformerExists, InformerMissing, InformerNew, StartRefused, StartLoop,
      StartReturns, SyncReturns, SkipStarted, Synced, NotSynced, guarded, routineVars, history
<1>10. ASSUME UNCHANGED vars \/ \E ch \in Channels : CloseChannel(ch)
       PROVE  UNCHANGED <<startedInformers, routines, shuttingDown, down>>
  BY <1>10 DEF CloseChannel, vars, guarded, routineVars, history
<1> QED
  BY <1>2, <1>3, <1>4, <1>5, <1>6, <1>7, <1>8, <1>9, <1>10 DEF Next

\* An informer runs at most once, none is launched once Shutdown was called, and when
\* a Shutdown has returned none runs: every step of the factory is a step of
\* InformerLifecycle or leaves its variables alone.
THEOREM FactoryImplements == Spec => KeepsLifecycle
<1>1. Init => Lifecycle!LifecycleInit
  BY DEF Init, Lifecycle!LifecycleInit, Phase, Gate
<1> QED
  BY <1>1, LifecycleStep, Invariance, PTL DEF Spec, KeepsLifecycle, Lifecycle!LifecycleSpec
=============================================================================
