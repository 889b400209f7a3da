-------------------------- MODULE ApplicationStore --------------------------
(***************************************************************************)
(* The cluster state the application operator works on: the Applications   *)
(* users store in the API server and the Pods made for them, with the      *)
(* operations users and nodes apply behind the operator's back.            *)
(*                                                                         *)
(* Every write to an Application is kept in a log, so a version is an      *)
(* index into it; version 0 is "never written".  The namespace, labels and *)
(* pod template are abstracted to the version they were written with: a    *)
(* Pod records the version its Labels and Spec were copied from.           *)
(***************************************************************************)
EXTENDS Integers, FiniteSets, Sequences

CONSTANTS
    Applications,   \* names of Applications in one namespace
    Replicas,       \* the values of spec.replicas users write
    MaxEdits,       \* bound: writes to one Application
    Evictable       \* Applications whose Pods may be deleted from outside

ASSUME ApplicationsAssumption == Applications # {}
ASSUME ReplicasAssumption == Replicas \subseteq Int
ASSUME MaxEditsAssumption == MaxEdits \in Nat
ASSUME EvictableAssumption == Evictable \subseteq Applications

VARIABLES
    log,        \* log[n]: every state of Application n, oldest first
    pods,       \* the Pods now stored
    created,    \* history: every Pod ever stored
    evicted     \* history: the Applications that ever lost a Pod

storeVars == <<log, pods, created, evicted>>

-----------------------------------------------------------------------------
Stored(r) == [exists |-> TRUE, replicas |-> r]
Absent == [exists |-> FALSE, replicas |-> 0]
Entry == {Stored(r) : r \in Replicas} \cup {Absent}

Latest(n) == Len(log[n])
At(n, v) == IF v = 0 THEN Absent ELSE log[n][v]

Pod == [app : Applications, ordinal : Nat, from : Nat]

\* The Pod number i of version v of n: fmt.Sprintf("%s-%d", crapp.Name, i) is
\* injective in (name, i), so those two stand for the name.
PodOf(n, i, v) == [app |-> n, ordinal |-> i, from |-> v]
PodsOf(n) == {p \in pods : p.app = n}
SameName(p, q) == p.app = q.app /\ p.ordinal = q.ordinal
NameTaken(p) == \E q \in pods : SameName(p, q)

StoreTypeOK ==
    /\ log \in [Applications -> Seq(Entry)]
    /\ pods \subseteq created
    /\ created \subseteq Pod
    /\ evicted \subseteq Evictable

StoreInit ==
    /\ log = [n \in Applications |-> <<>>]
    /\ pods = {}
    /\ created = {}
    /\ evicted = {}

-----------------------------------------------------------------------------
Write(n, entry) ==
    /\ Latest(n) < MaxEdits
    /\ log' = [log EXCEPT ![n] = Append(@, entry)]
    /\ UNCHANGED <<pods, created, evicted>>

CreateApplication(n, r) ==
    /\ ~At(n, Latest(n)).exists
    /\ Write(n, Stored(r))

\* Any write bumps the version, one that keeps the replicas (labels, template)
\* included.
UpdateApplication(n, r) ==
    /\ At(n, Latest(n)).exists
    /\ Write(n, Stored(r))

\* No Pod has an ownerReference, so nothing is garbage-collected.
DeleteApplication(n) ==
    /\ At(n, Latest(n)).exists
    /\ Write(n, Absent)

\* Eviction, node loss or kubectl delete pod.
EvictPod(p) ==
    /\ p.app \in Evictable
    /\ pods' = pods \ {p}
    /\ evicted' = evicted \cup {p.app}
    /\ UNCHANGED <<log, created>>

UserStep ==
    \/ \E n \in Applications, r \in Replicas :
            CreateApplication(n, r) \/ UpdateApplication(n, r)
    \/ \E n \in Applications : DeleteApplication(n)
    \/ \E p \in pods : EvictPod(p)

\* The API server accepts a create: the name must be free.
StorePod(p) ==
    /\ ~NameTaken(p)
    /\ pods' = pods \cup {p}
    /\ created' = created \cup {p}
    /\ UNCHANGED <<log, evicted>>
=============================================================================
