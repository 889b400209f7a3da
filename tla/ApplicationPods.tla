--------------------------- MODULE ApplicationPods ---------------------------
(***************************************************************************)
(* What the application operator promises about Pods, whatever manager     *)
(* runs, crashes, loses its lease, reads a stale cache or loses an answer: *)
(* it only ever adds Pods, one at a time, under a free name, each of them  *)
(* asked for by some version of its Application, and it starts Pod i of a  *)
(* version only once it has made Pod i-1 of that same version.             *)
(***************************************************************************)
EXTENDS ApplicationStore

\* The ordinals version v of n asks for: 0 <= i < int(crapp.Spec.Replicas).
Ordinals(n, v) == 0..(At(n, v).replicas - 1)

AddPod(n, i, v) ==
    /\ i > 0 => PodOf(n, i - 1, v) \in created
    /\ StorePod(PodOf(n, i, v))

AbstractNext ==
    \/ UserStep
    \/ \E n \in Applications :
            \E v \in 1..Latest(n) : \E i \in Ordinals(n, v) : AddPod(n, i, v)

AbstractSpec == StoreInit /\ [][AbstractNext]_storeVars
=============================================================================
