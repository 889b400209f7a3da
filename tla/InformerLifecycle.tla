--------------------------- MODULE InformerLifecycle ---------------------------
(***************************************************************************)
(* What a shared informer factory promises (the comments of the interface  *)
(* SharedInformerFactory): an informer runs at most once, none is started  *)
(* after Shutdown was called, and when a Shutdown has returned none runs.  *)
(***************************************************************************)
EXTENDS Naturals

CONSTANT Types      \* the types informers are asked for

VARIABLES
    phase,  \* phase[t]: "requestable", "running" or "stopped"
    gate    \* "open", "closing" once Shutdown was called, "shut" once one returned

lifecycleVars == <<phase, gate>>

LifecycleInit ==
    /\ phase = [t \in Types |-> "requestable"]
    /\ gate = "open"

Launch(t) ==
    /\ gate = "open"
    /\ phase[t] = "requestable"
    /\ phase' = [phase EXCEPT ![t] = "running"]
    /\ UNCHANGED gate

Halt(t) ==
    /\ phase[t] = "running"
    /\ phase' = [phase EXCEPT ![t] = "stopped"]
    /\ UNCHANGED gate

Close ==
    /\ gate = "open"
    /\ gate' = "closing"
    /\ UNCHANGED phase

Shut ==
    /\ gate = "closing"
    /\ \A t \in Types : phase[t] # "running"
    /\ gate' = "shut"
    /\ UNCHANGED phase

LifecycleNext ==
    \/ \E t \in Types : Launch(t) \/ Halt(t)
    \/ Close
    \/ Shut

LifecycleSpec == LifecycleInit /\ [][LifecycleNext]_lifecycleVars
=============================================================================
