------------------------------- MODULE Clientsets -------------------------------
(***************************************************************************)
(* A program that uses the generated clients of both modules               *)
(* (pkg/client/clientset_generated): its packages are initialised, which   *)
(* fills each clientset's scheme, and then several goroutines make clients *)
(* from one rest.Config, through a clientset or a version's own package.   *)
(*                                                                         *)
(* A *rest.Config is a slot of memory here: each constructor is given one  *)
(* and copies it before it writes to it.  A clientset's NewForConfig       *)
(* copies once more than modelled, in the NewForConfigAndClient it ends    *)
(* in, from a copy no one else can see.  OrDie only panics on the error.   *)
(***************************************************************************)
EXTENDS Integers, Sequences

CONSTANTS
    Callers,    \* goroutines that make clients
    None        \* no goroutine, version or client; a nil limiter

VARIABLES
    stage,      \* what the program does: initialise packages, make clients, use informers
    inited,     \* the packages initialised: versions and clientsets' scheme packages
    builder,    \* builder[v]: what is registered with version v's SchemeBuilder
    scheme,     \* what the clientsets' schemes know: versions with registered things
    mem,        \* mem[s]: the rest.Config in slot s
    call,       \* call[g]: where g's call is
    made        \* made[g]: the REST clients g's call has made, None for those it has not

clientVars == <<stage, inited, builder, scheme, mem, call, made>>

-----------------------------------------------------------------------------
Groups == {"greeting", "registration"}
Versions == {"greeting/v1", "greeting/v2", "registration/v1", "registration/v1beta1"}

\* The clients a clientset makes, in this order.
GreetingClients == <<"greeting/v1", "greeting/v2", "discovery">>
RegistrationClients == <<"registration/v1", "registration/v1beta1", "discovery">>
ClientsOf(group) == IF group = "greeting" THEN GreetingClients ELSE RegistrationClients
Clients == Versions \cup {"discovery"}
VersionsOf(group) == {v \in Versions : \E j \in DOMAIN ClientsOf(group) : ClientsOf(group)[j] = v}

\* What the init functions of a version's package register.
GreetingV1Registers == {"types", "conversions", "defaults"}
GreetingV2Registers == {"types", "conversions"}
RegistrationV1Registers == {"types", "conversions"}
RegistrationV1beta1Registers == {"types", "conversions"}

Registers == [v \in Versions |->
    CASE v = "greeting/v1" -> GreetingV1Registers
      [] v = "greeting/v2" -> GreetingV2Registers
      [] v = "registration/v1" -> RegistrationV1Registers
      [] v = "registration/v1beta1" -> RegistrationV1beta1Registers]
Registered == {"types", "conversions", "defaults"}

\* Slots: the program's config, and a copy at each level of a call.  A rate limiter is
\* named after who made it: the program, a clientset or a single REST client.
Program == <<None, "program">>
Slots == {Program} \cup (Callers \X {"set", "typed"})
Limiters == {Program} \cup (Callers \X ({"set"} \cup Clients))

Config == [limiter : Limiters \cup {None}, qps : -1..1, burst : 0..1, tlsOK : BOOLEAN,
           hostOK : BOOLEAN, version : Clients \cup {None}]
NoConfig == [limiter |-> None, qps |-> 0, burst |-> 0, tlsOK |-> TRUE, hostOK |-> TRUE, version |-> None]

Stages == {"idle", "http", "limiter", "typed", "rest", "done", "failed"}

\* at and typed are pointers; one tells a version's own constructor from a clientset's.
Call == [pc : Stages, at : Slots, typed : Slots, todo : Seq(Clients), one : BOOLEAN,
         http : Callers \cup {None}]
NoCall == [pc |-> "idle", at |-> Program, typed |-> Program, todo |-> <<>>, one |-> FALSE, http |-> None]

RESTClient == [version : Clients \cup {None}, limiter : Limiters \cup {None}, http : Callers \cup {None}]

ClientTypeOK ==
    /\ stage \in {"packages", "clients", "informers"}
    /\ inited \subseteq Versions \cup Groups
    /\ builder \in [Versions -> SUBSET Registered]
    /\ scheme \subseteq Versions \X Registered
    /\ mem \in [Slots -> Config]
    /\ call \in [Callers -> Call]
    /\ made \in [Callers -> [Clients -> RESTClient \cup {None}]]

NothingMade == [g \in Callers |-> [c \in Clients |-> None]]

\* A config has a limiter, a QPS (negative for unlimited) and a burst, or lacks them.
ClientInit ==
    /\ stage = "packages"
    /\ inited = {} /\ builder = [v \in Versions |-> {}] /\ scheme = {}
    /\ \E limiter \in {Program, None}, qps \in -1..1, burst \in 0..1, tls, host \in BOOLEAN :
         mem = [s \in Slots |-> IF s = Program
                  THEN [limiter |-> limiter, qps |-> qps, burst |-> burst, tlsOK |-> tls, hostOK |-> host,
                        version |-> None]
                  ELSE NoConfig]
    /\ call = [g \in Callers |-> NoCall] /\ made = NothingMade

-----------------------------------------------------------------------------
\* Package initialisation, in any order that imports allow.  The variable AddToScheme
\* is a method value made before the init functions run: it is bound to the builder's
\* address, so that a call runs what is registered by then.
BoundToValue(v) == {}
BoundToAddress(v) == builder[v]

InitVersion(v) ==
    /\ stage = "packages" /\ v \notin inited
    /\ inited' = inited \cup {v}
    /\ builder' = [builder EXCEPT ![v] = @ \cup Registers[v]]
    /\ UNCHANGED <<stage, scheme, mem, call, made>>

InitScheme(group) ==
    /\ stage = "packages" /\ group \notin inited /\ VersionsOf(group) \subseteq inited
    /\ inited' = inited \cup {group}
    /\ scheme' = scheme \cup {s \in VersionsOf(group) \X Registered : s[2] \in BoundToAddress(s[1])}
    /\ UNCHANGED <<stage, builder, mem, call, made>>

RunMain ==
    /\ stage = "packages" /\ Groups \subseteq inited
    /\ stage' = "clients"
    /\ UNCHANGED <<inited, builder, scheme, mem, call, made>>

-----------------------------------------------------------------------------
\* setConfigDefaults of each client.
GreetingV1Defaults(c) == [c EXCEPT !.version = "greeting/v1"]
GreetingV2Defaults(c) == [c EXCEPT !.version = "greeting/v2"]
RegistrationV1Defaults(c) == [c EXCEPT !.version = "registration/v1"]
RegistrationV1beta1Defaults(c) == [c EXCEPT !.version = "registration/v1beta1"]
DiscoveryDefaults(c) == [c EXCEPT !.version = "discovery"]

Defaulted(v, c) ==
    CASE v = "greeting/v1" -> GreetingV1Defaults(c)
      [] v = "greeting/v2" -> GreetingV2Defaults(c)
      [] v = "registration/v1" -> RegistrationV1Defaults(c)
      [] v = "registration/v1beta1" -> RegistrationV1beta1Defaults(c)
      [] v = "discovery" -> DiscoveryDefaults(c)

Own(g, level) == <<g, level>>

\* A call begins: of a clientset's NewForConfig, or of NewForConfigAndClient with an
\* HTTP client of the program's.
Begin(g, pc, at, todo, one) ==
    /\ stage = "clients" /\ call[g].pc = "idle"
    /\ call' = [call EXCEPT ![g] = [NoCall EXCEPT !.pc = pc, !.at = at, !.todo = todo, !.one = one]]
    /\ UNCHANGED <<stage, inited, builder, scheme, made>>

NewForConfig(g, group) ==
    /\ mem' = [mem EXCEPT ![Own(g, "set")] = mem[Program]]
    /\ Begin(g, "http", Own(g, "set"), ClientsOf(group), FALSE)

NewForConfigAndClientInPlace(g, group) ==
    /\ Begin(g, "limiter", Program, ClientsOf(group), FALSE)
    /\ UNCHANGED mem

NewForConfigAndClient(g, group) ==
    /\ mem' = [mem EXCEPT ![Own(g, "set")] = mem[Program]]
    /\ Begin(g, "limiter", Own(g, "set"), ClientsOf(group), FALSE)

\* The same of a version's own package.
TypedNewForConfig(g, v) ==
    /\ mem' = [mem EXCEPT ![Own(g, "set")] = Defaulted(v, mem[Program])]
    /\ Begin(g, "http", Own(g, "set"), <<v>>, TRUE)

TypedNewForConfigAndClient(g, v) ==
    /\ Begin(g, "typed", Program, <<v>>, TRUE)
    /\ UNCHANGED mem

At(g) == mem[call[g].at]

Goes(g, pc) == call' = [call EXCEPT ![g].pc = pc]

HTTPClientFor(g) ==
    /\ call[g].pc = "http"
    /\ IF At(g).tlsOK
       THEN call' = [call EXCEPT ![g].pc = IF call[g].one THEN "typed" ELSE "limiter", ![g].http = g]
       ELSE Goes(g, "failed")
    /\ UNCHANGED <<stage, inited, builder, scheme, mem, made>>

RateLimiterKept(g) ==
    /\ call[g].pc = "limiter" /\ (At(g).limiter # None \/ At(g).qps <= 0)
    /\ Goes(g, "typed")
    /\ UNCHANGED <<stage, inited, builder, scheme, mem, made>>

RateLimiterMade(g) ==
    /\ call[g].pc = "limiter" /\ At(g).limiter = None /\ At(g).qps > 0 /\ At(g).burst > 0
    /\ mem' = [mem EXCEPT ![call[g].at].limiter = Own(g, "set")]
    /\ Goes(g, "typed")
    /\ UNCHANGED <<stage, inited, builder, scheme, made>>

BurstRefused(g) ==
    /\ call[g].pc = "limiter" /\ At(g).limiter = None /\ At(g).qps > 0 /\ At(g).burst <= 0
    /\ Goes(g, "failed")
    /\ UNCHANGED <<stage, inited, builder, scheme, mem, made>>

\* NewForConfigAndClient of the next version, or of discovery: a copy with its defaults.
TypedConfigInPlace(g) ==
    /\ call[g].pc = "typed"
    /\ mem' = [mem EXCEPT ![call[g].at] = Defaulted(Head(call[g].todo), At(g))]
    /\ call' = [call EXCEPT ![g].pc = "rest", ![g].typed = call[g].at]
    /\ UNCHANGED <<stage, inited, builder, scheme, made>>

TypedConfig(g) ==
    /\ call[g].pc = "typed"
    /\ mem' = [mem EXCEPT ![Own(g, "typed")] = Defaulted(Head(call[g].todo), At(g))]
    /\ call' = [call EXCEPT ![g].pc = "rest", ![g].typed = Own(g, "typed")]
    /\ UNCHANGED <<stage, inited, builder, scheme, made>>

\* rest.RESTClientForConfigAndClient makes a limiter unless it is given one, of QPS 5
\* for QPS 0, or none for a negative QPS.
LimiterFor(g, config) ==
    IF config.limiter # None THEN config.limiter
    ELSE IF config.qps >= 0 THEN Own(g, Head(call[g].todo)) ELSE None

RESTClientFor(g) ==
    LET config == mem[call[g].typed] IN
    /\ call[g].pc = "rest" /\ config.hostOK
    /\ made' = [made EXCEPT ![g][Head(call[g].todo)] =
                  [version |-> config.version, limiter |-> LimiterFor(g, config), http |-> call[g].http]]
    /\ call' = [call EXCEPT ![g].todo = Tail(@), ![g].pc = IF Len(call[g].todo) = 1 THEN "done" ELSE "typed"]
    /\ UNCHANGED <<stage, inited, builder, scheme, mem>>

\* It makes no client for a host that is not a URL, and its error ends the whole call.
RESTClientRefused(g) ==
    /\ call[g].pc = "rest" /\ ~mem[call[g].typed].hostOK
    /\ Goes(g, "failed")
    /\ UNCHANGED <<stage, inited, builder, scheme, mem, made>>

-----------------------------------------------------------------------------
ClientNext ==
    \/ \E v \in Versions : InitVersion(v)
    \/ \E group \in Groups : InitScheme(group)
    \/ RunMain
    \/ \E g \in Callers :
         \/ \E group \in Groups : NewForConfig(g, group) \/ NewForConfigAndClient(g, group)
         \/ \E v \in Versions : TypedNewForConfig(g, v) \/ TypedNewForConfigAndClient(g, v)
         \/ HTTPClientFor(g) \/ RateLimiterKept(g) \/ RateLimiterMade(g) \/ BurstRefused(g)
         \/ TypedConfig(g) \/ RESTClientFor(g) \/ RESTClientRefused(g)

-----------------------------------------------------------------------------
\* Every client speaks its own version, also when goroutines make clients of different
\* versions from one config at the same time: all defaults go into copies.
OwnVersion ==
    \A g \in Callers, c \in Clients : made[g][c] # None => made[g][c].version = c

\* Who shares a rate limiter: all clients, if the program gave one; the clients of one
\* clientset, if the config has a QPS; nobody else.
OneBudget ==
    \A g, h \in Callers, c, d \in Clients :
        made[g][c] # None /\ made[h][d] # None /\ <<g, c>> # <<h, d>> =>
            (made[g][c].limiter = made[h][d].limiter /\ made[g][c].limiter # None <=>
                mem[Program].limiter # None \/ (g = h /\ mem[Program].qps > 0))
=============================================================================
