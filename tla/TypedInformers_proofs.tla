-------------------------- MODULE TypedInformers_proofs --------------------------
(***************************************************************************)
(* Proofs about Clientsets and TypedInformers, for any goroutines,         *)
(* namespaces, writes and broken watches.                                  *)
(*                                                                         *)
(* The argument for the clients: a goroutine only writes to its own copies *)
(* of the config, so what a call knows of its copies stays true whatever   *)
(* other goroutines do.  The argument for the informers: the informer kept *)
(* for a type is the one its own package makes, and its list and its watch *)
(* select the same objects.                                                *)
(***************************************************************************)
EXTENDS TypedInformers, TLAPS

Active == {"http", "limiter", "typed", "rest"}

\* The limiter a call's clients get, if any, before a REST client makes one of its own.
Budget(g) ==
    IF mem[Program].limiter # None THEN mem[Program].limiter
    ELSE IF ~call[g].one /\ mem[Program].qps > 0 THEN Own(g, "set") ELSE None

ClientLimiter(g, c) ==
    IF Budget(g) # None THEN Budget(g)
    ELSE IF mem[Program].qps >= 0 THEN Own(g, c) ELSE None

NothingMadeBy(g) == \A c \in Clients : made[g][c] = None

\* Where a call's copies are and what is in them.
CopiesOwn(g) ==
    /\ call[g].at \in {Program, Own(g, "set")}
    /\ call[g].pc \in {"http", "limiter"} =>
         call[g].at = Own(g, "set") /\ mem[call[g].at].limiter = mem[Program].limiter
    /\ call[g].pc \in Active => mem[call[g].at].qps = mem[Program].qps
    /\ call[g].pc \in {"typed", "rest"} => mem[call[g].at].limiter = Budget(g)
    /\ call[g].pc = "rest" =>
         /\ call[g].typed = Own(g, "typed")
         /\ mem[call[g].typed].version = Head(call[g].todo)
         /\ mem[call[g].typed].limiter = Budget(g)
         /\ mem[call[g].typed].qps = mem[Program].qps

\* What is left to make, and what a call for one client has made.
TodoKnown(g) ==
    /\ call[g].pc = "idle" => NothingMadeBy(g)
    /\ call[g].pc = "limiter" => ~call[g].one
    /\ call[g].pc \in Active => call[g].todo # <<>>
    /\ call[g].one /\ call[g].pc \in Active => Len(call[g].todo) = 1 /\ NothingMadeBy(g)
    /\ call[g].one => \A c, d \in Clients : made[g][c] # None /\ made[g][d] # None => c = d

MadeRight(g) ==
    \A c \in Clients : made[g][c] # None =>
        made[g][c].version = c /\ made[g][c].limiter = ClientLimiter(g, c)

CallInv(g) == CopiesOwn(g) /\ TodoKnown(g) /\ MadeRight(g)

ClientInv == ClientTypeOK /\ \A g \in Callers : CallInv(g)

-----------------------------------------------------------------------------
LEMMA SlotsApart ==
    ASSUME NEW g \in Callers
    PROVE  /\ Program \in Slots /\ Own(g, "set") \in Slots /\ Own(g, "typed") \in Slots
           /\ Own(g, "set") # Own(g, "typed")
           /\ Own(g, "set") # Program /\ Own(g, "typed") # Program
           /\ \A h \in Callers, k, l \in {"set", "typed"} : g # h => Own(g, k) # Own(h, l)
  BY DEF Program, Own, Slots

LEMMA LimitersApart ==
    ASSUME NEW g \in Callers
    PROVE  /\ Own(g, "set") \in Limiters /\ \A c \in Clients : Own(g, c) \in Limiters
           /\ \A h \in Callers, c, d \in Clients \cup {"set"} : Own(g, c) = Own(h, d) => g = h /\ c = d
           /\ None \notin Limiters
  BY NoneAssumption DEF Own, Limiters

\* A goroutine that writes to its own slots only does not disturb another's call.
LEMMA OthersKept ==
    ASSUME ClientTypeOK, NEW g \in Callers, NEW h \in Callers, h # g, CallInv(h),
           \A s \in Slots \ {Own(g, "set"), Own(g, "typed")} : mem'[s] = mem[s],
           call'[h] = call[h], made'[h] = made[h]
    PROVE  CallInv(h)'
<1>1. /\ mem'[Program] = mem[Program]
      /\ mem'[Own(h, "set")] = mem[Own(h, "set")]
      /\ mem'[Own(h, "typed")] = mem[Own(h, "typed")]
  BY SlotsApart
<1>2. Budget(h)' = Budget(h)
  <2>1. mem'[Program].limiter = mem[Program].limiter /\ mem'[Program].qps = mem[Program].qps
        /\ call'[h].one = call[h].one
    BY <1>1
  <2> QED BY <2>1 DEF Budget, Own
<1>3. CopiesOwn(h)'
  <2>1. call[h].at \in {Program, Own(h, "set")} /\ mem'[call[h].at] = mem[call[h].at]
    BY <1>1 DEF CallInv, CopiesOwn
  <2>2. CASE call[h].pc = "rest"
    <3>1. call[h].typed = Own(h, "typed") /\ mem'[call[h].typed] = mem[call[h].typed]
      BY <1>1, <2>2 DEF CallInv, CopiesOwn
    <3> QED BY <1>1, <1>2, <2>1, <2>2, <3>1 DEF CallInv, CopiesOwn, Own
  <2>3. CASE call[h].pc # "rest"
    BY <1>1, <1>2, <2>1, <2>3 DEF CallInv, CopiesOwn, Own
  <2> QED BY <2>2, <2>3
<1>4. TodoKnown(h)'
  BY DEF CallInv, TodoKnown, NothingMadeBy
<1>5. MadeRight(h)'
  BY <1>1, <1>2 DEF CallInv, MadeRight, ClientLimiter, Own
<1> QED BY <1>3, <1>4, <1>5 DEF CallInv

LEMMA DefaultsSetVersion ==
    ASSUME NEW v \in Clients, NEW c \in Config
    PROVE  /\ Defaulted(v, c) \in Config
           /\ Defaulted(v, c).version = v
           /\ Defaulted(v, c).limiter = c.limiter /\ Defaulted(v, c).qps = c.qps
<1>1. Defaulted(v, c) = [c EXCEPT !.version = v]
  BY DEF Clients, Versions, Defaulted, GreetingV1Defaults, GreetingV2Defaults,
         RegistrationV1Defaults, RegistrationV1beta1Defaults, DiscoveryDefaults
<1> QED BY <1>1 DEF Config

LEMMA ClientsAreClients ==
    ASSUME NEW group \in Groups
    PROVE  /\ ClientsOf(group) \in Seq(Clients) /\ ClientsOf(group) # <<>>
<1>1. {"greeting/v1", "greeting/v2", "discovery", "registration/v1", "registration/v1beta1"} \subseteq Clients
  BY DEF Clients, Versions
<1>2. GreetingClients \in Seq(Clients) /\ GreetingClients # <<>>
  BY <1>1 DEF GreetingClients
<1>3. RegistrationClients \in Seq(Clients) /\ RegistrationClients # <<>>
  BY <1>1 DEF RegistrationClients
<1> QED BY <1>2, <1>3 DEF ClientsOf, Groups

-----------------------------------------------------------------------------
\* A call that begins has made nothing, and its copy of the config is the program's
\* but for the version.
LEMMA CallBegins ==
    ASSUME ClientInv, NEW g \in Callers, NEW pc \in {"http", "limiter", "typed"},
           NEW at \in {Program, Own(g, "set")}, NEW todo \in Seq(Clients), NEW one \in BOOLEAN,
           Begin(g, pc, at, todo, one), todo # <<>>,
           one => Len(todo) = 1, pc = "limiter" => ~one, pc = "typed" => one,
           pc \in {"http", "limiter"} => at = Own(g, "set"),
           mem' \in [Slots -> Config], \A s \in Slots \ {Own(g, "set")} : mem'[s] = mem[s],
           mem'[at].limiter = mem[Program].limiter, mem'[at].qps = mem[Program].qps
    PROVE  ClientInv'
<1> DEFINE new == [NoCall EXCEPT !.pc = pc, !.at = at, !.todo = todo, !.one = one]
<1>1. new \in Call /\ new.pc = pc /\ new.at = at /\ new.todo = todo /\ new.one = one
  BY SlotsApart DEF NoCall, Call, Stages
<1>2. call' = [call EXCEPT ![g] = new] /\ call[g].pc = "idle" /\ UNCHANGED <<stage, inited, builder, scheme, made>>
  BY DEF Begin
<1> HIDE DEF new
<1>3. ClientTypeOK'
  <2>1. call' \in [Callers -> Call]
    BY <1>1, <1>2 DEF ClientInv, ClientTypeOK
  <2> QED BY <1>2, <2>1 DEF ClientInv, ClientTypeOK
<1>4. call'[g] = new
  BY <1>2 DEF ClientInv, ClientTypeOK
<1>5. mem'[Program] = mem[Program]
  BY SlotsApart
<1>6. \A c \in Clients : made'[g][c] = None
  BY <1>2 DEF ClientInv, CallInv, TodoKnown, NothingMadeBy
<1>7. CallInv(g)'
  <2>1. CopiesOwn(g)'
    BY <1>1, <1>4, <1>5 DEF CopiesOwn, Budget, Own
  <2>2. TodoKnown(g)'
    BY <1>1, <1>4, <1>6 DEF TodoKnown, NothingMadeBy
  <2>3. MadeRight(g)'
    BY <1>6 DEF MadeRight
  <2> QED BY <2>1, <2>2, <2>3 DEF CallInv
<1>8. ASSUME NEW h \in Callers, h # g PROVE CallInv(h)'
  BY <1>2, <1>8, OthersKept DEF ClientInv, ClientTypeOK
<1> QED BY <1>3, <1>7, <1>8 DEF ClientInv

LEMMA CopiedConfig ==
    ASSUME ClientTypeOK, NEW g \in Callers, NEW c \in Config,
           mem' = [mem EXCEPT ![Own(g, "set")] = c]
    PROVE  /\ mem' \in [Slots -> Config] /\ mem'[Own(g, "set")] = c
           /\ \A s \in Slots \ {Own(g, "set")} : mem'[s] = mem[s]
  BY SlotsApart DEF ClientTypeOK

LEMMA BeginsKeep ==
    ASSUME ClientInv, NEW g \in Callers
    PROVE  /\ \A group \in Groups : NewForConfig(g, group) => ClientInv'
           /\ \A group \in Groups : NewForConfigAndClient(g, group) => ClientInv'
           /\ \A v \in Versions : TypedNewForConfig(g, v) => ClientInv'
           /\ \A v \in Versions : TypedNewForConfigAndClient(g, v) => ClientInv'
<1>1. ClientTypeOK /\ mem[Program] \in Config
  BY SlotsApart DEF ClientInv, ClientTypeOK
<1>2. ASSUME NEW group \in Groups, NewForConfig(g, group) PROVE ClientInv'
  <2>1. mem' = [mem EXCEPT ![Own(g, "set")] = mem[Program]]
        /\ Begin(g, "http", Own(g, "set"), ClientsOf(group), FALSE)
    BY <1>2 DEF NewForConfig
  <2>2. /\ mem' \in [Slots -> Config] /\ \A s \in Slots \ {Own(g, "set")} : mem'[s] = mem[s]
        /\ mem'[Own(g, "set")] = mem[Program]
    BY <1>1, <2>1, CopiedConfig
  <2> QED BY <2>1, <2>2, ClientsAreClients, CallBegins
<1>3. ASSUME NEW group \in Groups, NewForConfigAndClient(g, group) PROVE ClientInv'
  <2>1. mem' = [mem EXCEPT ![Own(g, "set")] = mem[Program]]
        /\ Begin(g, "limiter", Own(g, "set"), ClientsOf(group), FALSE)
    BY <1>3 DEF NewForConfigAndClient
  <2>2. /\ mem' \in [Slots -> Config] /\ \A s \in Slots \ {Own(g, "set")} : mem'[s] = mem[s]
        /\ mem'[Own(g, "set")] = mem[Program]
    BY <1>1, <2>1, CopiedConfig
  <2> QED BY <2>1, <2>2, ClientsAreClients, CallBegins
<1>4. ASSUME NEW v \in Versions PROVE <<v>> \in Seq(Clients) /\ <<v>> # <<>> /\ Len(<<v>>) = 1 /\ v \in Clients
  BY <1>4 DEF Clients
<1>5. ASSUME NEW v \in Versions, TypedNewForConfig(g, v) PROVE ClientInv'
  <2>1. mem' = [mem EXCEPT ![Own(g, "set")] = Defaulted(v, mem[Program])]
        /\ Begin(g, "http", Own(g, "set"), <<v>>, TRUE)
    BY <1>5 DEF TypedNewForConfig
  <2>2. Defaulted(v, mem[Program]) \in Config
        /\ Defaulted(v, mem[Program]).limiter = mem[Program].limiter
        /\ Defaulted(v, mem[Program]).qps = mem[Program].qps
    BY <1>1, <1>4, DefaultsSetVersion
  <2>3. /\ mem' \in [Slots -> Config] /\ \A s \in Slots \ {Own(g, "set")} : mem'[s] = mem[s]
        /\ mem'[Own(g, "set")] = Defaulted(v, mem[Program])
    BY <1>1, <2>1, <2>2, CopiedConfig
  <2>4. mem'[Own(g, "set")].limiter = mem[Program].limiter /\ mem'[Own(g, "set")].qps = mem[Program].qps
    BY <2>2, <2>3
  <2> QED BY <1>4, <2>1, <2>3, <2>4, CallBegins
<1>6. ASSUME NEW v \in Versions, TypedNewForConfigAndClient(g, v) PROVE ClientInv'
  <2>1. mem' = mem /\ Begin(g, "typed", Program, <<v>>, TRUE)
    BY <1>6 DEF TypedNewForConfigAndClient
  <2> QED BY <1>1, <1>4, <2>1, CallBegins DEF ClientTypeOK
<1> QED BY <1>2, <1>3, <1>5, <1>6

-----------------------------------------------------------------------------
\* A step that moves a call on, and leaves what is made as it is.
LEMMA CallMoves ==
    ASSUME ClientInv, NEW g \in Callers, NEW new \in Call,
           call' = [call EXCEPT ![g] = new], UNCHANGED <<stage, inited, builder, scheme, made>>,
           mem' \in [Slots -> Config],
           \A s \in Slots \ {Own(g, "set"), Own(g, "typed")} : mem'[s] = mem[s],
           new.one = call[g].one, new.todo = call[g].todo, new.at = call[g].at,
           call[g].pc \in Active, new.pc # "idle", new.pc = "limiter" => ~new.one,
           CopiesOwn(g)'
    PROVE  ClientInv'
<1>1. ClientTypeOK'
  <2>1. call' \in [Callers -> Call]
    BY DEF ClientInv, ClientTypeOK
  <2> QED BY <2>1 DEF ClientInv, ClientTypeOK
<1>2. call'[g] = new /\ CallInv(g)
  BY DEF ClientInv, ClientTypeOK
<1>3. mem'[Program] = mem[Program]
  BY SlotsApart
<1>4. TodoKnown(g)'
  BY <1>2 DEF CallInv, TodoKnown, NothingMadeBy, Active
<1>5. MadeRight(g)'
  <2>1. Budget(g)' = Budget(g)
    BY <1>2, <1>3 DEF Budget, Own
  <2> QED BY <1>2, <1>3, <2>1 DEF CallInv, MadeRight, ClientLimiter, Own
<1>6. ASSUME NEW h \in Callers, h # g PROVE CallInv(h)'
  BY <1>6, OthersKept DEF ClientInv, ClientTypeOK
<1> QED BY <1>1, <1>4, <1>5, <1>6 DEF ClientInv, CallInv

LEMMA HTTPClientForKeeps ==
    ASSUME ClientInv, NEW g \in Callers, HTTPClientFor(g)
    PROVE  ClientInv'
<1>1. call[g] \in Call /\ call[g].pc = "http" /\ CallInv(g) /\ mem \in [Slots -> Config]
  BY DEF ClientInv, ClientTypeOK, HTTPClientFor
<1>2. PICK new \in Call : /\ call' = [call EXCEPT ![g] = new]
                          /\ new.one = call[g].one /\ new.todo = call[g].todo /\ new.at = call[g].at
                          /\ new.pc \in {"failed", IF call[g].one THEN "typed" ELSE "limiter"}
  <2>1. CASE At(g).tlsOK
    <3> DEFINE new == [call[g] EXCEPT !.pc = IF call[g].one THEN "typed" ELSE "limiter", !.http = g]
    <3>1. new \in Call /\ new.one = call[g].one /\ new.todo = call[g].todo /\ new.at = call[g].at
          /\ new.pc = IF call[g].one THEN "typed" ELSE "limiter"
      BY <1>1 DEF Call, Stages
    <3>2. call' = [call EXCEPT ![g] = new]
      BY <2>1 DEF HTTPClientFor
    <3> QED BY <3>1, <3>2
  <2>2. CASE ~At(g).tlsOK
    <3> DEFINE new == [call[g] EXCEPT !.pc = "failed"]
    <3>1. new \in Call /\ new.one = call[g].one /\ new.todo = call[g].todo /\ new.at = call[g].at
          /\ new.pc = "failed"
      BY <1>1 DEF Call, Stages
    <3>2. call' = [call EXCEPT ![g] = new]
      BY <2>2 DEF HTTPClientFor, Goes
    <3> QED BY <3>1, <3>2
  <2> QED BY <2>1, <2>2
<1>3. call'[g] = new /\ UNCHANGED <<stage, inited, builder, scheme, mem, made>>
  BY <1>2 DEF ClientInv, ClientTypeOK, HTTPClientFor
<1>4. CopiesOwn(g)'
  BY <1>1, <1>2, <1>3 DEF CallInv, CopiesOwn, Budget, Own, Active, TodoKnown, Call
<1> QED BY <1>1, <1>2, <1>3, <1>4, CallMoves DEF Active

LEMMA GoesIsCall ==
    ASSUME ClientTypeOK, NEW g \in Callers, NEW pc \in Stages, Goes(g, pc)
    PROVE  \E new \in Call : /\ call' = [call EXCEPT ![g] = new] /\ call'[g] = new
                             /\ new.pc = pc /\ new.one = call[g].one /\ new.todo = call[g].todo
                             /\ new.at = call[g].at
<1> DEFINE new == [call[g] EXCEPT !.pc = pc]
<1>1. new \in Call /\ new.one = call[g].one /\ new.todo = call[g].todo /\ new.at = call[g].at /\ new.pc = pc
  BY DEF ClientTypeOK, Call
<1>2. call' = [call EXCEPT ![g] = new]
  BY DEF Goes
<1>3. call'[g] = new
  BY <1>2 DEF ClientTypeOK
<1> QED BY <1>1, <1>2, <1>3

LEMMA RateLimiterKeeps ==
    ASSUME ClientInv, NEW g \in Callers, RateLimiterKept(g) \/ RateLimiterMade(g) \/ BurstRefused(g)
    PROVE  ClientInv'
<1>1. /\ call[g].pc = "limiter" /\ ~call[g].one /\ call[g].at = Own(g, "set")
      /\ mem[call[g].at].limiter = mem[Program].limiter /\ mem[call[g].at].qps = mem[Program].qps
      /\ CallInv(g)
  BY DEF ClientInv, CallInv, CopiesOwn, TodoKnown, Active, RateLimiterKept, RateLimiterMade, BurstRefused
<1>2. PICK new \in Call : /\ call' = [call EXCEPT ![g] = new] /\ call'[g] = new
                          /\ new.pc \in {"typed", "failed"} /\ (new.pc = "failed" => BurstRefused(g))
                          /\ new.one = call[g].one /\ new.todo = call[g].todo /\ new.at = call[g].at
  <2>1. ClientTypeOK /\ {"typed", "failed"} \subseteq Stages
    BY DEF ClientInv, Stages
  <2>2. CASE RateLimiterKept(g) \/ RateLimiterMade(g)
    <3>1. Goes(g, "typed")
      BY <2>2 DEF RateLimiterKept, RateLimiterMade
    <3> QED BY <2>1, <3>1, GoesIsCall
  <2>3. CASE BurstRefused(g)
    <3>1. Goes(g, "failed")
      BY <2>3 DEF BurstRefused
    <3> QED BY <2>1, <2>3, <3>1, GoesIsCall
  <2> QED BY <2>2, <2>3
<1>3. UNCHANGED <<stage, inited, builder, scheme, made>>
  BY DEF RateLimiterKept, RateLimiterMade, BurstRefused
<1>4. /\ mem' \in [Slots -> Config]
      /\ \A s \in Slots \ {Own(g, "set")} : mem'[s] = mem[s]
      /\ mem'[Own(g, "set")].qps = mem[Own(g, "set")].qps
      /\ RateLimiterMade(g) => mem'[Own(g, "set")].limiter = Own(g, "set")
      /\ ~RateLimiterMade(g) => mem' = mem
  <2>1. mem \in [Slots -> Config] /\ Own(g, "set") \in Slots /\ Own(g, "set") \in Limiters
    BY SlotsApart, LimitersApart DEF ClientInv, ClientTypeOK
  <2>2. CASE RateLimiterMade(g)
    <3>1. mem' = [mem EXCEPT ![Own(g, "set")].limiter = Own(g, "set")]
      BY <1>1, <2>2 DEF RateLimiterMade
    <3> QED BY <2>1, <2>2, <3>1 DEF Config
  <2>3. CASE ~RateLimiterMade(g)
    BY <2>1, <2>3 DEF RateLimiterKept, BurstRefused
  <2> QED BY <2>2, <2>3
<1>5. mem'[Program] = mem[Program] /\ mem[Program].qps \in -1..1
  BY <1>4, SlotsApart DEF ClientInv, ClientTypeOK, Config
<1>6. new.pc = "typed" => mem'[Own(g, "set")].limiter = Budget(g)'
  <2>1. CASE RateLimiterMade(g)
    BY <1>1, <1>2, <1>4, <1>5, <2>1 DEF Budget, RateLimiterMade, Own, At
  <2>2. CASE RateLimiterKept(g)
    <3>1. ~RateLimiterMade(g)
      BY <1>1, <1>5, <2>2 DEF RateLimiterKept, RateLimiterMade, At
    <3>2. mem' = mem /\ (mem[Program].limiter # None \/ mem[Program].qps <= 0)
      BY <1>1, <1>4, <2>2, <3>1 DEF RateLimiterKept, At
    <3>3. ~(mem[Program].qps > 0) \/ mem[Program].limiter # None
      BY <1>5, <3>2
    <3> QED BY <1>1, <1>2, <3>2, <3>3 DEF Budget
  <2>3. CASE BurstRefused(g)
    <3>1. call' = [call EXCEPT ![g].pc = "failed"]
      BY <2>3 DEF BurstRefused, Goes
    <3>2. call'[g].pc = "failed"
      BY <3>1 DEF ClientInv, ClientTypeOK, Call
    <3> QED BY <1>2, <3>2
  <2> QED BY <2>1, <2>2, <2>3
<1>7. CopiesOwn(g)'
  BY <1>1, <1>2, <1>4, <1>5, <1>6 DEF CopiesOwn, Active
<1> QED BY <1>1, <1>2, <1>3, <1>4, <1>7, CallMoves DEF Active

LEMMA TypedConfigKeeps ==
    ASSUME ClientInv, NEW g \in Callers, TypedConfig(g)
    PROVE  ClientInv'
<1> DEFINE new == [call[g] EXCEPT !.pc = "rest", !.typed = Own(g, "typed")]
           config == Defaulted(Head(call[g].todo), At(g))
<1>1. /\ call[g] \in Call /\ call[g].pc = "typed" /\ CallInv(g) /\ mem \in [Slots -> Config]
      /\ call' = [call EXCEPT ![g] = new] /\ mem' = [mem EXCEPT ![Own(g, "typed")] = config]
      /\ UNCHANGED <<stage, inited, builder, scheme, made>>
  BY DEF ClientInv, ClientTypeOK, TypedConfig
<1>2. call[g].todo \in Seq(Clients) /\ call[g].todo # <<>> /\ call[g].at \in Slots
  BY <1>1 DEF CallInv, TodoKnown, Active, Call
<1>3. Head(call[g].todo) \in Clients /\ At(g) \in Config
  BY <1>1, <1>2 DEF At
<1>4. /\ config \in Config /\ config.version = Head(call[g].todo)
      /\ config.limiter = mem[call[g].at].limiter /\ config.qps = mem[call[g].at].qps
  BY <1>3, DefaultsSetVersion DEF At
<1>5. new \in Call /\ new.one = call[g].one /\ new.todo = call[g].todo /\ new.at = call[g].at
      /\ new.pc = "rest" /\ new.typed = Own(g, "typed")
  BY <1>1, SlotsApart DEF Call, Stages
<1> HIDE DEF new, config
<1>6. call'[g] = new
  BY <1>1 DEF ClientInv, ClientTypeOK
<1>7. /\ mem' \in [Slots -> Config] /\ mem'[Own(g, "typed")] = config
      /\ \A s \in Slots \ {Own(g, "typed")} : mem'[s] = mem[s]
  BY <1>1, <1>4, SlotsApart
<1>8. mem'[Program] = mem[Program] /\ mem'[call[g].at] = mem[call[g].at]
  BY <1>1, <1>7, SlotsApart DEF CallInv, CopiesOwn
<1>9. Budget(g)' = Budget(g)
  BY <1>5, <1>6, <1>8 DEF Budget, Own
<1>10. CopiesOwn(g)'
  <2>1. /\ call[g].at \in {Program, Own(g, "set")}
        /\ mem[call[g].at].qps = mem[Program].qps /\ mem[call[g].at].limiter = Budget(g)
    BY <1>1 DEF CallInv, CopiesOwn, Active
  <2>2. /\ call'[g].at = call[g].at /\ call'[g].pc = "rest" /\ call'[g].typed = Own(g, "typed")
        /\ call'[g].todo = call[g].todo
    BY <1>5, <1>6
  <2>3. /\ mem'[Own(g, "typed")].version = Head(call[g].todo)
        /\ mem'[Own(g, "typed")].limiter = Budget(g) /\ mem'[Own(g, "typed")].qps = mem[Program].qps
    BY <1>4, <1>7, <2>1
  <2> QED BY <1>8, <1>9, <2>1, <2>2, <2>3 DEF CopiesOwn, Own
<1> QED BY <1>1, <1>5, <1>6, <1>7, <1>10, CallMoves DEF Active

LEMMA RestOfSequence ==
    ASSUME NEW S, NEW s \in Seq(S), s # <<>>
    PROVE  Tail(s) \in Seq(S) /\ (Len(s) # 1 => Tail(s) # <<>>)
<1>1. Tail(s) \in Seq(S) /\ Len(Tail(s)) = Len(s) - 1 /\ Len(s) \in Nat
  OBVIOUS
<1>2. Len(<<>>) = 0
  OBVIOUS
<1>3. ASSUME Len(s) # 1 PROVE Tail(s) # <<>>
  <2>1. Len(Tail(s)) # 0
    BY <1>1, <1>3
  <2> QED BY <1>2, <2>1
<1> QED BY <1>1, <1>3

LEMMA RESTClientForKeeps ==
    ASSUME ClientInv, NEW g \in Callers, RESTClientFor(g)
    PROVE  ClientInv'
<1> DEFINE c == Head(call[g].todo)
           config == mem[call[g].typed]
           client == [version |-> config.version, limiter |-> LimiterFor(g, config), http |-> call[g].http]
           new == [call[g] EXCEPT !.todo = Tail(call[g].todo),
                                  !.pc = IF Len(call[g].todo) = 1 THEN "done" ELSE "typed"]
<1>1. /\ call[g] \in Call /\ call[g].pc = "rest" /\ CallInv(g) /\ mem \in [Slots -> Config]
      /\ call' = [call EXCEPT ![g] = new] /\ made' = [made EXCEPT ![g][c] = client]
      /\ UNCHANGED <<stage, inited, builder, scheme, mem>>
  BY DEF ClientInv, ClientTypeOK, RESTClientFor
<1>2. call[g].todo \in Seq(Clients) /\ call[g].todo # <<>> /\ c \in Clients
  <2>1. call[g].todo \in Seq(Clients) /\ call[g].todo # <<>>
    BY <1>1 DEF CallInv, TodoKnown, Active, Call
  <2> QED BY <2>1
<1>3. config \in Config /\ config.version = c /\ config.limiter = Budget(g) /\ config.qps = mem[Program].qps
  <2>1. call[g].typed = Own(g, "typed") /\ config.version = c /\ config.limiter = Budget(g)
        /\ config.qps = mem[Program].qps
    BY <1>1 DEF CallInv, CopiesOwn
  <2> QED BY <1>1, <2>1, SlotsApart
<1>4. LimiterFor(g, config) = ClientLimiter(g, c) /\ LimiterFor(g, config) \in Limiters \cup {None}
  <2>1. config.limiter \in Limiters \cup {None}
    BY <1>3 DEF Config
  <2>2. Own(g, c) \in Limiters
    BY <1>2, LimitersApart
  <2> HIDE DEF config
  <2> QED BY <1>3, <2>1, <2>2 DEF LimiterFor, ClientLimiter
<1>5. client \in RESTClient /\ client.version = c /\ client.limiter = ClientLimiter(g, c)
  BY <1>1, <1>3, <1>4 DEF RESTClient, Config, Call
<1>6. /\ new \in Call /\ new.one = call[g].one /\ new.at = call[g].at
      /\ new.todo = Tail(call[g].todo) /\ (Len(call[g].todo) = 1 => new.pc = "done")
      /\ new.pc \in {"done", "typed"} /\ (new.pc = "typed" => new.todo # <<>> /\ Len(call[g].todo) # 1)
  <2>1. Tail(call[g].todo) \in Seq(Clients) /\ (Len(call[g].todo) # 1 => Tail(call[g].todo) # <<>>)
    BY <1>2, RestOfSequence
  <2> QED BY <1>1, <2>1 DEF Call, Stages
<1> HIDE DEF new, client, c, config
<1>7. call'[g] = new /\ made'[g] = [made[g] EXCEPT ![c] = client]
      /\ made' \in [Callers -> [Clients -> RESTClient \cup {None}]]
      /\ made'[g] \in [Clients -> RESTClient \cup {None}]
      /\ call' \in [Callers -> Call]
  BY <1>1, <1>2, <1>5, <1>6 DEF ClientInv, ClientTypeOK
<1>8. ClientTypeOK'
  BY <1>1, <1>7 DEF ClientInv, ClientTypeOK
<1>9. Budget(g)' = Budget(g)
  BY <1>1, <1>6, <1>7 DEF Budget, Own
<1>10. \A d \in Clients : made'[g][d] = IF d = c THEN client ELSE made[g][d]
  BY <1>2, <1>7 DEF ClientInv, ClientTypeOK
<1>11. CopiesOwn(g)'
  <2>1. /\ call[g].at \in {Program, Own(g, "set")}
        /\ mem[call[g].at].qps = mem[Program].qps /\ mem[call[g].at].limiter = Budget(g)
    BY <1>1 DEF CallInv, CopiesOwn, Active
  <2>2. mem' = mem /\ call'[g].at = call[g].at /\ call'[g].pc \in {"done", "typed"}
    BY <1>1, <1>6, <1>7
  <2> QED BY <1>9, <2>1, <2>2 DEF CopiesOwn, Own
<1>12. TodoKnown(g)'
  <2>1. /\ call[g].one => Len(call[g].todo) = 1 /\ NothingMadeBy(g)
        /\ call'[g].one = call[g].one /\ call'[g].pc \in {"done", "typed"}
        /\ call'[g].pc = "typed" => call'[g].todo # <<>> /\ Len(call[g].todo) # 1
    BY <1>1, <1>6, <1>7 DEF CallInv, TodoKnown, Active
  <2>2. call[g].one => \A d \in Clients : made'[g][d] # None => d = c
    BY <1>10, <2>1 DEF NothingMadeBy
  <2> QED BY <2>1, <2>2 DEF TodoKnown, Active
<1>13. MadeRight(g)'
  <2>1. \A d \in Clients : ClientLimiter(g, d)' = ClientLimiter(g, d)
    BY <1>1, <1>9 DEF ClientLimiter, Own
  <2> QED BY <1>1, <1>5, <1>10, <2>1 DEF CallInv, MadeRight
<1>14. ASSUME NEW h \in Callers, h # g PROVE CallInv(h)'
  BY <1>1, <1>14, OthersKept DEF ClientInv, ClientTypeOK
<1> QED BY <1>8, <1>11, <1>12, <1>13, <1>14 DEF ClientInv, CallInv

LEMMA RESTClientRefusedKeeps ==
    ASSUME ClientInv, NEW g \in Callers, RESTClientRefused(g)
    PROVE  ClientInv'
<1>1. call[g].pc = "rest" /\ CallInv(g) /\ UNCHANGED <<stage, inited, builder, scheme, mem, made>>
      /\ mem \in [Slots -> Config]
  BY DEF ClientInv, ClientTypeOK, RESTClientRefused
<1>2. PICK new \in Call : /\ call' = [call EXCEPT ![g] = new] /\ call'[g] = new
                          /\ new.pc = "failed" /\ new.one = call[g].one /\ new.todo = call[g].todo
                          /\ new.at = call[g].at
  BY GoesIsCall DEF ClientInv, RESTClientRefused, Stages
<1>3. CopiesOwn(g)'
  BY <1>1, <1>2 DEF CallInv, CopiesOwn, Own, Active
<1> QED BY <1>1, <1>2, <1>3, CallMoves DEF Active

LEMMA PackagesKeep ==
    ASSUME ClientInv,
           \/ \E v \in Versions : InitVersion(v)
           \/ \E group \in Groups : InitScheme(group)
           \/ RunMain
    PROVE  ClientInv'
<1>1. mem' = mem /\ call' = call /\ made' = made
  BY DEF InitVersion, InitScheme, RunMain
<1>2. ClientTypeOK'
  <2>1. CASE \E v \in Versions : InitVersion(v)
    <3>1. \A v \in Versions : Registers[v] \subseteq Registered
      BY DEF Registers, Registered, Versions, GreetingV1Registers, GreetingV2Registers,
             RegistrationV1Registers, RegistrationV1beta1Registers
    <3> QED BY <2>1, <3>1 DEF ClientInv, ClientTypeOK, InitVersion
  <2>2. CASE \E group \in Groups : InitScheme(group)
    <3>1. \A group \in Groups : VersionsOf(group) \subseteq Versions
      BY DEF VersionsOf
    <3> QED BY <2>2, <3>1 DEF ClientInv, ClientTypeOK, InitScheme
  <2>3. CASE RunMain
    BY <2>3 DEF ClientInv, ClientTypeOK, RunMain
  <2> QED BY <2>1, <2>2, <2>3
<1>3. ASSUME NEW g \in Callers PROVE CallInv(g)'
  <2>1. CallInv(g)
    BY DEF ClientInv
  <2> QED BY <1>1, <2>1 DEF CallInv, CopiesOwn, TodoKnown, MadeRight, ClientLimiter, Budget,
                           NothingMadeBy, Own
<1> QED BY <1>2, <1>3 DEF ClientInv

LEMMA ClientStep ==
    ASSUME ClientInv, ClientNext
    PROVE  ClientInv'
  BY PackagesKeep, BeginsKeep, HTTPClientForKeeps, RateLimiterKeeps, TypedConfigKeeps,
     RESTClientForKeeps, RESTClientRefusedKeeps DEF ClientNext

LEMMA ClientStutter ==
    ASSUME ClientInv, UNCHANGED clientVars
    PROVE  ClientInv'
<1>1. ClientTypeOK'
  BY DEF ClientInv, ClientTypeOK, clientVars
<1>2. ASSUME NEW g \in Callers PROVE CallInv(g)'
  <2>1. CallInv(g) /\ mem' = mem /\ call' = call /\ made' = made
    BY DEF ClientInv, clientVars
  <2> QED BY <2>1 DEF CallInv, CopiesOwn, TodoKnown, MadeRight, ClientLimiter, Budget,
                     NothingMadeBy, Own
<1> QED BY <1>1, <1>2 DEF ClientInv

LEMMA ClientStart ==
    ASSUME ClientInit
    PROVE  ClientInv
<1>1. ClientTypeOK
  <2>1. mem \in [Slots -> Config]
    BY DEF ClientInit, Config, NoConfig, Limiters, Clients
  <2>2. call \in [Callers -> Call]
    BY DEF ClientInit, NoCall, Call, Stages, Slots
  <2>3. made \in [Callers -> [Clients -> RESTClient \cup {None}]]
    BY DEF ClientInit, NothingMade
  <2> QED BY <2>1, <2>2, <2>3 DEF ClientInit, ClientTypeOK
<1>2. ASSUME NEW g \in Callers PROVE CallInv(g)
  <2>1. call[g].pc = "idle" /\ call[g].at = Program /\ ~call[g].one
    BY DEF ClientInit, NoCall
  <2>2. \A c \in Clients : made[g][c] = None
    BY DEF ClientInit, NothingMade
  <2> QED BY <2>1, <2>2 DEF CallInv, CopiesOwn, TodoKnown, MadeRight, NothingMadeBy, Active
<1> QED BY <1>1, <1>2 DEF ClientInv

\* The two properties of the clients follow.
LEMMA ClientsRight ==
    ASSUME ClientInv
    PROVE  OwnVersion /\ OneBudget
<1>1. OwnVersion
  BY DEF ClientInv, CallInv, MadeRight, OwnVersion
<1>2. OneBudget
  <2> SUFFICES ASSUME NEW g \in Callers, NEW h \in Callers, NEW c \in Clients, NEW d \in Clients,
                      made[g][c] # None, made[h][d] # None, <<g, c>> # <<h, d>>
               PROVE  made[g][c].limiter = made[h][d].limiter /\ made[g][c].limiter # None <=>
                        mem[Program].limiter # None \/ (g = h /\ mem[Program].qps > 0)
    BY DEF OneBudget
  <2>1. made[g][c].limiter = ClientLimiter(g, c) /\ made[h][d].limiter = ClientLimiter(h, d)
    BY DEF ClientInv, CallInv, MadeRight
  <2>2. g = h => ~call[g].one
    BY DEF ClientInv, CallInv, TodoKnown
  <2>3. mem[Program].qps \in -1..1 /\ mem[Program].limiter \in Limiters \cup {None}
    BY SlotsApart DEF ClientInv, ClientTypeOK, Config
  <2>4. /\ Own(g, "set") # None /\ Own(h, "set") # None /\ Own(g, c) # None /\ Own(h, d) # None
        /\ g # h => \A k, l \in {c, d, "set"} : Own(g, k) # Own(h, l)
        /\ g = h => Own(g, c) # Own(h, d)
    BY LimitersApart DEF Clients, Versions
  <2>5. CASE mem[Program].limiter # None
    BY <2>1, <2>5 DEF ClientLimiter, Budget
  <2>6. CASE mem[Program].limiter = None
    <3>1. CASE g = h
      <4>1. CASE mem[Program].qps > 0
        BY <2>1, <2>2, <2>4, <2>6, <3>1, <4>1 DEF ClientLimiter, Budget
      <4>2. CASE ~(mem[Program].qps > 0)
        BY <2>1, <2>2, <2>4, <2>6, <3>1, <4>2 DEF ClientLimiter, Budget
      <4> QED BY <4>1, <4>2
    <3>2. CASE g # h
      BY <2>1, <2>4, <2>6, <3>2 DEF ClientLimiter, Budget
    <3> QED BY <3>1, <3>2
  <2> QED BY <2>5, <2>6
<1> QED BY <1>1, <1>2

-----------------------------------------------------------------------------
\* The informer kept for a type is its package's, and reads as its version.
InformersRight ==
    /\ stage # "informers" => \A v \in Versions : informers[v] = None
    /\ \A v \in Versions : informers[v] # None => informers[v] = DefaultInformer(v)
    /\ \A v \in Versions : reads[v] \in {None, v}
    /\ \A h \in handed : h.got = h.asked /\ informers[h.asked] # None /\ reads[h.asked] = h.asked

Inv == TypeOK /\ ClientInv /\ InformersRight /\ MirrorsServer

LEMMA GreetingVersions ==
    ASSUME NEW v \in Versions
    PROVE  Namespaced(v) <=> v \in {"greeting/v1", "greeting/v2"}
<1>1. DOMAIN GreetingClients = 1..3 /\ GreetingClients[1] = "greeting/v1"
      /\ GreetingClients[2] = "greeting/v2" /\ GreetingClients[3] = "discovery"
  BY DEF GreetingClients
<1> QED BY <1>1 DEF Namespaced, VersionsOf, ClientsOf, Versions

\* A version's own informer lists and watches with that version's client, and selects
\* the same with both (informers/externalversions/.../foo.go and apiservice.go).
LEMMA InformerSelects ==
    ASSUME options \in Filter, NEW v \in Versions
    PROVE  /\ DefaultInformer(v) \in Informer /\ DefaultInformer(v) # None
           /\ DefaultInformer(v).client = v
           /\ DefaultInformer(v).list = Asked(v) /\ DefaultInformer(v).watch = Asked(v)
<1>1. Asked(v) = [namespace |-> IF Namespaced(v) THEN options.namespace ELSE All, labelled |-> options.labelled]
  BY DEF Asked, Filter
<1>2. Asked(v) \in Filter
  BY <1>1 DEF Filter
<1>3. DefaultInformer(v) = [client |-> v, list |-> Asked(v), watch |-> Asked(v)]
  BY <1>1, GreetingVersions DEF Versions, DefaultInformer, GreetingV1Informer, GreetingV2Informer,
         RegistrationV1Informer, RegistrationV1beta1Informer, ListWatch
<1>4. DefaultInformer(v) \in Informer
  BY <1>2, <1>3 DEF Informer
<1> QED BY <1>3, <1>4, NoneAssumption

LEMMA ClientStepKeeps ==
    ASSUME Inv, ClientNext, UNCHANGED informerVars
    PROVE  Inv'
<1>1. ClientInv'
  BY ClientStep DEF Inv
<1>2. stage # "informers" => stage' # "informers"
  BY DEF ClientNext, InitVersion, InitScheme, RunMain, NewForConfig, NewForConfigAndClient,
         TypedNewForConfig, TypedNewForConfigAndClient, Begin, HTTPClientFor, RateLimiterKept,
         RateLimiterMade, BurstRefused, TypedConfig, RESTClientFor, RESTClientRefused, Goes
<1>3. stage = "informers" => stage' = "informers"
  BY DEF ClientNext, InitVersion, InitScheme, RunMain, NewForConfig, NewForConfigAndClient,
         TypedNewForConfig, TypedNewForConfigAndClient, Begin, HTTPClientFor, RateLimiterKept,
         RateLimiterMade, BurstRefused, TypedConfig, RESTClientFor, RESTClientRefused, Goes
<1>4. TypeOK'
  BY <1>1 DEF Inv, ClientInv, TypeOK, informerVars
<1>5. InformersRight'
  <2>1. \A v \in Versions : DefaultInformer(v)' = DefaultInformer(v)
    BY DEF DefaultInformer, GreetingV1Informer, GreetingV2Informer,
         RegistrationV1Informer, RegistrationV1beta1Informer, ListWatch, informerVars
  <2> QED BY <1>3, <2>1 DEF Inv, InformersRight, informerVars
<1>6. MirrorsServer'
  BY DEF Inv, MirrorsServer, Asked, informerVars
<1> QED BY <1>1, <1>4, <1>5, <1>6 DEF Inv

\* The factory gets the client of each version that its clientset made.
LEMMA FactoryKeeps ==
    ASSUME Inv, NEW g \in Callers, NEW namespace \in Namespaces \cup {All}, NEW labelled \in BOOLEAN,
           NewSharedInformerFactory(g, namespace, labelled)
    PROVE  Inv'
<1>1. ClientInv'
  <2>1. ClientTypeOK'
    <3>1. NoConfig \in Config /\ NoCall \in Call
      BY DEF NoConfig, Config, NoCall, Call, Stages, Slots, Limiters, Clients
    <3> QED BY <3>1 DEF Inv, ClientInv, ClientTypeOK, NewSharedInformerFactory, NothingMade
  <2>2. ASSUME NEW h \in Callers PROVE CallInv(h)'
    <3>1. call'[h].pc = "idle" /\ call'[h].at = Program /\ ~call'[h].one
      BY DEF NewSharedInformerFactory, NoCall
    <3>2. \A c \in Clients : made'[h][c] = None
      BY DEF NewSharedInformerFactory, NothingMade
    <3> QED BY <3>1, <3>2 DEF CallInv, CopiesOwn, TodoKnown, MadeRight, NothingMadeBy, Active
  <2> QED BY <2>1, <2>2 DEF ClientInv
<1>2. \A v \in Versions : reads'[v] \in {None, v}
  <2>1. \A v \in Versions : made[g][v] # None => made[g][v].version = v
    BY DEF Inv, ClientInv, CallInv, MadeRight, Clients
  <2> QED BY <2>1 DEF NewSharedInformerFactory
<1>3. /\ \A v \in Versions : informers[v] = None
      /\ handed = {} /\ started = {} /\ \A v \in Versions : seen[v] = 0
      /\ UNCHANGED <<informers, started, handed, log, indexer, seen, reflector, breaks>>
  <2>1. stage # "informers"
    BY DEF NewSharedInformerFactory
  <2>2. \A v \in Versions : informers[v] = None
    BY <2>1 DEF Inv, InformersRight
  <2>3. handed = {}
    BY <2>2 DEF Inv, InformersRight, TypeOK
  <2>4. started = {}
    BY <2>2 DEF Inv, TypeOK
  <2>5. \A v \in Versions : seen[v] = 0
    BY <2>4 DEF Inv, TypeOK
  <2> QED BY <2>2, <2>3, <2>4, <2>5 DEF NewSharedInformerFactory
<1>4. TypeOK'
  <2>1. reads' \in [Versions -> Clients \cup {None}]
    <3>1. DOMAIN reads' = Versions /\ reads' = [v \in Versions |-> reads'[v]]
      BY DEF NewSharedInformerFactory
    <3> QED BY <1>2, <3>1 DEF Clients
  <2>2. options' \in Filter
    BY DEF NewSharedInformerFactory, Filter
  <2> QED BY <1>1, <1>3, <2>1, <2>2 DEF Inv, ClientInv, TypeOK
<1>5. InformersRight' /\ MirrorsServer'
  BY <1>2, <1>3 DEF InformersRight, MirrorsServer
<1> QED BY <1>1, <1>4, <1>5 DEF Inv

LEMMA InformerForKeeps ==
    ASSUME Inv, NEW v \in Versions, InformerFor(v, v, DefaultInformer(v))
    PROVE  Inv'
<1>1. ClientInv'
  BY ClientStutter DEF Inv, InformerFor
<1>2. stage = "informers" /\ stage' = "informers" /\ options' = options /\ reads' = reads /\ reads[v] = v
  BY NoneAssumption DEF Inv, InformersRight, InformerFor, clientVars
<1>3. DefaultInformer(v) \in Informer /\ DefaultInformer(v) # None
  BY InformerSelects DEF Inv, TypeOK
<1>4. /\ informers' \in [Versions -> Informer \cup {None}]
      /\ \A u \in Versions : informers[u] # None => informers'[u] = informers[u]
      /\ \A u \in Versions : informers'[u] = informers[u] \/ (u = v /\ informers'[u] = DefaultInformer(v))
      /\ informers'[v] # None
  BY <1>3 DEF Inv, TypeOK, InformerFor
<1>5. TypeOK'
  <2>1. started' \subseteq {u \in Versions : informers'[u] # None}
    BY <1>4 DEF Inv, TypeOK, InformerFor
  <2>2. handed' \subseteq [asked : Versions, got : Versions]
    BY DEF Inv, TypeOK, InformerFor
  <2> QED BY <1>1, <1>2, <1>4, <2>1, <2>2 DEF Inv, ClientInv, TypeOK, InformerFor
<1>6. InformersRight'
  <2>1. \A u \in Versions : DefaultInformer(u)' = DefaultInformer(u)
    BY <1>2 DEF DefaultInformer, GreetingV1Informer, GreetingV2Informer,
         RegistrationV1Informer, RegistrationV1beta1Informer, ListWatch
  <2>2. \A u \in Versions : informers'[u] # None => informers'[u] = DefaultInformer(u)'
    BY <1>4, <2>1 DEF Inv, InformersRight
  <2>3. handed' = handed \cup {[asked |-> v, got |-> v]}
    BY DEF InformerFor
  <2>4. ASSUME NEW h \in handed'
        PROVE  h.got = h.asked /\ informers'[h.asked] # None /\ reads'[h.asked] = h.asked
    <3>1. CASE h \in handed
      <4>1. h.asked \in Versions
        BY <3>1 DEF Inv, TypeOK
      <4> QED BY <1>2, <1>4, <3>1, <4>1 DEF Inv, InformersRight
    <3>2. CASE h = [asked |-> v, got |-> v]
      BY <1>2, <1>4, <3>2
    <3> QED BY <2>3, <3>1, <3>2
  <2> QED BY <1>2, <2>2, <2>4 DEF Inv, InformersRight
<1>7. MirrorsServer'
  BY DEF Inv, MirrorsServer, Asked, InformerFor
<1> QED BY <1>1, <1>5, <1>6, <1>7 DEF Inv

\* ForResource leads to the accessor of the version asked for.
LEMMA ForResourceLeads ==
    ASSUME NEW v \in Versions, ForResource(v)
    PROVE  InformerFor(v, v, DefaultInformer(v))
<1>1. CASE v \in VersionsOf("greeting")
  BY <1>1 DEF ForResource, GreetingResources
<1>2. CASE v \notin VersionsOf("greeting")
  <2>1. v \in {"registration/v1", "registration/v1beta1"}
    BY <1>2, GreetingVersions DEF Namespaced, Versions
  <2>2. DOMAIN RegistrationClients = 1..3 /\ RegistrationClients[1] = "registration/v1"
        /\ RegistrationClients[2] = "registration/v1beta1"
    BY DEF RegistrationClients
  <2>3. v \in VersionsOf("registration")
    BY <2>1, <2>2 DEF VersionsOf, ClientsOf
  <2> QED BY <1>2, <2>3 DEF ForResource, RegistrationResources
<1> QED BY <1>1, <1>2

\* A step of the reflectors or of the server's users changes no informer.
LEMMA InformersKept ==
    ASSUME Inv, UNCHANGED <<clientVars, reads, options, informers, handed>>
    PROVE  ClientInv' /\ InformersRight'
<1>1. ClientInv'
  BY ClientStutter DEF Inv
<1>2. \A v \in Versions : DefaultInformer(v)' = DefaultInformer(v)
  BY DEF DefaultInformer, GreetingV1Informer, GreetingV2Informer,
         RegistrationV1Informer, RegistrationV1beta1Informer, ListWatch
<1> QED BY <1>1, <1>2 DEF Inv, InformersRight, clientVars

LEMMA StartKeeps ==
    ASSUME Inv, Start
    PROVE  Inv'
<1>1. ClientInv' /\ InformersRight'
  BY InformersKept DEF Start
<1>2. TypeOK'
  BY <1>1 DEF Inv, ClientInv, TypeOK, Start
<1>3. MirrorsServer'
  BY DEF Inv, MirrorsServer, Asked, Start
<1> QED BY <1>1, <1>2, <1>3 DEF Inv

LEMMA WriteKeeps ==
    ASSUME Inv, NEW o \in Objects, NEW state \in States, Write(o, state)
    PROVE  Inv'
<1>1. ClientInv' /\ InformersRight'
  BY InformersKept DEF Write
<1> DEFINE new == [log[Len(log)] EXCEPT ![o] = state]
<1>2. /\ log \in Seq([Objects -> States]) /\ Len(log) \in Nat /\ 1 <= Len(log) /\ Len(log) <= MaxWrites
      /\ log' = Append(log, new) /\ MaxWrites \in Nat
  BY BoundsAssumption DEF Inv, TypeOK, Write
<1>3. new \in [Objects -> States]
  <2>1. log[Len(log)] \in [Objects -> States]
    BY <1>2
  <2> QED BY <2>1
<1> HIDE DEF new
<1>4. /\ log' \in Seq([Objects -> States]) /\ Len(log') = Len(log) + 1
      /\ \A place \in 1..Len(log) : log'[place] = log[place]
  BY <1>2, <1>3
<1>5. Len(log') \in 1..(MaxWrites + 1) /\ 0..Len(log) \subseteq 0..Len(log')
  BY <1>2, <1>4
<1>6. TypeOK'
  BY <1>1, <1>4, <1>5 DEF Inv, ClientInv, TypeOK, Write
<1>7. MirrorsServer'
  <2>1. \A v \in Versions : seen[v] \in 0..Len(log)
    BY DEF Inv, TypeOK
  <2>2. \A v \in Versions : seen[v] > 0 => log'[seen[v]] = log[seen[v]]
    BY <1>2, <1>4, <2>1
  <2> QED BY <2>2 DEF Inv, MirrorsServer, Asked, Write
<1> QED BY <1>1, <1>6, <1>7 DEF Inv

\* A started informer selects the same with its list and its watch.
LEMMA StartedSelects ==
    ASSUME Inv, NEW v \in started
    PROVE  /\ v \in Versions /\ Asked(v) \in Filter
           /\ informers[v].list = Asked(v) /\ informers[v].watch = Asked(v)
<1>1. v \in Versions /\ informers[v] # None
  BY DEF Inv, TypeOK
<1>2. informers[v] = DefaultInformer(v)
  BY <1>1 DEF Inv, InformersRight
<1>3. Asked(v) \in Filter
  BY <1>1 DEF Inv, TypeOK, Asked, Filter
<1> QED BY <1>1, <1>2, <1>3, InformerSelects DEF Inv, TypeOK

LEMMA SelectionTyped ==
    ASSUME NEW filter, NEW states \in [Objects -> States]
    PROVE  Selection(filter, states) \in [Objects -> States]
  BY DEF Selection, States

LEMMA ListKeeps ==
    ASSUME Inv, NEW v \in Versions, NEW place \in 1..Len(log), List(v, place)
    PROVE  Inv'
<1>1. ClientInv' /\ InformersRight'
  BY InformersKept DEF List
<1>2. v \in started /\ Asked(v) \in Filter /\ informers[v].list = Asked(v)
  BY StartedSelects DEF List, CanRead
<1>3. log[place] \in [Objects -> States] /\ place \in 0..Len(log) /\ place > 0
  BY DEF Inv, TypeOK
<1>4. indexer' \in [Versions -> [Objects -> States]]
  BY <1>3, SelectionTyped DEF Inv, TypeOK, List
<1>5. seen' \in [Versions -> 0..Len(log)] /\ seen'[v] = place
      /\ \A u \in Versions : u # v => seen'[u] = seen[u]
  BY <1>3 DEF Inv, TypeOK, List
<1>6. reflector' \in [Versions -> {"list", "watch", "stream"}]
      /\ \A u \in Versions : u # v => reflector'[u] = reflector[u]
  BY DEF Inv, TypeOK, List
<1>7. TypeOK'
  <2>1. \A u \in Versions : (seen'[u] > 0 => u \in started) /\ (reflector'[u] # "list" => seen'[u] > 0)
    BY <1>2, <1>3, <1>5, <1>6 DEF Inv, TypeOK
  <2> QED BY <1>1, <1>4, <1>5, <1>6, <2>1 DEF Inv, ClientInv, TypeOK, List
<1>8. MirrorsServer'
  <2>1. indexer'[v] = Selection(Asked(v), log[place])
    BY <1>2 DEF Inv, TypeOK, List
  <2>2. \A u \in Versions : u # v => indexer'[u] = indexer[u]
    BY DEF Inv, TypeOK, List
  <2> QED BY <1>5, <2>1, <2>2 DEF Inv, MirrorsServer, Asked, List
<1> QED BY <1>1, <1>7, <1>8 DEF Inv

LEMMA WatchKeeps ==
    ASSUME Inv, NEW v \in Versions,
           Watch(v) \/ WatchEnds(v, "watch") \/ WatchEnds(v, "list")
    PROVE  Inv'
<1>1. /\ UNCHANGED <<clientVars, reads, options, informers, started, handed, log, indexer, seen>>
      /\ reflector' \in [Versions -> {"list", "watch", "stream"}]
      /\ \A u \in Versions : reflector'[u] # "list" => reflector[u] # "list"
      /\ breaks' \in 0..MaxBreaks
  <2>1. MaxBreaks \in Nat /\ breaks \in 0..MaxBreaks /\ reflector \in [Versions -> {"list", "watch", "stream"}]
    BY BoundsAssumption DEF Inv, TypeOK
  <2>2. CASE Watch(v)
    BY <2>1, <2>2 DEF Watch
  <2>3. CASE WatchEnds(v, "watch") \/ WatchEnds(v, "list")
    <3>1. breaks' \in 0..MaxBreaks
      BY <2>1, <2>3 DEF WatchEnds
    <3> QED BY <2>1, <2>3, <3>1 DEF WatchEnds
  <2> QED BY <2>2, <2>3
<1>2. ClientInv' /\ InformersRight'
  BY <1>1, InformersKept
<1>3. TypeOK'
  BY <1>1, <1>2 DEF Inv, ClientInv, TypeOK
<1>4. MirrorsServer'
  BY <1>1 DEF Inv, MirrorsServer, Asked
<1> QED BY <1>2, <1>3, <1>4 DEF Inv

\* A write's event takes the selection of the state before it to that of the state after.
LEMMA EventSelects ==
    ASSUME NEW v \in Versions, NEW before \in [Objects -> States], NEW after \in [Objects -> States],
           indexer[v] = Selection(informers[v].watch, before)
    PROVE  EventApplied(v, before, after) = Selection(informers[v].watch, after)
<1> DEFINE filter == informers[v].watch
<1>1. \A o \in Objects : indexer[v][o] = IF Matches(filter, o, before[o]) THEN before[o] ELSE "absent"
  BY DEF Selection
<1>2. ASSUME NEW o \in Objects
      PROVE  EventApplied(v, before, after)[o] = Selection(filter, after)[o]
  BY <1>1 DEF EventApplied, Selection
<1> QED BY <1>2 DEF EventApplied, Selection

LEMMA WatchEventKeeps ==
    ASSUME Inv, NEW v \in Versions, WatchEvent(v)
    PROVE  Inv'
<1>1. ClientInv' /\ InformersRight'
  BY InformersKept DEF WatchEvent
<1>2. v \in started /\ Asked(v) \in Filter /\ informers[v].watch = Asked(v)
  BY StartedSelects DEF WatchEvent, CanRead
<1>3. seen[v] \in 0..Len(log) /\ seen[v] > 0 /\ seen[v] < Len(log) /\ Len(log) \in Nat
  BY DEF Inv, TypeOK, WatchEvent
<1>4. log[seen[v]] \in [Objects -> States] /\ log[seen[v] + 1] \in [Objects -> States]
  BY <1>3 DEF Inv, TypeOK
<1>5. indexer[v] = Selection(Asked(v), log[seen[v]])
  BY <1>3 DEF Inv, MirrorsServer
<1>6. indexer'[v] = Selection(Asked(v), log[seen[v] + 1])
      /\ \A u \in Versions : u # v => indexer'[u] = indexer[u]
  <2>1. EventApplied(v, log[seen[v]], log[seen[v] + 1]) = Selection(Asked(v), log[seen[v] + 1])
    BY <1>2, <1>4, <1>5, EventSelects
  <2> QED BY <2>1 DEF Inv, TypeOK, WatchEvent
<1>7. indexer' \in [Versions -> [Objects -> States]]
  <2>1. indexer'[v] \in [Objects -> States]
    BY <1>4, <1>6, SelectionTyped
  <2> QED BY <2>1 DEF Inv, TypeOK, WatchEvent
<1>8. /\ seen' \in [Versions -> 0..Len(log)] /\ seen'[v] = seen[v] + 1
      /\ \A u \in Versions : u # v => seen'[u] = seen[u]
  BY <1>3 DEF Inv, TypeOK, WatchEvent
<1>9. TypeOK'
  <2>1. \A u \in Versions : (seen'[u] > 0 => u \in started) /\ (reflector[u] # "list" => seen'[u] > 0)
    <3>1. seen'[v] > 0
      BY <1>3, <1>8
    <3>2. \A u \in Versions : (seen[u] > 0 => u \in started) /\ (reflector[u] # "list" => seen[u] > 0)
      BY DEF Inv, TypeOK
    <3> QED BY <1>2, <1>8, <3>1, <3>2
  <2> QED BY <1>1, <1>7, <1>8, <2>1 DEF Inv, ClientInv, TypeOK, WatchEvent
<1>10. MirrorsServer'
  BY <1>6, <1>8 DEF Inv, MirrorsServer, Asked, WatchEvent
<1> QED BY <1>1, <1>9, <1>10 DEF Inv

-----------------------------------------------------------------------------
LEMMA InvInit == Init => Inv
<1> SUFFICES ASSUME Init PROVE Inv
  OBVIOUS
<1>1. ClientInv
  BY ClientStart DEF Init
<1>2. /\ handed = {} /\ started = {} /\ log = <<Nothing>>
      /\ \A v \in Versions : reads[v] = None /\ informers[v] = None /\ seen[v] = 0
  BY DEF Init
<1>3. TypeOK
  <2>1. Nothing \in [Objects -> States]
    BY DEF Nothing, States
  <2>2. log \in Seq([Objects -> States]) /\ Len(log) = 1
    BY <1>2, <2>1
  <2>3. MaxWrites \in Nat /\ MaxBreaks \in Nat
    BY BoundsAssumption
  <2>4. options \in Filter /\ reads \in [Versions -> Clients \cup {None}]
        /\ informers \in [Versions -> Informer \cup {None}]
    BY DEF Init, Filter
  <2>5. indexer \in [Versions -> [Objects -> States]] /\ seen \in [Versions -> 0..Len(log)]
        /\ reflector \in [Versions -> {"list", "watch", "stream"}]
        /\ \A v \in Versions : reflector[v] = "list"
    BY <2>1, <2>2 DEF Init
  <2>6. breaks = 0
    BY DEF Init
  <2> QED BY <1>1, <1>2, <2>2, <2>3, <2>4, <2>5, <2>6 DEF ClientInv, TypeOK
<1> QED BY <1>1, <1>2, <1>3 DEF Inv, InformersRight, MirrorsServer

LEMMA InvStep == Inv /\ [Next]_vars => Inv'
<1> SUFFICES ASSUME Inv, [Next]_vars PROVE Inv'
  OBVIOUS
<1>1. CASE ClientNext /\ UNCHANGED informerVars
  BY <1>1, ClientStepKeeps
<1>2. CASE \E g \in Callers, namespace \in Namespaces \cup {All}, labelled \in BOOLEAN :
             NewSharedInformerFactory(g, namespace, labelled)
  BY <1>2, FactoryKeeps
<1>3. CASE \E v \in Versions : TypedInformer(v) \/ ForResource(v)
  BY <1>3, InformerForKeeps, ForResourceLeads DEF TypedInformer
<1>4. CASE Start
  BY <1>4, StartKeeps
<1>5. CASE \E o \in Objects, state \in States : Write(o, state)
  BY <1>5, WriteKeeps
<1>6. CASE \E v \in Versions : Reflect(v) \/ WatchEnds(v, "watch") \/ WatchEnds(v, "list")
  BY <1>6, ListKeeps, WatchKeeps, WatchEventKeeps DEF Reflect
<1>7. CASE UNCHANGED vars
  <2>1. UNCHANGED <<clientVars, informerVars>>
    BY <1>7 DEF vars
  <2>2. ClientInv' /\ InformersRight'
    BY <2>1, InformersKept DEF informerVars
  <2>3. TypeOK' /\ MirrorsServer'
    BY <2>1, <2>2 DEF Inv, ClientInv, TypeOK, MirrorsServer, Asked, informerVars
  <2> QED BY <2>2, <2>3 DEF Inv
<1> QED BY <1>1, <1>2, <1>3, <1>4, <1>5, <1>6, <1>7 DEF Next

LEMMA InvAlways == Spec => []Inv
  BY InvInit, InvStep, PTL DEF Spec

\* The program's state stays well formed: calls, clients, informers and caches
\* (clientset.go, generic.go and foo.go of both modules).
THEOREM ClientProgramTypeCorrect == Spec => []TypeOK
<1>1. Inv => TypeOK
  BY DEF Inv
<1> QED BY <1>1, InvAlways, PTL

\* Each client asks for its own version, however many goroutines make clients from one
\* rest.Config: every NewForConfig and NewForConfigAndClient writes to a copy.
THEOREM OwnVersionAlways == Spec => []OwnVersion
<1>1. Inv => OwnVersion
  BY ClientsRight DEF Inv
<1> QED BY <1>1, InvAlways, PTL

\* The clients that one NewForConfig of a clientset makes share the rate limiter that it
\* makes, and nobody else does, unless the program brings a limiter of its own.
THEOREM OneBudgetAlways == Spec => []OneBudget
<1>1. Inv => OneBudget
  BY ClientsRight DEF Inv
<1> QED BY <1>1, InvAlways, PTL

\* An informer's cache is what the factory's options select of a state of the server,
\* through lists, watches and their ends: ListFunc and WatchFunc apply the same options.
THEOREM MirrorsServerAlways == Spec => []MirrorsServer
<1>1. Inv => MirrorsServer
  BY DEF Inv
<1> QED BY <1>1, InvAlways, PTL

\* By version or by resource, a program gets the one informer of the type it asks for.
THEOREM OneIndexerAlways == Spec => []OneIndexer
<1>1. Inv => OneIndexer
  <2> SUFFICES ASSUME Inv, NEW h \in handed
               PROVE  h.got = h.asked /\ informers[h.asked] # None
                      /\ reads[informers[h.asked].client] = h.asked
    BY DEF OneIndexer
  <2>1. h.got = h.asked /\ informers[h.asked] # None /\ reads[h.asked] = h.asked /\ h.asked \in Versions
    BY DEF Inv, InformersRight, TypeOK
  <2>2. informers[h.asked].client = h.asked
    BY <2>1, InformerSelects DEF Inv, InformersRight, TypeOK
  <2> QED BY <2>1, <2>2
<1> QED BY <1>1, InvAlways, PTL
=============================================================================
