--------------------------- MODULE APIServiceObjects ---------------------------
(***************************************************************************)
(* The APIService objects in the memory of a process that uses the         *)
(* registration API group: versions v1 and v1beta1, whose code is the      *)
(* same, and the internal version between them.                            *)
(*                                                                         *)
(* Conversion shares the CA bundle and the conditions between its source   *)
(* and its result but gives the result a ServiceReference of its own,      *)
(* because the port is a pointer in the versions and a number inside.  As  *)
(* in FooObjects a reference is the object its target was made for, its    *)
(* home.  Metadata, assigned and deep-copied as a Foo's, is left out.      *)
(***************************************************************************)
EXTENDS Naturals, Sequences, FiniteSets

CONSTANTS
    Settings,       \* group, version, priorities and insecureSkipTLSVerify
    Targets,        \* namespace and name of a service
    Ports,          \* values of a port
    NoPort,         \* no port: a nil pointer, or no service
    Bundles,        \* contents of a CA bundle
    ConditionLists, \* contents of status.conditions
    Unset,          \* no contents: a nil pointer or slice
    MaxDecoded,     \* bound: objects not converted or copied from others
    MaxEdited,      \* bound: families edited
    MaxObjects      \* bound: objects

DefaultPort == 443

ASSUME PortsAssumption == Ports \subseteq Nat /\ {0, DefaultPort} \subseteq Ports
ASSUME NoPortAssumption == NoPort \notin Nat
ASSUME UnsetAssumption == Unset \notin Targets \cup Bundles \cup ConditionLists
ASSUME BoundsAssumption == {MaxDecoded, MaxEdited, MaxObjects} \subseteq Nat

VARIABLES
    objects,    \* the APIService structs the program holds
    cells,      \* cells[o]: what the references whose home is object o lead to
    touched     \* history: the families edited since their first object

vars == <<objects, cells, touched>>

-----------------------------------------------------------------------------
Versions == {"v1", "internal", "v1beta1"}

\* A reference is its home, 0 for nil.  The family of an object is the first of those
\* it was converted from.  History: the port that one was decoded (or copied) with;
\* whether this one or one it was converted from was internal; and whether one was
\* defaulted before that.
APIService == [
    version : Versions, settings : Settings, service : Nat, bundle : Nat, conditions : Nat,
    family : Nat, decoded : Ports \cup {NoPort}, viaInternal : BOOLEAN, defaulted : BOOLEAN]

\* A ServiceReference has a target and a pointer to its port; the number inside an
\* internal one lives at its own home.
Cell == [
    target : Targets \cup {Unset}, portAt : Nat, port : Ports \cup {NoPort},
    bundle : Bundles \cup {Unset}, conditions : ConditionLists \cup {Unset}]

Family(o) == objects[o].family

\* What the references of object s lead to.
Target(s) == IF s.service = 0 THEN Unset ELSE cells[s.service].target
PortAt(s) == IF s.service = 0 THEN 0 ELSE cells[s.service].portAt
Port(s) == IF PortAt(s) = 0 THEN NoPort ELSE cells[PortAt(s)].port
Bundle(s) == IF s.bundle = 0 THEN Unset ELSE cells[s.bundle].bundle
Conditions(s) == IF s.conditions = 0 THEN Unset ELSE cells[s.conditions].conditions

References(s) == {s.service, PortAt(s), s.bundle, s.conditions} \ {0}

TypeOK ==
    /\ objects \in Seq(APIService)
    /\ cells \in Seq(Cell)
    /\ Len(cells) = Len(objects)
    /\ \A o \in DOMAIN objects :
        /\ References(objects[o]) \subseteq DOMAIN objects
        /\ Family(o) \in 1..o
        /\ objects[o].version = "internal" /\ objects[o].service # 0 => Port(objects[o]) \in Ports
    /\ touched \subseteq DOMAIN objects

Init ==
    /\ objects = <<>>
    /\ cells = <<>>
    /\ touched = {}

-----------------------------------------------------------------------------
New == Len(objects) + 1     \* the object made next
Made(reference) == IF reference = 0 THEN 0 ELSE New

\* A new object s, with its own cells c.
Hold(s, c) ==
    /\ Len(objects) < MaxObjects
    /\ objects' = Append(objects, s)
    /\ cells' = Append(cells, c)
    /\ UNCHANGED touched

\* Mutant: a port of 0 counts as left out.
WithPortIfZero(c, a) ==
    IF c.portAt = 0 \/ c.port = 0 THEN [c EXCEPT !.portAt = a, !.port = DefaultPort] ELSE c

\* SetDefaults_ServiceReference on the ServiceReference in cell c, whose home is a.
WithPort(c, a) == IF c.portAt = 0 THEN [c EXCEPT !.portAt = a, !.port = DefaultPort] ELSE c

\* The versions whose defaulting the package registers: init registers addKnownTypes
\* and RegisterConversions, and nothing calls addDefaultingFuncs.
DefaultingRegistered == {}

\* A codec of the scheme decodes an object and applies the registered defaulting.
Decode(s, c) ==
    /\ s.version # "internal"
    /\ s.service = 0 => c.portAt = 0 /\ c.target = Unset
    /\ s.service # 0 => c.target # Unset
    /\ (c.portAt = 0) = (c.port = NoPort)
    /\ (s.bundle = 0) = (c.bundle = Unset)
    /\ (s.conditions = 0) = (c.conditions = Unset)
    /\ s.decoded = c.port /\ ~s.viaInternal /\ ~s.defaulted
    /\ IF s.version \in DefaultingRegistered
       THEN Hold([s EXCEPT !.defaulted = TRUE], IF s.service = 0 THEN c ELSE WithPort(c, New))
       ELSE Hold(s, c)

-----------------------------------------------------------------------------
(* The program edits an object in place.                                   *)

Touch(o) ==
    /\ touched' = touched \cup {Family(o)}
    /\ Family(o) \in touched \/ Cardinality(touched) < MaxEdited
    /\ UNCHANGED objects

EditTarget(o, target) ==
    /\ objects[o].service # 0
    /\ cells' = [cells EXCEPT ![objects[o].service].target = target]
    /\ Touch(o)

\* Through the pointer, or the number inside.
EditPort(o, port) ==
    /\ PortAt(objects[o]) # 0
    /\ cells' = [cells EXCEPT ![PortAt(objects[o])].port = port]
    /\ Touch(o)

EditBundle(o, bundle) ==
    /\ objects[o].bundle # 0
    /\ cells' = [cells EXCEPT ![objects[o].bundle].bundle = bundle]
    /\ Touch(o)

EditConditions(o, conditions) ==
    /\ objects[o].conditions # 0
    /\ cells' = [cells EXCEPT ![objects[o].conditions].conditions = conditions]
    /\ Touch(o)

-----------------------------------------------------------------------------
(* Deep copy, conversion and defaulting.                                   *)

\* Mutant: the reference of a version is copied by assignment, the pointer with it.
AssignedReference(s) == [
    target |-> Target(s), portAt |-> IF s.version = "internal" THEN Made(PortAt(s)) ELSE PortAt(s),
    port |-> Port(s), bundle |-> Unset, conditions |-> Unset]

\* DeepCopyInto of ServiceReference: an internal one is copied by assignment, the
\* number with it; the versions make a new port.
CopiedReference(s) == [
    target |-> Target(s), portAt |-> Made(PortAt(s)), port |-> Port(s),
    bundle |-> Unset, conditions |-> Unset]

\* Mutant: the CA bundle is assigned.
DeepCopySharingBundle(o) ==
    LET s == objects[o] IN
    Hold([s EXCEPT !.service = Made(@), !.conditions = Made(@),
                   !.family = New, !.decoded = Port(s), !.defaulted = FALSE],
         [CopiedReference(s) EXCEPT !.conditions = Conditions(s)])

DeepCopy(o) ==
    LET s == objects[o] IN
    Hold([s EXCEPT !.service = Made(@), !.bundle = Made(@), !.conditions = Made(@),
                   !.family = New, !.decoded = Port(s), !.defaulted = FALSE],
         [CopiedReference(s) EXCEPT !.bundle = Bundle(s), !.conditions = Conditions(s)])

\* Mutant: the pointer is not tested.
NumberUnchecked(s) == Port(s)

\* Convert_Pointer_int32_To_int32: nil is 0.
Number(s) == IF PortAt(s) = 0 THEN 0 ELSE Port(s)

\* The reference made by Convert_v1_ServiceReference_To_registration_ServiceReference
\* and back: the way out points to a new number, 0 too.
ConvertedReference(s) == [
    target |-> Target(s), portAt |-> Made(s.service),
    port |-> IF s.service = 0 THEN NoPort ELSE Number(s),
    bundle |-> Unset, conditions |-> Unset]

\* Mutant: the status is left out.
ConvertWithoutStatus(o, v) ==
    LET s == objects[o] IN
    /\ v # s.version
    /\ "internal" \in {v, s.version}
    /\ Hold([s EXCEPT !.version = v, !.service = Made(@), !.conditions = 0, !.viaInternal = TRUE],
            ConvertedReference(s))

\* Convert_v1_APIService_To_registration_APIService and back, alone or as an item of a
\* list; v1beta1 likewise.
Convert(o, v) ==
    LET s == objects[o] IN
    /\ v # s.version
    /\ "internal" \in {v, s.version}
    /\ Hold([s EXCEPT !.version = v, !.service = Made(@), !.viaInternal = TRUE],
            ConvertedReference(s))

\* SetObjectDefaults_APIService, for programs that call it or RegisterDefaults.
Default(o) ==
    LET s == objects[o] IN
    /\ s.version # "internal"
    /\ objects' = [objects EXCEPT ![o].defaulted = @ \/ ~s.viaInternal]
    /\ cells' = IF s.service = 0 THEN cells
                ELSE [cells EXCEPT ![s.service] = WithPort(@, s.service)]
    /\ UNCHANGED touched

-----------------------------------------------------------------------------
Decoded == [
    version : Versions, settings : Settings, service : {0, New}, bundle : {0, New},
    conditions : {0, New}, family : {New}, decoded : Ports \cup {NoPort},
    viaInternal : BOOLEAN, defaulted : BOOLEAN]

DecodedCell == [
    target : Targets \cup {Unset}, portAt : {0, New}, port : Ports \cup {NoPort},
    bundle : Bundles \cup {Unset}, conditions : ConditionLists \cup {Unset}]

Next ==
    \/ Len(objects) < MaxDecoded /\ \E s \in Decoded, c \in DecodedCell : Decode(s, c)
    \/ \E o \in DOMAIN objects :
        \/ \E target \in Targets : EditTarget(o, target)
        \/ \E port \in Ports : EditPort(o, port)
        \/ \E bundle \in Bundles : EditBundle(o, bundle)
        \/ \E conditions \in ConditionLists : EditConditions(o, conditions)
        \/ DeepCopy(o)
        \/ \E v \in Versions : Convert(o, v)
        \/ Default(o)

Spec == Init /\ [][Next]_vars

-----------------------------------------------------------------------------
\* Bundle and conditions are shared by conversion only: objects of two families, such
\* as an object and its deep copy with all that was converted from either, have
\* neither in common.  A ServiceReference and its port are shared by no two objects.
Isolated ==
    \A o, p \in DOMAIN objects : o # p =>
        /\ objects[o].service # 0 => objects[o].service # objects[p].service
        /\ PortAt(objects[o]) # 0 => PortAt(objects[o]) # PortAt(objects[p])
        /\ Family(o) # Family(p) =>
            /\ objects[o].bundle # 0 => objects[o].bundle # objects[p].bundle
            /\ objects[o].conditions # 0 => objects[o].conditions # objects[p].conditions

\* What an object says of where its server is, and of the rest that can be edited.
Address(o) == <<Target(objects[o]), Port(objects[o])>>
Rest(o) == <<Bundle(objects[o]), Conditions(objects[o])>>

\* So no step changes the address of two objects, defaulting included, though they be
\* conversions of each other, and none changes anything in objects of two families.
OneAddressChanges ==
    [][\A o, p \in DOMAIN objects : o # p =>
        /\ Address(o)' = Address(o) \/ Address(p)' = Address(p)
        /\ Rest(o)' # Rest(o) /\ Rest(p)' # Rest(p) => Family(o) = Family(p)]_vars

\* While a family is not edited, all its objects agree on everything but the port.
ConversionsAgree ==
    \A o, p \in DOMAIN objects : Family(o) = Family(p) /\ Family(o) \notin touched =>
        /\ objects[o].settings = objects[p].settings
        /\ Target(objects[o]) = Target(objects[p])
        /\ Rest(o) = Rest(p)

\* And its ports are decided once: the port that was decoded stays; one that was left
\* out is 443 if defaulting came before the first conversion, and otherwise 0 from
\* that conversion on, which no later defaulting of the result repairs.
ExpectedPort(s) ==
    CASE s.decoded # NoPort -> s.decoded
      [] s.decoded = NoPort /\ s.defaulted -> DefaultPort
      [] s.decoded = NoPort /\ ~s.defaulted /\ s.viaInternal -> 0
      [] OTHER -> NoPort

PortDecided ==
    \A o \in DOMAIN objects : objects[o].service # 0 /\ Family(o) \notin touched =>
        Port(objects[o]) = ExpectedPort(objects[o])

\* What the types say of Port: "Default to 443 for backward compatibility."  An object
\* that is decoded without a port and then converted has 443 inside.
PortDefaults443 ==
    \A o \in DOMAIN objects :
        /\ objects[o].version = "internal" /\ objects[o].service # 0
        /\ objects[o].decoded = NoPort /\ Family(o) \notin touched
        => Port(objects[o]) = DefaultPort
=============================================================================
