------------------------------ MODULE FooObjects ------------------------------
(***************************************************************************)
(* The Foo objects in the memory of a process that uses the greeting API   *)
(* group: versions v1 and v2, the internal version between them, and what  *)
(* conversion, defaulting and deep copy do to them.                        *)
(*                                                                         *)
(* Go maps and slices are references.  A conversion assigns ObjectMeta and *)
(* the conditions as they are, so the new struct shares its source's maps  *)
(* and slices, and the conversion to v1 and the defaulting of v1 write     *)
(* into a map.  A map or slice is named by the struct it was made for: its *)
(* home.  Of the labels and annotations only the keys this code touches    *)
(* are kept; message and description, always copied together, are Configs. *)
(***************************************************************************)
EXTENDS Naturals, Sequences, FiniteSets

CONSTANTS
    Names,          \* metadata.name
    Images,         \* container images
    NoImage,        \* the empty string
    BusyBox,        \* "busybox:1.36"
    Configs,        \* a message and a description
    Phases,         \* status.phase
    NoPhase,        \* the empty phase
    ConditionLists, \* contents of status.conditions
    Unset,          \* the key is not in the map; the slice is empty
    MaxCreated,     \* bound: objects not converted or copied from others
    MaxEdited,      \* bound: families edited or defaulted
    MaxFoos         \* bound: objects

ASSUME ImagesAssumption == {NoImage, BusyBox} \subseteq Images
ASSUME PhasesAssumption == NoPhase \in Phases
ASSUME UnsetAssumption == Unset \notin Names \cup Images \cup ConditionLists
ASSUME BoundsAssumption == {MaxCreated, MaxEdited, MaxFoos} \subseteq Nat

VARIABLES
    structs,    \* the Foo structs
    cells,      \* cells[a]: the contents of the maps and slices whose home is struct a
    foos,       \* the objects the program holds: a struct, seen as one version
    touched     \* history: the families edited or defaulted since their first object

vars == <<structs, cells, foos, touched>>

-----------------------------------------------------------------------------
Versions == {"v1", "internal", "v2"}

\* A reference to a map or slice is its home, 0 for nil.  The family of a struct is
\* the first of the structs it was converted from; viaV1 (history) tells whether one
\* of those was a v1 struct.
Struct == [
    name : Names, labels : Nat, annotations : Nat,
    image : Images, config : Configs, phase : Phases, conditions : Nat,
    family : Nat, viaV1 : BOOLEAN]

Cell == [
    labels : Names \cup {Unset},
    annotations : Images \cup {Unset},
    conditions : ConditionLists \cup {Unset}]

NoCell == [labels |-> Unset, annotations |-> Unset, conditions |-> Unset]

At(o) == structs[foos[o].at]
Version(o) == foos[o].version
Family(o) == At(o).family

\* What a reference of struct s leads to; reading a nil map finds nothing.
Label(s) == IF s.labels = 0 THEN Unset ELSE cells[s.labels].labels
Annotation(s) == IF s.annotations = 0 THEN Unset ELSE cells[s.annotations].annotations
Condition(s) == IF s.conditions = 0 THEN Unset ELSE cells[s.conditions].conditions

\* Mutant: the missing key is not told from an empty image.
ImageInUnchecked(s) == Annotation(s)

\* m[AnnotationImage] of a map without the key is "".
ImageIn(s) == IF Annotation(s) = Unset THEN NoImage ELSE Annotation(s)

\* The image an object stands for: in v1 it is an annotation.
Image(o) == IF Version(o) = "v1" THEN ImageIn(At(o)) ELSE At(o).image

References(s) == {s.labels, s.annotations, s.conditions} \ {0}

TypeOK ==
    /\ structs \in Seq(Struct)
    /\ cells \in Seq(Cell)
    /\ Len(cells) = Len(structs)
    /\ foos \in Seq([at : Nat, version : Versions])
    /\ \A o \in DOMAIN foos : foos[o].at \in DOMAIN structs
    /\ \A a \in DOMAIN structs :
        /\ References(structs[a]) \subseteq DOMAIN structs
        /\ structs[a].family \in 1..a
    /\ touched \subseteq DOMAIN structs

Init ==
    /\ structs = <<>>
    /\ cells = <<>>
    /\ foos = <<>>
    /\ touched = {}

-----------------------------------------------------------------------------
(* Objects come and go through the program's hands.                        *)

New == Len(structs) + 1     \* the struct made next

\* A new struct s, with its own cells c, held as an object of version v.
Hold(s, c, v) ==
    /\ Len(foos) < MaxFoos
    /\ structs' = Append(structs, s)
    /\ cells' = Append(cells, c)
    /\ foos' = Append(foos, [at |-> New, version |-> v])

\* An object is decoded or built: nothing in it is shared.
Create(v, s, c) ==
    /\ v # "internal"
    /\ References(s) \subseteq {New}
    /\ s.family = New
    /\ s.viaV1 = (v = "v1")
    /\ v = "v1" => s.image = NoImage /\ s.phase = NoPhase /\ s.conditions = 0
    /\ s.labels = 0 => c.labels = Unset
    /\ s.annotations = 0 => c.annotations = Unset
    /\ (s.conditions = 0) = (c.conditions = Unset)
    /\ Hold(s, c, v)
    /\ UNCHANGED touched

Touch(o) ==
    /\ touched' = touched \cup {Family(o)}
    /\ Family(o) \in touched \/ Cardinality(touched) < MaxEdited

EditImage(o, image) ==
    /\ Version(o) # "v1"
    /\ structs' = [structs EXCEPT ![foos[o].at].image = image]
    /\ Touch(o)
    /\ UNCHANGED <<cells, foos>>

EditAnnotation(o, image) ==
    /\ At(o).annotations # 0
    /\ cells' = [cells EXCEPT ![At(o).annotations].annotations = image]
    /\ Touch(o)
    /\ UNCHANGED <<structs, foos>>

\* An element of the conditions is written in place.
EditConditions(o, conditions) ==
    /\ At(o).conditions # 0
    /\ cells' = [cells EXCEPT ![At(o).conditions].conditions = conditions]
    /\ Touch(o)
    /\ UNCHANGED <<structs, foos>>

-----------------------------------------------------------------------------
(* Deep copy.                                                              *)

Copied(reference) == IF reference = 0 THEN 0 ELSE New

\* Mutant: Status is assigned, not deep-copied.
DeepCopyShallow(o) ==
    LET s == At(o) IN
    /\ Hold([s EXCEPT !.labels = Copied(@), !.annotations = Copied(@), !.family = New],
            [NoCell EXCEPT !.labels = Label(s), !.annotations = Annotation(s)], Version(o))
    /\ UNCHANGED touched

DeepCopy(o) ==
    LET s == At(o) IN
    /\ Hold([s EXCEPT !.labels = Copied(@), !.annotations = Copied(@), !.conditions = Copied(@),
                      !.family = New],
            [labels |-> Label(s), annotations |-> Annotation(s), conditions |-> Condition(s)],
            Version(o))
    /\ UNCHANGED touched

-----------------------------------------------------------------------------
(* Conversion.                                                             *)

\* Convert_v2_Foo_To_greeting_Foo and back: every field is assigned.
ConvertHub(o, v) ==
    /\ {Version(o), v} = {"v2", "internal"}
    /\ Hold(At(o), NoCell, v)
    /\ UNCHANGED touched

\* The same for an item of a FooList: the slice of structs is reinterpreted as it
\* is, without a copy.
ConvertHubItem(o, v) ==
    /\ {Version(o), v} = {"v2", "internal"}
    /\ Len(foos) < MaxFoos
    /\ foos' = Append(foos, [at |-> foos[o].at, version |-> v])
    /\ UNCHANGED <<structs, cells, touched>>

\* Convert_v1_Foo_To_greeting_Foo: v1 has no status.
ConvertFromV1(o) ==
    /\ Version(o) = "v1"
    /\ Hold([At(o) EXCEPT !.image = ImageIn(At(o)), !.phase = NoPhase, !.conditions = 0],
            NoCell, "internal")
    /\ UNCHANGED touched

\* What Convert_greeting_Foo_To_v1_Foo takes over of struct s.
AsV1(s) == [s EXCEPT !.image = NoImage, !.phase = NoPhase, !.conditions = 0, !.viaV1 = TRUE]

\* Mutant: the image is written only into a map that was missing.
ConvertToV1IfNil(o) ==
    LET s == At(o) IN
    /\ Version(o) = "internal"
    /\ IF s.annotations = 0
       THEN Hold([AsV1(s) EXCEPT !.annotations = New],
                 [NoCell EXCEPT !.annotations = s.image], "v1")
       ELSE Hold(AsV1(s), NoCell, "v1")
    /\ UNCHANGED touched

\* The image goes into the annotations, which are the source's own map unless nil.
ConvertToV1(o) ==
    LET s == At(o) IN
    /\ Version(o) = "internal"
    /\ Len(foos) < MaxFoos
    /\ foos' = Append(foos, [at |-> New, version |-> "v1"])
    /\ IF s.annotations = 0
       THEN /\ structs' = Append(structs, [AsV1(s) EXCEPT !.annotations = New])
            /\ cells' = Append(cells, [NoCell EXCEPT !.annotations = s.image])
       ELSE /\ structs' = Append(structs, AsV1(s))
            /\ cells' = Append([cells EXCEPT ![s.annotations].annotations = s.image], NoCell)
    /\ UNCHANGED touched

-----------------------------------------------------------------------------
(* Defaulting.                                                             *)

\* The home of a map that is made if it is nil.
Ensured(reference, a) == IF reference = 0 THEN a ELSE reference

\* SetDefaults_Foo of v1.
DefaultV1(o) ==
    LET a == foos[o].at
        labels == Ensured(At(o).labels, a)
        annotations == Ensured(At(o).annotations, a)
    IN
    /\ Version(o) = "v1"
    /\ structs' = [structs EXCEPT ![a].labels = labels, ![a].annotations = annotations]
    /\ cells' = [cells EXCEPT ![labels].labels = At(o).name, ![annotations].annotations = BusyBox]
    /\ Touch(o)
    /\ UNCHANGED foos

\* SetDefaults_Foo of v2, for programs that call it or AddDefaultingFuncs: unlike
\* v1's, it is not registered with the scheme by the package itself.
DefaultV2(o) ==
    LET a == foos[o].at
        labels == Ensured(At(o).labels, a)
    IN
    /\ Version(o) = "v2"
    /\ structs' = [structs EXCEPT ![a].labels = labels]
    /\ cells' = [cells EXCEPT ![labels].labels = At(o).name]
    /\ Touch(o)
    /\ UNCHANGED foos

-----------------------------------------------------------------------------
Decoded == [
    name : Names, labels : {0, New}, annotations : {0, New},
    image : Images, config : Configs, phase : Phases, conditions : {0, New},
    family : {New}, viaV1 : BOOLEAN]

Next ==
    \/ Len(foos) < MaxCreated /\ \E v \in Versions, s \in Decoded, c \in Cell : Create(v, s, c)
    \/ \E o \in DOMAIN foos :
        \/ \E image \in Images : EditImage(o, image) \/ EditAnnotation(o, image)
        \/ \E conditions \in ConditionLists : EditConditions(o, conditions)
        \/ DeepCopy(o)
        \/ \E v \in Versions : ConvertHub(o, v) \/ ConvertHubItem(o, v)
        \/ ConvertFromV1(o) \/ ConvertToV1(o)
        \/ DefaultV1(o) \/ DefaultV2(o)

Spec == Init /\ [][Next]_vars

-----------------------------------------------------------------------------
\* Only conversion shares: objects whose families differ, such as an object and its
\* deep copy with all that was converted from either, have no struct, map or slice in
\* common.
Isolated ==
    \A o, p \in DOMAIN foos : Family(o) # Family(p) =>
        /\ foos[o].at # foos[p].at
        /\ At(o).labels # 0 => At(o).labels # At(p).labels
        /\ At(o).annotations # 0 => At(o).annotations # At(p).annotations
        /\ At(o).conditions # 0 => At(o).conditions # At(p).conditions

\* What an object says, whatever its version.
Reads(o) == <<Image(o), At(o).config, At(o).phase, Condition(At(o)), Label(At(o))>>

\* So no step, a conversion that writes into a shared map included, is seen by
\* objects of two families.
OneFamilyChanges ==
    [][\A o, p \in DOMAIN foos :
        Reads(o)' # Reads(o) /\ Reads(p)' # Reads(p) => Family(o) = Family(p)]_vars

\* While a family is only converted, in any order and however often, all its objects
\* agree on image and configuration; they agree on the status too, but for those that
\* went through v1.
ConversionsAgree ==
    \A o, p \in DOMAIN foos : Family(o) = Family(p) /\ Family(o) \notin touched =>
        /\ Image(o) = Image(p)
        /\ At(o).config = At(p).config
        /\ ~At(o).viaV1 /\ ~At(p).viaV1 =>
            At(o).phase = At(p).phase /\ Condition(At(o)) = Condition(At(p))
=============================================================================
