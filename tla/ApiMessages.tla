----------------------------- MODULE ApiMessages -----------------------------
(***************************************************************************)
(* The messages of the four generated.pb.go: registration v1 and v1beta1,  *)
(* greeting v1 and v2.                                                     *)
(*                                                                         *)
(* For each message the code holds two lists, written out separately: the  *)
(* cases of Unmarshal's switch, here a sequence of kinds indexed by field  *)
(* number, and the tags MarshalToSizedBuffer writes, here in the order in  *)
(* which they come to stand in the buffer.  A value of a message is the    *)
(* sequence of its fields.                                                 *)
(***************************************************************************)
EXTENDS Integers, Sequences

CONSTANTS
    Nil,        \* a nil slice or pointer
    Word,       \* 2^64: uint64 and int are numbers modulo Word
    Word32      \* 2^32: int32

ASSUME WordAssumption ==
    /\ Word \in Nat /\ Word % 2 = 0 /\ 16 <= Word
    /\ Word32 \in Nat \ {0} /\ Word32 % 2 = 0

-----------------------------------------------------------------------------
(* What a case of the switch does with its field.                          *)

Gap == [kind |-> "gap"]                 \* no such case
Text == [kind |-> "text"]               \* string
Bytes == [kind |-> "bytes"]             \* []byte
Bool == [kind |-> "bool"]
Int32 == [kind |-> "int32"]
OptInt32 == [kind |-> "optInt32"]       \* *int32
Meta == [kind |-> "meta"]               \* ObjectMeta or ListMeta: external, merges
Time == [kind |-> "time"]               \* metav1.Time: external, replaces
Struct(t) == [kind |-> "struct", type |-> t]
Pointer(t) == [kind |-> "pointer", type |-> t]
List(t) == [kind |-> "list", type |-> t]

-----------------------------------------------------------------------------
(* The cases of each Unmarshal.                                            *)

APIService == <<Meta, Struct("APIServiceSpec"), Struct("APIServiceStatus")>>
APIServiceCondition == <<Text, Text, Time, Text, Text>>
APIServiceList == <<Meta, List("APIService")>>
APIServiceSpec == <<Pointer("ServiceReference"), Text, Text, Bool, Bytes, Gap, Int32, Int32>>
APIServiceStatus == <<List("APIServiceCondition")>>
ServiceReference == <<Text, Text, OptInt32>>

\* v1beta1 is the same code once more.
APIServiceV1beta1 == APIService
APIServiceConditionV1beta1 == APIServiceCondition
APIServiceListV1beta1 == APIServiceList
APIServiceSpecV1beta1 == APIServiceSpec
APIServiceStatusV1beta1 == APIServiceStatus
ServiceReferenceV1beta1 == ServiceReference

FooV1 == <<Meta, Struct("FooSpecV1")>>
FooListV1 == <<Meta, List("FooV1")>>
FooSpecV1 == <<Text, Text>>

Foo == <<Meta, Struct("FooSpec"), Struct("FooStatus")>>
FooCondition == <<Text, Text>>
FooConfig == <<Text, Text>>
FooList == <<Meta, List("Foo")>>
FooSpec == <<Text, Struct("FooConfig")>>
FooStatus == <<Text, List("FooCondition")>>

Fields == [
    APIService |-> APIService, APIServiceCondition |-> APIServiceCondition,
    APIServiceList |-> APIServiceList, APIServiceSpec |-> APIServiceSpec,
    APIServiceStatus |-> APIServiceStatus, ServiceReference |-> ServiceReference,
    APIServiceV1beta1 |-> APIServiceV1beta1,
    APIServiceConditionV1beta1 |-> APIServiceConditionV1beta1,
    APIServiceListV1beta1 |-> APIServiceListV1beta1,
    APIServiceSpecV1beta1 |-> APIServiceSpecV1beta1,
    APIServiceStatusV1beta1 |-> APIServiceStatusV1beta1,
    ServiceReferenceV1beta1 |-> ServiceReferenceV1beta1,
    FooV1 |-> FooV1, FooListV1 |-> FooListV1, FooSpecV1 |-> FooSpecV1,
    Foo |-> Foo, FooCondition |-> FooCondition, FooConfig |-> FooConfig,
    FooList |-> FooList, FooSpec |-> FooSpec, FooStatus |-> FooStatus]

Messages == DOMAIN Fields

-----------------------------------------------------------------------------
(* The tags each MarshalToSizedBuffer writes.                              *)

APIServiceTags == <<10, 18, 26>>
APIServiceConditionTags == <<10, 18, 26, 34, 42>>
APIServiceListTags == <<10, 18>>
APIServiceSpecTags == <<10, 18, 26, 32, 42, 56, 64>>
APIServiceStatusTags == <<10>>
ServiceReferenceTags == <<10, 18, 24>>

APIServiceV1beta1Tags == APIServiceTags
APIServiceConditionV1beta1Tags == APIServiceConditionTags
APIServiceListV1beta1Tags == APIServiceListTags
APIServiceSpecV1beta1Tags == APIServiceSpecTags
APIServiceStatusV1beta1Tags == APIServiceStatusTags
ServiceReferenceV1beta1Tags == ServiceReferenceTags

FooV1Tags == <<10, 18>>
FooListV1Tags == <<10, 18>>
FooSpecV1Tags == <<10, 18>>

FooTags == <<10, 18, 26>>
FooConditionTags == <<10, 18>>
FooConfigTags == <<10, 18>>
FooListTags == <<10, 18>>
FooSpecTags == <<10, 18>>
FooStatusTags == <<10, 18>>

Tags == [
    APIService |-> APIServiceTags, APIServiceCondition |-> APIServiceConditionTags,
    APIServiceList |-> APIServiceListTags, APIServiceSpec |-> APIServiceSpecTags,
    APIServiceStatus |-> APIServiceStatusTags, ServiceReference |-> ServiceReferenceTags,
    APIServiceV1beta1 |-> APIServiceV1beta1Tags,
    APIServiceConditionV1beta1 |-> APIServiceConditionV1beta1Tags,
    APIServiceListV1beta1 |-> APIServiceListV1beta1Tags,
    APIServiceSpecV1beta1 |-> APIServiceSpecV1beta1Tags,
    APIServiceStatusV1beta1 |-> APIServiceStatusV1beta1Tags,
    ServiceReferenceV1beta1 |-> ServiceReferenceV1beta1Tags,
    FooV1 |-> FooV1Tags, FooListV1 |-> FooListV1Tags, FooSpecV1 |-> FooSpecV1Tags,
    Foo |-> FooTags, FooCondition |-> FooConditionTags, FooConfig |-> FooConfigTags,
    FooList |-> FooListTags, FooSpec |-> FooSpecTags, FooStatus |-> FooStatusTags]

-----------------------------------------------------------------------------
(* The values of the Go types, of their encoded fields in the order of     *)
(* their numbers; E holds what ObjectMeta, ListMeta and Time may be.       *)

Texts == Seq(0..255)
Int32Values == -(Word32 \div 2)..(Word32 \div 2 - 1)
OrNil(S) == {Nil} \cup S

ServiceReferenceValues == Texts \X Texts \X OrNil(Int32Values)
APIServiceConditionValues(E) == Texts \X Texts \X E \X Texts \X Texts
APIServiceSpecValues ==
    OrNil(ServiceReferenceValues) \X Texts \X Texts \X BOOLEAN \X OrNil(Texts)
        \X {Nil} \X Int32Values \X Int32Values
APIServiceStatusValues(E) == [1..1 -> Seq(APIServiceConditionValues(E))]
APIServiceValues(E) == E \X APIServiceSpecValues \X APIServiceStatusValues(E)
APIServiceListValues(E) == E \X Seq(APIServiceValues(E))

FooSpecV1Values == Texts \X Texts
FooV1Values(E) == E \X FooSpecV1Values
FooListV1Values(E) == E \X Seq(FooV1Values(E))

FooConfigValues == Texts \X Texts
FooConditionValues == Texts \X Texts
FooSpecValues == Texts \X FooConfigValues
FooStatusValues == Texts \X Seq(FooConditionValues)
FooValues(E) == E \X FooSpecValues \X FooStatusValues
FooListValues(E) == E \X Seq(FooValues(E))

ValuesWith(E) == [
    APIService |-> APIServiceValues(E), APIServiceCondition |-> APIServiceConditionValues(E),
    APIServiceList |-> APIServiceListValues(E), APIServiceSpec |-> APIServiceSpecValues,
    APIServiceStatus |-> APIServiceStatusValues(E), ServiceReference |-> ServiceReferenceValues,
    APIServiceV1beta1 |-> APIServiceValues(E),
    APIServiceConditionV1beta1 |-> APIServiceConditionValues(E),
    APIServiceListV1beta1 |-> APIServiceListValues(E),
    APIServiceSpecV1beta1 |-> APIServiceSpecValues,
    APIServiceStatusV1beta1 |-> APIServiceStatusValues(E),
    ServiceReferenceV1beta1 |-> ServiceReferenceValues,
    FooV1 |-> FooV1Values(E), FooListV1 |-> FooListV1Values(E), FooSpecV1 |-> FooSpecV1Values,
    Foo |-> FooValues(E), FooCondition |-> FooConditionValues, FooConfig |-> FooConfigValues,
    FooList |-> FooListValues(E), FooSpec |-> FooSpecValues, FooStatus |-> FooStatusValues]

Values == ValuesWith(Texts)

-----------------------------------------------------------------------------
\* The zero value of a field; messages holds those of the messages in a message.
ZeroField(messages, k) ==
    CASE k.kind \in {"text", "meta", "time", "list"} -> <<>>
      [] k.kind = "bool" -> FALSE
      [] k.kind = "int32" -> 0
      [] k.kind = "struct" -> messages[k.type]
      [] k.kind \in {"gap", "bytes", "optInt32", "pointer"} -> Nil

\* The zero value of a message, &T{}.
Zero[t \in Messages] == [f \in DOMAIN Fields[t] |-> ZeroField(Zero, Fields[t][f])]
=============================================================================
