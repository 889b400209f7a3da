------------------------- MODULE ProtoDecoder_proofs -------------------------
(***************************************************************************)
(* Whatever bytes Unmarshal is given, and however wide an int is, it stays *)
(* inside them; the bytes that Marshal wrote it reads back as the object   *)
(* that was marshalled; and fields only a newer version knows change       *)
(* nothing in what it reads.                                               *)
(***************************************************************************)
EXTENDS ProtoRoundTrip_proofs

\* The fields that hold messages hold messages with an Unmarshal of their own.
Closed(fields) ==
    \A f \in DOMAIN fields :
        fields[f].kind \in {"struct", "pointer", "list"} => fields[f].type \in Messages

\* Every message names only messages of the table.
LEMMA MessagesClosed == \A t \in Messages : Closed(Fields[t])
<1> USE DEF Closed, Gap, Text, Bytes, Bool, Int32, OptInt32, Meta, Time, Struct, Pointer, List,
            Messages, Fields
<1>1. Closed(APIService) BY DEF APIService
<1>2. Closed(APIServiceCondition) BY DEF APIServiceCondition
<1>3. Closed(APIServiceList) BY DEF APIServiceList
<1>4. Closed(APIServiceSpec) BY DEF APIServiceSpec
<1>5. Closed(APIServiceStatus) BY DEF APIServiceStatus
<1>6. Closed(ServiceReference) BY DEF ServiceReference
<1>7. Closed(FooV1) BY DEF FooV1
<1>8. Closed(FooListV1) BY DEF FooListV1
<1>9. Closed(FooSpecV1) BY DEF FooSpecV1
<1>10. Closed(Foo) BY DEF Foo
<1>11. Closed(FooCondition) BY DEF FooCondition
<1>12. Closed(FooConfig) BY DEF FooConfig
<1>13. Closed(FooList) BY DEF FooList
<1>14. Closed(FooSpec) BY DEF FooSpec
<1>15. Closed(FooStatus) BY DEF FooStatus
<1> HIDE DEF Closed, Gap, Text, Bytes, Bool, Int32, OptInt32, Meta, Time, Struct, Pointer, List
<1>16. QED
    BY <1>1, <1>2, <1>3, <1>4, <1>5, <1>6, <1>7, <1>8, <1>9, <1>10, <1>11, <1>12, <1>13, <1>14, <1>15
    DEF APIServiceV1beta1, APIServiceConditionV1beta1, APIServiceListV1beta1,
        APIServiceSpecV1beta1, APIServiceStatusV1beta1, ServiceReferenceV1beta1

-----------------------------------------------------------------------------
SkipPlaces == {"skipLoop", "skipTag", "skipTagged", "skipVarint", "skipLength", "skipSized", "skipTest"}
FieldPlaces == {"length", "sized", "value", "valued"}

\* What the bounds rest on: skipGenerated has a caller, and so has the loop an index
\* inside its slice even while it runs past it elsewhere; the field that is read is one
\* of the message's.
Frames ==
    /\ pc \in SkipPlaces => callers # <<>>
    /\ pc \in FieldPlaces => call.field \in DOMAIN Fields[call.type]
    /\ pc = "skipLoop" => call.iNdEx >= 0

Inv == input \in Inputs /\ TypeOK /\ InBounds /\ Frames

-----------------------------------------------------------------------------
\* A sum of two lengths that does not come out negative did not overflow.
LEMMA SumFits ==
    ASSUME NEW a \in Nat, NEW b \in Nat, 2 * a < Word, 2 * b < Word, Int64(a + b) >= 0
    PROVE  Int64(a + b) = a + b
BY WordAssumption DEF Int64

\* A varint that came out as a length is one that fits.
LEMMA LengthFits ==
    ASSUME NEW x \in 0..(Word - 1)
    PROVE  Int64(x) \in Int /\ 2 * Int64(x) < Word
BY WordAssumption DEF Int64

\* int32(x) is an int.
LEMMA Int32Type == ASSUME NEW x \in Nat PROVE ToInt32(x) \in Int
BY WordAssumption DEF ToInt32

\* The accumulated varint stays a uint64.
LEMMA SumIsWord ==
    ASSUME NEW a \in Nat, NEW b \in Nat, NEW w \in Nat
    PROVE  (a + (b % 128) * w) % Word \in 0..(Word - 1)
<1>1. (b % 128) * w \in Nat OBVIOUS
<1>2. \A n \in Nat : n % Word \in 0..(Word - 1) BY WordAssumption
<1>3. a + (b % 128) * w \in Nat BY <1>1
<1>4. QED BY <1>2, <1>3

\* The input is shorter than the longest slice, and consists of bytes.
LEMMA InputFits ==
    ASSUME input \in Inputs
    PROVE  /\ input.type \in Messages
           /\ input.bytes \in Seq(0..255)
           /\ Len(input.bytes) \in Nat
           /\ 2 * Len(input.bytes) < Word
BY InputsAssumption

\* The caller's frame survives the call.
LEMMA PopType ==
    ASSUME NEW S, NEW s \in Seq(S), s # <<>>
    PROVE  /\ Len(s) \in Nat \ {0}
           /\ s[Len(s)] \in S
           /\ Pop(s) \in Seq(S)
           /\ Len(Pop(s)) = Len(s) - 1
           /\ \A k \in 1..(Len(s) - 1) : Pop(s)[k] = s[k]
<1>1. Len(s) \in Nat \ {0} BY EmptySeq
<1>2. s[Len(s)] \in S BY <1>1
<1>3. QED BY <1>1, <1>2, SubSeqProperties DEF Pop

\* A frame whose index moves is a frame.
LEMMA MovedFrame ==
    ASSUME NEW c \in Call, NEW n \in Int
    PROVE  LET d == [c EXCEPT !.iNdEx = n] IN
           /\ d \in Call
           /\ d.type = c.type /\ d.base = c.base /\ d.l = c.l /\ d.iNdEx = n
           /\ d.preIndex = c.preIndex /\ d.field = c.field
BY DEF Call

\* A call begins with a frame, at the start of its slice.
LEMMA BegunFrame ==
    ASSUME NEW t \in Messages, NEW from \in Nat, NEW n \in Nat
    PROVE  /\ Begun(t, from, n) \in Call
           /\ Begun(t, from, n).base = from
           /\ Begun(t, from, n).l = n
           /\ Begun(t, from, n).iNdEx = 0
           /\ Begun(t, from, n).preIndex = 0
BY DEF Begun, Call

\* Where the calls that wait go on, with the slices nested.
Stack == Nested /\ \A k \in DOMAIN callers : callers[k].iNdEx \in 0..callers[k].l

\* While the stack is unchanged only the innermost call moves, inside its slice.
LEMMA SameFrames ==
    ASSUME Inv, UNCHANGED <<input, callers>>, call'.base = call.base, call'.l = call.l
    PROVE  Stack'
BY DEF Inv, InBounds, Nested, Inner, Stack

\* A call on the slice [base, base + l) of the caller's, which goes on at the index
\* after, keeps the stack in order.
LEMMA PushFrames ==
    ASSUME Inv, UNCHANGED input, call' \in Call,
           NEW after \in 0..call.l,
           callers' = Append(callers, [call EXCEPT !.iNdEx = after]),
           call.base <= call'.base,
           call'.base + call'.l <= call.base + call.l
    PROVE  callers' \in Seq(Call) /\ callers' # <<>> /\ Stack'
<1> DEFINE frame == [call EXCEPT !.iNdEx = after]
           n == Len(callers)
<1>1. call \in Call /\ callers \in Seq(Call) /\ n \in Nat BY DEF Inv, TypeOK
<1>2. frame \in Call /\ frame.base = call.base /\ frame.l = call.l /\ frame.iNdEx = after
    <2>1. after \in Int BY <1>1 DEF Call
    <2>2. QED BY <1>1, <2>1, MovedFrame
<1> HIDE DEF frame
<1>3. /\ callers' \in Seq(Call) /\ callers' # <<>> /\ Len(callers') = n + 1
      /\ callers'[n + 1] = frame
      /\ \A k \in 1..n : callers'[k] = callers[k]
    <2>1. callers' = Append(callers, frame) BY DEF frame
    <2>2. QED BY <1>1, <1>2, <2>1
<1>4. Nested /\ \A k \in 1..n : callers[k].iNdEx \in 0..callers[k].l
    BY <1>1 DEF Inv, InBounds
<1>5. Len(input.bytes) \in Nat BY InputFits DEF Inv
<1>6. call.base + call.l <= Len(input.bytes) BY <1>4 DEF Nested
<1>7. call'.base + call'.l <= Len(input'.bytes)
    <2>1. call.base \in Nat /\ call.l \in Int /\ call'.base \in Nat /\ call'.l \in Int BY <1>1 DEF Call
    <2>2. Len(input'.bytes) = Len(input.bytes) OBVIOUS
    <2>3. QED BY <1>5, <1>6, <2>1, <2>2
<1>8. \A k \in 1..(n + 1) :
        /\ callers'[k].base + callers'[k].l <= Len(input'.bytes)
        /\ callers'[k].iNdEx \in 0..callers'[k].l
    BY <1>1, <1>2, <1>3, <1>4, <1>6 DEF Nested
<1>9. ASSUME NEW k \in 1..(n + 1)
      PROVE  /\ callers'[k].base <= Inner(k)'.base
             /\ Inner(k)'.base + Inner(k)'.l <= callers'[k].base + callers'[k].l
    <2>1. CASE k = n + 1 BY <1>1, <1>2, <1>3, <2>1 DEF Inner
    <2>2. CASE k = n
        <3>1. k \in 1..n /\ Inner(k) = call /\ Inner(k)' = frame
            BY <1>1, <1>3, <1>9, <2>2 DEF Inner
        <3>2. QED BY <1>2, <1>3, <1>4, <3>1 DEF Nested
    <2>3. CASE k < n
        <3>1. k \in 1..n /\ k + 1 \in 1..n BY <1>1, <1>9, <2>3
        <3>2. Inner(k)' = Inner(k) BY <1>1, <1>3, <2>3, <3>1 DEF Inner
        <3>3. QED BY <1>3, <1>4, <3>1, <3>2 DEF Nested
    <2>4. QED BY <1>1, <1>9, <2>1, <2>2, <2>3
<1>10. DOMAIN callers' = 1..(n + 1) BY <1>1, <1>3
<1>11. QED BY <1>3, <1>7, <1>8, <1>9, <1>10 DEF Stack, Nested

\* A return to the caller, at an index inside its slice, keeps the stack in order.
LEMMA PopFrames ==
    ASSUME Inv, UNCHANGED input, callers # <<>>,
           NEW after \in 0..Caller.l,
           callers' = Pop(callers),
           call' = [Caller EXCEPT !.iNdEx = after]
    PROVE  /\ callers' \in Seq(Call)
           /\ call' \in Call
           /\ call'.iNdEx = after /\ call'.l = Caller.l
           /\ Stack'
<1> DEFINE n == Len(callers)
<1>1. callers \in Seq(Call) BY DEF Inv, TypeOK
<1>2. /\ n \in Nat \ {0} /\ Caller \in Call /\ Caller = callers[n]
      /\ callers' \in Seq(Call) /\ Len(callers') = n - 1
      /\ \A k \in 1..(n - 1) : callers'[k] = callers[k]
    BY <1>1, PopType DEF Caller
<1>3. /\ call' \in Call /\ call'.iNdEx = after
      /\ call'.base = Caller.base /\ call'.l = Caller.l
    <2>1. after \in Int BY <1>2 DEF Call
    <2>2. QED BY <1>2, <2>1, MovedFrame
<1>4. Nested /\ \A k \in 1..n : callers[k].iNdEx \in 0..callers[k].l
    BY <1>1 DEF Inv, InBounds
<1>5. call'.base + call'.l <= Len(input'.bytes) BY <1>1, <1>2, <1>3, <1>4 DEF Nested
<1>6. \A k \in 1..(n - 1) :
        /\ callers'[k].base + callers'[k].l <= Len(input'.bytes)
        /\ callers'[k].iNdEx \in 0..callers'[k].l
    BY <1>1, <1>2, <1>4 DEF Nested
<1>7. ASSUME NEW k \in 1..(n - 1)
      PROVE  /\ callers'[k].base <= Inner(k)'.base
             /\ Inner(k)'.base + Inner(k)'.l <= callers'[k].base + callers'[k].l
    <2>1. Inner(k)'.base = Inner(k).base /\ Inner(k)'.l = Inner(k).l
        <3>1. CASE k = n - 1 BY <1>2, <1>3, <1>7, <3>1 DEF Inner
        <3>2. CASE k # n - 1
            <4>1. k + 1 \in 1..(n - 1) BY <1>2, <1>7, <3>2
            <4>2. QED BY <1>2, <1>7, <3>2, <4>1 DEF Inner
        <3>3. QED BY <3>1, <3>2
    <2>2. k \in 1..n /\ k \in DOMAIN callers BY <1>1, <1>2, <1>7
    <2>3. QED BY <1>2, <1>4, <1>7, <2>1, <2>2 DEF Nested
<1>8. DOMAIN callers' = 1..(n - 1) BY <1>2
<1>9. QED BY <1>2, <1>3, <1>5, <1>6, <1>7, <1>8 DEF Stack, Nested

-----------------------------------------------------------------------------
\* The first call is on the whole input.
LEMMA InitInv == Init => Inv
<1> SUFFICES ASSUME Init PROVE Inv OBVIOUS
<1>1. /\ input \in Inputs /\ input.type \in Messages
      /\ Len(input.bytes) \in Nat
    BY InputFits DEF Init
<1>2. /\ call \in Call /\ call.base = 0 /\ call.l = Len(input.bytes) /\ call.iNdEx = 0
    BY <1>1, BegunFrame DEF Init
<1>3. TypeOK
    BY <1>2, WordAssumption DEF Init, TypeOK, VarintLoops, Tests, Returned
<1>4. InBounds BY <1>1, <1>2 DEF Init, InBounds, Nested, Inner
<1>5. Frames BY DEF Init, Frames, SkipPlaces, FieldPlaces
<1>6. QED BY <1>1, <1>3, <1>4, <1>5 DEF Inv

\* What the steps below share: an invariant of the stack and of the places.
LEMMA Rebuild ==
    ASSUME Inv, UNCHANGED input, Stack',
           pc' \in VarintLoops \cup Tests \cup Returned,
           call' \in Call, callers' \in Seq(Call),
           acc' \in 0..(Word - 1), weight' \in Nat, depth' \in Nat,
           pc' \notin {"skipTest", "skipLoop", "failed"} => call'.iNdEx \in 0..call'.l,
           pc' \in {"tag", "tagged"} => call'.preIndex <= call'.iNdEx,
           Frames'
    PROVE  Inv'
BY DEF Inv, TypeOK, InBounds, Stack

\* One more byte of a varint: the index moves by one, inside the slice.
LEMMA TurnInv == Inv /\ Turn => Inv'
<1> SUFFICES ASSUME Inv, Turn PROVE Inv' OBVIOUS
<1>1. /\ call \in Call /\ acc \in Nat /\ weight \in Nat /\ depth \in Nat
      /\ callers \in Seq(Call) /\ pc \in VarintLoops
    BY DEF Inv, TypeOK, Turn
<1>2. call.iNdEx \in 0..call.l /\ call.iNdEx < call.l
    BY <1>1 DEF Inv, InBounds, Turn, VarintLoops
<1>3. /\ call' \in Call /\ call'.base = call.base /\ call'.l = call.l
      /\ call'.iNdEx = call.iNdEx + 1 /\ call'.preIndex = call.preIndex
      /\ call'.field = call.field /\ call'.type = call.type
    <2>1. call.iNdEx + 1 \in Int BY <1>1 DEF Call
    <2>2. call' = [call EXCEPT !.iNdEx = call.iNdEx + 1] BY DEF Turn
    <2>3. QED BY <1>1, <2>1, <2>2, MovedFrame
<1>4. call'.iNdEx \in 0..call'.l BY <1>1, <1>2, <1>3 DEF Call
<1>5. pc' \in VarintLoops \cup Tests
    BY <1>1 DEF Turn, After, VarintLoops, Tests
<1>6. pc' \in {"tag", "tagged"} => call'.preIndex <= call'.iNdEx
    <2>1. pc' \in {"tag", "tagged"} => pc = "tag" BY <1>1 DEF Turn, After, VarintLoops
    <2>2. pc = "tag" => call.preIndex <= call.iNdEx BY DEF Inv, InBounds
    <2>3. QED BY <1>1, <1>3, <2>1, <2>2 DEF Call
<1>7. acc' \in 0..(Word - 1) /\ weight' \in Nat
    <2>1. ByteAt(call.iNdEx) \in Nat
        <3>1. call.base + call.l <= Len(input.bytes) BY DEF Inv, InBounds, Nested
        <3>2. input.bytes \in Seq(0..255) /\ Len(input.bytes) \in Nat
            BY InputFits DEF Inv
        <3>3. call.base + call.iNdEx + 1 \in 1..Len(input.bytes)
            BY <1>1, <1>2, <3>1, <3>2 DEF Call
        <3>4. input.bytes[call.base + call.iNdEx + 1] \in 0..255 BY <3>2, <3>3, ElementOfSeq
        <3>5. QED BY <3>4 DEF ByteAt
    <2>2. acc' = (acc + (ByteAt(call.iNdEx) % 128) * weight) % Word /\ weight' = 128 * weight
        BY DEF Turn
    <2>3. acc' \in 0..(Word - 1) BY <1>1, <2>1, <2>2, SumIsWord
    <2>4. QED BY <1>1, <2>2, <2>3
<1>8. Frames'
    BY <1>1, <1>3 DEF Inv, Frames, Turn, After, VarintLoops, SkipPlaces, FieldPlaces
<1>9. Stack' BY <1>3, SameFrames DEF Turn
<1>10. QED BY <1>1, <1>3, <1>4, <1>5, <1>6, <1>7, <1>8, <1>9, Rebuild DEF Turn

\* The loop starts a field, or skipGenerated one of its own.
LEMMA BeginInv == Inv /\ (BeginField \/ SkipLoop) => Inv'
<1> SUFFICES ASSUME Inv, BeginField \/ SkipLoop PROVE Inv' OBVIOUS
<1>1. /\ call \in Call /\ callers \in Seq(Call) /\ depth \in Nat
    BY DEF Inv, TypeOK
<1>2. call.iNdEx \in 0..call.l
    BY <1>1, SMTT(20) DEF Inv, InBounds, Frames, BeginField, SkipLoop, Call
<1>3. /\ call' \in Call /\ call'.base = call.base /\ call'.l = call.l
      /\ call'.iNdEx = call.iNdEx
      /\ pc' = "tag" => call'.preIndex = call'.iNdEx
    <2>1. CASE BeginField
        <3>1. call.iNdEx \in Nat BY <1>1, <1>2 DEF Call
        <3>2. call' = [call EXCEPT !.preIndex = call.iNdEx] BY <2>1 DEF BeginField
        <3>3. QED BY <1>1, <3>1, <3>2 DEF Call
    <2>2. CASE SkipLoop BY <1>1, <2>2 DEF SkipLoop, ReadVarint
    <2>3. QED BY <2>1, <2>2
<1>4. /\ pc' \in {"tag", "skipTag"} /\ acc' = 0 /\ weight' = 1
      /\ UNCHANGED <<input, callers, depth>>
    BY DEF BeginField, SkipLoop, ReadVarint
<1>5. call'.preIndex \in Nat /\ call'.iNdEx \in Int /\ (pc' = "tag" => call'.preIndex <= call'.iNdEx)
    BY <1>3 DEF Call
<1>6. Frames'
    BY DEF Inv, Frames, BeginField, SkipLoop, ReadVarint, SkipPlaces, FieldPlaces
<1>7. Stack' BY <1>3, <1>4, SameFrames
<1>8. acc' \in 0..(Word - 1) /\ weight' \in Nat BY <1>4, WordAssumption
<1>9. pc' \in VarintLoops BY <1>4 DEF VarintLoops
<1>10. QED BY <1>1, <1>2, <1>3, <1>4, <1>5, <1>6, <1>7, <1>8, <1>9, Rebuild

\* The tag is read: its value follows.
LEMMA FieldInv == Inv /\ (Field \/ SkipValue) => Inv'
<1> SUFFICES ASSUME Inv, Field \/ SkipValue PROVE Inv' OBVIOUS
<1>1. /\ call \in Call /\ callers \in Seq(Call) /\ depth \in Nat /\ acc \in 0..(Word - 1)
    BY DEF Inv, TypeOK
<1>2. call.iNdEx \in 0..call.l
    BY DEF Inv, InBounds, Field, SkipValue
<1>3. /\ call' \in Call /\ call'.base = call.base /\ call'.l = call.l
      /\ call'.iNdEx = call.iNdEx /\ call'.type = call.type
    <2>1. CASE Field
        <3>1. fieldNum \in Nat
            <4>1. acc \div 8 \in Nat BY <1>1, WordAssumption
            <4>2. fieldNum \in Int BY <4>1, Int32Type DEF fieldNum
            <4>3. QED BY <2>1, <4>2 DEF Field, TagOK
        <3>2. call' = [call EXCEPT !.field = fieldNum] BY <2>1 DEF Field
        <3>3. QED BY <1>1, <3>1, <3>2 DEF Call
    <2>2. CASE SkipValue BY <1>1, <2>2 DEF SkipValue
    <2>3. QED BY <2>1, <2>2
<1>4. /\ pc' \in {"value", "length", "skipVarint", "skipLength"} /\ acc' = 0 /\ weight' = 1
      /\ UNCHANGED <<input, callers, depth>>
    BY DEF Field, SkipValue, ReadVarint
<1>5. Frames'
    <2>1. CASE Field
        <3>1. call'.field = fieldNum BY <1>1, <2>1 DEF Field, Call
        <3>2. fieldNum \in DOMAIN Fields[call.type] BY <2>1 DEF Field, Known
        <3>3. pc' \in {"value", "length"} BY <2>1 DEF Field, ReadVarint
        <3>4. QED BY <1>3, <3>1, <3>2, <3>3 DEF Frames, SkipPlaces
    <2>2. CASE SkipValue
        BY <2>2 DEF Inv, Frames, SkipValue, ReadVarint, SkipPlaces, FieldPlaces
    <2>3. QED BY <2>1, <2>2
<1>6. Stack' BY <1>3, <1>4, SameFrames
<1>7. acc' \in 0..(Word - 1) /\ weight' \in Nat BY <1>4, WordAssumption
<1>8. pc' \in VarintLoops BY <1>4 DEF VarintLoops
<1>9. QED BY <1>1, <1>2, <1>3, <1>4, <1>5, <1>6, <1>7, <1>8, Rebuild

\* skipGenerated is called on the rest of the slice, from the tag on.
LEMMA UnknownInv == Inv /\ UnknownField => Inv'
<1> SUFFICES ASSUME Inv, UnknownField PROVE Inv' OBVIOUS
<1>1. /\ call \in Call /\ acc \in 0..(Word - 1) /\ weight \in Nat BY DEF Inv, TypeOK
<1>2. /\ call.iNdEx \in 0..call.l /\ call.preIndex <= call.iNdEx
    BY DEF Inv, InBounds, UnknownField
<1>3. call.preIndex \in 0..call.l /\ call.l - call.preIndex \in Nat /\ call.base + call.preIndex \in Nat
    BY <1>1, <1>2 DEF Call
<1>4. /\ call' \in Call /\ call'.base = call.base + call.preIndex
      /\ call'.l = call.l - call.preIndex /\ call'.iNdEx = 0
    <2>1. call' = Begun(call.type, call.base + call.preIndex, call.l - call.preIndex)
        BY DEF UnknownField
    <2>2. call.type \in Messages BY <1>1 DEF Call
    <2>3. QED BY <1>3, <2>1, <2>2, BegunFrame
<1>5. /\ call.base <= call'.base /\ call'.base + call'.l <= call.base + call.l
    BY <1>1, <1>3, <1>4 DEF Call
<1>6. callers' = Append(callers, [call EXCEPT !.iNdEx = call.preIndex]) /\ UNCHANGED input
    BY DEF UnknownField
<1>7. callers' \in Seq(Call) /\ callers' # <<>> /\ Stack'
    BY <1>3, <1>4, <1>5, <1>6, PushFrames
<1>8. /\ pc' = "skipLoop" /\ depth' = 0 /\ acc' = acc /\ weight' = weight BY DEF UnknownField
<1>9. Frames' BY <1>4, <1>7, <1>8 DEF Frames, FieldPlaces
<1>10. QED BY <1>1, <1>4, <1>6, <1>7, <1>8, <1>9, Rebuild DEF Tests

\* A value is stored: the loop goes on where the value ended.
LEMMA TakeValueInv == Inv /\ TakeValue => Inv'
<1> SUFFICES ASSUME Inv, TakeValue PROVE Inv' OBVIOUS
<1>1. UNCHANGED <<input, call, callers, acc, weight, depth>> /\ pc = "valued" /\ pc' = "loop"
    BY DEF TakeValue
<1>2. call.iNdEx \in 0..call.l BY <1>1 DEF Inv, InBounds
<1>3. Stack' BY <1>1, SameFrames
<1>4. Frames' BY <1>1 DEF Frames, SkipPlaces, FieldPlaces
<1>5. QED BY <1>1, <1>2, <1>3, <1>4, Rebuild DEF Inv, TypeOK, Tests

\* A length that passes the tests ends inside the slice.
LEMMA AcceptedLength ==
    ASSUME Inv, pc = "sized", Accepted
    PROVE  /\ len \in Nat
           /\ postIndex = call.iNdEx + len
           /\ postIndex \in 0..call.l
           /\ call.iNdEx \in 0..call.l
<1>1. call \in Call /\ acc \in 0..(Word - 1) BY DEF Inv, TypeOK
<1>2. call.iNdEx \in 0..call.l BY DEF Inv, InBounds
<1>3. len \in Nat /\ 2 * len < Word BY <1>1, LengthFits DEF len, Accepted, LengthOK
<1>4. 2 * call.iNdEx < Word
    <2>1. call.base + call.l <= Len(input.bytes) BY DEF Inv, InBounds, Nested
    <2>2. Len(input.bytes) \in Nat /\ 2 * Len(input.bytes) < Word BY InputFits DEF Inv
    <2>3. QED BY <1>1, <1>2, <2>1, <2>2, WordAssumption DEF Call
<1>5. Int64(call.iNdEx + len) >= 0 /\ postIndex <= call.l BY DEF Accepted, LengthOK, postIndex
<1>6. call.iNdEx \in Nat BY <1>1, <1>2 DEF Call
<1>7. Int64(call.iNdEx + len) = call.iNdEx + len BY <1>3, <1>4, <1>5, <1>6, SumFits
<1>8. postIndex = call.iNdEx + len BY <1>7 DEF postIndex
<1>9. QED BY <1>1, <1>2, <1>3, <1>5, <1>6, <1>8 DEF Call

\* The bytes are stored: the loop goes on after them.
LEMMA TakeBytesInv == Inv /\ TakeBytes => Inv'
<1> SUFFICES ASSUME Inv, TakeBytes PROVE Inv' OBVIOUS
<1>1. /\ UNCHANGED <<input, callers, acc, weight, depth>> /\ pc = "sized" /\ pc' = "loop"
      /\ call' = [call EXCEPT !.iNdEx = postIndex] /\ Accepted
    BY DEF TakeBytes
<1>2. call \in Call BY DEF Inv, TypeOK
<1>3. postIndex \in 0..call.l BY <1>1, AcceptedLength
<1>4. /\ call' \in Call /\ call'.base = call.base /\ call'.l = call.l /\ call'.iNdEx = postIndex
    <2>1. postIndex \in Int BY <1>2, <1>3 DEF Call
    <2>2. QED BY <1>1, <1>2, <2>1, MovedFrame
<1>5. Stack' BY <1>1, <1>4, SameFrames
<1>6. Frames' BY <1>1 DEF Frames, SkipPlaces, FieldPlaces
<1>7. QED BY <1>1, <1>3, <1>4, <1>5, <1>6, Rebuild DEF Inv, TypeOK, Tests

\* The message is decoded from its part of the slice.
LEMMA DescendInv == Inv /\ Descend => Inv'
<1> SUFFICES ASSUME Inv, Descend PROVE Inv' OBVIOUS
<1> DEFINE t == Fields[call.type][call.field].type
<1>1. /\ UNCHANGED <<input, acc, weight, depth>> /\ pc = "sized" /\ pc' = "loop"
      /\ callers' = Append(callers, [call EXCEPT !.iNdEx = postIndex])
      /\ call' = Begun(t, call.base + call.iNdEx, len)
      /\ Accepted
    BY DEF Descend
<1>2. call \in Call BY DEF Inv, TypeOK
<1>3. /\ len \in Nat /\ postIndex = call.iNdEx + len
      /\ postIndex \in 0..call.l /\ call.iNdEx \in 0..call.l
    BY <1>1, AcceptedLength
<1>4. t \in Messages
    <2>1. call.type \in Messages BY <1>2 DEF Call
    <2>2. Closed(Fields[call.type]) BY <2>1, MessagesClosed
    <2>3. call.field \in DOMAIN Fields[call.type] BY <1>1 DEF Inv, Frames, FieldPlaces
    <2>4. Kind \in {"struct", "pointer", "list"} BY DEF Descend, IsMessage
    <2>5. QED BY <2>2, <2>3, <2>4 DEF Closed, Kind
<1> HIDE DEF t
<1>5. call.base + call.iNdEx \in Nat BY <1>2, <1>3 DEF Call
<1>6. /\ call' \in Call /\ call'.base = call.base + call.iNdEx /\ call'.l = len /\ call'.iNdEx = 0
    BY <1>1, <1>3, <1>4, <1>5, BegunFrame
<1>7. call.base <= call'.base /\ call'.base + call'.l <= call.base + call.l
    BY <1>2, <1>3, <1>6 DEF Call
<1>8. callers' \in Seq(Call) /\ Stack' BY <1>1, <1>3, <1>6, <1>7, PushFrames
<1>9. Frames' BY <1>1 DEF Frames, SkipPlaces, FieldPlaces
<1>10. QED BY <1>1, <1>3, <1>6, <1>8, <1>9, Rebuild DEF Inv, TypeOK, Tests

\* The caller goes on behind the message.
LEMMA AscendInv == Inv /\ Ascend => Inv'
<1> SUFFICES ASSUME Inv, Ascend PROVE Inv' OBVIOUS
<1>1. /\ UNCHANGED <<input, pc, acc, weight, depth>> /\ pc = "loop"
      /\ call' = Caller /\ callers' = Pop(callers) /\ callers # <<>>
    BY DEF Ascend
<1>2. callers \in Seq(Call) BY DEF Inv, TypeOK
<1>3. Caller \in Call /\ Caller.iNdEx \in 0..Caller.l
    <2>1. Len(callers) \in 1..Len(callers) /\ callers[Len(callers)] \in Call BY <1>1, <1>2, PopType
    <2>2. QED BY <1>2, <2>1 DEF Caller, Inv, InBounds
<1>4. call' = [Caller EXCEPT !.iNdEx = Caller.iNdEx] BY <1>1, <1>3 DEF Call
<1>5. /\ callers' \in Seq(Call) /\ call' \in Call /\ Stack'
      /\ call'.iNdEx = Caller.iNdEx /\ call'.l = Caller.l
    BY <1>1, <1>3, <1>4, PopFrames
<1>6. Frames' BY <1>1 DEF Frames, SkipPlaces, FieldPlaces
<1>7. QED BY <1>1, <1>3, <1>5, <1>6, Rebuild DEF Inv, TypeOK, Tests

\* The decoder has returned.
LEMMA FinishInv == Inv /\ (Finish \/ Fail \/ Rest) => Inv'
<1> SUFFICES ASSUME Inv, Finish \/ Fail \/ Rest PROVE Inv' OBVIOUS
<1>1. UNCHANGED <<input, call, callers, acc, weight, depth>> BY DEF Finish, Fail, Rest, vars
<1>2. pc' \in Returned BY DEF Finish, Fail, Rest, Returned, vars
<1>3. pc' = "done" => call.iNdEx \in 0..call.l
    BY DEF Inv, InBounds, Finish, Fail, Rest, vars
<1>4. Stack' BY <1>1, SameFrames
<1>5. Frames' BY <1>2 DEF Frames, SkipPlaces, FieldPlaces, Returned
<1>6. QED BY <1>1, <1>2, <1>3, <1>4, <1>5, Rebuild DEF Inv, TypeOK, Returned

\* The index moves on, and perhaps past the end: it is tested next.
LEMMA AdvanceInv ==
    ASSUME Inv, pc \in SkipPlaces, NEW n \in Int, Advance(n)
    PROVE  Inv'
<1>1. call \in Call BY DEF Inv, TypeOK
<1>2. /\ call' \in Call /\ call'.base = call.base /\ call'.l = call.l
    <2>1. Int64(call.iNdEx + n) \in Int BY <1>1, WordAssumption DEF Call, Int64
    <2>2. call' = [call EXCEPT !.iNdEx = Int64(call.iNdEx + n)] BY DEF Advance
    <2>3. QED BY <1>1, <2>1, <2>2, MovedFrame
<1>3. /\ UNCHANGED <<input, callers, acc, weight, depth>> /\ pc' = "skipTest" BY DEF Advance
<1>4. Stack' BY <1>2, <1>3, SameFrames
<1>5. Frames' BY <1>3 DEF Inv, Frames, FieldPlaces
<1>6. QED BY <1>2, <1>3, <1>4, <1>5, Rebuild DEF Inv, TypeOK, Tests

\* A fixed or a counted number of bytes is skipped.
LEMMA SkipBytesInv == Inv /\ (SkipFixed \/ SkipLength) => Inv'
<1> SUFFICES ASSUME Inv, SkipFixed \/ SkipLength PROVE Inv' OBVIOUS
<1>1. pc \in SkipPlaces BY DEF SkipFixed, SkipLength, SkipPlaces
<1>2. CASE SkipFixed
    <2>1. Advance(8) \/ Advance(4) BY <1>2 DEF SkipFixed
    <2>2. QED BY <1>1, <2>1, AdvanceInv
<1>3. CASE SkipLength
    <2>1. Advance(len) BY <1>3 DEF SkipLength
    <2>2. len \in Int BY LengthFits DEF Inv, TypeOK, len
    <2>3. QED BY <1>1, <2>1, <2>2, AdvanceInv
<1>4. QED BY <1>2, <1>3

\* A group opens or closes, or the next field of one is skipped: the index stays.
LEMMA SkipGroupInv == Inv /\ (SkipGroup \/ SkipOn) => Inv'
<1> SUFFICES ASSUME Inv, SkipGroup \/ SkipOn PROVE Inv' OBVIOUS
<1>1. /\ UNCHANGED <<input, call, callers, acc, weight>>
      /\ pc \in SkipPlaces /\ pc' \in {"skipTest", "skipLoop"}
      /\ pc' = "skipLoop" => call.iNdEx >= 0
    BY DEF SkipGroup, SkipOn, SkipPlaces
<1>2. depth' \in Nat BY DEF Inv, TypeOK, SkipGroup, SkipOn
<1>3. Stack' BY <1>1, SameFrames
<1>4. Frames' BY <1>1 DEF Inv, Frames, FieldPlaces
<1>5. QED BY <1>1, <1>2, <1>3, <1>4, Rebuild DEF Inv, TypeOK, Tests

\* The caller goes on behind what was skipped, inside its own slice.
LEMMA SkipReturnsInv == Inv /\ SkipReturns => Inv'
<1> SUFFICES ASSUME Inv, SkipReturns PROVE Inv' OBVIOUS
<1>1. /\ UNCHANGED <<input, acc, weight, depth>> /\ pc = "skipTest" /\ pc' = "loop"
      /\ call' = [Caller EXCEPT !.iNdEx = skipTo] /\ callers' = Pop(callers)
      /\ skipTo >= 0 /\ skipTo <= Caller.l
    BY DEF SkipReturns
<1>2. callers # <<>> /\ callers \in Seq(Call) /\ call \in Call
    BY <1>1 DEF Inv, Frames, SkipPlaces, TypeOK
<1>3. Caller \in Call BY <1>2, PopType DEF Caller
<1>4. skipTo \in Int
    <2>1. Caller.iNdEx \in Int /\ call.iNdEx \in Int BY <1>2, <1>3 DEF Call
    <2>2. QED BY <2>1, WordAssumption DEF skipTo, Int64
<1>5. skipTo \in 0..Caller.l BY <1>1, <1>3, <1>4 DEF Call
<1>6. /\ callers' \in Seq(Call) /\ call' \in Call /\ Stack'
      /\ call'.iNdEx = skipTo /\ call'.l = Caller.l
    BY <1>1, <1>2, <1>5, PopFrames
<1>7. Frames' BY <1>1 DEF Frames, SkipPlaces, FieldPlaces
<1>8. QED BY <1>1, <1>5, <1>6, <1>7, Rebuild DEF Inv, TypeOK, Tests

-----------------------------------------------------------------------------
\* Every step of the decoder preserves the invariant.
LEMMA NextInv == Inv /\ [Next]_vars => Inv'
<1> SUFFICES ASSUME Inv, [Next]_vars PROVE Inv' OBVIOUS
<1>1. CASE UNCHANGED vars
    <2>1. Stack' BY <1>1, SameFrames DEF vars
    <2>2. Frames' BY <1>1 DEF Inv, Frames, vars
    <2>3. QED BY <1>1, <2>1, <2>2, Rebuild DEF Inv, TypeOK, InBounds, vars
<1>2. CASE Next
    BY <1>2, TurnInv, BeginInv, FieldInv, UnknownInv, TakeValueInv, TakeBytesInv, DescendInv,
       AscendInv, FinishInv, SkipBytesInv, SkipGroupInv, SkipReturnsInv
    DEF Next
<1>3. QED BY <1>1, <1>2

\* The invariant holds in every state of every run of Unmarshal.
LEMMA InvAlways == Spec => []Inv
<1>1. QED BY InitInv, NextInv, PTL DEF Spec

\* The decoder's variables keep their types: no varint outgrows 64 bits.
THEOREM DecoderTypeCorrect == Spec => []TypeOK
<1>1. Inv => TypeOK BY DEF Inv
<1>2. QED BY <1>1, InvAlways, PTL

\* No message, whatever its bytes and its nesting, makes Unmarshal or skipGenerated
\* index or slice outside the bytes it was given, though lengths and their sums overflow.
THEOREM InBoundsAlways == Spec => []InBounds
<1>1. Inv => InBounds BY DEF Inv
<1>2. QED BY <1>1, InvAlways, PTL

-----------------------------------------------------------------------------
(* The pieces an input is made of.                                         *)

Pieced(t) == PieceSet(t, Externals)

LEMMA PieceOfMessage ==
    ASSUME NEW t \in Messages, NEW p \in Pieced(t)
    PROVE  /\ p \in PieceSet(t, Texts)
           /\ FieldOf(p.tag) \in DOMAIN Fields[t]
           /\ p.tag \in 0..127 /\ p.tag < Word /\ 2 * FieldOf(p.tag) < Word32
           /\ KindOf(t, p.tag).kind \in Kinds \ {"gap"}
           /\ p.tag % 8 = WireType(KindOf(t, p.tag).kind)
           /\ p.item \in ItemValues(ValuesWith(Externals), Externals, KindOf(t, p.tag))
           /\ p.item \in ItemValues(Values, Texts, KindOf(t, p.tag))
           /\ KindOf(t, p.tag).kind \in MessageKinds => KindOf(t, p.tag).type \in Messages
<1>1. PICK j \in DOMAIN Tags[t] :
        p \in [tag : {Tags[t][j]}, item : ItemValues(ValuesWith(Externals), Externals, KindOf(t, Tags[t][j]))]
    BY DEF PieceSet, Pieced
<1>2. p.tag = Tags[t][j] /\ p = [tag |-> p.tag, item |-> p.item] BY <1>1
<1>3. /\ FieldOf(p.tag) \in DOMAIN Fields[t] /\ p.tag \in 0..127
      /\ KindOf(t, p.tag).kind \in Kinds \ {"gap"}
      /\ p.tag % 8 = WireType(KindOf(t, p.tag).kind)
      /\ p.item \in ItemValues(ValuesWith(Externals), Externals, KindOf(t, p.tag))
    BY PieceKind DEF Pieced
<1> DEFINE k == KindOf(t, p.tag)
<1>4. k.kind \in MessageKinds => k.type \in Messages BY <1>3, SubRank DEF KindOf
<1>5. k.kind \in MessageKinds => ValuesWith(Externals)[k.type] \subseteq Values[k.type]
    BY <1>4, ValuesGrow, WidthAssumption DEF Values
<1>6. p.tag < Word /\ 2 * FieldOf(p.tag) < Word32 BY <1>2, WidthAssumption
<1>7. p.item \in ItemValues(Values, Texts, k)
    <2>1. k.kind \in Kinds \ {"gap"} /\ p.item \in ItemValues(ValuesWith(Externals), Externals, k) BY <1>3
    <2>2. Externals \subseteq Texts BY WidthAssumption
    <2> HIDE DEF k
    <2>3. CASE k.kind \in MessageKinds BY <1>5, <2>1, <2>3 DEF MessageKinds, ItemValues
    <2>4. CASE k.kind \in {"meta", "time"} BY <2>1, <2>2, <2>4 DEF ItemValues
    <2>5. CASE k.kind \in {"text", "bool", "int32", "optInt32", "bytes"} BY <2>1, <2>5 DEF ItemValues
    <2>6. QED BY <2>1, <2>3, <2>4, <2>5 DEF Kinds, MessageKinds
<1>8. p \in PieceSet(t, Texts)
    <2>1. p \in [tag : {Tags[t][j]}, item : ItemValues(Values, Texts, KindOf(t, Tags[t][j]))]
        BY <1>2, <1>7
    <2>2. QED BY <2>1 DEF PieceSet, Values
<1>9. QED BY <1>3, <1>4, <1>6, <1>7, <1>8

LEMMA PiecesGrow ==
    ASSUME NEW t \in Messages, NEW ps \in Seq(Pieced(t))
    PROVE  ps \in Seq(PieceSet(t, Texts))
<1> DEFINE A == Pieced(t)
           B == PieceSet(t, Texts)
<1>1. A \subseteq B BY PieceOfMessage
<1> HIDE DEF A, B
<1>2. ps \in Seq(A) BY DEF A
<1>3. ps \in Seq(B) BY <1>1, <1>2
<1>4. QED BY <1>3 DEF B

\* A sequence that is not empty has a first element.
LEMMA FirstAndRest ==
    ASSUME NEW S, NEW s \in Seq(S), s # <<>>
    PROVE  \E p \in S, r \in Seq(S) : s = <<p>> \o r
<1> DEFINE r == Tail(s)
<1>1. Len(s) \in Nat \ {0} /\ s[1] \in S BY EmptySeq
<1>2. r \in Seq(S) /\ Len(r) = Len(s) - 1 /\ \A i \in 1..(Len(s) - 1) : r[i] = s[i + 1]
    BY HeadTailProperties
<1> DEFINE z == <<s[1]>> \o r
<1>3. z \in Seq(S) /\ Len(z) = Len(s)
    <2>1. <<s[1]>> \in Seq(S) /\ Len(<<s[1]>>) = 1 BY <1>1
    <2> HIDE DEF r
    <2>2. QED BY <1>1, <1>2, <2>1
<1>4. \A i \in 1..Len(s) : z[i] = s[i]
    <2> SUFFICES ASSUME NEW i \in 1..Len(s) PROVE z[i] = s[i] OBVIOUS
    <2>1. <<s[1]>> \in Seq(S) /\ Len(<<s[1]>>) = 1 BY <1>1
    <2> HIDE DEF r
    <2>2. CASE i = 1 BY <1>1, <1>2, <2>1, <2>2
    <2>3. CASE i # 1
        <3>1. i - 1 \in 1..(Len(s) - 1) BY <1>1, <2>3
        <3>2. z[i] = r[i - 1] BY <1>1, <1>2, <2>1, <2>3
        <3>3. QED BY <1>2, <3>1, <3>2
    <2>4. QED BY <2>2, <2>3
<1> HIDE DEF z
<1>5. z = s BY <1>3, <1>4, SeqEqual
<1>6. QED BY <1>1, <1>2, <1>5 DEF z

-----------------------------------------------------------------------------
(* Numbers.                                                                *)

LEMMA WordWidth == Word \in Nat /\ Word32 \in Nat \ {0} /\ Word32 <= Word /\ Word % Word32 = 0
<1>1. Word \in Nat /\ 16 <= Word /\ Word32 \in Nat \ {0} /\ Word % Word32 = 0
    BY WordAssumption, WidthAssumption
<1>2. \A a \in Nat, b \in Nat \ {0} : a < b => a % b = a OBVIOUS
<1>3. QED BY <1>1, <1>2

\* An int32 is read back from the word it was written as.
LEMMA Int32Back == \A x \in Int32Values : Uint64(x) \in 0..(Word - 1) /\ ToInt32(Uint64(x)) = x
<1> SUFFICES ASSUME NEW x \in Int32Values PROVE Uint64(x) \in 0..(Word - 1) /\ ToInt32(Uint64(x)) = x
    OBVIOUS
<1>1. /\ Word \in Nat /\ Word32 \in Nat \ {0} /\ Word32 <= Word /\ Word % Word32 = 0 /\ Word32 % 2 = 0
    BY WordWidth, WordAssumption
<1> DEFINE h == Word32 \div 2
           q == Word \div Word32
<1>2. h \in Nat /\ Word32 = 2 * h BY <1>1
<1>3. x \in Int /\ -h <= x /\ x <= h - 1 BY <1>2 DEF Int32Values
<1>4. q \in Nat /\ Word = Word32 * q
    <2>1. \A a \in Nat, b \in Nat \ {0} : a \div b \in Nat /\ a = b * (a \div b) + (a % b) OBVIOUS
    <2>2. q \in Nat /\ Word = Word32 * q + (Word % Word32) BY <1>1, <2>1
    <2> HIDE DEF q
    <2>3. Word32 * q \in Nat BY <1>1, <2>2
    <2>4. QED BY <1>1, <2>2, <2>3
<1> HIDE DEF h, q
<1>5. CASE x >= 0
    <2>1. Uint64(x) = x /\ x \in Nat /\ x < Word32 BY <1>1, <1>2, <1>3, <1>5 DEF Uint64
    <2>2. x % Word32 = x BY <1>1, <2>1
    <2>3. QED BY <1>1, <1>2, <1>3, <2>1, <2>2 DEF ToInt32
<1>6. CASE x < 0
    <2>1. Uint64(x) = x + Word /\ x + Word \in Nat /\ x + Word < Word BY <1>1, <1>2, <1>3, <1>6 DEF Uint64
    <2>2. q # 0 BY <1>1, <1>4
    <2>3. x + Word = Word32 * (q - 1) + (x + Word32)
        <3>1. Word32 * (q - 1) = Word32 * q - Word32 BY <1>1, <1>4
        <3>2. QED BY <1>1, <1>3, <1>4, <3>1
    <2>4. x + Word32 \in 0..(Word32 - 1) BY <1>1, <1>2, <1>3, <1>6
    <2>5. (x + Word) % Word32 = x + Word32
        <3>1. \A a, c \in Nat : \A b \in Nat \ {0} : \A r \in 0..(b - 1) : a = b * c + r => a % b = r
            <4> SUFFICES ASSUME NEW a \in Nat, NEW c \in Nat, NEW b \in Nat \ {0}, NEW r \in 0..(b - 1),
                                a = b * c + r
                         PROVE  a % b = r
                OBVIOUS
            <4> DEFINE d == a \div b
            <4>1. d \in Nat /\ a = b * d + (a % b) /\ (a % b) \in 0..(b - 1) OBVIOUS
            <4> HIDE DEF d
            <4>2. b * (c - d) = (a % b) - r
                <5>1. b * (c - d) = b * c - b * d BY <4>1
                <5>2. b * c \in Int /\ b * d \in Int BY <4>1
                <5>3. QED BY <4>1, <5>1, <5>2
            <4>3. c - d < 1
                <5>1. SUFFICES ASSUME c - d >= 1 PROVE FALSE BY <4>1
                <5>2. b * (c - d) >= b BY <4>1, <5>1
                <5>3. QED BY <4>1, <4>2, <5>2
            <4>4. c - d > -1
                <5>1. SUFFICES ASSUME d - c >= 1 PROVE FALSE BY <4>1
                <5>2. b * (d - c) >= b BY <4>1, <5>1
                <5>3. b * (d - c) = -(b * (c - d)) BY <4>1
                <5>4. QED BY <4>1, <4>2, <5>2, <5>3
            <4>5. c = d BY <4>1, <4>3, <4>4
            <4>6. QED BY <4>1, <4>5
        <3> DEFINE c == q - 1
                   a == x + Word
                   r == x + Word32
        <3>2. c \in Nat /\ a \in Nat /\ r \in 0..(Word32 - 1) /\ a = Word32 * c + r
            BY <1>4, <2>1, <2>2, <2>3, <2>4
        <3> HIDE DEF c, a, r
        <3>3. a % Word32 = r BY <1>1, <3>1, <3>2
        <3>4. QED BY <3>3 DEF a, r
    <2>6. 2 * (x + Word32) >= Word32 BY <1>1, <1>2, <1>3
    <2>7. ToInt32(x + Word) = x BY <1>1, <1>3, <2>5, <2>6 DEF ToInt32
    <2>8. QED BY <1>1, <1>3, <2>1, <2>7
<1>7. QED BY <1>3, <1>5, <1>6


LEMMA VarintType == \A v \in Nat : encodeVarint[v] \in Seq(0..255) /\ encodeVarint[v] # <<>>
<1> SUFFICES ASSUME NEW v \in Nat PROVE encodeVarint[v] \in Seq(0..255) /\ encodeVarint[v] # <<>>
    OBVIOUS
<1>1. encodeVarint[v] \in Seq(0..255) BY EncodeVarintUnfolds DEF Texts
<1>2. encodeVarint[v] = IF v < 128 THEN <<v>> ELSE <<128 + (v % 128)>> \o encodeVarint[v \div 128]
    BY EncodeVarintUnfolds
<1>3. v \div 128 \in Nat OBVIOUS
<1>4. encodeVarint[v \div 128] \in Seq(0..255) BY <1>3, EncodeVarintUnfolds DEF Texts
<1>5. QED BY <1>1, <1>2, <1>4

-----------------------------------------------------------------------------
(* What may stand for a message: its pieces, with fields that are not      *)
(* known before, between and behind them.  W[t][v] are the byte strings    *)
(* that a message v of type t in another one is written as.                *)

\* What the number of a piece counts.
Bodies(W, k, x) ==
    IF IsVarint(k) THEN {<<>>} ELSE IF k.kind \in MessageKinds THEN W[k.type][x] ELSE {x}

Number(t, p, b) ==
    LET k == KindOf(t, p.tag) IN
    IF k.kind = "bool" THEN IF p.item THEN 1 ELSE 0
    ELSE IF IsVarint(k) THEN Uint64(p.item)
    ELSE Len(b)

\* What follows the tag of the piece p, whose body is b, and then r.
AfterTag(t, p, b, r) == encodeVarint[Number(t, p, b)] \o (b \o r)

\* What follows the tag of a token.
AfterToken(e, r) == (IF e.tag % 8 \in {0, 2} THEN encodeVarint[e.number] ELSE <<>>) \o (e.content \o r)

\* text is still to come, where so many groups are open, and the pieces are in it.
Place(t) == [open : Nat, pieces : Seq(Pieced(t)), text : Texts]

At(n, ps, r) == [open |-> n, pieces |-> ps, text |-> r]

\* With a text S holds those that begin with one more piece or token.
Grown(W, t, S) ==
    /\ At(0, <<>>, <<>>) \in S
    /\ \A p \in Pieced(t), b \in Texts, ps \in Seq(Pieced(t)), r \in Texts :
        b \in Bodies(W, KindOf(t, p.tag), p.item) /\ At(0, ps, r) \in S
            => At(0, <<p>> \o ps, encodeVarint[p.tag] \o AfterTag(t, p, b, r)) \in S
    /\ \A n \in Nat, e \in Token, ps \in Seq(Pieced(t)), r \in Texts :
        Follows(e, n) /\ (n = 0 => Unfamiliar(t, e.tag)) /\ At(e.level, ps, r) \in S
            => At(n, ps, encodeVarint[e.tag] \o AfterToken(e, r)) \in S

\* The least such S: r begins where n groups are open, and holds the pieces ps.
Rendered(W, t, n, ps, r) == \A S \in SUBSET Place(t) : Grown(W, t, S) => At(n, ps, r) \in S

LEMMA NumberType ==
    ASSUME NEW t \in Messages, NEW p \in Pieced(t), NEW b \in Texts
    PROVE  Number(t, p, b) \in Nat /\ (IsVarint(KindOf(t, p.tag)) => Number(t, p, b) < Word)
<1> DEFINE k == KindOf(t, p.tag)
           x == p.item
<1>1. k.kind \in Kinds \ {"gap"} /\ x \in ItemValues(Values, Texts, k) BY PieceOfMessage
<1>2. Number(t, p, b) = IF k.kind = "bool" THEN IF x THEN 1 ELSE 0
                        ELSE IF IsVarint(k) THEN Uint64(x) ELSE Len(b)
    BY DEF Number
<1>3. Len(b) \in Nat BY DEF Texts
<1> SUFFICES Number(t, p, b) \in Nat /\ (IsVarint(k) => Number(t, p, b) < Word)
    OBVIOUS
<1> HIDE DEF k, x
<1>4. CASE k.kind = "bool" BY <1>2, <1>4, WordAssumption
<1>5. CASE k.kind \in {"int32", "optInt32"}
    <2>1. x \in Int32Values BY <1>1, <1>5 DEF ItemValues
    <2>2. Uint64(x) \in Nat /\ Uint64(x) < Word BY <2>1, Int32Back, WordAssumption
    <2>3. IsVarint(k) /\ k.kind # "bool" BY <1>5 DEF IsVarint
    <2>4. QED BY <1>2, <2>2, <2>3
<1>6. CASE ~IsVarint(k) BY <1>2, <1>3, <1>6 DEF IsVarint
<1>7. QED BY <1>4, <1>5, <1>6 DEF IsVarint

\* What follows a tag is bytes.
LEMMA AfterTagType ==
    ASSUME NEW t \in Messages, NEW p \in Pieced(t), NEW b \in Texts, NEW r \in Texts
    PROVE  /\ encodeVarint[p.tag] \in Texts /\ encodeVarint[p.tag] # <<>>
           /\ encodeVarint[Number(t, p, b)] \in Texts
           /\ AfterTag(t, p, b, r) \in Texts /\ b \o r \in Texts
           /\ encodeVarint[p.tag] \o AfterTag(t, p, b, r) \in Texts
<1> DEFINE e == encodeVarint[p.tag]
           n == encodeVarint[Number(t, p, b)]
<1>1. e \in Seq(0..255) /\ e # <<>>
    <2>1. p.tag \in 0..127 BY PieceOfMessage
    <2>2. \A i \in 0..127 : i \in Nat OBVIOUS
    <2>3. QED BY <2>1, <2>2, VarintType
<1>2. n \in Seq(0..255) BY NumberType, VarintType
<1>3. b \in Seq(0..255) /\ r \in Seq(0..255) BY DEF Texts
<1>4. AfterTag(t, p, b, r) = n \o (b \o r) BY DEF AfterTag
<1> HIDE DEF e, n
<1>5. b \o r \in Seq(0..255) /\ n \o (b \o r) \in Seq(0..255) /\ e \o (n \o (b \o r)) \in Seq(0..255)
    BY <1>1, <1>2, <1>3
<1>6. QED BY <1>1, <1>2, <1>4, <1>5 DEF Texts, e, n

\* What comes behind it is set off.
LEMMA AfterTagConcat ==
    ASSUME NEW t \in Messages, NEW p \in Pieced(t), NEW b \in Texts, NEW r \in Texts, NEW s \in Texts
    PROVE  (encodeVarint[p.tag] \o AfterTag(t, p, b, r)) \o s = encodeVarint[p.tag] \o AfterTag(t, p, b, r \o s)
<1> DEFINE e == encodeVarint[p.tag]
           n == encodeVarint[Number(t, p, b)]
<1>1. e \in Seq(0..255) /\ n \in Seq(0..255) BY AfterTagType, ZenonT(60) DEF Texts
<1>2. b \in Seq(0..255) /\ r \in Seq(0..255) /\ s \in Seq(0..255) BY DEF Texts
<1>3. AfterTag(t, p, b, r) = n \o (b \o r) /\ AfterTag(t, p, b, r \o s) = n \o (b \o (r \o s))
    BY DEF AfterTag
<1> HIDE DEF e, n
<1>4. (e \o (n \o (b \o r))) \o s = e \o (n \o (b \o (r \o s)))
    <2>1. PICK a \in Seq(0..255) : a = b \o r
        <3>1. b \o r \in Seq(0..255) BY <1>2
        <3>2. QED BY <3>1
    <2>2. PICK c \in Seq(0..255) : c = n \o a
        <3>1. n \o a \in Seq(0..255) BY <1>1
        <3>2. QED BY <3>1
    <2>3. (e \o c) \o s = e \o (c \o s) BY <1>1, <1>2, ConcatAssociative, SMTT(60)
    <2>4. (n \o a) \o s = n \o (a \o s) BY <1>1, <1>2, ConcatAssociative, SMTT(60)
    <2>5. (b \o r) \o s = b \o (r \o s) BY <1>2, ConcatAssociative, SMTT(60)
    <2>6. QED BY <2>1, <2>2, <2>3, <2>4, <2>5
<1>5. QED BY <1>3, <1>4 DEF e, n

LEMMA TokenFields ==
    ASSUME NEW e \in Token
    PROVE  /\ e.tag \in 0..(Word - 1) /\ e.tag \in Nat /\ e.number \in 0..(Word - 1) /\ e.number \in Nat
           /\ e.content \in Seq(0..255) /\ e.level \in Nat
BY WordAssumption DEF Token, Texts

LEMMA AfterTokenType ==
    ASSUME NEW e \in Token, NEW r \in Texts
    PROVE  /\ encodeVarint[e.tag] \in Texts /\ encodeVarint[e.tag] # <<>>
           /\ encodeVarint[e.number] \in Texts
           /\ AfterToken(e, r) \in Texts /\ e.content \o r \in Texts
           /\ encodeVarint[e.tag] \o AfterToken(e, r) \in Texts
           /\ \A s \in Texts : (encodeVarint[e.tag] \o AfterToken(e, r)) \o s
                                  = encodeVarint[e.tag] \o AfterToken(e, r \o s)
           /\ TokenBytes(e) \in Texts
           /\ TokenBytes(e) \o r = encodeVarint[e.tag] \o AfterToken(e, r)
<1> DEFINE g == encodeVarint[e.tag]
           m == encodeVarint[e.number]
           n == IF e.tag % 8 \in {0, 2} THEN m ELSE <<>>
           b == e.content
<1>1. g \in Seq(0..255) /\ g # <<>> BY TokenFields, VarintType
<1>2. m \in Seq(0..255) BY TokenFields, VarintType
<1>3. n \in Seq(0..255)
    <2> HIDE DEF m
    <2>1. <<>> \in Seq(0..255) OBVIOUS
    <2>2. QED BY <1>2, <2>1
<1>4. b \in Seq(0..255) /\ r \in Seq(0..255) BY TokenFields DEF Texts
<1>5. AfterToken(e, r) = n \o (b \o r) BY DEF AfterToken
<1>6. ASSUME NEW s \in Seq(0..255)
      PROVE  (g \o (n \o (b \o r))) \o s = g \o AfterToken(e, r \o s)
    <2>1. AfterToken(e, r \o s) = n \o (b \o (r \o s)) BY DEF AfterToken
    <2> HIDE DEF g, n, b
    <2>2. b \o r \in Seq(0..255) /\ n \o (b \o r) \in Seq(0..255) BY <1>3, <1>4
    <2>3. (g \o (n \o (b \o r))) \o s = g \o ((n \o (b \o r)) \o s)
        <3>1. PICK a \in Seq(0..255) : a = n \o (b \o r) BY <2>2
        <3>2. (g \o a) \o s = g \o (a \o s) BY <1>1, ConcatAssociative, SMTT(30)
        <3>3. QED BY <3>1, <3>2
    <2>4. (n \o (b \o r)) \o s = n \o ((b \o r) \o s) BY <1>3, <2>2, ConcatAssociative, SMTT(30)
    <2>5. (b \o r) \o s = b \o (r \o s) BY <1>4, ConcatAssociative, SMTT(30)
    <2>6. QED BY <2>1, <2>3, <2>4, <2>5
<1>7. TokenBytes(e) = (g \o n) \o b BY DEF TokenBytes
<1>8. TokenBytes(e) \in Seq(0..255) /\ TokenBytes(e) \o r = g \o (n \o (b \o r))
    <2> HIDE DEF g, n, b
    <2>1. g \o n \in Seq(0..255) /\ b \o r \in Seq(0..255) BY <1>1, <1>3, <1>4
    <2>2. ((g \o n) \o b) \o r = (g \o n) \o (b \o r) BY <1>4, <2>1, ConcatAssociative, SMTT(30)
    <2>3. (g \o n) \o (b \o r) = g \o (n \o (b \o r)) BY <1>1, <1>3, <2>1, ConcatAssociative, SMTT(30)
    <2>4. QED BY <1>4, <1>7, <2>1, <2>2, <2>3
<1> HIDE DEF g, m, n, b
<1>9. b \o r \in Seq(0..255) /\ n \o (b \o r) \in Seq(0..255) /\ g \o (n \o (b \o r)) \in Seq(0..255)
    BY <1>1, <1>3, <1>4
<1>10. QED BY <1>1, <1>2, <1>5, <1>6, <1>8, <1>9 DEF Texts, g, m, b

-----------------------------------------------------------------------------
\* What may stand for a message is made piece by piece and token by token.
LEMMA RenderedNothing ==
    ASSUME NEW W, NEW t
    PROVE  Rendered(W, t, 0, <<>>, <<>>)
BY DEF Rendered, Grown

LEMMA RenderedPiece ==
    ASSUME NEW W, NEW t, NEW p \in Pieced(t), NEW b \in Texts, NEW ps \in Seq(Pieced(t)), NEW r \in Texts,
           b \in Bodies(W, KindOf(t, p.tag), p.item), Rendered(W, t, 0, ps, r)
    PROVE  Rendered(W, t, 0, <<p>> \o ps, encodeVarint[p.tag] \o AfterTag(t, p, b, r))
BY DEF Rendered, Grown

LEMMA RenderedToken ==
    ASSUME NEW W, NEW t, NEW n \in Nat, NEW e \in Token, NEW ps \in Seq(Pieced(t)), NEW r \in Texts,
           Follows(e, n), n = 0 => Unfamiliar(t, e.tag), Rendered(W, t, e.level, ps, r)
    PROVE  Rendered(W, t, n, ps, encodeVarint[e.tag] \o AfterToken(e, r))
BY DEF Rendered, Grown

\* All of it is.
LEMMA RenderedType ==
    ASSUME NEW W, NEW t \in Messages, NEW n, NEW ps, NEW r, Rendered(W, t, n, ps, r)
    PROVE  n \in Nat /\ ps \in Seq(Pieced(t)) /\ r \in Texts
<1>1. Grown(W, t, Place(t))
    <2>1. At(0, <<>>, <<>>) \in Place(t) BY DEF At, Place, Texts
    <2>2. ASSUME NEW p \in Pieced(t), NEW b \in Texts, NEW ps_1 \in Seq(Pieced(t)), NEW r_1 \in Texts
          PROVE  At(0, <<p>> \o ps_1, encodeVarint[p.tag] \o AfterTag(t, p, b, r_1)) \in Place(t)
        <3>1. encodeVarint[p.tag] \o AfterTag(t, p, b, r_1) \in Texts BY AfterTagType
        <3>2. <<p>> \o ps_1 \in Seq(Pieced(t)) OBVIOUS
        <3>3. QED BY <3>1, <3>2 DEF At, Place
    <2>3. ASSUME NEW m \in Nat, NEW e \in Token, NEW ps_1 \in Seq(Pieced(t)), NEW r_1 \in Texts
          PROVE  At(m, ps_1, encodeVarint[e.tag] \o AfterToken(e, r_1)) \in Place(t)
        <3>1. encodeVarint[e.tag] \o AfterToken(e, r_1) \in Texts BY AfterTokenType
        <3>2. QED BY <3>1 DEF At, Place
    <2>4. QED BY <2>1, <2>2, <2>3 DEF Grown
<1>2. At(n, ps, r) \in Place(t) BY <1>1 DEF Rendered
<1>3. QED BY <1>2 DEF At, Place

\* How a text that may stand for a message can begin.
Begins(W, t, n, ps, r) ==
    \/ n = 0 /\ ps = <<>> /\ r = <<>>
    \/ /\ n = 0
       /\ \E p \in Pieced(t), b \in Texts, qs \in Seq(Pieced(t)), s \in Texts :
            /\ b \in Bodies(W, KindOf(t, p.tag), p.item)
            /\ Rendered(W, t, 0, qs, s)
            /\ ps = <<p>> \o qs
            /\ r = encodeVarint[p.tag] \o AfterTag(t, p, b, s)
    \/ \E e \in Token, s \in Texts :
            /\ Follows(e, n)
            /\ n = 0 => Unfamiliar(t, e.tag)
            /\ Rendered(W, t, e.level, ps, s)
            /\ r = encodeVarint[e.tag] \o AfterToken(e, s)

LEMMA RenderedBegins ==
    ASSUME NEW W, NEW t \in Messages, NEW n, NEW ps, NEW r, Rendered(W, t, n, ps, r)
    PROVE  Begins(W, t, n, ps, r)
<1> DEFINE S == {x \in Place(t) : /\ Rendered(W, t, x.open, x.pieces, x.text)
                                  /\ Begins(W, t, x.open, x.pieces, x.text)}
<1>1. \A m, qs, s : At(m, qs, s) \in S <=> /\ At(m, qs, s) \in Place(t)
                                           /\ Rendered(W, t, m, qs, s)
                                           /\ Begins(W, t, m, qs, s)
    BY DEF At
<1>2. \A m, qs, s : Rendered(W, t, m, qs, s) => At(m, qs, s) \in Place(t)
    BY RenderedType DEF At, Place
<1> HIDE DEF S
<1>3. At(0, <<>>, <<>>) \in S BY <1>1, <1>2, RenderedNothing DEF Begins
<1>4. ASSUME NEW p \in Pieced(t), NEW b \in Texts, NEW qs \in Seq(Pieced(t)), NEW s \in Texts,
             b \in Bodies(W, KindOf(t, p.tag), p.item), At(0, qs, s) \in S
      PROVE  At(0, <<p>> \o qs, encodeVarint[p.tag] \o AfterTag(t, p, b, s)) \in S
    <2>1. Rendered(W, t, 0, qs, s) BY <1>1, <1>4
    <2>2. Rendered(W, t, 0, <<p>> \o qs, encodeVarint[p.tag] \o AfterTag(t, p, b, s))
        BY <1>4, <2>1, RenderedPiece
    <2>3. Begins(W, t, 0, <<p>> \o qs, encodeVarint[p.tag] \o AfterTag(t, p, b, s))
        BY <1>4, <2>1 DEF Begins
    <2>4. QED BY <1>1, <1>2, <2>2, <2>3
<1>5. ASSUME NEW m \in Nat, NEW e \in Token, NEW qs \in Seq(Pieced(t)), NEW s \in Texts,
             Follows(e, m), m = 0 => Unfamiliar(t, e.tag), At(e.level, qs, s) \in S
      PROVE  At(m, qs, encodeVarint[e.tag] \o AfterToken(e, s)) \in S
    <2>1. Rendered(W, t, e.level, qs, s) BY <1>1, <1>5
    <2>2. Rendered(W, t, m, qs, encodeVarint[e.tag] \o AfterToken(e, s)) BY <1>5, <2>1, RenderedToken
    <2>3. Begins(W, t, m, qs, encodeVarint[e.tag] \o AfterToken(e, s)) BY <1>5, <2>1 DEF Begins
    <2>4. QED BY <1>1, <1>2, <2>2, <2>3
<1>6. Grown(W, t, S) BY <1>3, <1>4, <1>5 DEF Grown
<1>7. S \in SUBSET Place(t) BY DEF S
<1>8. At(n, ps, r) \in S BY <1>6, <1>7 DEF Rendered
<1>9. QED BY <1>1, <1>8

\* One after the other.
LEMMA RenderedConcat ==
    ASSUME NEW W, NEW t \in Messages, NEW n, NEW ps, NEW r, NEW qs, NEW s,
           Rendered(W, t, n, ps, r), Rendered(W, t, 0, qs, s)
    PROVE  Rendered(W, t, n, ps \o qs, r \o s)
<1> DEFINE S == {x \in Place(t) : Rendered(W, t, x.open, x.pieces \o qs, x.text \o s)}
<1>0. qs \in Seq(Pieced(t)) /\ s \in Texts BY RenderedType
<1>1. \A m, ps_1, r_1 : At(m, ps_1, r_1) \in S
                           <=> /\ At(m, ps_1, r_1) \in Place(t)
                               /\ Rendered(W, t, m, ps_1 \o qs, r_1 \o s)
    BY DEF At
<1>2. \A m \in Nat, ps_1 \in Seq(Pieced(t)), r_1 \in Texts : At(m, ps_1, r_1) \in Place(t)
    BY DEF At, Place
<1> HIDE DEF S
<1>3. At(0, <<>>, <<>>) \in S
    <2>1. <<>> \o qs = qs /\ <<>> \o s = s BY <1>0, ConcatEmptySeq DEF Texts
    <2>2. <<>> \in Texts /\ <<>> \in Seq(Pieced(t)) BY DEF Texts
    <2>3. QED BY <1>1, <1>2, <2>1, <2>2
<1>4. ASSUME NEW p \in Pieced(t), NEW b \in Texts, NEW ps_1 \in Seq(Pieced(t)), NEW r_1 \in Texts,
             b \in Bodies(W, KindOf(t, p.tag), p.item), At(0, ps_1, r_1) \in S
      PROVE  At(0, <<p>> \o ps_1, encodeVarint[p.tag] \o AfterTag(t, p, b, r_1)) \in S
    <2>1. Rendered(W, t, 0, ps_1 \o qs, r_1 \o s) BY <1>1, <1>4
    <2>2. ps_1 \o qs \in Seq(Pieced(t)) /\ r_1 \o s \in Texts BY <2>1, RenderedType
    <2>3. Rendered(W, t, 0, <<p>> \o (ps_1 \o qs), encodeVarint[p.tag] \o AfterTag(t, p, b, r_1 \o s))
        BY <1>4, <2>1, <2>2, RenderedPiece
    <2>4. /\ encodeVarint[p.tag] \o AfterTag(t, p, b, r_1) \in Texts
          /\ (encodeVarint[p.tag] \o AfterTag(t, p, b, r_1)) \o s
                = encodeVarint[p.tag] \o AfterTag(t, p, b, r_1 \o s)
        <3>1. p \in Pieced(t) /\ b \in Texts /\ r_1 \in Texts /\ s \in Texts BY <1>0
        <3>2. encodeVarint[p.tag] \o AfterTag(t, p, b, r_1) \in Texts
            BY <3>1, AfterTagType, ZenonT(40)
        <3>3. (encodeVarint[p.tag] \o AfterTag(t, p, b, r_1)) \o s
                = encodeVarint[p.tag] \o AfterTag(t, p, b, r_1 \o s)
            BY <3>1, AfterTagConcat, ZenonT(40)
        <3>4. QED BY <3>2, <3>3
    <2>5. (<<p>> \o ps_1) \o qs = <<p>> \o (ps_1 \o qs)
        <3>1. <<p>> \in Seq(Pieced(t)) OBVIOUS
        <3>2. QED BY <1>0, <3>1, ConcatAssociative, SMTT(30)
    <2>6. <<p>> \o ps_1 \in Seq(Pieced(t)) OBVIOUS
    <2>7. QED BY <1>0, <1>1, <1>2, <2>3, <2>4, <2>5, <2>6
<1>5. ASSUME NEW m \in Nat, NEW e \in Token, NEW ps_1 \in Seq(Pieced(t)), NEW r_1 \in Texts,
             Follows(e, m), m = 0 => Unfamiliar(t, e.tag), At(e.level, ps_1, r_1) \in S
      PROVE  At(m, ps_1, encodeVarint[e.tag] \o AfterToken(e, r_1)) \in S
    <2>1. Rendered(W, t, e.level, ps_1 \o qs, r_1 \o s) BY <1>1, <1>5
    <2>2. ps_1 \o qs \in Seq(Pieced(t)) /\ r_1 \o s \in Texts BY <2>1, RenderedType
    <2>3. Rendered(W, t, m, ps_1 \o qs, encodeVarint[e.tag] \o AfterToken(e, r_1 \o s))
        BY <1>5, <2>1, <2>2, RenderedToken
    <2>4. (encodeVarint[e.tag] \o AfterToken(e, r_1)) \o s = encodeVarint[e.tag] \o AfterToken(e, r_1 \o s)
        BY <1>0, AfterTokenType, ZenonT(60)
    <2>5. encodeVarint[e.tag] \o AfterToken(e, r_1) \in Texts BY AfterTokenType
    <2>6. QED BY <1>1, <1>2, <2>3, <2>4, <2>5
<1>6. Grown(W, t, S) BY <1>3, <1>4, <1>5 DEF Grown
<1>7. S \in SUBSET Place(t) BY DEF S
<1>8. At(n, ps, r) \in S BY <1>6, <1>7 DEF Rendered
<1>9. QED BY <1>1, <1>8

\* A sequence of one sequence.
LEMMA FlattenOne ==
    ASSUME NEW P, NEW x \in Seq(P)
    PROVE  FlattenSeq(<<x>>) = x
<1>1. <<x>> = Append(<<>>, x) /\ <<>> \in Seq(Seq(P)) OBVIOUS
<1>2. FlattenSeq(Append(<<>>, x)) = FlattenSeq(<<>>) \o x BY <1>1, FlattenAppend
<1>3. <<>> \o x = x BY ConcatEmptySeq
<1>4. QED BY <1>1, <1>2, <1>3, FlattenEmpty

LEMMA TokensBytesFirst ==
    ASSUME NEW e \in Token, NEW vs \in Seq(Token)
    PROVE  /\ TokensBytes(vs) \in Texts
           /\ TokensBytes(<<>>) = <<>>
           /\ TokensBytes(<<e>> \o vs) = TokenBytes(e) \o TokensBytes(vs)
<1> DEFINE g == [u \in Token |-> TokenBytes(u)]
           B == 0..255
<1>1. ASSUME NEW us \in Seq(Token) PROVE TokensBytes(us) = FlattenSeq(Each(g, us))
    <2>1. \A i \in DOMAIN us : us[i] \in Token OBVIOUS
    <2>2. [i \in DOMAIN us |-> TokenBytes(us[i])] = Each(g, us) BY <2>1 DEF Each
    <2>3. QED BY <2>2 DEF TokensBytes
<1>2. ASSUME NEW u \in Token PROVE g[u] \in Seq(B) /\ g[u] = TokenBytes(u)
    <2>1. <<>> \in Texts BY DEF Texts
    <2>2. TokenBytes(u) \in Texts BY <2>1, AfterTokenType, ZenonT(60)
    <2>3. QED BY <2>2 DEF Texts
<1> HIDE DEF g, B
<1>3. FlattenSeq(Each(g, vs)) \in Seq(B)
      /\ FlattenSeq(Each(g, <<e>> \o vs)) = g[e] \o FlattenSeq(Each(g, vs))
    <2>1. \A u \in Token : g[u] \in Seq(B) BY <1>2
    <2>2. \E a \in Seq(Token) : a = <<e>>
        <3>1. <<e>> \in Seq(Token) OBVIOUS
        <3>2. QED BY <3>1
    <2>3. PICK a \in Seq(Token) : a = <<e>> BY <2>2
    <2>4. Each(g, a) \in Seq(Seq(B)) /\ Each(g, vs) \in Seq(Seq(B)) BY <2>1, EachType
    <2>5. FlattenSeq(Each(g, vs)) \in Seq(B) BY <2>4, FlattenType
    <2>6. Each(g, a \o vs) = Each(g, a) \o Each(g, vs) BY EachConcat, SMTT(40)
    <2>7. FlattenSeq(Each(g, a) \o Each(g, vs)) = FlattenSeq(Each(g, a)) \o FlattenSeq(Each(g, vs))
        BY <2>4, FlattenConcat, SMTT(40)
    <2>8. Each(g, a) = <<g[e]>> BY <2>3 DEF Each
    <2>9. FlattenSeq(<<g[e]>>) = g[e] BY <2>1, FlattenOne
    <2>10. QED BY <2>3, <2>5, <2>6, <2>7, <2>8, <2>9
<1>4. <<e>> \o vs \in Seq(Token) OBVIOUS
<1>5. TokensBytes(<<>>) = <<>> BY FlattenEmpty DEF TokensBytes
<1>6. QED BY <1>1, <1>2, <1>3, <1>4, <1>5 DEF Texts, B

\* The first token of a group, and what follows it.
LEMMA GroupFirst ==
    ASSUME NEW e \in Token, NEW vs \in Seq(Token), NEW n \in Nat, Group(<<e>> \o vs, n)
    PROVE  /\ Follows(e, n)
           /\ vs = <<>> => e.level = 0
           /\ vs # <<>> => Group(vs, e.level) /\ e.level # 0
<1> DEFINE us == <<e>> \o vs
           m == Len(vs)
<1>1. /\ us[1] = e /\ Len(us) = m + 1 /\ m \in Nat /\ \A i \in 1..m : us[i + 1] = vs[i]
      /\ DOMAIN vs = 1..m /\ vs \in Seq(Token) /\ (vs = <<>> <=> m = 0)
    BY EmptySeq
<1>2. DOMAIN us = 1..(m + 1) /\ Group(us, n) OBVIOUS
<1> HIDE DEF us, m
<1>3. \A i \in 1..(m + 1) : /\ Follows(us[i], IF i = 1 THEN n ELSE us[i - 1].level)
                            /\ us[i].level = 0 <=> i = m + 1
    BY <1>1, <1>2 DEF Group
<1>4. 1 \in 1..(m + 1) BY <1>1
<1>5. Follows(e, n) /\ (e.level = 0 <=> m = 0) BY <1>1, <1>3, <1>4
<1>6. ASSUME NEW i \in 1..m
      PROVE  /\ Follows(vs[i], IF i = 1 THEN e.level ELSE vs[i - 1].level)
             /\ vs[i].level = 0 <=> i = m
    <2>1. i + 1 \in 1..(m + 1) /\ i + 1 # 1 /\ (i + 1) - 1 = i BY <1>1
    <2>2. Follows(us[i + 1], us[i].level) /\ (us[i + 1].level = 0 <=> i + 1 = m + 1) BY <1>3, <2>1
    <2>3. us[i] = IF i = 1 THEN e ELSE vs[i - 1]
        <3>1. i # 1 => i - 1 \in 1..m /\ (i - 1) + 1 = i BY <1>1
        <3>2. QED BY <1>1, <3>1
    <2>4. us[i + 1] = vs[i] BY <1>1
    <2>5. i + 1 = m + 1 <=> i = m BY <1>1
    <2>6. QED BY <2>2, <2>3, <2>4, <2>5
<1>7. vs # <<>> => Group(vs, e.level) BY <1>1, <1>6 DEF Group, m
<1>8. QED BY <1>1, <1>5, <1>7

\* Fields that are not known may stand between the pieces.
LEMMA RenderedField ==
    ASSUME NEW W, NEW t \in Messages, NEW us, NewField(t, us)
    PROVE  Rendered(W, t, 0, <<>>, TokensBytes(us))
<1> DEFINE Q == {k \in Nat : \A n \in Nat : \A vs \in Seq(Token) :
                    Len(vs) = k /\ Group(vs, n) /\ (n = 0 => Unfamiliar(t, vs[1].tag))
                        => Rendered(W, t, n, <<>>, TokensBytes(vs))}
<1>1. 0 \in Q
    <2>1. \A vs \in Seq(Token) : Len(vs) = 0 => vs = <<>> BY EmptySeq
    <2>2. QED BY <2>1 DEF Group
<1>2. ASSUME NEW k \in Q PROVE k + 1 \in Q
    <2>0. k \in Nat OBVIOUS
    <2>1. SUFFICES ASSUME NEW n \in Nat, NEW vs \in Seq(Token), Len(vs) = k + 1, Group(vs, n),
                          n = 0 => Unfamiliar(t, vs[1].tag)
                   PROVE  Rendered(W, t, n, <<>>, TokensBytes(vs))
        BY <2>0
    <2>2. vs # <<>> BY <2>1 DEF Group
    <2>3. PICK e \in Token, rest \in Seq(Token) : vs = <<e>> \o rest BY <2>2, FirstAndRest
    <2>4. Len(rest) = k /\ vs[1] = e BY <2>0, <2>1, <2>3
    <2>5. /\ Follows(e, n)
          /\ rest = <<>> => e.level = 0
          /\ rest # <<>> => Group(rest, e.level) /\ e.level # 0
        BY <2>1, <2>3, GroupFirst
    <2>6. Rendered(W, t, e.level, <<>>, TokensBytes(rest))
        <3>1. CASE rest = <<>> BY <2>5, <3>1, TokensBytesFirst, RenderedNothing
        <3>2. CASE rest # <<>>
            <4>1. e.level \in Nat BY TokenFields
            <4>2. QED BY <2>4, <2>5, <3>2, <4>1
        <3>3. QED BY <3>1, <3>2
    <2>7. <<>> \in Seq(Pieced(t)) OBVIOUS
    <2>8. TokensBytes(rest) \in Texts /\ TokensBytes(vs) = TokenBytes(e) \o TokensBytes(rest)
        BY <2>3, TokensBytesFirst
    <2>9. TokensBytes(vs) = encodeVarint[e.tag] \o AfterToken(e, TokensBytes(rest)) BY <2>8, AfterTokenType
    <2>10. Rendered(W, t, n, <<>>, encodeVarint[e.tag] \o AfterToken(e, TokensBytes(rest)))
        BY <2>1, <2>4, <2>5, <2>6, <2>7, <2>8, RenderedToken
    <2>11. QED BY <2>9, <2>10
<1> HIDE DEF Q
<1>3. Q \subseteq Nat BY DEF Q
<1>4. Q = Nat BY <1>1, <1>2, <1>3, SetInduction
<1>5. us \in Seq(Token) /\ Group(us, 0) /\ Unfamiliar(t, us[1].tag) BY DEF NewField, Group
<1>6. Len(us) \in Q BY <1>4, <1>5
<1>7. QED BY <1>5, <1>6 DEF Q

\* Any number of texts in a row.
LEMMA RenderedAll ==
    ASSUME NEW W, NEW t \in Messages, NEW pp \in Seq(Seq(Pieced(t))), NEW rr \in Seq(Texts),
           Len(pp) = Len(rr), \A i \in 1..Len(pp) : Rendered(W, t, 0, pp[i], rr[i])
    PROVE  Rendered(W, t, 0, FlattenSeq(pp), FlattenSeq(rr))
<1> DEFINE n == Len(pp)
<1>1. PICK g \in [0..Len(pp) -> Seq(Pieced(t))] :
        /\ g[0] = <<>>
        /\ \A i \in 1..Len(pp) : g[i] = g[i - 1] \o pp[i]
        /\ FlattenSeq(pp) = g[Len(pp)]
    BY FlattenRuns
<1>2. PICK h \in [0..Len(rr) -> Seq(0..255)] :
        /\ h[0] = <<>>
        /\ \A i \in 1..Len(rr) : h[i] = h[i - 1] \o rr[i]
        /\ FlattenSeq(rr) = h[Len(rr)]
    <2> DEFINE B == 0..255
    <2>1. rr \in Seq(Seq(B)) BY DEF Texts
    <2> HIDE DEF B
    <2>2. \E h \in [0..Len(rr) -> Seq(B)] :
            /\ h[0] = <<>>
            /\ \A i \in 1..Len(rr) : h[i] = h[i - 1] \o rr[i]
            /\ FlattenSeq(rr) = h[Len(rr)]
        BY <2>1, FlattenRuns
    <2>3. QED BY <2>2 DEF B
<1>3. n \in Nat OBVIOUS
<1> DEFINE S == {i \in Nat : Rendered(W, t, 0, g[i], h[i])}
<1>4. 0 \in S BY <1>1, <1>2, RenderedNothing
<1>5. ASSUME NEW i \in 1..n, i - 1 \in S PROVE i \in S
    <2>1. g[i] = g[i - 1] \o pp[i] /\ h[i] = h[i - 1] \o rr[i] BY <1>1, <1>2
    <2>2. Rendered(W, t, 0, g[i - 1] \o pp[i], h[i - 1] \o rr[i])
        <3>1. Rendered(W, t, 0, g[i - 1], h[i - 1]) BY <1>5
        <3>2. Rendered(W, t, 0, pp[i], rr[i]) OBVIOUS
        <3>3. QED BY <3>1, <3>2, RenderedConcat
    <2>3. i \in Nat BY <1>3
    <2>4. QED BY <2>1, <2>2, <2>3
<1> HIDE DEF S
<1>6. S \in SUBSET Nat BY DEF S
<1>7. \A i \in 0..n : i \in S
    <2> HIDE DEF n
    <2>1. QED BY <1>3, <1>4, <1>5, <1>6, BoundedInduction
<1>8. n \in 0..n BY <1>3
<1>9. Rendered(W, t, 0, g[n], h[n]) BY <1>7, <1>8 DEF S
<1>10. QED BY <1>1, <1>2, <1>9

\* Sequences of single elements, and of empty sequences.
LEMMA FlattenSingles ==
    ASSUME NEW P, NEW s \in Seq(P)
    PROVE  FlattenSeq([i \in DOMAIN s |-> <<s[i]>>]) = s
<1> DEFINE g == [x \in P |-> <<x>>]
           T == {r \in Seq(P) : FlattenSeq(Each(g, r)) = r}
<1>1. \A x \in P : g[x] = <<x>> /\ g[x] \in Seq(P) OBVIOUS
<1>2. [i \in DOMAIN s |-> <<s[i]>>] = Each(g, s)
    <2>1. \A i \in DOMAIN s : s[i] \in P OBVIOUS
    <2>2. QED BY <2>1 DEF Each
<1> HIDE DEF g
<1>3. <<>> \in T
    <2>1. Each(g, <<>>) = <<>> BY DEF Each
    <2>2. QED BY <2>1, FlattenEmpty
<1>4. ASSUME NEW r \in T, NEW x \in P PROVE Append(r, x) \in T
    <2>1. r \in Seq(P) /\ FlattenSeq(Each(g, r)) = r OBVIOUS
    <2>2. Each(g, Append(r, x)) = Append(Each(g, r), g[x]) BY <2>1, EachAppend
    <2>3. Each(g, r) \in Seq(Seq(P)) BY <1>1, <2>1, EachType
    <2>4. FlattenSeq(Append(Each(g, r), g[x])) = FlattenSeq(Each(g, r)) \o g[x]
        BY <1>1, <2>3, FlattenAppend
    <2>5. r \o <<x>> = Append(r, x) BY <2>1, AppendIsConcat
    <2>6. Append(r, x) \in Seq(P) BY <2>1
    <2>7. QED BY <1>1, <2>1, <2>2, <2>4, <2>5, <2>6
<1> HIDE DEF T
<1>5. T \in SUBSET Seq(P) BY DEF T
<1>6. T = Seq(P) BY <1>3, <1>4, <1>5, SeqInduction
<1>7. QED BY <1>2, <1>6 DEF T

LEMMA FlattenNothings ==
    ASSUME NEW P, NEW s \in Seq(P)
    PROVE  FlattenSeq([i \in DOMAIN s |-> <<>>]) = <<>>
<1> DEFINE g == [x \in P |-> <<>>]
           T == {r \in Seq(P) : FlattenSeq(Each(g, r)) = <<>>}
<1>1. \A x \in P : g[x] = <<>> /\ g[x] \in Seq(P) OBVIOUS
<1>2. [i \in DOMAIN s |-> <<>>] = Each(g, s)
    <2>1. \A i \in DOMAIN s : s[i] \in P OBVIOUS
    <2>2. QED BY <2>1 DEF Each
<1> HIDE DEF g
<1>3. <<>> \in T
    <2>1. Each(g, <<>>) = <<>> BY DEF Each
    <2>2. QED BY <2>1, FlattenEmpty
<1>4. ASSUME NEW r \in T, NEW x \in P PROVE Append(r, x) \in T
    <2>1. r \in Seq(P) /\ FlattenSeq(Each(g, r)) = <<>> OBVIOUS
    <2>2. Each(g, Append(r, x)) = Append(Each(g, r), g[x]) BY <2>1, EachAppend
    <2>3. Each(g, r) \in Seq(Seq(P)) BY <1>1, <2>1, EachType
    <2>4. FlattenSeq(Append(Each(g, r), g[x])) = FlattenSeq(Each(g, r)) \o g[x]
        BY <1>1, <2>3, FlattenAppend
    <2>5. <<>> \o <<>> = <<>> OBVIOUS
    <2>6. Append(r, x) \in Seq(P) BY <2>1
    <2>7. QED BY <1>1, <2>1, <2>2, <2>4, <2>5, <2>6
<1> HIDE DEF T
<1>5. T \in SUBSET Seq(P) BY DEF T
<1>6. T = Seq(P) BY <1>3, <1>4, <1>5, SeqInduction
<1>7. QED BY <1>2, <1>6 DEF T

\* The pieces of a message, each rendered.
LEMMA RenderedRun ==
    ASSUME NEW W, NEW t \in Messages, NEW ps \in Seq(Pieced(t)), NEW rr, DOMAIN rr = DOMAIN ps,
           \A i \in DOMAIN ps : Rendered(W, t, 0, <<ps[i]>>, rr[i]), rr = [i \in DOMAIN ps |-> rr[i]]
    PROVE  Rendered(W, t, 0, ps, FlattenSeq(rr))
<1> DEFINE pp == [i \in DOMAIN ps |-> <<ps[i]>>]
           n == Len(ps)
<1>1. DOMAIN ps = 1..n /\ n \in Nat /\ \A i \in 1..n : ps[i] \in Pieced(t) OBVIOUS
<1>2. FlattenSeq(pp) = ps BY FlattenSingles
<1>3. pp \in Seq(Seq(Pieced(t))) /\ Len(pp) = n
    <2>1. pp \in [1..n -> Seq(Pieced(t))] BY <1>1
    <2> HIDE DEF pp
    <2>2. QED BY <1>1, <2>1, IsASeq
<1>4. rr \in Seq(Texts) /\ Len(rr) = n
    <2>1. \A i \in 1..n : rr[i] \in Texts BY <1>1, RenderedType
    <2>2. rr \in [1..n -> Texts] BY <1>1, <2>1
    <2>3. QED BY <1>1, <2>2, IsASeq
<1>5. \A i \in 1..n : Rendered(W, t, 0, pp[i], rr[i]) BY <1>1
<1> HIDE DEF pp, n
<1>6. Rendered(W, t, 0, FlattenSeq(pp), FlattenSeq(rr)) BY <1>3, <1>4, <1>5, RenderedAll
<1>7. QED BY <1>2, <1>6

\* New fields in a row.
FieldsTyped(extra) ==
    \A place \in DOMAIN extra :
        /\ extra[place] \in Seq(Seq(Token))
        /\ \A i \in DOMAIN extra[place] : NewField(place[1], extra[place][i])

LEMMA RenderedBetween ==
    ASSUME NEW W, NEW t \in Messages, NEW extra, FieldsTyped(extra), NEW at
    PROVE  Rendered(W, t, 0, <<>>, Between(extra, t, at))
<1>1. CASE <<t, at>> \notin DOMAIN extra BY <1>1, RenderedNothing DEF Between
<1>2. CASE <<t, at>> \in DOMAIN extra
    <2> DEFINE f == extra[<<t, at>>]
               n == Len(f)
               pp == [i \in DOMAIN f |-> <<>>]
               rr == [i \in DOMAIN f |-> TokensBytes(f[i])]
    <2>1. f \in Seq(Seq(Token)) /\ \A i \in DOMAIN f : NewField(t, f[i])
        <3>1. <<t, at>>[1] = t OBVIOUS
        <3>2. QED BY <1>2, <3>1 DEF FieldsTyped
    <2>2. Between(extra, t, at) = FlattenSeq(rr) BY <1>2 DEF Between
    <2> HIDE DEF f
    <2>3. DOMAIN f = 1..n /\ n \in Nat BY <2>1
    <2>4. FlattenSeq(pp) = <<>> BY <2>1, FlattenNothings
    <2>5. \A i \in 1..n : Rendered(W, t, 0, <<>>, TokensBytes(f[i])) BY <2>1, <2>3, RenderedField
    <2>6. pp \in Seq(Seq(Pieced(t))) /\ Len(pp) = n
        <3>1. pp \in [1..n -> Seq(Pieced(t))] BY <2>3
        <3> HIDE DEF pp
        <3>2. QED BY <2>3, <3>1, IsASeq
    <2>7. rr \in Seq(Texts) /\ Len(rr) = n
        <3>1. \A i \in 1..n : TokensBytes(f[i]) \in Texts BY <2>5, RenderedType
        <3>2. rr \in [1..n -> Texts] BY <2>3, <3>1
        <3> HIDE DEF rr
        <3>3. QED BY <2>3, <3>2, IsASeq
    <2>8. \A i \in 1..n : Rendered(W, t, 0, pp[i], rr[i]) BY <2>3, <2>5
    <2> HIDE DEF pp, rr, n
    <2>9. Rendered(W, t, 0, FlattenSeq(pp), FlattenSeq(rr)) BY <2>6, <2>7, <2>8, RenderedAll
    <2>10. QED BY <2>2, <2>4, <2>9
<1>3. QED BY <1>1, <1>2

\* A piece as it is written with the messages w.
LEMMA RenderedChunk ==
    ASSUME NEW W, NEW w, NEW t \in Messages, NEW p \in Pieced(t),
           KindOf(t, p.tag).kind \in MessageKinds =>
                w[KindOf(t, p.tag).type][p.item] \in Texts \cap W[KindOf(t, p.tag).type][p.item]
    PROVE  Rendered(W, t, 0, <<p>>, Chunk(w, t, p))
<1> DEFINE k == KindOf(t, p.tag)
           x == p.item
           c == Content(w, k, x)
           b == IF IsVarint(k) THEN <<>> ELSE c
           n == encodeVarint[Number(t, p, b)]
<1>1. k.kind \in Kinds \ {"gap"} /\ x \in ItemValues(Values, Texts, k) BY PieceOfMessage
<1>2. Number(t, p, b) = IF k.kind = "bool" THEN IF x THEN 1 ELSE 0
                        ELSE IF IsVarint(k) THEN Uint64(x) ELSE Len(b)
    BY DEF Number
<1>3. b \in Texts /\ b \in Bodies(W, k, x)
    <2> HIDE DEF k, x
    <2>1. CASE IsVarint(k) BY <2>1 DEF Bodies, Texts
    <2>2. CASE k.kind \in MessageKinds
        <3>1. ~IsVarint(k) /\ c = w[k.type][x] BY <2>2 DEF IsVarint, MessageKinds, Content
        <3>2. c \in Texts \cap W[k.type][x] BY <2>2, <3>1 DEF k, x
        <3>3. QED BY <2>2, <3>1, <3>2 DEF Bodies
    <2>3. CASE k.kind \in {"text", "bytes", "meta", "time"}
        <3>1. ~IsVarint(k) /\ c = x /\ k.kind \notin MessageKinds
            BY <2>3 DEF IsVarint, MessageKinds, Content
        <3>2. x \in Texts BY <1>1, <2>3 DEF ItemValues
        <3>3. QED BY <3>1, <3>2 DEF Bodies
    <2>4. QED BY <1>1, <2>1, <2>2, <2>3 DEF Kinds, MessageKinds, IsVarint
<1>4. n \in Seq(0..255)
    <2>1. Number(t, p, b) \in Nat BY <1>3, NumberType
    <2>2. QED BY <2>1, VarintType
<1>5. Payload(w, k, x) = n \o b
    <2>1. CASE k.kind = "bool"
        <3>1. Number(t, p, b) = IF x THEN 1 ELSE 0 BY <2>1 DEF Number
        <3>2. Payload(w, k, x) = <<IF x THEN 1 ELSE 0>> /\ b = <<>>
            BY <2>1 DEF Payload, Content, IsVarint
        <3>3. n = <<IF x THEN 1 ELSE 0>>
            <4>1. Number(t, p, b) \in Nat /\ Number(t, p, b) < 128 BY <3>1
            <4>2. n = <<Number(t, p, b)>> BY <4>1, EncodeVarintUnfolds
            <4>3. QED BY <3>1, <4>2
        <3>4. n \o <<>> = n BY <1>4, ConcatEmptySeq
        <3>5. QED BY <3>2, <3>3, <3>4
    <2>2. CASE k.kind \in {"int32", "optInt32"}
        <3>1. Payload(w, k, x) = encodeVarint[Uint64(x)] /\ b = <<>> /\ Number(t, p, b) = Uint64(x)
            BY <2>2 DEF Payload, Content, IsVarint, Number
        <3>2. n \o <<>> = n BY <1>4, ConcatEmptySeq
        <3>3. QED BY <3>1, <3>2
    <2>3. CASE ~IsVarint(k)
        BY <2>3 DEF Payload, IsVarint, Number
    <2>4. QED BY <2>1, <2>2, <2>3 DEF IsVarint
<1>6. encodeVarint[p.tag] = <<p.tag>>
    <2>1. p.tag \in 0..127 BY PieceOfMessage
    <2> DEFINE g == p.tag
    <2>2. g \in 0..127 BY <2>1
    <2> HIDE DEF g
    <2>3. g \in Nat /\ g < 128 BY <2>2
    <2>4. encodeVarint[g] = <<g>> BY <2>3, EncodeVarintUnfolds
    <2>5. QED BY <2>4 DEF g
<1>7. Chunk(w, t, p) = encodeVarint[p.tag] \o AfterTag(t, p, b, <<>>)
    <2>1. b \o <<>> = b
        <3> HIDE DEF b
        <3>1. QED BY <1>3, ConcatEmptySeq DEF Texts
    <2>2. AfterTag(t, p, b, <<>>) = n \o b BY <2>1 DEF AfterTag
    <2>3. Chunk(w, t, p) = <<p.tag>> \o Payload(w, k, x) BY DEF Chunk
    <2>4. QED BY <1>5, <1>6, <2>2, <2>3
<1> HIDE DEF b, k, x, c, n
<1>8. Rendered(W, t, 0, <<p>> \o <<>>, encodeVarint[p.tag] \o AfterTag(t, p, b, <<>>))
    <2>1. <<>> \in Texts /\ <<>> \in Seq(Pieced(t)) BY DEF Texts
    <2>2. b \in Bodies(W, KindOf(t, p.tag), p.item) BY <1>3 DEF k, x
    <2>3. QED BY <1>3, <2>1, <2>2, RenderedNothing, RenderedPiece
<1>9. <<p>> \o <<>> = <<p>>
    <2>1. <<p>> \in Seq(Pieced(t)) OBVIOUS
    <2>2. QED BY <2>1, ConcatEmptySeq
<1>10. QED BY <1>7, <1>8, <1>9

\* What is written for every message holds its pieces, and nothing else that is known.
Writes(W) ==
    \A t \in Messages : \A v \in ValuesWith(Externals)[t] : \A b \in W[t][v] :
        Rendered(W, t, 0, Pieces(t, v), b)

LEMMA PiecesOf ==
    ASSUME NEW t \in Messages, NEW v \in ValuesWith(Externals)[t]
    PROVE  v \in Values[t] /\ Pieces(t, v) \in Seq(Pieced(t))
<1>1. v \in Values[t] BY ValuesGrow, WidthAssumption DEF Values
<1>2. QED BY <1>1, PiecesType DEF Pieced

\* A message in another one.
LEMMA ItemOf ==
    ASSUME NEW t \in Messages, NEW p \in Pieced(t), KindOf(t, p.tag).kind \in MessageKinds
    PROVE  /\ KindOf(t, p.tag).type \in Messages
           /\ Rank(KindOf(t, p.tag).type) < Rank(t)
           /\ p.item \in ValuesWith(Externals)[KindOf(t, p.tag).type]
           /\ p.item \in Values[KindOf(t, p.tag).type]
<1> DEFINE k == KindOf(t, p.tag)
           x == p.item
<1>1. FieldOf(p.tag) \in DOMAIN Fields[t] /\ k = Fields[t][FieldOf(p.tag)] BY PieceOfMessage DEF KindOf
<1>2. k.type \in Messages /\ Rank(k.type) < Rank(t) BY <1>1, SubRank
<1>3. x \in ItemValues(ValuesWith(Externals), Externals, k) /\ x \in ItemValues(Values, Texts, k)
    BY PieceOfMessage
<1> HIDE DEF k, x
<1>4. k.kind \in MessageKinds BY DEF k
<1>5. x \in ValuesWith(Externals)[k.type] /\ x \in Values[k.type] BY <1>3, <1>4 DEF ItemValues, MessageKinds
<1>6. QED BY <1>2, <1>5 DEF k, x

\* Marshal writes a message in one way only.
Marshalled == [t \in Messages |-> [v \in Values[t] |-> {Written[t][v]}]]

LEMMA MarshalledWrites == Writes(Marshalled)
<1> SUFFICES ASSUME NEW t \in Messages, NEW v \in ValuesWith(Externals)[t]
             PROVE  Rendered(Marshalled, t, 0, Pieces(t, v), Written[t][v])
    BY PiecesOf DEF Writes, Marshalled
<1> DEFINE ps == Pieces(t, v)
           rr == [c \in DOMAIN ps |-> Chunk(Written, t, ps[c])]
<1>1. v \in Values[t] /\ ps \in Seq(Pieced(t)) BY PiecesOf
<1>2. Written[t][v] = FlattenSeq(rr) BY <1>1, WrittenIsFlat DEF Chunks
<1> HIDE DEF ps
<1>3. ASSUME NEW p \in Pieced(t) PROVE Rendered(Marshalled, t, 0, <<p>>, Chunk(Written, t, p))
    <2> DEFINE u == KindOf(t, p.tag).type
               x == p.item
    <2>1. KindOf(t, p.tag).kind \in MessageKinds => Written[u][x] \in Texts \cap Marshalled[u][x]
        <3>1. SUFFICES ASSUME KindOf(t, p.tag).kind \in MessageKinds
                       PROVE  Written[u][x] \in Texts \cap Marshalled[u][x]
            OBVIOUS
        <3>2. u \in Messages /\ x \in Values[u] BY <3>1, ItemOf
        <3> HIDE DEF u, x
        <3>3. Written[u][x] \in Texts BY <3>2, MarshalWrites
        <3>4. QED BY <3>2, <3>3 DEF Marshalled
    <2>2. QED BY <2>1, RenderedChunk
<1>4. \A c \in DOMAIN ps : ps[c] \in Pieced(t) BY <1>1
<1>5. \A c \in DOMAIN ps : Rendered(Marshalled, t, 0, <<ps[c]>>, rr[c]) BY <1>3, <1>4
<1>6. DOMAIN rr = DOMAIN ps /\ rr = [c \in DOMAIN ps |-> rr[c]] OBVIOUS
<1> HIDE DEF rr
<1>7. Rendered(Marshalled, t, 0, ps, FlattenSeq(rr)) BY <1>1, <1>5, <1>6, RenderedRun
<1>8. QED BY <1>2, <1>7 DEF ps

\* An input that Marshal made.
LEMMA JoinedRendered ==
    ASSUME NEW x \in Inputs, FromMarshal(x)
    PROVE  Rendered(Marshalled, x.type, 0, AllPieces(x.type, x.parts), x.bytes)
<1>1. PICK t \in Messages : t = x.type BY InputsAssumption
<1> DEFINE parts == x.parts
           n == Len(parts)
           pp == [i \in DOMAIN parts |-> Pieces(t, parts[i])]
           rr == [i \in DOMAIN parts |-> Marshal(t, parts[i])]
<1>2. parts \in Seq(ValuesWith(Externals)[t]) /\ x.bytes = FlattenSeq(rr)
    BY <1>1, JoinedAssumption DEF MarshalledAll
<1> HIDE DEF parts
<1>3. DOMAIN parts = 1..n /\ n \in Nat /\ \A i \in 1..n : parts[i] \in ValuesWith(Externals)[t] BY <1>2
<1>4. ASSUME NEW i \in 1..n
      PROVE  /\ Pieces(t, parts[i]) \in Seq(Pieced(t)) /\ Marshal(t, parts[i]) \in Texts
             /\ Rendered(Marshalled, t, 0, Pieces(t, parts[i]), Marshal(t, parts[i]))
    <2>1. PICK v \in ValuesWith(Externals)[t] : v = parts[i] BY <1>3
    <2>2. v \in Values[t] /\ Pieces(t, v) \in Seq(Pieced(t)) BY PiecesOf
    <2>3. Marshal(t, v) = Written[t][v] /\ Written[t][v] \in Texts BY <2>2, MarshalWrites
    <2>4. Written[t][v] \in Marshalled[t][v] BY <2>2 DEF Marshalled
    <2>5. Rendered(Marshalled, t, 0, Pieces(t, v), Written[t][v]) BY <2>4, MarshalledWrites DEF Writes
    <2>6. QED BY <2>1, <2>2, <2>3, <2>5
<1>5. pp \in Seq(Seq(Pieced(t))) /\ Len(pp) = n
    <2>1. pp \in [1..n -> Seq(Pieced(t))] BY <1>3, <1>4
    <2> HIDE DEF pp
    <2>2. QED BY <1>3, <2>1, IsASeq
<1>6. rr \in Seq(Texts) /\ Len(rr) = n
    <2>1. rr \in [1..n -> Texts] BY <1>3, <1>4
    <2> HIDE DEF rr
    <2>2. QED BY <1>3, <2>1, IsASeq
<1>7. \A i \in 1..n : Rendered(Marshalled, t, 0, pp[i], rr[i]) BY <1>3, <1>4
<1>8. AllPieces(t, parts) = FlattenSeq(pp) BY DEF AllPieces
<1> HIDE DEF pp, rr, n
<1>9. Rendered(Marshalled, t, 0, FlattenSeq(pp), FlattenSeq(rr)) BY <1>5, <1>6, <1>7, RenderedAll
<1>10. QED BY <1>1, <1>2, <1>8, <1>9 DEF parts

\* A newer version writes a message in a way of its own at every place.
Renewed(extra) == [t \in Messages |-> [v \in Values[t] |-> {Newer(extra)[t][at][v] : at \in Seq(Nat)}]]

LEMMA RenewedAt ==
    ASSUME NEW extra, FieldsTyped(extra), NEW t \in Messages,
           \A u \in Messages : Rank(u) < Rank(t) =>
                \A at \in Seq(Nat) : \A x \in ValuesWith(Externals)[u] : Newer(extra)[u][at][x] \in Texts,
           NEW at \in Seq(Nat), NEW v \in ValuesWith(Externals)[t]
    PROVE  /\ Rendered(Renewed(extra), t, 0, Pieces(t, v), Newer(extra)[t][at][v])
           /\ Newer(extra)[t][at][v] \in Texts
<1> DEFINE N == Newer(extra)
           W == Renewed(extra)
           ps == Pieces(t, v)
           inner(c) == [u \in Messages |-> N[u][Append(at, c)]]
           G(c) == Between(extra, t, Append(at, c))
           rr == [c \in DOMAIN ps |-> Chunk(inner(c), t, ps[c]) \o G(c)]
<1>1. v \in Values[t] /\ ps \in Seq(Pieced(t)) BY PiecesOf
<1>2. N[t][at][v] = G(0) \o FlattenSeq(rr)
    <2>1. N[t] = NewerBy(extra, N, t) BY NewerUnfolds
    <2>2. NewerBy(extra, N, t)[at][v] = G(0) \o FlattenSeq(rr) BY <1>1 DEF NewerBy
    <2> HIDE DEF N, G, rr
    <2>3. QED BY <2>1, <2>2
<1>3. ASSUME NEW c \in Nat, NEW p \in Pieced(t)
      PROVE  Rendered(W, t, 0, <<p>>, Chunk(inner(c), t, p))
    <2> DEFINE u == KindOf(t, p.tag).type
               x == p.item
               w == inner(c)
               a == Append(at, c)
    <2>1. KindOf(t, p.tag).kind \in MessageKinds => w[u][x] \in Texts \cap W[u][x]
        <3>1. SUFFICES ASSUME KindOf(t, p.tag).kind \in MessageKinds PROVE w[u][x] \in Texts \cap W[u][x]
            OBVIOUS
        <3>2. u \in Messages /\ Rank(u) < Rank(t) /\ x \in ValuesWith(Externals)[u] /\ x \in Values[u]
            BY <3>1, ItemOf
        <3>3. a \in Seq(Nat) OBVIOUS
        <3>4. w[u] = N[u][a] BY <3>2
        <3> HIDE DEF u, x, w, a
        <3>5. N[u][a][x] \in Texts BY <3>2, <3>3
        <3>6. W[u][x] = {N[u][b][x] : b \in Seq(Nat)} BY <3>2 DEF Renewed
        <3> HIDE DEF N, W
        <3>7. QED BY <3>3, <3>4, <3>5, <3>6
    <2> HIDE DEF w, W
    <2>2. Rendered(W, t, 0, <<p>>, Chunk(w, t, p)) BY <2>1, RenderedChunk
    <2>3. QED BY <2>2 DEF w
<1>4. \A c : Rendered(W, t, 0, <<>>, G(c)) BY RenderedBetween
<1>5. \A c \in DOMAIN ps : ps[c] \in Pieced(t) /\ c \in Nat BY <1>1
<1> HIDE DEF N, W, ps, G, inner
<1>6. ASSUME NEW c \in DOMAIN ps PROVE Rendered(W, t, 0, <<ps[c]>>, rr[c])
    <2>1. Rendered(W, t, 0, <<ps[c]>>, Chunk(inner(c), t, ps[c])) BY <1>3, <1>5
    <2>2. Rendered(W, t, 0, <<ps[c]>> \o <<>>, Chunk(inner(c), t, ps[c]) \o G(c))
        BY <1>4, <2>1, RenderedConcat
    <2>3. <<ps[c]>> \o <<>> = <<ps[c]>>
        <3>1. <<ps[c]>> \in Seq(Pieced(t)) BY <1>5
        <3>2. QED BY <3>1, ConcatEmptySeq
    <2>4. QED BY <2>2, <2>3
<1>7. DOMAIN rr = DOMAIN ps /\ rr = [c \in DOMAIN ps |-> rr[c]] OBVIOUS
<1> HIDE DEF rr
<1>8. Rendered(W, t, 0, ps, FlattenSeq(rr)) BY <1>1, <1>6, <1>7, RenderedRun
<1>9. Rendered(W, t, 0, <<>> \o ps, G(0) \o FlattenSeq(rr)) BY <1>4, <1>8, RenderedConcat
<1>10. <<>> \o ps = ps BY <1>1, ConcatEmptySeq
<1>11. Rendered(W, t, 0, ps, N[t][at][v]) BY <1>2, <1>9, <1>10
<1>12. N[t][at][v] \in Texts BY <1>11, RenderedType
<1>13. QED BY <1>11, <1>12 DEF N, W, ps

LEMMA RenewedWrites ==
    ASSUME NEW extra, FieldsTyped(extra)
    PROVE  Writes(Renewed(extra))
<1> DEFINE N == Newer(extra)
           W == Renewed(extra)
           T == {t \in Messages : \A at \in Seq(Nat) : \A v \in ValuesWith(Externals)[t] :
                    Rendered(W, t, 0, Pieces(t, v), N[t][at][v]) /\ N[t][at][v] \in Texts}
<1>1. ASSUME NEW t \in Messages, \A u \in Messages : Rank(u) < Rank(t) => u \in T PROVE t \in T
    <2>1. \A u \in Messages : Rank(u) < Rank(t) =>
            \A at \in Seq(Nat) : \A x \in ValuesWith(Externals)[u] : N[u][at][x] \in Texts
        BY <1>1
    <2>2. \A at \in Seq(Nat) : \A v \in ValuesWith(Externals)[t] :
            Rendered(W, t, 0, Pieces(t, v), N[t][at][v]) /\ N[t][at][v] \in Texts
        BY <2>1, RenewedAt
    <2>3. QED BY <2>2
<1> HIDE DEF T
<1>2. \A t \in Messages : t \in T BY <1>1, RankInduction
<1>3. ASSUME NEW t \in Messages, NEW v \in ValuesWith(Externals)[t], NEW b \in W[t][v]
      PROVE  Rendered(W, t, 0, Pieces(t, v), b)
    <2>1. v \in Values[t] BY PiecesOf
    <2>2. PICK at \in Seq(Nat) : b = N[t][at][v] BY <2>1 DEF Renewed
    <2>3. Rendered(W, t, 0, Pieces(t, v), N[t][at][v]) BY <1>2 DEF T
    <2>4. QED BY <2>2, <2>3
<1>4. QED BY <1>3 DEF Writes

\* An input that a newer version made.
LEMMA ExtendedRendered ==
    ASSUME NEW x \in Inputs, FromNewer(x)
    PROVE  /\ Writes(Renewed(x.extra))
           /\ Rendered(Renewed(x.extra), x.type, 0, Pieces(x.type, x.known), x.bytes)
           /\ x.known \in Values[x.type]
<1>1. PICK t \in Messages : t = x.type BY InputsAssumption
<1> DEFINE E == x.extra
           v == x.known
<1>2. /\ v \in ValuesWith(Externals)[t] /\ x.bytes = Newer(E)[t][<<>>][v] /\ FieldsTyped(E)
    BY <1>1, NewerAssumption DEF FieldsTyped
<1> HIDE DEF E, v
<1>3. Writes(Renewed(E)) BY <1>2, RenewedWrites
<1>4. v \in Values[t] BY <1>2, PiecesOf
<1>5. Newer(E)[t][<<>>][v] \in Renewed(E)[t][v]
    <2>1. <<>> \in Seq(Nat) OBVIOUS
    <2>2. QED BY <1>4, <2>1 DEF Renewed
<1>6. Rendered(Renewed(E), t, 0, Pieces(t, v), x.bytes) BY <1>2, <1>3, <1>5 DEF Writes
<1>7. QED BY <1>1, <1>3, <1>4, <1>6 DEF E, v

-----------------------------------------------------------------------------
(* What is still to be read of a slice.                                    *)

\* In b, a stands behind the first from bytes.
Spells(b, from, a) ==
    /\ from + Len(a) <= Len(b)
    /\ \A i \in 1..Len(a) : b[from + i] = a[i]

LEMMA SpellsConcat ==
    ASSUME NEW S, NEW b \in Seq(S), NEW from \in Nat, NEW a \in Seq(S), NEW c \in Seq(S),
           Spells(b, from, a \o c)
    PROVE  Spells(b, from, a) /\ Spells(b, from + Len(a), c)
<1> DEFINE m == Len(a)
           n == Len(c)
           z == a \o c
<1>1. /\ m \in Nat /\ n \in Nat /\ Len(b) \in Nat /\ z \in Seq(S) /\ Len(z) = m + n
      /\ \A i \in 1..m : z[i] = a[i]
      /\ \A i \in 1..n : z[m + i] = c[i]
    OBVIOUS
<1>2. from + (m + n) <= Len(b) /\ \A i \in 1..(m + n) : b[from + i] = z[i] BY <1>1 DEF Spells
<1> HIDE DEF z
<1>3. \A i \in 1..m : b[from + i] = a[i]
    <2> SUFFICES ASSUME NEW i \in 1..m PROVE b[from + i] = a[i] OBVIOUS
    <2>1. i \in 1..(m + n) BY <1>1
    <2>2. QED BY <1>1, <1>2, <2>1
<1>4. \A i \in 1..n : b[(from + m) + i] = c[i]
    <2> SUFFICES ASSUME NEW i \in 1..n PROVE b[(from + m) + i] = c[i] OBVIOUS
    <2>1. m + i \in 1..(m + n) /\ from + (m + i) = (from + m) + i BY <1>1
    <2>2. QED BY <1>1, <1>2, <2>1
<1>5. from + m <= Len(b) /\ (from + m) + n <= Len(b) BY <1>1, <1>2
<1>6. QED BY <1>3, <1>4, <1>5 DEF Spells

LEMMA SpellsSlice ==
    ASSUME NEW S, NEW b \in Seq(S), NEW from \in Nat, NEW a \in Seq(S), Spells(b, from, a)
    PROVE  SubSeq(b, from + 1, from + Len(a)) = a
<1> DEFINE n == Len(a)
           z == SubSeq(b, from + 1, from + n)
<1>1. n \in Nat /\ Len(b) \in Nat /\ from + n <= Len(b) /\ \A i \in 1..n : b[from + i] = a[i] BY DEF Spells
<1>2. /\ z \in Seq(S) /\ Len(z) = n
      /\ \A i \in 1..n : z[i] = b[from + i]
    <2>1. from + 1 \in 1..(Len(b) + 1) /\ from + n \in from..Len(b) BY <1>1
    <2>2. \A i \in (from + 1)..(from + n) : i \in 1..Len(b) BY <1>1
    <2>3. \A i \in 1..Len(b) : b[i] \in S OBVIOUS
    <2>4. Len(z) = n
        <3>1. from + 1 <= from + n => Len(z) = (from + n) - (from + 1) + 1 BY <1>1
        <3>2. n = 0 => z = <<>> /\ Len(z) = 0 BY <1>1
        <3>3. QED BY <1>1, <3>1, <3>2
    <2>5. \A i \in 1..n : z[i] = b[from + i] BY <1>1
    <2>6. z \in Seq(S) BY <1>1, <2>2, <2>3
    <2>7. QED BY <2>4, <2>5, <2>6
<1>3. \A i \in 1..Len(z) : z[i] = a[i] BY <1>1, <1>2
<1> HIDE DEF z, n
<1>4. z = a BY <1>2, <1>3, SeqEqual DEF n
<1>5. QED BY <1>4 DEF z, n

\* The slice of the innermost call still holds a, and no more.
Ahead(a) ==
    /\ Spells(input.bytes, call.base + call.iNdEx, a)
    /\ call.iNdEx + Len(a) = call.l

\* Since the field began it holds a, and no more.
Since(a) ==
    /\ Spells(input.bytes, call.base + call.preIndex, a)
    /\ call.preIndex + Len(a) = call.l

\* The index moves over a.
LEMMA AheadMoves ==
    ASSUME Inv, call.iNdEx \in 0..call.l, NEW a \in Seq(0..255), NEW c \in Seq(0..255), Ahead(a \o c),
           UNCHANGED input, call'.base = call.base, call'.l = call.l,
           call'.iNdEx = call.iNdEx + Len(a)
    PROVE  Ahead(c)'
<1> DEFINE z == a \o c
           n == Len(a)
           b == input.bytes
           from == call.base + call.iNdEx
<1>1. input.bytes \in Seq(0..255) BY InputFits DEF Inv
<1>2. call \in Call BY DEF Inv, TypeOK
<1>3. from \in Nat /\ call.iNdEx \in Nat /\ call.l \in Nat /\ call.base \in Nat BY <1>2 DEF Call
<1>4. n \in Nat /\ Len(c) \in Nat /\ Len(z) = n + Len(c) OBVIOUS
<1>5. Spells(b, from, z) /\ call.iNdEx + Len(z) = call.l BY DEF Ahead
<1> HIDE DEF z
<1>6. Spells(b, from + n, c) BY <1>1, <1>3, <1>5, SpellsConcat DEF z
<1>7. call'.base + call'.iNdEx = from + n BY <1>2, <1>3, <1>4 DEF Call
<1>8. call'.iNdEx + Len(c) = call'.l BY <1>3, <1>4, <1>5
<1> HIDE DEF from, n, b
<1>9. Spells(input'.bytes, call'.base + call'.iNdEx, c) BY <1>6, <1>7 DEF b
<1>10. QED BY <1>8, <1>9 DEF Ahead

-----------------------------------------------------------------------------
(* Reading a varint.                                                       *)

\* What is read of n and what is still to come make n.
Counting(n, a) ==
    \E y \in Nat :
        /\ acc + y * weight = n
        /\ weight >= 1
        /\ weight = 1 \/ y >= 1
        /\ Ahead(encodeVarint[y] \o a)

LEMMA CountingBegins ==
    ASSUME Inv, call.iNdEx \in 0..call.l, NEW n \in Nat, NEW a \in Seq(0..255), Ahead(encodeVarint[n] \o a),
           acc' = 0, weight' = 1, UNCHANGED input,
           call'.base = call.base, call'.l = call.l, call'.iNdEx = call.iNdEx
    PROVE  Counting(n, a)'
<1> DEFINE z == encodeVarint[n] \o a
<1>1. Ahead(z)' BY DEF Ahead
<1> HIDE DEF z
<1>2. 0 + n * 1 = n OBVIOUS
<1>3. acc' + n * weight' = n /\ weight' >= 1 /\ weight' = 1 BY <1>2
<1>4. QED BY <1>1, <1>3 DEF Counting, z

\* The loop over the bytes of a number that fits does not give up.
LEMMA CountingGoesOn ==
    ASSUME Inv, pc \in VarintLoops, NEW n \in 0..(Word - 1), NEW a \in Seq(0..255), Counting(n, a)
    PROVE  ~VarintRefused
<1>1. PICK y \in Nat :
        /\ acc + y * weight = n
        /\ weight >= 1
        /\ weight = 1 \/ y >= 1
        /\ Ahead(encodeVarint[y] \o a)
    BY DEF Counting
<1>2. acc \in Nat /\ weight \in Nat /\ Word \in Nat /\ 16 <= Word /\ n < Word
    BY WordAssumption DEF Inv, TypeOK
<1>3. weight < Word
    <2>1. CASE weight = 1 BY <1>2, <2>1
    <2>2. CASE y >= 1
        <3>1. y * weight >= weight BY <1>2, <2>2
        <3>2. y * weight \in Nat BY <1>2
        <3>3. QED BY <1>1, <1>2, <3>1, <3>2
    <2>3. QED BY <1>1, <2>1, <2>2
<1>4. call.iNdEx < call.l
    <2> DEFINE e == encodeVarint[y]
    <2>1. e \in Seq(0..255) /\ e # <<>> BY VarintType
    <2> HIDE DEF e
    <2>2. Len(e \o a) = Len(e) + Len(a) /\ Len(e) \in Nat /\ Len(e) # 0 /\ Len(a) \in Nat BY <2>1, EmptySeq
    <2>3. call.iNdEx + Len(e \o a) = call.l BY <1>1 DEF Ahead, e
    <2>4. call.iNdEx \in Int /\ call.l \in Int BY DEF Inv, TypeOK, Call
    <2>5. QED BY <2>2, <2>3, <2>4
<1>5. QED BY <1>2, <1>3, <1>4 DEF VarintRefused, Inv, TypeOK, Call

\* One more byte.
LEMMA TurnCounts ==
    ASSUME Inv, Turn, NEW n \in 0..(Word - 1), NEW a \in Seq(0..255), Counting(n, a)
    PROVE  \/ pc' = pc /\ Counting(n, a)'
           \/ pc' = After[pc] /\ acc' = n /\ Ahead(a)'
<1>1. PICK y \in Nat :
        /\ acc + y * weight = n
        /\ weight >= 1
        /\ weight = 1 \/ y >= 1
        /\ Ahead(encodeVarint[y] \o a)
    BY DEF Counting
<1>2. /\ call \in Call /\ acc \in Nat /\ weight \in Nat /\ Word \in Nat /\ 16 <= Word
      /\ n \in Nat /\ n < Word
    BY WordAssumption DEF Inv, TypeOK
<1>3. call.iNdEx \in 0..call.l BY DEF Inv, InBounds, Turn, VarintLoops
<1>4. /\ UNCHANGED input /\ call'.base = call.base /\ call'.l = call.l /\ call'.iNdEx = call.iNdEx + 1
    <2>1. call.iNdEx + 1 \in Int BY <1>2 DEF Call
    <2>2. call' = [call EXCEPT !.iNdEx = call.iNdEx + 1] BY DEF Turn
    <2>3. QED BY <1>2, <2>1, <2>2, MovedFrame DEF Turn
<1> DEFINE byte == IF y < 128 THEN y ELSE 128 + (y % 128)
           r == IF y < 128 THEN a ELSE encodeVarint[y \div 128] \o a
           one == <<byte>>
<1>5. y \div 128 \in Nat /\ y = 128 * (y \div 128) + (y % 128) /\ y % 128 \in 0..127 OBVIOUS
<1>6. byte \in 0..255 /\ byte % 128 = y % 128 /\ (byte < 128 <=> y < 128) BY <1>5
<1>7. r \in Seq(0..255) /\ one \in Seq(0..255) /\ Len(one) = 1
    <2>1. encodeVarint[y \div 128] \in Seq(0..255) BY <1>5, VarintType
    <2> DEFINE e == encodeVarint[y \div 128]
    <2> HIDE DEF e
    <2>2. e \o a \in Seq(0..255) BY <2>1 DEF e
    <2>3. r \in Seq(0..255) BY <2>2 DEF e
    <2> HIDE DEF r, byte
    <2>4. QED BY <1>6, <2>3
<1>8. encodeVarint[y] \o a = one \o r
    <2>1. CASE y < 128
        <3>1. encodeVarint[y] = <<y>> BY <2>1, EncodeVarintUnfolds
        <3>2. QED BY <2>1, <3>1
    <2>2. CASE ~(y < 128)
        <3> DEFINE e == encodeVarint[y \div 128]
        <3>1. encodeVarint[y] = one \o e BY <2>2, EncodeVarintUnfolds
        <3>2. e \in Seq(0..255) BY <1>5, VarintType
        <3>3. r = e \o a BY <2>2
        <3> HIDE DEF e, r, one
        <3>4. (one \o e) \o a = one \o (e \o a) BY <1>7, <3>2, ConcatAssociative, SMTT(30)
        <3>5. QED BY <3>1, <3>3, <3>4
    <2>3. QED BY <2>1, <2>2
<1> HIDE DEF r
<1>9. Ahead(one \o r) BY <1>1, <1>8
<1>10. ByteAt(call.iNdEx) = byte
    <2> DEFINE z == one \o r
    <2>1. Len(z) = 1 + Len(r) /\ Len(r) \in Nat /\ z[1] = byte BY <1>7
    <2> HIDE DEF z, byte
    <2>2. Spells(input.bytes, call.base + call.iNdEx, z) BY <1>9 DEF Ahead, z
    <2>3. 1 \in 1..Len(z) BY <2>1
    <2>4. input.bytes[(call.base + call.iNdEx) + 1] = z[1] BY <2>2, <2>3 DEF Spells
    <2>5. QED BY <2>1, <2>4 DEF ByteAt
<1>11. Ahead(r)'
    <2> HIDE DEF one
    <2>1. call'.iNdEx = call.iNdEx + Len(one) BY <1>4, <1>7
    <2>2. QED BY <1>3, <1>4, <1>7, <1>9, <2>1, AheadMoves
<1>12. acc' = (acc + (y % 128) * weight) % Word /\ weight' = 128 * weight
       /\ pc' = IF y < 128 THEN After[pc] ELSE pc
    <2> HIDE DEF byte
    <2>1. acc' = (acc + (byte % 128) * weight) % Word /\ weight' = 128 * weight
          /\ pc' = IF byte < 128 THEN After[pc] ELSE pc
        BY <1>10 DEF Turn
    <2>2. QED BY <1>6, <2>1
<1> DEFINE lo == y % 128
           hi == y \div 128
<1>13. lo \in 0..127 /\ hi \in Nat /\ y = 128 * hi + lo BY <1>5
<1>14. y < 128 => lo = y /\ hi = 0 OBVIOUS
<1>15. ~(y < 128) => hi >= 1 OBVIOUS
<1> HIDE DEF lo, hi, byte, one
<1>16. /\ lo * weight \in Nat /\ hi * (128 * weight) \in Nat
       /\ y * weight = lo * weight + hi * (128 * weight)
    <2>1. (128 * hi + lo) * weight = (128 * hi) * weight + lo * weight BY <1>2, <1>13
    <2>2. (128 * hi) * weight = hi * (128 * weight) BY <1>2, <1>13
    <2>3. lo * weight \in Nat /\ hi * (128 * weight) \in Nat BY <1>2, <1>13
    <2>4. QED BY <1>13, <2>1, <2>2, <2>3
<1>17. acc' = acc + lo * weight
    <2>1. acc + lo * weight \in Nat /\ acc + lo * weight < Word BY <1>1, <1>2, <1>16
    <2>2. \A x \in Nat : x < Word => x % Word = x BY <1>2
    <2>3. (acc + lo * weight) % Word = acc + lo * weight BY <2>1, <2>2
    <2>4. QED BY <1>12, <2>3 DEF lo
<1>18. CASE y < 128
    <2>1. acc' = n BY <1>1, <1>14, <1>17, <1>18
    <2>2. QED BY <1>11, <1>12, <1>18, <2>1 DEF r
<1>19. CASE ~(y < 128)
    <2>1. acc' + hi * weight' = n
        <3> DEFINE u == y * weight
                   v == lo * weight
                   w == hi * (128 * weight)
        <3>1. acc + u = n /\ u = v + w /\ v \in Nat /\ w \in Nat /\ acc' = acc + v BY <1>1, <1>16, <1>17
        <3>2. hi * weight' = w BY <1>12
        <3> HIDE DEF u, v, w
        <3>3. acc' + w = n BY <1>2, <3>1
        <3>4. QED BY <3>2, <3>3
    <2>2. weight' >= 1 /\ hi >= 1 BY <1>1, <1>2, <1>12, <1>15, <1>19
    <2>3. Ahead(encodeVarint[hi] \o a)' BY <1>11, <1>19 DEF r, hi
    <2>4. Counting(n, a)' BY <1>13, <2>1, <2>2, <2>3 DEF Counting
    <2>5. QED BY <1>12, <1>19, <2>4
<1>20. QED BY <1>18, <1>19

-----------------------------------------------------------------------------
(* Where the decoder stands in what is written with the messages W, and    *)
(* what the calls come to: g is what the innermost of them will have made  *)
(* of its message.                                                         *)

\* The innermost call has still to read the pieces ps, in r.
BetweenPieces(W, g) ==
    \E ps \in Seq(Pieced(call.type)), r \in Texts :
        /\ Rendered(W, call.type, 0, ps, r)
        /\ Ahead(r)
        /\ g = Applied(call.type, msg, ps)

\* It is in the piece p, which counts b, and before r.
Midway(p, b, r) ==
    /\ Number(call.type, p, b) < Word
    /\ pc = "tag" => Counting(p.tag, AfterTag(call.type, p, b, r))
    /\ pc = "tagged" => acc = p.tag /\ Ahead(AfterTag(call.type, p, b, r))
    /\ pc \in FieldPlaces =>
        /\ call.field = FieldOf(p.tag)
        /\ pc \in {"value", "valued"} <=> IsVarint(KindOf(call.type, p.tag))
    /\ pc \in {"value", "length"} => Counting(Number(call.type, p, b), b \o r)
    /\ pc \in {"valued", "sized"} => acc = Number(call.type, p, b) /\ Ahead(b \o r)

InPiece(W, g) ==
    \E p \in Pieced(call.type), b \in Texts, ps \in Seq(Pieced(call.type)), r \in Texts :
        /\ b \in Bodies(W, KindOf(call.type, p.tag), p.item)
        /\ Rendered(W, call.type, 0, ps, r)
        /\ Midway(p, b, r)
        /\ g = Applied(call.type, Taken(call.type, msg, p), ps)

\* It is in the first tag of a new field, and before r.
AtNewTag(t, e, r) ==
    /\ Follows(e, 0)
    /\ Unfamiliar(t, e.tag)
    /\ Since(encodeVarint[e.tag] \o AfterToken(e, r))
    /\ pc = "tag" => Counting(e.tag, AfterToken(e, r))
    /\ pc = "tagged" => acc = e.tag

InNewField(W, g) ==
    /\ pc \in {"tag", "tagged"}
    /\ \E e \in Token, ps \in Seq(Pieced(call.type)), r \in Texts :
        /\ AtNewTag(call.type, e, r)
        /\ Rendered(W, call.type, e.level, ps, r)
        /\ g = Applied(call.type, msg, ps)

\* skipGenerated is in the token e, and before r.
InToken(e, r) ==
    /\ Follows(e, depth)
    /\ pc = "skipLoop" => Ahead(encodeVarint[e.tag] \o AfterToken(e, r))
    /\ pc = "skipTag" => Counting(e.tag, AfterToken(e, r))
    /\ pc = "skipTagged" => acc = e.tag /\ Ahead(AfterToken(e, r))
    /\ pc = "skipVarint" => e.tag % 8 = 0 /\ Counting(e.number, e.content \o r)
    /\ pc = "skipLength" => e.tag % 8 = 2 /\ Counting(e.number, e.content \o r)
    /\ pc = "skipSized" => e.tag % 8 = 2 /\ acc = e.number /\ Ahead(e.content \o r)

\* Its slice is the rest of its caller's.
SkipFrame ==
    /\ call.iNdEx \in 0..call.l
    /\ Caller.type = call.type
    /\ call.base = Caller.base + Caller.iNdEx
    /\ call.l + Caller.iNdEx = Caller.l

Skipping(W, g) ==
    /\ SkipFrame
    /\ \E ps \in Seq(Pieced(call.type)), r \in Texts :
        /\ pc = "skipTest" => Rendered(W, call.type, depth, ps, r) /\ Ahead(r)
        /\ pc # "skipTest" => \E e \in Token : InToken(e, r) /\ Rendered(W, call.type, e.level, ps, r)
        /\ g = Applied(call.type, msg, ps)

PiecePlaces == {"tag", "tagged"} \cup FieldPlaces

Current(W, g) ==
    /\ msg \in Values[call.type]
    /\ pc \in {"loop", "done"} \cup PiecePlaces \cup SkipPlaces
    /\ pc = "loop" => BetweenPieces(W, g)
    /\ pc \in PiecePlaces => InPiece(W, g) \/ InNewField(W, g)
    /\ pc \in SkipPlaces => Skipping(W, g)
    /\ pc = "done" => callers = <<>> /\ msg = g

\* What the steps below use of the call.
LEMMA CallFacts ==
    ASSUME Inv
    PROVE  /\ call \in Call /\ call.type \in Messages
           /\ call.base \in Nat /\ call.l \in Nat /\ call.iNdEx \in Int /\ call.preIndex \in Nat
           /\ input.bytes \in Seq(0..255) /\ Len(input.bytes) \in Nat
           /\ call.base + call.l <= Len(input.bytes)
           /\ Word \in Nat /\ 16 <= Word /\ 2 * Len(input.bytes) < Word
           /\ acc \in 0..(Word - 1) /\ acc \in Nat /\ weight \in Nat /\ depth \in Nat
           /\ pc \notin {"skipTest", "skipLoop", "failed"} => call.iNdEx \in 0..call.l
BY InputFits, WordAssumption DEF Inv, TypeOK, InBounds, Nested, Call

\* What is ahead is no longer than the slice.
LEMMA AheadFits ==
    ASSUME Inv, call.iNdEx \in 0..call.l, NEW a \in Seq(0..255), Ahead(a)
    PROVE  Len(a) \in Nat /\ 2 * Len(a) < Word /\ call.iNdEx + Len(a) = call.l
<1>1. Len(a) \in Nat /\ call.iNdEx + Len(a) = call.l BY DEF Ahead
<1>2. call.iNdEx \in Nat /\ call.base \in Nat /\ call.l \in Nat
    BY CallFacts
<1>3. Len(a) <= Len(input.bytes) BY <1>1, <1>2, CallFacts, SMTT(30)
<1>4. QED BY <1>1, <1>3, CallFacts

\* The tag and the number of a piece are words, and what follows them is bytes.
LEMMA PieceWords ==
    ASSUME NEW t \in Messages, NEW p \in Pieced(t), NEW b \in Texts, NEW r \in Texts
    PROVE  /\ p.tag \in Nat /\ p.tag \in 0..(Word - 1)
           /\ Number(t, p, b) \in Nat
           /\ Number(t, p, b) < Word => Number(t, p, b) \in 0..(Word - 1)
           /\ AfterTag(t, p, b, r) \in Seq(0..255)
           /\ b \o r \in Seq(0..255)
<1>1. p.tag \in 0..127 /\ p.tag < Word BY PieceOfMessage
<1>2. /\ \A n \in 0..127 : n \in Nat
      /\ \A n \in 0..127 : n < Word => n \in 0..(Word - 1)
      /\ \A n \in Nat : n < Word => n \in 0..(Word - 1)
    BY WordAssumption
<1>3. Number(t, p, b) \in Nat BY NumberType
<1>4. AfterTag(t, p, b, r) \in Texts /\ b \o r \in Texts BY AfterTagType, ZenonT(40)
<1>5. QED BY <1>1, <1>2, <1>3, <1>4 DEF Texts

\* So are those of a token.
LEMMA TokenWords ==
    ASSUME NEW e \in Token, NEW r \in Texts
    PROVE  /\ e.tag \in Nat /\ e.tag \in 0..(Word - 1)
           /\ e.number \in Nat /\ e.number \in 0..(Word - 1)
           /\ AfterToken(e, r) \in Seq(0..255)
           /\ encodeVarint[e.tag] \o AfterToken(e, r) \in Seq(0..255)
           /\ e.content \in Seq(0..255) /\ r \in Seq(0..255) /\ e.content \o r \in Seq(0..255)
<1>1. /\ e.tag \in Nat /\ e.tag \in 0..(Word - 1)
      /\ e.number \in Nat /\ e.number \in 0..(Word - 1)
      /\ e.content \in Seq(0..255)
    BY TokenFields
<1>2. AfterToken(e, r) \in Texts /\ encodeVarint[e.tag] \o AfterToken(e, r) \in Texts /\ e.content \o r \in Texts
    BY AfterTokenType, ZenonT(40)
<1>3. QED BY <1>1, <1>2 DEF Texts

-----------------------------------------------------------------------------
(* The loop over the fields.                                               *)

\* The loop begins a field that is known.
LEMMA PieceBegins ==
    ASSUME Inv, BeginField, NEW W, NEW g, msg \in Values[call.type],
           NEW p \in Pieced(call.type), NEW b \in Texts, NEW qs \in Seq(Pieced(call.type)), NEW s \in Texts,
           b \in Bodies(W, KindOf(call.type, p.tag), p.item),
           Rendered(W, call.type, 0, qs, s),
           Ahead(encodeVarint[p.tag] \o AfterTag(call.type, p, b, s)),
           g = Applied(call.type, msg, <<p>> \o qs)
    PROVE  InPiece(W, g)'
<1>0. PICK t \in Messages : t = call.type BY CallFacts
<1>1. /\ pc = "loop" /\ call.iNdEx < call.l /\ pc' = "tag" /\ acc' = 0 /\ weight' = 1
      /\ UNCHANGED <<input, callers, msg, outer>>
    BY DEF BeginField, ReadVarint
<1>2. /\ t \in Messages /\ call \in Call /\ call.iNdEx \in 0..call.l
      /\ call.iNdEx \in Nat /\ call.l \in Nat
    BY <1>1, CallFacts
<1>3. call'.type = t /\ call'.base = call.base /\ call'.l = call.l /\ call'.iNdEx = call.iNdEx
    BY <1>0, <1>2 DEF BeginField, Call
<1>4. /\ p \in Pieced(t) /\ b \in Texts /\ qs \in Seq(Pieced(t)) /\ s \in Texts
      /\ b \in Bodies(W, KindOf(t, p.tag), p.item)
      /\ Rendered(W, t, 0, qs, s)
      /\ Ahead(encodeVarint[p.tag] \o AfterTag(t, p, b, s))
      /\ g = Applied(t, msg, <<p>> \o qs)
      /\ msg \in Values[t]
    BY <1>0
<1>5. /\ p.tag \in Nat /\ Number(t, p, b) \in Nat /\ AfterTag(t, p, b, s) \in Seq(0..255)
    BY <1>4, PieceWords, ZenonT(40)
<1>6. g = Applied(t, Taken(t, msg, p), qs)
    <2>1. p \in PieceSet(t, Texts) /\ qs \in Seq(PieceSet(t, Texts)) BY <1>4, PieceOfMessage, PiecesGrow
    <2>2. Applied(t, msg, <<p>> \o qs) = Applied(t, Taken(t, msg, p), qs) BY <1>4, <2>1, AppliedFirst
    <2>3. QED BY <1>4, <2>2
<1>7. Counting(p.tag, AfterTag(t, p, b, s))'
    <2> DEFINE a == AfterTag(t, p, b, s)
               n == p.tag
    <2>1. Ahead(encodeVarint[n] \o a) BY <1>4
    <2>2. a \in Seq(0..255) /\ n \in Nat BY <1>5
    <2> HIDE DEF a, n
    <2>3. Counting(n, a)' BY <1>1, <1>2, <1>3, <2>1, <2>2, CountingBegins
    <2>4. QED BY <2>3 DEF a, n
<1>8. Number(t, p, b) < Word
    <2>1. CASE IsVarint(KindOf(t, p.tag)) BY <1>4, <2>1, NumberType
    <2>2. CASE ~IsVarint(KindOf(t, p.tag))
        <3> DEFINE e == encodeVarint[p.tag]
                   f == encodeVarint[Number(t, p, b)]
        <3>1. Number(t, p, b) = Len(b) BY <2>2 DEF Number, IsVarint
        <3>2. e \in Seq(0..255) /\ f \in Seq(0..255) /\ b \in Seq(0..255) /\ s \in Seq(0..255)
            BY <1>4, <1>5, VarintType DEF Texts
        <3>3. Ahead(e \o (f \o (b \o s))) BY <1>4 DEF AfterTag
        <3> HIDE DEF e, f
        <3>4. e \o (f \o (b \o s)) \in Seq(0..255) BY <3>2
        <3>5. 2 * Len(e \o (f \o (b \o s))) < Word BY <1>2, <3>3, <3>4, AheadFits
        <3>6. Len(e \o (f \o (b \o s))) = Len(e) + (Len(f) + (Len(b) + Len(s))) BY <3>2
        <3>7. Len(e) \in Nat /\ Len(f) \in Nat /\ Len(b) \in Nat /\ Len(s) \in Nat BY <3>2
        <3>8. Len(b) < Word BY <3>5, <3>6, <3>7, CallFacts
        <3>9. QED BY <3>1, <3>8
    <2>3. QED BY <2>1, <2>2
<1>9. Midway(p, b, s)' BY <1>1, <1>3, <1>7, <1>8 DEF Midway, FieldPlaces
<1>10. QED BY <1>1, <1>3, <1>4, <1>6, <1>9 DEF InPiece

\* The loop begins a field that is not.
LEMMA NewFieldBegins ==
    ASSUME Inv, BeginField, NEW W, NEW g, NEW e \in Token,
           NEW ps \in Seq(Pieced(call.type)), NEW s \in Texts,
           Follows(e, 0), Unfamiliar(call.type, e.tag),
           Rendered(W, call.type, e.level, ps, s),
           Ahead(encodeVarint[e.tag] \o AfterToken(e, s)),
           g = Applied(call.type, msg, ps)
    PROVE  InNewField(W, g)'
<1>0. PICK t \in Messages : t = call.type BY CallFacts
<1>1. /\ pc = "loop" /\ pc' = "tag" /\ acc' = 0 /\ weight' = 1 /\ UNCHANGED <<input, msg>>
    BY DEF BeginField, ReadVarint
<1>2. call \in Call /\ call.iNdEx \in 0..call.l /\ call.iNdEx \in Nat BY <1>1, CallFacts
<1>3. /\ call'.type = t /\ call'.base = call.base /\ call'.l = call.l /\ call'.iNdEx = call.iNdEx
      /\ call'.preIndex = call.iNdEx
    BY <1>0, <1>2 DEF BeginField, Call
<1> DEFINE a == AfterToken(e, s)
           n == e.tag
           z == encodeVarint[n] \o a
<1>4. a \in Seq(0..255) /\ n \in Nat BY TokenWords
<1>5. Counting(n, a)'
    <2>1. Ahead(encodeVarint[n] \o a) OBVIOUS
    <2> HIDE DEF a, n
    <2>2. QED BY <1>1, <1>2, <1>3, <1>4, <2>1, CountingBegins
<1>6. Since(z)'
    <2>1. Ahead(z) OBVIOUS
    <2> HIDE DEF z
    <2>2. QED BY <1>1, <1>3, <2>1 DEF Since, Ahead
<1>7. AtNewTag(t, e, s)'
    <2>1. Follows(e, 0) /\ Unfamiliar(t, e.tag) BY <1>0
    <2>2. QED BY <1>1, <1>5, <1>6, <2>1 DEF AtNewTag
<1>8. QED BY <1>0, <1>1, <1>3, <1>7 DEF InNewField

\* One or the other begins.
LEMMA BeginFieldReads ==
    ASSUME Inv, NEW W, NEW g, Current(W, g), BeginField
    PROVE  Current(W, g)'
<1>0. PICK t \in Messages : t = call.type BY CallFacts
<1>1. /\ pc = "loop" /\ call.iNdEx < call.l /\ pc' = "tag" /\ UNCHANGED msg
    BY DEF BeginField, ReadVarint
<1>2. call'.type = t BY <1>0, CallFacts DEF BeginField, Call
<1>3. PICK ps \in Seq(Pieced(t)), r \in Texts :
        Rendered(W, t, 0, ps, r) /\ Ahead(r) /\ g = Applied(t, msg, ps)
    BY <1>0, <1>1 DEF Current, BetweenPieces
<1>4. msg \in Values[t] BY <1>0 DEF Current
<1>5. Begins(W, t, 0, ps, r) BY <1>3, RenderedBegins
<1>6. r # <<>>
    <2>1. SUFFICES ASSUME r = <<>> PROVE FALSE OBVIOUS
    <2>2. call.iNdEx + 0 = call.l BY <1>3, <2>1 DEF Ahead
    <2>3. QED BY <1>1, <2>2, CallFacts
<1>7. ASSUME NEW p \in Pieced(t), NEW b \in Texts, NEW qs \in Seq(Pieced(t)), NEW s \in Texts,
             b \in Bodies(W, KindOf(t, p.tag), p.item), Rendered(W, t, 0, qs, s),
             ps = <<p>> \o qs, r = encodeVarint[p.tag] \o AfterTag(t, p, b, s)
      PROVE  InPiece(W, g)'
    BY <1>0, <1>3, <1>4, <1>7, PieceBegins, ZenonT(60)
<1>8. ASSUME NEW e \in Token, NEW s \in Texts, Follows(e, 0), Unfamiliar(t, e.tag),
             Rendered(W, t, e.level, ps, s), r = encodeVarint[e.tag] \o AfterToken(e, s)
      PROVE  InNewField(W, g)'
    BY <1>0, <1>3, <1>8, NewFieldBegins, ZenonT(60)
<1>9. InPiece(W, g)' \/ InNewField(W, g)' BY <1>5, <1>6, <1>7, <1>8 DEF Begins
<1>10. QED BY <1>1, <1>2, <1>4, <1>9 DEF Current, PiecePlaces, FieldPlaces, SkipPlaces

\* The piece a call is in.
LEMMA PieceAtHand ==
    ASSUME Inv, NEW W, NEW g, InPiece(W, g)
    PROVE  \E t \in Messages : \E p \in Pieced(t), b \in Texts, ps \in Seq(Pieced(t)), r \in Texts :
              /\ t = call.type
              /\ b \in Bodies(W, KindOf(t, p.tag), p.item)
              /\ Rendered(W, t, 0, ps, r)
              /\ Midway(p, b, r)
              /\ g = Applied(t, Taken(t, msg, p), ps)
<1>1. PICK t \in Messages : t = call.type BY CallFacts
<1>2. QED BY <1>1 DEF InPiece

\* The same piece, one step on.
LEMMA SamePiece ==
    ASSUME NEW W, NEW g, NEW t \in Messages, NEW p \in Pieced(t), NEW b \in Texts,
           NEW ps \in Seq(Pieced(t)), NEW r \in Texts,
           b \in Bodies(W, KindOf(t, p.tag), p.item), Rendered(W, t, 0, ps, r),
           call'.type = t, msg' \in Values[t], g = Applied(t, Taken(t, msg', p), ps),
           pc' \in PiecePlaces, Midway(p, b, r)'
    PROVE  Current(W, g)'
<1>1. InPiece(W, g)' BY DEF InPiece
<1>2. QED BY <1>1 DEF Current, PiecePlaces, FieldPlaces, SkipPlaces

\* A byte of the tag, the length or the value of a piece.
LEMMA PieceTurns ==
    ASSUME Inv, NEW W, NEW g, msg \in Values[call.type], InPiece(W, g), Turn, pc \in {"tag", "value", "length"}
    PROVE  Current(W, g)'
<1>2. PICK t \in Messages : \E p \in Pieced(t), b \in Texts, ps \in Seq(Pieced(t)), r \in Texts :
              /\ t = call.type
              /\ b \in Bodies(W, KindOf(t, p.tag), p.item)
              /\ Rendered(W, t, 0, ps, r)
              /\ Midway(p, b, r)
              /\ g = Applied(t, Taken(t, msg, p), ps)
    BY PieceAtHand
<1>3. PICK p \in Pieced(t), b \in Texts, ps \in Seq(Pieced(t)), r \in Texts :
              /\ t = call.type
              /\ b \in Bodies(W, KindOf(t, p.tag), p.item)
              /\ Rendered(W, t, 0, ps, r)
              /\ Midway(p, b, r)
              /\ g = Applied(t, Taken(t, msg, p), ps)
    BY <1>2
<1>4. /\ AfterTag(t, p, b, r) \in Seq(0..255)
      /\ b \o r \in Seq(0..255)
    BY PieceWords, ZenonT(40)
<1>5. p.tag \in 0..(Word - 1) /\ Number(t, p, b) \in 0..(Word - 1)
    <2>1. Number(t, p, b) < Word BY <1>3 DEF Midway
    <2>2. QED BY <2>1, PieceWords, ZenonT(40)
<1>6. /\ call'.type = t /\ call'.field = call.field /\ UNCHANGED msg
    <2>1. call \in Call BY CallFacts
    <2>2. QED BY <1>3, <2>1 DEF Turn, Call
<1>7. CASE pc = "tag"
    <2> DEFINE a == AfterTag(t, p, b, r)
               n == p.tag
    <2>1. Counting(n, a) BY <1>3, <1>7 DEF Midway
    <2>2. a \in Seq(0..255) /\ n \in 0..(Word - 1) BY <1>4, <1>5
    <2> HIDE DEF a, n
    <2>3. \/ pc' = pc /\ Counting(n, a)'
          \/ pc' = After[pc] /\ acc' = n /\ Ahead(a)'
        BY <2>1, <2>2, TurnCounts
    <2>4. After[pc] = "tagged" BY <1>7 DEF After
    <2>5. pc' \in {"tag", "tagged"} BY <1>7, <2>3, <2>4
    <2>6. Midway(p, b, r)'
        <3>1. pc' = "tag" => Counting(n, a)' BY <2>3, <2>4
        <3>2. pc' = "tagged" => acc' = n /\ Ahead(a)' BY <1>7, <2>3, <2>4
        <3>3. Number(t, p, b) < Word BY <1>3 DEF Midway
        <3>4. QED BY <1>6, <2>5, <3>1, <3>2, <3>3 DEF Midway, FieldPlaces, a, n
    <2>7. QED BY <1>3, <1>6, <2>5, <2>6, SamePiece DEF PiecePlaces
<1>8. CASE pc \in {"value", "length"}
    <2> DEFINE a == b \o r
               n == Number(t, p, b)
    <2>1. Counting(n, a) BY <1>3, <1>8 DEF Midway
    <2>2. a \in Seq(0..255) /\ n \in 0..(Word - 1) BY <1>4, <1>5
    <2> HIDE DEF a, n
    <2>3. \/ pc' = pc /\ Counting(n, a)'
          \/ pc' = After[pc] /\ acc' = n /\ Ahead(a)'
        BY <2>1, <2>2, TurnCounts
    <2>4. After[pc] = IF pc = "value" THEN "valued" ELSE "sized" BY <1>8 DEF After
    <2>5. pc' \in FieldPlaces /\ (pc' \in {"value", "valued"} <=> pc \in {"value", "valued"})
        BY <1>8, <2>3, <2>4 DEF FieldPlaces
    <2>6. Midway(p, b, r)'
        <3>1. pc' \in {"value", "length"} => Counting(n, a)' BY <1>8, <2>3, <2>4
        <3>2. pc' \in {"valued", "sized"} => acc' = n /\ Ahead(a)' BY <1>8, <2>3, <2>4
        <3>3. Number(t, p, b) < Word BY <1>3 DEF Midway
        <3>4. /\ call.field = FieldOf(p.tag)
              /\ pc \in {"value", "valued"} <=> IsVarint(KindOf(t, p.tag))
            BY <1>3, <1>8 DEF Midway, FieldPlaces
        <3>5. QED BY <1>6, <2>5, <3>1, <3>2, <3>3, <3>4 DEF Midway, FieldPlaces, a, n
    <2>7. QED BY <1>3, <1>6, <2>5, <2>6, SamePiece DEF PiecePlaces
<1>9. QED BY <1>7, <1>8

\* A byte of the tag of a new field.
LEMMA NewFieldTurns ==
    ASSUME Inv, NEW W, NEW g, msg \in Values[call.type], InNewField(W, g), Turn
    PROVE  Current(W, g)'
<1>1. pc = "tag" BY DEF InNewField, Turn, VarintLoops
<1>2. PICK t \in Messages : t = call.type BY CallFacts
<1>3. PICK e \in Token, ps \in Seq(Pieced(t)), r \in Texts :
        AtNewTag(t, e, r) /\ Rendered(W, t, e.level, ps, r) /\ g = Applied(t, msg, ps)
    BY <1>2 DEF InNewField
<1> DEFINE a == AfterToken(e, r)
           n == e.tag
           z == encodeVarint[n] \o a
<1>4. Counting(n, a) /\ Since(z) /\ Follows(e, 0) /\ Unfamiliar(t, e.tag) BY <1>1, <1>3 DEF AtNewTag
<1>5. /\ call'.type = t /\ call'.base = call.base /\ call'.l = call.l /\ call'.preIndex = call.preIndex
      /\ UNCHANGED <<input, msg>>
    <2>1. call \in Call BY CallFacts
    <2>2. QED BY <1>2, <2>1 DEF Turn, Call
<1>6. Since(z)'
    <2> HIDE DEF z
    <2>1. QED BY <1>4, <1>5 DEF Since
<1>7. a \in Seq(0..255) /\ n \in 0..(Word - 1) BY TokenWords
<1> HIDE DEF a, n, z
<1>8. \/ pc' = pc /\ Counting(n, a)'
      \/ pc' = After[pc] /\ acc' = n /\ Ahead(a)'
    <2>1. pc \in VarintLoops BY <1>1 DEF VarintLoops
    <2>2. QED BY <1>4, <1>7, <2>1, TurnCounts
<1>9. After[pc] = "tagged" BY <1>1 DEF After
<1>10. AtNewTag(t, e, r)'
    <2>1. pc' = "tag" => Counting(n, a)' BY <1>8, <1>9
    <2>2. pc' = "tagged" => acc' = n BY <1>1, <1>8, <1>9
    <2>3. QED BY <1>4, <1>6, <2>1, <2>2 DEF AtNewTag, a, n, z
<1>11. pc' \in {"tag", "tagged"} BY <1>1, <1>8, <1>9
<1>12. InNewField(W, g)' BY <1>3, <1>5, <1>10, <1>11 DEF InNewField
<1>13. QED BY <1>2, <1>5, <1>11, <1>12 DEF Current, PiecePlaces, FieldPlaces, SkipPlaces

\* The tag of a piece is that of the field.
LEMMA TagRead ==
    ASSUME NEW t \in Messages, NEW p \in Pieced(t), acc = p.tag
    PROVE  /\ fieldNum = FieldOf(p.tag)
           /\ wireType = WireType(KindOf(t, p.tag).kind)
           /\ TagOK
           /\ Known(t, fieldNum)
           /\ Fields[t][fieldNum] = KindOf(t, p.tag)
           /\ wireType = 0 <=> IsVarint(KindOf(t, p.tag))
<1> DEFINE k == KindOf(t, p.tag)
           f == FieldOf(p.tag)
<1>1. /\ f \in DOMAIN Fields[t] /\ p.tag \in 0..127 /\ 2 * f < Word32
      /\ k.kind \in Kinds \ {"gap"} /\ p.tag % 8 = WireType(k.kind)
    BY PieceOfMessage
<1>2. f \in Nat /\ f > 0
    <2>1. DOMAIN Fields[t] = 1..Len(Fields[t]) BY FieldsRanked DEF Ranked
    <2> HIDE DEF f
    <2>2. QED BY <1>1, <2>1
<1>3. fieldNum = ToInt32(f) BY DEF fieldNum, FieldOf
<1> HIDE DEF f
<1>4. ToInt32(f) = f
    <2>1. Word32 \in Nat /\ f < Word32 BY <1>1, <1>2, WordAssumption
    <2>2. f % Word32 = f BY <1>2, <2>1
    <2>3. QED BY <1>1, <2>2 DEF ToInt32
<1>5. k = Fields[t][f] BY DEF KindOf, f
<1>6. wireType = WireType(k.kind) BY <1>1 DEF wireType
<1>7. WireType(k.kind) \in {0, 2} /\ (WireType(k.kind) = 0 <=> IsVarint(k)) BY DEF WireType, IsVarint
<1> HIDE DEF k
<1>8. wireType \notin {4} /\ wireType # 4 BY <1>6, <1>7
<1>9. fieldNum = f BY <1>3, <1>4
<1>10. TagOK BY <1>2, <1>8, <1>9 DEF TagOK
<1>11. Known(t, f) BY <1>1, <1>5 DEF Known
<1>12. QED BY <1>5, <1>6, <1>7, <1>9, <1>10, <1>11 DEF k, f

\* The tag of a new field is that of no case.
LEMMA NewTagRead ==
    ASSUME NEW t \in Messages, NEW e \in Token, Follows(e, 0), Unfamiliar(t, e.tag), acc = e.tag
    PROVE  TagOK /\ ~Known(t, fieldNum)
<1>1. fieldNum = ToInt32(e.tag \div 8) BY DEF fieldNum
<1>2. fieldNum > 0 /\ ~Known(t, fieldNum) BY <1>1 DEF Unfamiliar
<1>3. wireType # 4
    <2>1. SUFFICES ASSUME e.tag % 8 = 4 PROVE FALSE BY DEF wireType
    <2>2. e.level = 0 + (-1) BY <2>1 DEF Follows, Opens
    <2>3. e.level \in Nat BY TokenFields
    <2>4. QED BY <2>2, <2>3
<1>4. QED BY <1>2, <1>3 DEF TagOK

\* The switch finds the case of the field.
LEMMA FieldReads ==
    ASSUME Inv, NEW W, NEW g, Current(W, g), Field
    PROVE  Current(W, g)'
<1>1. pc = "tagged" BY DEF Field
<1>0. InPiece(W, g)
    <2>1. SUFFICES ASSUME InNewField(W, g) PROVE FALSE BY <1>1 DEF Current, PiecePlaces
    <2>2. PICK t \in Messages : t = call.type BY CallFacts
    <2>3. PICK e \in Token, r \in Texts : AtNewTag(t, e, r) BY <2>1, <2>2 DEF InNewField
    <2>4. Follows(e, 0) /\ Unfamiliar(t, e.tag) /\ acc = e.tag BY <1>1, <2>3 DEF AtNewTag
    <2>5. ~Known(t, fieldNum) BY <2>4, NewTagRead
    <2>6. QED BY <2>2, <2>5 DEF Field
<1>2. PICK t \in Messages : \E p \in Pieced(t), b \in Texts, ps \in Seq(Pieced(t)), r \in Texts :
              /\ t = call.type
              /\ b \in Bodies(W, KindOf(t, p.tag), p.item)
              /\ Rendered(W, t, 0, ps, r)
              /\ Midway(p, b, r)
              /\ g = Applied(t, Taken(t, msg, p), ps)
    BY <1>0, PieceAtHand
<1>3. PICK p \in Pieced(t), b \in Texts, ps \in Seq(Pieced(t)), r \in Texts :
              /\ t = call.type
              /\ b \in Bodies(W, KindOf(t, p.tag), p.item)
              /\ Rendered(W, t, 0, ps, r)
              /\ Midway(p, b, r)
              /\ msg \in Values[t]
              /\ g = Applied(t, Taken(t, msg, p), ps)
    BY <1>2 DEF Current
<1>4. Number(t, p, b) < Word /\ acc = p.tag /\ Ahead(AfterTag(t, p, b, r)) BY <1>1, <1>3 DEF Midway
<1>5. fieldNum = FieldOf(p.tag) /\ (wireType = 0 <=> IsVarint(KindOf(t, p.tag))) BY <1>4, TagRead
<1>6. /\ acc' = 0 /\ weight' = 1 /\ UNCHANGED <<input, msg>>
      /\ call' = [call EXCEPT !.field = fieldNum]
      /\ pc' = IF IsVarint(KindOf(t, p.tag)) THEN "value" ELSE "length"
    BY <1>5 DEF Field, ReadVarint
<1>7. /\ call'.type = t /\ call'.base = call.base /\ call'.l = call.l /\ call'.iNdEx = call.iNdEx
      /\ call'.field = FieldOf(p.tag)
    <2>1. call \in Call BY CallFacts
    <2>2. QED BY <1>3, <1>5, <1>6, <2>1 DEF Call
<1>8. call.iNdEx \in 0..call.l BY <1>1, CallFacts
<1>9. Counting(Number(t, p, b), b \o r)'
    <2> DEFINE a == b \o r
               n == Number(t, p, b)
    <2>1. Ahead(encodeVarint[n] \o a) BY <1>4 DEF AfterTag
    <2>2. a \in Seq(0..255) BY PieceWords, ZenonT(40)
    <2>3. n \in Nat BY NumberType
    <2> HIDE DEF a, n
    <2>4. Counting(n, a)' BY <1>6, <1>7, <1>8, <2>1, <2>2, <2>3, CountingBegins
    <2>5. QED BY <2>4 DEF a, n
<1>10. Midway(p, b, r)' BY <1>4, <1>6, <1>7, <1>9 DEF Midway, FieldPlaces
<1>11. pc' \in PiecePlaces BY <1>6 DEF PiecePlaces, FieldPlaces
<1>12. QED BY <1>3, <1>6, <1>7, <1>10, <1>11, SamePiece

\* The same call, between the pieces.
LEMMA NextPiece ==
    ASSUME NEW W, NEW g, NEW t \in Messages, NEW ps \in Seq(Pieced(t)), NEW r \in Texts,
           Rendered(W, t, 0, ps, r), call'.type = t, msg' \in Values[t],
           g = Applied(t, msg', ps), pc' = "loop", Ahead(r)'
    PROVE  Current(W, g)'
<1>1. BetweenPieces(W, g)' BY DEF BetweenPieces
<1>2. QED BY <1>1 DEF Current, PiecePlaces, FieldPlaces, SkipPlaces

\* A bool or an int32 is read back.
LEMMA TakeValueReads ==
    ASSUME Inv, NEW W, NEW g, Current(W, g), TakeValue
    PROVE  Current(W, g)'
<1>1. pc = "valued" BY DEF TakeValue
<1>0. InPiece(W, g) BY <1>1 DEF Current, PiecePlaces, FieldPlaces, InNewField
<1>2. PICK t \in Messages : \E p \in Pieced(t), b \in Texts, ps \in Seq(Pieced(t)), r \in Texts :
              /\ t = call.type
              /\ b \in Bodies(W, KindOf(t, p.tag), p.item)
              /\ Rendered(W, t, 0, ps, r)
              /\ Midway(p, b, r)
              /\ g = Applied(t, Taken(t, msg, p), ps)
    BY <1>0, PieceAtHand
<1>3. PICK p \in Pieced(t), b \in Texts, ps \in Seq(Pieced(t)), r \in Texts :
              /\ t = call.type
              /\ b \in Bodies(W, KindOf(t, p.tag), p.item)
              /\ Rendered(W, t, 0, ps, r)
              /\ Midway(p, b, r)
              /\ msg \in Values[t]
              /\ g = Applied(t, Taken(t, msg, p), ps)
    BY <1>2 DEF Current
<1> DEFINE f == FieldOf(p.tag)
           k == KindOf(t, p.tag)
           x == p.item
<1>4. /\ acc = Number(t, p, b) /\ Ahead(b \o r) /\ call.field = f /\ IsVarint(k)
    BY <1>1, <1>3 DEF Midway, FieldPlaces
<1>5. Ahead(r)
    <2>1. b = <<>> BY <1>3, <1>4 DEF Bodies
    <2>2. r \in Seq(0..255) BY DEF Texts
    <2>3. <<>> \o r = r BY <2>2, ConcatEmptySeq
    <2>4. QED BY <1>4, <2>1, <2>3
<1>6. p.item \in ItemValues(Values, Texts, k) BY PieceOfMessage
<1>7. Kind = k.kind BY <1>3, <1>4 DEF Kind, KindOf
<1>8. Value = x
    <2>1. Number(t, p, b) = IF k.kind = "bool" THEN IF x THEN 1 ELSE 0 ELSE Uint64(x)
        BY <1>4 DEF Number
    <2> HIDE DEF k, x
    <2>2. CASE k.kind = "bool"
        <3>1. x \in BOOLEAN BY <1>6, <2>2 DEF ItemValues, x
        <3>2. acc = IF x THEN 1 ELSE 0 BY <1>4, <2>1, <2>2
        <3>3. Value = (acc # 0) BY <1>7, <2>2 DEF Value
        <3>4. CASE x = TRUE
            <4>1. acc # 0 BY <3>2, <3>4
            <4>2. QED BY <3>3, <3>4, <4>1
        <3>5. CASE x = FALSE
            <4>1. acc = 0 BY <3>2, <3>5
            <4>2. QED BY <3>3, <3>5, <4>1
        <3>6. QED BY <3>1, <3>4, <3>5
    <2>3. CASE k.kind \in {"int32", "optInt32"}
        <3>1. x \in Int32Values BY <1>6, <2>3 DEF ItemValues, x
        <3>2. Value = ToInt32(Uint64(x)) BY <1>4, <1>7, <2>1, <2>3 DEF Value
        <3>3. QED BY <3>1, <3>2, Int32Back
    <2>4. QED BY <1>4, <2>2, <2>3 DEF IsVarint
<1>9. NewValue(k, msg[f], x) = x BY <1>4 DEF NewValue, IsVarint, MessageKinds
<1>10. msg' = Taken(t, msg, p)
    <2>1. msg' = [msg EXCEPT ![f] = x] BY <1>4, <1>8 DEF TakeValue, Assign
    <2>2. Taken(t, msg, p) = [msg EXCEPT ![f] = NewValue(k, msg[f], x)] BY DEF Taken
    <2>3. QED BY <1>9, <2>1, <2>2
<1>11. msg' \in Values[t]
    <2>1. p \in PieceSet(t, Texts) BY PieceOfMessage
    <2>2. QED BY <1>3, <1>10, <2>1, TakenType
<1>12. pc' = "loop" /\ UNCHANGED <<input, call>> BY DEF TakeValue
<1>13. Ahead(r)' BY <1>5, <1>12 DEF Ahead
<1>14. call'.type = t /\ g = Applied(t, msg', ps) BY <1>3, <1>10, <1>12
<1>15. QED BY <1>3, <1>11, <1>12, <1>13, <1>14, NextPiece

\* The length that was read is that of b, before r.
Sized(b, r) ==
    /\ Accepted
    /\ len = Len(b) /\ len \in Nat
    /\ postIndex = call.iNdEx + len
    /\ Read = b
    /\ Spells(input.bytes, call.base + call.iNdEx, b)
    /\ Spells(input.bytes, call.base + postIndex, r)
    /\ postIndex + Len(r) = call.l

\* What stands for the piece p of a message of type t is b.
Embodies(W, t, p, b) ==
    LET k == KindOf(t, p.tag) IN
    /\ ~IsVarint(k)
    /\ IF k.kind \in MessageKinds THEN b \in W[k.type][p.item] ELSE b = p.item

\* The length of a piece passes the tests, and what it counts is its body.
LEMMA LengthRead ==
    ASSUME Inv, NEW W, NEW t \in Messages, NEW p \in Pieced(t), NEW b \in Texts, NEW r \in Texts,
           t = call.type, pc = "sized", b \in Bodies(W, KindOf(t, p.tag), p.item), Midway(p, b, r)
    PROVE  /\ call.field = FieldOf(p.tag) /\ Kind = KindOf(t, p.tag).kind
           /\ Embodies(W, t, p, b) /\ Sized(b, r)
<1> DEFINE k == KindOf(t, p.tag)
           from == call.base + call.iNdEx
<1>1. acc = Number(t, p, b) /\ Ahead(b \o r) /\ call.field = FieldOf(p.tag) /\ ~IsVarint(k)
    BY DEF Midway, FieldPlaces
<1>2. Kind = k.kind BY <1>1 DEF Kind, KindOf
<1>3. (IF k.kind \in MessageKinds THEN b \in W[k.type][p.item] ELSE b = p.item) /\ acc = Len(b)
    <2>1. acc = Len(b) BY <1>1 DEF Number, IsVarint
    <2>2. b \in IF k.kind \in MessageKinds THEN W[k.type][p.item] ELSE {p.item} BY <1>1 DEF Bodies
    <2> HIDE DEF k
    <2>3. QED BY <2>1, <2>2
<1>4. b \in Seq(0..255) /\ r \in Seq(0..255) BY DEF Texts
<1>5. /\ call.iNdEx \in 0..call.l /\ call.iNdEx \in Nat /\ call.l \in Nat /\ call.base \in Nat
      /\ input.bytes \in Seq(0..255) /\ Word \in Nat
    BY CallFacts
<1>6. Len(b) \in Nat /\ Len(r) \in Nat /\ b \o r \in Seq(0..255) /\ Len(b \o r) = Len(b) + Len(r) BY <1>4
<1>7. 2 * Len(b \o r) < Word /\ call.iNdEx + Len(b \o r) = call.l BY <1>1, <1>5, <1>6, AheadFits
<1>8. len = Len(b)
    <2>1. 2 * Len(b) < Word BY <1>5, <1>6, <1>7
    <2>2. QED BY <1>3, <2>1 DEF len, Int64
<1>9. postIndex = call.iNdEx + Len(b)
    <2>1. call.l <= Len(input.bytes) /\ 2 * Len(input.bytes) < Word /\ Len(input.bytes) \in Nat BY <1>5, CallFacts
    <2>2. 2 * (call.iNdEx + Len(b)) < Word BY <1>5, <1>6, <1>7, <2>1, SMTT(30)
    <2>3. QED BY <1>8, <2>2 DEF postIndex, Int64
<1>10. LengthOK BY <1>5, <1>6, <1>7, <1>8, <1>9 DEF LengthOK
<1>11. Spells(input.bytes, from, b) /\ Spells(input.bytes, from + Len(b), r)
    <2>1. from \in Nat BY <1>5
    <2>2. Spells(input.bytes, from, b \o r) BY <1>1 DEF Ahead
    <2> HIDE DEF from
    <2>3. QED BY <1>4, <1>5, <2>1, <2>2, SpellsConcat
<1>12. Read = b
    <2>1. from \in Nat BY <1>5
    <2>2. SubSeq(input.bytes, from + 1, from + Len(b)) = b
        <3> HIDE DEF from
        <3>1. QED BY <1>4, <1>5, <1>11, <2>1, SpellsSlice
    <2>3. call.base + postIndex = from + Len(b) BY <1>5, <1>6, <1>9
    <2>4. Read = SubSeq(input.bytes, from + 1, call.base + postIndex) BY DEF Read, Slice
    <2>5. QED BY <2>2, <2>3, <2>4
<1>13. Accepted
    <2>1. SUFFICES ASSUME k.kind \in {"meta", "time"} PROVE b \in Externals
        BY <1>2, <1>10, <1>12 DEF Accepted, IsExternal
    <2>2. p.item \in ItemValues(ValuesWith(Externals), Externals, k) BY PieceOfMessage
    <2>3. p.item \in Externals BY <2>1, <2>2 DEF ItemValues
    <2>4. b = p.item BY <1>3, <2>1 DEF MessageKinds
    <2>5. QED BY <2>3, <2>4
<1>14. call.base + postIndex = from + Len(b) /\ postIndex + Len(r) = call.l
    <2> DEFINE m == Len(b)
               n == Len(r)
               i == call.iNdEx
    <2>1. m \in Nat /\ n \in Nat /\ i \in Nat /\ call.base \in Nat /\ i + (m + n) = call.l /\ postIndex = i + m
        BY <1>5, <1>6, <1>7, <1>9
    <2> HIDE DEF m, n, i
    <2>2. call.base + postIndex = (call.base + i) + m /\ postIndex + n = call.l BY <2>1
    <2>3. QED BY <2>2 DEF m, n, i
<1>15. QED BY <1>1, <1>2, <1>3, <1>6, <1>8, <1>9, <1>11, <1>12, <1>13, <1>14 DEF Embodies, Sized

\* A string, bytes or an external message is read back.
LEMMA TakeBytesReads ==
    ASSUME Inv, NEW W, NEW g, Current(W, g), TakeBytes
    PROVE  Current(W, g)'
<1>1. pc = "sized" BY DEF TakeBytes
<1>0. InPiece(W, g) BY <1>1 DEF Current, PiecePlaces, FieldPlaces, InNewField
<1>2. PICK t \in Messages : \E p \in Pieced(t), b \in Texts, ps \in Seq(Pieced(t)), r \in Texts :
              /\ t = call.type
              /\ b \in Bodies(W, KindOf(t, p.tag), p.item)
              /\ Rendered(W, t, 0, ps, r)
              /\ Midway(p, b, r)
              /\ g = Applied(t, Taken(t, msg, p), ps)
    BY <1>0, PieceAtHand
<1>3. PICK p \in Pieced(t), b \in Texts, ps \in Seq(Pieced(t)), r \in Texts :
              /\ t = call.type
              /\ b \in Bodies(W, KindOf(t, p.tag), p.item)
              /\ Rendered(W, t, 0, ps, r)
              /\ Midway(p, b, r)
              /\ msg \in Values[t]
              /\ g = Applied(t, Taken(t, msg, p), ps)
    BY <1>2 DEF Current
<1> DEFINE f == FieldOf(p.tag)
           k == KindOf(t, p.tag)
           x == p.item
<1>4. /\ call.field = f /\ Kind = k.kind /\ ~IsVarint(k)
      /\ k.kind \notin MessageKinds => b = x
      /\ len \in Nat /\ postIndex = call.iNdEx + len
      /\ Read = b
      /\ Spells(input.bytes, call.base + postIndex, r) /\ postIndex + Len(r) = call.l
    <2>1. /\ call.field = FieldOf(p.tag) /\ Kind = KindOf(t, p.tag).kind
          /\ Embodies(W, t, p, b) /\ Sized(b, r)
        BY <1>1, <1>3, LengthRead
    <2>2. QED BY <2>1 DEF Embodies, Sized
<1>5. k.kind \notin MessageKinds BY <1>4 DEF TakeBytes, IsMessage, MessageKinds
<1>6. b = x BY <1>4, <1>5
<1>7. msg' = Taken(t, msg, p)
    <2>1. msg' = [msg EXCEPT ![f] = IF k.kind = "meta" THEN msg[f] \o x ELSE x]
        BY <1>4, <1>6 DEF TakeBytes, Assign
    <2>2. Taken(t, msg, p) = [msg EXCEPT ![f] = NewValue(k, msg[f], x)] BY DEF Taken
    <2>3. NewValue(k, msg[f], x) = IF k.kind = "meta" THEN msg[f] \o x ELSE x BY <1>5 DEF NewValue
    <2>4. QED BY <2>1, <2>2, <2>3
<1>8. msg' \in Values[t]
    <2>1. p \in PieceSet(t, Texts) BY PieceOfMessage
    <2>2. QED BY <1>3, <1>7, <2>1, TakenType
<1>9. /\ pc' = "loop" /\ UNCHANGED input
      /\ call'.type = t /\ call'.base = call.base /\ call'.l = call.l /\ call'.iNdEx = postIndex
    <2>1. call \in Call /\ call.iNdEx \in Int BY CallFacts
    <2>2. postIndex \in Int BY <1>4, <2>1
    <2>3. call' = [call EXCEPT !.iNdEx = postIndex] BY DEF TakeBytes
    <2>4. QED BY <1>3, <2>1, <2>2, <2>3, MovedFrame DEF TakeBytes
<1>10. Ahead(r)' BY <1>4, <1>9 DEF Ahead
<1>11. g = Applied(t, msg', ps) BY <1>3, <1>7
<1>12. QED BY <1>3, <1>8, <1>9, <1>10, <1>11, NextPiece

\* At the end of its slice a call has nothing left to read.
LEMMA EndRead ==
    ASSUME Inv, NEW W, NEW g, Current(W, g), pc = "loop", call.iNdEx >= call.l
    PROVE  msg = g /\ call.iNdEx = call.l
<1>1. PICK t \in Messages : t = call.type BY CallFacts
<1>2. PICK ps \in Seq(Pieced(t)), r \in Texts :
        Rendered(W, t, 0, ps, r) /\ Ahead(r) /\ g = Applied(t, msg, ps)
    BY <1>1 DEF Current, BetweenPieces
<1>3. call.iNdEx \in Int /\ call.l \in Nat /\ call.iNdEx \in 0..call.l BY CallFacts
<1>4. call.iNdEx + Len(r) = call.l BY <1>2 DEF Ahead
<1>5. Len(r) = 0
    <2>1. Len(r) \in Nat BY DEF Texts
    <2>2. QED BY <1>3, <1>4, <2>1
<1>6. ASSUME NEW e \in Texts, NEW a \in Texts, e # <<>>, r = e \o a PROVE FALSE
    <2>1. Len(e \o a) = Len(e) + Len(a) /\ Len(e) \in Nat \ {0} /\ Len(a) \in Nat
        BY <1>6, EmptySeq DEF Texts
    <2>2. QED BY <1>5, <1>6, <2>1
<1>7. ps = <<>>
    <2>1. Begins(W, t, 0, ps, r) BY <1>2, RenderedBegins
    <2>2. ASSUME NEW p \in Pieced(t), NEW b \in Texts, NEW s \in Texts,
                 r = encodeVarint[p.tag] \o AfterTag(t, p, b, s)
          PROVE  FALSE
        <3>1. encodeVarint[p.tag] \in Texts /\ encodeVarint[p.tag] # <<>> /\ AfterTag(t, p, b, s) \in Texts
            BY AfterTagType, ZenonT(40)
        <3>2. QED BY <1>6, <2>2, <3>1
    <2>3. ASSUME NEW e \in Token, NEW s \in Texts, r = encodeVarint[e.tag] \o AfterToken(e, s)
          PROVE  FALSE
        <3>1. encodeVarint[e.tag] \in Texts /\ encodeVarint[e.tag] # <<>> /\ AfterToken(e, s) \in Texts
            BY AfterTokenType, ZenonT(40)
        <3>2. QED BY <1>6, <2>3, <3>1
    <2>4. QED BY <2>1, <2>2, <2>3 DEF Begins
<1>8. msg \in Values[t] BY <1>1 DEF Current
<1>9. Applied(t, msg, <<>>) = msg BY <1>8, AppliedEmpty
<1>10. call.iNdEx = call.l BY <1>3, <1>4, <1>5
<1>11. QED BY <1>2, <1>7, <1>9, <1>10

\* The outermost call returns what is to be found.
LEMMA FinishReads ==
    ASSUME Inv, NEW W, NEW g, Current(W, g), Finish
    PROVE  Current(W, g)'
<1>1. pc = "loop" /\ call.iNdEx >= call.l /\ callers = <<>> BY DEF Finish
<1>2. msg = g /\ call.iNdEx = call.l BY <1>1, EndRead
<1>3. call.l \in Nat BY CallFacts
<1>4. pc' = "done" /\ UNCHANGED <<call, callers, msg>> BY <1>2, <1>3 DEF Finish
<1>5. msg \in Values[call.type] BY DEF Current
<1>6. QED BY <1>1, <1>2, <1>4, <1>5 DEF Current, PiecePlaces, FieldPlaces, SkipPlaces

-----------------------------------------------------------------------------
(* skipGenerated.                                                          *)

\* What follows the tag of a token.
LEMMA TokenSplits ==
    ASSUME NEW n \in Nat, NEW e \in Token, Follows(e, n), NEW r \in Texts
    PROVE  /\ e.tag % 8 \in 0..5
           /\ e.tag % 8 \in {0, 2} => AfterToken(e, r) = encodeVarint[e.number] \o (e.content \o r)
           /\ e.tag % 8 \notin {0, 2} => AfterToken(e, r) = e.content \o r
           /\ e.tag % 8 \in {0, 3, 4} => e.content \o r = r
           /\ e.tag % 8 = 1 => Len(e.content) = 8
           /\ e.tag % 8 = 2 => Len(e.content) = e.number
           /\ e.tag % 8 = 5 => Len(e.content) = 4
           /\ e.tag % 8 = 3 => e.level = n + 1
           /\ e.tag % 8 = 4 => e.level = n - 1 /\ n > 0
           /\ e.tag % 8 \notin {3, 4} => e.level = n
<1> DEFINE w == e.tag % 8
           c == e.content
           m == encodeVarint[e.number]
<1>1. c \in Seq(0..255) /\ r \in Seq(0..255) /\ m \in Seq(0..255) /\ e.level \in Nat
    BY TokenFields, VarintType DEF Texts
<1>2. c \o r \in Seq(0..255)
    <2> HIDE DEF c
    <2>1. QED BY <1>1
<1>3. /\ w \in 0..5 /\ e.level = n + Opens(w)
      /\ Len(c) = CASE w = 1 -> 8 [] w = 2 -> e.number [] w = 5 -> 4 [] OTHER -> 0
    BY DEF Follows
<1>4. AfterToken(e, r) = (IF w \in {0, 2} THEN m ELSE <<>>) \o (c \o r) BY DEF AfterToken
<1> HIDE DEF w, c, m
<1>5. w \in {0, 2} => AfterToken(e, r) = m \o (c \o r) BY <1>4
<1>6. w \notin {0, 2} => AfterToken(e, r) = c \o r
    <2>1. <<>> \o (c \o r) = c \o r BY <1>2, ConcatEmptySeq
    <2>2. QED BY <1>4, <2>1
<1>7. w \in {0, 3, 4} => c \o r = r
    <2>1. SUFFICES ASSUME w \in {0, 3, 4} PROVE c \o r = r OBVIOUS
    <2>2. Len(c) = 0 BY <1>3, <2>1
    <2>3. c = <<>> BY <1>1, <2>2, EmptySeq
    <2>4. QED BY <1>1, <2>3, ConcatEmptySeq
<1>8. (w = 1 => Len(c) = 8) /\ (w = 2 => Len(c) = e.number) /\ (w = 5 => Len(c) = 4) BY <1>3
<1>9. (w = 3 => e.level = n + 1) /\ (w = 4 => e.level = n - 1 /\ n > 0) /\ (w \notin {3, 4} => e.level = n)
    BY <1>1, <1>3 DEF Opens
<1>10. QED BY <1>3, <1>5, <1>6, <1>7, <1>8, <1>9 DEF w, c, m

\* Where skipGenerated is.
LEMMA TokenAtHand ==
    ASSUME Inv, NEW W, NEW g, Current(W, g), pc \in SkipPlaces, pc # "skipTest"
    PROVE  \E t \in Messages : \E e \in Token, ps \in Seq(Pieced(t)), r \in Texts :
              /\ t = call.type
              /\ InToken(e, r)
              /\ Rendered(W, t, e.level, ps, r)
              /\ g = Applied(t, msg, ps)
              /\ msg \in Values[t]
              /\ SkipFrame
<1>1. PICK t \in Messages : t = call.type BY CallFacts
<1>2. Skipping(W, g) /\ msg \in Values[t] BY <1>1 DEF Current
<1>3. PICK ps \in Seq(Pieced(t)), r \in Texts :
        /\ \E e \in Token : InToken(e, r) /\ Rendered(W, t, e.level, ps, r)
        /\ g = Applied(t, msg, ps)
    BY <1>1, <1>2 DEF Skipping
<1>4. SkipFrame BY <1>2 DEF Skipping
<1>5. QED BY <1>1, <1>2, <1>3, <1>4

LEMMA TestAtHand ==
    ASSUME Inv, NEW W, NEW g, Current(W, g), pc = "skipTest"
    PROVE  \E t \in Messages : \E ps \in Seq(Pieced(t)), r \in Texts :
              /\ t = call.type
              /\ Rendered(W, t, depth, ps, r)
              /\ Ahead(r)
              /\ g = Applied(t, msg, ps)
              /\ msg \in Values[t]
              /\ SkipFrame
<1>1. PICK t \in Messages : t = call.type BY CallFacts
<1>2. Skipping(W, g) /\ msg \in Values[t] BY <1>1 DEF Current, SkipPlaces
<1>3. PICK ps \in Seq(Pieced(t)), r \in Texts :
        Rendered(W, t, depth, ps, r) /\ Ahead(r) /\ g = Applied(t, msg, ps)
    BY <1>1, <1>2 DEF Skipping
<1>4. SkipFrame BY <1>2 DEF Skipping
<1>5. QED BY <1>1, <1>2, <1>3, <1>4

\* It goes on in a token.
LEMMA SameToken ==
    ASSUME NEW W, NEW g, NEW t \in Messages, NEW e \in Token, NEW ps \in Seq(Pieced(t)), NEW r \in Texts,
           call'.type = t, msg' \in Values[t], g = Applied(t, msg', ps),
           Rendered(W, t, e.level, ps, r),
           SkipFrame', pc' \in SkipPlaces, pc' # "skipTest", InToken(e, r)'
    PROVE  Current(W, g)'
<1>1. Skipping(W, g)' BY DEF Skipping
<1>2. QED BY <1>1 DEF Current, PiecePlaces, FieldPlaces, SkipPlaces

\* It has come to the end of one.
LEMMA EndOfToken ==
    ASSUME NEW W, NEW g, NEW t \in Messages, NEW ps \in Seq(Pieced(t)), NEW r \in Texts,
           call'.type = t, msg' \in Values[t], g = Applied(t, msg', ps),
           Rendered(W, t, depth', ps, r),
           SkipFrame', pc' = "skipTest", Ahead(r)'
    PROVE  Current(W, g)'
<1>1. Skipping(W, g)' BY DEF Skipping
<1>2. QED BY <1>1 DEF Current, PiecePlaces, FieldPlaces, SkipPlaces

LEMMA SameFrame ==
    ASSUME SkipFrame, UNCHANGED callers, call'.type = call.type, call'.base = call.base, call'.l = call.l,
           call'.iNdEx \in 0..call'.l
    PROVE  SkipFrame'
BY DEF SkipFrame, Caller

\* The field is not known: it is left to skipGenerated.
LEMMA UnknownReads ==
    ASSUME Inv, NEW W, NEW g, Current(W, g), UnknownField
    PROVE  Current(W, g)'
<1>1. pc = "tagged" BY DEF UnknownField
<1>2. InNewField(W, g)
    <2>1. SUFFICES ASSUME InPiece(W, g) PROVE FALSE BY <1>1 DEF Current, PiecePlaces
    <2>2. PICK t \in Messages : \E p \in Pieced(t), b \in Texts, r \in Texts : t = call.type /\ Midway(p, b, r)
        BY <2>1, PieceAtHand
    <2>3. PICK p \in Pieced(t), b \in Texts, r \in Texts : Midway(p, b, r) BY <2>2
    <2>4. acc = p.tag BY <1>1, <2>3 DEF Midway
    <2>5. Known(t, fieldNum) BY <2>4, TagRead
    <2>6. QED BY <2>2, <2>5 DEF UnknownField
<1>3. PICK t \in Messages : t = call.type BY CallFacts
<1>4. PICK e \in Token, ps \in Seq(Pieced(t)), r \in Texts :
        AtNewTag(t, e, r) /\ Rendered(W, t, e.level, ps, r) /\ g = Applied(t, msg, ps)
    BY <1>2, <1>3 DEF InNewField
<1>5. msg \in Values[t] BY <1>3 DEF Current
<1>6. PICK c : c = [call EXCEPT !.iNdEx = call.preIndex] OBVIOUS
<1>7. /\ call \in Call /\ call.base \in Nat /\ call.l \in Nat /\ call.preIndex \in Nat
      /\ call.preIndex <= call.l
    <2>1. call.preIndex <= call.iNdEx /\ call.iNdEx \in 0..call.l BY <1>1, CallFacts DEF Inv, InBounds
    <2>2. QED BY <2>1, CallFacts
<1>8. c.type = t /\ c.base = call.base /\ c.l = call.l /\ c.iNdEx = call.preIndex
    BY <1>3, <1>6, <1>7 DEF Call
<1>9. /\ callers' = Append(callers, c) /\ UNCHANGED <<input, msg>> /\ depth' = 0 /\ pc' = "skipLoop"
      /\ call' = Begun(call.type, call.base + call.preIndex, call.l - call.preIndex)
    BY <1>6 DEF UnknownField
<1>10. /\ call'.type = t /\ call'.base = call.base + call.preIndex /\ call'.l = call.l - call.preIndex
       /\ call'.iNdEx = 0
    BY <1>3, <1>9 DEF Begun
<1>11. Caller' = c
    <2>1. callers \in Seq(Call) BY DEF Inv, TypeOK
    <2>2. callers'[Len(callers')] = c BY <1>9, <2>1
    <2>3. QED BY <2>2 DEF Caller
<1>12. SkipFrame'
    <2>1. call'.iNdEx \in 0..call'.l BY <1>7, <1>10
    <2>2. call'.l + c.iNdEx = c.l BY <1>7, <1>8, <1>10
    <2>3. QED BY <1>8, <1>10, <1>11, <2>1, <2>2 DEF SkipFrame
<1> DEFINE z == encodeVarint[e.tag] \o AfterToken(e, r)
<1>13. Since(z) /\ Follows(e, 0) BY <1>4 DEF AtNewTag
<1>14. Ahead(z)'
    <2>1. z \in Seq(0..255) BY TokenWords
    <2> HIDE DEF z
    <2>2. Len(z) \in Nat BY <2>1
    <2>3. Spells(input.bytes, call.base + call.preIndex, z) /\ call.preIndex + Len(z) = call.l
        BY <1>13 DEF Since
    <2>4. call'.base + call'.iNdEx = call.base + call.preIndex BY <1>7, <1>10
    <2>5. call'.iNdEx + Len(z) = call'.l BY <1>7, <1>10, <2>2, <2>3
    <2>6. QED BY <1>9, <2>3, <2>4, <2>5 DEF Ahead
<1>15. InToken(e, r)' BY <1>9, <1>13, <1>14 DEF InToken
<1>16. pc' \in SkipPlaces /\ pc' # "skipTest" BY <1>9 DEF SkipPlaces
<1>17. QED BY <1>4, <1>5, <1>9, <1>10, <1>12, <1>15, <1>16, SameToken

\* A byte of a tag, a length or a value that is skipped.
LEMMA SkipTurns ==
    ASSUME Inv, NEW W, NEW g, Current(W, g), Turn, pc \in SkipPlaces
    PROVE  Current(W, g)'
<1>1. pc \in {"skipTag", "skipVarint", "skipLength"} BY DEF Turn, VarintLoops, SkipPlaces
<1>2. PICK t \in Messages : \E e \in Token, ps \in Seq(Pieced(t)), r \in Texts :
              /\ t = call.type
              /\ InToken(e, r)
              /\ Rendered(W, t, e.level, ps, r)
              /\ g = Applied(t, msg, ps)
              /\ msg \in Values[t]
              /\ SkipFrame
    BY <1>1, TokenAtHand
<1>3. PICK e \in Token, ps \in Seq(Pieced(t)), r \in Texts :
              /\ t = call.type
              /\ InToken(e, r)
              /\ Rendered(W, t, e.level, ps, r)
              /\ g = Applied(t, msg, ps)
              /\ msg \in Values[t]
              /\ SkipFrame
    BY <1>2
<1>4. /\ call'.type = t /\ call'.base = call.base /\ call'.l = call.l /\ call'.iNdEx = call.iNdEx + 1
      /\ call.iNdEx \in Int /\ call.iNdEx \in 0..call.l /\ call.l \in Nat /\ depth \in Nat
      /\ UNCHANGED <<input, callers, msg, depth>> /\ call.iNdEx < call.l
    <2>1. call \in Call /\ call.iNdEx \in Int /\ call.l \in Nat /\ depth \in Nat BY CallFacts
    <2>2. QED BY <1>3, <2>1 DEF Turn, Call, SkipFrame
<1>5. SkipFrame'
    <2>1. call'.iNdEx \in 0..call'.l BY <1>4
    <2>2. QED BY <1>3, <1>4, <2>1, SameFrame
<1>6. Follows(e, depth) /\ Follows(e, depth)' BY <1>3, <1>4 DEF InToken
<1>7. CASE pc = "skipTag"
    <2> DEFINE a == AfterToken(e, r)
               n == e.tag
    <2>1. Counting(n, a) BY <1>3, <1>7 DEF InToken
    <2>2. a \in Seq(0..255) /\ n \in 0..(Word - 1) BY TokenWords
    <2> HIDE DEF a, n
    <2>3. \/ pc' = pc /\ Counting(n, a)'
          \/ pc' = After[pc] /\ acc' = n /\ Ahead(a)'
        BY <2>1, <2>2, TurnCounts
    <2>4. After[pc] = "skipTagged" BY <1>7 DEF After
    <2>5. InToken(e, r)'
        <3>1. pc' = "skipTag" => Counting(n, a)' BY <2>3, <2>4
        <3>2. pc' = "skipTagged" => acc' = n /\ Ahead(a)' BY <1>7, <2>3, <2>4
        <3>3. pc' \in {"skipTag", "skipTagged"} BY <1>7, <2>3, <2>4
        <3>4. QED BY <1>6, <3>1, <3>2, <3>3 DEF InToken, a, n
    <2>6. pc' \in SkipPlaces /\ pc' # "skipTest" BY <1>7, <2>3, <2>4 DEF SkipPlaces
    <2>7. QED BY <1>3, <1>4, <1>5, <2>5, <2>6, SameToken
<1>8. CASE pc \in {"skipVarint", "skipLength"}
    <2> DEFINE a == e.content \o r
               n == e.number
    <2>1. Counting(n, a) /\ e.tag % 8 = (IF pc = "skipVarint" THEN 0 ELSE 2) BY <1>3, <1>8 DEF InToken
    <2>2. a \in Seq(0..255) /\ n \in 0..(Word - 1) BY TokenWords
    <2>3. /\ e.tag % 8 = 0 => a = r
          /\ e.level = depth
        <3>1. /\ e.tag % 8 \in {0, 3, 4} => e.content \o r = r
              /\ e.tag % 8 \notin {3, 4} => e.level = depth
            BY <1>4, <1>6, TokenSplits
        <3>2. e.tag % 8 \in {0, 2} BY <2>1
        <3> DEFINE w == e.tag % 8
        <3> HIDE DEF w
        <3>3. w \in {0, 2} => w \notin {3, 4} OBVIOUS
        <3>4. QED BY <3>1, <3>2, <3>3 DEF w
    <2> HIDE DEF a, n
    <2>4. \/ pc' = pc /\ Counting(n, a)'
          \/ pc' = After[pc] /\ acc' = n /\ Ahead(a)'
        BY <2>1, <2>2, TurnCounts
    <2>5. After[pc] = IF pc = "skipVarint" THEN "skipTest" ELSE "skipSized" BY <1>8 DEF After
    <2>6. CASE pc' = "skipTest"
        <3>1. Ahead(r)' BY <1>8, <2>1, <2>3, <2>4, <2>5, <2>6
        <3>2. Rendered(W, t, depth', ps, r) BY <1>3, <1>4, <2>3
        <3>3. QED BY <1>3, <1>4, <1>5, <2>6, <3>1, <3>2, EndOfToken
    <2>7. CASE pc' # "skipTest"
        <3>1. InToken(e, r)'
            <4>1. pc' = "skipVarint" => e.tag % 8 = 0 /\ Counting(n, a)' BY <1>8, <2>1, <2>4, <2>5
            <4>2. pc' = "skipLength" => e.tag % 8 = 2 /\ Counting(n, a)' BY <1>8, <2>1, <2>4, <2>5
            <4>3. pc' = "skipSized" => e.tag % 8 = 2 /\ acc' = n /\ Ahead(a)' BY <1>8, <2>1, <2>4, <2>5
            <4>4. pc' \in {"skipVarint", "skipLength", "skipSized"} BY <1>8, <2>4, <2>5, <2>7
            <4>5. QED BY <1>6, <4>1, <4>2, <4>3, <4>4 DEF InToken, a, n
        <3>2. pc' \in SkipPlaces BY <1>8, <2>4, <2>5 DEF SkipPlaces
        <3>3. QED BY <1>3, <1>4, <1>5, <2>7, <3>1, <3>2, SameToken
    <2>8. QED BY <2>6, <2>7
<1>9. QED BY <1>1, <1>7, <1>8

\* The tag of the next token is read.
LEMMA SkipLoopReads ==
    ASSUME Inv, NEW W, NEW g, Current(W, g), SkipLoop
    PROVE  Current(W, g)'
<1>1. pc = "skipLoop" BY DEF SkipLoop
<1>2. PICK t \in Messages : \E e \in Token, ps \in Seq(Pieced(t)), r \in Texts :
              /\ t = call.type
              /\ InToken(e, r)
              /\ Rendered(W, t, e.level, ps, r)
              /\ g = Applied(t, msg, ps)
              /\ msg \in Values[t]
              /\ SkipFrame
    BY <1>1, TokenAtHand DEF SkipPlaces
<1>3. PICK e \in Token, ps \in Seq(Pieced(t)), r \in Texts :
              /\ t = call.type
              /\ InToken(e, r)
              /\ Rendered(W, t, e.level, ps, r)
              /\ g = Applied(t, msg, ps)
              /\ msg \in Values[t]
              /\ SkipFrame
    BY <1>2
<1>4. /\ UNCHANGED <<input, call, callers, msg, depth>> /\ pc' = "skipTag" /\ acc' = 0 /\ weight' = 1
    BY DEF SkipLoop, ReadVarint
<1>5. call.iNdEx \in 0..call.l BY <1>3 DEF SkipFrame
<1>6. SkipFrame' BY <1>3, <1>4 DEF SkipFrame, Caller
<1>7. Counting(e.tag, AfterToken(e, r))'
    <2> DEFINE a == AfterToken(e, r)
               n == e.tag
    <2>1. Ahead(encodeVarint[n] \o a) BY <1>1, <1>3 DEF InToken
    <2>2. a \in Seq(0..255) /\ n \in Nat BY TokenWords
    <2> HIDE DEF a, n
    <2>3. Counting(n, a)' BY <1>4, <1>5, <2>1, <2>2, CountingBegins
    <2>4. QED BY <2>3 DEF a, n
<1>8. InToken(e, r)' BY <1>3, <1>4, <1>7 DEF InToken
<1>9. pc' \in SkipPlaces /\ pc' # "skipTest" BY <1>4 DEF SkipPlaces
<1>10. QED BY <1>3, <1>4, <1>6, <1>8, <1>9, SameToken

\* A number follows the tag.
LEMMA SkipValueReads ==
    ASSUME Inv, NEW W, NEW g, Current(W, g), SkipValue
    PROVE  Current(W, g)'
<1>1. pc = "skipTagged" BY DEF SkipValue
<1>2. PICK t \in Messages : \E e \in Token, ps \in Seq(Pieced(t)), r \in Texts :
              /\ t = call.type
              /\ InToken(e, r)
              /\ Rendered(W, t, e.level, ps, r)
              /\ g = Applied(t, msg, ps)
              /\ msg \in Values[t]
              /\ SkipFrame
    BY <1>1, TokenAtHand DEF SkipPlaces
<1>3. PICK e \in Token, ps \in Seq(Pieced(t)), r \in Texts :
              /\ t = call.type
              /\ InToken(e, r)
              /\ Rendered(W, t, e.level, ps, r)
              /\ g = Applied(t, msg, ps)
              /\ msg \in Values[t]
              /\ SkipFrame
    BY <1>2
<1>4. /\ UNCHANGED <<input, call, callers, msg, depth>> /\ acc' = 0 /\ weight' = 1
      /\ \/ wireType = 0 /\ pc' = "skipVarint"
         \/ wireType = 2 /\ pc' = "skipLength"
    BY DEF SkipValue, ReadVarint
<1>5. call.iNdEx \in 0..call.l BY <1>3 DEF SkipFrame
<1>6. SkipFrame' BY <1>3, <1>4 DEF SkipFrame, Caller
<1>7. acc = e.tag /\ Ahead(AfterToken(e, r)) /\ Follows(e, depth) BY <1>1, <1>3 DEF InToken
<1>8. e.tag % 8 \in {0, 2} /\ wireType = e.tag % 8 BY <1>4, <1>7 DEF wireType
<1>9. AfterToken(e, r) = encodeVarint[e.number] \o (e.content \o r)
    <2>1. depth \in Nat BY CallFacts
    <2>2. e.tag % 8 \in {0, 2} => AfterToken(e, r) = encodeVarint[e.number] \o (e.content \o r)
        BY <1>7, <2>1, TokenSplits
    <2>3. QED BY <1>8, <2>2
<1>10. Counting(e.number, e.content \o r)'
    <2> DEFINE a == e.content \o r
               n == e.number
    <2>1. Ahead(encodeVarint[n] \o a) BY <1>7, <1>9
    <2>2. a \in Seq(0..255) /\ n \in Nat BY TokenWords
    <2> HIDE DEF a, n
    <2>3. Counting(n, a)' BY <1>4, <1>5, <2>1, <2>2, CountingBegins
    <2>4. QED BY <2>3 DEF a, n
<1>11. InToken(e, r)' BY <1>4, <1>7, <1>8, <1>10 DEF InToken
<1>12. pc' \in SkipPlaces /\ pc' # "skipTest" BY <1>4 DEF SkipPlaces
<1>13. QED BY <1>3, <1>4, <1>6, <1>11, <1>12, SameToken

\* The bytes of a token are skipped, and no more.
LEMMA AdvanceReads ==
    ASSUME Inv, NEW W, NEW g, NEW t \in Messages, NEW e \in Token, NEW ps \in Seq(Pieced(t)), NEW r \in Texts,
           t = call.type, Rendered(W, t, depth, ps, r), g = Applied(t, msg, ps), msg \in Values[t],
           SkipFrame, Ahead(e.content \o r), NEW n \in Nat, n = Len(e.content), Advance(n)
    PROVE  Current(W, g)'
<1> DEFINE c == e.content
           m == Len(r)
<1>1. c \in Seq(0..255) /\ r \in Seq(0..255) /\ c \o r \in Seq(0..255) BY TokenWords
<1>2. /\ call \in Call /\ call.iNdEx \in Int /\ call.iNdEx \in 0..call.l /\ call.l \in Nat /\ Word \in Nat
      /\ call.base \in Nat /\ call.base + call.l <= Len(input.bytes) /\ 2 * Len(input.bytes) < Word
      /\ Len(input.bytes) \in Nat
    BY CallFacts DEF SkipFrame
<1>3. Ahead(c \o r) OBVIOUS
<1> HIDE DEF c
<1>4. call.iNdEx + (n + m) = call.l /\ m \in Nat
    <2>1. Len(c \o r) = n + m /\ m \in Nat BY <1>1 DEF c
    <2>2. call.iNdEx + Len(c \o r) = call.l BY <1>3 DEF Ahead
    <2>3. QED BY <2>1, <2>2
<1> HIDE DEF m
<1>5. Int64(call.iNdEx + n) = call.iNdEx + n /\ call.iNdEx + n \in 0..call.l
    <2>1. 2 * call.l < Word BY <1>2, SMTT(30)
    <2>2. call.iNdEx + n <= call.l /\ call.iNdEx + n \in Nat BY <1>2, <1>4
    <2>3. 2 * (call.iNdEx + n) < Word BY <1>2, <2>1, <2>2
    <2>4. QED BY <1>2, <2>2, <2>3 DEF Int64
<1>6. /\ call'.type = t /\ call'.base = call.base /\ call'.l = call.l /\ call'.iNdEx = call.iNdEx + n
      /\ UNCHANGED <<input, callers, msg, depth>> /\ pc' = "skipTest"
    <2>1. PICK k \in Int : k = call.iNdEx + n BY <1>2
    <2>2. call' = [call EXCEPT !.iNdEx = Int64(call.iNdEx + n)] BY DEF Advance
    <2>3. call' = [call EXCEPT !.iNdEx = k] BY <1>5, <2>1, <2>2
    <2>4. call'.type = call.type /\ call'.base = call.base /\ call'.l = call.l /\ call'.iNdEx = k
        BY <1>2, <2>3, MovedFrame
    <2>5. UNCHANGED <<input, callers, msg, depth>> /\ pc' = "skipTest" BY DEF Advance
    <2>6. QED BY <2>1, <2>4, <2>5
<1>7. SkipFrame' BY <1>5, <1>6, SameFrame
<1>8. Ahead(r)'
    <2>1. call'.iNdEx = call.iNdEx + Len(c) BY <1>6 DEF c
    <2>2. QED BY <1>1, <1>2, <1>3, <1>6, <2>1, AheadMoves
<1>9. Rendered(W, t, depth', ps, r) BY <1>6
<1>10. msg' \in Values[t] /\ g = Applied(t, msg', ps) BY <1>6
<1>11. QED BY <1>6, <1>7, <1>8, <1>9, <1>10, EndOfToken

\* Eight bytes, or four.
LEMMA SkipFixedReads ==
    ASSUME Inv, NEW W, NEW g, Current(W, g), SkipFixed
    PROVE  Current(W, g)'
<1>1. pc = "skipTagged" BY DEF SkipFixed
<1>2. PICK t \in Messages : \E e \in Token, ps \in Seq(Pieced(t)), r \in Texts :
              /\ t = call.type
              /\ InToken(e, r)
              /\ Rendered(W, t, e.level, ps, r)
              /\ g = Applied(t, msg, ps)
              /\ msg \in Values[t]
              /\ SkipFrame
    BY <1>1, TokenAtHand DEF SkipPlaces
<1>3. PICK e \in Token, ps \in Seq(Pieced(t)), r \in Texts :
              /\ t = call.type
              /\ InToken(e, r)
              /\ Rendered(W, t, e.level, ps, r)
              /\ g = Applied(t, msg, ps)
              /\ msg \in Values[t]
              /\ SkipFrame
    BY <1>2
<1>4. acc = e.tag /\ Ahead(AfterToken(e, r)) /\ Follows(e, depth) BY <1>1, <1>3 DEF InToken
<1>5. wireType = e.tag % 8 BY <1>4 DEF wireType
<1>6. /\ e.tag % 8 \notin {0, 2} => AfterToken(e, r) = e.content \o r
      /\ e.tag % 8 = 1 => Len(e.content) = 8
      /\ e.tag % 8 = 5 => Len(e.content) = 4
      /\ e.tag % 8 \notin {3, 4} => e.level = depth
    <2>1. depth \in Nat BY CallFacts
    <2>2. QED BY <1>4, <2>1, TokenSplits, ZenonT(60)
<1>7. PICK k \in Nat : ((wireType = 1 /\ k = 8) \/ (wireType = 5 /\ k = 4)) /\ Advance(k)
    <2>1. 8 \in Nat /\ 4 \in Nat OBVIOUS
    <2>2. (wireType = 1 /\ Advance(8)) \/ (wireType = 5 /\ Advance(4)) BY DEF SkipFixed
    <2>3. CASE wireType = 1 /\ Advance(8) BY <2>1, <2>3
    <2>4. CASE wireType = 5 /\ Advance(4) BY <2>1, <2>4
    <2>5. QED BY <2>2, <2>3, <2>4
<1> DEFINE w == e.tag % 8
<1>8. AfterToken(e, r) = e.content \o r /\ k = Len(e.content) /\ e.level = depth
    <2>1. (w = 1 /\ k = 8) \/ (w = 5 /\ k = 4) BY <1>5, <1>7
    <2> HIDE DEF w
    <2>2. w \notin {0, 2} /\ w \notin {3, 4} BY <2>1
    <2>3. QED BY <1>6, <2>1, <2>2 DEF w
<1>9. Ahead(e.content \o r) /\ Rendered(W, t, depth, ps, r) BY <1>3, <1>4, <1>8
<1>10. QED BY <1>3, <1>7, <1>8, <1>9, AdvanceReads

\* The length of a token is what it says, and not negative.
LEMMA SkipLengthFits ==
    ASSUME Inv, pc = "skipSized", NEW e \in Token, NEW r \in Texts, InToken(e, r), SkipFrame
    PROVE  Len(e.content) = e.number /\ e.level = depth /\ len = acc /\ len >= 0
<1>1. e.tag % 8 = 2 /\ acc = e.number /\ Ahead(e.content \o r) /\ Follows(e, depth)
    BY DEF InToken
<1>2. Len(e.content) = e.number /\ e.level = depth
    <2>1. depth \in Nat BY CallFacts
    <2>2. /\ e.tag % 8 = 2 => Len(e.content) = e.number
          /\ e.tag % 8 \notin {3, 4} => e.level = depth
        BY <1>1, <2>1, TokenSplits
    <2> DEFINE w == e.tag % 8
    <2>3. w = 2 BY <1>1
    <2> HIDE DEF w
    <2>4. w \notin {3, 4} BY <2>3
    <2>5. QED BY <2>2, <2>3, <2>4 DEF w
<1>3. len = acc
    <2>1. e.content \in Seq(0..255) /\ e.content \o r \in Seq(0..255) /\ r \in Seq(0..255) BY TokenWords
    <2> DEFINE c == e.content
    <2>2. call.iNdEx \in 0..call.l BY DEF SkipFrame
    <2>3. Ahead(c \o r) BY <1>1
    <2>4. c \in Seq(0..255) /\ c \o r \in Seq(0..255) /\ Len(c) = acc BY <1>1, <1>2, <2>1
    <2> HIDE DEF c
    <2>5. 2 * Len(c \o r) < Word BY <2>2, <2>3, <2>4, AheadFits
    <2>6. Len(c \o r) = Len(c) + Len(r) /\ Len(r) \in Nat
        <3>1. c \in Seq(0..255) /\ r \in Seq(0..255) BY <2>1, <2>4
        <3>2. QED BY <3>1
    <2>7. acc \in Nat /\ Word \in Nat BY CallFacts
    <2>8. 2 * acc < Word BY <2>4, <2>5, <2>6, <2>7
    <2>9. QED BY <2>8 DEF len, Int64
<1>4. QED BY <1>2, <1>3, CallFacts

\* As many bytes as the length says.
LEMMA SkipLengthReads ==
    ASSUME Inv, NEW W, NEW g, Current(W, g), SkipLength
    PROVE  Current(W, g)'
<1>1. pc = "skipSized" BY DEF SkipLength
<1>2. PICK t \in Messages : \E e \in Token, ps \in Seq(Pieced(t)), r \in Texts :
              /\ t = call.type
              /\ InToken(e, r)
              /\ Rendered(W, t, e.level, ps, r)
              /\ g = Applied(t, msg, ps)
              /\ msg \in Values[t]
              /\ SkipFrame
    BY <1>1, TokenAtHand DEF SkipPlaces
<1>3. PICK e \in Token, ps \in Seq(Pieced(t)), r \in Texts :
              /\ t = call.type
              /\ InToken(e, r)
              /\ Rendered(W, t, e.level, ps, r)
              /\ g = Applied(t, msg, ps)
              /\ msg \in Values[t]
              /\ SkipFrame
    BY <1>2
<1>4. e.tag % 8 = 2 /\ acc = e.number /\ Ahead(e.content \o r) /\ Follows(e, depth)
    BY <1>1, <1>3 DEF InToken
<1>5. Len(e.content) = e.number /\ e.level = depth /\ len = acc BY <1>1, <1>3, SkipLengthFits
<1>6. PICK n \in Nat : n = acc BY CallFacts
<1>7. Advance(n) /\ n = Len(e.content) BY <1>4, <1>5, <1>6 DEF SkipLength
<1>8. Rendered(W, t, depth, ps, r) BY <1>3, <1>5
<1>9. QED BY <1>3, <1>4, <1>7, <1>8, AdvanceReads

\* A group opens or closes.
LEMMA SkipGroupReads ==
    ASSUME Inv, NEW W, NEW g, Current(W, g), SkipGroup
    PROVE  Current(W, g)'
<1>1. pc = "skipTagged" BY DEF SkipGroup
<1>2. PICK t \in Messages : \E e \in Token, ps \in Seq(Pieced(t)), r \in Texts :
              /\ t = call.type
              /\ InToken(e, r)
              /\ Rendered(W, t, e.level, ps, r)
              /\ g = Applied(t, msg, ps)
              /\ msg \in Values[t]
              /\ SkipFrame
    BY <1>1, TokenAtHand DEF SkipPlaces
<1>3. PICK e \in Token, ps \in Seq(Pieced(t)), r \in Texts :
              /\ t = call.type
              /\ InToken(e, r)
              /\ Rendered(W, t, e.level, ps, r)
              /\ g = Applied(t, msg, ps)
              /\ msg \in Values[t]
              /\ SkipFrame
    BY <1>2
<1>4. acc = e.tag /\ Ahead(AfterToken(e, r)) /\ Follows(e, depth) BY <1>1, <1>3 DEF InToken
<1>5. /\ UNCHANGED <<input, call, callers, msg>> /\ pc' = "skipTest"
      /\ \/ wireType = 3 /\ depth' = depth + 1
         \/ wireType = 4 /\ depth' = depth - 1
    BY DEF SkipGroup
<1>6. wireType = e.tag % 8 BY <1>4 DEF wireType
<1>7. /\ e.tag % 8 \notin {0, 2} => AfterToken(e, r) = e.content \o r
      /\ e.tag % 8 \in {0, 3, 4} => e.content \o r = r
      /\ e.tag % 8 = 3 => e.level = depth + 1
      /\ e.tag % 8 = 4 => e.level = depth - 1
    <2>1. depth \in Nat BY CallFacts
    <2>2. QED BY <1>4, <2>1, TokenSplits, ZenonT(60)
<1> DEFINE w == e.tag % 8
<1>8. AfterToken(e, r) = r /\ e.level = depth'
    <2>1. (w = 3 /\ depth' = depth + 1) \/ (w = 4 /\ depth' = depth - 1) BY <1>5, <1>6
    <2> HIDE DEF w
    <2>2. w \notin {0, 2} /\ w \in {0, 3, 4} BY <2>1
    <2>3. QED BY <1>7, <2>1, <2>2 DEF w
<1>9. Ahead(r)' BY <1>4, <1>5, <1>8 DEF Ahead
<1>10. SkipFrame' BY <1>3, <1>5 DEF SkipFrame, Caller
<1>11. Rendered(W, t, depth', ps, r) BY <1>3, <1>8
<1>12. QED BY <1>3, <1>5, <1>9, <1>10, <1>11, EndOfToken

\* Inside a group there is another token.
LEMMA SkipOnReads ==
    ASSUME Inv, NEW W, NEW g, Current(W, g), SkipOn
    PROVE  Current(W, g)'
<1>1. pc = "skipTest" /\ depth > 0 /\ pc' = "skipLoop" /\ UNCHANGED <<input, call, callers, msg, depth>>
    BY DEF SkipOn
<1>2. PICK t \in Messages : \E ps \in Seq(Pieced(t)), r \in Texts :
              /\ t = call.type
              /\ Rendered(W, t, depth, ps, r)
              /\ Ahead(r)
              /\ g = Applied(t, msg, ps)
              /\ msg \in Values[t]
              /\ SkipFrame
    BY <1>1, TestAtHand
<1>3. PICK ps \in Seq(Pieced(t)), r \in Texts :
              /\ t = call.type
              /\ Rendered(W, t, depth, ps, r)
              /\ Ahead(r)
              /\ g = Applied(t, msg, ps)
              /\ msg \in Values[t]
              /\ SkipFrame
    BY <1>2
<1>4. depth # 0 BY <1>1, CallFacts
<1>5. PICK e \in Token, s \in Texts :
        /\ Follows(e, depth)
        /\ Rendered(W, t, e.level, ps, s)
        /\ r = encodeVarint[e.tag] \o AfterToken(e, s)
    <2>1. Begins(W, t, depth, ps, r) BY <1>3, RenderedBegins
    <2>2. QED BY <1>4, <2>1 DEF Begins
<1>6. Ahead(r)' BY <1>1, <1>3 DEF Ahead
<1>7. Ahead(encodeVarint[e.tag] \o AfterToken(e, s))'
    <2> DEFINE z == encodeVarint[e.tag] \o AfterToken(e, s)
    <2>1. z = r BY <1>5
    <2> HIDE DEF z
    <2>2. Ahead(z)' BY <1>6, <2>1
    <2>3. QED BY <2>2 DEF z
<1>8. Follows(e, depth') BY <1>1, <1>5
<1>9. InToken(e, s)' BY <1>1, <1>7, <1>8 DEF InToken
<1>10. SkipFrame' BY <1>1, <1>3 DEF SkipFrame, Caller
<1>11. pc' \in SkipPlaces /\ pc' # "skipTest" BY <1>1 DEF SkipPlaces
<1>12. QED BY <1>1, <1>3, <1>5, <1>9, <1>10, <1>11, SameToken

\* What was skipped ends inside the caller's slice.
LEMMA SkipEnds ==
    ASSUME Inv, SkipFrame, pc \in SkipPlaces
    PROVE  skipTo = Caller.iNdEx + call.iNdEx /\ skipTo \in 0..Caller.l
           /\ Caller \in Call /\ Caller.iNdEx \in Nat
<1>1. callers # <<>> /\ callers \in Seq(Call) BY DEF Inv, Frames, TypeOK
<1>2. Caller \in Call BY <1>1, PopType DEF Caller
<1>3. Caller.iNdEx \in 0..Caller.l /\ Caller.base + Caller.l <= Len(input.bytes)
    <2>1. Len(callers) \in DOMAIN callers
        <3>1. Len(callers) \in Nat \ {0} BY <1>1, PopType
        <3>2. QED BY <1>1, <3>1
    <2>2. QED BY <2>1 DEF Caller, Inv, InBounds, Nested
<1> DEFINE i == Caller.iNdEx
           j == call.iNdEx
<1>4. /\ i \in Nat /\ j \in Nat /\ call.l \in Nat /\ Caller.l \in Nat /\ Caller.base \in Nat
      /\ j <= call.l /\ call.l + i = Caller.l
      /\ Caller.base + Caller.l <= Len(input.bytes) /\ Len(input.bytes) \in Nat
      /\ 2 * Len(input.bytes) < Word /\ Word \in Nat
    <2>1. i \in Int /\ i \in 0..Caller.l /\ Caller.l \in Nat /\ Caller.base \in Nat BY <1>2, <1>3 DEF Call
    <2>2. j \in 0..call.l /\ call.l \in Nat /\ call.l + i = Caller.l BY CallFacts DEF SkipFrame
    <2>3. QED BY <1>3, <2>1, <2>2, CallFacts
<1>5. skipTo = Int64(i + j) BY DEF skipTo
<1> HIDE DEF i, j
<1>6. 2 * (i + j) < Word /\ i + j \in 0..Caller.l
    <2>1. i + j <= Caller.l BY <1>4
    <2>2. Caller.l <= Len(input.bytes) BY <1>4
    <2>3. QED BY <1>4, <2>1, <2>2
<1>7. skipTo = i + j BY <1>5, <1>6 DEF Int64
<1>8. QED BY <1>2, <1>4, <1>6, <1>7 DEF i, j

\* The caller goes on behind the field.
LEMMA SkipReturnsReads ==
    ASSUME Inv, NEW W, NEW g, Current(W, g), SkipReturns
    PROVE  Current(W, g)'
<1>1. /\ pc = "skipTest" /\ depth = 0 /\ pc' = "loop" /\ UNCHANGED <<input, msg>>
      /\ call' = [Caller EXCEPT !.iNdEx = skipTo]
    BY DEF SkipReturns
<1>2. PICK t \in Messages : \E ps \in Seq(Pieced(t)), r \in Texts :
              /\ t = call.type
              /\ Rendered(W, t, depth, ps, r)
              /\ Ahead(r)
              /\ g = Applied(t, msg, ps)
              /\ msg \in Values[t]
              /\ SkipFrame
    BY <1>1, TestAtHand
<1>3. PICK ps \in Seq(Pieced(t)), r \in Texts :
              /\ t = call.type
              /\ Rendered(W, t, depth, ps, r)
              /\ Ahead(r)
              /\ g = Applied(t, msg, ps)
              /\ msg \in Values[t]
              /\ SkipFrame
    BY <1>2
<1>4. PICK c \in Call : c = Caller /\ c.iNdEx \in Nat /\ skipTo = c.iNdEx + call.iNdEx /\ skipTo \in Nat
    <2>1. pc \in SkipPlaces BY <1>1 DEF SkipPlaces
    <2>2. \A k \in 0..Caller.l : k \in Nat OBVIOUS
    <2>3. QED BY <1>3, <2>1, <2>2, SkipEnds
<1>5. c.type = t /\ call.base = c.base + c.iNdEx /\ call.l + c.iNdEx = c.l BY <1>3, <1>4 DEF SkipFrame
<1>6. call'.type = t /\ call'.base = c.base /\ call'.l = c.l /\ call'.iNdEx = skipTo
    <2>1. call' = [c EXCEPT !.iNdEx = skipTo] /\ skipTo \in Int BY <1>1, <1>4
    <2>2. QED BY <1>5, <2>1, MovedFrame
<1>7. Ahead(r)'
    <2> DEFINE i == call.iNdEx
               k == c.iNdEx
               m == Len(r)
    <2>1. Spells(input.bytes, call.base + i, r) /\ i + m = call.l BY <1>3 DEF Ahead
    <2>2. i \in Int /\ k \in Nat /\ c.base \in Nat /\ m \in Nat /\ call.l \in Nat
        BY <1>4, CallFacts DEF Call, Texts
    <2>3. call'.base + call'.iNdEx = c.base + (k + i) /\ call.base + i = (c.base + k) + i BY <1>4, <1>5, <1>6
    <2> HIDE DEF i, k, m
    <2>4. c.base + (k + i) = (c.base + k) + i BY <2>2
    <2>5. skipTo + m = c.l BY <1>4, <1>5, <2>1, <2>2 DEF i, k
    <2>6. QED BY <1>1, <1>6, <2>1, <2>3, <2>4, <2>5 DEF Ahead, m
<1>8. Rendered(W, t, 0, ps, r) /\ msg' \in Values[t] /\ g = Applied(t, msg', ps) BY <1>1, <1>3
<1>9. QED BY <1>1, <1>6, <1>7, <1>8, NextPiece

-----------------------------------------------------------------------------
\* A byte more of whatever number is read.
LEMMA TurnReads ==
    ASSUME Inv, NEW W, NEW g, Current(W, g), Turn
    PROVE  Current(W, g)'
<1>1. pc \in VarintLoops BY DEF Turn
<1>2. CASE pc \in {"tag", "length", "value"}
    <2>1. InPiece(W, g) \/ InNewField(W, g) BY <1>2 DEF Current, PiecePlaces, FieldPlaces
    <2>2. msg \in Values[call.type] BY DEF Current
    <2>3. QED BY <1>2, <2>1, <2>2, PieceTurns, NewFieldTurns
<1>3. CASE pc \in {"skipTag", "skipVarint", "skipLength"}
    <2>1. pc \in SkipPlaces BY <1>3 DEF SkipPlaces
    <2>2. QED BY <2>1, SkipTurns
<1>4. QED BY <1>1, <1>2, <1>3 DEF VarintLoops

\* Unmarshal returns no error in the middle of a piece,
LEMMA PieceNotRefused ==
    ASSUME Inv, NEW W, NEW g, InPiece(W, g), pc \in PiecePlaces
    PROVE  ~(VarintRefused \/ TagRefused \/ LengthRefused)
<1>1. PICK t \in Messages : \E p \in Pieced(t), b \in Texts, ps \in Seq(Pieced(t)), r \in Texts :
              /\ t = call.type
              /\ b \in Bodies(W, KindOf(t, p.tag), p.item)
              /\ Rendered(W, t, 0, ps, r)
              /\ Midway(p, b, r)
              /\ g = Applied(t, Taken(t, msg, p), ps)
    BY PieceAtHand
<1>2. PICK p \in Pieced(t), b \in Texts, r \in Texts :
        t = call.type /\ b \in Bodies(W, KindOf(t, p.tag), p.item) /\ Midway(p, b, r)
    BY <1>1
<1>3. ~TagRefused
    <2>1. SUFFICES ASSUME pc = "tagged" PROVE ~TagRefused BY DEF TagRefused
    <2>2. acc = p.tag BY <1>2, <2>1 DEF Midway
    <2>3. TagOK /\ Fields[t][fieldNum] = KindOf(t, p.tag) /\ wireType = WireType(KindOf(t, p.tag).kind)
        BY <2>2, TagRead
    <2>4. QED BY <1>2, <2>3 DEF TagRefused
<1>4. ~LengthRefused
    <2>1. SUFFICES ASSUME pc = "sized" PROVE Accepted BY DEF LengthRefused
    <2>2. Sized(b, r) BY <1>2, <2>1, LengthRead
    <2>3. QED BY <2>2 DEF Sized
<1>5. AfterTag(t, p, b, r) \in Seq(0..255) /\ b \o r \in Seq(0..255) BY PieceWords, ZenonT(40)
<1>6. p.tag \in 0..(Word - 1) /\ Number(t, p, b) \in 0..(Word - 1)
    <2>1. Number(t, p, b) < Word BY <1>2 DEF Midway
    <2>2. QED BY <2>1, PieceWords, ZenonT(40)
<1>7. pc = "tag" => ~VarintRefused
    <2>1. SUFFICES ASSUME pc = "tag" PROVE ~VarintRefused OBVIOUS
    <2>2. Counting(p.tag, AfterTag(t, p, b, r)) BY <1>2, <2>1 DEF Midway
    <2>3. pc \in VarintLoops BY <2>1 DEF VarintLoops
    <2>4. QED BY <1>5, <1>6, <2>2, <2>3, CountingGoesOn
<1>8. pc \in {"value", "length"} => ~VarintRefused
    <2>1. SUFFICES ASSUME pc \in {"value", "length"} PROVE ~VarintRefused OBVIOUS
    <2>2. Counting(Number(t, p, b), b \o r) BY <1>2, <2>1 DEF Midway
    <2>3. pc \in VarintLoops BY <2>1 DEF VarintLoops
    <2>4. QED BY <1>5, <1>6, <2>2, <2>3, CountingGoesOn
<1>9. pc \in {"tag", "value", "length"} => ~VarintRefused BY <1>7, <1>8
<1>10. QED BY <1>3, <1>4, <1>9 DEF PiecePlaces, FieldPlaces, VarintRefused, VarintLoops

\* nor at the tag of a new field,
LEMMA NewFieldNotRefused ==
    ASSUME Inv, NEW W, NEW g, InNewField(W, g)
    PROVE  ~(VarintRefused \/ TagRefused \/ LengthRefused)
<1>1. PICK t \in Messages : t = call.type BY CallFacts
<1>2. PICK e \in Token, r \in Texts : AtNewTag(t, e, r) BY <1>1 DEF InNewField
<1>3. pc = "tag" => ~VarintRefused
    <2>1. SUFFICES ASSUME pc = "tag" PROVE ~VarintRefused OBVIOUS
    <2>2. Counting(e.tag, AfterToken(e, r)) BY <1>2, <2>1 DEF AtNewTag
    <2>3. e.tag \in 0..(Word - 1) /\ AfterToken(e, r) \in Seq(0..255) BY TokenWords
    <2>4. pc \in VarintLoops BY <2>1 DEF VarintLoops
    <2>5. QED BY <2>2, <2>3, <2>4, CountingGoesOn
<1>4. pc = "tagged" => ~TagRefused
    <2>1. SUFFICES ASSUME pc = "tagged" PROVE ~TagRefused OBVIOUS
    <2>2. Follows(e, 0) /\ Unfamiliar(t, e.tag) /\ acc = e.tag BY <1>2, <2>1 DEF AtNewTag
    <2>3. TagOK /\ ~Known(t, fieldNum) BY <2>2, NewTagRead
    <2>4. QED BY <1>1, <2>3 DEF TagRefused
<1>5. pc \in {"tag", "tagged"} BY DEF InNewField
<1>6. QED BY <1>3, <1>4, <1>5 DEF VarintRefused, VarintLoops, TagRefused, LengthRefused

\* nor does skipGenerated,
LEMMA TokenNotRefused ==
    ASSUME Inv, NEW W, NEW g, Current(W, g), pc \in SkipPlaces, pc # "skipTest"
    PROVE  ~(VarintRefused \/ SkipRefused)
<1>1. PICK t \in Messages : \E e \in Token, ps \in Seq(Pieced(t)), r \in Texts :
              /\ t = call.type
              /\ InToken(e, r)
              /\ Rendered(W, t, e.level, ps, r)
              /\ g = Applied(t, msg, ps)
              /\ msg \in Values[t]
              /\ SkipFrame
    BY TokenAtHand
<1>2. PICK e \in Token, r \in Texts : InToken(e, r) /\ SkipFrame BY <1>1
<1>3. /\ e.tag \in Nat /\ e.tag \in 0..(Word - 1) /\ e.number \in 0..(Word - 1)
      /\ AfterToken(e, r) \in Seq(0..255) /\ e.content \o r \in Seq(0..255)
    BY TokenWords
<1>4. Follows(e, depth) /\ depth \in Nat BY <1>2, CallFacts DEF InToken
<1>5. CASE pc = "skipLoop"
    <2> DEFINE n == encodeVarint[e.tag]
               a == AfterToken(e, r)
    <2>1. n \in Seq(0..255) /\ n # <<>> /\ a \in Seq(0..255) BY <1>3, VarintType
    <2>2. Ahead(n \o a) BY <1>2, <1>5 DEF InToken
    <2> HIDE DEF n, a
    <2>3. Len(n \o a) = Len(n) + Len(a) /\ Len(n) \in Nat \ {0} /\ Len(a) \in Nat BY <2>1, EmptySeq
    <2>4. call.iNdEx + Len(n \o a) = call.l BY <2>2 DEF Ahead
    <2>5. call.iNdEx < call.l
        <3>1. call.iNdEx \in Int /\ call.l \in Int BY CallFacts
        <3>2. QED BY <2>3, <2>4, <3>1
    <2>6. ~SkipRefused
        <3>1. ~(call.iNdEx >= call.l) BY <2>5, CallFacts
        <3>2. QED BY <1>5, <3>1 DEF SkipRefused
    <2>7. QED BY <1>5, <2>6 DEF VarintRefused, VarintLoops
<1>6. CASE pc = "skipTagged"
    <2>1. acc = e.tag BY <1>2, <1>6 DEF InToken
    <2>2. e.tag % 8 \in 0..5 /\ (e.tag % 8 = 4 => depth > 0)
        <3>1. /\ e.tag % 8 \in 0..5
              /\ e.tag % 8 = 4 => e.level = depth - 1 /\ depth > 0
            BY <1>4, TokenSplits, ZenonT(40)
        <3>2. QED BY <3>1
    <2>3. wireType \notin {6, 7} /\ ~(wireType = 4 /\ depth = 0) BY <1>4, <2>1, <2>2 DEF wireType
    <2>4. ~SkipRefused BY <1>6, <2>3 DEF SkipRefused
    <2>5. QED BY <1>6, <2>4 DEF VarintRefused, VarintLoops
<1>7. CASE pc = "skipSized"
    <2>1. len >= 0 BY <1>2, <1>7, SkipLengthFits
    <2>2. len \in Int BY CallFacts DEF len, Int64
    <2>3. ~SkipRefused BY <1>7, <2>1, <2>2 DEF SkipRefused
    <2>4. QED BY <1>7, <2>3 DEF VarintRefused, VarintLoops
<1>8. CASE pc = "skipTag"
    <2>1. Counting(e.tag, AfterToken(e, r)) BY <1>2, <1>8 DEF InToken
    <2>2. pc \in VarintLoops BY <1>8 DEF VarintLoops
    <2>3. ~VarintRefused BY <1>3, <2>1, <2>2, CountingGoesOn
    <2>4. QED BY <1>8, <2>3 DEF SkipRefused
<1>9. CASE pc \in {"skipVarint", "skipLength"}
    <2>1. Counting(e.number, e.content \o r) BY <1>2, <1>9 DEF InToken
    <2>2. pc \in VarintLoops BY <1>9 DEF VarintLoops
    <2>3. ~VarintRefused BY <1>3, <2>1, <2>2, CountingGoesOn
    <2>4. QED BY <1>9, <2>3 DEF SkipRefused
<1>10. QED BY <1>5, <1>6, <1>7, <1>8, <1>9 DEF SkipPlaces

LEMMA TestNotRefused ==
    ASSUME Inv, NEW W, NEW g, Current(W, g), pc = "skipTest"
    PROVE  ~SkipRefused
<1>1. SkipFrame BY TestAtHand
<1>2. pc \in SkipPlaces BY DEF SkipPlaces
<1>3. skipTo \in 0..Caller.l /\ Caller \in Call BY <1>1, <1>2, SkipEnds
<1>4. skipTo >= 0 /\ skipTo <= Caller.l BY <1>3 DEF Call
<1>5. call.iNdEx \in 0..call.l /\ call.l \in Nat BY <1>1, CallFacts DEF SkipFrame
<1>6. ~(call.iNdEx < 0) BY <1>5
<1>7. QED BY <1>4, <1>6 DEF SkipRefused

\* nor anything else.
LEMMA NotRefused ==
    ASSUME Inv, NEW W, NEW g, Current(W, g)
    PROVE  ~(VarintRefused \/ TagRefused \/ LengthRefused \/ SkipRefused)
<1>1. pc \in {"loop", "done"} \cup PiecePlaces \cup SkipPlaces BY DEF Current
<1>2. CASE pc \in {"loop", "done"}
    BY <1>2 DEF VarintRefused, VarintLoops, TagRefused, LengthRefused, SkipRefused
<1>3. CASE pc \in PiecePlaces
    <2>1. InPiece(W, g) \/ InNewField(W, g) BY <1>3 DEF Current
    <2>2. ~(VarintRefused \/ TagRefused \/ LengthRefused)
        BY <1>3, <2>1, PieceNotRefused, NewFieldNotRefused
    <2>3. ~SkipRefused BY <1>3 DEF SkipRefused, PiecePlaces, FieldPlaces
    <2>4. QED BY <2>2, <2>3
<1>4. CASE pc \in SkipPlaces
    <2>1. ~TagRefused /\ ~LengthRefused BY <1>4 DEF TagRefused, LengthRefused, SkipPlaces
    <2>2. CASE pc = "skipTest"
        <3>1. ~VarintRefused BY <2>2 DEF VarintRefused, VarintLoops
        <3>2. QED BY <2>1, <2>2, <3>1, TestNotRefused
    <2>3. CASE pc # "skipTest" BY <1>4, <2>1, <2>3, TokenNotRefused
    <2>4. QED BY <2>2, <2>3
<1>5. QED BY <1>1, <1>2, <1>3, <1>4

-----------------------------------------------------------------------------
(* The calls that wait.                                                    *)

Decoded == UNION {Values[t] : t \in Messages}

\* The caller's message with the one it waits for.
Resumed(c, m, inner) ==
    [m EXCEPT ![c.field] = IF Fields[c.type][c.field].kind = "list" THEN Append(@, inner) ELSE inner]

\* The call c, which waits for inner, will have made g of its message m.
Waits(W, c, m, g, inner) ==
    /\ c.type \in Messages
    /\ Resumed(c, m, inner) \in Values[c.type]
    /\ \E ps \in Seq(Pieced(c.type)), r \in Texts :
        /\ Rendered(W, c.type, 0, ps, r)
        /\ Spells(input.bytes, c.base + c.iNdEx, r)
        /\ c.iNdEx + Len(r) = c.l
        /\ g = Applied(c.type, Resumed(c, m, inner), ps)

\* So many calls wait for a message; the caller of skipGenerated waits for none.
Waiting == IF pc \in SkipPlaces THEN Len(callers) - 1 ELSE Len(callers)

\* What is written with the messages W is being read, and h will have been found in it.
Reads(W, h, goals) ==
    /\ goals[1] = h
    /\ \A k \in 1..Waiting : Waits(W, callers[k], outer[k], goals[k], goals[k + 1])
    /\ Current(W, goals[Waiting + 1])

Found(h) ==
    /\ outer \in Seq(Decoded)
    /\ Len(outer) = Len(callers)
    /\ \E W : Writes(W) /\ \E goals \in [1..(Waiting + 1) -> Decoded] : Reads(W, h, goals)

\* What an input was made of is found in it.
Faithful ==
    /\ FromMarshal(input) => Found(MergedAll(input.type, input.parts))
    /\ FromNewer(input) => Found(input.known)

LEMMA WaitingType ==
    ASSUME Inv
    PROVE  Waiting \in Nat /\ Waiting <= Len(callers) /\ callers \in Seq(Call) /\ Len(callers) \in Nat
<1>1. callers \in Seq(Call) /\ (pc \in SkipPlaces => callers # <<>>) BY DEF Inv, TypeOK, Frames
<1>2. Len(callers) \in Nat /\ (callers # <<>> => Len(callers) # 0) BY <1>1, EmptySeq
<1>3. QED BY <1>1, <1>2 DEF Waiting

LEMMA InDecoded == \A t \in Messages : \A v \in Values[t] : v \in Decoded
BY DEF Decoded

\* At the start all of the input is ahead.
LEMMA InitFound ==
    ASSUME Init, NEW h, NEW W, Writes(W), NEW t \in Messages, t = input.type,
           NEW ps \in Seq(Pieced(t)), Rendered(W, t, 0, ps, input.bytes),
           Applied(t, Zero[t], ps) = h, h \in Values[t]
    PROVE  Found(h)
<1> DEFINE goals == [k \in 1..1 |-> h]
<1>1. Inv BY InitInv
<1>2. call.type = t /\ call.base = 0 /\ call.l = Len(input.bytes) /\ call.iNdEx = 0 /\ msg = Zero[t]
      /\ pc = "loop" /\ callers = <<>> /\ outer = <<>>
    BY DEF Init, Begun
<1>3. PICK b \in Texts : b = input.bytes BY <1>1, CallFacts DEF Texts
<1>4. Ahead(b)
    <2>1. Len(b) \in Nat BY DEF Texts
    <2>2. Spells(b, 0 + 0, b) BY <2>1 DEF Spells
    <2>3. 0 + Len(b) = Len(b) BY <2>1
    <2>4. QED BY <1>2, <1>3, <2>2, <2>3 DEF Ahead
<1>5. BetweenPieces(W, h) BY <1>2, <1>3, <1>4 DEF BetweenPieces
<1>6. msg \in Values[t] BY <1>2, ZeroType DEF ZeroTyped
<1>7. Current(W, h) BY <1>2, <1>5, <1>6 DEF Current, PiecePlaces, FieldPlaces, SkipPlaces
<1>8. Waiting = 0 /\ Len(callers) = 0 /\ outer \in Seq(Decoded) /\ Len(outer) = 0
    BY <1>2 DEF Waiting, SkipPlaces
<1>9. goals \in [1..1 -> Decoded] /\ goals[1] = h BY InDecoded
<1> HIDE DEF goals
<1>10. Reads(W, h, goals)
    <2>1. Current(W, goals[Waiting + 1]) BY <1>7, <1>8, <1>9
    <2>2. \A k \in 1..Waiting : Waits(W, callers[k], outer[k], goals[k], goals[k + 1]) BY <1>8
    <2>3. QED BY <1>9, <2>1, <2>2 DEF Reads
<1>11. goals \in [1..(Waiting + 1) -> Decoded] BY <1>8, <1>9
<1>12. QED BY <1>8, <1>10, <1>11 DEF Found

LEMMA InitFaithful == Init => Faithful
<1> SUFFICES ASSUME Init PROVE Faithful OBVIOUS
<1>1. PICK x \in Inputs : x = input BY DEF Init
<1>2. PICK t \in Messages : t = x.type BY InputsAssumption
<1>3. ASSUME FromMarshal(x) PROVE Found(MergedAll(t, x.parts))
    <2> DEFINE ps == AllPieces(t, x.parts)
               h == MergedAll(t, x.parts)
    <2>1. Rendered(Marshalled, t, 0, ps, x.bytes) BY <1>2, <1>3, JoinedRendered
    <2>2. h \in Values[t] /\ Applied(t, Zero[t], ps) = h
        <3>1. x.parts \in Seq(Values[t]) /\ x.parts # <<>> BY <1>2, <1>3, PartsTyped
        <3>2. QED BY <3>1, AllPiecesApplied
    <2> HIDE DEF ps, h
    <2>3. ps \in Seq(Pieced(t)) BY <2>1, RenderedType
    <2>4. PICK W : W = Marshalled OBVIOUS
    <2>5. Writes(W) BY <2>4, MarshalledWrites
    <2>6. Rendered(W, t, 0, ps, input.bytes) /\ t = input.type BY <1>1, <1>2, <2>1, <2>4
    <2>7. Found(h) BY <2>2, <2>3, <2>5, <2>6, InitFound
    <2>8. QED BY <2>7 DEF h
<1>4. ASSUME FromNewer(x) PROVE Found(x.known)
    <2>1. PICK h \in Values[t] : h = x.known BY <1>2, <1>4, ExtendedRendered
    <2> DEFINE ps == Pieces(t, h)
    <2>2. PICK W : W = Renewed(x.extra) OBVIOUS
    <2>3. Writes(W) /\ Rendered(W, t, 0, ps, x.bytes) BY <1>2, <1>4, <2>1, <2>2, ExtendedRendered
    <2>4. Applied(t, Zero[t], ps) = h
        <3>1. Zero[t] \in Values[t] BY ZeroType DEF ZeroTyped
        <3>2. Applied(t, Zero[t], ps) = Merged[t][Zero[t]][h] BY <3>1, PiecesApplied
        <3>3. Merged[t][Zero[t]][h] = h BY ZeroNeutral DEF Neutral
        <3>4. QED BY <3>2, <3>3
    <2> HIDE DEF ps
    <2>5. ps \in Seq(Pieced(t)) BY <2>3, RenderedType
    <2>6. Rendered(W, t, 0, ps, input.bytes) /\ t = input.type BY <1>1, <1>2, <2>3
    <2>7. Found(h) BY <2>3, <2>4, <2>5, <2>6, InitFound
    <2>8. QED BY <2>1, <2>7
<1>5. FromMarshal(input) => Found(MergedAll(input.type, input.parts)) BY <1>1, <1>2, <1>3
<1>6. FromNewer(input) => Found(input.known) BY <1>1, <1>4
<1>7. QED BY <1>5, <1>6 DEF Faithful

\* Steps after which the same calls wait.
LEMMA SameWaiting ==
    ASSUME Inv, NEW h, Found(h), UNCHANGED input, outer' \in Seq(Decoded), Len(outer') = Len(callers'),
           Waiting' = Waiting, \A k \in 1..Waiting : callers'[k] = callers[k] /\ outer'[k] = outer[k],
           \A W, g : Current(W, g) => Current(W, g)'
    PROVE  Found(h)'
<1>1. PICK W : Writes(W) /\ \E goals \in [1..(Waiting + 1) -> Decoded] : Reads(W, h, goals) BY DEF Found
<1>2. PICK goals \in [1..(Waiting + 1) -> Decoded] : Reads(W, h, goals) BY <1>1
<1>3. PICK n \in Nat : n = Waiting BY WaitingType
<1>4. PICK g : g = goals[n + 1] OBVIOUS
<1>5. Current(W, g)' BY <1>2, <1>3, <1>4 DEF Reads
<1>6. ASSUME NEW k \in 1..n PROVE Waits(W, callers[k], outer[k], goals[k], goals[k + 1])'
    <2>1. Waits(W, callers[k], outer[k], goals[k], goals[k + 1]) BY <1>2, <1>3 DEF Reads
    <2>2. callers'[k] = callers[k] /\ outer'[k] = outer[k] BY <1>3
    <2>3. QED BY <2>1, <2>2 DEF Waits
<1>7. Waiting' = n BY <1>3
<1>8. Reads(W, h, goals)'
    <2>1. goals[1] = h BY <1>2 DEF Reads
    <2>2. Current(W, goals[Waiting + 1])' BY <1>4, <1>5, <1>7
    <2>3. \A k \in 1..Waiting' : Waits(W, callers[k], outer[k], goals[k], goals[k + 1])' BY <1>6, <1>7
    <2>4. QED BY <2>1, <2>2, <2>3 DEF Reads
<1>9. goals \in [1..(Waiting' + 1) -> Decoded] BY <1>2, <1>3, <1>7
<1>10. QED BY <1>1, <1>8, <1>9 DEF Found

\* Steps of the innermost call.
LEMMA SameCalls ==
    ASSUME Inv, NEW h, Found(h), UNCHANGED <<input, callers, outer>>,
           pc' \in SkipPlaces <=> pc \in SkipPlaces,
           \A W, g : Current(W, g) => Current(W, g)'
    PROVE  Found(h)'
<1>1. outer \in Seq(Decoded) /\ Len(outer) = Len(callers) BY DEF Found
<1>2. Waiting' = Waiting BY DEF Waiting
<1>3. QED BY <1>1, <1>2, SameWaiting

LEMMA Idle ==
    ASSUME NEW W, NEW g, Current(W, g), UNCHANGED vars
    PROVE  Current(W, g)'
<1>1. UNCHANGED <<input, pc, call, callers, msg, acc, weight, depth>> BY DEF vars
<1>2. ASSUME NEW a, Ahead(a) PROVE Ahead(a)' BY <1>1, <1>2 DEF Ahead
<1>3. ASSUME NEW n, NEW a, Counting(n, a) PROVE Counting(n, a)'
    <2>1. PICK y \in Nat :
            /\ acc + y * weight = n
            /\ weight >= 1
            /\ weight = 1 \/ y >= 1
            /\ Ahead(encodeVarint[y] \o a)
        BY <1>3 DEF Counting
    <2>2. Ahead(encodeVarint[y] \o a)' BY <1>2, <2>1
    <2>3. QED BY <1>1, <2>1, <2>2 DEF Counting
<1>4. PICK t : t = call.type OBVIOUS
<1>5. BetweenPieces(W, g) => BetweenPieces(W, g)' BY <1>1, <1>2 DEF BetweenPieces
<1>6. ASSUME NEW p, NEW b, NEW r, Midway(p, b, r) PROVE Midway(p, b, r)'
    <2>1. Counting(p.tag, AfterTag(t, p, b, r)) => Counting(p.tag, AfterTag(t, p, b, r))' BY <1>3
    <2>2. Ahead(AfterTag(t, p, b, r)) => Ahead(AfterTag(t, p, b, r))' BY <1>2
    <2>3. Counting(Number(t, p, b), b \o r) => Counting(Number(t, p, b), b \o r)' BY <1>3
    <2>4. Ahead(b \o r) => Ahead(b \o r)' BY <1>2
    <2>5. QED BY <1>1, <1>4, <1>6, <2>1, <2>2, <2>3, <2>4 DEF Midway
<1>7. InPiece(W, g) => InPiece(W, g)' BY <1>1, <1>6 DEF InPiece
<1>8. ASSUME NEW e, NEW r, AtNewTag(t, e, r) PROVE AtNewTag(t, e, r)'
    <2>1. Counting(e.tag, AfterToken(e, r)) => Counting(e.tag, AfterToken(e, r))' BY <1>3
    <2>2. Since(encodeVarint[e.tag] \o AfterToken(e, r)) => Since(encodeVarint[e.tag] \o AfterToken(e, r))'
        BY <1>1 DEF Since
    <2>3. QED BY <1>1, <1>8, <2>1, <2>2 DEF AtNewTag
<1>9. InNewField(W, g) => InNewField(W, g)' BY <1>1, <1>4, <1>8 DEF InNewField
<1>10. ASSUME NEW e, NEW r, InToken(e, r) PROVE InToken(e, r)'
    <2>1. Counting(e.tag, AfterToken(e, r)) => Counting(e.tag, AfterToken(e, r))' BY <1>3
    <2>2. Counting(e.number, e.content \o r) => Counting(e.number, e.content \o r)' BY <1>3
    <2>3. Ahead(encodeVarint[e.tag] \o AfterToken(e, r)) => Ahead(encodeVarint[e.tag] \o AfterToken(e, r))'
        BY <1>2
    <2>4. Ahead(AfterToken(e, r)) => Ahead(AfterToken(e, r))' BY <1>2
    <2>5. Ahead(e.content \o r) => Ahead(e.content \o r)' BY <1>2
    <2>6. QED BY <1>1, <1>10, <2>1, <2>2, <2>3, <2>4, <2>5 DEF InToken
<1>11. SkipFrame => SkipFrame' BY <1>1 DEF SkipFrame, Caller
<1>12. Skipping(W, g) => Skipping(W, g)' BY <1>1, <1>2, <1>10, <1>11 DEF Skipping
<1>13. QED BY <1>1, <1>5, <1>7, <1>9, <1>12 DEF Current

\* skipGenerated is called.
LEMMA UnknownFound ==
    ASSUME Inv, NEW h, Found(h), UnknownField
    PROVE  Found(h)'
<1>1. /\ pc = "tagged" /\ pc' = "skipLoop" /\ UNCHANGED input
      /\ callers' = Append(callers, [call EXCEPT !.iNdEx = call.preIndex])
      /\ outer' = Append(outer, msg)
    BY DEF UnknownField
<1>2. PICK c : c = [call EXCEPT !.iNdEx = call.preIndex] OBVIOUS
<1>3. \E W, g : Current(W, g) BY DEF Found, Reads
<1>4. PICK m \in Decoded : m = msg
    <2>1. call.type \in Messages /\ msg \in Values[call.type] BY <1>3, CallFacts DEF Current
    <2>2. QED BY <2>1, InDecoded
<1>5. PICK n \in Nat : n = Len(callers) BY WaitingType
<1>6. outer \in Seq(Decoded) /\ Len(outer) = n /\ callers \in Seq(Call) BY <1>5, WaitingType DEF Found
<1>7. Len(callers') = n + 1 /\ \A k \in 1..n : callers'[k] = callers[k]
    <2>1. callers' = Append(callers, c) BY <1>1, <1>2
    <2>2. QED BY <1>5, <1>6, <2>1
<1>8. outer' \in Seq(Decoded) /\ Len(outer') = n + 1 /\ \A k \in 1..n : outer'[k] = outer[k]
    <2>1. outer' = Append(outer, m) BY <1>1, <1>4
    <2>2. QED BY <1>6, <2>1
<1>9. Waiting = n /\ Waiting' = n BY <1>1, <1>5, <1>7 DEF Waiting, SkipPlaces
<1>10. \A W, g : Current(W, g) => Current(W, g)' BY UnknownReads
<1>11. QED BY <1>1, <1>7, <1>8, <1>9, <1>10, SameWaiting

\* It returns.
LEMMA SkipReturnsFound ==
    ASSUME Inv, NEW h, Found(h), SkipReturns
    PROVE  Found(h)'
<1>1. /\ pc = "skipTest" /\ pc' = "loop" /\ UNCHANGED input
      /\ callers' = Pop(callers) /\ outer' = Pop(outer)
    BY DEF SkipReturns
<1>2. callers # <<>> BY <1>1 DEF Inv, Frames, SkipPlaces
<1>3. outer \in Seq(Decoded) /\ Len(outer) = Len(callers) /\ callers \in Seq(Call)
    BY WaitingType DEF Found
<1>4. PICK n \in Nat \ {0} : n = Len(callers)
    <2>1. Len(callers) \in Nat \ {0} BY <1>2, <1>3, PopType
    <2>2. QED BY <2>1
<1>5. Len(callers') = n - 1 /\ \A k \in 1..(n - 1) : callers'[k] = callers[k]
    BY <1>1, <1>2, <1>3, <1>4, PopType
<1>6. outer' \in Seq(Decoded) /\ Len(outer') = n - 1 /\ \A k \in 1..(n - 1) : outer'[k] = outer[k]
    <2>1. outer # <<>> BY <1>3, <1>4
    <2>2. QED BY <1>1, <1>3, <1>4, <2>1, PopType
<1>7. Waiting = n - 1 /\ Waiting' = n - 1 BY <1>1, <1>4, <1>5 DEF Waiting, SkipPlaces
<1>8. \A W, g : Current(W, g) => Current(W, g)' BY SkipReturnsReads
<1>9. QED BY <1>1, <1>5, <1>6, <1>7, <1>8, SameWaiting

\* A message begins inside the one that holds it: what it will have read is the item
\* merged into what was there.
LEMMA DescendFound ==
    ASSUME Inv, NEW h, Found(h), Descend
    PROVE  Found(h)'
<1>1. pc = "sized" BY DEF Descend
<1>2. outer \in Seq(Decoded) /\ Len(outer) = Len(callers) BY DEF Found
<1>3. PICK W : Writes(W) /\ \E goals \in [1..(Waiting + 1) -> Decoded] : Reads(W, h, goals) BY DEF Found
<1>4. PICK n \in Nat : n = Len(callers) /\ n = Waiting BY <1>1, WaitingType DEF Waiting, SkipPlaces
<1>5. PICK goals \in [1..(n + 1) -> Decoded] : Reads(W, h, goals) BY <1>3, <1>4
<1>6. PICK g \in Decoded : g = goals[n + 1]
    <2>1. n + 1 \in 1..(n + 1) BY <1>4
    <2>2. QED BY <1>5, <2>1
<1>7. Current(W, g) BY <1>4, <1>5, <1>6 DEF Reads
<1>8. PICK t \in Messages : \E p \in Pieced(t), b \in Texts, ps \in Seq(Pieced(t)), r \in Texts :
              /\ t = call.type
              /\ b \in Bodies(W, KindOf(t, p.tag), p.item)
              /\ Rendered(W, t, 0, ps, r)
              /\ Midway(p, b, r)
              /\ g = Applied(t, Taken(t, msg, p), ps)
    <2>1. InPiece(W, g) BY <1>1, <1>7 DEF Current, PiecePlaces, FieldPlaces, InNewField
    <2>2. QED BY <2>1, PieceAtHand
<1>9. PICK p \in Pieced(t), b \in Texts, ps \in Seq(Pieced(t)), r \in Texts :
              /\ t = call.type
              /\ b \in Bodies(W, KindOf(t, p.tag), p.item)
              /\ Rendered(W, t, 0, ps, r)
              /\ Midway(p, b, r)
              /\ msg \in Values[t]
              /\ g = Applied(t, Taken(t, msg, p), ps)
    BY <1>7, <1>8 DEF Current
<1> DEFINE f == FieldOf(p.tag)
           k == KindOf(t, p.tag)
           x == p.item
<1>10. /\ call.field = f /\ Kind = k.kind
       /\ k.kind \in MessageKinds => b \in W[k.type][x]
       /\ len = Len(b) /\ len \in Nat /\ postIndex = call.iNdEx + len
       /\ Spells(input.bytes, call.base + call.iNdEx, b)
       /\ Spells(input.bytes, call.base + postIndex, r) /\ postIndex + Len(r) = call.l
    <2>1. /\ call.field = FieldOf(p.tag) /\ Kind = KindOf(t, p.tag).kind
          /\ Embodies(W, t, p, b) /\ Sized(b, r)
        BY <1>1, <1>9, LengthRead
    <2>2. QED BY <2>1 DEF Embodies, Sized
<1>11. k.kind \in MessageKinds /\ k = Fields[t][f]
    BY <1>10 DEF Descend, IsMessage, MessageKinds, KindOf
<1>12. PICK u \in Messages : u = k.type BY <1>11, ItemOf
<1>13. x \in ValuesWith(Externals)[u] /\ x \in Values[u] BY <1>11, <1>12, ItemOf
<1>14. p \in PieceSet(t, Texts) /\ f \in DOMAIN Fields[t] BY PieceOfMessage
<1>15. DOMAIN msg = DOMAIN Fields[t] /\ msg[f] \in FieldSet(k) /\ Taken(t, msg, p) \in Values[t]
    BY <1>9, <1>14, TakenType
<1>16. PICK start \in Values[u] : start = StartOf(k, msg[f])
    <2>1. StartOf(k, msg[f]) \in Values[k.type]
        <3> DEFINE old == msg[f]
        <3>1. k.type \in Messages /\ k.kind \in MessageKinds /\ old \in FieldSet(k) BY <1>11, <1>12, <1>15
        <3> HIDE DEF old, k
        <3>2. StartOf(k, old) \in Values[k.type] BY <3>1, StartType
        <3>3. QED BY <3>2 DEF old
    <2>2. QED BY <1>12, <2>1
<1>17. PICK inner \in Values[u] : inner = Merged[u][start][x]
    BY <1>13, <1>16, MergedType DEF MergedTyped
<1>18. PICK qs \in Seq(Pieced(u)) : qs = Pieces(u, x) BY <1>13, PiecesOf
<1>19. Rendered(W, u, 0, qs, b)
    <2>1. b \in W[u][x] BY <1>10, <1>11, <1>12
    <2>2. QED BY <1>3, <1>13, <1>18, <2>1 DEF Writes
<1>20. Applied(u, start, qs) = inner BY <1>13, <1>16, <1>17, <1>18, PiecesApplied
<1>21. /\ callers' = Append(callers, [call EXCEPT !.iNdEx = postIndex])
       /\ outer' = Append(outer, msg) /\ msg' = start /\ call' = Begun(u, call.base + call.iNdEx, len)
       /\ pc' = "loop" /\ UNCHANGED input
    <2>1. Fields[call.type][call.field] = k /\ Kind = k.kind BY <1>9, <1>10, <1>11
    <2>2. Start(u) = start BY <1>10, <1>12, <1>16 DEF Start, StartOf
    <2>3. QED BY <1>12, <2>1, <2>2 DEF Descend
<1>22. /\ call'.type = u /\ call'.base = call.base + call.iNdEx /\ call'.l = len /\ call'.iNdEx = 0
    BY <1>21 DEF Begun
<1>23. Current(W, inner)'
    <2>1. Ahead(b)'
        <3>1. call.base + call.iNdEx \in Int BY CallFacts, SMTT(30)
        <3>2. call'.base + call'.iNdEx = call.base + call.iNdEx BY <1>22, <3>1
        <3>3. call'.iNdEx + Len(b) = call'.l BY <1>10, <1>22
        <3>4. Spells(input'.bytes, call'.base + call'.iNdEx, b) BY <1>10, <1>21, <3>2
        <3>5. QED BY <3>3, <3>4 DEF Ahead
    <2>2. inner = Applied(u, msg', qs) BY <1>20, <1>21
    <2>3. QED BY <1>19, <1>21, <1>22, <2>1, <2>2, NextPiece
<1>24. PICK c : c = [call EXCEPT !.iNdEx = postIndex] OBVIOUS
<1>25. PICK m \in Values[t] : m = msg BY <1>9
<1>26. c.type = t /\ c.base = call.base /\ c.l = call.l /\ c.iNdEx = postIndex /\ c.field = f
    <2>1. call \in Call /\ call.iNdEx \in Int BY CallFacts
    <2>2. postIndex \in Int BY <1>10, <2>1
    <2>3. QED BY <1>9, <1>10, <1>24, <2>1, <2>2, MovedFrame
<1>27. Resumed(c, m, inner) = Taken(t, m, p)
    <2>1. Resumed(c, m, inner) = [m EXCEPT ![f] = IF k.kind = "list" THEN Append(m[f], inner) ELSE inner]
        BY <1>11, <1>26 DEF Resumed
    <2>2. NewValue(k, m[f], x) = IF k.kind = "list" THEN Append(m[f], inner) ELSE inner
        BY <1>11, <1>12, <1>16, <1>17, <1>25 DEF NewValue
    <2>3. QED BY <2>1, <2>2 DEF Taken
<1>28. Waits(W, c, m, g, inner)'
    <2>1. Resumed(c, m, inner) \in Values[c.type] BY <1>15, <1>25, <1>26, <1>27
    <2>2. Spells(input'.bytes, c.base + c.iNdEx, r) BY <1>10, <1>21, <1>26
    <2>3. c.iNdEx + Len(r) = c.l BY <1>10, <1>26
    <2>4. g = Applied(c.type, Resumed(c, m, inner), ps) BY <1>9, <1>25, <1>26, <1>27
    <2>5. ps \in Seq(Pieced(c.type)) /\ Rendered(W, c.type, 0, ps, r) BY <1>9, <1>26
    <2>6. QED BY <1>26, <2>1, <2>2, <2>3, <2>4, <2>5 DEF Waits
<1>29. /\ Len(callers') = n + 1 /\ callers'[n + 1] = c /\ \A i \in 1..n : callers'[i] = callers[i]
    <2>1. callers \in Seq(Call) BY DEF Inv, TypeOK
    <2>2. callers' = Append(callers, c) BY <1>21, <1>24
    <2>3. n = Len(callers) BY <1>4
    <2>4. QED BY <2>1, <2>2, <2>3, SMTT(30)
<1>30. /\ outer' \in Seq(Decoded) /\ Len(outer') = n + 1 /\ outer'[n + 1] = m
       /\ \A i \in 1..n : outer'[i] = outer[i]
    <2>1. m \in Decoded BY InDecoded
    <2>2. outer' = Append(outer, m) BY <1>21, <1>25
    <2>3. QED BY <1>2, <1>4, <2>1, <2>2
<1>31. Waiting' = n + 1 BY <1>21, <1>29 DEF Waiting, SkipPlaces
<1> DEFINE now == [i \in 1..(n + 2) |-> IF i = n + 2 THEN inner ELSE goals[i]]
<1>32. /\ now \in [1..(n + 2) -> Decoded] /\ now[n + 2] = inner /\ \A i \in 1..(n + 1) : now[i] = goals[i]
    <2>1. inner \in Decoded BY InDecoded
    <2>2. \A i \in 1..(n + 2) : i # n + 2 => i \in 1..(n + 1) BY <1>4
    <2>3. \A i \in 1..(n + 1) : goals[i] \in Decoded /\ i \in 1..(n + 2) /\ i # n + 2 BY <1>4, <1>5
    <2>4. n + 2 \in 1..(n + 2) BY <1>4
    <2>5. QED BY <2>1, <2>2, <2>3, <2>4
<1> HIDE DEF now
<1>33. Reads(W, h, now)'
    <2>1. now[1] = h
        <3>1. goals[1] = h BY <1>5 DEF Reads
        <3>2. 1 \in 1..(n + 1) BY <1>4
        <3>3. QED BY <1>32, <3>1, <3>2
    <2>2. ASSUME NEW i \in 1..(n + 1) PROVE Waits(W, callers[i], outer[i], now[i], now[i + 1])'
        <3>1. CASE i = n + 1
            <4>1. now[i] = g /\ now[i + 1] = inner BY <1>4, <1>6, <1>32, <3>1
            <4>2. QED BY <1>28, <1>29, <1>30, <3>1, <4>1
        <3>2. CASE i # n + 1
            <4>1. i \in 1..n /\ i + 1 \in 1..(n + 1) BY <1>4, <3>2
            <4>2. Waits(W, callers[i], outer[i], goals[i], goals[i + 1]) BY <1>4, <1>5, <4>1 DEF Reads
            <4>3. callers'[i] = callers[i] /\ outer'[i] = outer[i] BY <1>29, <1>30, <4>1
            <4>4. now[i] = goals[i] /\ now[i + 1] = goals[i + 1] BY <1>32, <4>1
            <4>5. QED BY <1>21, <4>2, <4>3, <4>4 DEF Waits
        <3>3. QED BY <3>1, <3>2
    <2>3. Current(W, now[Waiting + 1])'
        <3>1. now[Waiting' + 1] = inner BY <1>4, <1>31, <1>32
        <3>2. QED BY <1>23, <3>1
    <2>4. QED BY <1>31, <2>1, <2>2, <2>3 DEF Reads
<1>34. now \in [1..(Waiting' + 1) -> Decoded]
    <2>1. (n + 1) + 1 = n + 2 BY <1>4
    <2>2. QED BY <1>31, <1>32, <2>1
<1>35. QED BY <1>3, <1>29, <1>30, <1>33, <1>34 DEF Found

\* A message ends: the caller takes it and goes on with its own pieces.
LEMMA AscendFound ==
    ASSUME Inv, NEW h, Found(h), Ascend
    PROVE  Found(h)'
<1>1. pc = "loop" /\ call.iNdEx >= call.l /\ callers # <<>> BY DEF Ascend
<1>2. outer \in Seq(Decoded) /\ Len(outer) = Len(callers) /\ callers \in Seq(Call) BY DEF Found, Inv, TypeOK
<1>3. PICK W : Writes(W) /\ \E goals \in [1..(Waiting + 1) -> Decoded] : Reads(W, h, goals) BY DEF Found
<1>4. PICK n \in Nat \ {0} : n = Len(callers) /\ n = Waiting
    <2>1. Len(callers) \in Nat \ {0} BY <1>1, <1>2, PopType
    <2>2. QED BY <1>1, <2>1 DEF Waiting, SkipPlaces
<1>5. PICK goals \in [1..(n + 1) -> Decoded] : Reads(W, h, goals) BY <1>3, <1>4
<1>6. PICK inner \in Decoded : inner = goals[n + 1]
    <2>1. n + 1 \in 1..(n + 1) BY <1>4
    <2>2. QED BY <1>5, <2>1
<1>7. Current(W, inner) BY <1>4, <1>5, <1>6 DEF Reads
<1>8. msg = inner BY <1>1, <1>7, EndRead
<1>9. PICK c \in Call : c = Caller
    <2>1. Caller \in Call BY <1>1, <1>2, PopType DEF Caller
    <2>2. QED BY <2>1
<1>10. PICK m \in Decoded : m = outer[n]
    <2>1. n \in 1..Len(outer) BY <1>2, <1>4
    <2>2. QED BY <1>2, <2>1
<1>11. PICK g \in Decoded : g = goals[n]
    <2>1. n \in 1..(n + 1) BY <1>4
    <2>2. QED BY <1>5, <2>1
<1>12. Waits(W, c, m, g, inner)
    <2>1. n \in 1..Waiting BY <1>4
    <2>2. Waits(W, callers[n], outer[n], goals[n], goals[n + 1]) BY <1>5, <2>1 DEF Reads
    <2>3. callers[n] = c BY <1>4, <1>9 DEF Caller
    <2>4. QED BY <1>6, <1>10, <1>11, <2>2, <2>3
<1>13. PICK t \in Messages : t = c.type BY <1>12 DEF Waits
<1>14. PICK now \in Values[t] : now = Resumed(c, m, inner) BY <1>12, <1>13 DEF Waits
<1>15. PICK ps \in Seq(Pieced(t)), r \in Texts :
        /\ Rendered(W, t, 0, ps, r)
        /\ Spells(input.bytes, c.base + c.iNdEx, r)
        /\ c.iNdEx + Len(r) = c.l
        /\ g = Applied(t, now, ps)
    BY <1>12, <1>13, <1>14 DEF Waits
<1>16. /\ call' = c /\ callers' = Pop(callers) /\ outer' = Pop(outer) /\ UNCHANGED <<input, pc>>
       /\ msg' = now
    <2>1. msg' = [outer[Len(outer)] EXCEPT
                    ![Caller.field] = IF Fields[Caller.type][Caller.field].kind = "list"
                                      THEN Append(@, msg) ELSE msg]
        BY DEF Ascend
    <2>2. outer[Len(outer)] = m BY <1>2, <1>4, <1>10
    <2>3. msg' = Resumed(c, m, inner) BY <1>8, <1>9, <2>1, <2>2 DEF Resumed
    <2>4. QED BY <1>9, <1>14, <2>3 DEF Ascend
<1>17. Current(W, g)'
    <2>1. Ahead(r)' BY <1>15, <1>16 DEF Ahead
    <2>2. call'.type = t /\ pc' = "loop" BY <1>1, <1>13, <1>16
    <2>3. msg' \in Values[t] /\ g = Applied(t, msg', ps) BY <1>14, <1>15, <1>16
    <2>4. QED BY <1>15, <2>1, <2>2, <2>3, NextPiece
<1>18. Len(callers') = n - 1 /\ \A i \in 1..(n - 1) : callers'[i] = callers[i]
    BY <1>1, <1>2, <1>4, <1>16, PopType
<1>19. /\ outer' \in Seq(Decoded) /\ Len(outer') = n - 1
       /\ \A i \in 1..(n - 1) : outer'[i] = outer[i]
    <2>1. outer # <<>> BY <1>2, <1>4
    <2>2. QED BY <1>2, <1>4, <1>16, <2>1, PopType
<1>20. Waiting' = n - 1 BY <1>1, <1>16, <1>18 DEF Waiting, SkipPlaces
<1> DEFINE left == [i \in 1..n |-> goals[i]]
<1>21. /\ left \in [1..n -> Decoded] /\ left[n] = g /\ \A i \in 1..n : left[i] = goals[i]
    <2>1. \A i \in 1..n : goals[i] \in Decoded
        <3>1. \A i \in 1..n : i \in 1..(n + 1) BY <1>4
        <3>2. QED BY <1>5, <3>1
    <2>2. n \in 1..n BY <1>4
    <2>3. QED BY <1>11, <2>1, <2>2
<1> HIDE DEF left
<1>22. Reads(W, h, left)'
    <2>1. left[1] = h
        <3>1. goals[1] = h BY <1>5 DEF Reads
        <3>2. 1 \in 1..n BY <1>4
        <3>3. QED BY <1>21, <3>1, <3>2
    <2>2. ASSUME NEW i \in 1..(n - 1) PROVE Waits(W, callers[i], outer[i], left[i], left[i + 1])'
        <3>1. i \in 1..n /\ i + 1 \in 1..n BY <1>4
        <3>2. Waits(W, callers[i], outer[i], goals[i], goals[i + 1]) BY <1>4, <1>5, <3>1 DEF Reads
        <3>3. callers'[i] = callers[i] /\ outer'[i] = outer[i] BY <1>18, <1>19
        <3>4. left[i] = goals[i] /\ left[i + 1] = goals[i + 1] BY <1>21, <3>1
        <3>5. QED BY <1>16, <3>2, <3>3, <3>4 DEF Waits
    <2>3. Current(W, left[Waiting + 1])'
        <3>1. left[Waiting' + 1] = g
            <4>1. (n - 1) + 1 = n BY <1>4
            <4>2. QED BY <1>20, <1>21, <4>1
        <3>2. QED BY <1>17, <3>1
    <2>4. QED BY <1>20, <2>1, <2>2, <2>3 DEF Reads
<1>23. left \in [1..(Waiting' + 1) -> Decoded]
    <2>1. (n - 1) + 1 = n BY <1>4
    <2>2. QED BY <1>20, <1>21, <2>1
<1>24. QED BY <1>3, <1>18, <1>19, <1>22, <1>23 DEF Found

-----------------------------------------------------------------------------
\* Every step of the loop over the fields, and of what it reads, reads on;
LEMMA FieldStepFound ==
    ASSUME Inv, NEW h, Found(h),
           Turn \/ BeginField \/ Field \/ TakeValue \/ TakeBytes \/ Finish \/ UNCHANGED vars
    PROVE  Found(h)'
<1>1. CASE Turn
    <2>1. \A W, g : Current(W, g) => Current(W, g)' BY <1>1, TurnReads
    <2>2. pc' \in SkipPlaces <=> pc \in SkipPlaces BY <1>1 DEF Turn, VarintLoops, After, SkipPlaces
    <2>3. QED BY <1>1, <2>1, <2>2, SameCalls DEF Turn
<1>2. CASE BeginField
    <2>1. \A W, g : Current(W, g) => Current(W, g)' BY <1>2, BeginFieldReads
    <2>2. QED BY <1>2, <2>1, SameCalls DEF BeginField, ReadVarint, SkipPlaces
<1>3. CASE Field
    <2>1. \A W, g : Current(W, g) => Current(W, g)' BY <1>3, FieldReads
    <2>2. QED BY <1>3, <2>1, SameCalls DEF Field, ReadVarint, SkipPlaces
<1>4. CASE TakeValue
    <2>1. \A W, g : Current(W, g) => Current(W, g)' BY <1>4, TakeValueReads
    <2>2. QED BY <1>4, <2>1, SameCalls DEF TakeValue, SkipPlaces
<1>5. CASE TakeBytes
    <2>1. \A W, g : Current(W, g) => Current(W, g)' BY <1>5, TakeBytesReads
    <2>2. QED BY <1>5, <2>1, SameCalls DEF TakeBytes, SkipPlaces
<1>6. CASE Finish
    <2>1. \A W, g : Current(W, g) => Current(W, g)' BY <1>6, FinishReads
    <2>2. QED BY <1>6, <2>1, SameCalls DEF Finish, SkipPlaces
<1>7. CASE UNCHANGED vars
    <2>1. \A W, g : Current(W, g) => Current(W, g)' BY <1>7, Idle
    <2>2. QED BY <1>7, <2>1, SameCalls DEF vars
<1>8. QED BY <1>1, <1>2, <1>3, <1>4, <1>5, <1>6, <1>7

\* so does every step inside skipGenerated.
LEMMA SkipStepFound ==
    ASSUME Inv, NEW h, Found(h),
           SkipLoop \/ SkipValue \/ SkipFixed \/ SkipLength \/ SkipGroup \/ SkipOn
    PROVE  Found(h)'
<1>1. \A W, g : Current(W, g) => Current(W, g)'
    BY SkipLoopReads, SkipValueReads, SkipFixedReads, SkipLengthReads, SkipGroupReads, SkipOnReads
<1>2. pc \in SkipPlaces /\ pc' \in SkipPlaces /\ UNCHANGED <<input, callers, outer>>
    BY DEF SkipLoop, SkipValue, SkipFixed, SkipLength, SkipGroup, SkipOn, Advance, ReadVarint, SkipPlaces
<1>3. QED BY <1>1, <1>2, SameCalls

LEMMA NextFound ==
    ASSUME Inv, NEW h, Found(h), [Next]_vars
    PROVE  Found(h)'
<1>1. ~Fail
    <2>1. \E W, g : Current(W, g) BY DEF Found, Reads
    <2>2. QED BY <2>1, NotRefused DEF Fail
<1>2. Rest => UNCHANGED vars BY DEF Rest
<1>3. QED BY <1>1, <1>2, FieldStepFound, SkipStepFound, UnknownFound, SkipReturnsFound, DescendFound,
             AscendFound
      DEF Next

\* Every step reads on in what was written.
LEMMA NextFaithful == Inv /\ Faithful /\ [Next]_vars => Faithful'
<1> SUFFICES ASSUME Inv, Faithful, [Next]_vars PROVE Faithful' OBVIOUS
<1>1. UNCHANGED input
    BY DEF Next, vars, Turn, BeginField, Field, UnknownField, TakeValue, TakeBytes, Descend, Ascend,
           Finish, SkipLoop, SkipValue, SkipFixed, SkipLength, SkipGroup, SkipOn, SkipReturns, Advance,
           Fail, Rest
<1>2. PICK x : x = input OBVIOUS
<1>3. x' = x /\ input' = x BY <1>1, <1>2
<1>4. \A h : Found(h) => Found(h)' BY NextFound
<1>5. FromMarshal(x) => Found(MergedAll(x.type, x.parts))' BY <1>2, <1>4 DEF Faithful
<1>6. FromNewer(x) => Found(x.known)' BY <1>2, <1>4 DEF Faithful
<1>7. QED BY <1>3, <1>5, <1>6 DEF Faithful

\* What is found at the end is what was to be found, and there is an end without an error.
LEMMA FoundIsRead ==
    ASSUME NEW h, Found(h)
    PROVE  pc # "failed" /\ (pc = "done" => msg = h)
<1>1. PICK W : \E goals \in [1..(Waiting + 1) -> Decoded] : Reads(W, h, goals) BY DEF Found
<1>2. PICK goals \in [1..(Waiting + 1) -> Decoded] : Reads(W, h, goals) BY <1>1
<1>3. Current(W, goals[Waiting + 1]) /\ goals[1] = h BY <1>2 DEF Reads
<1>4. pc # "failed" BY <1>3 DEF Current, PiecePlaces, FieldPlaces, SkipPlaces
<1>5. pc = "done" => callers = <<>> /\ msg = goals[Waiting + 1] BY <1>3 DEF Current
<1>6. pc = "done" /\ callers = <<>> => Waiting + 1 = 1 BY DEF Waiting, SkipPlaces
<1>7. QED BY <1>3, <1>4, <1>5, <1>6

LEMMA FaithfulAlways == Spec => []Faithful
BY InitInv, NextInv, InitFaithful, NextFaithful, PTL DEF Spec

\* Whatever messages Marshal is given, of whatever size and however nested, Unmarshal
\* accepts what it wrote and finds the messages in it again, merged where there are several.
THEOREM ReadsBackAlways == Spec => []ReadsBack
<1>1. Faithful => ReadsBack BY FoundIsRead DEF Faithful, ReadsBack
<1>2. QED BY <1>1, FaithfulAlways, PTL

\* Whatever fields of a newer version stand before, between and behind those Unmarshal
\* knows, in whatever message and with whatever groups in them, it accepts what was
\* written and finds what it would have found without them.
THEOREM SkipsUnknownAlways == Spec => []SkipsUnknown
<1>1. Faithful => SkipsUnknown BY FoundIsRead DEF Faithful, SkipsUnknown
<1>2. QED BY <1>1, FaithfulAlways, PTL
=============================================================================
