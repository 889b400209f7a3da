----------------------------- MODULE ProtoDecoder -----------------------------
(***************************************************************************)
(* Unmarshal of the generated.pb.go files and skipGenerated, one step per  *)
(* byte read and per decision: a stack of calls, each on a slice of the    *)
(* input.                                                                  *)
(*                                                                         *)
(* Lengths and indices overflow as in the code.  The error returns are not *)
(* told apart: "failed".                                                   *)
(***************************************************************************)
EXTENDS ApiMessages

CONSTANTS
    Inputs,     \* records with the fields type and bytes: calls to Unmarshal
    Externals   \* what Unmarshal of ObjectMeta, ListMeta and Time accepts

ASSUME InputsAssumption ==
    \A x \in Inputs :
        /\ x.type \in Messages
        /\ x.bytes \in Seq(0..255)
        /\ 2 * Len(x.bytes) < Word

VARIABLES
    input,      \* the call the program made
    pc,         \* where the innermost call is
    call,       \* its slice and indices
    callers,    \* the calls that wait for it, outermost first
    msg,        \* m, the message it decodes into
    outer,      \* outer[k]: the message callers[k] decodes into
    acc,        \* the varint read so far: wire, msglen, stringLen, v, ...
    weight,     \* 2^shift
    depth       \* depth, in skipGenerated

vars == <<input, pc, call, callers, msg, outer, acc, weight, depth>>

-----------------------------------------------------------------------------
\* int(x) of a uint64, and the sum of two ints.
Int64(x) == IF 2 * x < Word THEN x ELSE x - Word

\* int32(x) of a uint64.
ToInt32(x) == LET y == x % Word32 IN IF 2 * y < Word32 THEN y ELSE y - Word32

\* A call works on input.bytes[base..base+l); the slice of a skipGenerated has the
\* type of its caller.  Of a call that waits, iNdEx is where it goes on.
Call == [type : Messages, base : Nat, l : Nat, iNdEx : Int, preIndex : Nat, field : Nat]

\* l := len(dAtA); iNdEx := 0
Begun(t, from, n) ==
    [type |-> t, base |-> from, l |-> n, iNdEx |-> 0, preIndex |-> 0, field |-> 0]

VarintLoops == {"tag", "length", "value", "skipTag", "skipVarint", "skipLength"}
Tests == {"loop", "tagged", "sized", "valued", "skipLoop", "skipTagged", "skipSized", "skipTest"}
Returned == {"done", "failed"}

TypeOK ==
    /\ pc \in VarintLoops \cup Tests \cup Returned
    /\ call \in Call
    /\ callers \in Seq(Call)
    /\ acc \in 0..(Word - 1)
    /\ weight \in Nat
    /\ depth \in Nat

Init ==
    /\ input \in Inputs
    /\ pc = "loop"
    /\ call = Begun(input.type, 0, Len(input.bytes))
    /\ callers = <<>>
    /\ msg = Zero[input.type]
    /\ outer = <<>>
    /\ acc = 0
    /\ weight = 1
    /\ depth = 0

-----------------------------------------------------------------------------
(* for shift := uint(0); ; shift += 7 {...}                                *)

\* dAtA[n], dAtA[from:to]
ByteAt(n) == input.bytes[call.base + n + 1]
Slice(from, to) == SubSeq(input.bytes, call.base + from + 1, call.base + to)

ReadVarint(place) ==
    /\ pc' = place
    /\ acc' = 0
    /\ weight' = 1

\* Where the loop goes when it breaks.
After == [tag |-> "tagged", length |-> "sized", value |-> "valued",
          skipTag |-> "skipTagged", skipVarint |-> "skipTest", skipLength |-> "skipSized"]

Turn ==
    /\ pc \in VarintLoops
    /\ weight < Word
    /\ call.iNdEx < call.l
    /\ call' = [call EXCEPT !.iNdEx = @ + 1]
    /\ acc' = (acc + (ByteAt(call.iNdEx) % 128) * weight) % Word
    /\ weight' = 128 * weight
    /\ pc' = IF ByteAt(call.iNdEx) < 128 THEN After[pc] ELSE pc
    /\ UNCHANGED <<input, callers, msg, outer, depth>>

VarintRefused == pc \in VarintLoops /\ (weight >= Word \/ call.iNdEx >= call.l)

-----------------------------------------------------------------------------
(* The loop over the fields.                                               *)

BeginField ==
    /\ pc = "loop"
    /\ call.iNdEx < call.l
    /\ call' = [call EXCEPT !.preIndex = call.iNdEx]
    /\ ReadVarint("tag")
    /\ UNCHANGED <<input, callers, msg, outer, depth>>

fieldNum == ToInt32(acc \div 8)
wireType == acc % 8
TagOK == wireType # 4 /\ fieldNum > 0

Known(t, f) == f \in DOMAIN Fields[t] /\ Fields[t][f].kind # "gap"
Kind == Fields[call.type][call.field].kind

WireType(kind) == IF kind \in {"bool", "int32", "optInt32"} THEN 0 ELSE 2

Field ==
    /\ pc = "tagged"
    /\ TagOK
    /\ Known(call.type, fieldNum)
    /\ wireType = WireType(Fields[call.type][fieldNum].kind)
    /\ call' = [call EXCEPT !.field = fieldNum]
    /\ ReadVarint(IF wireType = 0 THEN "value" ELSE "length")
    /\ UNCHANGED <<input, callers, msg, outer, depth>>

\* default: skipGenerated(dAtA[preIndex:])
UnknownField ==
    /\ pc = "tagged"
    /\ TagOK
    /\ ~Known(call.type, fieldNum)
    /\ callers' = Append(callers, [call EXCEPT !.iNdEx = call.preIndex])
    /\ outer' = Append(outer, msg)
    /\ call' = Begun(call.type, call.base + call.preIndex, call.l - call.preIndex)
    /\ depth' = 0
    /\ pc' = "skipLoop"
    /\ UNCHANGED <<input, msg, acc, weight>>

TagRefused ==
    /\ pc = "tagged"
    /\ \/ ~TagOK
       \/ /\ Known(call.type, fieldNum)
          /\ wireType # WireType(Fields[call.type][fieldNum].kind)

-----------------------------------------------------------------------------
(* The cases of the switch.                                                *)

Assign(x) == msg' = [msg EXCEPT ![call.field] = x]

Value == IF Kind = "bool" THEN acc # 0 ELSE ToInt32(acc)

TakeValue ==
    /\ pc = "valued"
    /\ Assign(Value)
    /\ pc' = "loop"
    /\ UNCHANGED <<input, call, callers, outer, acc, weight, depth>>

len == Int64(acc)
postIndex == Int64(call.iNdEx + len)

\* Mutant: the sum is not tested for overflow.
LengthUntested == len >= 0 /\ postIndex <= call.l

\* Mutant: the length is not tested for its sign.
LengthSignUntested == postIndex >= 0 /\ postIndex <= call.l

LengthOK == len >= 0 /\ postIndex >= 0 /\ postIndex <= call.l

IsMessage == Kind \in {"struct", "pointer", "list"}
IsExternal == Kind \in {"meta", "time"}

Read == Slice(call.iNdEx, postIndex)

\* The code and, for an external message, its own Unmarshal agree.
Accepted == LengthOK /\ (IsExternal => Read \in Externals)

TakeBytes ==
    /\ pc = "sized"
    /\ Accepted
    /\ ~IsMessage
    /\ Assign(IF Kind = "meta" THEN msg[call.field] \o Read ELSE Read)
    /\ call' = [call EXCEPT !.iNdEx = postIndex]
    /\ pc' = "loop"
    /\ UNCHANGED <<input, callers, outer, acc, weight, depth>>

\* Mutant: Service is allocated whether it is nil or not.
StartAnew(t) == IF Kind = "struct" THEN msg[call.field] ELSE Zero[t]

\* The message decoded into: a struct or an allocated pointer keeps what it holds.
Start(t) ==
    IF Kind = "struct" \/ (Kind = "pointer" /\ msg[call.field] # Nil)
    THEN msg[call.field]
    ELSE Zero[t]

\* m.Spec.Unmarshal(dAtA[iNdEx:postIndex])
Descend ==
    LET t == Fields[call.type][call.field].type IN
    /\ pc = "sized"
    /\ Accepted
    /\ IsMessage
    /\ callers' = Append(callers, [call EXCEPT !.iNdEx = postIndex])
    /\ outer' = Append(outer, msg)
    /\ msg' = Start(t)
    /\ call' = Begun(t, call.base + call.iNdEx, len)
    /\ pc' = "loop"
    /\ UNCHANGED <<input, acc, weight, depth>>

LengthRefused == pc = "sized" /\ ~Accepted

-----------------------------------------------------------------------------
(* The end of the loop over the fields.                                    *)

Caller == callers[Len(callers)]
Pop(s) == SubSeq(s, 1, Len(s) - 1)

\* if err := m.Spec.Unmarshal(...); err != nil; iNdEx = postIndex
Ascend ==
    LET f == Caller.field
        isList == Fields[Caller.type][f].kind = "list"
    IN
    /\ pc = "loop"
    /\ call.iNdEx >= call.l
    /\ callers # <<>>
    /\ call' = Caller
    /\ callers' = Pop(callers)
    /\ msg' = [outer[Len(outer)] EXCEPT ![f] = IF isList THEN Append(@, msg) ELSE msg]
    /\ outer' = Pop(outer)
    /\ UNCHANGED <<input, pc, acc, weight, depth>>

\* if iNdEx > l { return io.ErrUnexpectedEOF }; return nil
Finish ==
    /\ pc = "loop"
    /\ call.iNdEx >= call.l
    /\ callers = <<>>
    /\ pc' = IF call.iNdEx > call.l THEN "failed" ELSE "done"
    /\ UNCHANGED <<input, call, callers, msg, outer, acc, weight, depth>>

-----------------------------------------------------------------------------
(* skipGenerated.                                                          *)

SkipLoop ==
    /\ pc = "skipLoop"
    /\ call.iNdEx < call.l
    /\ ReadVarint("skipTag")
    /\ UNCHANGED <<input, call, callers, msg, outer, depth>>

SkipValue ==
    /\ pc = "skipTagged"
    /\ \/ wireType = 0 /\ ReadVarint("skipVarint")
       \/ wireType = 2 /\ ReadVarint("skipLength")
    /\ UNCHANGED <<input, call, callers, msg, outer, depth>>

\* iNdEx += n
Advance(n) ==
    /\ call' = [call EXCEPT !.iNdEx = Int64(@ + n)]
    /\ pc' = "skipTest"
    /\ UNCHANGED <<input, callers, msg, outer, acc, weight, depth>>

SkipFixed ==
    /\ pc = "skipTagged"
    /\ \/ wireType = 1 /\ Advance(8)
       \/ wireType = 5 /\ Advance(4)

SkipLength ==
    /\ pc = "skipSized"
    /\ len >= 0
    /\ Advance(len)

\* Mutant: a group that opens in a group is not counted.
SkipGroupFlat ==
    /\ pc = "skipTagged"
    /\ \/ wireType = 3 /\ depth' = 1
       \/ wireType = 4 /\ depth > 0 /\ depth' = depth - 1
    /\ pc' = "skipTest"
    /\ UNCHANGED <<input, call, callers, msg, outer, acc, weight>>

SkipGroup ==
    /\ pc = "skipTagged"
    /\ \/ wireType = 3 /\ depth' = depth + 1
       \/ wireType = 4 /\ depth > 0 /\ depth' = depth - 1
    /\ pc' = "skipTest"
    /\ UNCHANGED <<input, call, callers, msg, outer, acc, weight>>

SkipOn ==
    /\ pc = "skipTest"
    /\ call.iNdEx >= 0
    /\ depth > 0
    /\ pc' = "skipLoop"
    /\ UNCHANGED <<input, call, callers, msg, outer, acc, weight, depth>>

\* Mutant: the caller does not add what was skipped.
skipToStart == Caller.iNdEx

\* iNdEx + skippy, in the caller
skipTo == Int64(Caller.iNdEx + call.iNdEx)

SkipReturns ==
    /\ pc = "skipTest"
    /\ call.iNdEx >= 0
    /\ depth = 0
    /\ skipTo >= 0
    /\ skipTo <= Caller.l
    /\ call' = [Caller EXCEPT !.iNdEx = skipTo]
    /\ callers' = Pop(callers)
    /\ outer' = Pop(outer)
    /\ pc' = "loop"
    /\ UNCHANGED <<input, msg, acc, weight, depth>>

SkipRefused ==
    \/ pc = "skipLoop" /\ call.iNdEx >= call.l
    \/ pc = "skipTagged" /\ (wireType \in {6, 7} \/ (wireType = 4 /\ depth = 0))
    \/ pc = "skipSized" /\ len < 0
    \/ pc = "skipTest" /\ call.iNdEx < 0
    \/ pc = "skipTest" /\ call.iNdEx >= 0 /\ depth = 0 /\ ~(skipTo >= 0 /\ skipTo <= Caller.l)

-----------------------------------------------------------------------------
Fail ==
    /\ VarintRefused \/ TagRefused \/ LengthRefused \/ SkipRefused
    /\ pc' = "failed"
    /\ UNCHANGED <<input, call, callers, msg, outer, acc, weight, depth>>

\* The program has its answer.
Rest == pc \in Returned /\ UNCHANGED vars

Next ==
    \/ Turn
    \/ BeginField \/ Field \/ UnknownField
    \/ TakeValue \/ TakeBytes \/ Descend \/ Ascend \/ Finish
    \/ SkipLoop \/ SkipValue \/ SkipFixed \/ SkipLength \/ SkipGroup \/ SkipOn \/ SkipReturns
    \/ Fail
    \/ Rest

Spec == Init /\ [][Next]_vars

\* The code is sequential: it goes on.
FairSpec == Spec /\ WF_vars(Next)

-----------------------------------------------------------------------------
\* The slices of the calls lie in the input, each in its caller's.
Inner(k) == IF k = Len(callers) THEN call ELSE callers[k + 1]

Nested ==
    /\ call.base + call.l <= Len(input.bytes)
    /\ \A k \in DOMAIN callers :
        /\ callers[k].base + callers[k].l <= Len(input.bytes)
        /\ callers[k].base <= Inner(k).base
        /\ Inner(k).base + Inner(k).l <= callers[k].base + callers[k].l

\* Whatever the bytes, no index or slice expression is out of range: a varint is read,
\* and a skip begun, inside the slice; only skipGenerated, which tests before it reads,
\* lets its index run past the end; a caller goes on inside its own slice.
InBounds ==
    /\ Nested
    /\ pc \notin {"skipTest", "skipLoop", "failed"} => call.iNdEx \in 0..call.l
    /\ pc \in {"tag", "tagged"} => call.preIndex <= call.iNdEx
    /\ \A k \in DOMAIN callers : callers[k].iNdEx \in 0..callers[k].l

\* Whatever the bytes, Unmarshal returns.
Returns == <>(pc \in Returned)
=============================================================================
