---------------------------- MODULE ProtoRoundTrip ----------------------------
(***************************************************************************)
(* Encoder and decoder together: inputs made by Marshal, with the messages *)
(* that Unmarshal has to find in them.                                     *)
(***************************************************************************)
EXTENDS ProtoDecoder, ProtoEncoder

\* What a field with the value v is after w has come: the later value counts, messages,
\* by merged, and lists are joined.
MergedField(merged, k, v, w) ==
    CASE k.kind \in {"text", "time", "bool", "int32", "gap"} -> w
      [] k.kind \in {"meta", "list"} -> v \o w
      [] k.kind = "struct" -> merged[k.type][v][w]
      [] k.kind \in {"bytes", "optInt32"} -> IF w = Nil THEN v ELSE w
      [] k.kind = "pointer" -> IF w = Nil THEN v ELSE IF v = Nil THEN w ELSE merged[k.type][v][w]

\* What the wire format means by two encodings one after the other.
Merged[t \in Messages] == [v \in Values[t] |-> [w \in Values[t] |->
    [f \in DOMAIN Fields[t] |-> MergedField(Merged, Fields[t][f], v[f], w[f])]]]

MergedAll(t, parts) ==
    LET m[i \in 1..Len(parts)] == IF i = 1 THEN parts[1] ELSE Merged[t][m[i - 1]][parts[i]]
    IN m[Len(parts)]

-----------------------------------------------------------------------------
(* Inputs.  Others than these are any bytes, and say nothing of what is to *)
(* be found in them.                                                       *)

MarshalledAll(t, parts) == FlattenSeq([i \in DOMAIN parts |-> Marshal(t, parts[i])])

Joined(t, parts) == [type |-> t, bytes |-> MarshalledAll(t, parts), parts |-> parts]

Encoded(t, v) == Joined(t, <<v>>)

FromMarshal(x) == "parts" \in DOMAIN x

ASSUME JoinedAssumption ==
    \A x \in Inputs : FromMarshal(x) =>
        /\ x.parts \in Seq(ValuesWith(Externals)[x.type])
        /\ x.parts # <<>>
        /\ x.bytes = MarshalledAll(x.type, x.parts)

\* Tags are words and field numbers int32; int32(x) is the low part of a word.
ASSUME WidthAssumption ==
    /\ Externals \subseteq Texts
    /\ Word % Word32 = 0
    /\ \A t \in Messages : \A j \in DOMAIN Tags[t] :
        Tags[t][j] < Word /\ 2 * FieldOf(Tags[t][j]) < Word32

-----------------------------------------------------------------------------
(* Fields that only a newer version knows, token by token, as               *)
(* skipGenerated goes through them.                                         *)

\* A tag with the number and the bytes its wire type asks for; level groups are open
\* after it.
Token == [tag : 0..(Word - 1), number : 0..(Word - 1), content : Texts, level : Nat]

Opens(wire) == IF wire = 3 THEN 1 ELSE IF wire = 4 THEN -1 ELSE 0

\* e can stand where n groups are open.
Follows(e, n) ==
    LET wire == e.tag % 8 IN
    /\ e \in Token
    /\ wire \in 0..5
    /\ e.level = n + Opens(wire)
    /\ Len(e.content) = CASE wire = 1 -> 8 [] wire = 2 -> e.number [] wire = 5 -> 4 [] OTHER -> 0

TokenBytes(e) ==
    encodeVarint[e.tag] \o (IF e.tag % 8 \in {0, 2} THEN encodeVarint[e.number] ELSE <<>>) \o e.content

TokensBytes(us) == FlattenSeq([i \in DOMAIN us |-> TokenBytes(us[i])])

\* What stands from where n groups are open until none is.
Group(us, n) ==
    /\ us \in Seq(Token) /\ us # <<>>
    /\ \A i \in DOMAIN us :
        /\ Follows(us[i], IF i = 1 THEN n ELSE us[i - 1].level)
        /\ us[i].level = 0 <=> i = Len(us)

Unfamiliar(t, tag) == LET f == ToInt32(tag \div 8) IN f > 0 /\ ~Known(t, f)

\* us is a field that Unmarshal of t has no case for, with the groups in it.
NewField(t, us) == Group(us, 0) /\ Unfamiliar(t, us[1].tag)

\* extra[<<t, at>>] are the new fields at the place at: those of the message of type t
\* that the pieces at[1], at[2], ... lead to, after its piece at[Len(at)].
Between(extra, t, at) ==
    IF <<t, at>> \in DOMAIN extra
    THEN FlattenSeq([i \in DOMAIN extra[<<t, at>>] |-> TokensBytes(extra[<<t, at>>][i])])
    ELSE <<>>

\* What a newer version writes where Marshal writes the message v of type t.
Newer(extra) ==
    LET written[t \in Messages] == [at \in Seq(Nat) |-> [v \in Values[t] |->
            LET p == Pieces(t, v)
                inner(c) == [u \in Messages |-> written[u][Append(at, c)]]
            IN Between(extra, t, Append(at, 0)) \o FlattenSeq([c \in DOMAIN p |->
                    Chunk(inner(c), t, p[c]) \o Between(extra, t, Append(at, c))])]]
    IN written

Extended(t, v, extra) == [type |-> t, bytes |-> Newer(extra)[t][<<>>][v], known |-> v, extra |-> extra]

FromNewer(x) == "known" \in DOMAIN x

ASSUME NewerAssumption ==
    \A x \in Inputs : FromNewer(x) =>
        /\ x.known \in ValuesWith(Externals)[x.type]
        /\ x.bytes = Newer(x.extra)[x.type][<<>>][x.known]
        /\ \A place \in DOMAIN x.extra :
            /\ x.extra[place] \in Seq(Seq(Token))
            /\ \A i \in DOMAIN x.extra[place] : NewField(place[1], x.extra[place][i])

-----------------------------------------------------------------------------
\* What Marshal wrote is read back, nil and empty, zero and negative values told
\* apart; encodings in a row are merged.
ReadsBack ==
    FromMarshal(input) =>
        /\ pc # "failed"
        /\ pc = "done" => msg = MergedAll(input.type, input.parts)

\* Fields only a newer version knows, groups in groups included, before, between and
\* after the known ones of every message, change nothing in what is read.
SkipsUnknown ==
    FromNewer(input) =>
        /\ pc # "failed"
        /\ pc = "done" => msg = input.known

\* Size is what MarshalToSizedBuffer fills: no panic before its front, no gap at it.
SizeExact ==
    FromMarshal(input) /\ pc = "done" =>
        \A i \in DOMAIN input.parts :
            Size[input.type][input.parts[i]] = Len(Written[input.type][input.parts[i]])
=============================================================================
