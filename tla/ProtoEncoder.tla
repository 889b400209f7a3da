----------------------------- MODULE ProtoEncoder -----------------------------
(***************************************************************************)
(* Size and MarshalToSizedBuffer of the generated.pb.go files, as          *)
(* functions of a message.  MarshalToSizedBuffer fills the buffer from its *)
(* end; what it leaves there is given here from the front.                 *)
(***************************************************************************)
EXTENDS ApiMessages, SequencesExt

\* uint64(x) of an int32 or an int: the sign is extended.
Uint64(x) == IF x < 0 THEN x + Word ELSE x

\* bits.Len64(x): the number of bits of x.
Len64[x \in Nat] == IF x = 0 THEN 0 ELSE 1 + Len64[x \div 2]

\* Mutant: x|1 is left out, and 0 has no byte.
sovOfZero(x) == (Len64[x] + 6) \div 7

sovGenerated(x) == (Len64[IF x % 2 = 0 THEN x + 1 ELSE x] + 6) \div 7

\* What the loop writes; the code makes room for sovGenerated(v) bytes before it.
encodeVarint[v \in Nat] ==
    IF v < 128 THEN <<v>> ELSE <<128 + (v % 128)>> \o encodeVarint[v \div 128]

-----------------------------------------------------------------------------
\* Whether a field is written at all; only nil is left out, "", 0 and [] are not.
Present(kind, x) == kind \in {"gap", "bytes", "optInt32", "pointer"} => x # Nil

\* What is written for a field: once, or once per item.
Items(kind, x) == IF kind = "list" THEN x ELSE IF Present(kind, x) THEN <<x>> ELSE <<>>

FieldOf(tag) == tag \div 8
KindOf(t, tag) == Fields[t][FieldOf(tag)]

\* What is written of the message v, in order: tags, each with what follows it.
Pieces(t, v) ==
    FlattenSeq([j \in DOMAIN Tags[t] |->
        LET tag == Tags[t][j]
            items == Items(KindOf(t, tag).kind, v[FieldOf(tag)])
        IN [i \in DOMAIN items |-> [tag |-> tag, item |-> items[i]]]])

\* The bytes of x, a length before them where the kind asks for one; a message in
\* another is written by messages, the function below.
Content(messages, k, x) ==
    CASE k.kind = "bool" -> <<IF x THEN 1 ELSE 0>>
      [] k.kind \in {"int32", "optInt32"} -> encodeVarint[Uint64(x)]
      [] k.kind \in {"struct", "pointer", "list"} -> messages[k.type][x]
      [] OTHER -> x

IsVarint(k) == k.kind \in {"bool", "int32", "optInt32"}

Payload(messages, k, x) ==
    LET content == Content(messages, k, x) IN
    IF IsVarint(k) THEN content ELSE encodeVarint[Len(content)] \o content

Chunk(messages, t, p) == <<p.tag>> \o Payload(messages, KindOf(t, p.tag), p.item)

\* The bytes of a message of type t with the fields v.
Written[t \in Messages] == [v \in Values[t] |->
    LET p == Pieces(t, v) IN FlattenSeq([c \in DOMAIN p |-> Chunk(Written, t, p[c])])]

-----------------------------------------------------------------------------
\* n += ..., over a sequence.
Total[s \in Seq(Nat)] ==
    LET n[i \in 0..Len(s)] == IF i = 0 THEN 0 ELSE n[i - 1] + s[i] IN n[Len(s)]

\* What l bytes with their tag and length add to n.
Prefixed[l \in Nat] == 1 + l + sovGenerated(l)

\* What one item of a field adds to n; the size of a message in another is given by sizes.
SizeOf(sizes, k, x) ==
    CASE k.kind = "bool" -> 2
      [] k.kind \in {"int32", "optInt32"} -> 1 + sovGenerated(Uint64(x))
      [] k.kind \in {"struct", "pointer", "list"} -> Prefixed[sizes[k.type][x]]
      [] OTHER -> Prefixed[Len(x)]

Size[t \in Messages] == [v \in Values[t] |->
    Total[[f \in DOMAIN Fields[t] |->
        LET k == Fields[t][f]
            items == Items(k.kind, v[f])
        IN Total[[i \in DOMAIN items |-> SizeOf(Size, k, items[i])]]]]]

\* make([]byte, size), filled from the end, and cut to the n bytes written.
Marshal(t, v) ==
    LET written == Written[t][v]
        room == Size[t][v] - Len(written)
        buffer == [j \in 1..room |-> 0] \o written
    IN SubSeq(buffer, 1, Len(written))
=============================================================================
