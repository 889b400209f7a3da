---------------------------- MODULE MCProtoCodecs ----------------------------
(* Encoded messages and arbitrary bytes for model checking ProtoRoundTrip.  With *)
(* words of ten bits two bytes make a negative length, or one whose sum with an  *)
(* index overflows.                                                              *)
EXTENDS ProtoRoundTrip

MCWord == 2^10
MCWord32 == 2^6
MCExternals == {<<>>, <<8, 1>>, <<8, 1, 8, 1>>}

Empty == <<>>
Short == <<120, 10>>
Long == [j \in 1..130 |-> 121]

Int32s == {-(2^5), -1, 0, 1, 2^5 - 1}

Refs == {<<Empty, Long, Nil>>} \cup {<<Short, Empty, p>> : p \in Int32s}
Specs ==
    {<<service, group, Short, skip, ca, Nil, 20, -1>> :
        service \in Refs \cup {Nil}, group \in {Empty, Long}, skip \in BOOLEAN,
        ca \in {Nil, Empty, Short}}
    \cup {<<Nil, Empty, Empty, FALSE, Nil, Nil, a, b>> : a, b \in Int32s}
Conditions == {<<Short, Empty, time, Long, Empty>> : time \in {Empty, <<8, 1>>}}
Statuses == {<<list>> : list \in {Empty} \cup {<<c>> : c \in Conditions}
                                \cup {<<c, d>> : c, d \in Conditions}}
Services == {<<meta, spec, status>> :
                meta \in {Empty, <<8, 1>>},
                spec \in {<<ref, Empty, Short, TRUE, Empty, Nil, 0, -1>> : ref \in {Nil, <<Long, Short, 30>>}},
                status \in Statuses}
Lists(items) == {<<meta, list>> : meta \in {Empty, <<8, 1>>},
                                  list \in {Empty} \cup {<<x>> : x \in items} \cup {<<x, x>> : x \in items}}

Texts2 == {<<a, b>> : a, b \in {Empty, Short, Long}}
FooSpecs == {<<a, c>> : a \in {Empty, Short}, c \in Texts2}
FooStatuses == {<<a, list>> : a \in {Empty, Short},
                              list \in {Empty} \cup {<<c>> : c \in Texts2} \cup {<<c, c>> : c \in Texts2}}
Foos == {<<<<8, 1>>, spec, status>> : spec \in FooSpecs, status \in FooStatuses}
FoosV1 == {<<meta, spec>> : meta \in {Empty, <<8, 1>>}, spec \in Texts2}

\* Unknown fields: numbers 6 (the gap of APIServiceSpec), 9 and 20, every wire type,
\* groups that nest and that hold a field with the number of a known one.
Tok(tag, number, content, level) == [tag |-> tag, number |-> number, content |-> content, level |-> level]

VarintField == <<Tok(20 * 8, 0, <<>>, 0)>>
BytesField == <<Tok(9 * 8 + 2, 3, <<10, 255, 0>>, 0)>>
NestedGroups == <<Tok(9 * 8 + 3, 0, <<>>, 1), Tok(83, 0, <<>>, 2), Tok(8, 0, <<>>, 2), Tok(84, 0, <<>>, 1),
             Tok(85, 0, <<1, 2, 3, 4>>, 1), Tok(9 * 8 + 4, 0, <<>>, 0)>>

Unknown == {
    <<Tok(6 * 8, 255, <<>>, 0)>>,
    <<Tok(9 * 8 + 1, 0, <<1, 2, 3, 4, 5, 6, 7, 8>>, 0)>>,
    <<Tok(9 * 8 + 2, 0, <<>>, 0)>>, BytesField,
    <<Tok(9 * 8 + 3, 0, <<>>, 1), Tok(10, 1, <<7>>, 1), Tok(9 * 8 + 4, 0, <<>>, 0)>>,
    NestedGroups,
    <<Tok(9 * 8 + 5, 0, <<1, 2, 3, 4>>, 0)>>,
    VarintField}

\* The same in Foo, its status and the conditions there, at one place or at many.
ConditionLists == {<<<<Empty, Short>>>>, <<<<Empty, Short>>, <<Empty, Short>>>>}
Places == {<<"Foo", <<j>>>> : j \in {0, 2, 3}} \cup {<<"FooStatus", <<3, j>>>> : j \in 0..2}
              \cup {<<"FooCondition", <<3, c, j>>>> : c \in {2, 3}, j \in {0, 2}}
Extras == {place :> <<u>> : place \in Places, u \in Unknown \ {<<Tok(48, 255, <<>>, 0)>>}}
          \cup {[place \in Places |-> <<BytesField, NestedGroups, VarintField>>]}

Marshalled ==
    {Encoded("APIServiceSpec", v) : v \in Specs}
    \cup {Encoded("APIService", v) : v \in Services}
    \cup {Encoded("APIServiceList", v) : v \in Lists(Services)}
    \cup {Encoded("APIServiceListV1beta1", v) : v \in Lists(Services)}
    \cup {Encoded("Foo", v) : v \in Foos}
    \cup {Encoded("FooList", v) : v \in Lists({<<Empty, <<a, <<Empty, Long>>>>, <<Short, <<>>>>>> : a \in {Empty, Long}})}
    \cup {Encoded("FooListV1", v) : v \in Lists(FoosV1)}
    \cup {Joined("APIServiceSpec", <<v, w>>) : v, w \in {x \in Specs : x[2] = Empty /\ x[4] /\ x[7] > 0}}
    \cup {Joined("APIServiceStatus", <<v, w>>) : v, w \in Statuses}
    \cup {Joined("Foo", <<v, w>>) : v, w \in {<<Empty, <<Short, c>>, <<Empty, <<c>>>>>> : c \in Texts2}}
    \cup {Extended("APIServiceSpec", v, <<"APIServiceSpec", <<j>>>> :> <<u>>) :
            v \in {<<<<Short, Empty, 0>>, Empty, Short, TRUE, Empty, Nil, 0, -1>>}, j \in 0..7, u \in Unknown}
    \cup {Extended("Foo", v, extra) : v \in {<<Empty, <<Short, <<Short, Empty>>>>, <<Short, list>>>> : list \in ConditionLists},
                                      extra \in Extras}

-----------------------------------------------------------------------------
Strings(bytes, n) == UNION {[1..k -> bytes] : k \in 0..n}

\* Tags of a string, a message, an unknown string and an unknown group.
Nesting == {0, 1, 2, 10, 18, 34, 35, 36, 255}

\* Tags of all wire types.
AllTypes == {1, 10, 24, 32, 33, 37, 38, 128, 255}

Arbitrary ==
    [type : {"FooSpec"}, bytes : Strings(Nesting, 5)]
    \cup [type : {"APIServiceStatus", "FooListV1"}, bytes : Strings({2, 7, 10, 18, 255}, 5)]
    \cup [type : {"ServiceReference"}, bytes : Strings(AllTypes, 4)]

\* Ten bits can index what is shorter than 2^9 bytes.
MCInputs == {x \in Marshalled : Len(x.bytes) < 2^9} \cup Arbitrary
=============================================================================
