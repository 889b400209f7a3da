--------------------------- MODULE FooObjects_proofs ---------------------------
(***************************************************************************)
(* Proofs about FooObjects, for any images, names, statuses and any number *)
(* of objects.                                                             *)
(***************************************************************************)
EXTENDS FooObjects, TLAPS

-----------------------------------------------------------------------------
(* The inductive invariant: a struct refers only to maps and slices made   *)
(* for a struct of its own family, and a v1 object knows that it is one.   *)

Owned ==
    \A a \in DOMAIN structs : \A r \in References(structs[a]) :
        structs[r].family = structs[a].family

ViaOK == \A o \in DOMAIN foos : Version(o) = "v1" => At(o).viaV1

Inv == TypeOK /\ Owned /\ ViaOK

\* Shapes of the sequences.
LEMMA Shapes ==
    ASSUME TypeOK
    PROVE  /\ Len(structs) \in Nat /\ Len(cells) = Len(structs) /\ Len(foos) \in Nat
           /\ DOMAIN structs = 1..Len(structs) /\ DOMAIN cells = 1..Len(structs)
           /\ DOMAIN foos = 1..Len(foos)
           /\ \A a \in DOMAIN structs : structs[a] \in Struct /\ cells[a] \in Cell
           /\ \A o \in DOMAIN foos :
                foos[o].at \in DOMAIN structs /\ foos[o].version \in Versions /\ At(o) \in Struct
           /\ New = Len(structs) + 1
<1>1. /\ Len(structs) \in Nat /\ Len(cells) = Len(structs) /\ Len(foos) \in Nat
      /\ DOMAIN structs = 1..Len(structs) /\ DOMAIN cells = 1..Len(structs)
      /\ DOMAIN foos = 1..Len(foos)
  BY DEF TypeOK
<1>2. \A a \in DOMAIN structs : structs[a] \in Struct /\ cells[a] \in Cell
  <2>1. structs \in Seq(Struct) /\ cells \in Seq(Cell)
    BY DEF TypeOK
  <2>2. \A a \in 1..Len(structs) : structs[a] \in Struct
    BY <2>1
  <2>3. \A a \in 1..Len(cells) : cells[a] \in Cell
    BY <2>1
  <2> QED  BY <1>1, <2>2, <2>3
<1>3. \A o \in DOMAIN foos : foos[o] \in [at : Nat, version : Versions]
  <2> DEFINE Foo == [at : Nat, version : Versions]
  <2>1. foos \in Seq(Foo)
    BY DEF TypeOK
  <2> HIDE DEF Foo
  <2>2. \A o \in 1..Len(foos) : foos[o] \in Foo
    BY <2>1
  <2> QED  BY <1>1, <2>2 DEF Foo
<1>4. \A o \in DOMAIN foos : foos[o].at \in DOMAIN structs
  BY DEF TypeOK
<1> QED  BY <1>1, <1>2, <1>3, <1>4 DEF At, New

\* A new struct: it refers to cells of its own family or made for it.
LEMMA Allocated ==
    ASSUME Inv, NEW s \in Struct, NEW v \in Versions,
           structs' = Append(structs, s),
           foos' = Append(foos, [at |-> New, version |-> v]),
           cells' \in Seq(Cell), Len(cells') = Len(cells) + 1,
           s.family \in 1..New,
           v = "v1" => s.viaV1,
           \A r \in References(s) :
                r = New \/ (r \in DOMAIN structs /\ structs[r].family = s.family),
           UNCHANGED touched
    PROVE  Inv'
<1>1. /\ Len(structs) \in Nat /\ Len(cells) = Len(structs) /\ Len(foos) \in Nat
      /\ DOMAIN structs = 1..Len(structs) /\ DOMAIN foos = 1..Len(foos) /\ New = Len(structs) + 1
  BY Shapes DEF Inv
<1>2. /\ structs' \in Seq(Struct) /\ Len(structs') = New /\ DOMAIN structs' = 1..New
      /\ structs'[New] = s /\ \A a \in DOMAIN structs : structs'[a] = structs[a]
  BY <1>1 DEF Inv, TypeOK
<1>3. /\ foos' \in Seq([at : Nat, version : Versions]) /\ Len(foos') = Len(foos) + 1
      /\ DOMAIN foos' = 1..(Len(foos) + 1)
      /\ foos'[Len(foos) + 1] = [at |-> New, version |-> v]
      /\ \A o \in DOMAIN foos : foos'[o] = foos[o]
  BY <1>1 DEF Inv, TypeOK
<1>4. TypeOK'
  <2>1. \A o \in DOMAIN foos' : foos'[o].at \in DOMAIN structs'
    BY <1>1, <1>2, <1>3 DEF Inv, TypeOK
  <2>2. ASSUME NEW a \in DOMAIN structs'
        PROVE  References(structs'[a]) \subseteq DOMAIN structs' /\ structs'[a].family \in 1..a
    <3>1. CASE a = New
      BY <1>1, <1>2, <3>1
    <3>2. CASE a \in DOMAIN structs
      BY <1>1, <1>2, <3>2 DEF Inv, TypeOK
    <3> QED  BY <1>1, <1>2, <2>2, <3>1, <3>2
  <2>3. touched' \subseteq DOMAIN structs'
    BY <1>1, <1>2 DEF Inv, TypeOK
  <2> QED  BY <1>1, <1>2, <1>3, <2>1, <2>2, <2>3 DEF TypeOK
<1>5. Owned'
  <2>1. ASSUME NEW a \in DOMAIN structs', NEW r \in References(structs'[a])
        PROVE  structs'[r].family = structs'[a].family
    <3>1. CASE a = New
      BY <1>1, <1>2, <2>1, <3>1
    <3>2. CASE a \in DOMAIN structs
      BY <1>1, <1>2, <2>1, <3>2 DEF Inv, Owned, TypeOK
    <3>3. a = New \/ a \in DOMAIN structs
      BY <1>1, <1>2, <2>1
    <3> QED  BY <3>1, <3>2, <3>3
  <2> QED  BY <2>1 DEF Owned
<1>6. ViaOK'
  BY <1>1, <1>2, <1>3 DEF Inv, ViaOK, Version, At, TypeOK
<1> QED  BY <1>4, <1>5, <1>6 DEF Inv

\* A struct is changed in place: its family stays, and it may come to refer to cells
\* made for itself.
LEMMA Amended ==
    ASSUME Inv, NEW a \in DOMAIN structs, NEW s \in Struct,
           structs' = [structs EXCEPT ![a] = s],
           UNCHANGED foos,
           cells' \in Seq(Cell), Len(cells') = Len(cells),
           s.family = structs[a].family, s.viaV1 = structs[a].viaV1,
           References(s) \subseteq References(structs[a]) \cup {a},
           touched' \subseteq DOMAIN structs
    PROVE  Inv'
<1>1. /\ structs' \in Seq(Struct) /\ Len(structs') = Len(structs)
      /\ DOMAIN structs' = DOMAIN structs
      /\ structs'[a] = s /\ \A b \in DOMAIN structs \ {a} : structs'[b] = structs[b]
  BY DEF Inv, TypeOK
<1>2. \A b \in DOMAIN structs :
        /\ structs'[b].family = structs[b].family /\ structs'[b].viaV1 = structs[b].viaV1
        /\ References(structs'[b]) \subseteq References(structs[b]) \cup {b}
  BY <1>1
<1>3. TypeOK'
  BY <1>1, <1>2 DEF Inv, TypeOK
<1>4. Owned'
  BY <1>1, <1>2 DEF Inv, Owned, TypeOK
<1>5. ViaOK'
  BY <1>1, <1>2 DEF Inv, ViaOK, Version, At, TypeOK
<1> QED  BY <1>3, <1>4, <1>5 DEF Inv

\* Writing a cell keeps the cells well formed.
LEMMA CellWritten ==
    ASSUME NEW w \in Seq(Cell), NEW r \in 1..Len(w), NEW c \in Cell
    PROVE  [w EXCEPT ![r] = c] \in Seq(Cell) /\ Len([w EXCEPT ![r] = c]) = Len(w)
OBVIOUS

-----------------------------------------------------------------------------
(* Each operation keeps the invariant.                                     *)

\* A decoded object refers to its own maps and slices.
LEMMA CreateStep ==
    ASSUME Inv, NEW v \in Versions, NEW s \in Decoded, NEW c \in Cell, Create(v, s, c)
    PROVE  Inv'
<1>1. s \in Struct /\ s.family = New /\ References(s) \subseteq {New} /\ (v = "v1" => s.viaV1)
  BY Shapes DEF Create, Decoded, Struct, Inv
<1>2. cells' \in Seq(Cell) /\ Len(cells') = Len(cells) + 1
  BY DEF Create, Hold, Inv, TypeOK
<1> QED  BY <1>1, <1>2, Allocated, Shapes DEF Create, Hold, Inv

\* Structs made from another, referring to no more than it did.
LEMMA ConversionStep ==
    ASSUME Inv, NEW o \in DOMAIN foos, NEW v \in Versions,
           ConvertHub(o, v) \/ ConvertFromV1(o) PROVE Inv'
<1>1. At(o) \in Struct /\ foos[o].at \in DOMAIN structs
  BY Shapes DEF Inv
<1>2. NoCell \in Cell
  BY DEF NoCell, Cell
<1>3. cells' = Append(cells, NoCell) /\ UNCHANGED touched
  BY DEF ConvertHub, ConvertFromV1, Hold
<1>7. cells' \in Seq(Cell) /\ Len(cells') = Len(cells) + 1
  BY <1>2, <1>3 DEF Inv, TypeOK
<1>4. /\ At(o).family \in 1..New
      /\ \A r \in References(At(o)) : r \in DOMAIN structs /\ structs[r].family = At(o).family
  BY <1>1, Shapes DEF At, Inv, TypeOK, Owned
<1>5. CASE ConvertHub(o, v)
  BY <1>1, <1>3, <1>4, <1>5, <1>7, Allocated DEF ConvertHub, Hold
<1>6. CASE ConvertFromV1(o)
  <2> DEFINE s == [At(o) EXCEPT !.image = ImageIn(At(o)), !.phase = NoPhase, !.conditions = 0]
  <2>1. ImageIn(At(o)) \in Images
    <3>1. At(o).annotations # 0 => At(o).annotations \in DOMAIN structs
      BY <1>1, Shapes DEF References, Inv, TypeOK, At, Struct
    <3>2. At(o).annotations # 0 => cells[At(o).annotations] \in Cell
      BY <3>1, Shapes DEF Inv
    <3> QED  BY <3>2, ImagesAssumption DEF ImageIn, Annotation, Cell
  <2>2. /\ s \in Struct /\ s.family = At(o).family /\ s.labels = At(o).labels
        /\ s.annotations = At(o).annotations /\ s.conditions = 0
    BY <1>1, <2>1, PhasesAssumption DEF Struct
  <2>3. References(s) \subseteq References(At(o))
    BY <2>2 DEF References
  <2> QED
    BY <1>3, <1>4, <1>6, <1>7, <2>2, <2>3, Allocated DEF ConvertFromV1, Hold, Versions
<1> QED  BY <1>5, <1>6

\* A deep copy refers to its own maps and slices only, and starts a family.
LEMMA DeepCopyStep == ASSUME Inv, NEW o \in DOMAIN foos, DeepCopy(o) PROVE Inv'
<1> DEFINE s == [At(o) EXCEPT !.labels = Copied(@), !.annotations = Copied(@),
                              !.conditions = Copied(@), !.family = New]
           c == [labels |-> Label(At(o)), annotations |-> Annotation(At(o)),
                 conditions |-> Condition(At(o))]
<1>1. At(o) \in Struct /\ foos[o].at \in DOMAIN structs /\ New \in Nat /\ New >= 1
  BY Shapes DEF Inv
<1>2. /\ s \in Struct /\ s.family = New /\ s.viaV1 = At(o).viaV1
      /\ References(s) \subseteq {New}
  BY <1>1 DEF Struct, Copied, References
<1>3. c \in Cell
  <2>1. \A r \in References(At(o)) : r \in DOMAIN structs /\ cells[r] \in Cell
    BY <1>1, Shapes DEF At, Inv, TypeOK
  <2> QED  BY <2>1 DEF References, Label, Annotation, Condition, Cell
<1>4. cells' \in Seq(Cell) /\ Len(cells') = Len(cells) + 1
  BY <1>3 DEF DeepCopy, Hold, Inv, TypeOK
<1>5. Version(o) \in Versions /\ (Version(o) = "v1" => s.viaV1)
  BY <1>2, Shapes DEF Inv, ViaOK, Version
<1>6. structs' = Append(structs, s) /\ foos' = Append(foos, [at |-> New, version |-> Version(o)])
      /\ UNCHANGED touched
  BY DEF DeepCopy, Hold
<1>7. s.family \in 1..New /\ \A r \in References(s) : r = New
  BY <1>1, <1>2
<1> HIDE DEF s, c
<1> QED  BY <1>2, <1>4, <1>5, <1>6, <1>7, Allocated

\* The conversion to v1 keeps the references of its source, or adds one of its own.
LEMMA ConvertToV1Step == ASSUME Inv, NEW o \in DOMAIN foos, ConvertToV1(o) PROVE Inv'
<1> DEFINE s == At(o)
<1>1. s \in Struct /\ foos[o].at \in DOMAIN structs /\ New \in Nat /\ New >= 1
  BY Shapes DEF Inv
<1>2. /\ s.family \in 1..New
      /\ \A r \in References(s) : r \in DOMAIN structs /\ structs[r].family = s.family
  BY <1>1, Shapes DEF At, Inv, TypeOK, Owned
<1>3. /\ AsV1(s) \in Struct /\ AsV1(s).family = s.family /\ AsV1(s).viaV1
      /\ AsV1(s).labels = s.labels /\ AsV1(s).annotations = s.annotations
      /\ AsV1(s).conditions = 0
  BY <1>1, ImagesAssumption, PhasesAssumption DEF AsV1, Struct
<1>4. NoCell \in Cell /\ s.image \in Images
  BY <1>1 DEF NoCell, Cell, Struct
<1>5. CASE s.annotations = 0
  <2> DEFINE t == [AsV1(s) EXCEPT !.annotations = New]
  <2>1. t \in Struct /\ t.family = s.family /\ t.viaV1 /\ References(t) \subseteq References(s) \cup {New}
    BY <1>1, <1>3 DEF Struct, References
  <2>2. [NoCell EXCEPT !.annotations = s.image] \in Cell
    BY <1>4 DEF Cell, NoCell
  <2>3. cells' \in Seq(Cell) /\ Len(cells') = Len(cells) + 1
    <3>1. cells' = Append(cells, [NoCell EXCEPT !.annotations = s.image])
      BY <1>5 DEF ConvertToV1
    <3>2. cells \in Seq(Cell)
      BY DEF Inv, TypeOK
    <3> QED  BY <2>2, <3>1, <3>2
  <2> QED  BY <1>2, <1>5, <2>1, <2>3, Allocated DEF ConvertToV1, Versions
<1>6. CASE s.annotations # 0
  <2>1. s.annotations \in DOMAIN structs /\ s.annotations \in DOMAIN cells
        /\ cells[s.annotations] \in Cell
    BY <1>2, <1>6, Shapes DEF References, Inv
  <2>2. [cells[s.annotations] EXCEPT !.annotations = s.image] \in Cell
    BY <1>4, <2>1 DEF Cell
  <2> DEFINE w == [cells EXCEPT ![s.annotations] = [cells[s.annotations] EXCEPT !.annotations = s.image]]
  <2>3. w \in Seq(Cell) /\ Len(w) = Len(cells)
    BY <2>1, <2>2, Shapes, CellWritten DEF Inv, TypeOK
  <2>4. cells' = Append(w, NoCell)
    BY <1>6 DEF ConvertToV1
  <2>5. cells' \in Seq(Cell) /\ Len(cells') = Len(cells) + 1
    BY <1>4, <2>3, <2>4
  <2>6. References(AsV1(s)) \subseteq References(s)
    BY <1>3 DEF References
  <2> QED  BY <1>2, <1>3, <1>6, <2>5, <2>6, Allocated DEF ConvertToV1, Versions
<1> QED  BY <1>5, <1>6

\* The items of a list seen as another version.
LEMMA ConvertHubItemStep ==
    ASSUME Inv, NEW o \in DOMAIN foos, NEW v \in Versions, ConvertHubItem(o, v) PROVE Inv'
<1>1. v # "v1" /\ foos' = Append(foos, [at |-> foos[o].at, version |-> v])
      /\ UNCHANGED <<structs, cells, touched>>
  BY DEF ConvertHubItem
<1>2. /\ Len(foos) \in Nat /\ DOMAIN foos = 1..Len(foos) /\ foos[o].at \in Nat
      /\ foos[o].at \in DOMAIN structs
  BY Shapes DEF Inv, TypeOK
<1>3. /\ foos' \in Seq([at : Nat, version : Versions]) /\ DOMAIN foos' = 1..(Len(foos) + 1)
      /\ foos'[Len(foos) + 1] = [at |-> foos[o].at, version |-> v]
      /\ \A p \in DOMAIN foos : foos'[p] = foos[p]
  BY <1>1, <1>2 DEF Inv, TypeOK
<1>4. TypeOK'
  BY <1>1, <1>2, <1>3 DEF Inv, TypeOK
<1>5. Owned' /\ ViaOK'
  BY <1>1, <1>2, <1>3 DEF Inv, Owned, ViaOK, Version, At
<1> QED  BY <1>4, <1>5 DEF Inv

\* The edits of the program.
LEMMA EditStep ==
    ASSUME Inv, NEW o \in DOMAIN foos,
           \/ \E image \in Images : EditImage(o, image) \/ EditAnnotation(o, image)
           \/ \E conditions \in ConditionLists : EditConditions(o, conditions)
    PROVE  Inv'
<1> DEFINE a == foos[o].at
<1>1. a \in DOMAIN structs /\ At(o) \in Struct /\ At(o) = structs[a]
  BY Shapes DEF Inv, At
<1>2. touched' \subseteq DOMAIN structs
  <2>1. touched' = touched \cup {At(o).family}
    BY DEF EditImage, EditAnnotation, EditConditions, Touch, Family
  <2>2. At(o).family \in DOMAIN structs /\ touched \subseteq DOMAIN structs
    BY <1>1, Shapes DEF Inv, TypeOK
  <2> QED  BY <2>1, <2>2
<1>3. ASSUME NEW image \in Images, EditImage(o, image) PROVE Inv'
  <2> DEFINE s == [structs[a] EXCEPT !.image = image]
  <2>1. /\ s \in Struct /\ s.family = structs[a].family /\ s.viaV1 = structs[a].viaV1
        /\ References(s) = References(structs[a])
    BY <1>1 DEF Struct, References
  <2>2. structs' = [structs EXCEPT ![a] = s] /\ UNCHANGED <<cells, foos>>
    BY <1>3 DEF EditImage
  <2> QED  BY <1>1, <1>2, <2>1, <2>2, Amended DEF Inv, TypeOK
<1>4. ASSUME cells' \in Seq(Cell), Len(cells') = Len(cells), UNCHANGED <<structs, foos>> PROVE Inv'
  BY <1>2, <1>4 DEF Inv, TypeOK, Owned, ViaOK, Version, At
<1>5. \A r \in References(At(o)) : r \in DOMAIN structs /\ r \in DOMAIN cells /\ cells[r] \in Cell
  BY <1>1, Shapes DEF Inv, TypeOK
<1>6. ASSUME NEW image \in Images, EditAnnotation(o, image) PROVE Inv'
  <2> DEFINE r == At(o).annotations
             c == [cells[r] EXCEPT !.annotations = image]
  <2>1. r \in DOMAIN structs /\ c \in Cell
    BY <1>5, <1>6 DEF EditAnnotation, References, Cell
  <2>2. cells' = [cells EXCEPT ![r] = c] /\ UNCHANGED <<structs, foos>>
    BY <1>6 DEF EditAnnotation
  <2> QED  BY <1>4, <2>1, <2>2, Shapes, CellWritten DEF Inv, TypeOK
<1>7. ASSUME NEW conditions \in ConditionLists, EditConditions(o, conditions) PROVE Inv'
  <2> DEFINE r == At(o).conditions
             c == [cells[r] EXCEPT !.conditions = conditions]
  <2>1. r \in DOMAIN structs /\ c \in Cell
    BY <1>5, <1>7 DEF EditConditions, References, Cell
  <2>2. cells' = [cells EXCEPT ![r] = c] /\ UNCHANGED <<structs, foos>>
    BY <1>7 DEF EditConditions
  <2> QED  BY <1>4, <2>1, <2>2, Shapes, CellWritten DEF Inv, TypeOK
<1> QED  BY <1>3, <1>6, <1>7

\* Defaulting a v2 object may make its labels.
LEMMA DefaultV2Step == ASSUME Inv, NEW o \in DOMAIN foos, DefaultV2(o) PROVE Inv'
<1> DEFINE a == foos[o].at
           labels == Ensured(At(o).labels, a)
           s == [structs[a] EXCEPT !.labels = labels]
           c == [cells[labels] EXCEPT !.labels = At(o).name]
<1>1. a \in DOMAIN structs /\ a \in Nat /\ At(o) \in Struct /\ At(o) = structs[a]
  BY Shapes DEF Inv, At
<1>2. References(structs[a]) \subseteq DOMAIN structs /\ structs[a].family \in DOMAIN structs
  BY <1>1, Shapes DEF Inv, TypeOK
<1>3. labels \in References(structs[a]) \cup {a}
  BY <1>1 DEF References, Ensured
<1>4. labels \in DOMAIN structs /\ labels \in Nat /\ cells[labels] \in Cell
  BY <1>1, <1>2, <1>3, Shapes DEF Inv
<1>5. s \in Struct /\ s.family = structs[a].family /\ s.viaV1 = structs[a].viaV1
  BY <1>1, <1>4 DEF Struct
<1>6. References(s) \subseteq References(structs[a]) \cup {a}
  <2>1. s.labels = labels /\ s.annotations = structs[a].annotations
        /\ s.conditions = structs[a].conditions
    BY <1>1 DEF Struct
  <2> HIDE DEF s, labels
  <2> QED  BY <1>3, <2>1 DEF References
<1>7. c \in Cell
  BY <1>1, <1>4 DEF Cell, Struct
<1>8. structs' = [structs EXCEPT ![a] = s] /\ cells' = [cells EXCEPT ![labels] = c]
      /\ UNCHANGED foos /\ touched' = touched \cup {structs[a].family}
  BY <1>1 DEF DefaultV2, Touch, Family
<1> HIDE DEF s, c, labels
<1>9. cells' \in Seq(Cell) /\ Len(cells') = Len(cells)
  BY <1>4, <1>7, <1>8, Shapes, CellWritten DEF Inv, TypeOK
<1>10. touched' \subseteq DOMAIN structs
  BY <1>2, <1>8 DEF Inv, TypeOK
<1> QED  BY <1>1, <1>5, <1>6, <1>8, <1>9, <1>10, Amended

\* Defaulting a v1 object may make its labels and its annotations; where it makes neither,
\* both writes go to maps of its family.
LEMMA DefaultV1Step == ASSUME Inv, NEW o \in DOMAIN foos, DefaultV1(o) PROVE Inv'
<1> DEFINE a == foos[o].at
           labels == Ensured(At(o).labels, a)
           annotations == Ensured(At(o).annotations, a)
           s == [structs[a] EXCEPT !.labels = labels, !.annotations = annotations]
           c == [cells[labels] EXCEPT !.labels = At(o).name]
           w == [cells EXCEPT ![labels] = c]
           d == [w[annotations] EXCEPT !.annotations = BusyBox]
<1>1. a \in DOMAIN structs /\ a \in Nat /\ At(o) \in Struct /\ At(o) = structs[a]
  BY Shapes DEF Inv, At
<1>2. References(structs[a]) \subseteq DOMAIN structs /\ structs[a].family \in DOMAIN structs
  BY <1>1, Shapes DEF Inv, TypeOK
<1>3. {labels, annotations} \subseteq References(structs[a]) \cup {a}
  BY <1>1 DEF References, Ensured
<1>4. /\ labels \in DOMAIN structs /\ labels \in Nat /\ cells[labels] \in Cell
      /\ annotations \in DOMAIN structs /\ annotations \in Nat
  BY <1>1, <1>2, <1>3, Shapes DEF Inv
<1>5. s \in Struct /\ s.family = structs[a].family /\ s.viaV1 = structs[a].viaV1
  BY <1>1, <1>4 DEF Struct
<1>6. References(s) \subseteq References(structs[a]) \cup {a}
  <2>1. s.labels = labels /\ s.annotations = annotations
        /\ s.conditions = structs[a].conditions
    BY <1>1 DEF Struct
  <2> HIDE DEF s, labels, annotations
  <2> QED  BY <1>3, <2>1 DEF References
<1>7. c \in Cell
  BY <1>1, <1>4 DEF Cell, Struct
<1>8. structs' = [structs EXCEPT ![a] = s] /\ UNCHANGED foos
      /\ touched' = touched \cup {structs[a].family}
  BY <1>1 DEF DefaultV1, Touch, Family
<1>9. cells' = [w EXCEPT ![annotations] = d]
  BY <1>1 DEF DefaultV1
<1> HIDE DEF s, c, labels, annotations
<1>10. w \in Seq(Cell) /\ Len(w) = Len(cells)
  BY <1>4, <1>7, Shapes, CellWritten DEF Inv, TypeOK
<1> HIDE DEF w
<1>11. annotations \in 1..Len(w) /\ w[annotations] \in Cell
  BY <1>4, <1>10, Shapes DEF Inv
<1>12. d \in Cell
  BY <1>11, ImagesAssumption DEF Cell
<1> HIDE DEF d
<1>13. cells' \in Seq(Cell) /\ Len(cells') = Len(cells)
  BY <1>9, <1>10, <1>11, <1>12, CellWritten
<1>14. touched' \subseteq DOMAIN structs
  BY <1>2, <1>8 DEF Inv, TypeOK
<1> QED  BY <1>1, <1>5, <1>6, <1>8, <1>13, <1>14, Amended

-----------------------------------------------------------------------------
(* The invariant, and what it gives.                                       *)

\* No object, nothing shared.
LEMMA InvInit == Init => Inv
<1> SUFFICES ASSUME Init PROVE Inv
  OBVIOUS
<1>1. /\ structs = <<>> /\ cells = <<>> /\ foos = <<>> /\ touched = {}
  BY DEF Init
<1> QED  BY <1>1 DEF Inv, TypeOK, Owned, ViaOK

\* Every step of the program keeps the invariant.
LEMMA InvStep == Inv /\ [Next]_vars => Inv'
<1> SUFFICES ASSUME Inv, [Next]_vars PROVE Inv'
  OBVIOUS
<1>1. ASSUME NEW v \in Versions, NEW s \in Decoded, NEW c \in Cell, Create(v, s, c) PROVE Inv'
  BY <1>1, CreateStep
<1>2. ASSUME NEW o \in DOMAIN foos,
             \/ \E image \in Images : EditImage(o, image) \/ EditAnnotation(o, image)
             \/ \E conditions \in ConditionLists : EditConditions(o, conditions)
      PROVE  Inv'
  BY <1>2, EditStep
<1>3. ASSUME NEW o \in DOMAIN foos, DeepCopy(o) \/ ConvertToV1(o) PROVE Inv'
  BY <1>3, DeepCopyStep, ConvertToV1Step
<1>4. ASSUME NEW o \in DOMAIN foos, NEW v \in Versions,
             ConvertHub(o, v) \/ ConvertHubItem(o, v) \/ ConvertFromV1(o) PROVE Inv'
  BY <1>4, ConversionStep, ConvertHubItemStep
<1>5. ASSUME NEW o \in DOMAIN foos, DefaultV1(o) \/ DefaultV2(o) PROVE Inv'
  BY <1>5, DefaultV1Step, DefaultV2Step
<1>6. CASE UNCHANGED vars
  BY <1>6 DEF vars, Inv, TypeOK, Owned, ViaOK, Version, At
<1>7. Versions # {}
  BY DEF Versions
<1> QED  BY <1>1, <1>2, <1>3, <1>4, <1>5, <1>6, <1>7 DEF Next

\* The invariant holds always.
LEMMA Invariance == Spec => []Inv
BY InvInit, InvStep, PTL DEF Spec

\* The structs are well formed, and their references lead to maps and slices that exist.
THEOREM FooTypeCorrect == Spec => []TypeOK
<1>1. Inv => TypeOK
  BY DEF Inv
<1> QED  BY <1>1, Invariance, PTL

\* An object and its deep copy, and whatever is converted from either by any sequence of
\* calls, never share a struct, a map or a slice.
THEOREM IsolatedAlways == Spec => []Isolated
<1>1. ASSUME Inv, NEW o \in DOMAIN foos, NEW p \in DOMAIN foos,
             NEW r \in References(At(o)), r \in References(At(p))
      PROVE  Family(o) = Family(p)
  BY <1>1, Shapes DEF Inv, Owned, At, Family
<1>2. ASSUME Inv, NEW o \in DOMAIN foos, NEW p \in DOMAIN foos, Family(o) # Family(p)
      PROVE  /\ foos[o].at # foos[p].at
             /\ At(o).labels # 0 => At(o).labels # At(p).labels
             /\ At(o).annotations # 0 => At(o).annotations # At(p).annotations
             /\ At(o).conditions # 0 => At(o).conditions # At(p).conditions
  <2>1. foos[o].at # foos[p].at
    BY <1>2 DEF Family, At
  <2>2. ASSUME NEW r, r # 0, r \in References(At(o)) PROVE r \notin References(At(p))
    BY <1>1, <1>2, <2>2
  <2> QED  BY <2>1, <2>2 DEF References
<1>3. Inv => Isolated
  BY <1>2 DEF Isolated
<1> QED  BY <1>3, Invariance, PTL

-----------------------------------------------------------------------------
(* A step is seen by the objects of one family at most.                    *)

\* Only family f is written to, and the objects that were there stay.
Frame(f) ==
    /\ \A a \in DOMAIN structs : structs[a].family # f =>
        structs'[a] = structs[a] /\ cells'[a] = cells[a]
    /\ \A o \in DOMAIN foos : foos'[o] = foos[o]

\* The objects of the other families do not notice.
LEMMA Unseen ==
    ASSUME Inv, NEW f, Frame(f), NEW o \in DOMAIN foos, Family(o) # f
    PROVE  /\ foos'[o] = foos[o] /\ structs'[foos[o].at] = structs[foos[o].at]
           /\ Image(o)' = Image(o) /\ Condition(At(o))' = Condition(At(o))
           /\ Reads(o)' = Reads(o)
<1> DEFINE a == foos[o].at
           s == structs[a]
<1>1. a \in DOMAIN structs /\ foos'[o] = foos[o] /\ structs'[a] = structs[a]
  BY Shapes DEF Inv, Frame, Family, At
<1>2. \A r \in References(s) : cells'[r] = cells[r]
  BY <1>1, Shapes DEF Inv, Owned, TypeOK, Frame, Family, At
<1>3. /\ s.labels # 0 => cells'[s.labels] = cells[s.labels]
      /\ s.annotations # 0 => cells'[s.annotations] = cells[s.annotations]
      /\ s.conditions # 0 => cells'[s.conditions] = cells[s.conditions]
  BY <1>2 DEF References
<1>4. Condition(At(o))' = Condition(At(o)) /\ Label(At(o))' = Label(At(o))
  BY <1>1, <1>3 DEF At, Condition, Label
<1>5. Image(o)' = Image(o)
  BY <1>1, <1>3 DEF At, Image, ImageIn, Annotation, Version
<1>6. At(o)' = At(o)
  BY <1>1 DEF At
<1> QED  BY <1>1, <1>4, <1>5, <1>6 DEF Reads

\* No struct is of family 0, and the families have been made.
LEMMA Families ==
    ASSUME Inv, NEW o \in DOMAIN foos
    PROVE  Family(o) # 0 /\ Family(o) # New /\ Family(o) \in Nat
BY Shapes DEF Inv, TypeOK, Family, At

\* Making an object changes no other.
LEMMA Held ==
    ASSUME Inv, NEW s, NEW c, NEW v, Hold(s, c, v)
    PROVE  /\ Frame(0)
           /\ structs'[New] = s /\ cells'[New] = c
           /\ foos'[Len(foos) + 1] = [at |-> New, version |-> v]
           /\ DOMAIN foos' = 1..(Len(foos) + 1)
<1>1. /\ Len(structs) \in Nat /\ Len(cells) = Len(structs) /\ Len(foos) \in Nat
      /\ DOMAIN structs = 1..Len(structs) /\ DOMAIN foos = 1..Len(foos) /\ New = Len(structs) + 1
  BY Shapes DEF Inv
<1>2. structs' = Append(structs, s) /\ cells' = Append(cells, c)
      /\ foos' = Append(foos, [at |-> New, version |-> v])
  BY DEF Hold
<1>3. structs'[New] = s /\ \A a \in DOMAIN structs : structs'[a] = structs[a]
  BY <1>1, <1>2 DEF Inv, TypeOK
<1>4. cells'[New] = c /\ \A a \in DOMAIN structs : cells'[a] = cells[a]
  BY <1>1, <1>2 DEF Inv, TypeOK
<1>5. /\ foos'[Len(foos) + 1] = [at |-> New, version |-> v]
      /\ DOMAIN foos' = 1..(Len(foos) + 1)
      /\ \A o \in DOMAIN foos : foos'[o] = foos[o]
  BY <1>1, <1>2 DEF Inv, TypeOK
<1> QED  BY <1>3, <1>4, <1>5 DEF Frame

\* The conversion to v1 writes into the family of its source and nowhere else.
LEMMA ConvertToV1Frame ==
    ASSUME Inv, NEW o \in DOMAIN foos, ConvertToV1(o) PROVE Frame(Family(o))
<1>1. /\ Len(structs) \in Nat /\ Len(cells) = Len(structs) /\ Len(foos) \in Nat
      /\ DOMAIN structs = 1..Len(structs) /\ DOMAIN foos = 1..Len(foos)
  BY Shapes DEF Inv
<1>2. \A p \in DOMAIN foos : foos'[p] = foos[p]
  BY <1>1 DEF ConvertToV1, Inv, TypeOK
<1>3. \A a \in DOMAIN structs : structs'[a] = structs[a]
  BY <1>1 DEF ConvertToV1, Inv, TypeOK
<1>4. ASSUME NEW a \in DOMAIN structs, structs[a].family # Family(o) PROVE cells'[a] = cells[a]
  <2> DEFINE r == At(o).annotations
             image == At(o).image
             w == [cells EXCEPT ![r].annotations = image]
  <2>1. r # 0 => r # a
    BY <1>4, Shapes DEF Inv, Owned, References, At, Family
  <2>2. \/ cells' = Append(cells, [NoCell EXCEPT !.annotations = image])
        \/ r # 0 /\ cells' = Append(w, NoCell)
    BY DEF ConvertToV1
  <2>3. cells \in Seq(Cell) /\ a \in 1..Len(cells)
    BY <1>1, <1>4 DEF Inv, TypeOK
  <2>4. DOMAIN w = 1..Len(cells) /\ (r # 0 => w[a] = cells[a])
    BY <2>1, <2>3
  <2>5. CASE cells' = Append(cells, [NoCell EXCEPT !.annotations = image])
    BY <2>3, <2>5
  <2>6. CASE r # 0 /\ cells' = Append(w, NoCell)
    <3> HIDE DEF w
    <3>1. Len(w) = Len(cells)
      BY <2>3, <2>4 DEF w
    <3> QED  BY <2>3, <2>4, <2>6, <3>1
  <2> QED  BY <2>2, <2>5, <2>6
<1> QED  BY <1>2, <1>3, <1>4 DEF Frame

\* An edit or a defaulting writes into the family of its object, and marks it.
LEMMA ChangeFrame ==
    ASSUME Inv, NEW o \in DOMAIN foos,
           \/ \E image \in Images : EditImage(o, image) \/ EditAnnotation(o, image)
           \/ \E conditions \in ConditionLists : EditConditions(o, conditions)
           \/ DefaultV1(o) \/ DefaultV2(o)
    PROVE  Frame(Family(o)) /\ UNCHANGED foos /\ touched' = touched \cup {Family(o)}
<1> DEFINE a == foos[o].at
<1>1. a \in DOMAIN structs /\ Family(o) = structs[a].family /\ At(o) = structs[a]
  BY Shapes DEF Inv, Family, At
<1>2. UNCHANGED foos /\ touched' = touched \cup {Family(o)}
  BY DEF EditImage, EditAnnotation, EditConditions, DefaultV1, DefaultV2, Touch
<1>3. \A b \in DOMAIN structs : b # a => structs'[b] = structs[b]
  BY DEF EditImage, EditAnnotation, EditConditions, DefaultV1, DefaultV2
<1>4. ASSUME NEW b \in DOMAIN structs, structs[b].family # Family(o) PROVE cells'[b] = cells[b]
  <2>1. b # a /\ \A r \in References(At(o)) : r # b
    BY <1>1, <1>4 DEF Inv, Owned
  <2>2. /\ At(o).labels # 0 => At(o).labels # b
        /\ At(o).annotations # 0 => At(o).annotations # b
        /\ At(o).conditions # 0 => At(o).conditions # b
    BY <2>1 DEF References
  <2>3. b # Ensured(At(o).labels, a) /\ b # Ensured(At(o).annotations, a)
    BY <2>1, <2>2 DEF Ensured
  <2>4. b \in DOMAIN cells
    BY <1>4, Shapes DEF Inv
  <2>5. CASE \E image \in Images : EditImage(o, image)
    BY <2>5 DEF EditImage
  <2>6. CASE \E image \in Images : EditAnnotation(o, image)
    BY <2>2, <2>4, <2>6 DEF EditAnnotation
  <2>7. CASE \E conditions \in ConditionLists : EditConditions(o, conditions)
    BY <2>2, <2>4, <2>7 DEF EditConditions
  <2>8. CASE DefaultV1(o)
    BY <2>3, <2>4, <2>8 DEF DefaultV1
  <2>9. CASE DefaultV2(o)
    BY <2>3, <2>4, <2>9 DEF DefaultV2
  <2> QED  BY <2>5, <2>6, <2>7, <2>8, <2>9
<1> QED  BY <1>1, <1>2, <1>3, <1>4 DEF Frame

\* Every step has its family.
LEMMA StepFrame == ASSUME Inv, [Next]_vars PROVE \E f : Frame(f)
<1>1. ASSUME NEW v \in Versions, NEW s \in Decoded, NEW c \in Cell, Create(v, s, c)
      PROVE  Frame(0)
  BY <1>1, Held DEF Create
<1>2. ASSUME NEW o \in DOMAIN foos, DeepCopy(o) PROVE Frame(0)
  BY <1>2, Held DEF DeepCopy
<1>3. ASSUME NEW o \in DOMAIN foos, NEW v \in Versions, ConvertHub(o, v) \/ ConvertFromV1(o)
      PROVE  Frame(0)
  BY <1>3, Held DEF ConvertHub, ConvertFromV1
<1>4. ASSUME NEW o \in DOMAIN foos, NEW v \in Versions, ConvertHubItem(o, v) PROVE Frame(0)
  BY <1>4, Shapes DEF ConvertHubItem, Frame, Inv, TypeOK
<1>5. ASSUME NEW o \in DOMAIN foos, ConvertToV1(o) PROVE \E f : Frame(f)
  BY <1>5, ConvertToV1Frame
<1>6. ASSUME NEW o \in DOMAIN foos,
             \/ \E image \in Images : EditImage(o, image) \/ EditAnnotation(o, image)
             \/ \E conditions \in ConditionLists : EditConditions(o, conditions)
             \/ DefaultV1(o) \/ DefaultV2(o)
      PROVE  \E f : Frame(f)
  BY <1>6, ChangeFrame
<1>7. UNCHANGED vars => Frame(0)
  BY DEF vars, Frame
<1>8. Versions # {}
  BY DEF Versions
<1> QED  BY <1>1, <1>2, <1>3, <1>4, <1>5, <1>6, <1>7, <1>8 DEF Next

\* No step, a conversion or a defaulting that writes into a shared map included, is
\* seen by objects of two families.
THEOREM OneFamilyAlways == Spec => OneFamilyChanges
<1>1. ASSUME Inv, [Next]_vars, NEW o \in DOMAIN foos, NEW p \in DOMAIN foos,
             Reads(o)' # Reads(o), Reads(p)' # Reads(p)
      PROVE  Family(o) = Family(p)
  <2>1. PICK f : Frame(f)
    BY <1>1, StepFrame
  <2>2. Family(o) = f /\ Family(p) = f
    BY <1>1, <2>1, Unseen
  <2> QED  BY <2>2
<1>2. Inv /\ [Next]_vars =>
        [\A o, p \in DOMAIN foos :
            Reads(o)' # Reads(o) /\ Reads(p)' # Reads(p) => Family(o) = Family(p)]_vars
  BY <1>1
<1> QED  BY <1>2, Invariance, PTL DEF Spec, OneFamilyChanges

-----------------------------------------------------------------------------
(* The objects of a family that is only converted agree.                   *)

\* What the objects of a family agree on, and what those agree on that never were v1.
Told(o) == <<Image(o), At(o).config>>
Status(o) == <<At(o).phase, Condition(At(o))>>

\* ConversionsAgree in these words.
LEMMA Agreement ==
    ConversionsAgree <=>
        \A o, p \in DOMAIN foos : Family(o) = Family(p) /\ Family(o) \notin touched =>
            /\ Told(o) = Told(p)
            /\ ~At(o).viaV1 /\ ~At(p).viaV1 => Status(o) = Status(p)
BY DEF ConversionsAgree, Told, Status

\* An edit or a defaulting ends the agreement of its own family only.
LEMMA ChangeAgrees ==
    ASSUME Inv, ConversionsAgree, NEW o \in DOMAIN foos,
           \/ \E image \in Images : EditImage(o, image) \/ EditAnnotation(o, image)
           \/ \E conditions \in ConditionLists : EditConditions(o, conditions)
           \/ DefaultV1(o) \/ DefaultV2(o)
    PROVE  ConversionsAgree'
<1>1. Frame(Family(o)) /\ UNCHANGED foos /\ touched' = touched \cup {Family(o)}
  BY ChangeFrame
<1>2. ASSUME NEW p \in DOMAIN foos PROVE Family(p)' = Family(p)
  <2> DEFINE a == foos[p].at
  <2>1. a \in DOMAIN structs /\ structs[a] \in Struct
    BY Shapes DEF Inv, At
  <2>2. structs'[a].family = structs[a].family
    <3>1. CASE UNCHANGED structs
      BY <3>1
    <3>2. ASSUME NEW image \in Images, EditImage(o, image)
          PROVE  structs'[a].family = structs[a].family
      BY <2>1, <3>2 DEF EditImage, Struct
    <3>3. CASE DefaultV1(o)
      BY <2>1, <3>3 DEF DefaultV1, Struct
    <3>4. CASE DefaultV2(o)
      BY <2>1, <3>4 DEF DefaultV2, Struct
    <3> QED  BY <3>1, <3>2, <3>3, <3>4 DEF EditAnnotation, EditConditions
  <2> QED  BY <1>1, <2>2 DEF Family, At
<1>3. ASSUME NEW p \in DOMAIN foos, Family(p) # Family(o)
      PROVE  Told(p)' = Told(p) /\ Status(p)' = Status(p) /\ At(p)' = At(p)
  BY <1>1, <1>3, Unseen DEF Told, Status, At
<1>4. ASSUME NEW p \in DOMAIN foos, NEW q \in DOMAIN foos, Family(p)' = Family(q)',
             Family(p)' \notin touched'
      PROVE  /\ Told(p)' = Told(q)'
             /\ ~At(p)'.viaV1 /\ ~At(q)'.viaV1 => Status(p)' = Status(q)'
  <2>1. Family(p) = Family(q) /\ Family(p) \notin touched /\ Family(p) # Family(o)
    BY <1>1, <1>2, <1>4
  <2> QED  BY <1>3, <2>1, Agreement
<1>5. DOMAIN foos' = DOMAIN foos
  BY <1>1
<1> QED  BY <1>4, <1>5 DEF ConversionsAgree, Told, Status

\* A new object n is of a family of its own, or like an object o of its family; the
\* others stay as they are, in what is agreed on.
LEMMA NewAgrees ==
    ASSUME Inv, ConversionsAgree, NEW n, DOMAIN foos' = DOMAIN foos \cup {n}, n \notin DOMAIN foos,
           UNCHANGED touched,
           \A p \in DOMAIN foos :
                /\ At(p)' = At(p) /\ Status(p)' = Status(p)
                /\ Family(p) \notin touched => Told(p)' = Told(p),
           \/ \A p \in DOMAIN foos : Family(p) # Family(n)'
           \/ \E o \in DOMAIN foos :
                /\ Family(n)' = Family(o) /\ Told(n)' = Told(o)
                /\ ~At(n)'.viaV1 => ~At(o).viaV1 /\ Status(n)' = Status(o)
    PROVE  ConversionsAgree'
<1>1. \A p \in DOMAIN foos : Family(p)' = Family(p)
  BY DEF Family
<1>2. ASSUME NEW p \in DOMAIN foos, NEW q \in DOMAIN foos, Family(p)' = Family(q)',
             Family(p)' \notin touched'
      PROVE  /\ Told(p)' = Told(q)'
             /\ ~At(p)'.viaV1 /\ ~At(q)'.viaV1 => Status(p)' = Status(q)'
  BY <1>1, <1>2, Agreement
<1>3. ASSUME NEW p \in DOMAIN foos, Family(p)' = Family(n)', Family(p)' \notin touched'
      PROVE  /\ Told(p)' = Told(n)'
             /\ ~At(p)'.viaV1 /\ ~At(n)'.viaV1 => Status(p)' = Status(n)'
  <2>1. PICK o \in DOMAIN foos :
            /\ Family(n)' = Family(o) /\ Told(n)' = Told(o)
            /\ ~At(n)'.viaV1 => ~At(o).viaV1 /\ Status(n)' = Status(o)
    BY <1>1, <1>3
  <2>2. Family(p) = Family(o) /\ Family(p) \notin touched
    BY <1>1, <1>3, <2>1
  <2> QED  BY <2>1, <2>2, Agreement
<1>4. \A p, q \in DOMAIN foos' : Family(p)' = Family(q)' /\ Family(p)' \notin touched' =>
            /\ Told(p)' = Told(q)'
            /\ ~At(p)'.viaV1 /\ ~At(q)'.viaV1 => Status(p)' = Status(q)'
  <2> TAKE p, q \in DOMAIN foos'
  <2>1. CASE p \in DOMAIN foos /\ q \in DOMAIN foos
    BY <1>2, <2>1
  <2>2. CASE p \in DOMAIN foos /\ q = n
    BY <1>3, <2>2
  <2>3. CASE p = n /\ q \in DOMAIN foos
    BY <1>3, <2>3
  <2>4. CASE p = n /\ q = n
    BY <2>4
  <2> QED  BY <2>1, <2>2, <2>3, <2>4
<1> QED  BY <1>4 DEF ConversionsAgree, Told, Status

\* The others when an object is made that writes nothing.
LEMMA OthersStay ==
    ASSUME Inv, Frame(0), NEW p \in DOMAIN foos
    PROVE  At(p)' = At(p) /\ Status(p)' = Status(p) /\ Told(p)' = Told(p)
BY Unseen, Families DEF At, Told, Status

\* An object that starts a family has nobody to agree with.
LEMMA CopyAgrees ==
    ASSUME Inv, ConversionsAgree, NEW s, NEW c, NEW v, Hold(s, c, v), s.family = New,
           UNCHANGED touched
    PROVE  ConversionsAgree'
<1> DEFINE n == Len(foos) + 1
<1>1. /\ Frame(0) /\ structs'[New] = s /\ foos'[n] = [at |-> New, version |-> v]
      /\ DOMAIN foos' = 1..n
  BY Held
<1>2. DOMAIN foos' = DOMAIN foos \cup {n} /\ n \notin DOMAIN foos
  BY <1>1, Shapes DEF Inv
<1>3. \A k : k = n => Family(k)' = New
  BY <1>1 DEF Family, At
<1>4. PICK k : k = n
  OBVIOUS
<1>5. \A p \in DOMAIN foos : Family(p) # Family(k)'
  BY <1>3, <1>4, Families
<1> QED  BY <1>1, <1>2, <1>4, <1>5, OthersStay, NewAgrees

\* Conversion between v2 and the internal version, an object or the items of a list.
LEMMA ConvertHubAgrees ==
    ASSUME Inv, ConversionsAgree, NEW o \in DOMAIN foos, NEW v \in Versions,
           ConvertHub(o, v) \/ ConvertHubItem(o, v)
    PROVE  ConversionsAgree'
<1>1. PICK n : n = Len(foos) + 1
  OBVIOUS
<1>2. /\ Frame(0) /\ DOMAIN foos' = 1..n /\ UNCHANGED touched
      /\ structs'[foos'[n].at] = At(o) /\ foos'[n].version = v
  <2>1. CASE ConvertHub(o, v)
    <3>1. Hold(At(o), NoCell, v) /\ UNCHANGED touched
      BY <2>1 DEF ConvertHub
    <3>2. /\ Frame(0) /\ DOMAIN foos' = 1..n
          /\ structs'[New] = At(o) /\ foos'[n] = [at |-> New, version |-> v]
      BY <1>1, <3>1, Held
    <3> QED  BY <3>1, <3>2
  <2>2. CASE ConvertHubItem(o, v)
    <3>1. /\ foos' = Append(foos, [at |-> foos[o].at, version |-> v])
          /\ UNCHANGED <<structs, cells, touched>>
      BY <2>2 DEF ConvertHubItem
    <3>2. Len(foos) \in Nat /\ DOMAIN foos = 1..Len(foos) /\ foos \in Seq([at : Nat, version : Versions])
      BY Shapes DEF Inv, TypeOK
    <3>3. /\ DOMAIN foos' = 1..n /\ foos'[n] = [at |-> foos[o].at, version |-> v]
          /\ \A p \in DOMAIN foos : foos'[p] = foos[p]
      BY <1>1, <3>1, <3>2
    <3>4. Frame(0)
      BY <3>1, <3>3 DEF Frame
    <3>5. structs'[foos'[n].at] = structs[foos[o].at] /\ foos'[n].version = v
      <4>1. structs' = structs
        BY <3>1
      <4>2. foos'[n] = [at |-> foos[o].at, version |-> v]
        BY <3>3
      <4> QED  BY <4>1, <4>2
    <3> QED  BY <3>1, <3>3, <3>4, <3>5 DEF At
  <2> QED  BY <2>1, <2>2
<1>3. DOMAIN foos' = DOMAIN foos \cup {n} /\ n \notin DOMAIN foos
  BY <1>1, <1>2, Shapes DEF Inv
<1>4. At(n)' = At(o) /\ At(o)' = At(o)
  BY <1>2, OthersStay DEF At
<1>5. Family(n)' = Family(o) /\ Status(n)' = Status(o)
  BY <1>2, <1>4, OthersStay DEF Family, Status, Condition
<1>6. Told(n)' = Told(o)
  <2>1. Version(o) # "v1" /\ Version(n)' # "v1"
    BY <1>2 DEF ConvertHub, ConvertHubItem, Version
  <2> QED  BY <1>4, <2>1 DEF Told, Image
<1> QED  BY <1>2, <1>3, <1>4, <1>5, <1>6, OthersStay, NewAgrees

\* Conversion from v1: the image is what the annotation says, the status is gone.
LEMMA ConvertFromV1Agrees ==
    ASSUME Inv, ConversionsAgree, NEW o \in DOMAIN foos, ConvertFromV1(o) PROVE ConversionsAgree'
<1> DEFINE s == [At(o) EXCEPT !.image = ImageIn(At(o)), !.phase = NoPhase, !.conditions = 0]
<1>1. PICK n : n = Len(foos) + 1
  OBVIOUS
<1>2. Hold(s, NoCell, "internal") /\ UNCHANGED touched /\ Version(o) = "v1"
  BY DEF ConvertFromV1
<1>3. At(o) \in Struct
  BY Shapes DEF Inv
<1>4. /\ s.image = ImageIn(At(o)) /\ s.family = At(o).family /\ s.config = At(o).config
      /\ s.viaV1 = At(o).viaV1
  BY <1>3 DEF Struct
<1> HIDE DEF s
<1>5. /\ Frame(0) /\ structs'[New] = s /\ foos'[n] = [at |-> New, version |-> "internal"]
      /\ DOMAIN foos' = 1..n
  BY <1>1, <1>2, Held
<1>6. DOMAIN foos' = DOMAIN foos \cup {n} /\ n \notin DOMAIN foos
  BY <1>1, <1>5, Shapes DEF Inv
<1>7. At(n)' = s /\ Version(n)' = "internal"
  BY <1>5 DEF At, Version
<1>8. Family(n)' = Family(o)
  BY <1>4, <1>7 DEF Family
<1>9. Told(n)' = Told(o)
  BY <1>2, <1>4, <1>7 DEF Told, Image
<1>10. At(n)'.viaV1
  BY <1>2, <1>4, <1>7 DEF Inv, ViaOK
<1> QED  BY <1>2, <1>5, <1>6, <1>8, <1>9, <1>10, OthersStay, NewAgrees

\* The conversion to v1 writes into the map its own source, too, has its annotations in;
\* it writes the image they all have already.
LEMMA ConvertToV1Agrees ==
    ASSUME Inv, ConversionsAgree, NEW o \in DOMAIN foos, ConvertToV1(o) PROVE ConversionsAgree'
<1> DEFINE s == At(o)
           r == At(o).annotations
<1>1. PICK n : n = Len(foos) + 1
  OBVIOUS
<1>2. /\ Len(structs) \in Nat /\ Len(cells) = Len(structs) /\ Len(foos) \in Nat
      /\ DOMAIN structs = 1..Len(structs) /\ DOMAIN foos = 1..Len(foos) /\ New = Len(structs) + 1
      /\ s \in Struct /\ foos[o].at \in DOMAIN structs
      /\ \A a \in DOMAIN structs : cells[a] \in Cell
  BY Shapes DEF Inv
<1>3. /\ foos' = Append(foos, [at |-> New, version |-> "v1"]) /\ UNCHANGED touched
      /\ Version(o) = "internal"
  BY DEF ConvertToV1
<1>4. /\ DOMAIN foos' = 1..n /\ foos'[n] = [at |-> New, version |-> "v1"]
      /\ \A p \in DOMAIN foos : foos'[p] = foos[p]
  BY <1>1, <1>2, <1>3 DEF Inv, TypeOK
<1>5. DOMAIN foos' = DOMAIN foos \cup {n} /\ n \notin DOMAIN foos
  BY <1>1, <1>2, <1>4
<1>6. \A a \in DOMAIN structs : structs'[a] = structs[a]
  BY <1>2 DEF ConvertToV1, Inv, TypeOK
<1>7. \A p \in DOMAIN foos : foos[p].at \in DOMAIN structs
  BY DEF Inv, TypeOK
<1>8. \A p \in DOMAIN foos : At(p)' = At(p) /\ Version(p)' = Version(p)
  BY <1>4, <1>6, <1>7 DEF At, Version
<1>9. r # 0 => r \in DOMAIN structs
  BY <1>2 DEF References, Inv, TypeOK, At
<1>10. \A a \in DOMAIN structs : IF r # 0 /\ a = r
                                 THEN cells'[a] = [cells[a] EXCEPT !.annotations = s.image]
                                 ELSE cells'[a] = cells[a]
  <2>1. CASE r = 0
    BY <1>2, <2>1 DEF ConvertToV1, Inv, TypeOK
  <2>2. CASE r # 0
    <3> DEFINE w == [cells EXCEPT ![r].annotations = s.image]
    <3>1. cells' = Append(w, NoCell)
      BY <2>2 DEF ConvertToV1
    <3>2. cells \in Seq(Cell)
      BY DEF Inv, TypeOK
    <3>3. DOMAIN w = 1..Len(cells) /\ Len(w) = Len(cells)
      BY <3>2
    <3>4. \A a \in DOMAIN structs : cells'[a] = w[a]
      <4> HIDE DEF w
      <4> QED  BY <1>2, <3>1, <3>3
    <3> QED  BY <1>2, <2>2, <3>2, <3>4
  <2> QED  BY <2>1, <2>2
<1>11. \A a \in DOMAIN structs : cells'[a].conditions = cells[a].conditions
  BY <1>2, <1>10 DEF Cell
<1>12. ASSUME NEW p \in DOMAIN foos PROVE Status(p)' = Status(p)
  <2>1. At(p).conditions # 0 => At(p).conditions \in DOMAIN structs
    BY <1>7 DEF References, Inv, TypeOK, At
  <2> QED  BY <1>8, <1>11, <2>1 DEF Status, Condition
<1>13. ASSUME NEW p \in DOMAIN foos, Family(p) \notin touched PROVE Told(p)' = Told(p)
  <2>1. CASE Family(p) # Family(o)
    BY <1>8, <2>1, ConvertToV1Frame, Unseen DEF Told
  <2>2. CASE Family(p) = Family(o) /\ Version(p) # "v1"
    BY <1>8, <2>2 DEF Told, Image
  <2>3. CASE Family(p) = Family(o) /\ Version(p) = "v1"
    <3>1. ImageIn(At(p)) = s.image
      BY <1>3, <1>13, <2>3 DEF ConversionsAgree, Image
    <3>2. At(p).annotations # 0 => At(p).annotations \in DOMAIN structs
      BY <1>7 DEF References, Inv, TypeOK, At
    <3>3. CASE r # 0 /\ At(p).annotations = r
      <4>1. cells'[r].annotations = s.image /\ s.image # Unset
        BY <1>2, <1>9, <1>10, <3>3, UnsetAssumption DEF Cell, Struct
      <4>2. ImageIn(At(p))' = s.image
        BY <1>8, <3>3, <4>1 DEF ImageIn, Annotation
      <4> QED  BY <1>8, <2>3, <3>1, <4>2 DEF Told, Image
    <3>4. CASE ~(r # 0 /\ At(p).annotations = r)
      <4>1. Annotation(At(p))' = Annotation(At(p))
        BY <1>8, <1>10, <3>2, <3>4 DEF Annotation
      <4> QED  BY <1>8, <2>3, <4>1 DEF Told, Image, ImageIn
    <3> QED  BY <3>3, <3>4
  <2> QED  BY <2>1, <2>2, <2>3
<1>14. At(n)'.family = s.family /\ At(n)'.config = s.config /\ At(n)'.viaV1
       /\ Image(n)' = s.image
  <2>1. /\ AsV1(s) \in Struct /\ AsV1(s).family = s.family /\ AsV1(s).viaV1
        /\ AsV1(s).config = s.config /\ AsV1(s).annotations = r /\ s.image # Unset
    BY <1>2, ImagesAssumption, PhasesAssumption, UnsetAssumption DEF AsV1, Struct
  <2>2. Version(n)' = "v1" /\ At(n)' = structs'[New]
    BY <1>4 DEF At, Version
  <2>3. CASE r = 0
    <3> DEFINE t == [AsV1(s) EXCEPT !.annotations = New]
    <3>1. t.family = s.family /\ t.viaV1 /\ t.config = s.config /\ t.annotations = New
      BY <2>1 DEF Struct
    <3>2. structs' = Append(structs, t) /\ cells' = Append(cells, [NoCell EXCEPT !.annotations = s.image])
      BY <2>3 DEF ConvertToV1
    <3> HIDE DEF t
    <3>3. structs'[New] = t /\ cells'[New].annotations = s.image
      BY <1>2, <3>2 DEF Inv, TypeOK, NoCell
    <3>4. New # 0
      BY <1>2
    <3> QED  BY <2>1, <2>2, <3>1, <3>3, <3>4 DEF Image, ImageIn, Annotation
  <2>4. CASE r # 0
    <3>1. structs' = Append(structs, AsV1(s))
      BY <2>4 DEF ConvertToV1
    <3>2. structs'[New] = AsV1(s)
      BY <1>2, <3>1 DEF Inv, TypeOK
    <3>3. cells'[r].annotations = s.image
      BY <1>2, <1>9, <1>10, <2>4 DEF Cell
    <3> QED  BY <2>1, <2>2, <2>4, <3>2, <3>3 DEF Image, ImageIn, Annotation
  <2> QED  BY <2>3, <2>4
<1>15. Family(n)' = Family(o) /\ Told(n)' = Told(o)
  BY <1>3, <1>14 DEF Family, Told, Image
<1> QED  BY <1>3, <1>5, <1>8, <1>12, <1>13, <1>14, <1>15, NewAgrees

\* Every step keeps the agreement.
LEMMA AgreeStep == Inv /\ ConversionsAgree /\ [Next]_vars => ConversionsAgree'
<1> SUFFICES ASSUME Inv, ConversionsAgree, [Next]_vars PROVE ConversionsAgree'
  OBVIOUS
<1>1. ASSUME NEW v \in Versions, NEW s \in Decoded, NEW c \in Cell, Create(v, s, c)
      PROVE  ConversionsAgree'
  BY <1>1, CopyAgrees DEF Create
<1>2. ASSUME NEW o \in DOMAIN foos, DeepCopy(o) PROVE ConversionsAgree'
  <2> DEFINE s == [At(o) EXCEPT !.labels = Copied(@), !.annotations = Copied(@),
                                !.conditions = Copied(@), !.family = New]
             c == [labels |-> Label(At(o)), annotations |-> Annotation(At(o)),
                   conditions |-> Condition(At(o))]
  <2>1. s.family = New
    BY Shapes DEF Inv, Struct
  <2>2. Hold(s, c, Version(o)) /\ UNCHANGED touched
    BY <1>2 DEF DeepCopy
  <2> HIDE DEF s, c
  <2> QED  BY <2>1, <2>2, CopyAgrees
<1>3. ASSUME NEW o \in DOMAIN foos, NEW v \in Versions,
             \/ ConvertHub(o, v) \/ ConvertHubItem(o, v)
             \/ ConvertFromV1(o) \/ ConvertToV1(o)
      PROVE  ConversionsAgree'
  BY <1>3, ConvertHubAgrees, ConvertFromV1Agrees, ConvertToV1Agrees
<1>4. ASSUME NEW o \in DOMAIN foos,
             \/ \E image \in Images : EditImage(o, image) \/ EditAnnotation(o, image)
             \/ \E conditions \in ConditionLists : EditConditions(o, conditions)
             \/ DefaultV1(o) \/ DefaultV2(o)
      PROVE  ConversionsAgree'
  BY <1>4, ChangeAgrees
<1>5. CASE UNCHANGED vars
  <2>1. UNCHANGED <<structs, cells, foos, touched>>
    BY <1>5 DEF vars
  <2>2. \A o : Image(o)' = Image(o)
    BY <2>1 DEF Image, Version, At, ImageIn, Annotation
  <2>3. \A o : Condition(At(o))' = Condition(At(o))
    BY <2>1 DEF At, Condition
  <2> QED
    BY <2>1, <2>2, <2>3 DEF ConversionsAgree, Family, At
<1>6. Versions # {}
  BY DEF Versions
<1> QED  BY <1>1, <1>2, <1>3, <1>4, <1>5, <1>6 DEF Next

\* Whatever is converted to what, in any order and number, image and configuration are
\* the same in all versions of an object, and so is the status wherever v1 is not on
\* the way.
THEOREM ConversionsAgreeAlways == Spec => []ConversionsAgree
<1>1. Init => ConversionsAgree
  BY DEF Init, ConversionsAgree
<1> QED  BY <1>1, AgreeStep, Invariance, PTL DEF Spec
=============================================================================
