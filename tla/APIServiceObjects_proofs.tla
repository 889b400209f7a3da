----------------------- MODULE APIServiceObjects_proofs -----------------------
(***************************************************************************)
(* Proofs about APIServiceObjects, for any ports, targets, bundles and any *)
(* number of objects, edits and conversions.                               *)
(***************************************************************************)
EXTENDS APIServiceObjects, TLAPS

-----------------------------------------------------------------------------
(* The inductive invariant.                                                *)

Shape ==
    /\ objects \in Seq(APIService)
    /\ cells \in Seq(Cell)
    /\ Len(cells) = Len(objects)
    /\ touched \subseteq DOMAIN objects

\* Object o, with its own cells c, has its ServiceReference and its port to itself, and
\* has a port if it ever was internal.
Sound(o, s, c) ==
    /\ s.service \in {0, o}
    /\ c.portAt \in {0, o}
    /\ c.portAt = 0 <=> c.port = NoPort
    /\ s.family \in 1..o
    /\ s.version = "internal" => s.viaInternal
    /\ s.viaInternal /\ s.service # 0 => c.portAt # 0

SoundAll == \A o \in DOMAIN objects : Sound(o, objects[o], cells[o])

\* What is shared is shared within the family.
Shared(s) == {s.bundle, s.conditions} \ {0}
Owned ==
    \A o \in DOMAIN objects : \A r \in Shared(objects[o]) :
        r \in DOMAIN objects /\ Family(r) = Family(o)

Decided(s, c) == s.service # 0 /\ s.family \notin touched => c.port = ExpectedPort(s)
DecidedAll == \A o \in DOMAIN objects : Decided(objects[o], cells[o])

Inv == Shape /\ SoundAll /\ Owned /\ DecidedAll

\* Shapes of the sequences.
LEMMA Shapes ==
    ASSUME Shape
    PROVE  /\ Len(objects) \in Nat /\ Len(cells) = Len(objects)
           /\ DOMAIN objects = 1..Len(objects) /\ DOMAIN cells = 1..Len(objects)
           /\ New = Len(objects) + 1 /\ New \in Nat /\ New \notin DOMAIN objects /\ New # 0
           /\ \A o \in DOMAIN objects :
                /\ o \in Nat /\ o # 0
                /\ objects[o] \in APIService /\ cells[o] \in Cell
<1>1. /\ Len(objects) \in Nat /\ Len(cells) = Len(objects)
      /\ DOMAIN objects = 1..Len(objects) /\ DOMAIN cells = 1..Len(objects)
  BY DEF Shape
<1>2. \A o \in 1..Len(objects) : objects[o] \in APIService
  <2>1. objects \in Seq(APIService)
    BY DEF Shape
  <2> QED  BY <2>1
<1>3. \A o \in 1..Len(cells) : cells[o] \in Cell
  <2>1. cells \in Seq(Cell)
    BY DEF Shape
  <2> QED  BY <2>1
<1> QED  BY <1>1, <1>2, <1>3 DEF New

\* What an object's references lead to, in terms of its own cells.
LEMMA Own ==
    ASSUME Inv, NEW o \in DOMAIN objects
    PROVE  LET s == objects[o] c == cells[o] IN
           /\ s \in APIService /\ c \in Cell /\ Sound(o, s, c) /\ Decided(s, c)
           /\ PortAt(s) = IF s.service = 0 THEN 0 ELSE c.portAt
           /\ Port(s) = IF s.service = 0 THEN NoPort ELSE c.port
           /\ Target(s) = IF s.service = 0 THEN Unset ELSE c.target
           /\ Port(s) \in Ports \cup {NoPort} /\ Target(s) \in Targets \cup {Unset}
           /\ Bundle(s) \in Bundles \cup {Unset}
           /\ Conditions(s) \in ConditionLists \cup {Unset}
<1> DEFINE s == objects[o]
           c == cells[o]
<1>1. o # 0 /\ s \in APIService /\ c \in Cell /\ Sound(o, s, c) /\ Decided(s, c)
  BY Shapes DEF Inv, SoundAll, DecidedAll
<1>2. PortAt(s) = IF s.service = 0 THEN 0 ELSE c.portAt
  BY <1>1 DEF PortAt, Sound
<1>3. Port(s) = IF s.service = 0 THEN NoPort ELSE c.port
  BY <1>1, <1>2 DEF Port, Sound
<1>4. Target(s) = IF s.service = 0 THEN Unset ELSE c.target
  BY <1>1 DEF Target, Sound
<1>5. c.port \in Ports \cup {NoPort} /\ c.target \in Targets \cup {Unset}
  BY <1>1 DEF Cell
<1>6. \A r \in Shared(s) : cells[r] \in Cell
  BY Shapes DEF Inv, Owned
<1>7. Bundle(s) \in Bundles \cup {Unset} /\ Conditions(s) \in ConditionLists \cup {Unset}
  <2>1. s.bundle # 0 => cells[s.bundle] \in Cell
    BY <1>6 DEF Shared
  <2>2. s.conditions # 0 => cells[s.conditions] \in Cell
    BY <1>6 DEF Shared
  <2> QED  BY <2>1, <2>2 DEF Bundle, Conditions, Cell
<1> QED  BY <1>1, <1>2, <1>3, <1>4, <1>5, <1>7

\* A new object keeps the invariant if it is sound, shares within its family only, and
\* has the port it should have.
LEMMA Held ==
    ASSUME Inv, NEW s \in APIService, NEW c \in Cell, Hold(s, c),
           Sound(New, s, c), Decided(s, c),
           \A r \in Shared(s) :
                \/ r = New
                \/ r \in DOMAIN objects /\ Family(r) = s.family
    PROVE  /\ Inv'
           /\ objects'[New] = s /\ cells'[New] = c /\ DOMAIN objects' = 1..New
           /\ \A o \in DOMAIN objects : objects'[o] = objects[o] /\ cells'[o] = cells[o]
<1>1. /\ Len(objects) \in Nat /\ Len(cells) = Len(objects) /\ New = Len(objects) + 1
      /\ DOMAIN objects = 1..Len(objects) /\ DOMAIN cells = 1..Len(objects)
  BY Shapes DEF Inv
<1>2. objects' = Append(objects, s) /\ cells' = Append(cells, c) /\ touched' = touched
  BY DEF Hold
<1>3. /\ objects' \in Seq(APIService) /\ Len(objects') = New /\ DOMAIN objects' = 1..New
      /\ objects'[New] = s /\ \A o \in DOMAIN objects : objects'[o] = objects[o]
  <2>1. objects \in Seq(APIService)
    BY DEF Inv, Shape
  <2> QED  BY <1>1, <1>2, <2>1
<1>4. /\ cells' \in Seq(Cell) /\ Len(cells') = New
      /\ cells'[New] = c /\ \A o \in DOMAIN objects : cells'[o] = cells[o]
  <2>1. cells \in Seq(Cell)
    BY DEF Inv, Shape
  <2> QED  BY <1>1, <1>2, <2>1
<1>5. \A o \in DOMAIN objects' : o = New \/ o \in DOMAIN objects
  BY <1>1, <1>3
<1>6. Shape'
  BY <1>1, <1>2, <1>3, <1>4 DEF Inv, Shape
<1>7. SoundAll'
  BY <1>3, <1>4, <1>5 DEF Inv, SoundAll, Sound
<1>8. Owned'
  <2>1. ASSUME NEW o \in DOMAIN objects', NEW r \in Shared(objects'[o])
        PROVE  r \in DOMAIN objects' /\ objects'[r].family = objects'[o].family
    <3>1. CASE o = New
      <4>1. r = New \/ (r \in DOMAIN objects /\ objects[r].family = s.family)
        BY <1>3, <2>1, <3>1 DEF Family
      <4> QED  BY <1>1, <1>3, <3>1, <4>1
    <3>2. CASE o \in DOMAIN objects
      <4>1. r \in DOMAIN objects /\ objects[r].family = objects[o].family
        BY <1>3, <2>1, <3>2 DEF Inv, Owned, Family
      <4> QED  BY <1>1, <1>3, <3>2, <4>1
    <3> QED  BY <1>5, <3>1, <3>2
  <2> QED  BY <2>1 DEF Owned, Family, Shared
<1>9. DecidedAll'
  BY <1>2, <1>3, <1>4, <1>5 DEF Inv, DecidedAll, Decided, ExpectedPort
<1> QED  BY <1>3, <1>4, <1>6, <1>7, <1>8, <1>9 DEF Inv

\* Writing a cell keeps the cells well formed.
LEMMA CellWritten ==
    ASSUME NEW w \in Seq(Cell), NEW r \in 1..Len(w), NEW c \in Cell
    PROVE  /\ [w EXCEPT ![r] = c] \in Seq(Cell) /\ Len([w EXCEPT ![r] = c]) = Len(w)
           /\ [w EXCEPT ![r] = c][r] = c
           /\ \A q \in 1..Len(w) : q # r => [w EXCEPT ![r] = c][q] = w[q]
OBVIOUS

\* So does a change of what is at one home, if a port that changes is that of an object
\* whose family is edited.
LEMMA CellChanged ==
    ASSUME Inv, NEW r \in DOMAIN objects, NEW c \in Cell,
           cells' = [cells EXCEPT ![r] = c], UNCHANGED objects,
           touched \subseteq touched', touched' \subseteq DOMAIN objects,
           c.portAt = cells[r].portAt, c.portAt = 0 <=> c.port = NoPort,
           c.port = cells[r].port \/ Family(r) \in touched'
    PROVE  Inv'
<1>1. cells \in Seq(Cell) /\ r \in 1..Len(cells) /\ DOMAIN objects = 1..Len(cells)
  BY Shapes DEF Inv, Shape
<1>2. /\ cells' \in Seq(Cell) /\ Len(cells') = Len(cells) /\ cells'[r] = c
      /\ \A q \in DOMAIN objects : q # r => cells'[q] = cells[q]
  BY <1>1, CellWritten
<1>3. Shape'
  BY <1>2 DEF Inv, Shape
<1>4. SoundAll'
  <2>1. ASSUME NEW o \in DOMAIN objects PROVE Sound(o, objects[o], cells'[o])
    BY <1>2 DEF Inv, SoundAll, Sound
  <2> QED  BY <2>1 DEF SoundAll, Sound
<1>5. Owned'
  BY DEF Inv, Owned, Family, Shared
<1>6. DecidedAll'
  <2>1. ASSUME NEW o \in DOMAIN objects, objects[o].service # 0, objects[o].family \notin touched'
        PROVE  cells'[o].port = ExpectedPort(objects[o])
    BY <1>2, <2>1 DEF Inv, DecidedAll, Decided, Family
  <2> QED  BY <2>1 DEF DecidedAll, Decided, ExpectedPort
<1> QED  BY <1>3, <1>4, <1>5, <1>6 DEF Inv

-----------------------------------------------------------------------------
(* Each operation keeps the invariant.                                     *)

\* A decoded object has all to itself, and no defaulting is applied to it.
LEMMA DecodeStep ==
    ASSUME Inv, NEW s \in Decoded, NEW c \in DecodedCell, Decode(s, c)
    PROVE  /\ Inv' /\ DOMAIN objects' = 1..New /\ objects'[New].family = New
           /\ \A o \in DOMAIN objects : objects'[o] = objects[o] /\ cells'[o] = cells[o]
<1>1. New \in Nat /\ New # 0 /\ New \notin DOMAIN objects
  BY Shapes DEF Inv
<1>2. Hold(s, c)
  BY DEF Decode, DefaultingRegistered
<1>3. s \in APIService /\ s.family = New
  BY <1>1 DEF Decoded, APIService
<1>4. c \in Cell /\ c.portAt \in {0, New}
  BY <1>1 DEF DecodedCell, Cell
<1>5. Sound(New, s, c)
  BY <1>1, <1>3, <1>4 DEF Sound, Decode, Decoded
<1>6. Decided(s, c)
  BY <1>3 DEF Decided, Decode, ExpectedPort, Decoded
<1>7. \A r \in Shared(s) : r = New
  BY <1>3 DEF Shared, Decoded
<1> QED  BY <1>2, <1>3, <1>4, <1>5, <1>6, <1>7, Held

\* A deep copy has all to itself and starts a family with the port it was copied with.
LEMMA DeepCopyStep ==
    ASSUME Inv, NEW o \in DOMAIN objects, DeepCopy(o)
    PROVE  /\ Inv' /\ DOMAIN objects' = 1..New /\ objects'[New].family = New
           /\ \A p \in DOMAIN objects : objects'[p] = objects[p] /\ cells'[p] = cells[p]
<1> DEFINE s == objects[o]
           t == [s EXCEPT !.service = Made(@), !.bundle = Made(@), !.conditions = Made(@),
                          !.family = New, !.decoded = Port(s), !.defaulted = FALSE]
           c == [CopiedReference(s) EXCEPT !.bundle = Bundle(s), !.conditions = Conditions(s)]
<1>1. New \in Nat /\ New # 0
  BY Shapes DEF Inv
<1>2. /\ s \in APIService /\ Sound(o, s, cells[o])
      /\ PortAt(s) = IF s.service = 0 THEN 0 ELSE cells[o].portAt
      /\ Port(s) = IF s.service = 0 THEN NoPort ELSE cells[o].port
      /\ Port(s) \in Ports \cup {NoPort} /\ Target(s) \in Targets \cup {Unset}
      /\ Bundle(s) \in Bundles \cup {Unset} /\ Conditions(s) \in ConditionLists \cup {Unset}
  BY Own
<1>3. Hold(t, c)
  BY DEF DeepCopy
<1>4. /\ t \in APIService /\ t.family = New /\ t.service = Made(s.service)
      /\ t.bundle = Made(s.bundle) /\ t.conditions = Made(s.conditions)
      /\ t.version = s.version /\ t.viaInternal = s.viaInternal /\ t.defaulted = FALSE
      /\ t.decoded = Port(s)
  BY <1>1, <1>2 DEF APIService, Made
<1>5. c \in Cell /\ c.portAt = Made(PortAt(s)) /\ c.port = Port(s)
  BY <1>1, <1>2 DEF CopiedReference, Cell, Made
<1> HIDE DEF s, t, c
<1>6. Sound(New, t, c)
  BY <1>1, <1>2, <1>4, <1>5 DEF Sound, Made
<1>7. Decided(t, c)
  BY <1>2, <1>4, <1>5 DEF Decided, ExpectedPort, Sound, Made
<1>8. \A r \in Shared(t) : r = New
  BY <1>4 DEF Shared, Made
<1> QED  BY <1>3, <1>4, <1>5, <1>6, <1>7, <1>8, Held

\* A conversion shares bundle and conditions and has a ServiceReference with a port of
\* its own, the one that was decided.
LEMMA ConvertStep ==
    ASSUME Inv, NEW o \in DOMAIN objects, NEW v \in Versions, Convert(o, v)
    PROVE  /\ Inv' /\ DOMAIN objects' = 1..New
           /\ objects'[New] = [objects[o] EXCEPT
                !.version = v, !.service = Made(@), !.viaInternal = TRUE]
           /\ cells'[New] = ConvertedReference(objects[o])
           /\ \A p \in DOMAIN objects : objects'[p] = objects[p] /\ cells'[p] = cells[p]
<1> DEFINE s == objects[o]
           t == [s EXCEPT !.version = v, !.service = Made(@), !.viaInternal = TRUE]
           c == ConvertedReference(s)
<1>1. New \in Nat /\ New # 0 /\ New = Len(objects) + 1 /\ o \in 1..Len(objects)
      /\ Len(objects) \in Nat
  BY Shapes DEF Inv
<1>2. /\ s \in APIService /\ Sound(o, s, cells[o]) /\ Decided(s, cells[o])
      /\ PortAt(s) = IF s.service = 0 THEN 0 ELSE cells[o].portAt
      /\ Port(s) = IF s.service = 0 THEN NoPort ELSE cells[o].port
      /\ Port(s) \in Ports \cup {NoPort} /\ Target(s) \in Targets \cup {Unset}
  BY Own
<1>3. Hold(t, c)
  BY DEF Convert
<1>4. /\ t \in APIService /\ t.family = s.family /\ t.service = Made(s.service)
      /\ t.bundle = s.bundle /\ t.conditions = s.conditions
      /\ t.version = v /\ t.viaInternal = TRUE /\ t.defaulted = s.defaulted
      /\ t.decoded = s.decoded
  BY <1>1, <1>2 DEF APIService, Made
<1>5. Number(s) \in Ports \cup {NoPort} /\ (s.service # 0 => Number(s) # NoPort)
  BY <1>2, PortsAssumption, NoPortAssumption DEF Number, Sound
<1>6. /\ c \in Cell /\ c.portAt = Made(s.service)
      /\ c.port = IF s.service = 0 THEN NoPort ELSE Number(s)
  BY <1>1, <1>2, <1>5 DEF ConvertedReference, Cell, Made
<1>9. \A r \in Shared(t) : r \in DOMAIN objects /\ Family(r) = t.family
  <2>1. Shared(t) = Shared(s)
    BY <1>4 DEF Shared
  <2> QED  BY <1>4, <2>1 DEF Inv, Owned, Family
<1>10. s = objects[o] /\ t = [s EXCEPT !.version = v, !.service = Made(@), !.viaInternal = TRUE]
       /\ c = ConvertedReference(s)
  OBVIOUS
<1> HIDE DEF s, t, c
<1>7. Sound(New, t, c)
  <2>1. s.family \in 1..New
    BY <1>1, <1>2 DEF Sound
  <2> QED  BY <1>1, <1>4, <1>5, <1>6, <2>1 DEF Sound, Made
<1>8. Decided(t, c)
  <2> SUFFICES ASSUME t.service # 0, t.family \notin touched PROVE c.port = ExpectedPort(t)
    BY DEF Decided
  <2>1. s.service # 0 /\ Port(s) = ExpectedPort(s) /\ c.port = Number(s)
    BY <1>2, <1>4, <1>6 DEF Decided, Made
  <2>2. PortAt(s) = 0 <=> Port(s) = NoPort
    BY <1>2, <2>1 DEF Sound
  <2>3. DefaultPort # NoPort /\ 0 # NoPort
    BY NoPortAssumption DEF DefaultPort
  <2> QED  BY <1>4, <2>1, <2>2, <2>3 DEF ExpectedPort, Number
<1> QED  BY <1>3, <1>4, <1>6, <1>7, <1>8, <1>9, <1>10, Held

\* A home that an edit may write to, and what the edit leaves there.
Edited(o, r, c) ==
    /\ r \in DOMAIN objects /\ Family(r) = Family(o) /\ c \in Cell
    /\ cells' = [cells EXCEPT ![r] = c]
    /\ UNCHANGED objects /\ touched' = touched \cup {Family(o)}
    /\ c.portAt = cells[r].portAt /\ (c.portAt = 0 <=> c.port = NoPort)
    /\ \/ r = o /\ c.bundle = cells[r].bundle /\ c.conditions = cells[r].conditions
       \/ c.target = cells[r].target /\ c.port = cells[r].port

\* Every edit is of that kind: at the object's own home, or where its family shares.
LEMMA EditShape ==
    ASSUME Inv, NEW o \in DOMAIN objects,
           \/ \E target \in Targets : EditTarget(o, target)
           \/ \E port \in Ports : EditPort(o, port)
           \/ \E bundle \in Bundles : EditBundle(o, bundle)
           \/ \E conditions \in ConditionLists : EditConditions(o, conditions)
    PROVE  \E r, c : Edited(o, r, c)
<1> DEFINE s == objects[o]
<1>1. /\ s \in APIService /\ cells[o] \in Cell /\ Sound(o, s, cells[o])
      /\ PortAt(s) = IF s.service = 0 THEN 0 ELSE cells[o].portAt
  BY Own
<1>2. \A r \in Shared(s) :
        /\ r \in DOMAIN objects /\ Family(r) = Family(o)
        /\ cells[r] \in Cell /\ Sound(r, objects[r], cells[r])
  BY Shapes DEF Inv, Owned, SoundAll
<1>3. ASSUME NEW target \in Targets, EditTarget(o, target) PROVE \E r, c : Edited(o, r, c)
  <2> DEFINE c == [cells[o] EXCEPT !.target = target]
  <2>1. cells' = [cells EXCEPT ![o] = c] /\ UNCHANGED objects /\ touched' = touched \cup {Family(o)}
    BY <1>1, <1>3 DEF EditTarget, Sound, Touch
  <2>2. /\ c \in Cell /\ c.portAt = cells[o].portAt /\ c.port = cells[o].port
        /\ c.bundle = cells[o].bundle /\ c.conditions = cells[o].conditions
    BY <1>1 DEF Cell
  <2> HIDE DEF c
  <2>3. Edited(o, o, c)
    BY <1>1, <2>1, <2>2 DEF Edited, Sound
  <2> QED  BY <2>3
<1>4. ASSUME NEW port \in Ports, EditPort(o, port) PROVE \E r, c : Edited(o, r, c)
  <2> DEFINE c == [cells[o] EXCEPT !.port = port]
  <2>1. PortAt(s) = o /\ cells[o].portAt # 0
    BY <1>1, <1>4 DEF EditPort, Sound
  <2>2. cells' = [cells EXCEPT ![o] = c] /\ UNCHANGED objects /\ touched' = touched \cup {Family(o)}
    BY <1>4, <2>1 DEF EditPort, Touch
  <2>3. /\ c \in Cell /\ c.portAt = cells[o].portAt /\ c.port = port
        /\ c.bundle = cells[o].bundle /\ c.conditions = cells[o].conditions
    BY <1>1 DEF Cell
  <2>4. port # NoPort
    BY PortsAssumption, NoPortAssumption
  <2> HIDE DEF c
  <2>5. Edited(o, o, c)
    BY <2>1, <2>2, <2>3, <2>4 DEF Edited
  <2> QED  BY <2>5
<1>5. ASSUME NEW bundle \in Bundles, EditBundle(o, bundle) PROVE \E r, c : Edited(o, r, c)
  <2> DEFINE r == s.bundle
             c == [cells[r] EXCEPT !.bundle = bundle]
  <2>1. r \in Shared(s)
    BY <1>5 DEF EditBundle, Shared
  <2>2. cells' = [cells EXCEPT ![r] = c] /\ UNCHANGED objects /\ touched' = touched \cup {Family(o)}
    BY <1>5 DEF EditBundle, Touch
  <2>3. /\ c \in Cell /\ c.portAt = cells[r].portAt /\ c.port = cells[r].port
        /\ c.target = cells[r].target
    BY <1>2, <2>1 DEF Cell
  <2> HIDE DEF c, r
  <2>4. Edited(o, r, c)
    BY <1>2, <2>1, <2>2, <2>3 DEF Edited, Sound
  <2> QED  BY <2>4
<1>6. ASSUME NEW conditions \in ConditionLists, EditConditions(o, conditions)
      PROVE  \E r, c : Edited(o, r, c)
  <2> DEFINE r == s.conditions
             c == [cells[r] EXCEPT !.conditions = conditions]
  <2>1. r \in Shared(s)
    BY <1>6 DEF EditConditions, Shared
  <2>2. cells' = [cells EXCEPT ![r] = c] /\ UNCHANGED objects /\ touched' = touched \cup {Family(o)}
    BY <1>6 DEF EditConditions, Touch
  <2>3. /\ c \in Cell /\ c.portAt = cells[r].portAt /\ c.port = cells[r].port
        /\ c.target = cells[r].target
    BY <1>2, <2>1 DEF Cell
  <2> HIDE DEF c, r
  <2>4. Edited(o, r, c)
    BY <1>2, <2>1, <2>2, <2>3 DEF Edited, Sound
  <2> QED  BY <2>4
<1> QED  BY <1>3, <1>4, <1>5, <1>6

\* An edit keeps the invariant: the family it touches is exempt from the decided port.
LEMMA EditStep == ASSUME Inv, NEW o \in DOMAIN objects, NEW r, NEW c, Edited(o, r, c) PROVE Inv'
<1>1. Family(o) \in DOMAIN objects
  <2>1. Family(o) \in 1..o /\ o \in 1..Len(objects) /\ DOMAIN objects = 1..Len(objects)
    BY Shapes DEF Inv, SoundAll, Sound, Family
  <2> QED  BY <2>1, Shapes DEF Inv
<1>2. touched \subseteq touched' /\ touched' \subseteq DOMAIN objects /\ Family(r) \in touched'
  BY <1>1 DEF Edited, Inv, Shape
<1> QED  BY <1>2, CellChanged DEF Edited

\* Defaulting gives a port to a reference that never was internal and changes nothing
\* else.
LEMMA DefaultStep ==
    ASSUME Inv, NEW o \in DOMAIN objects, Default(o)
    PROVE  /\ Inv' /\ DOMAIN objects' = DOMAIN objects /\ touched' = touched
           /\ \A p \in DOMAIN objects :
                /\ objects'[p].service = objects[p].service
                /\ objects'[p].bundle = objects[p].bundle
                /\ objects'[p].conditions = objects[p].conditions
                /\ objects'[p].family = objects[p].family
                /\ objects'[p].settings = objects[p].settings
                /\ cells'[p].target = cells[p].target
                /\ cells'[p].bundle = cells[p].bundle
                /\ cells'[p].conditions = cells[p].conditions
                /\ p # o => cells'[p] = cells[p]
<1> DEFINE s == objects[o]
           t == [s EXCEPT !.defaulted = @ \/ ~s.viaInternal]
           c == cells[o]
           d == IF s.service = 0 THEN c ELSE WithPort(c, o)
<1>1. /\ s \in APIService /\ c \in Cell /\ Sound(o, s, c) /\ Decided(s, c)
      /\ o \in Nat /\ o # 0 /\ o \in 1..Len(cells) /\ DOMAIN objects = 1..Len(cells)
      /\ DOMAIN cells = 1..Len(cells)
  BY Own, Shapes DEF Inv
<1>2. objects' = [objects EXCEPT ![o] = t] /\ touched' = touched
  BY DEF Default
<1>3. /\ t \in APIService /\ t.version = s.version /\ t.service = s.service
      /\ t.bundle = s.bundle /\ t.conditions = s.conditions /\ t.family = s.family
      /\ t.viaInternal = s.viaInternal /\ t.decoded = s.decoded /\ t.settings = s.settings
  BY <1>1 DEF APIService
<1>4. t.defaulted <=> s.defaulted \/ ~s.viaInternal
  BY <1>1 DEF APIService
<1>5. /\ d \in Cell /\ d.target = c.target /\ d.bundle = c.bundle
      /\ d.conditions = c.conditions
      /\ IF s.service # 0 /\ c.portAt = 0 THEN d.portAt = o /\ d.port = DefaultPort ELSE d = c
  BY <1>1, PortsAssumption DEF WithPort, Cell
<1>6. cells' = [cells EXCEPT ![o] = d]
  <2>1. CASE s.service = 0
    <3>1. cells' = cells /\ d = cells[o]
      BY <2>1 DEF Default
    <3>2. cells = [cells EXCEPT ![o] = cells[o]]
      BY <1>1 DEF Inv, Shape
    <3> QED  BY <3>1, <3>2
  <2>2. CASE s.service # 0
    BY <1>1, <2>2 DEF Default, Sound
  <2> QED  BY <2>1, <2>2
<1> HIDE DEF t, d
<1>7. /\ cells' \in Seq(Cell) /\ Len(cells') = Len(cells) /\ cells'[o] = d
      /\ \A p \in DOMAIN objects : p # o => cells'[p] = cells[p]
  <2>1. cells \in Seq(Cell)
    BY DEF Inv, Shape
  <2> QED  BY <1>1, <1>5, <1>6, <2>1, CellWritten
<1>8. /\ objects' \in Seq(APIService) /\ Len(objects') = Len(objects)
      /\ DOMAIN objects' = DOMAIN objects
      /\ objects'[o] = t /\ \A p \in DOMAIN objects : p # o => objects'[p] = objects[p]
  <2>1. objects \in Seq(APIService)
    BY DEF Inv, Shape
  <2> QED  BY <1>2, <1>3, <2>1
<1>9. Shape'
  BY <1>2, <1>7, <1>8 DEF Inv, Shape
<1>10. DefaultPort # NoPort
  BY NoPortAssumption DEF DefaultPort
<1>11. SoundAll'
  <2>1. Sound(o, t, d)
    BY <1>1, <1>3, <1>5, <1>10 DEF Sound
  <2>2. ASSUME NEW p \in DOMAIN objects, p # o PROVE Sound(p, objects'[p], cells'[p])
    BY <1>7, <1>8, <2>2 DEF Inv, SoundAll
  <2>3. \A p \in DOMAIN objects' : Sound(p, objects'[p], cells'[p])
    BY <1>7, <1>8, <2>1, <2>2
  <2> QED  BY <2>3 DEF SoundAll, Sound
<1>12. \A p \in DOMAIN objects :
        /\ objects'[p].service = objects[p].service
        /\ objects'[p].bundle = objects[p].bundle
        /\ objects'[p].conditions = objects[p].conditions
        /\ objects'[p].family = objects[p].family
        /\ objects'[p].settings = objects[p].settings
        /\ cells'[p].target = cells[p].target
        /\ cells'[p].bundle = cells[p].bundle
        /\ cells'[p].conditions = cells[p].conditions
        /\ p # o => cells'[p] = cells[p]
  BY <1>3, <1>5, <1>7, <1>8
<1>13. Owned'
  BY <1>8, <1>12 DEF Inv, Owned, Shared, Family
<1>14. DecidedAll'
  <2>1. ASSUME s.service # 0, s.family \notin touched PROVE d.port = ExpectedPort(t)
    <3>1. c.port = ExpectedPort(s) /\ (c.portAt = 0 <=> c.port = NoPort)
      BY <1>1, <2>1 DEF Decided, Sound
    <3>2. 0 # NoPort
      BY NoPortAssumption
    <3>3. CASE c.portAt = 0
      BY <1>3, <1>4, <1>5, <1>10, <2>1, <3>1, <3>2, <3>3 DEF ExpectedPort
    <3>4. CASE c.portAt # 0
      BY <1>3, <1>4, <1>5, <1>10, <2>1, <3>1, <3>2, <3>4 DEF ExpectedPort
    <3> QED  BY <3>3, <3>4
  <2>2. ASSUME NEW p \in DOMAIN objects, objects'[p].service # 0, objects'[p].family \notin touched
        PROVE  cells'[p].port = ExpectedPort(objects'[p])
    <3>1. CASE p = o
      BY <1>3, <1>7, <1>8, <2>1, <2>2, <3>1
    <3>2. CASE p # o
      BY <1>7, <1>8, <2>2, <3>2 DEF Inv, DecidedAll, Decided
    <3> QED  BY <3>1, <3>2
  <2> QED  BY <1>2, <1>8, <2>2 DEF DecidedAll, Decided, ExpectedPort
<1> QED  BY <1>2, <1>8, <1>9, <1>11, <1>12, <1>13, <1>14 DEF Inv

-----------------------------------------------------------------------------
(* The invariant, and what it gives.                                       *)

\* The steps that make an object and leave the others as they are.
Grows ==
    /\ DOMAIN objects' = 1..New
    /\ \A o \in DOMAIN objects : objects'[o] = objects[o] /\ cells'[o] = cells[o]

\* The disjuncts of Next, as the lemmas above take them.
LEMMA Cases ==
    ASSUME Inv, Next
    PROVE  \/ \E s \in Decoded, c \in DecodedCell : Decode(s, c)
           \/ \E o \in DOMAIN objects : DeepCopy(o)
           \/ \E o \in DOMAIN objects, v \in Versions : Convert(o, v)
           \/ \E o \in DOMAIN objects : \E r, c : Edited(o, r, c)
           \/ \E o \in DOMAIN objects : Default(o)
<1>1. ASSUME NEW o \in DOMAIN objects,
             \/ \E target \in Targets : EditTarget(o, target)
             \/ \E port \in Ports : EditPort(o, port)
             \/ \E bundle \in Bundles : EditBundle(o, bundle)
             \/ \E conditions \in ConditionLists : EditConditions(o, conditions)
      PROVE  \E r, c : Edited(o, r, c)
  BY <1>1, EditShape
<1> QED  BY <1>1 DEF Next

\* No object, nothing shared.
LEMMA InvInit == Init => Inv
<1> SUFFICES ASSUME Init PROVE Inv
  OBVIOUS
<1>1. objects = <<>> /\ cells = <<>> /\ touched = {}
  BY DEF Init
<1> QED  BY <1>1 DEF Inv, Shape, SoundAll, Owned, DecidedAll

\* Every step of the program keeps the invariant.
LEMMA InvStep == Inv /\ [Next]_vars => Inv'
<1> SUFFICES ASSUME Inv, [Next]_vars PROVE Inv'
  OBVIOUS
<1>1. ASSUME NEW s \in Decoded, NEW c \in DecodedCell, Decode(s, c) PROVE Inv'
  BY <1>1, DecodeStep
<1>2. ASSUME NEW o \in DOMAIN objects, DeepCopy(o) PROVE Inv'
  BY <1>2, DeepCopyStep
<1>3. ASSUME NEW o \in DOMAIN objects, NEW v \in Versions, Convert(o, v) PROVE Inv'
  BY <1>3, ConvertStep
<1>4. ASSUME NEW o \in DOMAIN objects, NEW r, NEW c, Edited(o, r, c) PROVE Inv'
  BY <1>4, EditStep
<1>5. ASSUME NEW o \in DOMAIN objects, Default(o) PROVE Inv'
  BY <1>5, DefaultStep
<1>6. CASE UNCHANGED vars
  BY <1>6 DEF vars, Inv, Shape, SoundAll, Sound, Owned, Shared, Family, DecidedAll, Decided,
              ExpectedPort
<1>7. Next => Inv'
  BY <1>1, <1>2, <1>3, <1>4, <1>5, Cases
<1> QED  BY <1>6, <1>7

\* The invariant holds always.
LEMMA Invariance == Spec => []Inv
BY InvInit, InvStep, PTL DEF Spec

\* The objects are well formed, their references lead to what exists, and an internal
\* object that has a service has a port.
THEOREM APIServiceTypeCorrect == Spec => []TypeOK
<1>1. ASSUME Inv, NEW o \in DOMAIN objects
      PROVE  /\ References(objects[o]) \subseteq DOMAIN objects
             /\ Family(o) \in 1..o
             /\ objects[o].version = "internal" /\ objects[o].service # 0
                => Port(objects[o]) \in Ports
  <2> DEFINE s == objects[o]
             c == cells[o]
  <2>1. /\ s \in APIService /\ c \in Cell /\ Sound(o, s, c)
        /\ PortAt(s) = IF s.service = 0 THEN 0 ELSE c.portAt
        /\ Port(s) = IF s.service = 0 THEN NoPort ELSE c.port
        /\ Port(s) \in Ports \cup {NoPort}
    BY <1>1, Own
  <2>2. \A r \in Shared(s) : r \in DOMAIN objects
    BY <1>1 DEF Inv, Owned
  <2>3. References(s) \subseteq {o} \cup Shared(s)
    BY <2>1 DEF References, Shared, Sound
  <2> QED  BY <2>1, <2>2, <2>3 DEF Sound, Family
<1>2. Inv => TypeOK
  BY <1>1 DEF Inv, Shape, TypeOK
<1> QED  BY <1>2, Invariance, PTL

\* Whatever is converted, copied and defaulted in whatever order, every object has its
\* ServiceReference and port to itself, and an object and its deep copy, with all that is
\* converted from either, share neither bundle nor conditions.
THEOREM APIServiceIsolated == Spec => []Isolated
<1>1. ASSUME Inv, NEW o \in DOMAIN objects, NEW p \in DOMAIN objects, o # p
      PROVE  /\ objects[o].service # 0 => objects[o].service # objects[p].service
             /\ PortAt(objects[o]) # 0 => PortAt(objects[o]) # PortAt(objects[p])
  BY <1>1, Own DEF Sound
<1>2. ASSUME Inv, NEW o \in DOMAIN objects, NEW p \in DOMAIN objects, Family(o) # Family(p),
             NEW r \in Shared(objects[o])
      PROVE  r \notin Shared(objects[p])
  BY <1>2 DEF Inv, Owned
<1>3. ASSUME Inv, NEW o \in DOMAIN objects, NEW p \in DOMAIN objects, Family(o) # Family(p)
      PROVE  /\ objects[o].bundle # 0 => objects[o].bundle # objects[p].bundle
             /\ objects[o].conditions # 0 => objects[o].conditions # objects[p].conditions
  BY <1>2, <1>3 DEF Shared
<1>4. Inv => Isolated
  BY <1>1, <1>3 DEF Isolated
<1> QED  BY <1>4, Invariance, PTL

\* In a family that is not edited the port that was decoded stays, and one left out
\* becomes 443 or 0 for good, by what comes first: defaulting or conversion.
THEOREM PortDecidedAlways == Spec => []PortDecided
<1>1. Inv => PortDecided
  <2> SUFFICES ASSUME Inv, NEW o \in DOMAIN objects, objects[o].service # 0, Family(o) \notin touched
               PROVE  Port(objects[o]) = ExpectedPort(objects[o])
    BY DEF PortDecided
  <2> QED  BY Own DEF Decided, Family
<1> QED  BY <1>1, Invariance, PTL

-----------------------------------------------------------------------------
(* Who sees a step.                                                        *)

\* An address is read at the object's own home.
LEMMA AddressUnseen ==
    ASSUME Inv, Inv', NEW p \in DOMAIN objects, p \in DOMAIN objects',
           objects'[p].service = objects[p].service, cells'[p].target = cells[p].target,
           cells'[p].port = cells[p].port
    PROVE  Address(p)' = Address(p)
<1>1. /\ Port(objects[p]) = IF objects[p].service = 0 THEN NoPort ELSE cells[p].port
      /\ Target(objects[p]) = IF objects[p].service = 0 THEN Unset ELSE cells[p].target
  BY Own
<1>2. /\ Port(objects[p])' = IF objects'[p].service = 0 THEN NoPort ELSE cells'[p].port
      /\ Target(objects[p])' = IF objects'[p].service = 0 THEN Unset ELSE cells'[p].target
  <2>1. Sound(p, objects'[p], cells'[p])
    BY DEF Inv, SoundAll, Sound
  <2> QED  BY <2>1 DEF Sound, Port, PortAt, Target
<1> QED  BY <1>1, <1>2 DEF Address

\* The rest is read where the family shares it.
LEMMA RestUnseen ==
    ASSUME NEW p, objects'[p].bundle = objects[p].bundle,
           objects'[p].conditions = objects[p].conditions,
           \A r \in Shared(objects[p]) :
                cells'[r].bundle = cells[r].bundle /\ cells'[r].conditions = cells[r].conditions
    PROVE  Rest(p)' = Rest(p)
<1>1. objects[p].bundle # 0 => cells'[objects[p].bundle].bundle = cells[objects[p].bundle].bundle
  BY DEF Shared
<1>2. objects[p].conditions # 0 =>
        cells'[objects[p].conditions].conditions = cells[objects[p].conditions].conditions
  BY DEF Shared
<1> QED  BY <1>1, <1>2 DEF Rest, Bundle, Conditions

\* A new object changes no other.
LEMMA GrowsUnseen ==
    ASSUME Inv, Inv', Grows, NEW p \in DOMAIN objects
    PROVE  Address(p)' = Address(p) /\ Rest(p)' = Rest(p)
<1>1. p \in DOMAIN objects'
  BY Shapes DEF Grows, Inv
<1>2. \A r \in Shared(objects[p]) : r \in DOMAIN objects
  BY DEF Inv, Owned
<1> QED  BY <1>1, <1>2, AddressUnseen, RestUnseen DEF Grows

\* An edit changes the address of one object and the rest of one family.
LEMMA EditUnseen ==
    ASSUME Inv, Inv', NEW o \in DOMAIN objects, NEW r, NEW c, Edited(o, r, c),
           NEW p \in DOMAIN objects
    PROVE  (p # o => Address(p)' = Address(p)) /\ (Family(p) # Family(o) => Rest(p)' = Rest(p))
<1>1. /\ cells' = [cells EXCEPT ![r] = c] /\ objects' = objects /\ r \in DOMAIN cells
      /\ r = o \/ (c.target = cells[r].target /\ c.port = cells[r].port)
      /\ Family(r) = Family(o) /\ p \in DOMAIN cells
  BY Shapes DEF Edited, Inv
<1>2. \A q : q # r /\ q \in DOMAIN cells => cells'[q] = cells[q]
  BY <1>1
<1>3. cells'[r] = c
  BY <1>1
<1>4. ASSUME p # o PROVE Address(p)' = Address(p)
  BY <1>1, <1>2, <1>3, <1>4, AddressUnseen
<1>5. ASSUME Family(p) # Family(o) PROVE Rest(p)' = Rest(p)
  <2>1. \A q \in Shared(objects[p]) : q \in DOMAIN cells /\ q # r
    BY <1>1, <1>5, Shapes DEF Inv, Owned
  <2> QED  BY <1>1, <1>2, <2>1, RestUnseen
<1> QED  BY <1>4, <1>5

\* Defaulting changes the address of one object and no bundle or conditions.
LEMMA DefaultUnseen ==
    ASSUME Inv, NEW o \in DOMAIN objects, Default(o), NEW p \in DOMAIN objects
    PROVE  (p # o => Address(p)' = Address(p)) /\ Rest(p)' = Rest(p)
<1>1. Inv' /\ DOMAIN objects' = DOMAIN objects
  BY DefaultStep
<1>2. ASSUME p # o PROVE Address(p)' = Address(p)
  BY <1>1, <1>2, DefaultStep, AddressUnseen
<1>3. Rest(p)' = Rest(p)
  <2>1. \A r \in Shared(objects[p]) : r \in DOMAIN objects
    BY DEF Inv, Owned
  <2> QED  BY <2>1, DefaultStep, RestUnseen
<1> QED  BY <1>2, <1>3

\* No step changes the address of two objects, nor anything in objects of two families.
THEOREM OneAddressChangesAlways == Spec => OneAddressChanges
<1> DEFINE A ==
        \A o, p \in DOMAIN objects : o # p =>
            /\ Address(o)' = Address(o) \/ Address(p)' = Address(p)
            /\ Rest(o)' # Rest(o) /\ Rest(p)' # Rest(p) => Family(o) = Family(p)
<1>1. ASSUME Inv, Inv', [Next]_vars PROVE [A]_vars
  <2> SUFFICES ASSUME Next PROVE A
    BY <1>1
  <2>1. CASE \E s \in Decoded, c \in DecodedCell : Decode(s, c)
    <3>1. Grows
      BY <1>1, <2>1, DecodeStep DEF Grows
    <3> QED  BY <1>1, <3>1, GrowsUnseen
  <2>2. CASE \E o \in DOMAIN objects : DeepCopy(o)
    <3>1. Grows
      BY <1>1, <2>2, DeepCopyStep DEF Grows
    <3> QED  BY <1>1, <3>1, GrowsUnseen
  <2>3. CASE \E o \in DOMAIN objects, v \in Versions : Convert(o, v)
    <3>1. Grows
      BY <1>1, <2>3, ConvertStep DEF Grows
    <3> QED  BY <1>1, <3>1, GrowsUnseen
  <2>4. CASE \E o \in DOMAIN objects : \E r, c : Edited(o, r, c)
    <3>1. PICK o \in DOMAIN objects : \E r, c : Edited(o, r, c)
      BY <2>4
    <3>2. \A p \in DOMAIN objects :
            (p # o => Address(p)' = Address(p)) /\ (Family(p) # Family(o) => Rest(p)' = Rest(p))
      BY <1>1, <3>1, EditUnseen
    <3> QED  BY <3>2
  <2>5. CASE \E o \in DOMAIN objects : Default(o)
    <3>1. PICK o \in DOMAIN objects : Default(o)
      BY <2>5
    <3>2. \A p \in DOMAIN objects : (p # o => Address(p)' = Address(p)) /\ Rest(p)' = Rest(p)
      BY <1>1, <3>1, DefaultUnseen
    <3> QED  BY <3>2
  <2> QED  BY <1>1, <2>1, <2>2, <2>3, <2>4, <2>5, Cases
<1>2. Inv /\ Inv' /\ [Next]_vars => [A]_vars
  BY <1>1
<1>3. Spec => [][A]_vars
  BY <1>2, Invariance, PTL DEF Spec
<1> QED  BY <1>3 DEF OneAddressChanges

-----------------------------------------------------------------------------
(* All versions of an object say the same.                                 *)

Told(o) == <<objects[o].settings, Target(objects[o]), Bundle(objects[o]), Conditions(objects[o])>>

Agreement ==
    \A o, p \in DOMAIN objects :
        Family(o) = Family(p) /\ Family(o) \notin touched => Told(o) = Told(p)

\* A step keeps the agreement if what it leaves untouched tells the same as before and a
\* new object agrees with an old one of its family or has none.
LEMMA GrowsAgrees ==
    ASSUME Inv, Inv', Agreement, Grows, UNCHANGED touched, NEW n, n = New,
           \/ Family(n)' = n
           \/ \E o \in DOMAIN objects : Family(n)' = Family(o) /\ Told(n)' = Told(o)
    PROVE  Agreement'
<1>1. /\ DOMAIN objects = 1..Len(objects) /\ Len(objects) \in Nat /\ New = Len(objects) + 1
      /\ New \notin DOMAIN objects
  BY Shapes DEF Inv
<1>2. \A p \in DOMAIN objects' : p = n \/ p \in DOMAIN objects
  BY <1>1 DEF Grows
<1>3. \A p \in DOMAIN objects : Family(p)' = Family(p) /\ Told(p)' = Told(p)
  <2> SUFFICES ASSUME NEW p \in DOMAIN objects PROVE Family(p)' = Family(p) /\ Told(p)' = Told(p)
    OBVIOUS
  <2>1. objects'[p] = objects[p]
    BY DEF Grows
  <2>2. Address(p)' = Address(p) /\ Rest(p)' = Rest(p)
    BY GrowsUnseen
  <2> QED  BY <2>1, <2>2 DEF Family, Told, Address, Rest
<1>4. \A p \in DOMAIN objects : Family(p) # n
  BY <1>1 DEF Inv, SoundAll, Sound, Family
<1>5. ASSUME NEW p \in DOMAIN objects, Family(n)' = Family(p), Family(p) \notin touched
      PROVE  Told(n)' = Told(p)
  BY <1>4, <1>5 DEF Agreement
<1>6. ASSUME NEW o \in DOMAIN objects', NEW p \in DOMAIN objects',
             Family(o)' = Family(p)', Family(o)' \notin touched
      PROVE  Told(o)' = Told(p)'
  <2>1. CASE o = n /\ p = n
    BY <2>1
  <2>2. CASE o = n /\ p \in DOMAIN objects
    BY <1>3, <1>5, <1>6, <2>2
  <2>3. CASE o \in DOMAIN objects /\ p = n
    BY <1>3, <1>5, <1>6, <2>3
  <2>4. CASE o \in DOMAIN objects /\ p \in DOMAIN objects
    BY <1>3, <1>6, <2>4 DEF Agreement
  <2> QED  BY <1>2, <2>1, <2>2, <2>3, <2>4
<1> QED  BY <1>6 DEF Agreement

\* A conversion tells what its source tells.
LEMMA ConvertTells ==
    ASSUME Inv, NEW o \in DOMAIN objects, NEW v \in Versions, Convert(o, v),
           NEW n, n = New
    PROVE  Family(n)' = Family(o) /\ Told(n)' = Told(o)
<1> DEFINE s == objects[o]
           t == [s EXCEPT !.version = v, !.service = Made(@), !.viaInternal = TRUE]
           c == ConvertedReference(s)
<1>1. /\ objects'[New] = t /\ cells'[New] = c
      /\ \A p \in DOMAIN objects : objects'[p] = objects[p] /\ cells'[p] = cells[p]
  BY ConvertStep
<1>2. s \in APIService /\ New # 0 /\ Target(s) = IF s.service = 0 THEN Unset ELSE cells[o].target
  BY Own, Shapes DEF Inv
<1>3. /\ t.family = s.family /\ t.settings = s.settings /\ t.service = Made(s.service)
      /\ t.bundle = s.bundle /\ t.conditions = s.conditions
  BY <1>2 DEF APIService
<1>4. c.target = Target(s)
  BY DEF ConvertedReference
<1> HIDE DEF t, c
<1>5. Target(objects[n])' = Target(s)
  BY <1>1, <1>2, <1>3, <1>4 DEF Target, Made
<1>6. \A r \in Shared(s) : cells'[r] = cells[r]
  BY <1>1 DEF Inv, Owned
<1>7. Bundle(objects[n])' = Bundle(s)
  <2>1. s.bundle # 0 => cells'[s.bundle] = cells[s.bundle]
    BY <1>6 DEF Shared
  <2> QED  BY <1>1, <1>3, <2>1 DEF Bundle
<1>8. Conditions(objects[n])' = Conditions(s)
  <2>1. s.conditions # 0 => cells'[s.conditions] = cells[s.conditions]
    BY <1>6 DEF Shared
  <2> QED  BY <1>1, <1>3, <2>1 DEF Conditions
<1> QED  BY <1>1, <1>3, <1>5, <1>7, <1>8 DEF Family, Told

\* Every step keeps the agreement.
LEMMA AgreeStep == Inv /\ Inv' /\ Agreement /\ [Next]_vars => Agreement'
<1> SUFFICES ASSUME Inv, Inv', Agreement, [Next]_vars PROVE Agreement'
  OBVIOUS
<1>0. PICK n : n = New
  OBVIOUS
<1>1. ASSUME NEW s \in Decoded, NEW c \in DecodedCell, Decode(s, c) PROVE Agreement'
  <2>1. Grows /\ Family(n)' = n
    BY <1>0, <1>1, DecodeStep DEF Grows, Family
  <2>2. UNCHANGED touched
    BY <1>1 DEF Decode, Hold, DefaultingRegistered
  <2> QED  BY <1>0, <2>1, <2>2, GrowsAgrees
<1>2. ASSUME NEW o \in DOMAIN objects, DeepCopy(o) PROVE Agreement'
  <2>1. Grows /\ Family(n)' = n
    BY <1>0, <1>2, DeepCopyStep DEF Grows, Family
  <2>2. UNCHANGED touched
    BY <1>2 DEF DeepCopy, Hold
  <2> QED  BY <1>0, <2>1, <2>2, GrowsAgrees
<1>3. ASSUME NEW o \in DOMAIN objects, NEW v \in Versions, Convert(o, v) PROVE Agreement'
  <2>1. Grows
    BY <1>3, ConvertStep DEF Grows
  <2>2. UNCHANGED touched
    BY <1>3 DEF Convert, Hold
  <2> QED  BY <1>0, <1>3, <2>1, <2>2, ConvertTells, GrowsAgrees
<1>4. ASSUME NEW o \in DOMAIN objects, NEW r, NEW c, Edited(o, r, c) PROVE Agreement'
  <2>1. objects' = objects /\ touched' = touched \cup {Family(o)}
    BY <1>4 DEF Edited
  <2>2. ASSUME NEW p \in DOMAIN objects, Family(p) # Family(o) PROVE Told(p)' = Told(p)
    <3>1. p # o /\ Address(p)' = Address(p) /\ Rest(p)' = Rest(p)
      BY <1>4, <2>2, EditUnseen
    <3> QED  BY <2>1, <3>1 DEF Told, Address, Rest
  <2>3. \A p \in DOMAIN objects : Family(p)' = Family(p)
    BY <2>1 DEF Family
  <2> QED  BY <2>1, <2>2, <2>3 DEF Agreement
<1>5. ASSUME NEW o \in DOMAIN objects, Default(o) PROVE Agreement'
  <2>1. DOMAIN objects' = DOMAIN objects /\ touched' = touched
    BY <1>5, DefaultStep
  <2>2. ASSUME NEW p \in DOMAIN objects PROVE Family(p)' = Family(p) /\ Told(p)' = Told(p)
    <3>1. /\ objects'[p].family = objects[p].family /\ objects'[p].settings = objects[p].settings
          /\ objects'[p].service = objects[p].service /\ cells'[p].target = cells[p].target
      BY <1>5, <2>2, DefaultStep
    <3>2. Rest(p)' = Rest(p)
      BY <1>5, <2>2, DefaultUnseen
    <3>3. Sound(p, objects[p], cells[p]) /\ Sound(p, objects'[p], cells'[p])
      BY <2>1, <2>2 DEF Inv, SoundAll, Sound
    <3>4. Target(objects[p])' = Target(objects[p])
      BY <3>1, <3>3 DEF Target, Sound
    <3> QED  BY <3>1, <3>2, <3>4 DEF Family, Told, Rest
  <2> QED  BY <2>1, <2>2 DEF Agreement
<1>6. CASE UNCHANGED vars
  BY <1>6 DEF vars, Agreement, Family, Told, Target, Bundle, Conditions
<1>7. Next => Agreement'
  BY <1>1, <1>2, <1>3, <1>4, <1>5, Cases
<1> QED  BY <1>6, <1>7

\* Whatever is converted to what, in any order and number, and defaulted in between, all
\* versions of an object that is not edited agree on everything but the port.
THEOREM APIServiceVersionsAgree == Spec => []ConversionsAgree
<1>1. Init => Agreement
  BY DEF Init, Agreement
<1>2. Agreement => ConversionsAgree
  BY DEF Agreement, Told, ConversionsAgree, Rest
<1> QED  BY <1>1, <1>2, AgreeStep, Invariance, PTL DEF Spec
=============================================================================
