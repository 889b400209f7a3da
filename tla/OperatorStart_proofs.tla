-------------------------- MODULE OperatorStart_proofs --------------------------
(***************************************************************************)
(* Proofs about OperatorStart, for any number of renewals and faults.      *)
(* The argument: once main has parsed its flags, the slice tlsOpts has no  *)
(* spare capacity, so each later append makes a new array and leaves every *)
(* list built before as it is.                                             *)
(***************************************************************************)
EXTENDS OperatorStart, TLAPS

Early == {"package", "init", "flags"}

\* tlsOpts has no room, and holds what all servers have in common once flags are parsed.
TlsOptsFull ==
    /\ tlsOpts.len = Capacity(tlsOpts) /\ tlsOpts.len \in 0..1
    /\ pc \in Early => tlsOpts = NilSlice
    /\ pc \notin Early => Contents(tlsOpts) = Common

Inv == TypeOK /\ TlsOptsFull /\ OwnOptions

-----------------------------------------------------------------------------
\* append on a full slice leaves the arrays there are alone and makes one that begins
\* with the slice's elements and the option (main:104, :127 and :176).
LEMMA AppendMakesArray ==
    ASSUME TypeOK, NEW s \in Slice, s.len = Capacity(s), s.len \in 0..1, NEW o \in Options,
           arrays' = ArraysAfter(s, o)
    PROVE  /\ arrays' \in Seq(Seq(Options \cup {"nil"})) /\ Len(arrays') = Len(arrays) + 1
           /\ \A k \in 1..Len(arrays) : arrays'[k] = arrays[k]
           /\ Appended(s) = [array |-> Len(arrays) + 1, len |-> s.len + 1]
           /\ Len(arrays'[Len(arrays) + 1]) >= s.len + 1
           /\ \A j \in 1..s.len : arrays'[Len(arrays) + 1][j] = arrays[s.array][j]
           /\ arrays'[Len(arrays) + 1][s.len + 1] = o
<1> DEFINE Elements == Options \cup {"nil"}
           new == Reallocated(s, o)
<1>1. arrays \in Seq(Seq(Elements)) /\ s.array \in 0..Len(arrays) /\ s.len \in {0, 1}
  BY DEF TypeOK, Slice
<1>2. arrays' = Append(arrays, new)
  BY <1>1 DEF ArraysAfter
<1>3. \A j \in 1..s.len : arrays[s.array][j] \in Elements
  <2>1. CASE s.array = 0
    BY <2>1 DEF Capacity
  <2>2. CASE s.array # 0
    <3>1. arrays[s.array] \in Seq(Elements) /\ s.len = Len(arrays[s.array])
      BY <1>1, <2>2 DEF Capacity
    <3> QED BY <3>1
  <2> QED BY <2>1, <2>2
<1>4. Grown(Capacity(s)) \in Nat /\ Grown(Capacity(s)) >= s.len + 1
  BY <1>1 DEF Grown
<1>5. /\ new \in Seq(Elements) /\ Len(new) = Grown(Capacity(s))
      /\ \A j \in 1..s.len : new[j] = arrays[s.array][j]
      /\ new[s.len + 1] = o
  <2>1. new = [j \in 1..Grown(Capacity(s)) |->
                  IF j <= s.len THEN Contents(s)[j] ELSE IF j = s.len + 1 THEN o ELSE "nil"]
    BY DEF Reallocated
  <2>2. \A j \in 1..s.len : Contents(s)[j] = arrays[s.array][j]
    BY DEF Contents
  <2>3. \A j \in 1..Grown(Capacity(s)) : new[j] \in Elements
    BY <1>1, <1>3, <1>4, <2>1, <2>2
  <2>4. new \in [1..Grown(Capacity(s)) -> Elements]
    BY <2>1, <2>3
  <2>5. new \in Seq(Elements) /\ Len(new) = Grown(Capacity(s))
    BY <1>4, <2>4
  <2> HIDE DEF new
  <2> QED BY <1>1, <1>4, <2>1, <2>2, <2>5
<1> HIDE DEF new, Elements
<1>6. arrays' \in Seq(Seq(Elements)) /\ Len(arrays') = Len(arrays) + 1 /\ arrays'[Len(arrays) + 1] = new
  BY <1>1, <1>2, <1>5
<1>7. \A k \in 1..Len(arrays) : arrays'[k] = arrays[k]
  BY <1>1, <1>2, <1>5
<1>8. Appended(s) = [array |-> Len(arrays) + 1, len |-> s.len + 1]
  BY <1>1 DEF Appended
<1> QED BY <1>4, <1>5, <1>6, <1>7, <1>8 DEF Elements

\* What a slice holds depends on its own array only.
LEMMA ContentsKept ==
    ASSUME TypeOK, NEW s \in Slice, InArray(s), \A k \in 1..Len(arrays) : arrays'[k] = arrays[k],
           Len(arrays') \in Nat, Len(arrays') >= Len(arrays)
    PROVE  /\ [j \in 1..s.len |-> arrays'[s.array][j]] = Contents(s)
           /\ (IF s.array = 0 THEN 0 ELSE Len(arrays'[s.array])) = Capacity(s)
           /\ s.array \in 0..Len(arrays')
<1>1. s.array \in 0..Len(arrays) /\ Len(arrays) \in Nat /\ s.len \in 0..2 /\ s.len <= Capacity(s)
  BY DEF TypeOK, Slice, InArray
<1>2. CASE s.array = 0
  BY <1>1, <1>2 DEF Contents, Capacity
<1>3. CASE s.array # 0
  <2>1. arrays'[s.array] = arrays[s.array]
    BY <1>1, <1>3
  <2> QED BY <1>1, <1>3, <2>1 DEF Contents, Capacity
<1> QED BY <1>2, <1>3

-----------------------------------------------------------------------------
\* The conjuncts of TypeOK about the option lists, and the others.
ListsOK ==
    /\ arrays \in Seq(Seq(Options \cup {"nil"}))
    /\ tlsOpts \in Slice /\ InArray(tlsOpts)
    /\ given \in [Servers -> Slice] /\ \A s \in Servers : InArray(given[s])

RestOK ==
    /\ flags \in [http2 : BOOLEAN, certPath : SUBSET Servers]
    /\ disk \in [Servers -> [version : 0..MaxRotations, whole : BOOLEAN]]
    /\ pc \in Stages
    /\ builder \subseteq {"Application"} /\ scheme \subseteq {"client-go", "Application"}
    /\ watchers \in SUBSET Servers /\ added \subseteq watchers
    /\ held \in [Servers -> 0..MaxRotations] /\ \A s \in Servers : held[s] <= disk[s].version
    /\ faults \in 0..MaxFaults

LEMMA TypeParts == TypeOK <=> ListsOK /\ RestOK
BY DEF TypeOK, ListsOK, RestOK

\* A step keeps what it says nothing about, as long as it does not go back to a stage
\* before the lists were made.
LEMMA ListsKept ==
    ASSUME Inv, UNCHANGED <<flags, arrays, tlsOpts, given>>,
           pc' \in Early <=> pc \in Early, pc # "exited" \/ pc' = "exited",
           pc' = "exited" \/ pc' = pc \/ pc \in Early \/ pc \notin Early \cup Servers
    PROVE  ListsOK' /\ TlsOptsFull' /\ OwnOptions'
<1>1. ListsOK'
  BY DEF Inv, TypeOK, ListsOK, Slice, InArray, Capacity
<1>2. TlsOptsFull'
  BY DEF Inv, TlsOptsFull, Capacity, Contents, Common
<1>3. OwnOptions'
  BY DEF Inv, OwnOptions, Contents, OptionsAskedFor, Common, Early, Servers
<1> QED BY <1>1, <1>2, <1>3

LEMMA InitInv == Init => Inv
<1> SUFFICES ASSUME Init PROVE Inv
  OBVIOUS
<1>1. arrays = <<>> /\ NilSlice \in Slice /\ Capacity(NilSlice) = 0 /\ InArray(NilSlice)
  BY DEF Init, NilSlice, Slice, Capacity, InArray
<1>2. ListsOK
  BY <1>1 DEF Init, ListsOK
<1>3. RestOK
  BY BoundsAssumption DEF Init, RestOK, Stages
<1>4. TlsOptsFull
  BY <1>1 DEF Init, TlsOptsFull, NilSlice, Early
<1>5. OwnOptions
  BY DEF Init, OwnOptions
<1> QED BY <1>2, <1>3, <1>4, <1>5, TypeParts DEF Inv

LEMMA DisableStep == Inv /\ DisableHTTP2 => Inv'
<1> SUFFICES ASSUME Inv, DisableHTTP2 PROVE Inv'
  OBVIOUS
<1>1. /\ tlsOpts = NilSlice /\ tlsOpts \in Slice /\ tlsOpts.len = Capacity(tlsOpts)
      /\ Capacity(tlsOpts) = 0 /\ TypeOK /\ Len(arrays) \in Nat
      /\ given \in [Servers -> Slice] /\ \A s \in Servers : InArray(given[s])
  BY DEF Inv, TypeOK, TlsOptsFull, DisableHTTP2, Early, NilSlice, Capacity
<1>2. RestOK'
  BY DEF Inv, TypeOK, RestOK, DisableHTTP2, Stages
<1>3. OwnOptions'
  BY DEF DisableHTTP2, OwnOptions
<1>4. CASE flags.http2
  <2>1. ListsOK'
    BY <1>4 DEF Inv, TypeOK, ListsOK, DisableHTTP2, Slice, InArray, Capacity
  <2>2. TlsOptsFull'
    <3>1. Contents(tlsOpts)' = <<>>
      BY <1>1, <1>4 DEF DisableHTTP2, Contents, NilSlice
    <3> QED BY <1>1, <1>4, <3>1 DEF Inv, TlsOptsFull, DisableHTTP2, Capacity, Common, Early, NilSlice
  <2> QED BY <1>2, <1>3, <2>1, <2>2, TypeParts DEF Inv, TypeOK, ListsOK, RestOK
<1>5. CASE ~flags.http2
  <2>1. arrays' = ArraysAfter(tlsOpts, "http/1.1") /\ tlsOpts' = Appended(tlsOpts) /\ UNCHANGED <<flags, given>>
    BY <1>5 DEF DisableHTTP2
  <2>2. /\ arrays' \in Seq(Seq(Options \cup {"nil"})) /\ Len(arrays') = Len(arrays) + 1
        /\ \A k \in 1..Len(arrays) : arrays'[k] = arrays[k]
        /\ tlsOpts' = [array |-> Len(arrays) + 1, len |-> 1]
        /\ arrays'[Len(arrays) + 1][1] = "http/1.1"
    <3>1. "http/1.1" \in Options /\ tlsOpts.len = 0
      BY <1>1 DEF Options, NilSlice
    <3> QED BY <1>1, <2>1, <3>1, AppendMakesArray
  <2>3. Len(arrays'[Len(arrays) + 1]) = 1
    <3>1. arrays' = Append(arrays, Reallocated(tlsOpts, "http/1.1"))
      BY <1>1, <2>1 DEF ArraysAfter, NilSlice
    <3>2. Reallocated(tlsOpts, "http/1.1") = [j \in 1..1 |-> Reallocated(tlsOpts, "http/1.1")[j]]
      BY <1>1 DEF Reallocated, Grown
    <3> QED BY <1>1, <3>1, <3>2 DEF Inv, TypeOK
  <2>4. Capacity(tlsOpts)' = 1
    BY <1>1, <2>2, <2>3 DEF Capacity
  <2>5. ListsOK'
    <3>1. tlsOpts' \in Slice' /\ InArray(tlsOpts)'
      BY <1>1, <2>2, <2>4 DEF Slice, InArray
    <3>2. ASSUME NEW s \in Servers PROVE given[s] \in Slice' /\ InArray(given[s])'
      <4>1. given[s] \in Slice /\ InArray(given[s])
        BY <1>1
      <4>2. /\ (IF given[s].array = 0 THEN 0 ELSE Len(arrays'[given[s].array])) = Capacity(given[s])
            /\ given[s].array \in 0..Len(arrays')
        BY <1>1, <2>2, <4>1, ContentsKept
      <4> QED BY <2>1, <4>1, <4>2 DEF Slice, InArray, Capacity
    <3> QED BY <1>1, <2>1, <2>2, <3>1, <3>2 DEF ListsOK
  <2>6. TlsOptsFull'
    <3>1. Contents(tlsOpts)' = <<"http/1.1">>
      BY <2>2 DEF Contents
    <3> QED BY <1>5, <2>1, <2>2, <2>4, <3>1 DEF TlsOptsFull, DisableHTTP2, Common, Early
  <2> QED BY <1>2, <1>3, <2>5, <2>6, TypeParts DEF Inv, TypeOK, ListsOK, RestOK
<1> QED BY <1>4, <1>5

LEMMA WithoutStep == ASSUME Inv, NEW s \in Servers, WithoutCertificate(s) PROVE Inv'
<1>1. given' = [given EXCEPT ![s] = tlsOpts] /\ UNCHANGED <<flags, arrays, tlsOpts>>
  BY DEF WithoutCertificate
<1>2. pc = s /\ pc' = AfterServer(s) /\ s \notin flags.certPath /\ s \notin Early
  BY DEF WithoutCertificate, Servers, Early
<1>3. RestOK'
  BY <1>2 DEF WithoutCertificate, Inv, TypeOK, RestOK, AfterServer, Stages
<1>4. ListsOK'
  BY <1>1 DEF Inv, TypeOK, ListsOK, Slice, InArray, Capacity
<1>5. TlsOptsFull'
  BY <1>1, <1>2 DEF Inv, TlsOptsFull, Capacity, Contents, Common, AfterServer, Early
<1>6. OwnOptions'
  <2>1. Contents(given[s])' = OptionsAskedFor(s)'
    <3>1. Contents(given[s])' = Contents(tlsOpts)
      BY <1>1 DEF Inv, TypeOK, Contents
    <3> QED BY <1>1, <1>2, <3>1 DEF Inv, TlsOptsFull, OptionsAskedFor, Common
  <2>2. ASSUME NEW t \in Servers, t # s PROVE Contents(given[t])' = Contents(given[t])
    BY <1>1, <2>2 DEF Inv, TypeOK, Contents
  <2> QED BY <1>1, <1>2, <2>1, <2>2 DEF Inv, OwnOptions, OptionsAskedFor, Common, AfterServer, Servers
<1> QED BY <1>3, <1>4, <1>5, <1>6, TypeParts DEF Inv, TypeOK, ListsOK, RestOK

LEMMA LoadStep == ASSUME Inv, NEW s \in Servers, LoadCertificate(s) PROVE Inv'
<1>1. /\ arrays' = ArraysAfter(tlsOpts, s) /\ given' = [given EXCEPT ![s] = Appended(tlsOpts)]
      /\ UNCHANGED <<flags, tlsOpts>>
  BY DEF LoadCertificate
<1>2. pc = s /\ pc' = AfterServer(s) /\ s \in flags.certPath /\ s \notin Early
  BY DEF LoadCertificate, Servers, Early
<1>3. /\ TypeOK /\ tlsOpts \in Slice /\ tlsOpts.len = Capacity(tlsOpts) /\ tlsOpts.len \in 0..1
      /\ Contents(tlsOpts) = Common /\ Len(arrays) \in Nat /\ InArray(tlsOpts)
      /\ given \in [Servers -> Slice] /\ \A t \in Servers : InArray(given[t])
  BY <1>2 DEF Inv, TypeOK, TlsOptsFull
<1>4. /\ arrays' \in Seq(Seq(Options \cup {"nil"})) /\ Len(arrays') = Len(arrays) + 1
      /\ \A k \in 1..Len(arrays) : arrays'[k] = arrays[k]
      /\ Appended(tlsOpts) = [array |-> Len(arrays) + 1, len |-> tlsOpts.len + 1]
      /\ Len(arrays'[Len(arrays) + 1]) >= tlsOpts.len + 1
      /\ \A j \in 1..tlsOpts.len : arrays'[Len(arrays) + 1][j] = arrays[tlsOpts.array][j]
      /\ arrays'[Len(arrays) + 1][tlsOpts.len + 1] = s
  BY <1>1, <1>3, AppendMakesArray DEF Options
<1>5. ASSUME NEW t \in Slice, InArray(t)
      PROVE  /\ [j \in 1..t.len |-> arrays'[t.array][j]] = Contents(t)
             /\ (IF t.array = 0 THEN 0 ELSE Len(arrays'[t.array])) = Capacity(t)
             /\ t.array \in 0..Len(arrays')
  BY <1>3, <1>4, <1>5, ContentsKept
<1>6. RestOK'
  BY <1>2 DEF LoadCertificate, Inv, TypeOK, RestOK, AfterServer, Stages
<1>7. ListsOK'
  <2>1. tlsOpts' \in Slice' /\ InArray(tlsOpts)'
    BY <1>1, <1>3, <1>5 DEF Slice, InArray, Capacity
  <2>2. ASSUME NEW t \in Servers PROVE given'[t] \in Slice' /\ InArray(given[t])'
    <3>1. CASE t = s
      <4>1. given'[t] = [array |-> Len(arrays) + 1, len |-> tlsOpts.len + 1]
        BY <1>1, <1>3, <1>4, <3>1
      <4>2. Len(arrays') = Len(arrays) + 1 /\ Len(arrays) \in Nat /\ tlsOpts.len \in 0..1
        BY <1>3, <1>4
      <4>3. given'[t] \in Slice'
        BY <4>1, <4>2 DEF Slice
      <4>4. Capacity(given[t])' = Len(arrays'[Len(arrays) + 1])
        BY <4>1, <4>2 DEF Capacity
      <4> QED BY <1>4, <4>1, <4>3, <4>4 DEF InArray
    <3>2. CASE t # s
      <4>1. given'[t] = given[t] /\ given[t] \in Slice /\ InArray(given[t])
        BY <1>1, <1>3, <3>2
      <4>2. /\ (IF given[t].array = 0 THEN 0 ELSE Len(arrays'[given[t].array])) = Capacity(given[t])
            /\ given[t].array \in 0..Len(arrays')
        BY <1>5, <4>1
      <4> QED BY <4>1, <4>2 DEF Slice, InArray, Capacity
    <3> QED BY <3>1, <3>2
  <2>3. given' \in [Servers -> Slice']
    <3>1. given' = [t \in Servers |-> given'[t]]
      BY <1>1, <1>3
    <3> QED BY <2>2, <3>1
  <2> QED BY <1>4, <2>1, <2>2, <2>3 DEF ListsOK
<1>8. TlsOptsFull'
  <2>1. Contents(tlsOpts)' = Contents(tlsOpts) /\ Capacity(tlsOpts)' = Capacity(tlsOpts)
    BY <1>1, <1>3, <1>5 DEF Contents, Capacity
  <2> QED BY <1>1, <1>2, <1>3, <2>1 DEF TlsOptsFull, Common, AfterServer, Early
<1>9. OwnOptions'
  <2>1. Contents(given[s])' = OptionsAskedFor(s)'
    <3>1. given'[s] = [array |-> Len(arrays) + 1, len |-> tlsOpts.len + 1]
      BY <1>1, <1>3, <1>4
    <3>2. Contents(given[s])' = [j \in 1..(tlsOpts.len + 1) |-> arrays'[Len(arrays) + 1][j]]
      BY <3>1 DEF Contents
    <3>3. \A j \in 1..tlsOpts.len : arrays'[Len(arrays) + 1][j] = Common[j]
      BY <1>3, <1>4 DEF Contents
    <3>4. Common \in Seq(Options) /\ Len(Common) = tlsOpts.len
      <4>1. Contents(tlsOpts) = [j \in 1..tlsOpts.len |-> arrays[tlsOpts.array][j]]
        BY DEF Contents
      <4> QED BY <1>3, <4>1 DEF Common, Options
    <3>5. Append(Common, s) = [j \in 1..(tlsOpts.len + 1) |-> IF j <= tlsOpts.len THEN Common[j] ELSE s]
      <4>1. CASE flags.http2
        BY <3>4, <4>1 DEF Common
      <4>2. CASE ~flags.http2
        BY <3>4, <4>2 DEF Common
      <4> QED BY <4>1, <4>2
    <3>6. Contents(given[s])' = Append(Common, s)
      BY <1>3, <1>4, <3>2, <3>3, <3>5
    <3> QED BY <1>1, <1>2, <3>6 DEF OptionsAskedFor, Common
  <2>2. ASSUME NEW t \in Servers, t # s PROVE Contents(given[t])' = Contents(given[t])
    <3>1. given'[t] = given[t] /\ given[t] \in Slice /\ InArray(given[t])
      BY <1>1, <1>3, <2>2
    <3> QED BY <1>5, <3>1 DEF Contents
  <2> QED BY <1>1, <1>2, <2>1, <2>2 DEF Inv, OwnOptions, OptionsAskedFor, Common, AfterServer, Servers
<1> QED BY <1>6, <1>7, <1>8, <1>9, TypeParts DEF Inv, TypeOK, ListsOK, RestOK

LEMMA RestartStep == Inv /\ Restart => Inv'
<1> SUFFICES ASSUME Inv, Restart PROVE Inv'
  OBVIOUS
<1>1. arrays' = <<>> /\ tlsOpts' = NilSlice /\ given' = [s \in Servers |-> NilSlice] /\ pc' = "package"
  BY DEF Restart
<1>2. ListsOK'
  BY <1>1 DEF ListsOK, Slice, InArray, Capacity, NilSlice
<1>3. RestOK'
  BY BoundsAssumption DEF Restart, Inv, TypeOK, RestOK, Stages
<1>4. TlsOptsFull'
  BY <1>1 DEF TlsOptsFull, Capacity, NilSlice, Early
<1>5. OwnOptions'
  BY <1>1 DEF OwnOptions
<1> QED BY <1>2, <1>3, <1>4, <1>5, TypeParts DEF Inv, TypeOK, ListsOK, RestOK

\* The steps that leave the lists alone.
LEMMA OtherSteps ==
    ASSUME Inv,
           \/ RegisterTypes \/ FillScheme \/ NewManager \/ SetupController \/ StartManager \/ Exit
           \/ \E s \in Servers : \/ LoadFails(s) \/ AddWatcher(s) \/ ReadCertificate(s)
                                 \/ RotateCertificate(s) \/ RotateKey(s)
    PROVE  Inv'
<1>1. RestOK
  BY DEF Inv, TypeOK, RestOK
<1>2. RestOK' /\ UNCHANGED <<flags, arrays, tlsOpts, given>>
  <2>1. CASE RegisterTypes
    BY <1>1, <2>1 DEF RegisterTypes, RestOK, Stages
  <2>2. CASE FillScheme
    BY <1>1, <2>2 DEF FillScheme, RestOK, Stages
  <2>3. CASE NewManager \/ SetupController \/ StartManager
    BY <1>1, <2>3 DEF NewManager, SetupController, StartManager, memory, RestOK, Stages
  <2>4. CASE Exit
    BY <1>1, <2>4, BoundsAssumption DEF Exit, memory, RestOK, Stages
  <2>5. CASE \E s \in Servers : LoadFails(s)
    BY <1>1, <2>5 DEF LoadFails, memory, RestOK, Stages
  <2>6. CASE \E s \in Servers : AddWatcher(s)
    BY <1>1, <2>6 DEF AddWatcher, RestOK, Stages
  <2>7. CASE \E s \in Servers : ReadCertificate(s)
    <3>1. PICK s \in Servers : ReadCertificate(s)
      BY <2>7
    <3>2. disk[s].version \in 0..MaxRotations /\ held' = [held EXCEPT ![s] = disk[s].version]
      BY <1>1, <3>1 DEF ReadCertificate, RestOK
    <3> QED BY <1>1, <3>1, <3>2 DEF ReadCertificate, RestOK
  <2>8. CASE \E s \in Servers : RotateCertificate(s)
    <3>1. PICK s \in Servers : RotateCertificate(s)
      BY <2>8
    <3>2. /\ disk[s].version \in 0..MaxRotations /\ disk[s].version < MaxRotations
          /\ disk' = [disk EXCEPT ![s] = [version |-> disk[s].version + 1, whole |-> FALSE]]
      BY <1>1, <3>1 DEF RotateCertificate, RestOK
    <3>3. disk' \in [Servers -> [version : 0..MaxRotations, whole : BOOLEAN]]
      BY <1>1, <3>2, BoundsAssumption DEF RestOK
    <3>4. \A t \in Servers : held[t] <= disk'[t].version
      BY <1>1, <3>2, BoundsAssumption DEF RestOK
    <3> QED BY <1>1, <3>1, <3>3, <3>4 DEF RotateCertificate, memory, RestOK
  <2>9. CASE \E s \in Servers : RotateKey(s)
    <3>1. PICK s \in Servers : RotateKey(s)
      BY <2>9
    <3>2. /\ disk' \in [Servers -> [version : 0..MaxRotations, whole : BOOLEAN]]
          /\ \A t \in Servers : disk'[t].version = disk[t].version
      <4>1. disk[s] \in [version : 0..MaxRotations, whole : BOOLEAN]
        BY <1>1 DEF RestOK
      <4>2. disk' = [disk EXCEPT ![s] = [disk[s] EXCEPT !.whole = TRUE]]
        BY <3>1 DEF RotateKey
      <4>3. /\ [disk[s] EXCEPT !.whole = TRUE] \in [version : 0..MaxRotations, whole : BOOLEAN]
            /\ [disk[s] EXCEPT !.whole = TRUE].version = disk[s].version
        BY <4>1
      <4> QED BY <1>1, <4>2, <4>3 DEF RestOK
    <3> QED BY <1>1, <3>1, <3>2 DEF RotateKey, memory, RestOK
  <2> QED BY <2>1, <2>2, <2>3, <2>4, <2>5, <2>6, <2>7, <2>8, <2>9
<1>3. /\ pc' \in Early <=> pc \in Early
      /\ pc # "exited" \/ pc' = "exited"
      /\ pc' = "exited" \/ pc' = pc \/ pc \in Early \/ pc \notin Early \cup Servers
  BY DEF RegisterTypes, FillScheme, NewManager, SetupController, StartManager, Exit, LoadFails,
         AddWatcher, ReadCertificate, RotateCertificate, RotateKey, Early, Servers
<1>4. ListsOK' /\ TlsOptsFull' /\ OwnOptions'
  BY <1>2, <1>3, ListsKept
<1> QED BY <1>2, <1>4, TypeParts DEF Inv, TypeOK, ListsOK, RestOK

LEMMA InvNext == Inv /\ [Next]_vars => Inv'
<1> SUFFICES ASSUME Inv, [Next]_vars PROVE Inv'
  OBVIOUS
<1>1. CASE UNCHANGED vars
  <2>1. UNCHANGED <<flags, arrays, tlsOpts, given>> /\ pc' = pc /\ RestOK'
    BY <1>1 DEF vars, memory, Inv, TypeOK, RestOK
  <2>2. ListsOK' /\ TlsOptsFull' /\ OwnOptions'
    BY <2>1, ListsKept
  <2> QED BY <2>1, <2>2, TypeParts DEF Inv, TypeOK, ListsOK, RestOK
<1>2. CASE DisableHTTP2
  BY <1>2, DisableStep
<1>3. CASE \E s \in Servers : WithoutCertificate(s) \/ LoadCertificate(s)
  BY <1>3, WithoutStep, LoadStep
<1>4. CASE Restart
  BY <1>4, RestartStep
<1>5. CASE \/ RegisterTypes \/ FillScheme \/ NewManager \/ SetupController \/ StartManager \/ Exit
           \/ \E s \in Servers : \/ LoadFails(s) \/ AddWatcher(s) \/ ReadCertificate(s)
                                 \/ RotateCertificate(s) \/ RotateKey(s)
  BY <1>5, OtherSteps
<1> QED BY <1>1, <1>2, <1>3, <1>4, <1>5 DEF Next, Main

LEMMA InvAlways == Spec => []Inv
BY InitInv, InvNext, PTL DEF Spec

\* The variables of a process keep their types: no slice reaches past its array, no
\* watcher has a certificate newer than the disk's, the manager runs only watchers that
\* were made.
THEOREM StartTypeCorrect == Spec => []TypeOK
<1>1. Inv => TypeOK
  BY DEF Inv
<1> QED BY <1>1, InvAlways, PTL

\* However often the process is restarted and the files replaced, each server's options
\* are its own: the append for one never writes into the list of the other.
THEOREM OwnOptionsAlways == Spec => []OwnOptions
<1>1. Inv => OwnOptions
  BY DEF Inv
<1> QED BY <1>1, InvAlways, PTL
=============================================================================
