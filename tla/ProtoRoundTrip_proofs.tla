------------------------- MODULE ProtoRoundTrip_proofs -------------------------
(***************************************************************************)
(* What Marshal writes is as long as Size says, for every message; and its *)
(* pieces, taken in their order, make the message that was marshalled.     *)
(***************************************************************************)
EXTENDS ProtoRoundTrip, SequenceTheorems, WellFoundedInduction, TLAPS

(* Induction over the naturals, on sets.                                   *)

\* Every set of naturals has a least element.
LEMMA Least ==
    ASSUME NEW T, T \subseteq Nat, T # {}
    PROVE  \E x \in T : \A y \in T : x <= y
<1> DEFINE R == OpToRel(<, Nat)
<1>1. IsWellFoundedOn(R, Nat) BY NatLessThanWellFounded
<1>2. R = {ss \in Nat \X Nat : ss[1] < ss[2]} BY DEF OpToRel
<1> HIDE DEF R
<1>3. \E x \in T : \A y \in T : ~ (<<y, x>> \in R) BY <1>1, WFMin
<1>4. PICK x \in T : \A y \in T : ~ (<<y, x>> \in R) BY <1>3
<1>5. ASSUME NEW y \in T PROVE x <= y
    <2>1. <<y, x>> \notin R BY <1>4
    <2>2. <<y, x>> \in Nat \X Nat OBVIOUS
    <2>3. ~(y < x) BY <1>2, <2>1, <2>2
    <2>4. QED BY <2>3
<1>6. QED BY <1>5

\* What holds of 0 and with n of n + 1 holds of every natural.
LEMMA SetInduction ==
    ASSUME NEW S, S \subseteq Nat, 0 \in S, \A n \in S : n + 1 \in S
    PROVE  S = Nat
<1> SUFFICES ASSUME S # Nat PROVE FALSE OBVIOUS
<1> DEFINE T == Nat \ S
<1>1. T \subseteq Nat /\ T # {} OBVIOUS
<1> HIDE DEF T
<1>2. PICK x \in T : \A y \in T : x <= y BY <1>1, Least
<1>3. x \in Nat /\ x # 0 /\ x \notin S BY <1>1, <1>2 DEF T
<1>4. x - 1 \in Nat /\ ~(x <= x - 1) BY <1>3
<1>5. x - 1 \in S BY <1>2, <1>4 DEF T
<1>6. x - 1 + 1 = x BY <1>3
<1>7. QED BY <1>3, <1>5, <1>6

\* The same, where n may use all that is below it.
LEMMA StrongInduction ==
    ASSUME NEW S, S \subseteq Nat, \A n \in Nat : (\A m \in Nat : m < n => m \in S) => n \in S
    PROVE  S = Nat
<1> SUFFICES ASSUME S # Nat PROVE FALSE OBVIOUS
<1> DEFINE T == Nat \ S
<1>1. T \subseteq Nat /\ T # {} OBVIOUS
<1> HIDE DEF T
<1>2. PICK x \in T : \A y \in T : x <= y BY <1>1, Least
<1>3. x \in Nat /\ x \notin S BY <1>1, <1>2 DEF T
<1>4. \A m \in Nat : m < x => m \in S BY <1>2, <1>3 DEF T
<1>5. QED BY <1>3, <1>4

\* The equations g(n) = B(n) on base, and g(n) = F(n)(g(p(n))), p(n) below n, elsewhere.
Recursion(D, base, A, B, F, p) ==
    /\ D \subseteq Nat /\ B \in [D -> A] /\ F \in [D -> [A -> A]]
    /\ \A n \in D : n \notin base => p[n] \in D /\ p[n] < n

Solves(g, D, base, A, B, F, p) ==
    /\ g \in [D -> A]
    /\ \A n \in D : g[n] = IF n \in base THEN B[n] ELSE F[n][g[p[n]]]

\* A function defined by recursion to smaller naturals exists.
LEMMA RecursionExists ==
    ASSUME NEW D, NEW base, NEW A, NEW B, NEW F, NEW p, Recursion(D, base, A, B, F, p)
    PROVE  \E g : Solves(g, D, base, A, B, F, p)
<1> USE DEF Recursion, Solves
<1>0. \A n \in D : n \notin base => p[n] \in D /\ p[n] \in Nat /\ p[n] < n /\ p[n] <= n
    <2>1. SUFFICES ASSUME NEW n \in D, n \notin base
                   PROVE  p[n] \in D /\ p[n] \in Nat /\ p[n] < n /\ p[n] <= n
        OBVIOUS
    <2>2. p[n] \in D /\ p[n] < n BY <2>1
    <2>3. p[n] \in Nat /\ n \in Nat BY <2>2
    <2>4. QED BY <2>2, <2>3
<1> DEFINE Upto(m) == {n \in D : n <= m}
           IsRec(g, m) == \A n \in Upto(m) : g[n] = IF n \in base THEN B[n] ELSE F[n][g[p[n]]]
           S == {m \in Nat : \E g \in [Upto(m) -> A] : IsRec(g, m)}
<1>1. S = Nat
    <2>1. ASSUME NEW n \in Nat, \A m \in Nat : m < n => m \in S PROVE n \in S
        <3>1. PICK h : (n > 0 => h \in [Upto(n - 1) -> A] /\ IsRec(h, n - 1))
            <4>1. CASE n = 0 BY <4>1
            <4>2. CASE n > 0
                <5>1. n - 1 \in Nat /\ n - 1 < n BY <4>2
                <5>2. n - 1 \in S BY <2>1, <5>1
                <5>3. QED BY <5>2
            <4>3. QED BY <4>1, <4>2
        <3> DEFINE g == [k \in Upto(n) |-> IF k < n THEN h[k]
                                           ELSE IF n \in base THEN B[n] ELSE F[n][h[p[n]]]]
        <3>2. ASSUME NEW k \in Upto(n), k < n PROVE n > 0 /\ k \in Upto(n - 1) /\ h[k] \in A
            <4>1. n > 0 /\ k <= n - 1 BY <3>2
            <4>2. QED BY <3>1, <4>1
        <3>3. ASSUME n \in D, n \notin base PROVE p[n] \in Upto(n) /\ p[n] < n
            BY <1>0, <3>3
        <3>4. g \in [Upto(n) -> A]
            <4>1. ASSUME NEW k \in Upto(n), ~(k < n) PROVE k = n /\ n \in D BY <4>1
            <4>2. ASSUME n \in D, n \notin base PROVE F[n][h[p[n]]] \in A BY <3>2, <3>3, <4>2
            <4>3. QED BY <3>2, <4>1, <4>2
        <3>5. IsRec(g, n)
            <4>1. SUFFICES ASSUME NEW k \in Upto(n)
                           PROVE  g[k] = IF k \in base THEN B[k] ELSE F[k][g[p[k]]]
                OBVIOUS
            <4>2. CASE k < n
                <5>1. n > 0 /\ k \in Upto(n - 1) BY <3>2, <4>2
                <5>2. h[k] = IF k \in base THEN B[k] ELSE F[k][h[p[k]]] BY <3>1, <5>1
                <5>3. k \notin base => p[k] \in Upto(n) /\ p[k] < n BY <1>0, <4>2
                <5>4. QED BY <4>2, <5>2, <5>3
            <4>3. CASE k = n BY <3>3, <4>3
            <4>4. QED BY <4>2, <4>3
        <3>6. QED BY <3>4, <3>5
    <2> HIDE DEF S
    <2>2. S \subseteq Nat BY DEF S
    <2>3. QED BY <2>1, <2>2, StrongInduction
<1>2. ASSUME NEW m \in Nat, NEW k \in Nat, m <= k, NEW g \in [Upto(m) -> A], NEW h \in [Upto(k) -> A],
             IsRec(g, m), IsRec(h, k)
      PROVE  \A n \in Upto(m) : g[n] = h[n]
    <2> DEFINE Q == {n \in Nat : n \in Upto(m) => g[n] = h[n]}
    <2>1. ASSUME NEW n \in Nat, \A i \in Nat : i < n => i \in Q PROVE n \in Q
        <3>1. SUFFICES ASSUME n \in Upto(m) PROVE g[n] = h[n] OBVIOUS
        <3>2. n \in Upto(k) BY <1>2, <3>1
        <3>3. n \notin base => p[n] \in Upto(m) /\ p[n] < n /\ p[n] \in Nat BY <1>0, <3>1
        <3>4. n \notin base => g[p[n]] = h[p[n]] BY <2>1, <3>3
        <3>5. QED BY <1>2, <3>1, <3>2, <3>4
    <2>2. Q = Nat
        <3> HIDE DEF Q
        <3>1. Q \subseteq Nat BY DEF Q
        <3>2. QED BY <2>1, <3>1, StrongInduction
    <2>3. QED BY <2>2
<1>3. \A m \in Nat : \E g \in [Upto(m) -> A] : IsRec(g, m) BY <1>1
<1> DEFINE G == [m \in Nat |-> CHOOSE g \in [Upto(m) -> A] : IsRec(g, m)]
           f == [n \in D |-> G[n][n]]
<1>4. \A m \in Nat : G[m] \in [Upto(m) -> A] /\ IsRec(G[m], m)
    <2>1. SUFFICES ASSUME NEW m \in Nat PROVE G[m] \in [Upto(m) -> A] /\ IsRec(G[m], m) OBVIOUS
    <2>2. G[m] = CHOOSE g \in [Upto(m) -> A] : IsRec(g, m) OBVIOUS
    <2> HIDE DEF IsRec, Upto, G
    <2>3. QED BY <1>3, <2>2
<1> HIDE DEF G
<1>5. \A n \in D : n \in Nat /\ n \in Upto(n) OBVIOUS
<1>6. f \in [D -> A] BY <1>4, <1>5
<1>7. ASSUME NEW n \in D PROVE f[n] = IF n \in base THEN B[n] ELSE F[n][f[p[n]]]
    <2>1. G[n][n] = IF n \in base THEN B[n] ELSE F[n][G[n][p[n]]] BY <1>4, <1>5
    <2>2. n \notin base => G[n][p[n]] = G[p[n]][p[n]]
        <3> HIDE DEF IsRec
        <3>1. SUFFICES ASSUME n \notin base PROVE G[n][p[n]] = G[p[n]][p[n]] OBVIOUS
        <3>2. p[n] \in Nat /\ n \in Nat /\ p[n] <= n /\ p[n] \in Upto(p[n]) BY <1>0, <1>5, <3>1
        <3>3. /\ G[n] \in [Upto(n) -> A] /\ IsRec(G[n], n)
              /\ G[p[n]] \in [Upto(p[n]) -> A] /\ IsRec(G[p[n]], p[n])
            BY <1>4, <3>2
        <3> HIDE DEF Upto
        <3>4. \A i \in Upto(p[n]) : G[p[n]][i] = G[n][i] BY <1>2, <3>2, <3>3
        <3>5. QED BY <3>2, <3>4
    <2>3. n \notin base => f[p[n]] = G[n][p[n]] BY <1>0, <2>2
    <2>4. QED BY <2>1, <2>3
<1>8. QED BY <1>6, <1>7

-----------------------------------------------------------------------------
(* Sequences of sequences, laid end to end, and their lengths.             *)

\* FlattenSeq puts one sequence after the other.
LEMMA FlattenRuns ==
    ASSUME NEW P, NEW ss \in Seq(Seq(P))
    PROVE  \E g \in [0..Len(ss) -> Seq(P)] :
              /\ g[0] = <<>>
              /\ \A i \in 1..Len(ss) : g[i] = g[i - 1] \o ss[i]
              /\ FlattenSeq(ss) = g[Len(ss)]
<1>0. Len(ss) \in Nat /\ \A i \in 1..Len(ss) : ss[i] \in Seq(P) OBVIOUS
<1>1. CASE ss = <<>>
    <2> DEFINE g == [i \in 0..0 |-> <<>>]
    <2>1. g \in [0..Len(ss) -> Seq(P)] /\ g[0] = <<>> /\ Len(ss) = 0 BY <1>1
    <2>2. FlattenSeq(ss) = <<>> BY <1>1 DEF FlattenSeq
    <2>3. g[Len(ss)] = <<>> /\ \A i \in 1..Len(ss) : g[i] = g[i - 1] \o ss[i] BY <2>1
    <2> HIDE DEF g
    <2>4. QED BY <2>1, <2>2, <2>3
<1>2. CASE ss # <<>>
    <2> DEFINE D == 1..Len(ss)
               Fl(f) == f = [i \in D |-> IF i = 1 THEN ss[i] ELSE f[i - 1] \o ss[i]]
               fl == CHOOSE f : Fl(f)
    <2>1. Len(ss) # 0 /\ Len(ss) \in D BY <1>2
    <2>2. FlattenSeq(ss) = fl[Len(ss)] BY <2>1 DEF FlattenSeq
    <2>3. Fl(fl)
        <3> DEFINE F == [i \in D |-> [x \in Seq(P) |-> x \o ss[i]]]
                   p == [i \in D |-> i - 1]
                   A == Seq(P)
                   base == {1}
        <3>1. Recursion(D, base, A, ss, F, p) BY <1>0 DEF Recursion
        <3>2. \E f : Solves(f, D, base, A, ss, F, p)
            <4> HIDE DEF F, p, D, A, base
            <4>1. QED BY <3>1, RecursionExists
        <3>3. PICK f \in [D -> A] :
                \A i \in D : f[i] = IF i \in base THEN ss[i] ELSE F[i][f[p[i]]]
            BY <3>2 DEF Solves
        <3>4. ASSUME NEW i \in D, i # 1 PROVE F[i][f[p[i]]] = f[i - 1] \o ss[i]
            <4>1. i - 1 \in D /\ p[i] = i - 1 BY <3>4
            <4>2. f[i - 1] \in Seq(P) BY <4>1
            <4>3. QED BY <4>1, <4>2
        <3>5. \A i \in D : f[i] = IF i = 1 THEN ss[i] ELSE f[i - 1] \o ss[i] BY <3>3, <3>4
        <3>6. Fl(f) BY <3>5
        <3> HIDE DEF Fl
        <3>7. QED BY <3>6
    <2> HIDE DEF fl
    <2>4. \A i \in D : fl[i] = IF i = 1 THEN ss[i] ELSE fl[i - 1] \o ss[i] BY <2>3
    <2> DEFINE Q == {n \in Nat : n \in D => fl[n] \in Seq(P)}
    <2>5. Q = Nat
        <3>1. 0 \in Q OBVIOUS
        <3>2. ASSUME NEW n \in Q PROVE n + 1 \in Q
            <4>1. SUFFICES ASSUME n + 1 \in D PROVE fl[n + 1] \in Seq(P) OBVIOUS
            <4>2. CASE n = 0 BY <1>0, <2>4, <4>1, <4>2
            <4>3. CASE n # 0
                <5>1. n \in D /\ fl[n] \in Seq(P) /\ ss[n + 1] \in Seq(P) BY <1>0, <4>1, <4>3
                <5>2. fl[n + 1] = fl[n] \o ss[n + 1]
                    <6>1. n + 1 # 1 /\ (n + 1) - 1 = n BY <4>3
                    <6>2. QED BY <2>4, <4>1, <6>1
                <5>3. QED BY <5>1, <5>2
            <4>4. QED BY <4>2, <4>3
        <3> HIDE DEF Q
        <3>3. Q \subseteq Nat BY DEF Q
        <3>4. QED BY <3>1, <3>2, <3>3, SetInduction
    <2>6. \A i \in D : fl[i] \in Seq(P) BY <2>5
    <2> DEFINE g == [i \in 0..Len(ss) |-> IF i = 0 THEN <<>> ELSE fl[i]]
    <2>7. g \in [0..Len(ss) -> Seq(P)] BY <2>6
    <2>8. ASSUME NEW i \in D PROVE g[i] = g[i - 1] \o ss[i]
        <3>1. CASE i = 1
            <4>1. g[i] = ss[i] /\ g[i - 1] = <<>> /\ ss[i] \in Seq(P) BY <1>0, <2>4, <3>1
            <4>2. ss[i] = <<>> \o ss[i] BY <4>1, ConcatEmptySeq
            <4>3. QED BY <4>1, <4>2
        <3>2. CASE i # 1
            <4>1. i \in 0..Len(ss) /\ i - 1 \in 0..Len(ss) /\ i # 0 /\ i - 1 # 0 BY <3>2
            <4>2. g[i] = fl[i] /\ g[i - 1] = fl[i - 1] BY <4>1
            <4>3. fl[i] = fl[i - 1] \o ss[i] BY <2>4, <3>2
            <4>4. QED BY <4>2, <4>3
        <3>3. QED BY <3>1, <3>2
    <2>9. g[0] = <<>> /\ FlattenSeq(ss) = g[Len(ss)] BY <1>0, <2>1, <2>2
    <2> HIDE DEF g
    <2>10. QED BY <2>7, <2>8, <2>9
<1>3. QED BY <1>1, <1>2

\* Induction up to a bound.
LEMMA BoundedInduction ==
    ASSUME NEW n \in Nat, NEW S \in SUBSET Nat, 0 \in S, \A i \in 1..n : i - 1 \in S => i \in S
    PROVE  \A i \in 0..n : i \in S
<1> DEFINE Q == {i \in Nat : i \in 0..n => i \in S}
<1>1. 0 \in Q OBVIOUS
<1>2. ASSUME NEW i \in Q PROVE i + 1 \in Q
    <2>1. SUFFICES ASSUME i + 1 \in 0..n PROVE i + 1 \in S OBVIOUS
    <2>2. i \in 0..n /\ i + 1 \in 1..n /\ (i + 1) - 1 = i BY <2>1
    <2>3. QED BY <2>2
<1>3. Q = Nat
    <2> HIDE DEF Q
    <2>1. Q \subseteq Nat BY DEF Q
    <2>2. QED BY <1>1, <1>2, <2>1, SetInduction
<1>4. QED BY <1>3

\* One more sequence comes at the end.
LEMMA FlattenAppend ==
    ASSUME NEW P, NEW ss \in Seq(Seq(P)), NEW s \in Seq(P)
    PROVE  /\ FlattenSeq(ss) \in Seq(P)
           /\ FlattenSeq(Append(ss, s)) = FlattenSeq(ss) \o s
<1> DEFINE tt == Append(ss, s)
           n == Len(ss)
<1>1. /\ n \in Nat /\ tt \in Seq(Seq(P)) /\ Len(tt) = n + 1 /\ tt[n + 1] = s
      /\ \A i \in 1..n : tt[i] = ss[i]
    OBVIOUS
<1> HIDE DEF tt
<1>2. PICK g \in [0..n -> Seq(P)] :
        g[0] = <<>> /\ (\A i \in 1..n : g[i] = g[i - 1] \o ss[i]) /\ FlattenSeq(ss) = g[n]
    BY FlattenRuns
<1>3. PICK h \in [0..n + 1 -> Seq(P)] :
        h[0] = <<>> /\ (\A i \in 1..n + 1 : h[i] = h[i - 1] \o tt[i]) /\ FlattenSeq(tt) = h[n + 1]
    <2>1. \E h \in [0..Len(tt) -> Seq(P)] :
            h[0] = <<>> /\ (\A i \in 1..Len(tt) : h[i] = h[i - 1] \o tt[i]) /\ FlattenSeq(tt) = h[Len(tt)]
        BY <1>1, FlattenRuns
    <2> HIDE DEF n
    <2>2. QED BY <1>1, <2>1
<1> HIDE DEF n
<1>4. \A i \in 1..n : g[i - 1] = h[i - 1] => g[i] = h[i]
    <2>1. SUFFICES ASSUME NEW i \in 1..n, g[i - 1] = h[i - 1] PROVE g[i] = h[i] OBVIOUS
    <2>2. i \in 1..n + 1 BY <1>1
    <2>3. QED BY <1>1, <1>2, <1>3, <2>1, <2>2
<1>5. \A i \in 0..n : g[i] = h[i]
    <2> DEFINE Same == {i \in Nat : g[i] = h[i]}
    <2>1. n \in Nat /\ 0 \in Same BY <1>1, <1>2, <1>3
    <2>2. \A i \in 1..n : i - 1 \in Same => i \in Same BY <1>4
    <2> HIDE DEF Same
    <2>3. \A i \in 0..n : i \in Same
        <3>1. Same \in SUBSET Nat BY DEF Same
        <3>2. QED BY <2>1, <2>2, <3>1, BoundedInduction
    <2>4. QED BY <2>3 DEF Same
<1>6. h[n + 1] = h[n] \o s /\ g[n] = h[n] /\ g[n] \in Seq(P)
    <2>1. n + 1 \in 1..n + 1 /\ (n + 1) - 1 = n /\ n \in 0..n BY <1>1
    <2>2. QED BY <1>1, <1>2, <1>3, <1>5, <2>1
<1>7. QED BY <1>2, <1>3, <1>6 DEF tt

\* What holds of <<>> and is kept by Append holds of every sequence.
LEMMA SeqInduction ==
    ASSUME NEW P, NEW T \in SUBSET Seq(P), <<>> \in T,
           \A s \in T : \A x \in P : Append(s, x) \in T
    PROVE  T = Seq(P)
<1> DEFINE Q == {n \in Nat : \A s \in Seq(P) : Len(s) = n => s \in T}
<1>1. 0 \in Q
    <2>1. \A s \in Seq(P) : Len(s) = 0 => s = <<>> BY EmptySeq
    <2>2. QED BY <2>1
<1>2. ASSUME NEW n \in Q PROVE n + 1 \in Q
    <2>1. SUFFICES ASSUME NEW s \in Seq(P), Len(s) = n + 1 PROVE s \in T OBVIOUS
    <2>2. s # <<>> BY <2>1
    <2>3. PICK r \in Seq(P), x \in P : s = Append(r, x) BY <2>2, SequenceEmptyOrAppend
    <2>4. Len(s) = Len(r) + 1 /\ Len(r) \in Nat BY <2>3
    <2>5. Len(r) = n BY <2>1, <2>4
    <2>6. r \in T BY <2>5
    <2>7. QED BY <2>3, <2>6
<1>3. Q = Nat
    <2> HIDE DEF Q
    <2>1. Q \subseteq Nat BY DEF Q
    <2>2. QED BY <1>1, <1>2, <2>1, SetInduction
<1>4. ASSUME NEW s \in Seq(P) PROVE s \in T
    <2>1. Len(s) \in Q BY <1>3
    <2>2. QED BY <2>1
<1>5. QED BY <1>4

\* g of every item.
Each(g, s) == [i \in DOMAIN s |-> g[s[i]]]

LEMMA EachType ==
    ASSUME NEW P, NEW s \in Seq(P), NEW R, NEW g, \A x \in P : g[x] \in R
    PROVE  Each(g, s) \in Seq(R) /\ Len(Each(g, s)) = Len(s)
<1>1. \A i \in 1..Len(s) : s[i] \in P OBVIOUS
<1>2. DOMAIN s = 1..Len(s) /\ Len(s) \in Nat OBVIOUS
<1>3. Each(g, s) \in [1..Len(s) -> R] BY <1>1, <1>2 DEF Each
<1>4. QED BY <1>2, <1>3, IsASeq DEF Each

LEMMA EachConcat ==
    ASSUME NEW P, NEW g, NEW s \in Seq(P), NEW t \in Seq(P)
    PROVE  Each(g, s \o t) = Each(g, s) \o Each(g, t)
<1> DEFINE R == {g[x] : x \in P}
<1>0. \A q \in Seq(P) : Each(g, q) \in Seq(R) /\ Len(Each(g, q)) = Len(q)
    <2>1. \A x \in P : g[x] \in R OBVIOUS
    <2> HIDE DEF R
    <2>2. QED BY <2>1, EachType
<1> HIDE DEF R
<1>1. /\ Each(g, s) \in Seq(R) /\ Len(Each(g, s)) = Len(s)
      /\ Each(g, t) \in Seq(R) /\ Len(Each(g, t)) = Len(t)
    BY <1>0
<1>2. Each(g, s \o t) \in Seq(R) /\ Len(Each(g, s \o t)) = Len(s) + Len(t)
    <2>1. s \o t \in Seq(P) /\ Len(s \o t) = Len(s) + Len(t) OBVIOUS
    <2>2. QED BY <1>0, <2>1
<1>3. Len(s) \in Nat /\ Len(t) \in Nat OBVIOUS
<1>4. ASSUME NEW i \in 1..Len(s) + Len(t)
      PROVE  Each(g, s \o t)[i] = (Each(g, s) \o Each(g, t))[i]
    <2>1. /\ i \in DOMAIN (s \o t)
          /\ (s \o t)[i] = IF i <= Len(s) THEN s[i] ELSE t[i - Len(s)]
        OBVIOUS
    <2>2. Each(g, s \o t)[i] = g[(s \o t)[i]] BY <2>1 DEF Each
    <2>3. (Each(g, s) \o Each(g, t))[i] = IF i <= Len(s) THEN Each(g, s)[i] ELSE Each(g, t)[i - Len(s)]
        BY <1>1, <1>3, ConcatProperties
    <2>4. i <= Len(s) => Each(g, s)[i] = g[s[i]] BY <1>3 DEF Each
    <2>5. ~(i <= Len(s)) => Each(g, t)[i - Len(s)] = g[t[i - Len(s)]]
        <3>1. ~(i <= Len(s)) => i - Len(s) \in DOMAIN t BY <1>3
        <3>2. QED BY <3>1 DEF Each
    <2>6. QED BY <2>1, <2>2, <2>3, <2>4, <2>5
<1>5. Each(g, s) \o Each(g, t) \in Seq(R) /\ Len(Each(g, s) \o Each(g, t)) = Len(s) + Len(t)
    <2> DEFINE a == Each(g, s)
               b == Each(g, t)
    <2> HIDE DEF a, b
    <2>1. a \in Seq(R) /\ b \in Seq(R) /\ Len(a) = Len(s) /\ Len(b) = Len(t) BY <1>1 DEF a, b
    <2>2. a \o b \in Seq(R) /\ Len(a \o b) = Len(a) + Len(b) BY <2>1
    <2>3. QED BY <2>1, <2>2 DEF a, b
<1>6. QED BY <1>2, <1>4, <1>5, SeqEqual

LEMMA EachAppend ==
    ASSUME NEW P, NEW g, NEW s \in Seq(P), NEW x \in P
    PROVE  Each(g, Append(s, x)) = Append(Each(g, s), g[x])
<1> DEFINE R == {g[y] : y \in P}
<1>1. <<x>> \in Seq(P) /\ Append(s, x) = s \o <<x>> BY AppendIsConcat
<1>2. Each(g, <<x>>) = <<g[x]>> BY DEF Each
<1>3. Each(g, s) \in Seq(R) /\ g[x] \in R
    <2>1. \A y \in P : g[y] \in R OBVIOUS
    <2> HIDE DEF R
    <2>2. QED BY <2>1, EachType
<1> HIDE DEF R
<1>4. Append(Each(g, s), g[x]) = Each(g, s) \o <<g[x]>> BY <1>3, AppendIsConcat
<1>5. Each(g, s \o <<x>>) = Each(g, s) \o Each(g, <<x>>) BY <1>1, EachConcat, ZenonT(40)
<1>6. QED BY <1>1, <1>2, <1>4, <1>5

\* Total adds up.
LEMMA TotalRuns ==
    ASSUME NEW s \in Seq(Nat)
    PROVE  \E g \in [0..Len(s) -> Nat] :
              /\ g[0] = 0
              /\ \A i \in 1..Len(s) : g[i] = g[i - 1] + s[i]
              /\ Total[s] = g[Len(s)]
<1> DEFINE D == 0..Len(s)
           Fl(f) == f = [i \in D |-> IF i = 0 THEN 0 ELSE f[i - 1] + s[i]]
           fl == CHOOSE f : Fl(f)
<1>0. Len(s) \in Nat /\ Len(s) \in D /\ \A i \in 1..Len(s) : s[i] \in Nat OBVIOUS
<1>1. Total[s] = fl[Len(s)] BY DEF Total
<1>2. Fl(fl)
    <2> DEFINE F == [i \in D |-> [x \in Nat |-> IF i = 0 THEN 0 ELSE x + s[i]]]
               B == [i \in D |-> 0]
               p == [i \in D |-> i - 1]
               base == {0}
    <2>1. Recursion(D, base, Nat, B, F, p)
        <3>1. ASSUME NEW i \in D, NEW x \in Nat PROVE (IF i = 0 THEN 0 ELSE x + s[i]) \in Nat
            <4>1. i # 0 => i \in 1..Len(s) OBVIOUS
            <4>2. i # 0 => s[i] \in Nat BY <1>0, <4>1
            <4>3. QED BY <4>2
        <3>2. F \in [D -> [Nat -> Nat]] BY <3>1
        <3>3. \A i \in D : i \notin base => p[i] \in D /\ p[i] < i BY <1>0
        <3>4. D \subseteq Nat /\ B \in [D -> Nat] OBVIOUS
        <3>5. QED BY <3>2, <3>3, <3>4 DEF Recursion
    <2>2. \E f : Solves(f, D, base, Nat, B, F, p)
        <3> HIDE DEF F, p, D, B, base
        <3>1. QED BY <2>1, RecursionExists
    <2>3. PICK f \in [D -> Nat] : \A i \in D : f[i] = IF i \in base THEN B[i] ELSE F[i][f[p[i]]]
        BY <2>2 DEF Solves
    <2>4. ASSUME NEW i \in D, i # 0 PROVE F[i][f[p[i]]] = f[i - 1] + s[i]
        <3>1. i - 1 \in D /\ p[i] = i - 1 BY <1>0, <2>4
        <3>2. f[i - 1] \in Nat BY <3>1
        <3>3. QED BY <2>4, <3>1, <3>2
    <2>5. \A i \in D : f[i] = IF i = 0 THEN 0 ELSE f[i - 1] + s[i] BY <2>3, <2>4
    <2>6. Fl(f) BY <2>5
    <2> HIDE DEF Fl
    <2>7. QED BY <2>6
<1> HIDE DEF fl
<1>3. \A i \in D : fl[i] = IF i = 0 THEN 0 ELSE fl[i - 1] + s[i] BY <1>2
<1> DEFINE T == {n \in Nat : fl[n] \in Nat}
<1>4. 0 \in T BY <1>3
<1>5. ASSUME NEW i \in 1..Len(s), i - 1 \in T PROVE i \in T
    <2>1. i \in D /\ i # 0 OBVIOUS
    <2>2. fl[i] = fl[i - 1] + s[i] BY <1>3, <2>1
    <2>3. fl[i - 1] \in Nat /\ s[i] \in Nat BY <1>0, <1>5
    <2>4. QED BY <2>2, <2>3
<1>6. \A i \in D : i \in T
    <2> HIDE DEF T
    <2>1. T \in SUBSET Nat BY DEF T
    <2>2. QED BY <1>0, <1>4, <1>5, <2>1, BoundedInduction
<1>7. fl \in [D -> Nat]
    <2>1. fl = [i \in D |-> fl[i]] BY <1>2
    <2>2. \A i \in D : fl[i] \in Nat BY <1>6
    <2>3. QED BY <2>1, <2>2
<1>8. \A i \in 1..Len(s) : fl[i] = fl[i - 1] + s[i]
    <2>1. \A i \in 1..Len(s) : i \in D /\ i # 0 OBVIOUS
    <2>2. QED BY <1>3, <2>1
<1>9. fl[0] = 0 BY <1>0, <1>3
<1>10. QED BY <1>1, <1>7, <1>8, <1>9

LEMMA TotalEmpty == Total[<<>>] = 0
<1>1. <<>> \in Seq(Nat) /\ Len(<<>>) = 0 OBVIOUS
<1>2. PICK g \in [0..Len(<<>>) -> Nat] : g[0] = 0 /\ Total[<<>>] = g[Len(<<>>)] BY <1>1, TotalRuns
<1>3. QED BY <1>1, <1>2

LEMMA TotalAppend ==
    ASSUME NEW s \in Seq(Nat), NEW x \in Nat
    PROVE  Total[s] \in Nat /\ Total[Append(s, x)] = Total[s] + x
<1> DEFINE t == Append(s, x)
           n == Len(s)
<1>1. /\ n \in Nat /\ t \in Seq(Nat) /\ Len(t) = n + 1 /\ t[n + 1] = x
      /\ \A i \in 1..n : t[i] = s[i]
    OBVIOUS
<1> HIDE DEF t
<1>2. PICK g \in [0..n -> Nat] :
        g[0] = 0 /\ (\A i \in 1..n : g[i] = g[i - 1] + s[i]) /\ Total[s] = g[n]
    BY TotalRuns
<1>3. PICK h \in [0..n + 1 -> Nat] :
        h[0] = 0 /\ (\A i \in 1..n + 1 : h[i] = h[i - 1] + t[i]) /\ Total[t] = h[n + 1]
    <2>1. \E h \in [0..Len(t) -> Nat] :
            h[0] = 0 /\ (\A i \in 1..Len(t) : h[i] = h[i - 1] + t[i]) /\ Total[t] = h[Len(t)]
        BY <1>1, TotalRuns
    <2> HIDE DEF n
    <2>2. QED BY <1>1, <2>1
<1> HIDE DEF n
<1>4. \A i \in 1..n : g[i - 1] = h[i - 1] => g[i] = h[i]
    <2>1. SUFFICES ASSUME NEW i \in 1..n, g[i - 1] = h[i - 1] PROVE g[i] = h[i] OBVIOUS
    <2>2. i \in 1..n + 1 BY <1>1
    <2>3. QED BY <1>1, <1>2, <1>3, <2>1, <2>2
<1>5. \A i \in 0..n : g[i] = h[i]
    <2> DEFINE Same == {i \in Nat : g[i] = h[i]}
    <2>1. n \in Nat /\ 0 \in Same BY <1>1, <1>2, <1>3
    <2>2. \A i \in 1..n : i - 1 \in Same => i \in Same BY <1>4
    <2> HIDE DEF Same
    <2>3. \A i \in 0..n : i \in Same
        <3>1. Same \in SUBSET Nat BY DEF Same
        <3>2. QED BY <2>1, <2>2, <3>1, BoundedInduction
    <2>4. QED BY <2>3 DEF Same
<1>6. h[n + 1] = h[n] + x /\ g[n] = h[n] /\ g[n] \in Nat
    <2>1. n + 1 \in 1..n + 1 /\ (n + 1) - 1 = n /\ n \in 0..n BY <1>1
    <2>2. QED BY <1>1, <1>2, <1>3, <1>5, <2>1
<1>7. QED BY <1>2, <1>3, <1>6 DEF t

LEMMA TotalType == \A s \in Seq(Nat) : Total[s] \in Nat
BY TotalAppend

LEMMA TotalConcat ==
    ASSUME NEW s \in Seq(Nat), NEW t \in Seq(Nat)
    PROVE  Total[s \o t] = Total[s] + Total[t]
<1> DEFINE T == {r \in Seq(Nat) : Total[s \o r] = Total[s] + Total[r]}
<1>1. <<>> \in T
    <2>1. s \o <<>> = s BY ConcatEmptySeq
    <2>2. QED BY <2>1, TotalEmpty, TotalType
<1>2. ASSUME NEW r \in T, NEW x \in Nat PROVE Append(r, x) \in T
    <2>1. r \in Seq(Nat) /\ Total[s \o r] = Total[s] + Total[r] OBVIOUS
    <2>2. s \o Append(r, x) = Append(s \o r, x) /\ s \o r \in Seq(Nat) BY <2>1
    <2>3. Total[Append(s \o r, x)] = Total[s \o r] + x BY <2>2, TotalAppend
    <2>4. Total[Append(r, x)] = Total[r] + x BY <2>1, TotalAppend
    <2>5. Total[s] \in Nat /\ Total[r] \in Nat BY <2>1, TotalType
    <2>6. (Total[s] + Total[r]) + x = Total[s] + (Total[r] + x) BY <2>5
    <2>7. Total[s \o Append(r, x)] = Total[s] + Total[Append(r, x)] BY <2>1, <2>2, <2>3, <2>4, <2>6
    <2>8. Append(r, x) \in Seq(Nat) BY <2>1
    <2>9. QED BY <2>7, <2>8
<1>3. T = Seq(Nat)
    <2> HIDE DEF T
    <2>1. T \in SUBSET Seq(Nat) BY DEF T
    <2>2. QED BY <1>1, <1>2, <2>1, SeqInduction
<1>4. QED BY <1>3

LEMMA FlattenEmpty == FlattenSeq(<<>>) = <<>>
BY DEF FlattenSeq

LEMMA FlattenType ==
    ASSUME NEW P, NEW ss \in Seq(Seq(P))
    PROVE  FlattenSeq(ss) \in Seq(P)
<1>1. <<>> \in Seq(P) OBVIOUS
<1>2. QED BY <1>1, FlattenAppend

LEMMA FlattenConcat ==
    ASSUME NEW P, NEW ss \in Seq(Seq(P)), NEW tt \in Seq(Seq(P))
    PROVE  FlattenSeq(ss \o tt) = FlattenSeq(ss) \o FlattenSeq(tt)
<1> DEFINE T == {r \in Seq(Seq(P)) : FlattenSeq(ss \o r) = FlattenSeq(ss) \o FlattenSeq(r)}
<1>0. FlattenSeq(ss) \in Seq(P) BY FlattenType
<1>1. <<>> \in T
    <2>1. ss \o <<>> = ss BY ConcatEmptySeq
    <2>2. FlattenSeq(ss) \o <<>> = FlattenSeq(ss) BY <1>0, ConcatEmptySeq
    <2>3. FlattenSeq(ss \o <<>>) = FlattenSeq(ss) \o FlattenSeq(<<>>)
        BY <2>1, <2>2, FlattenEmpty
    <2>4. <<>> \in Seq(Seq(P)) OBVIOUS
    <2>5. QED BY <2>3, <2>4
<1>2. ASSUME NEW r \in T, NEW x \in Seq(P) PROVE Append(r, x) \in T
    <2>1. r \in Seq(Seq(P)) /\ FlattenSeq(ss \o r) = FlattenSeq(ss) \o FlattenSeq(r) OBVIOUS
    <2>2. ss \o Append(r, x) = Append(ss \o r, x) /\ ss \o r \in Seq(Seq(P)) BY <2>1
    <2>3. FlattenSeq(Append(ss \o r, x)) = FlattenSeq(ss \o r) \o x BY <2>2, FlattenAppend
    <2>4. FlattenSeq(Append(r, x)) = FlattenSeq(r) \o x BY <2>1, FlattenAppend
    <2>5. FlattenSeq(r) \in Seq(P) BY <2>1, FlattenType
    <2>6. (FlattenSeq(ss) \o FlattenSeq(r)) \o x = FlattenSeq(ss) \o (FlattenSeq(r) \o x)
        BY <1>0, <2>5, ConcatAssociative, SMTT(30)
    <2>7. FlattenSeq(ss \o Append(r, x)) = FlattenSeq(ss) \o FlattenSeq(Append(r, x))
        BY <2>1, <2>2, <2>3, <2>4, <2>6
    <2>8. Append(r, x) \in Seq(Seq(P)) BY <2>1
    <2>9. QED BY <2>7, <2>8
<1>3. T = Seq(Seq(P))
    <2> HIDE DEF T
    <2>1. T \in SUBSET Seq(Seq(P)) BY DEF T
    <2>2. QED BY <1>1, <1>2, <2>1, SeqInduction
<1>4. QED BY <1>3

\* The lengths of the sequences add up to the length of the whole, and so does whatever
\* else is counted item by item.
LEMMA TotalFlatten ==
    ASSUME NEW P, NEW g \in [P -> Nat], NEW ss \in Seq(Seq(P))
    PROVE  Total[Each(g, FlattenSeq(ss))] = Total[Each([s \in Seq(P) |-> Total[Each(g, s)]], ss)]
<1> DEFINE h == [s \in Seq(P) |-> Total[Each(g, s)]]
           T == {tt \in Seq(Seq(P)) : Total[Each(g, FlattenSeq(tt))] = Total[Each(h, tt)]}
<1>1. \A s \in Seq(P) : Each(g, s) \in Seq(Nat) BY EachType
<1>2. h \in [Seq(P) -> Nat] BY <1>1, TotalType
<1>3. \A s \in Seq(P) : h[s] = Total[Each(g, s)] OBVIOUS
<1> HIDE DEF h
<1>4. <<>> \in T
    <2>1. Each(g, <<>>) = <<>> /\ Each(h, <<>>) = <<>> BY DEF Each
    <2>2. QED BY <2>1, FlattenEmpty
<1>5. ASSUME NEW tt \in T, NEW s \in Seq(P) PROVE Append(tt, s) \in T
    <2>1. tt \in Seq(Seq(P)) /\ Total[Each(g, FlattenSeq(tt))] = Total[Each(h, tt)] OBVIOUS
    <2> DEFINE f == FlattenSeq(tt)
    <2>2. f \in Seq(P) /\ FlattenSeq(Append(tt, s)) = f \o s BY <2>1, FlattenAppend
    <2> HIDE DEF f
    <2>3. Each(g, f \o s) = Each(g, f) \o Each(g, s) BY <2>2, EachConcat
    <2>4. Total[Each(g, f) \o Each(g, s)] = Total[Each(g, f)] + Total[Each(g, s)]
        BY <1>1, <2>2, TotalConcat
    <2>5. Each(h, Append(tt, s)) = Append(Each(h, tt), h[s]) BY <1>2, <2>1, EachAppend
    <2>6. Each(h, tt) \in Seq(Nat) /\ h[s] \in Nat BY <1>2, <2>1, EachType
    <2>7. Total[Append(Each(h, tt), h[s])] = Total[Each(h, tt)] + h[s] BY <2>6, TotalAppend
    <2>8. Total[Each(g, FlattenSeq(Append(tt, s)))] = Total[Each(h, Append(tt, s))]
        BY <1>3, <2>1, <2>2, <2>3, <2>4, <2>5, <2>7 DEF f
    <2>9. Append(tt, s) \in Seq(Seq(P)) BY <2>1
    <2>10. QED BY <2>8, <2>9
<1>6. T = Seq(Seq(P))
    <2> HIDE DEF T
    <2>1. T \in SUBSET Seq(Seq(P)) BY DEF T
    <2>2. QED BY <1>4, <1>5, <2>1, SeqInduction
<1>7. QED BY <1>6 DEF h

LEMMA LenIsTotal ==
    ASSUME NEW P, NEW s \in Seq(P)
    PROVE  Len(s) = Total[Each([x \in P |-> 1], s)]
<1> DEFINE one == [x \in P |-> 1]
           T == {r \in Seq(P) : Len(r) = Total[Each(one, r)]}
<1>1. one \in [P -> Nat] /\ \A x \in P : one[x] = 1 OBVIOUS
<1> HIDE DEF one
<1>2. <<>> \in T
    <2>1. Each(one, <<>>) = <<>> BY DEF Each
    <2>2. QED BY <2>1, TotalEmpty
<1>3. ASSUME NEW r \in T, NEW x \in P PROVE Append(r, x) \in T
    <2>1. r \in Seq(P) /\ Len(r) = Total[Each(one, r)] OBVIOUS
    <2>2. Each(one, Append(r, x)) = Append(Each(one, r), 1) BY <1>1, <2>1, EachAppend
    <2>3. Each(one, r) \in Seq(Nat) BY <1>1, <2>1, EachType
    <2>4. Total[Append(Each(one, r), 1)] = Total[Each(one, r)] + 1 BY <2>3, TotalAppend
    <2>5. Append(r, x) \in Seq(P) /\ Len(Append(r, x)) = Len(r) + 1 BY <2>1
    <2>6. QED BY <2>1, <2>2, <2>4, <2>5
<1>4. T = Seq(P)
    <2> HIDE DEF T
    <2>1. T \in SUBSET Seq(P) BY DEF T
    <2>2. QED BY <1>2, <1>3, <2>1, SeqInduction
<1>5. QED BY <1>4 DEF one

LEMMA LenFlatten ==
    ASSUME NEW P, NEW ss \in Seq(Seq(P))
    PROVE  Len(FlattenSeq(ss)) = Total[Each([s \in Seq(P) |-> Len(s)], ss)]
<1> DEFINE one == [x \in P |-> 1]
<1>1. FlattenSeq(ss) \in Seq(P) BY FlattenType
<1>2. Len(FlattenSeq(ss)) = Total[Each(one, FlattenSeq(ss))] BY <1>1, LenIsTotal
<1>3. one \in [P -> Nat] OBVIOUS
<1>4. Total[Each(one, FlattenSeq(ss))] = Total[Each([s \in Seq(P) |-> Total[Each(one, s)]], ss)]
    <2> HIDE DEF one
    <2>1. QED BY <1>3, TotalFlatten
<1>5. \A s \in Seq(P) : Len(s) = Total[Each(one, s)] BY LenIsTotal
<1> HIDE DEF one
<1>6. [s \in Seq(P) |-> Total[Each(one, s)]] = [s \in Seq(P) |-> Len(s)] BY <1>5
<1>7. QED BY <1>2, <1>4, <1>6

-----------------------------------------------------------------------------
(* Varints.                                                                *)

LEMMA Len64Unfolds ==
    /\ Len64 \in [Nat -> Nat]
    /\ \A x \in Nat : Len64[x] = IF x = 0 THEN 0 ELSE 1 + Len64[x \div 2]
<1> DEFINE Fl(f) == f = [x \in Nat |-> IF x = 0 THEN 0 ELSE 1 + f[x \div 2]]
           fl == CHOOSE f : Fl(f)
           F == [x \in Nat |-> [n \in Nat |-> 1 + n]]
           B == [x \in Nat |-> 0]
           p == [x \in Nat |-> x \div 2]
           base == {0}
<1>1. \A x \in Nat : x \div 2 \in Nat /\ (x # 0 => x \div 2 < x) OBVIOUS
<1>2. Recursion(Nat, base, Nat, B, F, p) BY <1>1 DEF Recursion
<1>3. \E f : Solves(f, Nat, base, Nat, B, F, p)
    <2> HIDE DEF F, p, B, base
    <2>1. QED BY <1>2, RecursionExists
<1>4. PICK f \in [Nat -> Nat] : \A x \in Nat : f[x] = IF x \in base THEN B[x] ELSE F[x][f[p[x]]]
    BY <1>3 DEF Solves
<1>5. \A x \in Nat : f[x] = IF x = 0 THEN 0 ELSE 1 + f[x \div 2] BY <1>1, <1>4
<1>6. Fl(f) BY <1>5
<1>7. Fl(fl)
    <2> HIDE DEF Fl
    <2>1. QED BY <1>6
<1>8. Len64 = fl BY DEF Len64
<1> HIDE DEF fl
<1>9. \A x \in Nat : Len64[x] = IF x = 0 THEN 0 ELSE 1 + Len64[x \div 2] BY <1>7, <1>8
<1> DEFINE T == {x \in Nat : Len64[x] \in Nat}
<1>10. ASSUME NEW x \in Nat, \A y \in Nat : y < x => y \in T PROVE x \in T
    <2>1. CASE x = 0 BY <1>9, <2>1
    <2>2. CASE x # 0
        <3>1. x \div 2 \in T BY <1>1, <1>10, <2>2
        <3>2. QED BY <1>9, <2>2, <3>1
    <2>3. QED BY <2>1, <2>2
<1>11. T = Nat
    <2> HIDE DEF T
    <2>1. T \subseteq Nat BY DEF T
    <2>2. QED BY <1>10, <2>1, StrongInduction
<1>12. Len64 = [x \in Nat |-> Len64[x]] BY <1>7, <1>8
<1>13. \A x \in Nat : Len64[x] \in Nat BY <1>11
<1>14. QED BY <1>9, <1>12, <1>13

LEMMA EncodeVarintUnfolds ==
    /\ encodeVarint \in [Nat -> Texts]
    /\ \A v \in Nat : encodeVarint[v] =
            IF v < 128 THEN <<v>> ELSE <<128 + (v % 128)>> \o encodeVarint[v \div 128]
<1> DEFINE Fl(f) == f = [v \in Nat |-> IF v < 128 THEN <<v>> ELSE <<128 + (v % 128)>> \o f[v \div 128]]
           fl == CHOOSE f : Fl(f)
           A == Texts
           F == [v \in Nat |-> [s \in A |-> <<128 + (v % 128)>> \o s]]
           B == [v \in Nat |-> IF v < 128 THEN <<v>> ELSE <<>>]
           p == [v \in Nat |-> v \div 128]
           base == 0..127
<1>1. \A v \in Nat : v \div 128 \in Nat /\ (v >= 128 => v \div 128 < v) OBVIOUS
<1>2. \A v \in Nat : (v < 128 => v \in 0..255) /\ 128 + (v % 128) \in 0..255 OBVIOUS
<1>3. ASSUME NEW b \in 0..255, NEW s \in A PROVE <<b>> \in A /\ <<b>> \o s \in A BY DEF Texts
<1>4. \A v \in Nat : v \in base <=> v < 128 OBVIOUS
<1>5. Recursion(Nat, base, A, B, F, p)
    <2>1. B \in [Nat -> A]
        <3>1. <<>> \in A BY DEF Texts
        <3>2. \A v \in Nat : v < 128 => <<v>> \in A BY <1>2, <1>3, <3>1
        <3> HIDE DEF A
        <3>3. QED BY <3>1, <3>2
    <2>2. F \in [Nat -> [A -> A]]
        <3> HIDE DEF A
        <3>1. QED BY <1>2, <1>3
    <2>3. QED BY <1>1, <2>1, <2>2 DEF Recursion
<1>6. \E f : Solves(f, Nat, base, A, B, F, p)
    <2> HIDE DEF F, p, B, base, A
    <2>1. QED BY <1>5, RecursionExists
<1>7. PICK f \in [Nat -> A] : \A v \in Nat : f[v] = IF v \in base THEN B[v] ELSE F[v][f[p[v]]]
    BY <1>6 DEF Solves
<1>8. \A v \in Nat : f[v] = IF v < 128 THEN <<v>> ELSE <<128 + (v % 128)>> \o f[v \div 128]
    BY <1>1, <1>4, <1>7, ZenonT(40)
<1>9. Fl(f) BY <1>8
<1>10. Fl(fl)
    <2> HIDE DEF Fl
    <2>1. QED BY <1>9
<1>11. encodeVarint = fl BY DEF encodeVarint
<1> HIDE DEF fl
<1>12. \A v \in Nat : encodeVarint[v] =
            IF v < 128 THEN <<v>> ELSE <<128 + (v % 128)>> \o encodeVarint[v \div 128]
    BY <1>10, <1>11
<1> DEFINE T == {v \in Nat : encodeVarint[v] \in A}
<1>13. ASSUME NEW v \in Nat, \A u \in Nat : u < v => u \in T PROVE v \in T
    <2>0. <<>> \in A BY DEF Texts
    <2>1. CASE v < 128
        <3> HIDE DEF A
        <3>1. v \in 0..255 BY <1>2, <2>1
        <3>2. encodeVarint[v] = <<v>> BY <1>12, <2>1
        <3>3. <<v>> \in A BY <1>3, <2>0, <3>1
        <3>4. encodeVarint[v] \in A BY <3>2, <3>3, Zenon
        <3>5. QED BY <3>4
    <2>2. CASE ~(v < 128)
        <3>1. v \div 128 \in T BY <1>1, <1>13, <2>2
        <3>2. encodeVarint[v] = <<128 + (v % 128)>> \o encodeVarint[v \div 128] BY <1>12, <2>2
        <3> HIDE DEF A
        <3> DEFINE b == 128 + (v % 128)
                   e == encodeVarint[v \div 128]
        <3>3. b \in 0..255 /\ e \in A BY <1>2, <3>1
        <3> HIDE DEF b, e
        <3>4. <<b>> \o e \in A BY <1>3, <3>3
        <3>5. encodeVarint[v] \in A BY <3>2, <3>4 DEF b, e
        <3>6. QED BY <3>5
    <2>3. QED BY <2>1, <2>2
<1>14. T = Nat
    <2> HIDE DEF T
    <2>1. T \subseteq Nat BY DEF T
    <2>2. QED BY <1>13, <2>1, StrongInduction
<1>15. encodeVarint = [v \in Nat |-> encodeVarint[v]] BY <1>10, <1>11
<1>16. \A v \in Nat : encodeVarint[v] \in Texts BY <1>14
<1>17. QED BY <1>12, <1>15, <1>16

\* Seven bits a byte.
LEMMA SevenBits == \A x \in Nat : x >= 128 => Len64[x] = 7 + Len64[x \div 128]
<1>1. SUFFICES ASSUME NEW x \in Nat, x >= 128 PROVE Len64[x] = 7 + Len64[x \div 128] OBVIOUS
<1> DEFINE y1 == x \div 2
           y2 == y1 \div 2
           y3 == y2 \div 2
           y4 == y3 \div 2
           y5 == y4 \div 2
           y6 == y5 \div 2
           y7 == y6 \div 2
<1>2. y1 \in Nat /\ y1 >= 64 BY <1>1
<1> HIDE DEF y1
<1>3. y2 \in Nat /\ y2 >= 32 BY <1>2
<1> HIDE DEF y2
<1>4. y3 \in Nat /\ y3 >= 16 BY <1>3
<1> HIDE DEF y3
<1>5. y4 \in Nat /\ y4 >= 8 BY <1>4
<1> HIDE DEF y4
<1>6. y5 \in Nat /\ y5 >= 4 BY <1>5
<1> HIDE DEF y5
<1>7. y6 \in Nat /\ y6 >= 2 BY <1>6
<1> HIDE DEF y6
<1>8. y7 \in Nat BY <1>7
<1>9. y7 = x \div 128
    <2>1. x = 2 * y1 + (x % 2) /\ x % 2 \in 0..1 BY DEF y1
    <2>2. y1 = 2 * y2 + (y1 % 2) /\ y1 % 2 \in 0..1 BY <1>2 DEF y2
    <2>3. y2 = 2 * y3 + (y2 % 2) /\ y2 % 2 \in 0..1 BY <1>3 DEF y3
    <2>4. y3 = 2 * y4 + (y3 % 2) /\ y3 % 2 \in 0..1 BY <1>4 DEF y4
    <2>5. y4 = 2 * y5 + (y4 % 2) /\ y4 % 2 \in 0..1 BY <1>5 DEF y5
    <2>6. y5 = 2 * y6 + (y5 % 2) /\ y5 % 2 \in 0..1 BY <1>6 DEF y6
    <2>7. y6 = 2 * y7 + (y6 % 2) /\ y6 % 2 \in 0..1 BY <1>7
    <2> HIDE DEF y7
    <2>8. 128 * y7 <= x /\ x < 128 * y7 + 128
        <3>1. 2 * y1 <= x /\ x <= 2 * y1 + 1 BY <1>2, <2>1
        <3>2. 4 * y2 <= x /\ x <= 4 * y2 + 3 BY <1>2, <1>3, <2>2, <3>1
        <3>3. 8 * y3 <= x /\ x <= 8 * y3 + 7 BY <1>3, <1>4, <2>3, <3>2
        <3>4. 16 * y4 <= x /\ x <= 16 * y4 + 15 BY <1>4, <1>5, <2>4, <3>3
        <3>5. 32 * y5 <= x /\ x <= 32 * y5 + 31 BY <1>5, <1>6, <2>5, <3>4
        <3>6. 64 * y6 <= x /\ x <= 64 * y6 + 63 BY <1>6, <1>7, <2>6, <3>5
        <3>7. 128 * y7 <= x /\ x <= 128 * y7 + 127 BY <1>7, <1>8, <2>7, <3>6
        <3>8. QED BY <1>8, <3>7
    <2>9. QED BY <1>8, <2>8
<1>10. Len64[x] = 1 + Len64[y1] BY <1>1, Len64Unfolds DEF y1
<1>11. Len64[y1] = 1 + Len64[y2] BY <1>2, Len64Unfolds DEF y2
<1>12. Len64[y2] = 1 + Len64[y3] BY <1>3, Len64Unfolds DEF y3
<1>13. Len64[y3] = 1 + Len64[y4] BY <1>4, Len64Unfolds DEF y4
<1>14. Len64[y4] = 1 + Len64[y5] BY <1>5, Len64Unfolds DEF y5
<1>15. Len64[y5] = 1 + Len64[y6] BY <1>6, Len64Unfolds DEF y6
<1>16. Len64[y6] = 1 + Len64[y7] BY <1>7, Len64Unfolds
<1> HIDE DEF y7
<1>17. Len64[y7] \in Nat BY <1>8, Len64Unfolds
<1>18. QED BY <1>9, <1>10, <1>11, <1>12, <1>13, <1>14, <1>15, <1>16, <1>17

\* x | 1
Odd(x) == IF x % 2 = 0 THEN x + 1 ELSE x

\* The last bit adds nothing to the length of another number than 0.
LEMMA OddLength == \A x \in Nat : x # 0 => Len64[Odd(x)] = Len64[x]
<1>1. SUFFICES ASSUME NEW x \in Nat, x # 0 PROVE Len64[Odd(x)] = Len64[x] OBVIOUS
<1>2. Odd(x) \in Nat /\ Odd(x) # 0 /\ Odd(x) \div 2 = x \div 2 BY <1>1 DEF Odd
<1>3. Len64[Odd(x)] = 1 + Len64[x \div 2] /\ Len64[x] = 1 + Len64[x \div 2]
    BY <1>1, <1>2, Len64Unfolds
<1>4. QED BY <1>3

\* Numbers of up to seven bits.
LEMMA OneByte == \A x \in 1..127 : Len64[x] \in 1..7
<1>0. \A x \in Nat : Len64[x] \in Nat BY Len64Unfolds
<1>1. Len64[0] = 0 BY Len64Unfolds
<1>2. \A x \in 1..1 : Len64[x] \in 1..1
    <2>1. 1 \div 2 = 0 OBVIOUS
    <2>2. Len64[1] = 1 + Len64[1 \div 2] BY Len64Unfolds
    <2>3. QED BY <1>1, <2>1, <2>2
<1> DEFINE Bits(n, k) == \A x \in 1..n : Len64[x] \in 1..k
<1>3. ASSUME NEW n \in Nat, NEW k \in Nat, n >= 1, Bits(n, k) PROVE Bits(2 * n + 1, k + 1)
    <2>0. SUFFICES ASSUME NEW x \in 1..2 * n + 1 PROVE Len64[x] \in 1..k + 1 OBVIOUS
    <2>1. x \in Nat /\ x # 0 /\ x \div 2 \in 0..n BY <1>3
    <2>2. Len64[x] = 1 + Len64[x \div 2] BY <2>1, Len64Unfolds
    <2>3. CASE x \div 2 = 0 BY <1>1, <1>3, <2>2, <2>3
    <2>4. CASE x \div 2 # 0
        <3>1. x \div 2 \in 1..n BY <2>1, <2>4
        <3>2. Len64[x \div 2] \in 1..k BY <1>3, <3>1
        <3>3. QED BY <1>3, <2>2, <3>2
    <2>5. QED BY <2>3, <2>4
<1>4. Bits(1, 1) BY <1>2
<1> HIDE DEF Bits
<1>5. Bits(2 * 1 + 1, 1 + 1) /\ 2 * 1 + 1 = 3 /\ 1 + 1 = 2 BY <1>3, <1>4
<1>6. Bits(2 * 3 + 1, 2 + 1) /\ 2 * 3 + 1 = 7 /\ 2 + 1 = 3 BY <1>3, <1>5
<1>7. Bits(2 * 7 + 1, 3 + 1) /\ 2 * 7 + 1 = 15 /\ 3 + 1 = 4 BY <1>3, <1>6
<1>8. Bits(2 * 15 + 1, 4 + 1) /\ 2 * 15 + 1 = 31 /\ 4 + 1 = 5 BY <1>3, <1>7
<1>9. Bits(2 * 31 + 1, 5 + 1) /\ 2 * 31 + 1 = 63 /\ 5 + 1 = 6 BY <1>3, <1>8
<1>10. Bits(2 * 63 + 1, 6 + 1) /\ 2 * 63 + 1 = 127 /\ 6 + 1 = 7 BY <1>3, <1>9
<1>11. QED BY <1>10 DEF Bits

\* encodeVarintGenerated writes the sovGenerated(v) bytes it makes room for.
LEMMA VarintLength == \A v \in Nat : Len(encodeVarint[v]) = sovGenerated(v) /\ sovGenerated(v) \in Nat
<1> DEFINE T == {v \in Nat : Len(encodeVarint[v]) = (Len64[Odd(v)] + 6) \div 7}
<1>0. \A v \in Nat : encodeVarint[v] \in Texts BY EncodeVarintUnfolds
<1>1. ASSUME NEW v \in Nat, \A u \in Nat : u < v => u \in T PROVE v \in T
    <2>1. CASE v < 128
        <3>1. Odd(v) \in 1..127 BY <2>1 DEF Odd
        <3>2. Len64[Odd(v)] \in 1..7 BY <3>1, OneByte
        <3>3. (Len64[Odd(v)] + 6) \div 7 = 1 BY <3>2
        <3>4. Len(encodeVarint[v]) = 1
            <4>1. encodeVarint[v] = <<v>> BY <2>1, EncodeVarintUnfolds
            <4>2. QED BY <4>1
        <3>5. QED BY <3>3, <3>4
    <2>2. CASE ~(v < 128)
        <3> DEFINE u == v \div 128
        <3>1. u \in Nat /\ u < v /\ u # 0 BY <2>2
        <3>2. Odd(v) \in Nat /\ Odd(v) >= 128 /\ Odd(v) \div 128 = u
            <4>1. CASE v % 2 = 0
                <5>1. v = 128 * u + (v % 128) /\ v % 128 \in 0..127 OBVIOUS
                <5>2. (v % 128) % 2 = 0 BY <4>1, <5>1
                <5>3. v % 128 # 127 BY <5>2
                <5>4. (v + 1) \div 128 = u BY <5>1, <5>3
                <5>5. QED BY <2>2, <4>1, <5>4 DEF Odd
            <4>2. CASE v % 2 # 0 BY <2>2, <4>2 DEF Odd
            <4>3. QED BY <4>1, <4>2
        <3>3. encodeVarint[v] = <<128 + (v % 128)>> \o encodeVarint[u] BY <2>2, EncodeVarintUnfolds
        <3> HIDE DEF u
        <3>4. u \in T BY <1>1, <3>1
        <3>5. Len64[Odd(v)] = 7 + Len64[u] BY <3>2, SevenBits
        <3>6. Len64[Odd(u)] = Len64[u] /\ Len64[u] \in Nat BY <3>1, OddLength, Len64Unfolds
        <3>7. Len(encodeVarint[v]) = 1 + Len(encodeVarint[u])
            <4> DEFINE e == encodeVarint[u]
                       b == 128 + (v % 128)
            <4>1. e \in Seq(0..255) /\ b \in 0..255 BY <1>0, <3>1 DEF Texts
            <4> HIDE DEF e, b
            <4>2. <<b>> \in Seq(0..255) /\ Len(<<b>>) = 1 BY <4>1
            <4>3. Len(<<b>> \o e) = 1 + Len(e) BY <4>1, <4>2
            <4>4. QED BY <3>3, <4>3 DEF e, b
        <3>8. Len(encodeVarint[u]) = (Len64[u] + 6) \div 7 BY <3>4, <3>6
        <3>9. ((7 + Len64[u]) + 6) \div 7 = 1 + (Len64[u] + 6) \div 7 BY <3>6
        <3>10. QED BY <3>5, <3>7, <3>8, <3>9
    <2>3. QED BY <2>1, <2>2
<1>2. T = Nat
    <2> HIDE DEF T
    <2>1. T \subseteq Nat BY DEF T
    <2>2. QED BY <1>1, <2>1, StrongInduction
<1>3. \A v \in Nat : Len(encodeVarint[v]) = sovGenerated(v) BY <1>2 DEF sovGenerated, Odd
<1>4. \A v \in Nat : Len(encodeVarint[v]) \in Nat BY <1>0 DEF Texts
<1>5. QED BY <1>3, <1>4

-----------------------------------------------------------------------------
(* The tables.                                                             *)

\* The values of a field: vals holds those of the messages, E what external messages may be.
FieldValues(vals, E, k) ==
    CASE k.kind = "text" -> Texts
      [] k.kind \in {"meta", "time"} -> E
      [] k.kind = "bool" -> BOOLEAN
      [] k.kind = "int32" -> Int32Values
      [] k.kind = "optInt32" -> OrNil(Int32Values)
      [] k.kind = "bytes" -> OrNil(Texts)
      [] k.kind = "gap" -> {Nil}
      [] k.kind = "struct" -> vals[k.type]
      [] k.kind = "pointer" -> OrNil(vals[k.type])
      [] k.kind = "list" -> Seq(vals[k.type])

Typed(fields, values, vals, E) ==
    \A v : v \in values <=> /\ v = [f \in DOMAIN fields |-> v[f]]
                            /\ \A f \in DOMAIN fields : v[f] \in FieldValues(vals, E, fields[f])

\* The values of a message are those of its fields.
LEMMA ValuesTyped ==
    ASSUME NEW E
    PROVE  \A t \in Messages : Typed(Fields[t], ValuesWith(E)[t], ValuesWith(E), E)
<1> DEFINE vals == ValuesWith(E)
<1>1. /\ \A k : k.kind = "text" => FieldValues(vals, E, k) = Texts
      /\ \A k : k.kind \in {"meta", "time"} => FieldValues(vals, E, k) = E
      /\ \A k : k.kind = "bool" => FieldValues(vals, E, k) = BOOLEAN
      /\ \A k : k.kind = "int32" => FieldValues(vals, E, k) = Int32Values
      /\ \A k : k.kind = "optInt32" => FieldValues(vals, E, k) = OrNil(Int32Values)
      /\ \A k : k.kind = "bytes" => FieldValues(vals, E, k) = OrNil(Texts)
      /\ \A k : k.kind = "gap" => FieldValues(vals, E, k) = {Nil}
      /\ \A k : k.kind = "struct" => FieldValues(vals, E, k) = vals[k.type]
      /\ \A k : k.kind = "pointer" => FieldValues(vals, E, k) = OrNil(vals[k.type])
      /\ \A k : k.kind = "list" => FieldValues(vals, E, k) = Seq(vals[k.type])
    BY DEF FieldValues
<1>2. /\ vals["APIService"] = APIServiceValues(E)
      /\ vals["APIServiceCondition"] = APIServiceConditionValues(E)
      /\ vals["APIServiceSpec"] = APIServiceSpecValues
      /\ vals["APIServiceStatus"] = APIServiceStatusValues(E)
      /\ vals["ServiceReference"] = ServiceReferenceValues
      /\ vals["FooV1"] = FooV1Values(E) /\ vals["FooSpecV1"] = FooSpecV1Values
      /\ vals["Foo"] = FooValues(E) /\ vals["FooCondition"] = FooConditionValues
      /\ vals["FooConfig"] = FooConfigValues
      /\ vals["FooSpec"] = FooSpecValues /\ vals["FooStatus"] = FooStatusValues
    BY DEF ValuesWith
<1> HIDE DEF vals
<1>3. /\ FieldValues(vals, E, Text) = Texts
      /\ FieldValues(vals, E, Meta) = E
      /\ FieldValues(vals, E, Time) = E
      /\ FieldValues(vals, E, Bool) = BOOLEAN
      /\ FieldValues(vals, E, Int32) = Int32Values
      /\ FieldValues(vals, E, OptInt32) = OrNil(Int32Values)
      /\ FieldValues(vals, E, Bytes) = OrNil(Texts)
      /\ FieldValues(vals, E, Gap) = {Nil}
      /\ \A t : FieldValues(vals, E, Struct(t)) = vals[t]
      /\ \A t : FieldValues(vals, E, Pointer(t)) = OrNil(vals[t])
      /\ \A t : FieldValues(vals, E, List(t)) = Seq(vals[t])
    BY <1>1 DEF Text, Meta, Time, Bool, Int32, OptInt32, Bytes, Gap, Struct, Pointer, List
<1> HIDE DEF OrNil, Texts, Int32Values
<1>4. Typed(APIService, APIServiceValues(E), vals, E)
    BY <1>2, <1>3 DEF Typed, APIService, APIServiceValues
<1>5. Typed(APIServiceCondition, APIServiceConditionValues(E), vals, E)
    BY <1>2, <1>3 DEF Typed, APIServiceCondition, APIServiceConditionValues
<1>6. Typed(APIServiceList, APIServiceListValues(E), vals, E)
    BY <1>2, <1>3 DEF Typed, APIServiceList, APIServiceListValues
<1>7. Typed(APIServiceSpec, APIServiceSpecValues, vals, E)
    BY <1>2, <1>3 DEF Typed, APIServiceSpec, APIServiceSpecValues
<1>8. Typed(APIServiceStatus, APIServiceStatusValues(E), vals, E)
    BY <1>2, <1>3 DEF Typed, APIServiceStatus, APIServiceStatusValues
<1>9. Typed(ServiceReference, ServiceReferenceValues, vals, E)
    BY <1>2, <1>3 DEF Typed, ServiceReference, ServiceReferenceValues
<1>10. Typed(FooV1, FooV1Values(E), vals, E) BY <1>2, <1>3 DEF Typed, FooV1, FooV1Values
<1>11. Typed(FooListV1, FooListV1Values(E), vals, E) BY <1>2, <1>3 DEF Typed, FooListV1, FooListV1Values
<1>12. Typed(FooSpecV1, FooSpecV1Values, vals, E) BY <1>2, <1>3 DEF Typed, FooSpecV1, FooSpecV1Values
<1>13. Typed(Foo, FooValues(E), vals, E) BY <1>2, <1>3 DEF Typed, Foo, FooValues
<1>14. Typed(FooCondition, FooConditionValues, vals, E) BY <1>2, <1>3 DEF Typed, FooCondition, FooConditionValues
<1>15. Typed(FooConfig, FooConfigValues, vals, E) BY <1>2, <1>3 DEF Typed, FooConfig, FooConfigValues
<1>16. Typed(FooList, FooListValues(E), vals, E) BY <1>2, <1>3 DEF Typed, FooList, FooListValues
<1>17. Typed(FooSpec, FooSpecValues, vals, E) BY <1>2, <1>3 DEF Typed, FooSpec, FooSpecValues
<1>18. Typed(FooStatus, FooStatusValues, vals, E) BY <1>2, <1>3 DEF Typed, FooStatus, FooStatusValues
<1> HIDE DEF Typed
<1>19. \A t \in Messages : Typed(Fields[t], vals[t], vals, E)
    BY <1>4, <1>5, <1>6, <1>7, <1>8, <1>9, <1>10, <1>11, <1>12, <1>13, <1>14, <1>15, <1>16, <1>17, <1>18
    DEF vals, ValuesWith, Messages, Fields, APIServiceV1beta1, APIServiceConditionV1beta1,
        APIServiceListV1beta1, APIServiceSpecV1beta1, APIServiceStatusV1beta1, ServiceReferenceV1beta1
<1>20. QED BY <1>19 DEF vals

Kinds == {"gap", "text", "bytes", "bool", "int32", "optInt32", "meta", "time",
          "struct", "pointer", "list"}
MessageKinds == {"struct", "pointer", "list"}

\* How deep messages nest in one of type t.
Rank(t) ==
    IF t \in {"ServiceReference", "ServiceReferenceV1beta1", "APIServiceCondition",
              "APIServiceConditionV1beta1", "FooSpecV1", "FooConfig", "FooCondition"} THEN 1
    ELSE IF t \in {"APIServiceSpec", "APIServiceSpecV1beta1", "APIServiceStatus",
                   "APIServiceStatusV1beta1", "FooV1", "FooSpec", "FooStatus"} THEN 2
    ELSE IF t \in {"APIService", "APIServiceV1beta1", "Foo", "FooListV1"} THEN 3
    ELSE 4

Ranked(fields, r) ==
    /\ Len(fields) \in Nat /\ DOMAIN fields = 1..Len(fields)
    /\ \A f \in DOMAIN fields :
        /\ fields[f].kind \in Kinds
        /\ fields[f].kind \in MessageKinds => fields[f].type \in Messages /\ Rank(fields[f].type) < r

\* Messages nest at most four deep.
LEMMA FieldsRanked == \A t \in Messages : Ranked(Fields[t], Rank(t))
<1>1. /\ \A t \in {"ServiceReference", "APIServiceCondition", "FooSpecV1", "FooConfig",
                    "FooCondition"} : Rank(t) = 1 /\ t \in Messages
      /\ \A t \in {"APIServiceSpec", "APIServiceStatus", "FooV1", "FooSpec", "FooStatus"} :
            Rank(t) = 2 /\ t \in Messages
      /\ \A t \in {"APIService", "Foo", "FooListV1"} : Rank(t) = 3 /\ t \in Messages
    BY DEF Rank, Messages, Fields
<1> USE DEF Ranked, Kinds, MessageKinds, Gap, Text, Bytes, Bool, Int32, OptInt32, Meta, Time,
            Struct, Pointer, List
<1>4. Ranked(APIService, 3) BY <1>1 DEF APIService
<1>5. Ranked(APIServiceCondition, 1) BY <1>1 DEF APIServiceCondition
<1>6. Ranked(APIServiceList, 4) BY <1>1 DEF APIServiceList
<1>7. Ranked(APIServiceSpec, 2) BY <1>1 DEF APIServiceSpec
<1>8. Ranked(APIServiceStatus, 2) BY <1>1 DEF APIServiceStatus
<1>9. Ranked(ServiceReference, 1) BY <1>1 DEF ServiceReference
<1>10. Ranked(FooV1, 2) BY <1>1 DEF FooV1
<1>11. Ranked(FooListV1, 3) BY <1>1 DEF FooListV1
<1>12. Ranked(FooSpecV1, 1) BY <1>1 DEF FooSpecV1
<1>13. Ranked(Foo, 3) BY <1>1 DEF Foo
<1>14. Ranked(FooCondition, 1) BY <1>1 DEF FooCondition
<1>15. Ranked(FooConfig, 1) BY <1>1 DEF FooConfig
<1>16. Ranked(FooList, 4) BY <1>1 DEF FooList
<1>17. Ranked(FooSpec, 2) BY <1>1 DEF FooSpec
<1>18. Ranked(FooStatus, 2) BY <1>1 DEF FooStatus
<1> HIDE DEF Ranked, Kinds, MessageKinds, Gap, Text, Bytes, Bool, Int32, OptInt32, Meta, Time,
             Struct, Pointer, List
<1>19. QED
    BY <1>4, <1>5, <1>6, <1>7, <1>8, <1>9, <1>10, <1>11, <1>12, <1>13, <1>14, <1>15, <1>16, <1>17, <1>18
    DEF Rank, Messages, Fields, APIServiceV1beta1, APIServiceConditionV1beta1,
        APIServiceListV1beta1, APIServiceSpecV1beta1, APIServiceStatusV1beta1, ServiceReferenceV1beta1

\* One tag a field, in the order of the fields, without the gap of APIServiceSpec.
Tagged(fields, tags) ==
    /\ Len(tags) \in Nat /\ DOMAIN tags = 1..Len(tags)
    /\ \A j \in DOMAIN tags :
        /\ tags[j] \in 0..127
        /\ FieldOf(tags[j]) \in DOMAIN fields
        /\ fields[FieldOf(tags[j])].kind # "gap"
        /\ tags[j] % 8 = WireType(fields[FieldOf(tags[j])].kind)
    /\ \/ /\ Len(tags) = Len(fields)
          /\ \A j \in DOMAIN tags : FieldOf(tags[j]) = j
       \/ /\ Len(tags) = 7 /\ Len(fields) = 8 /\ fields[6].kind = "gap"
          /\ \A j \in 1..5 : FieldOf(tags[j]) = j
          /\ \A j \in 6..7 : FieldOf(tags[j]) = j + 1

\* MarshalToSizedBuffer and Unmarshal agree on fields and wire types.
LEMMA TagsMatch == \A t \in Messages : Tagged(Fields[t], Tags[t])
<1> USE DEF Tagged, WireType, FieldOf, Gap, Text, Bytes, Bool, Int32, OptInt32, Meta, Time,
            Struct, Pointer, List
<1>4. Tagged(APIService, APIServiceTags) BY DEF APIService, APIServiceTags
<1>5. Tagged(APIServiceCondition, APIServiceConditionTags) BY DEF APIServiceCondition, APIServiceConditionTags
<1>6. Tagged(APIServiceList, APIServiceListTags) BY DEF APIServiceList, APIServiceListTags
<1>7. Tagged(APIServiceSpec, APIServiceSpecTags) BY DEF APIServiceSpec, APIServiceSpecTags
<1>8. Tagged(APIServiceStatus, APIServiceStatusTags) BY DEF APIServiceStatus, APIServiceStatusTags
<1>9. Tagged(ServiceReference, ServiceReferenceTags) BY DEF ServiceReference, ServiceReferenceTags
<1>10. Tagged(FooV1, FooV1Tags) BY DEF FooV1, FooV1Tags
<1>11. Tagged(FooListV1, FooListV1Tags) BY DEF FooListV1, FooListV1Tags
<1>12. Tagged(FooSpecV1, FooSpecV1Tags) BY DEF FooSpecV1, FooSpecV1Tags
<1>13. Tagged(Foo, FooTags) BY DEF Foo, FooTags
<1>14. Tagged(FooCondition, FooConditionTags) BY DEF FooCondition, FooConditionTags
<1>15. Tagged(FooConfig, FooConfigTags) BY DEF FooConfig, FooConfigTags
<1>16. Tagged(FooList, FooListTags) BY DEF FooList, FooListTags
<1>17. Tagged(FooSpec, FooSpecTags) BY DEF FooSpec, FooSpecTags
<1>18. Tagged(FooStatus, FooStatusTags) BY DEF FooStatus, FooStatusTags
<1> HIDE DEF Tagged, WireType, FieldOf, Gap, Text, Bytes, Bool, Int32, OptInt32, Meta, Time,
             Struct, Pointer, List
<1>19. QED
    BY <1>4, <1>5, <1>6, <1>7, <1>8, <1>9, <1>10, <1>11, <1>12, <1>13, <1>14, <1>15, <1>16, <1>17, <1>18
    DEF Messages, Fields, Tags, APIServiceV1beta1, APIServiceConditionV1beta1,
        APIServiceListV1beta1, APIServiceSpecV1beta1, APIServiceStatusV1beta1, ServiceReferenceV1beta1,
        APIServiceV1beta1Tags, APIServiceConditionV1beta1Tags,
        APIServiceListV1beta1Tags, APIServiceSpecV1beta1Tags, APIServiceStatusV1beta1Tags,
        ServiceReferenceV1beta1Tags

\* An item of a field: what Items holds.
ItemValues(vals, E, k) ==
    CASE k.kind = "text" -> Texts
      [] k.kind \in {"meta", "time"} -> E
      [] k.kind = "bool" -> BOOLEAN
      [] k.kind \in {"int32", "optInt32"} -> Int32Values
      [] k.kind = "bytes" -> Texts
      [] k.kind = "gap" -> {}
      [] k.kind \in {"struct", "pointer", "list"} -> vals[k.type]

LEMMA ItemsTyped ==
    ASSUME NEW vals, NEW E, NEW k, k.kind \in Kinds, NEW x \in FieldValues(vals, E, k)
    PROVE  Items(k.kind, x) \in Seq(ItemValues(vals, E, k))
<1>1. CASE k.kind = "list"
    <2>1. FieldValues(vals, E, k) = Seq(vals[k.type]) BY <1>1 DEF FieldValues
    <2>2. ItemValues(vals, E, k) = vals[k.type] BY <1>1 DEF ItemValues
    <2>3. Items(k.kind, x) = x BY <1>1 DEF Items
    <2>4. QED BY <2>1, <2>2, <2>3
<1>2. CASE k.kind # "list"
    <2>1. Present(k.kind, x) => x \in ItemValues(vals, E, k)
        <3>1. CASE k.kind = "text" BY <3>1 DEF FieldValues, ItemValues
        <3>2. CASE k.kind \in {"meta", "time"} BY <3>2 DEF FieldValues, ItemValues
        <3>3. CASE k.kind = "bool" BY <3>3 DEF FieldValues, ItemValues
        <3>4. CASE k.kind = "int32" BY <3>4 DEF FieldValues, ItemValues
        <3>5. CASE k.kind = "optInt32" BY <3>5 DEF FieldValues, ItemValues, Present, OrNil
        <3>6. CASE k.kind = "bytes" BY <3>6 DEF FieldValues, ItemValues, Present, OrNil
        <3>7. CASE k.kind = "gap" BY <3>7 DEF FieldValues, ItemValues, Present
        <3>8. CASE k.kind = "struct" BY <3>8 DEF FieldValues, ItemValues
        <3>9. CASE k.kind = "pointer" BY <3>9 DEF FieldValues, ItemValues, Present, OrNil
        <3>10. QED BY <1>2, <3>1, <3>2, <3>3, <3>4, <3>5, <3>6, <3>7, <3>8, <3>9 DEF Kinds
    <2>2. Items(k.kind, x) = IF Present(k.kind, x) THEN <<x>> ELSE <<>> BY <1>2 DEF Items
    <2>3. QED BY <2>1, <2>2
<1>3. QED BY <1>1, <1>2

\* What may stand between the tags of a message: what Pieces is made of.
PieceSet(t, E) ==
    UNION {[tag : {Tags[t][j]}, item : ItemValues(ValuesWith(E), E, KindOf(t, Tags[t][j]))] :
            j \in DOMAIN Tags[t]}

FieldPieces(t, v, j) ==
    LET tag == Tags[t][j]
        items == Items(KindOf(t, tag).kind, v[FieldOf(tag)])
    IN [i \in DOMAIN items |-> [tag |-> tag, item |-> items[i]]]

LEMMA FieldPiecesType ==
    ASSUME NEW t \in Messages, NEW E, NEW v \in ValuesWith(E)[t], NEW j \in DOMAIN Tags[t]
    PROVE  /\ FieldPieces(t, v, j) \in Seq(PieceSet(t, E))
           /\ Items(KindOf(t, Tags[t][j]).kind, v[FieldOf(Tags[t][j])])
                \in Seq(ItemValues(ValuesWith(E), E, KindOf(t, Tags[t][j])))
<1> DEFINE tag == Tags[t][j]
           k == KindOf(t, tag)
           S == ItemValues(ValuesWith(E), E, k)
           items == Items(k.kind, v[FieldOf(tag)])
<1>1. FieldOf(tag) \in DOMAIN Fields[t] BY TagsMatch DEF Tagged
<1>2. k.kind \in Kinds BY <1>1, FieldsRanked DEF Ranked, KindOf
<1>3. v[FieldOf(tag)] \in FieldValues(ValuesWith(E), E, k) BY <1>1, ValuesTyped DEF Typed, KindOf
<1> HIDE DEF k, tag
<1>4. items \in Seq(S) BY <1>2, <1>3, ItemsTyped
<1>5. ASSUME NEW x \in S PROVE [tag |-> tag, item |-> x] \in PieceSet(t, E) BY DEF PieceSet, tag, k
<1>6. FieldPieces(t, v, j) = [i \in DOMAIN items |-> [tag |-> tag, item |-> items[i]]]
    BY DEF FieldPieces, tag, k
<1> HIDE DEF items, S
<1>7. \A i \in 1..Len(items) : items[i] \in S BY <1>4
<1>8. DOMAIN items = 1..Len(items) /\ Len(items) \in Nat BY <1>4
<1>9. FieldPieces(t, v, j) \in [1..Len(items) -> PieceSet(t, E)] BY <1>5, <1>6, <1>7, <1>8
<1>10. FieldPieces(t, v, j) \in Seq(PieceSet(t, E)) BY <1>8, <1>9, IsASeq
<1>11. QED BY <1>4, <1>10 DEF items, S, k, tag

LEMMA PiecesType ==
    ASSUME NEW t \in Messages, NEW E, NEW v \in ValuesWith(E)[t]
    PROVE  /\ [j \in DOMAIN Tags[t] |-> FieldPieces(t, v, j)] \in Seq(Seq(PieceSet(t, E)))
           /\ Pieces(t, v) = FlattenSeq([j \in DOMAIN Tags[t] |-> FieldPieces(t, v, j)])
           /\ Pieces(t, v) \in Seq(PieceSet(t, E))
<1> DEFINE ff == [j \in DOMAIN Tags[t] |-> FieldPieces(t, v, j)]
<1>1. DOMAIN Tags[t] = 1..Len(Tags[t]) /\ Len(Tags[t]) \in Nat BY TagsMatch DEF Tagged
<1>2. \A j \in DOMAIN Tags[t] : FieldPieces(t, v, j) \in Seq(PieceSet(t, E)) BY FieldPiecesType
<1>3. ff \in [1..Len(Tags[t]) -> Seq(PieceSet(t, E))] BY <1>1, <1>2
<1>4. ff \in Seq(Seq(PieceSet(t, E))) BY <1>1, <1>3, IsASeq
<1>5. Pieces(t, v) = FlattenSeq(ff) BY DEF Pieces, FieldPieces
<1> HIDE DEF ff
<1>6. FlattenSeq(ff) \in Seq(PieceSet(t, E)) BY <1>4, FlattenType
<1>7. QED BY <1>4, <1>5, <1>6 DEF ff

-----------------------------------------------------------------------------
(* Written and Size are defined by recursion to the messages in a message. *)

WrittenBy(w, t) ==
    [v \in Values[t] |->
        LET p == Pieces(t, v) IN FlattenSeq([c \in DOMAIN p |-> Chunk(w, t, p[c])])]

SizeBy(n, t) ==
    [v \in Values[t] |->
        Total[[f \in DOMAIN Fields[t] |->
            LET k == Fields[t][f]
                items == Items(k.kind, v[f])
            IN Total[[i \in DOMAIN items |-> SizeOf(n, k, items[i])]]]]]

\* g and h agree on the messages that messages of rank r may hold.
AgreeBelow(g, h, r) == \A u \in Messages : Rank(u) < r => g[u] = h[u]

LEMMA SubRank ==
    ASSUME NEW t \in Messages, NEW f \in DOMAIN Fields[t], Fields[t][f].kind \in MessageKinds
    PROVE  Fields[t][f].type \in Messages /\ Rank(Fields[t][f].type) < Rank(t)
BY FieldsRanked DEF Ranked

LEMMA PieceKind ==
    ASSUME NEW t \in Messages, NEW E, NEW p \in PieceSet(t, E)
    PROVE  /\ p = [tag |-> p.tag, item |-> p.item]
           /\ p.tag \in 0..127
           /\ FieldOf(p.tag) \in DOMAIN Fields[t]
           /\ KindOf(t, p.tag).kind \in Kinds \ {"gap"}
           /\ p.tag % 8 = WireType(KindOf(t, p.tag).kind)
           /\ p.item \in ItemValues(ValuesWith(E), E, KindOf(t, p.tag))
<1>1. PICK j \in DOMAIN Tags[t] :
        p \in [tag : {Tags[t][j]}, item : ItemValues(ValuesWith(E), E, KindOf(t, Tags[t][j]))]
    BY DEF PieceSet
<1>2. /\ p = [tag |-> p.tag, item |-> p.item] /\ p.tag = Tags[t][j]
      /\ p.item \in ItemValues(ValuesWith(E), E, KindOf(t, Tags[t][j]))
    BY <1>1
<1>3. /\ Tags[t][j] \in 0..127 /\ FieldOf(Tags[t][j]) \in DOMAIN Fields[t]
      /\ KindOf(t, Tags[t][j]).kind # "gap"
      /\ Tags[t][j] % 8 = WireType(KindOf(t, Tags[t][j]).kind)
    BY TagsMatch DEF Tagged, KindOf
<1>4. KindOf(t, Tags[t][j]).kind \in Kinds BY <1>3, FieldsRanked DEF Ranked, KindOf
<1>5. QED BY <1>2, <1>3, <1>4

\* A piece is written with the messages that a message of its type may hold.
LEMMA ChunkAgrees ==
    ASSUME NEW t \in Messages, NEW g, NEW h, AgreeBelow(g, h, Rank(t)), NEW p \in PieceSet(t, Texts)
    PROVE  Chunk(g, t, p) = Chunk(h, t, p)
<1> DEFINE k == KindOf(t, p.tag)
<1>1. k.kind \in MessageKinds => k.type \in Messages /\ Rank(k.type) < Rank(t)
    BY PieceKind, SubRank DEF KindOf
<1>2. k.kind \in MessageKinds => g[k.type] = h[k.type] BY <1>1 DEF AgreeBelow
<1> HIDE DEF k
<1>3. Content(g, k, p.item) = Content(h, k, p.item)
    <2>1. CASE k.kind \in MessageKinds BY <1>2, <2>1 DEF Content, MessageKinds
    <2>2. CASE k.kind \notin MessageKinds BY <2>2 DEF Content, MessageKinds
    <2>3. QED BY <2>1, <2>2
<1>4. QED BY <1>3 DEF Chunk, Payload, k

LEMMA WrittenByAgrees ==
    ASSUME NEW t \in Messages, NEW g, NEW h, AgreeBelow(g, h, Rank(t))
    PROVE  WrittenBy(g, t) = WrittenBy(h, t)
<1>1. \A p \in PieceSet(t, Texts) : Chunk(g, t, p) = Chunk(h, t, p) BY ChunkAgrees
<1>2. ASSUME NEW v \in Values[t] PROVE WrittenBy(g, t)[v] = WrittenBy(h, t)[v]
    <2> DEFINE p == Pieces(t, v)
    <2>1. p \in Seq(PieceSet(t, Texts)) BY PiecesType DEF Values
    <2> HIDE DEF p
    <2>2. [c \in DOMAIN p |-> Chunk(g, t, p[c])] = [c \in DOMAIN p |-> Chunk(h, t, p[c])]
        <3>1. \A c \in DOMAIN p : p[c] \in PieceSet(t, Texts) BY <2>1
        <3>2. QED BY <1>1, <3>1
    <2>3. QED BY <2>2 DEF WrittenBy, p
<1>3. QED BY <1>2 DEF WrittenBy

LEMMA SizeByAgrees ==
    ASSUME NEW t \in Messages, NEW g, NEW h, AgreeBelow(g, h, Rank(t))
    PROVE  SizeBy(g, t) = SizeBy(h, t)
<1>1. ASSUME NEW f \in DOMAIN Fields[t], NEW x PROVE SizeOf(g, Fields[t][f], x) = SizeOf(h, Fields[t][f], x)
    <2> DEFINE k == Fields[t][f]
    <2>1. k.kind \in MessageKinds => k.type \in Messages /\ Rank(k.type) < Rank(t) BY SubRank
    <2>2. k.kind \in MessageKinds => g[k.type] = h[k.type] BY <2>1 DEF AgreeBelow
    <2> HIDE DEF k
    <2>3. SizeOf(g, k, x) = SizeOf(h, k, x)
        <3>1. CASE k.kind \in MessageKinds BY <2>2, <3>1 DEF SizeOf, MessageKinds
        <3>2. CASE k.kind \notin MessageKinds BY <3>2 DEF SizeOf, MessageKinds
        <3>3. QED BY <3>1, <3>2
    <2>4. QED BY <2>3 DEF k
<1>2. QED BY <1>1 DEF SizeBy

LEMMA RankType == \A t \in Messages : Rank(t) \in 1..4
BY DEF Rank

LEMMA WrittenUnfolds == \A t \in Messages : Written[t] = WrittenBy(Written, t)
<1> DEFINE Step(w) == [t \in Messages |-> WrittenBy(w, t)]
           W0 == [t \in Messages |-> <<>>]
           W1 == Step(W0)
           W2 == Step(W1)
           W3 == Step(W2)
           W4 == Step(W3)
           W5 == Step(W4)
<1>1. ASSUME NEW g, NEW h, NEW r \in Nat, AgreeBelow(g, h, r)
      PROVE  AgreeBelow(Step(g), Step(h), r + 1)
    <2>1. SUFFICES ASSUME NEW t \in Messages, Rank(t) < r + 1 PROVE Step(g)[t] = Step(h)[t]
        BY DEF AgreeBelow
    <2>2. AgreeBelow(g, h, Rank(t)) BY <1>1, <2>1, RankType DEF AgreeBelow
    <2>3. WrittenBy(g, t) = WrittenBy(h, t) BY <2>2, WrittenByAgrees
    <2>4. QED BY <2>3
<1>2. \E w : w = Step(w)
    <2>1. AgreeBelow(W0, W1, 1) BY RankType DEF AgreeBelow
    <2> HIDE DEF W0, Step
    <2>2. AgreeBelow(W1, W2, 1 + 1) BY <1>1, <2>1
    <2> HIDE DEF W1
    <2>3. AgreeBelow(W2, W3, 1 + 1 + 1) BY <1>1, <2>2
    <2> HIDE DEF W2
    <2>4. AgreeBelow(W3, W4, 1 + 1 + 1 + 1) BY <1>1, <2>3
    <2> HIDE DEF W3
    <2>5. AgreeBelow(W4, W5, 1 + 1 + 1 + 1 + 1) BY <1>1, <2>4
    <2>6. \A t \in Messages : W4[t] = W5[t] BY <2>5, RankType DEF AgreeBelow
    <2>7. W4 = [t \in Messages |-> W4[t]] BY DEF W4, Step
    <2>8. W5 = [t \in Messages |-> W5[t]] BY DEF Step
    <2>9. W4 = W5 BY <2>6, <2>7, <2>8
    <2>10. QED BY <2>9
<1>3. Written = Step(Written)
    <2>1. Written = CHOOSE w : w = Step(w) BY DEF Written, WrittenBy
    <2> HIDE DEF Step
    <2>2. QED BY <1>2, <2>1
<1>4. QED BY <1>3

LEMMA SizeUnfolds == \A t \in Messages : Size[t] = SizeBy(Size, t)
<1> DEFINE Step(w) == [t \in Messages |-> SizeBy(w, t)]
           W0 == [t \in Messages |-> <<>>]
           W1 == Step(W0)
           W2 == Step(W1)
           W3 == Step(W2)
           W4 == Step(W3)
           W5 == Step(W4)
<1>1. ASSUME NEW g, NEW h, NEW r \in Nat, AgreeBelow(g, h, r)
      PROVE  AgreeBelow(Step(g), Step(h), r + 1)
    <2>1. SUFFICES ASSUME NEW t \in Messages, Rank(t) < r + 1 PROVE Step(g)[t] = Step(h)[t]
        BY DEF AgreeBelow
    <2>2. AgreeBelow(g, h, Rank(t)) BY <1>1, <2>1, RankType DEF AgreeBelow
    <2>3. SizeBy(g, t) = SizeBy(h, t) BY <2>2, SizeByAgrees
    <2>4. QED BY <2>3
<1>2. \E w : w = Step(w)
    <2>1. AgreeBelow(W0, W1, 1) BY RankType DEF AgreeBelow
    <2> HIDE DEF W0, Step
    <2>2. AgreeBelow(W1, W2, 1 + 1) BY <1>1, <2>1
    <2> HIDE DEF W1
    <2>3. AgreeBelow(W2, W3, 1 + 1 + 1) BY <1>1, <2>2
    <2> HIDE DEF W2
    <2>4. AgreeBelow(W3, W4, 1 + 1 + 1 + 1) BY <1>1, <2>3
    <2> HIDE DEF W3
    <2>5. AgreeBelow(W4, W5, 1 + 1 + 1 + 1 + 1) BY <1>1, <2>4
    <2>6. \A t \in Messages : W4[t] = W5[t] BY <2>5, RankType DEF AgreeBelow
    <2>7. W4 = [t \in Messages |-> W4[t]] BY DEF W4, Step
    <2>8. W5 = [t \in Messages |-> W5[t]] BY DEF Step
    <2>9. W4 = W5 BY <2>6, <2>7, <2>8
    <2>10. QED BY <2>9
<1>3. Size = Step(Size)
    <2>1. Size = CHOOSE w : w = Step(w) BY DEF Size, SizeBy
    <2> HIDE DEF Step
    <2>2. QED BY <1>2, <2>1
<1>4. QED BY <1>3

-----------------------------------------------------------------------------
(* What is written is as long as Size says.                                *)

\* Induction over the nesting of messages.
LEMMA RankInduction ==
    ASSUME NEW T,
           \A t \in Messages : (\A u \in Messages : Rank(u) < Rank(t) => u \in T) => t \in T
    PROVE  \A t \in Messages : t \in T
<1> DEFINE Below(r) == \A t \in Messages : Rank(t) < r => t \in T
<1>1. ASSUME NEW r \in Nat, Below(r) PROVE Below(r + 1)
    <2>1. SUFFICES ASSUME NEW t \in Messages, Rank(t) < r + 1 PROVE t \in T OBVIOUS
    <2>2. Rank(t) <= r BY <2>1, RankType
    <2>3. ASSUME NEW u \in Messages, Rank(u) < Rank(t) PROVE u \in T
        BY <1>1, <2>2, <2>3, RankType
    <2>4. QED BY <2>3
<1>2. Below(1) BY RankType
<1> HIDE DEF Below
<1>3. Below(1 + 1) BY <1>1, <1>2
<1>4. Below(1 + 1 + 1) BY <1>1, <1>3
<1>5. Below(1 + 1 + 1 + 1) BY <1>1, <1>4
<1>6. Below(1 + 1 + 1 + 1 + 1) BY <1>1, <1>5
<1>7. QED BY <1>6, RankType DEF Below

\* What an external message may be is part of what it might be.
LEMMA ValuesGrow ==
    ASSUME NEW E, NEW F, E \subseteq F
    PROVE  \A t \in Messages : ValuesWith(E)[t] \subseteq ValuesWith(F)[t]
<1> DEFINE T == {t \in Messages : ValuesWith(E)[t] \subseteq ValuesWith(F)[t]}
<1>1. ASSUME NEW t \in Messages, \A u \in Messages : Rank(u) < Rank(t) => u \in T PROVE t \in T
    <2>1. ASSUME NEW f \in DOMAIN Fields[t]
          PROVE  FieldValues(ValuesWith(E), E, Fields[t][f])
                    \subseteq FieldValues(ValuesWith(F), F, Fields[t][f])
        <3> DEFINE k == Fields[t][f]
        <3>1. k.kind \in Kinds BY FieldsRanked DEF Ranked
        <3>2. k.kind \in MessageKinds => ValuesWith(E)[k.type] \subseteq ValuesWith(F)[k.type]
            BY <1>1, SubRank
        <3>2a. SUFFICES FieldValues(ValuesWith(E), E, k) \subseteq FieldValues(ValuesWith(F), F, k) OBVIOUS
        <3> HIDE DEF k
        <3>3. CASE k.kind \in {"meta", "time"}
            <4>1. FieldValues(ValuesWith(E), E, k) = E /\ FieldValues(ValuesWith(F), F, k) = F
                BY <3>3 DEF FieldValues
            <4>2. QED BY <4>1
        <3>4. CASE k.kind = "struct" BY <3>2, <3>4 DEF FieldValues, MessageKinds
        <3>5. CASE k.kind = "pointer" BY <3>2, <3>5 DEF FieldValues, MessageKinds, OrNil
        <3>6. CASE k.kind = "list"
            <4> DEFINE A == ValuesWith(E)[k.type]
                       B == ValuesWith(F)[k.type]
            <4>1. A \subseteq B BY <3>2, <3>6 DEF MessageKinds
            <4>2. FieldValues(ValuesWith(E), E, k) = Seq(A) /\ FieldValues(ValuesWith(F), F, k) = Seq(B)
                BY <3>6 DEF FieldValues
            <4> HIDE DEF A, B
            <4>3. Seq(A) \subseteq Seq(B) BY <4>1
            <4>4. QED BY <4>2, <4>3
        <3>7. CASE k.kind = "text" BY <3>7 DEF FieldValues
        <3>8. CASE k.kind = "bool" BY <3>8 DEF FieldValues
        <3>9. CASE k.kind = "int32" BY <3>9 DEF FieldValues
        <3>10. CASE k.kind = "optInt32" BY <3>10 DEF FieldValues
        <3>11. CASE k.kind = "bytes" BY <3>11 DEF FieldValues
        <3>12. CASE k.kind = "gap" BY <3>12 DEF FieldValues
        <3>13. QED
            BY <3>1, <3>3, <3>4, <3>5, <3>6, <3>7, <3>8, <3>9, <3>10, <3>11, <3>12 DEF Kinds
    <2>2. /\ Typed(Fields[t], ValuesWith(E)[t], ValuesWith(E), E)
          /\ Typed(Fields[t], ValuesWith(F)[t], ValuesWith(F), F)
        BY ValuesTyped
    <2>3. QED BY <2>1, <2>2 DEF Typed
<1> HIDE DEF T
<1>2. \A t \in Messages : t \in T BY <1>1, RankInduction
<1>3. QED BY <1>2 DEF T

\* The words an int32 is written as.
LEMMA Uint64Type == \A x \in Int32Values : Uint64(x) \in Nat
<1>1. Word32 <= Word BY WordAssumption, WidthAssumption
<1>2. SUFFICES ASSUME NEW x \in Int32Values PROVE Uint64(x) \in Nat OBVIOUS
<1>3. x \in Int /\ x >= -(Word32 \div 2) BY <1>2, WordAssumption DEF Int32Values
<1>4. QED BY <1>1, <1>3, WordAssumption DEF Uint64

Exact(t) ==
    \A v \in Values[t] :
        /\ Written[t][v] \in Texts
        /\ Size[t][v] \in Nat
        /\ Len(Written[t][v]) = Size[t][v]

\* A piece takes what SizeOf adds for it.
LEMMA ChunkExact ==
    ASSUME NEW t \in Messages, \A u \in Messages : Rank(u) < Rank(t) => Exact(u),
           NEW p \in PieceSet(t, Texts)
    PROVE  /\ Chunk(Written, t, p) \in Texts
           /\ SizeOf(Size, KindOf(t, p.tag), p.item) \in Nat
           /\ Len(Chunk(Written, t, p)) = SizeOf(Size, KindOf(t, p.tag), p.item)
<1> DEFINE k == KindOf(t, p.tag)
           x == p.item
           tag == p.tag
           content == Content(Written, k, x)
<1>1. k.kind \in Kinds \ {"gap"} /\ tag \in 0..127 BY PieceKind
<1>2. x \in ItemValues(Values, Texts, k) BY PieceKind DEF Values
<1>3. k.kind \in MessageKinds => Exact(k.type)
    <2>1. k.kind \in MessageKinds => k.type \in Messages /\ Rank(k.type) < Rank(t)
        BY PieceKind, SubRank DEF KindOf
    <2>2. QED BY <2>1
<1>4. Chunk(Written, t, p) = <<tag>> \o Payload(Written, k, x) BY DEF Chunk
<1> HIDE DEF k, x, tag
<1>5. ASSUME NEW c \in Texts, NEW n \in Nat, content = c, ~IsVarint(k), Len(c) = n,
             SizeOf(Size, k, x) = Prefixed[n]
      PROVE  /\ Payload(Written, k, x) \in Texts /\ SizeOf(Size, k, x) \in Nat
             /\ 1 + Len(Payload(Written, k, x)) = SizeOf(Size, k, x)
    <2> DEFINE e == encodeVarint[n]
    <2>1. Payload(Written, k, x) = e \o c BY <1>5 DEF Payload
    <2>2. e \in Texts BY EncodeVarintUnfolds
    <2>3. Len(e) = sovGenerated(n) /\ sovGenerated(n) \in Nat BY VarintLength
    <2>4. Prefixed[n] = 1 + n + sovGenerated(n) BY DEF Prefixed
    <2> HIDE DEF e
    <2>5. e \o c \in Texts /\ Len(e \o c) = Len(e) + Len(c) BY <2>2 DEF Texts
    <2>6. QED BY <1>5, <2>1, <2>3, <2>4, <2>5
<1>6. /\ Payload(Written, k, x) \in Texts /\ SizeOf(Size, k, x) \in Nat
      /\ 1 + Len(Payload(Written, k, x)) = SizeOf(Size, k, x)
    <2>1. CASE k.kind = "bool"
        <3>1. Payload(Written, k, x) = <<IF x THEN 1 ELSE 0>>
            BY <2>1 DEF Payload, IsVarint, Content
        <3>2. SizeOf(Size, k, x) = 2 BY <2>1 DEF SizeOf
        <3>3. (IF x THEN 1 ELSE 0) \in 0..255 OBVIOUS
        <3>4. QED BY <3>1, <3>2, <3>3 DEF Texts
    <2>2. CASE k.kind \in {"int32", "optInt32"}
        <3>1. Payload(Written, k, x) = encodeVarint[Uint64(x)]
            BY <2>2 DEF Payload, IsVarint, Content
        <3>2. SizeOf(Size, k, x) = 1 + sovGenerated(Uint64(x)) BY <2>2 DEF SizeOf
        <3>3. x \in Int32Values BY <1>2, <2>2 DEF ItemValues
        <3>4. Uint64(x) \in Nat BY <3>3, Uint64Type
        <3>5. encodeVarint[Uint64(x)] \in Texts BY <3>4, EncodeVarintUnfolds
        <3>6. Len(encodeVarint[Uint64(x)]) = sovGenerated(Uint64(x)) /\ sovGenerated(Uint64(x)) \in Nat
            BY <3>4, VarintLength
        <3>7. QED BY <3>1, <3>2, <3>5, <3>6
    <2>3. CASE k.kind \in MessageKinds
        <3>1. x \in Values[k.type] BY <1>2, <2>3 DEF ItemValues, MessageKinds
        <3>2. content = Written[k.type][x] BY <2>3 DEF Content, MessageKinds
        <3>3. SizeOf(Size, k, x) = Prefixed[Size[k.type][x]] BY <2>3 DEF SizeOf, MessageKinds
        <3>4. ~IsVarint(k) BY <2>3 DEF IsVarint, MessageKinds
        <3>5. /\ Written[k.type][x] \in Texts /\ Size[k.type][x] \in Nat
              /\ Len(Written[k.type][x]) = Size[k.type][x]
            BY <1>3, <2>3, <3>1 DEF Exact
        <3> HIDE DEF content
        <3>6. QED BY <1>5, <3>2, <3>3, <3>4, <3>5
    <2>4. CASE k.kind \in {"text", "bytes", "meta", "time"}
        <3>1. x \in Texts BY <1>2, <2>4 DEF ItemValues
        <3>2. content = x BY <2>4 DEF Content
        <3>3. SizeOf(Size, k, x) = Prefixed[Len(x)] BY <2>4 DEF SizeOf
        <3>4. ~IsVarint(k) BY <2>4 DEF IsVarint
        <3>5. Len(x) \in Nat BY <3>1 DEF Texts
        <3> HIDE DEF content
        <3>6. QED BY <1>5, <3>1, <3>2, <3>3, <3>4, <3>5
    <2>5. QED BY <1>1, <2>1, <2>2, <2>3, <2>4 DEF Kinds, MessageKinds
<1> DEFINE load == Payload(Written, k, x)
<1>7. <<tag>> \o load \in Texts /\ Len(<<tag>> \o load) = 1 + Len(load)
    <2>1. load \in Seq(0..255) /\ tag \in 0..255 BY <1>1, <1>6 DEF Texts
    <2> HIDE DEF load
    <2>2. <<tag>> \in Seq(0..255) /\ Len(<<tag>>) = 1 BY <2>1
    <2>3. QED BY <2>1, <2>2 DEF Texts
<1>8. QED BY <1>4, <1>6, <1>7 DEF k, x, tag

\* A field that adds nothing.
LEMMA TotalGap ==
    ASSUME NEW a \in Seq(Nat), NEW b \in Seq(Nat), Len(a) = 7, Len(b) = 8,
           \A j \in 1..5 : a[j] = b[j], b[6] = 0, \A j \in 6..7 : a[j] = b[j + 1]
    PROVE  Total[a] = Total[b]
<1>1. PICK g \in [0..Len(a) -> Nat] :
        g[0] = 0 /\ (\A i \in 1..Len(a) : g[i] = g[i - 1] + a[i]) /\ Total[a] = g[Len(a)]
    BY TotalRuns
<1>2. PICK h \in [0..Len(b) -> Nat] :
        h[0] = 0 /\ (\A i \in 1..Len(b) : h[i] = h[i - 1] + b[i]) /\ Total[b] = h[Len(b)]
    BY TotalRuns
<1>3. /\ g[1] = g[0] + a[1] /\ g[2] = g[1] + a[2] /\ g[3] = g[2] + a[3] /\ g[4] = g[3] + a[4]
      /\ g[5] = g[4] + a[5] /\ g[6] = g[5] + a[6] /\ g[7] = g[6] + a[7]
    BY <1>1
<1>4. /\ h[1] = h[0] + b[1] /\ h[2] = h[1] + b[2] /\ h[3] = h[2] + b[3] /\ h[4] = h[3] + b[4]
      /\ h[5] = h[4] + b[5] /\ h[6] = h[5] + b[6] /\ h[7] = h[6] + b[7] /\ h[8] = h[7] + b[8]
    BY <1>2
<1>5. a[1] = b[1] /\ a[2] = b[2] /\ a[3] = b[3] /\ a[4] = b[4] /\ a[5] = b[5] /\ a[6] = b[7] /\ a[7] = b[8]
    OBVIOUS
<1>6. g[5] = h[5]
    <2>1. g[1] = h[1] BY <1>1, <1>2, <1>3, <1>4, <1>5
    <2>2. g[2] = h[2] BY <1>3, <1>4, <1>5, <2>1
    <2>3. g[3] = h[3] BY <1>3, <1>4, <1>5, <2>2
    <2>4. g[4] = h[4] BY <1>3, <1>4, <1>5, <2>3
    <2>5. QED BY <1>3, <1>4, <1>5, <2>4
<1>7. h[5] \in Nat BY <1>2
<1>8. g[6] = h[7] BY <1>3, <1>4, <1>5, <1>6, <1>7
<1>9. QED BY <1>1, <1>2, <1>3, <1>4, <1>5, <1>8

\* What one field adds to n.
FieldSize(t, v, f) ==
    LET k == Fields[t][f]
        items == Items(k.kind, v[f])
    IN Total[[i \in DOMAIN items |-> SizeOf(Size, k, items[i])]]

LEMMA SizeIsTotal ==
    ASSUME NEW t \in Messages, NEW v \in Values[t]
    PROVE  Size[t][v] = Total[[f \in DOMAIN Fields[t] |-> FieldSize(t, v, f)]]
<1>1. Size[t] = SizeBy(Size, t) BY SizeUnfolds
<1>2. QED BY <1>1 DEF SizeBy, FieldSize

Chunks(t, v) == LET p == Pieces(t, v) IN [c \in DOMAIN p |-> Chunk(Written, t, p[c])]

LEMMA WrittenIsFlat ==
    ASSUME NEW t \in Messages, NEW v \in Values[t]
    PROVE  Written[t][v] = FlattenSeq(Chunks(t, v))
<1>1. Written[t] = WrittenBy(Written, t) BY WrittenUnfolds
<1>2. QED BY <1>1 DEF WrittenBy, Chunks

LEMMA ExactStep ==
    ASSUME NEW t \in Messages, \A u \in Messages : Rank(u) < Rank(t) => Exact(u)
    PROVE  Exact(t)
<1> SUFFICES ASSUME NEW v \in Values[t]
             PROVE  /\ Written[t][v] \in Texts
                    /\ Size[t][v] \in Nat
                    /\ Len(Written[t][v]) = Size[t][v]
    BY DEF Exact
<1> DEFINE PS == PieceSet(t, Texts)
           P == 0..255
           ch == [p \in PS |-> Chunk(Written, t, p)]
           g == [p \in PS |-> Len(Chunk(Written, t, p))]
           h == [s \in Seq(PS) |-> Total[Each(g, s)]]
           pieces == Pieces(t, v)
           ff == [j \in DOMAIN Tags[t] |-> FieldPieces(t, v, j)]
           a == [j \in DOMAIN Tags[t] |-> FieldSize(t, v, FieldOf(Tags[t][j]))]
           b == [f \in DOMAIN Fields[t] |-> FieldSize(t, v, f)]
<1>1. \A p \in PS : /\ ch[p] \in Seq(P)
                    /\ g[p] \in Nat
                    /\ g[p] = Len(ch[p])
                    /\ g[p] = SizeOf(Size, KindOf(t, p.tag), p.item)
    BY ChunkExact DEF Texts
<1>2. /\ ff \in Seq(Seq(PS)) /\ pieces = FlattenSeq(ff) /\ pieces \in Seq(PS)
      /\ \A j \in DOMAIN Tags[t] : FieldPieces(t, v, j) \in Seq(PS)
    BY PiecesType, FieldPiecesType DEF Values
<1>3. Written[t][v] = FlattenSeq(Each(ch, pieces))
    <2>1. Chunks(t, v) = [c \in DOMAIN pieces |-> Chunk(Written, t, pieces[c])] BY DEF Chunks
    <2> HIDE DEF pieces, PS
    <2>2. \A c \in DOMAIN pieces : pieces[c] \in PS BY <1>2
    <2>3. Chunks(t, v) = Each(ch, pieces) BY <2>1, <2>2 DEF Each
    <2>4. QED BY <2>3, WrittenIsFlat
<1>4. g \in [PS -> Nat] BY <1>1
<1>5. /\ DOMAIN Tags[t] = 1..Len(Tags[t]) /\ Len(Tags[t]) \in Nat
      /\ DOMAIN Fields[t] = 1..Len(Fields[t]) /\ Len(Fields[t]) \in Nat
    BY TagsMatch, FieldsRanked DEF Tagged, Ranked
<1>6. ASSUME NEW j \in DOMAIN Tags[t]
      PROVE  Total[Each(g, FieldPieces(t, v, j))] = FieldSize(t, v, FieldOf(Tags[t][j]))
    <2> DEFINE tag == Tags[t][j]
               k == KindOf(t, tag)
               items == Items(k.kind, v[FieldOf(tag)])
               fp == FieldPieces(t, v, j)
    <2>1. fp = [i \in DOMAIN items |-> [tag |-> tag, item |-> items[i]]] BY DEF FieldPieces
    <2>2. fp \in Seq(PS) BY <1>2
    <2>3. FieldSize(t, v, FieldOf(tag)) = Total[[i \in DOMAIN items |-> SizeOf(Size, k, items[i])]]
        BY DEF FieldSize, KindOf
    <2> HIDE DEF items, fp, PS, g
    <2>4. DOMAIN fp = DOMAIN items BY <2>1
    <2>5. ASSUME NEW i \in DOMAIN items PROVE g[fp[i]] = SizeOf(Size, k, items[i])
        <3>1. fp[i] \in PS BY <2>2, <2>4
        <3>2. fp[i] = [tag |-> tag, item |-> items[i]] BY <2>1
        <3>3. fp[i].tag = tag /\ fp[i].item = items[i] BY <3>2
        <3>4. g[fp[i]] = SizeOf(Size, KindOf(t, fp[i].tag), fp[i].item) BY <1>1, <3>1
        <3>5. QED BY <3>3, <3>4
    <2>6. Each(g, fp) = [i \in DOMAIN items |-> SizeOf(Size, k, items[i])] BY <2>4, <2>5 DEF Each
    <2>7. QED BY <2>3, <2>6 DEF fp
<1>7. \A j \in DOMAIN Tags[t] : Each(g, FieldPieces(t, v, j)) \in Seq(Nat)
    <2> HIDE DEF g, PS
    <2>1. QED BY <1>2, <1>4, EachType
<1>8. Each(h, ff) = a
    <2>1. DOMAIN ff = DOMAIN Tags[t] OBVIOUS
    <2>2. ASSUME NEW j \in DOMAIN Tags[t] PROVE h[ff[j]] = a[j]
        <3>1. ff[j] = FieldPieces(t, v, j) /\ FieldPieces(t, v, j) \in Seq(PS) BY <1>2
        <3>2. h[ff[j]] = Total[Each(g, FieldPieces(t, v, j))] BY <3>1
        <3>3. a[j] = FieldSize(t, v, FieldOf(Tags[t][j])) OBVIOUS
        <3>4. QED BY <1>6, <3>2, <3>3
    <2>3. DOMAIN a = DOMAIN Tags[t] /\ a = [j \in DOMAIN Tags[t] |-> a[j]] OBVIOUS
    <2> HIDE DEF h, ff, a
    <2>4. QED BY <2>1, <2>2, <2>3 DEF Each
<1>9. \A p \in Seq(P) : Len(p) \in Nat OBVIOUS
<1>10. Written[t][v] \in Seq(P) /\ Len(Written[t][v]) = Total[a]
    <2> DEFINE ln == [s \in Seq(P) |-> Len(s)]
               cs == Each(ch, pieces)
    <2>1. cs \in Seq(Seq(P))
        <3> HIDE DEF ch, pieces, P, PS
        <3>1. QED BY <1>1, <1>2, EachType
    <2>2. FlattenSeq(cs) \in Seq(P) /\ Len(FlattenSeq(cs)) = Total[Each(ln, cs)]
        <3> HIDE DEF cs, P
        <3>1. QED BY <2>1, FlattenType, LenFlatten
    <2>3. Each(ln, cs) = Each(g, pieces)
        <3>1. \A q \in Seq(P) : ln[q] = Len(q) OBVIOUS
        <3> HIDE DEF ln, pieces, g, ch, PS, P
        <3>2. \A c \in DOMAIN pieces : pieces[c] \in PS BY <1>2
        <3>3. \A c \in DOMAIN pieces : ln[ch[pieces[c]]] = g[pieces[c]] BY <1>1, <3>1, <3>2
        <3>4. QED BY <3>3 DEF Each
    <2>4. Total[Each(g, FlattenSeq(ff))] = Total[Each(h, ff)]
        <3> HIDE DEF g, PS, ff
        <3>1. QED BY <1>2, <1>4, TotalFlatten
    <2> HIDE DEF cs, ff, pieces, h, a, g, P
    <2>5. QED BY <1>2, <1>3, <1>8, <2>2, <2>3, <2>4 DEF cs
<1>11. a \in Seq(Nat)
    <2>1. \A j \in DOMAIN Tags[t] : FieldSize(t, v, FieldOf(Tags[t][j])) \in Nat
        BY <1>6, <1>7, TotalType
    <2>2. a \in [1..Len(Tags[t]) -> Nat] BY <1>5, <2>1
    <2> HIDE DEF a
    <2>3. QED BY <1>5, <2>2, IsASeq
<1>12. ASSUME NEW f \in DOMAIN Fields[t], Fields[t][f].kind = "gap" PROVE FieldSize(t, v, f) = 0
    <2>1. v[f] = Nil
        <3>1. v[f] \in FieldValues(Values, Texts, Fields[t][f]) BY ValuesTyped DEF Typed, Values
        <3>2. FieldValues(Values, Texts, Fields[t][f]) = {Nil} BY <1>12 DEF FieldValues
        <3>3. QED BY <3>1, <3>2
    <2>2. Items(Fields[t][f].kind, v[f]) = <<>> BY <1>12, <2>1 DEF Items, Present
    <2>3. FieldSize(t, v, f) = Total[<<>>] BY <2>2 DEF FieldSize
    <2>4. QED BY <2>3, TotalEmpty
<1>13. b \in Seq(Nat) /\ Total[a] = Total[b]
    <2>1. CASE Len(Tags[t]) = Len(Fields[t]) /\ \A j \in DOMAIN Tags[t] : FieldOf(Tags[t][j]) = j
        <3>1. a = b BY <1>5, <2>1
        <3> HIDE DEF a, b
        <3>2. QED BY <1>11, <3>1
    <2>2. CASE /\ Len(Tags[t]) = 7 /\ Len(Fields[t]) = 8 /\ Fields[t][6].kind = "gap"
               /\ \A j \in 1..5 : FieldOf(Tags[t][j]) = j
               /\ \A j \in 6..7 : FieldOf(Tags[t][j]) = j + 1
        <3>1. DOMAIN Tags[t] = 1..7 /\ DOMAIN Fields[t] = 1..8 BY <1>5, <2>2
        <3>2. /\ \A j \in 1..7 : a[j] = FieldSize(t, v, FieldOf(Tags[t][j]))
              /\ \A f \in 1..8 : b[f] = FieldSize(t, v, f)
            BY <3>1
        <3>3. \A j \in 1..7 : a[j] \in Nat
            <4>1. a \in [1..7 -> Nat]
                <5>1. Len(a) = 7 /\ DOMAIN a = 1..7 BY <3>1
                <5> HIDE DEF a
                <5>2. a \in [1..Len(a) -> Nat] BY <1>11, LenProperties
                <5>3. QED BY <5>1, <5>2
            <4> HIDE DEF a
            <4>2. QED BY <4>1
        <3>4. /\ b[1] = a[1] /\ b[2] = a[2] /\ b[3] = a[3] /\ b[4] = a[4] /\ b[5] = a[5]
              /\ b[7] = a[6] /\ b[8] = a[7]
            <4> HIDE DEF a, b
            <4>1. QED BY <2>2, <3>2
        <3>5. b[6] = 0 BY <1>12, <2>2, <3>1
        <3>6. b = [f \in 1..8 |-> b[f]] BY <3>1
        <3>7. Len(a) = 7 BY <3>1
        <3> HIDE DEF a, b
        <3>8. \A f \in 1..8 : b[f] \in Nat BY <3>3, <3>4, <3>5
        <3>9. b \in [1..8 -> Nat] BY <3>6, <3>8
        <3>10. b \in Seq(Nat) /\ Len(b) = 8
            <4> DEFINE n == 8
            <4>1. n \in Nat /\ b \in [1..n -> Nat] BY <3>9
            <4> HIDE DEF n
            <4>2. b \in Seq(Nat) /\ Len(b) = n BY <4>1
            <4>3. QED BY <4>2 DEF n
        <3>11. (\A j \in 1..5 : a[j] = b[j]) /\ (\A j \in 6..7 : a[j] = b[j + 1]) BY <3>4
        <3>12. QED BY <1>11, <3>5, <3>7, <3>10, <3>11, TotalGap
    <2>3. QED BY <2>1, <2>2, TagsMatch DEF Tagged
<1>14. Size[t][v] = Total[b] BY SizeIsTotal
<1>15. Total[b] \in Nat
    <2> HIDE DEF b
    <2>1. QED BY <1>13, TotalType
<1>16. QED BY <1>10, <1>13, <1>14, <1>15 DEF Texts

\* Size counts every byte of every message.
THEOREM SizeIsLength == \A t \in Messages : Exact(t)
<1> DEFINE T == {t \in Messages : Exact(t)}
<1>1. ASSUME NEW t \in Messages, \A u \in Messages : Rank(u) < Rank(t) => u \in T PROVE t \in T
    <2>1. \A u \in Messages : Rank(u) < Rank(t) => Exact(u) BY <1>1
    <2>2. QED BY <2>1, ExactStep
<1> HIDE DEF T
<1>2. \A t \in Messages : t \in T BY <1>1, RankInduction
<1>3. QED BY <1>2 DEF T

LEMMA PartsTyped ==
    ASSUME NEW x \in Inputs, FromMarshal(x)
    PROVE  x.type \in Messages /\ x.parts \in Seq(Values[x.type]) /\ x.parts # <<>>
<1>1. x.type \in Messages BY InputsAssumption
<1>2. ValuesWith(Externals)[x.type] \subseteq Values[x.type]
    BY <1>1, ValuesGrow, WidthAssumption DEF Values
<1>3. x.parts \in Seq(ValuesWith(Externals)[x.type]) /\ x.parts # <<>> BY JoinedAssumption
<1> DEFINE A == ValuesWith(Externals)[x.type]
           B == Values[x.type]
<1>4. A \subseteq B /\ x.parts \in Seq(A) BY <1>2, <1>3
<1> HIDE DEF A, B
<1>5. x.parts \in Seq(B) BY <1>4
<1>6. QED BY <1>1, <1>3, <1>5 DEF B

\* The room MarshalToSizedBuffer is given is filled to the last byte, for every message
\* and whatever its external parts are: Size and the writer count alike.
THEOREM SizeExactAlways == Spec => []SizeExact
<1> DEFINE Given == input \in Inputs
<1>1. Given => SizeExact
    <2>1. SUFFICES ASSUME input \in Inputs, FromMarshal(input), NEW i \in DOMAIN input.parts
                   PROVE  Size[input.type][input.parts[i]] = Len(Written[input.type][input.parts[i]])
        BY DEF SizeExact
    <2>2. input.type \in Messages /\ input.parts \in Seq(Values[input.type]) BY <2>1, PartsTyped
    <2>3. input.parts[i] \in Values[input.type] BY <2>2
    <2>4. QED BY <2>2, <2>3, SizeIsLength DEF Exact
<1>2. Init => Given BY DEF Init
<1>3. Given /\ [Next]_vars => Given'
    BY DEF Next, vars, Turn, BeginField, Field, UnknownField, TakeValue, TakeBytes, Descend, Ascend,
           Finish, SkipLoop, SkipValue, SkipFixed, SkipLength, SkipGroup, SkipOn, SkipReturns, Advance,
           Fail, Rest
<1>4. QED BY <1>1, <1>2, <1>3, PTL DEF Spec

-----------------------------------------------------------------------------
(* Zero and Merged are defined by recursion to the messages in a message.  *)

ZeroBy(z, t) == [f \in DOMAIN Fields[t] |-> ZeroField(z, Fields[t][f])]

MergedBy(g, t) ==
    [v \in Values[t] |-> [w \in Values[t] |->
        [f \in DOMAIN Fields[t] |-> MergedField(g, Fields[t][f], v[f], w[f])]]]

LEMMA ZeroByAgrees ==
    ASSUME NEW t \in Messages, NEW g, NEW h, AgreeBelow(g, h, Rank(t))
    PROVE  ZeroBy(g, t) = ZeroBy(h, t)
<1>1. \A f \in DOMAIN Fields[t] : Fields[t][f].kind = "struct" => g[Fields[t][f].type] = h[Fields[t][f].type]
    <2>1. SUFFICES ASSUME NEW f \in DOMAIN Fields[t], Fields[t][f].kind = "struct"
                   PROVE  g[Fields[t][f].type] = h[Fields[t][f].type]
        OBVIOUS
    <2>2. Fields[t][f].type \in Messages /\ Rank(Fields[t][f].type) < Rank(t)
        BY <2>1, SubRank DEF MessageKinds
    <2>3. QED BY <2>2 DEF AgreeBelow
<1>2. QED BY <1>1 DEF ZeroBy, ZeroField

LEMMA MergedByAgrees ==
    ASSUME NEW t \in Messages, NEW g, NEW h, AgreeBelow(g, h, Rank(t))
    PROVE  MergedBy(g, t) = MergedBy(h, t)
<1>1. ASSUME NEW f \in DOMAIN Fields[t], NEW x, NEW y
      PROVE  MergedField(g, Fields[t][f], x, y) = MergedField(h, Fields[t][f], x, y)
    <2> DEFINE k == Fields[t][f]
    <2>1. k.kind \in MessageKinds => k.type \in Messages /\ Rank(k.type) < Rank(t) BY SubRank
    <2>2. k.kind \in MessageKinds => g[k.type] = h[k.type] BY <2>1 DEF AgreeBelow
    <2>3. SUFFICES MergedField(g, k, x, y) = MergedField(h, k, x, y) OBVIOUS
    <2> HIDE DEF k
    <2>4. CASE k.kind \in MessageKinds BY <2>2, <2>4 DEF MergedField, MessageKinds
    <2>5. CASE k.kind \notin MessageKinds BY <2>5 DEF MergedField, MessageKinds
    <2>6. QED BY <2>4, <2>5
<1>2. ASSUME NEW v \in Values[t], NEW w \in Values[t]
      PROVE  [f \in DOMAIN Fields[t] |-> MergedField(g, Fields[t][f], v[f], w[f])]
                = [f \in DOMAIN Fields[t] |-> MergedField(h, Fields[t][f], v[f], w[f])]
    BY <1>1
<1>3. QED BY <1>2 DEF MergedBy

LEMMA ZeroUnfolds == \A t \in Messages : Zero[t] = ZeroBy(Zero, t)
<1> DEFINE Step(w) == [t \in Messages |-> ZeroBy(w, t)]
           W0 == [t \in Messages |-> <<>>]
           W1 == Step(W0)
           W2 == Step(W1)
           W3 == Step(W2)
           W4 == Step(W3)
           W5 == Step(W4)
<1>1. ASSUME NEW g, NEW h, NEW r \in Nat, AgreeBelow(g, h, r)
      PROVE  AgreeBelow(Step(g), Step(h), r + 1)
    <2>1. SUFFICES ASSUME NEW t \in Messages, Rank(t) < r + 1 PROVE Step(g)[t] = Step(h)[t]
        BY DEF AgreeBelow
    <2>2. AgreeBelow(g, h, Rank(t)) BY <1>1, <2>1, RankType DEF AgreeBelow
    <2>3. ZeroBy(g, t) = ZeroBy(h, t) BY <2>2, ZeroByAgrees
    <2>4. QED BY <2>3
<1>2. \E w : w = Step(w)
    <2>1. AgreeBelow(W0, W1, 1) BY RankType DEF AgreeBelow
    <2> HIDE DEF W0, Step
    <2>2. AgreeBelow(W1, W2, 1 + 1) BY <1>1, <2>1
    <2> HIDE DEF W1
    <2>3. AgreeBelow(W2, W3, 1 + 1 + 1) BY <1>1, <2>2
    <2> HIDE DEF W2
    <2>4. AgreeBelow(W3, W4, 1 + 1 + 1 + 1) BY <1>1, <2>3
    <2> HIDE DEF W3
    <2>5. AgreeBelow(W4, W5, 1 + 1 + 1 + 1 + 1) BY <1>1, <2>4
    <2>6. \A t \in Messages : W4[t] = W5[t] BY <2>5, RankType DEF AgreeBelow
    <2>7. W4 = [t \in Messages |-> W4[t]] BY DEF W4, Step
    <2>8. W5 = [t \in Messages |-> W5[t]] BY DEF Step
    <2>9. W4 = W5 BY <2>6, <2>7, <2>8
    <2>10. QED BY <2>9
<1>3. Zero = Step(Zero)
    <2>1. Zero = CHOOSE w : w = Step(w) BY DEF Zero, ZeroBy
    <2> HIDE DEF Step
    <2>2. QED BY <1>2, <2>1
<1>4. QED BY <1>3

LEMMA MergedUnfolds == \A t \in Messages : Merged[t] = MergedBy(Merged, t)
<1> DEFINE Step(w) == [t \in Messages |-> MergedBy(w, t)]
           W0 == [t \in Messages |-> <<>>]
           W1 == Step(W0)
           W2 == Step(W1)
           W3 == Step(W2)
           W4 == Step(W3)
           W5 == Step(W4)
<1>1. ASSUME NEW g, NEW h, NEW r \in Nat, AgreeBelow(g, h, r)
      PROVE  AgreeBelow(Step(g), Step(h), r + 1)
    <2>1. SUFFICES ASSUME NEW t \in Messages, Rank(t) < r + 1 PROVE Step(g)[t] = Step(h)[t]
        BY DEF AgreeBelow
    <2>2. AgreeBelow(g, h, Rank(t)) BY <1>1, <2>1, RankType DEF AgreeBelow
    <2>3. MergedBy(g, t) = MergedBy(h, t) BY <2>2, MergedByAgrees
    <2>4. QED BY <2>3
<1>2. \E w : w = Step(w)
    <2>1. AgreeBelow(W0, W1, 1) BY RankType DEF AgreeBelow
    <2> HIDE DEF W0, Step
    <2>2. AgreeBelow(W1, W2, 1 + 1) BY <1>1, <2>1
    <2> HIDE DEF W1
    <2>3. AgreeBelow(W2, W3, 1 + 1 + 1) BY <1>1, <2>2
    <2> HIDE DEF W2
    <2>4. AgreeBelow(W3, W4, 1 + 1 + 1 + 1) BY <1>1, <2>3
    <2> HIDE DEF W3
    <2>5. AgreeBelow(W4, W5, 1 + 1 + 1 + 1 + 1) BY <1>1, <2>4
    <2>6. \A t \in Messages : W4[t] = W5[t] BY <2>5, RankType DEF AgreeBelow
    <2>7. W4 = [t \in Messages |-> W4[t]] BY DEF W4, Step
    <2>8. W5 = [t \in Messages |-> W5[t]] BY DEF Step
    <2>9. W4 = W5 BY <2>6, <2>7, <2>8
    <2>10. QED BY <2>9
<1>3. Merged = Step(Merged)
    <2>1. Merged = CHOOSE w : w = Step(w) BY DEF Merged, MergedBy
    <2> HIDE DEF Step
    <2>2. QED BY <1>2, <2>1
<1>4. QED BY <1>3

\* The values a field k may have, in a message.
FieldSet(k) == FieldValues(Values, Texts, k)

LEMMA ValueFields ==
    ASSUME NEW t \in Messages, NEW v
    PROVE  v \in Values[t] <=> /\ v = [f \in DOMAIN Fields[t] |-> v[f]]
                               /\ \A f \in DOMAIN Fields[t] : v[f] \in FieldSet(Fields[t][f])
BY ValuesTyped DEF Typed, Values, FieldSet

LEMMA MergedAt ==
    ASSUME NEW t \in Messages, NEW v \in Values[t], NEW w \in Values[t]
    PROVE  Merged[t][v][w] = [f \in DOMAIN Fields[t] |-> MergedField(Merged, Fields[t][f], v[f], w[f])]
<1>1. Merged[t] = MergedBy(Merged, t) BY MergedUnfolds
<1>2. QED BY <1>1 DEF MergedBy

ZeroTyped(t) == Zero[t] \in Values[t]
MergedTyped(t) == \A v, w \in Values[t] : Merged[t][v][w] \in Values[t]

\* Merging into the zero value leaves what is merged.
Neutral(t) == \A w \in Values[t] : Merged[t][Zero[t]][w] = w

LEMMA ZeroFieldType ==
    ASSUME NEW k, k.kind \in Kinds, k.kind \in MessageKinds => ZeroTyped(k.type)
    PROVE  ZeroField(Zero, k) \in FieldSet(k)
<1>1. CASE k.kind = "text" BY <1>1 DEF ZeroField, FieldSet, FieldValues, Texts
<1>2. CASE k.kind \in {"meta", "time"}
    <2>1. FieldSet(k) = Texts /\ ZeroField(Zero, k) = <<>> BY <1>2 DEF ZeroField, FieldSet, FieldValues
    <2>2. QED BY <2>1 DEF Texts
<1>3. CASE k.kind = "bool" BY <1>3 DEF ZeroField, FieldSet, FieldValues
<1>4. CASE k.kind = "int32"
    <2>1. FieldSet(k) = Int32Values /\ ZeroField(Zero, k) = 0 BY <1>4 DEF ZeroField, FieldSet, FieldValues
    <2>2. 0 \in Int32Values BY WordAssumption DEF Int32Values
    <2>3. QED BY <2>1, <2>2
<1>5. CASE k.kind = "optInt32" BY <1>5 DEF ZeroField, FieldSet, FieldValues, OrNil
<1>6. CASE k.kind = "bytes" BY <1>6 DEF ZeroField, FieldSet, FieldValues, OrNil
<1>7. CASE k.kind = "gap" BY <1>7 DEF ZeroField, FieldSet, FieldValues
<1>8. CASE k.kind = "struct" BY <1>8 DEF ZeroField, FieldSet, FieldValues, ZeroTyped, MessageKinds
<1>9. CASE k.kind = "pointer" BY <1>9 DEF ZeroField, FieldSet, FieldValues, OrNil
<1>10. CASE k.kind = "list"
    <2>1. FieldSet(k) = Seq(Values[k.type]) /\ ZeroField(Zero, k) = <<>>
        BY <1>10 DEF ZeroField, FieldSet, FieldValues
    <2>2. QED BY <2>1
<1>11. QED BY <1>1, <1>2, <1>3, <1>4, <1>5, <1>6, <1>7, <1>8, <1>9, <1>10 DEF Kinds

LEMMA ZeroAt ==
    ASSUME NEW t \in Messages
    PROVE  Zero[t] = [f \in DOMAIN Fields[t] |-> ZeroField(Zero, Fields[t][f])]
BY ZeroUnfolds DEF ZeroBy

LEMMA ZeroType == \A t \in Messages : ZeroTyped(t)
<1> DEFINE T == {t \in Messages : ZeroTyped(t)}
<1>1. ASSUME NEW t \in Messages, \A u \in Messages : Rank(u) < Rank(t) => u \in T PROVE t \in T
    <2>1. ASSUME NEW f \in DOMAIN Fields[t] PROVE ZeroField(Zero, Fields[t][f]) \in FieldSet(Fields[t][f])
        <3>1. Fields[t][f].kind \in Kinds BY FieldsRanked DEF Ranked
        <3>2. Fields[t][f].kind \in MessageKinds => ZeroTyped(Fields[t][f].type) BY <1>1, SubRank
        <3>3. QED BY <3>1, <3>2, ZeroFieldType
    <2>2. QED BY <2>1, ZeroAt, ValueFields DEF ZeroTyped
<1> HIDE DEF T
<1>2. \A t \in Messages : t \in T BY <1>1, RankInduction
<1>3. QED BY <1>2 DEF T

LEMMA MergedFieldType ==
    ASSUME NEW k, k.kind \in Kinds, k.kind \in MessageKinds => MergedTyped(k.type),
           NEW x \in FieldSet(k), NEW y \in FieldSet(k)
    PROVE  MergedField(Merged, k, x, y) \in FieldSet(k)
<1>1. CASE k.kind \in {"text", "time", "bool", "int32", "gap"} BY <1>1 DEF MergedField
<1>2. CASE k.kind = "meta"
    <2>1. FieldSet(k) = Texts /\ MergedField(Merged, k, x, y) = x \o y
        BY <1>2 DEF MergedField, FieldSet, FieldValues
    <2>2. QED BY <2>1 DEF Texts
<1>3. CASE k.kind = "list"
    <2>1. FieldSet(k) = Seq(Values[k.type]) /\ MergedField(Merged, k, x, y) = x \o y
        BY <1>3 DEF MergedField, FieldSet, FieldValues
    <2>2. QED BY <2>1
<1>4. CASE k.kind = "struct"
    BY <1>4 DEF MergedField, FieldSet, FieldValues, MergedTyped, MessageKinds
<1>5. CASE k.kind \in {"bytes", "optInt32"} BY <1>5 DEF MergedField
<1>6. CASE k.kind = "pointer"
    <2>1. FieldSet(k) = {Nil} \cup Values[k.type] BY <1>6 DEF FieldSet, FieldValues, OrNil
    <2>2. x # Nil /\ y # Nil => Merged[k.type][x][y] \in Values[k.type]
        BY <1>6, <2>1 DEF MergedTyped, MessageKinds
    <2>3. MergedField(Merged, k, x, y) = IF y = Nil THEN x ELSE IF x = Nil THEN y ELSE Merged[k.type][x][y]
        BY <1>6 DEF MergedField
    <2>4. QED BY <2>1, <2>2, <2>3
<1>7. QED BY <1>1, <1>2, <1>3, <1>4, <1>5, <1>6 DEF Kinds

LEMMA MergedType == \A t \in Messages : MergedTyped(t)
<1> DEFINE T == {t \in Messages : MergedTyped(t)}
<1>1. ASSUME NEW t \in Messages, \A u \in Messages : Rank(u) < Rank(t) => u \in T PROVE t \in T
    <2>1. SUFFICES ASSUME NEW v \in Values[t], NEW w \in Values[t] PROVE Merged[t][v][w] \in Values[t]
        BY DEF MergedTyped
    <2>2. ASSUME NEW f \in DOMAIN Fields[t]
          PROVE  MergedField(Merged, Fields[t][f], v[f], w[f]) \in FieldSet(Fields[t][f])
        <3>1. Fields[t][f].kind \in Kinds BY FieldsRanked DEF Ranked
        <3>2. Fields[t][f].kind \in MessageKinds => MergedTyped(Fields[t][f].type) BY <1>1, SubRank
        <3>3. v[f] \in FieldSet(Fields[t][f]) /\ w[f] \in FieldSet(Fields[t][f]) BY ValueFields
        <3>4. QED BY <3>1, <3>2, <3>3, MergedFieldType
    <2> DEFINE m == [f \in DOMAIN Fields[t] |-> MergedField(Merged, Fields[t][f], v[f], w[f])]
    <2>3. /\ m = [f \in DOMAIN Fields[t] |-> m[f]]
          /\ \A f \in DOMAIN Fields[t] : m[f] \in FieldSet(Fields[t][f])
        BY <2>2
    <2>4. Merged[t][v][w] = m BY MergedAt
    <2> HIDE DEF m
    <2>5. m \in Values[t] BY <2>3, ValueFields
    <2>6. QED BY <2>4, <2>5
<1> HIDE DEF T
<1>2. \A t \in Messages : t \in T BY <1>1, RankInduction
<1>3. QED BY <1>2 DEF T

LEMMA NeutralField ==
    ASSUME NEW k, k.kind \in Kinds, k.kind \in MessageKinds => Neutral(k.type), NEW y \in FieldSet(k)
    PROVE  MergedField(Merged, k, ZeroField(Zero, k), y) = y
<1>1. CASE k.kind \in {"text", "time", "bool", "int32", "gap"} BY <1>1 DEF MergedField
<1>2. CASE k.kind = "meta"
    <2>1. /\ FieldSet(k) = Seq(0..255) /\ ZeroField(Zero, k) = <<>>
          /\ MergedField(Merged, k, ZeroField(Zero, k), y) = ZeroField(Zero, k) \o y
        BY <1>2 DEF MergedField, FieldSet, FieldValues, ZeroField, Texts
    <2>2. QED BY <2>1, ConcatEmptySeq
<1>3. CASE k.kind = "list"
    <2>1. /\ FieldSet(k) = Seq(Values[k.type]) /\ ZeroField(Zero, k) = <<>>
          /\ MergedField(Merged, k, ZeroField(Zero, k), y) = ZeroField(Zero, k) \o y
        BY <1>3 DEF MergedField, FieldSet, FieldValues, ZeroField
    <2>2. QED BY <2>1, ConcatEmptySeq
<1>4. CASE k.kind = "struct"
    BY <1>4 DEF MergedField, FieldSet, FieldValues, ZeroField, Neutral, MessageKinds
<1>5. CASE k.kind \in {"bytes", "optInt32"} BY <1>5 DEF MergedField, ZeroField
<1>6. CASE k.kind = "pointer" BY <1>6 DEF MergedField, ZeroField
<1>7. QED BY <1>1, <1>2, <1>3, <1>4, <1>5, <1>6 DEF Kinds

\* The zero value is the message of which nothing is written.
LEMMA ZeroNeutral == \A t \in Messages : Neutral(t)
<1> DEFINE T == {t \in Messages : Neutral(t)}
<1>1. ASSUME NEW t \in Messages, \A u \in Messages : Rank(u) < Rank(t) => u \in T PROVE t \in T
    <2>1. SUFFICES ASSUME NEW w \in Values[t] PROVE Merged[t][Zero[t]][w] = w BY DEF Neutral
    <2>2. ASSUME NEW f \in DOMAIN Fields[t]
          PROVE  MergedField(Merged, Fields[t][f], Zero[t][f], w[f]) = w[f]
        <3>1. Fields[t][f].kind \in Kinds BY FieldsRanked DEF Ranked
        <3>2. Fields[t][f].kind \in MessageKinds => Neutral(Fields[t][f].type) BY <1>1, SubRank
        <3>3. w[f] \in FieldSet(Fields[t][f]) BY ValueFields
        <3>4. Zero[t][f] = ZeroField(Zero, Fields[t][f]) BY ZeroAt
        <3>5. QED BY <3>1, <3>2, <3>3, <3>4, NeutralField
    <2>3. Zero[t] \in Values[t] BY ZeroType DEF ZeroTyped
    <2>4. Merged[t][Zero[t]][w] = [f \in DOMAIN Fields[t] |-> w[f]] BY <2>2, <2>3, MergedAt
    <2>5. QED BY <2>4, ValueFields
<1> HIDE DEF T
<1>2. \A t \in Messages : t \in T BY <1>1, RankInduction
<1>3. QED BY <1>2 DEF T

-----------------------------------------------------------------------------
(* What the decoder makes of a message, piece by piece.                    *)

\* The message an item is decoded into.
StartOf(k, old) ==
    IF k.kind = "struct" \/ (k.kind = "pointer" /\ old # Nil) THEN old ELSE Zero[k.type]

\* A field that was old and has met the item x.
NewValue(k, old, x) ==
    IF k.kind \in MessageKinds
    THEN LET m == Merged[k.type][StartOf(k, old)][x] IN IF k.kind = "list" THEN Append(old, m) ELSE m
    ELSE IF k.kind = "meta" THEN old \o x ELSE x

Taken(t, m, p) == [m EXCEPT ![FieldOf(p.tag)] = NewValue(KindOf(t, p.tag), m[FieldOf(p.tag)], p.item)]

Applied(t, m, ps) ==
    LET r[i \in 0..Len(ps)] == IF i = 0 THEN m ELSE Taken(t, r[i - 1], ps[i]) IN r[Len(ps)]

LEMMA StartType ==
    ASSUME NEW k, k.kind \in MessageKinds, k.type \in Messages, NEW old \in FieldSet(k)
    PROVE  StartOf(k, old) \in Values[k.type]
<1>1. Zero[k.type] \in Values[k.type] BY ZeroType DEF ZeroTyped
<1>2. k.kind = "struct" => FieldSet(k) = Values[k.type] BY DEF FieldSet, FieldValues
<1>3. k.kind = "pointer" => FieldSet(k) = {Nil} \cup Values[k.type] BY DEF FieldSet, FieldValues, OrNil
<1>4. QED BY <1>1, <1>2, <1>3 DEF StartOf

LEMMA NewValueType ==
    ASSUME NEW k, k.kind \in Kinds \ {"gap"}, k.kind \in MessageKinds => k.type \in Messages,
           NEW old \in FieldSet(k), NEW x \in ItemValues(Values, Texts, k)
    PROVE  NewValue(k, old, x) \in FieldSet(k)
<1>1. CASE k.kind \in MessageKinds
    <2> DEFINE m == Merged[k.type][StartOf(k, old)][x]
    <2>1. x \in Values[k.type] BY <1>1 DEF ItemValues, MessageKinds
    <2>2. m \in Values[k.type] BY <1>1, <2>1, StartType, MergedType DEF MergedTyped
    <2>3. NewValue(k, old, x) = IF k.kind = "list" THEN Append(old, m) ELSE m BY <1>1 DEF NewValue
    <2> HIDE DEF m
    <2>4. CASE k.kind = "struct" BY <2>2, <2>3, <2>4 DEF FieldSet, FieldValues
    <2>5. CASE k.kind = "pointer"
        <3>1. FieldSet(k) = {Nil} \cup Values[k.type] BY <2>5 DEF FieldSet, FieldValues, OrNil
        <3>2. QED BY <2>2, <2>3, <2>5, <3>1
    <2>6. CASE k.kind = "list"
        <3>1. FieldSet(k) = Seq(Values[k.type]) BY <2>6 DEF FieldSet, FieldValues
        <3>2. old \in Seq(Values[k.type]) BY <3>1
        <3>3. Append(old, m) \in Seq(Values[k.type]) BY <2>2, <3>2
        <3>4. QED BY <2>3, <2>6, <3>1, <3>3
    <2>7. QED BY <1>1, <2>4, <2>5, <2>6 DEF MessageKinds
<1>2. CASE k.kind = "meta"
    <2>1. FieldSet(k) = Texts /\ x \in Texts BY <1>2 DEF FieldSet, FieldValues, ItemValues
    <2>2. NewValue(k, old, x) = old \o x BY <1>2 DEF NewValue, MessageKinds
    <2>3. QED BY <2>1, <2>2 DEF Texts
<1>3. CASE k.kind \notin MessageKinds \cup {"meta"}
    <2>1. NewValue(k, old, x) = x BY <1>3 DEF NewValue
    <2>2. CASE k.kind = "text" BY <2>1, <2>2 DEF FieldSet, FieldValues, ItemValues
    <2>3. CASE k.kind = "time" BY <2>1, <2>3 DEF FieldSet, FieldValues, ItemValues
    <2>4. CASE k.kind = "bool" BY <2>1, <2>4 DEF FieldSet, FieldValues, ItemValues
    <2>5. CASE k.kind = "int32" BY <2>1, <2>5 DEF FieldSet, FieldValues, ItemValues
    <2>6. CASE k.kind = "optInt32" BY <2>1, <2>6 DEF FieldSet, FieldValues, ItemValues, OrNil
    <2>7. CASE k.kind = "bytes" BY <2>1, <2>7 DEF FieldSet, FieldValues, ItemValues, OrNil
    <2>8. QED BY <1>3, <2>2, <2>3, <2>4, <2>5, <2>6, <2>7 DEF Kinds, MessageKinds
<1>4. QED BY <1>1, <1>2, <1>3

LEMMA TakenType ==
    ASSUME NEW t \in Messages, NEW m \in Values[t], NEW p \in PieceSet(t, Texts)
    PROVE  /\ Taken(t, m, p) \in Values[t]
           /\ FieldOf(p.tag) \in DOMAIN Fields[t]
           /\ DOMAIN m = DOMAIN Fields[t]
           /\ m[FieldOf(p.tag)] \in FieldSet(KindOf(t, p.tag))
<1> DEFINE f == FieldOf(p.tag)
           k == KindOf(t, p.tag)
           y == NewValue(k, m[f], p.item)
<1>1. /\ f \in DOMAIN Fields[t] /\ k.kind \in Kinds \ {"gap"} /\ k = Fields[t][f]
      /\ p.item \in ItemValues(Values, Texts, k)
    BY PieceKind DEF Values, KindOf
<1>2. /\ m = [g \in DOMAIN Fields[t] |-> m[g]]
      /\ \A g \in DOMAIN Fields[t] : m[g] \in FieldSet(Fields[t][g])
    BY ValueFields
<1>3. k.kind \in MessageKinds => k.type \in Messages BY <1>1, SubRank
<1>4. Taken(t, m, p) = [m EXCEPT ![f] = y] BY DEF Taken
<1> HIDE DEF k, f
<1>5. y \in FieldSet(k) BY <1>1, <1>2, <1>3, NewValueType
<1> HIDE DEF y
<1> DEFINE n == [m EXCEPT ![f] = y]
<1>6. DOMAIN m = DOMAIN Fields[t] BY <1>2
<1>7. n = [g \in DOMAIN Fields[t] |-> n[g]] BY <1>6
<1>8. \A g \in DOMAIN Fields[t] : n[g] \in FieldSet(Fields[t][g])
    <2>1. \A g \in DOMAIN Fields[t] : n[g] = IF g = f THEN y ELSE m[g] BY <1>6
    <2>2. QED BY <1>1, <1>2, <1>5, <2>1
<1> HIDE DEF n
<1>9. n \in Values[t] BY <1>7, <1>8, ValueFields
<1>10. QED BY <1>1, <1>2, <1>4, <1>6, <1>9 DEF n, k, f

LEMMA AppliedRuns ==
    ASSUME NEW t \in Messages, NEW m \in Values[t], NEW ps \in Seq(PieceSet(t, Texts))
    PROVE  \E g \in [0..Len(ps) -> Values[t]] :
              /\ g[0] = m
              /\ \A i \in 1..Len(ps) : g[i] = Taken(t, g[i - 1], ps[i])
              /\ Applied(t, m, ps) = g[Len(ps)]
<1> DEFINE D == 0..Len(ps)
           PS == PieceSet(t, Texts)
           A == Values[t]
           Fl(f) == f = [i \in D |-> IF i = 0 THEN m ELSE Taken(t, f[i - 1], ps[i])]
           fl == CHOOSE f : Fl(f)
<1>0. Len(ps) \in Nat /\ Len(ps) \in D /\ \A i \in 1..Len(ps) : ps[i] \in PS OBVIOUS
<1>1. Applied(t, m, ps) = fl[Len(ps)] BY DEF Applied
<1>2. Fl(fl)
    <2> DEFINE F == [i \in D |-> [x \in A |-> IF i = 0 THEN m ELSE Taken(t, x, ps[i])]]
               B == [i \in D |-> m]
               p == [i \in D |-> i - 1]
               base == {0}
    <2>1. Recursion(D, base, A, B, F, p)
        <3>1. ASSUME NEW i \in D, NEW x \in A PROVE (IF i = 0 THEN m ELSE Taken(t, x, ps[i])) \in A
            <4>1. i # 0 => i \in 1..Len(ps) OBVIOUS
            <4>2. i # 0 => ps[i] \in PS BY <1>0, <4>1
            <4>3. i # 0 => Taken(t, x, ps[i]) \in A BY <4>2, TakenType
            <4>4. QED BY <4>3
        <3> HIDE DEF A
        <3>2. F \in [D -> [A -> A]] BY <3>1
        <3>3. \A i \in D : i \notin base => p[i] \in D /\ p[i] < i BY <1>0
        <3>4. D \subseteq Nat /\ B \in [D -> A] BY DEF A
        <3>5. QED BY <3>2, <3>3, <3>4 DEF Recursion
    <2>2. \E f : Solves(f, D, base, A, B, F, p)
        <3> HIDE DEF F, p, D, B, base, A
        <3>1. QED BY <2>1, RecursionExists
    <2>3. PICK f \in [D -> A] : \A i \in D : f[i] = IF i \in base THEN B[i] ELSE F[i][f[p[i]]]
        BY <2>2 DEF Solves
    <2>4. ASSUME NEW i \in D, i # 0 PROVE F[i][f[p[i]]] = Taken(t, f[i - 1], ps[i])
        <3>1. i - 1 \in D /\ p[i] = i - 1 BY <1>0, <2>4
        <3> HIDE DEF A
        <3>2. f[i - 1] \in A BY <3>1
        <3>3. QED BY <2>4, <3>1, <3>2
    <2>5. \A i \in D : f[i] = IF i = 0 THEN m ELSE Taken(t, f[i - 1], ps[i]) BY <2>3, <2>4
    <2>6. Fl(f) BY <2>5
    <2> HIDE DEF Fl
    <2>7. QED BY <2>6
<1> HIDE DEF fl
<1>3. \A i \in D : fl[i] = IF i = 0 THEN m ELSE Taken(t, fl[i - 1], ps[i]) BY <1>2
<1> DEFINE T == {n \in Nat : fl[n] \in A}
<1>4. 0 \in T BY <1>3
<1>5. ASSUME NEW i \in 1..Len(ps), i - 1 \in T PROVE i \in T
    <2>1. i \in D /\ i # 0 OBVIOUS
    <2>2. fl[i] = Taken(t, fl[i - 1], ps[i]) BY <1>3, <2>1
    <2>3. fl[i - 1] \in A /\ ps[i] \in PS BY <1>0, <1>5
    <2>4. Taken(t, fl[i - 1], ps[i]) \in A BY <2>3, TakenType
    <2>5. QED BY <2>2, <2>4
<1>6. \A i \in D : i \in T
    <2> HIDE DEF T
    <2>1. T \in SUBSET Nat BY DEF T
    <2>2. QED BY <1>0, <1>4, <1>5, <2>1, BoundedInduction
<1>7. fl \in [D -> A]
    <2>1. fl = [i \in D |-> fl[i]] BY <1>2
    <2>2. \A i \in D : fl[i] \in A BY <1>6
    <2> HIDE DEF A
    <2>3. QED BY <2>1, <2>2
<1>8. \A i \in 1..Len(ps) : fl[i] = Taken(t, fl[i - 1], ps[i])
    <2>1. \A i \in 1..Len(ps) : i \in D /\ i # 0 OBVIOUS
    <2>2. QED BY <1>3, <2>1
<1>9. fl[0] = m BY <1>0, <1>3
<1>10. QED BY <1>1, <1>7, <1>8, <1>9

LEMMA AppliedEmpty ==
    ASSUME NEW t \in Messages, NEW m \in Values[t]
    PROVE  Applied(t, m, <<>>) = m
<1> DEFINE none == <<>>
<1>1. none \in Seq(PieceSet(t, Texts)) /\ Len(none) = 0 OBVIOUS
<1> HIDE DEF none
<1>2. PICK g \in [0..Len(none) -> Values[t]] :
        /\ g[0] = m
        /\ \A i \in 1..Len(none) : g[i] = Taken(t, g[i - 1], none[i])
        /\ Applied(t, m, none) = g[Len(none)]
    BY <1>1, AppliedRuns, ZenonT(40)
<1>3. Applied(t, m, none) = m BY <1>1, <1>2
<1>4. QED BY <1>3 DEF none

LEMMA AppliedAppend ==
    ASSUME NEW t \in Messages, NEW m \in Values[t], NEW ps \in Seq(PieceSet(t, Texts)),
           NEW p \in PieceSet(t, Texts)
    PROVE  /\ Applied(t, m, ps) \in Values[t]
           /\ Applied(t, m, Append(ps, p)) = Taken(t, Applied(t, m, ps), p)
<1> DEFINE qs == Append(ps, p)
           n == Len(ps)
<1>1. /\ n \in Nat /\ qs \in Seq(PieceSet(t, Texts)) /\ Len(qs) = n + 1 /\ qs[n + 1] = p
      /\ \A i \in 1..n : qs[i] = ps[i]
    OBVIOUS
<1> HIDE DEF qs
<1>2. PICK g \in [0..n -> Values[t]] :
        g[0] = m /\ (\A i \in 1..n : g[i] = Taken(t, g[i - 1], ps[i])) /\ Applied(t, m, ps) = g[n]
    BY AppliedRuns
<1>3. PICK h \in [0..n + 1 -> Values[t]] :
        h[0] = m /\ (\A i \in 1..n + 1 : h[i] = Taken(t, h[i - 1], qs[i])) /\ Applied(t, m, qs) = h[n + 1]
    <2>1. \E h \in [0..Len(qs) -> Values[t]] :
            h[0] = m /\ (\A i \in 1..Len(qs) : h[i] = Taken(t, h[i - 1], qs[i])) /\ Applied(t, m, qs) = h[Len(qs)]
        BY <1>1, AppliedRuns
    <2> HIDE DEF n
    <2>2. QED BY <1>1, <2>1
<1> HIDE DEF n
<1>4. \A i \in 1..n : g[i - 1] = h[i - 1] => g[i] = h[i]
    <2>1. SUFFICES ASSUME NEW i \in 1..n, g[i - 1] = h[i - 1] PROVE g[i] = h[i] OBVIOUS
    <2>2. i \in 1..n + 1 BY <1>1
    <2>3. QED BY <1>1, <1>2, <1>3, <2>1, <2>2
<1>5. \A i \in 0..n : g[i] = h[i]
    <2> DEFINE Same == {i \in Nat : g[i] = h[i]}
    <2>1. n \in Nat /\ 0 \in Same BY <1>1, <1>2, <1>3
    <2>2. \A i \in 1..n : i - 1 \in Same => i \in Same BY <1>4
    <2> HIDE DEF Same
    <2>3. \A i \in 0..n : i \in Same
        <3>1. Same \in SUBSET Nat BY DEF Same
        <3>2. QED BY <2>1, <2>2, <3>1, BoundedInduction
    <2>4. QED BY <2>3 DEF Same
<1>6. h[n + 1] = Taken(t, h[n], p) /\ g[n] = h[n] /\ g[n] \in Values[t]
    <2>1. n + 1 \in 1..n + 1 /\ (n + 1) - 1 = n /\ n \in 0..n BY <1>1
    <2>2. QED BY <1>1, <1>2, <1>3, <1>5, <2>1
<1>7. QED BY <1>2, <1>3, <1>6 DEF qs

LEMMA AppliedType ==
    ASSUME NEW t \in Messages, NEW m \in Values[t], NEW ps \in Seq(PieceSet(t, Texts))
    PROVE  Applied(t, m, ps) \in Values[t]
<1>1. PICK g \in [0..Len(ps) -> Values[t]] : Applied(t, m, ps) = g[Len(ps)] BY AppliedRuns
<1>2. Len(ps) \in 0..Len(ps) OBVIOUS
<1>3. QED BY <1>1, <1>2

LEMMA AppliedConcat ==
    ASSUME NEW t \in Messages, NEW m \in Values[t],
           NEW ps \in Seq(PieceSet(t, Texts)), NEW qs \in Seq(PieceSet(t, Texts))
    PROVE  Applied(t, m, ps \o qs) = Applied(t, Applied(t, m, ps), qs)
<1> DEFINE P == PieceSet(t, Texts)
           n == Applied(t, m, ps)
           T == {r \in Seq(P) : Applied(t, m, ps \o r) = Applied(t, n, r)}
<1>0. n \in Values[t] BY AppliedType
<1> HIDE DEF n
<1>1. <<>> \in T
    <2>1. ps \o <<>> = ps BY ConcatEmptySeq
    <2>2. Applied(t, n, <<>>) = n BY <1>0, AppliedEmpty
    <2>3. <<>> \in Seq(P) OBVIOUS
    <2>4. QED BY <2>1, <2>2, <2>3 DEF n
<1>2. ASSUME NEW r \in T, NEW x \in P PROVE Append(r, x) \in T
    <2>1. r \in Seq(P) /\ Applied(t, m, ps \o r) = Applied(t, n, r) OBVIOUS
    <2>2. ps \o Append(r, x) = Append(ps \o r, x) /\ ps \o r \in Seq(P) BY <2>1
    <2>3. Applied(t, m, Append(ps \o r, x)) = Taken(t, Applied(t, m, ps \o r), x) BY <2>2, AppliedAppend
    <2>4. Applied(t, n, Append(r, x)) = Taken(t, Applied(t, n, r), x) BY <1>0, <2>1, AppliedAppend
    <2>5. Append(r, x) \in Seq(P) BY <2>1
    <2>6. QED BY <2>1, <2>2, <2>3, <2>4, <2>5
<1>3. T = Seq(P)
    <2> HIDE DEF T
    <2>1. T \in SUBSET Seq(P) BY DEF T
    <2>2. QED BY <1>1, <1>2, <2>1, SeqInduction
<1>4. QED BY <1>3 DEF n

LEMMA AppliedOne ==
    ASSUME NEW t \in Messages, NEW m \in Values[t], NEW p \in PieceSet(t, Texts)
    PROVE  Applied(t, m, <<p>>) = Taken(t, m, p)
<1> DEFINE none == <<>>
<1>1. none \in Seq(PieceSet(t, Texts)) /\ Append(none, p) = <<p>> OBVIOUS
<1>2. Applied(t, m, none) = m BY AppliedEmpty
<1> HIDE DEF none
<1>3. Applied(t, m, Append(none, p)) = Taken(t, Applied(t, m, none), p) BY <1>1, AppliedAppend
<1>4. QED BY <1>1, <1>2, <1>3

LEMMA AppliedFirst ==
    ASSUME NEW t \in Messages, NEW m \in Values[t],
           NEW p \in PieceSet(t, Texts), NEW ps \in Seq(PieceSet(t, Texts))
    PROVE  Applied(t, m, <<p>> \o ps) = Applied(t, Taken(t, m, p), ps)
<1>1. <<p>> \in Seq(PieceSet(t, Texts)) OBVIOUS
<1>2. QED BY <1>1, AppliedConcat, AppliedOne

\* A single item of a field.
LEMMA OneApplied ==
    ASSUME NEW k, k.kind \in Kinds \ {"gap", "list"}, k.kind \in MessageKinds => k.type \in Messages,
           NEW x \in FieldSet(k), NEW y \in FieldSet(k), Present(k.kind, y)
    PROVE  NewValue(k, x, y) = MergedField(Merged, k, x, y)
<1>1. CASE k.kind \in {"text", "time", "bool", "int32"}
    BY <1>1 DEF NewValue, MergedField, MessageKinds
<1>2. CASE k.kind = "meta" BY <1>2 DEF NewValue, MergedField, MessageKinds
<1>3. CASE k.kind \in {"bytes", "optInt32"}
    <2>1. y # Nil BY <1>3 DEF Present
    <2>2. QED BY <1>3, <2>1 DEF NewValue, MergedField, MessageKinds
<1>4. CASE k.kind = "struct" BY <1>4 DEF NewValue, MergedField, MessageKinds, StartOf
<1>5. CASE k.kind = "pointer"
    <2>1. y # Nil BY <1>5 DEF Present
    <2>2. y \in Values[k.type] BY <1>5, <2>1 DEF FieldSet, FieldValues, OrNil
    <2>3. Merged[k.type][Zero[k.type]][y] = y BY <1>5, <2>2, ZeroNeutral DEF Neutral, MessageKinds
    <2>4. MergedField(Merged, k, x, y) = IF x = Nil THEN y ELSE Merged[k.type][x][y]
        BY <1>5, <2>1 DEF MergedField
    <2>5. NewValue(k, x, y) = Merged[k.type][IF x # Nil THEN x ELSE Zero[k.type]][y]
        BY <1>5 DEF NewValue, MessageKinds, StartOf
    <2>6. QED BY <2>3, <2>4, <2>5
<1>6. QED BY <1>1, <1>2, <1>3, <1>4, <1>5 DEF Kinds

\* The items of a field, with its tag.
Labelled(tag, items) == [i \in DOMAIN items |-> [tag |-> tag, item |-> items[i]]]

WithField(m, f, x) == [m EXCEPT ![f] = x]

\* The items of a list.
LEMMA ListApplied ==
    ASSUME NEW t \in Messages, NEW j \in DOMAIN Tags[t], NEW r \in Values[t],
           KindOf(t, Tags[t][j]).kind = "list",
           NEW s \in Seq(Values[KindOf(t, Tags[t][j]).type])
    PROVE  Applied(t, r, Labelled(Tags[t][j], s))
            = WithField(r, FieldOf(Tags[t][j]), r[FieldOf(Tags[t][j])] \o s)
<1> DEFINE tag == Tags[t][j]
           k == KindOf(t, tag)
           f == FieldOf(tag)
           V == Values[k.type]
           PS == PieceSet(t, Texts)
           mk == [x \in V |-> [tag |-> tag, item |-> x]]
           Now(q) == [r EXCEPT ![f] = r[f] \o q]
           T == {q \in Seq(V) : Applied(t, r, Each(mk, q)) = Now(q)}
<1>1. f \in DOMAIN Fields[t] /\ k = Fields[t][f] BY TagsMatch DEF Tagged, KindOf
<1>2. k.type \in Messages BY <1>1, SubRank DEF MessageKinds
<1>3. r = [g \in DOMAIN Fields[t] |-> r[g]] /\ r[f] \in Seq(V)
    BY <1>1, ValueFields DEF FieldSet, FieldValues
<1>4. \A x \in V : mk[x] \in PS /\ mk[x].tag = tag /\ mk[x].item = x
    <2>1. ItemValues(Values, Texts, k) = V BY DEF ItemValues
    <2>2. QED BY <2>1 DEF PieceSet, Values
<1>5. \A x \in V : Merged[k.type][Zero[k.type]][x] = x BY <1>2, ZeroNeutral DEF Neutral
<1>6. \A p \in PS : p.tag = tag => FieldOf(p.tag) = f /\ KindOf(t, p.tag) = k OBVIOUS
<1>7. k.kind = "list" OBVIOUS
<1> HIDE DEF PS, mk, V, k, f, tag
<1>8. <<>> \in T
    <2>1. Each(mk, <<>>) = <<>> BY DEF Each
    <2>2. Applied(t, r, <<>>) = r BY AppliedEmpty
    <2>3. r[f] \o <<>> = r[f] BY <1>3, ConcatEmptySeq
    <2>4. Now(<<>>) = r BY <1>1, <1>3, <2>3
    <2> HIDE DEF Now
    <2>5. QED BY <2>1, <2>2, <2>4
<1>9. ASSUME NEW q \in T, NEW x \in V PROVE Append(q, x) \in T
    <2>1. q \in Seq(V) /\ Applied(t, r, Each(mk, q)) = Now(q) OBVIOUS
    <2>2. Each(mk, Append(q, x)) = Append(Each(mk, q), mk[x]) BY <2>1, EachAppend
    <2>3. Each(mk, q) \in Seq(PS) BY <1>4, <2>1, EachType
    <2>4. Applied(t, r, Append(Each(mk, q), mk[x])) = Taken(t, Now(q), mk[x])
        <3> HIDE DEF Now
        <3>1. mk[x] \in PS BY <1>4
        <3>2. Applied(t, r, Append(Each(mk, q), mk[x])) = Taken(t, Applied(t, r, Each(mk, q)), mk[x])
            BY <2>3, <3>1, AppliedAppend DEF PS
        <3>3. QED BY <2>1, <3>2
    <2>5. Taken(t, Now(q), mk[x]) = [Now(q) EXCEPT ![f] = NewValue(k, Now(q)[f], x)]
        <3> HIDE DEF Now
        <3>1. FieldOf(mk[x].tag) = f /\ KindOf(t, mk[x].tag) = k /\ mk[x].item = x BY <1>4, <1>6
        <3>2. QED BY <3>1 DEF Taken
    <2>6. Now(q)[f] = r[f] \o q BY <1>1, <1>3
    <2>7. NewValue(k, r[f] \o q, x) = Append(r[f] \o q, x)
        BY <1>5, <1>7 DEF NewValue, StartOf, MessageKinds
    <2>8. Append(r[f] \o q, x) = r[f] \o Append(q, x)
        <3> DEFINE a == r[f]
        <3>1. a \in Seq(V) /\ q \in Seq(V) BY <1>3, <2>1
        <3> HIDE DEF a, T
        <3>2. Append(a \o q, x) = a \o Append(q, x) BY <3>1
        <3>3. QED BY <3>2 DEF a
    <2>9. [Now(q) EXCEPT ![f] = r[f] \o Append(q, x)] = Now(Append(q, x)) BY <1>1, <1>3
    <2> HIDE DEF Now
    <2>10. Applied(t, r, Each(mk, Append(q, x))) = Now(Append(q, x))
        BY <2>2, <2>4, <2>5, <2>6, <2>7, <2>8, <2>9
    <2>11. Append(q, x) \in Seq(V) BY <2>1
    <2>12. QED BY <2>10, <2>11
<1>10. T = Seq(V)
    <2> HIDE DEF T
    <2>1. T \in SUBSET Seq(V) BY DEF T
    <2>2. QED BY <1>8, <1>9, <2>1, SeqInduction
<1>11. s \in Seq(V) BY DEF V, k, tag
<1>12. Applied(t, r, Each(mk, s)) = Now(s) BY <1>10, <1>11
<1>13. Each(mk, s) = Labelled(tag, s)
    <2>1. \A i \in DOMAIN s : s[i] \in V BY <1>11
    <2>2. QED BY <2>1 DEF Each, mk, Labelled
<1>14. QED BY <1>12, <1>13 DEF f, tag, WithField

\* The pieces of a field do to it what merging does.
LEMMA FieldApplied ==
    ASSUME NEW t \in Messages, NEW j \in DOMAIN Tags[t], NEW r \in Values[t], NEW v \in Values[t]
    PROVE  Applied(t, r, FieldPieces(t, v, j))
            = WithField(r, FieldOf(Tags[t][j]),
                MergedField(Merged, KindOf(t, Tags[t][j]), r[FieldOf(Tags[t][j])], v[FieldOf(Tags[t][j])]))
<1> DEFINE tag == Tags[t][j]
           k == KindOf(t, tag)
           f == FieldOf(tag)
           items == Items(k.kind, v[f])
<1>1. f \in DOMAIN Fields[t] /\ k = Fields[t][f] /\ k.kind \in Kinds \ {"gap"}
    BY TagsMatch, FieldsRanked DEF Tagged, Ranked, KindOf
<1>2. k.kind \in MessageKinds => k.type \in Messages BY <1>1, SubRank
<1>3. r = [g \in DOMAIN Fields[t] |-> r[g]] /\ r[f] \in FieldSet(k) /\ v[f] \in FieldSet(k)
    BY <1>1, ValueFields
<1>4. FieldPieces(t, v, j) = Labelled(tag, items) BY DEF FieldPieces, Labelled
<1>5. SUFFICES Applied(t, r, FieldPieces(t, v, j)) = [r EXCEPT ![f] = MergedField(Merged, k, r[f], v[f])]
    BY DEF WithField
<1>6. CASE k.kind = "list"
    <2>1. items = v[f] /\ v[f] \in Seq(Values[k.type]) BY <1>3, <1>6 DEF Items, FieldSet, FieldValues
    <2>2. MergedField(Merged, k, r[f], v[f]) = r[f] \o v[f] BY <1>6 DEF MergedField
    <2>3. Applied(t, r, Labelled(tag, v[f])) = [r EXCEPT ![f] = r[f] \o v[f]]
        <3> DEFINE s == v[f]
        <3>1. s \in Seq(Values[KindOf(t, Tags[t][j]).type]) /\ KindOf(t, Tags[t][j]).kind = "list"
            BY <1>6, <2>1
        <3> HIDE DEF s, k, f, tag, items
        <3>2. Applied(t, r, Labelled(Tags[t][j], s))
                = WithField(r, FieldOf(Tags[t][j]), r[FieldOf(Tags[t][j])] \o s)
            BY <3>1, ListApplied
        <3>3. QED BY <3>2 DEF s, f, tag, WithField
    <2> HIDE DEF f, k, tag, items
    <2>4. QED BY <1>4, <2>1, <2>2, <2>3
<1>7. CASE k.kind # "list" /\ ~Present(k.kind, v[f])
    <2>1. items = <<>> BY <1>7 DEF Items
    <2>2. v[f] = Nil /\ k.kind \in {"bytes", "optInt32", "pointer"} BY <1>1, <1>7 DEF Present
    <2>3. MergedField(Merged, k, r[f], v[f]) = r[f] BY <2>2 DEF MergedField
    <2> HIDE DEF f, k, tag, items
    <2>4. FieldPieces(t, v, j) = <<>> BY <1>4, <2>1 DEF Labelled
    <2>5. Applied(t, r, <<>>) = r BY AppliedEmpty
    <2>6. [r EXCEPT ![f] = r[f]] = r BY <1>1, <1>3
    <2>7. QED BY <2>3, <2>4, <2>5, <2>6
<1>8. CASE k.kind # "list" /\ Present(k.kind, v[f])
    <2> DEFINE p == [tag |-> tag, item |-> v[f]]
    <2>1. items = <<v[f]>> BY <1>8 DEF Items
    <2>2. NewValue(k, r[f], v[f]) = MergedField(Merged, k, r[f], v[f])
        <3> HIDE DEF k, f
        <3>1. QED BY <1>1, <1>2, <1>3, <1>8, OneApplied
    <2>3. FieldPieces(t, v, j) = <<p>> BY <1>4, <2>1 DEF Labelled
    <2>4. p \in PieceSet(t, Texts)
        <3>1. FieldPieces(t, v, j) \in Seq(PieceSet(t, Texts)) BY FieldPiecesType DEF Values
        <3> HIDE DEF p
        <3>2. <<p>> \in Seq(PieceSet(t, Texts)) BY <2>3, <3>1
        <3>3. <<p>>[1] = p /\ 1 \in DOMAIN <<p>> OBVIOUS
        <3>4. QED BY <3>2, <3>3
    <2>5. Taken(t, r, p) = [r EXCEPT ![f] = NewValue(k, r[f], v[f])] BY DEF Taken
    <2> HIDE DEF p, f, k, tag
    <2>6. Applied(t, r, <<p>>) = Taken(t, r, p) BY <2>4, AppliedOne
    <2>7. QED BY <2>2, <2>3, <2>5, <2>6
<1>9. QED BY <1>6, <1>7, <1>8

LEMMA TagsDiffer ==
    ASSUME NEW t \in Messages
    PROVE  /\ Len(Tags[t]) \in Nat /\ DOMAIN Tags[t] = 1..Len(Tags[t])
           /\ \A i, j \in DOMAIN Tags[t] : i # j => FieldOf(Tags[t][i]) # FieldOf(Tags[t][j])
           /\ \A f \in DOMAIN Fields[t] :
                Fields[t][f].kind = "gap" \/ \E j \in DOMAIN Tags[t] : FieldOf(Tags[t][j]) = f
<1>1. Tagged(Fields[t], Tags[t]) BY TagsMatch
<1>2. DOMAIN Tags[t] = 1..Len(Tags[t]) /\ Len(Tags[t]) \in Nat BY <1>1 DEF Tagged
<1>3. DOMAIN Fields[t] = 1..Len(Fields[t]) BY FieldsRanked DEF Ranked
<1>4. CASE Len(Tags[t]) = Len(Fields[t]) /\ \A j \in DOMAIN Tags[t] : FieldOf(Tags[t][j]) = j
    BY <1>2, <1>3, <1>4
<1>5. CASE /\ Len(Tags[t]) = 7 /\ Len(Fields[t]) = 8 /\ Fields[t][6].kind = "gap"
           /\ \A j \in 1..5 : FieldOf(Tags[t][j]) = j
           /\ \A j \in 6..7 : FieldOf(Tags[t][j]) = j + 1
    <2>1. \A j \in DOMAIN Tags[t] : FieldOf(Tags[t][j]) = IF j <= 5 THEN j ELSE j + 1 BY <1>2, <1>5
    <2>2. \A i, j \in DOMAIN Tags[t] : i # j => FieldOf(Tags[t][i]) # FieldOf(Tags[t][j])
        BY <1>2, <2>1
    <2>3. ASSUME NEW f \in DOMAIN Fields[t], f # 6 PROVE \E j \in DOMAIN Tags[t] : FieldOf(Tags[t][j]) = f
        <3>1. f \in 1..8 BY <1>3, <1>5
        <3>2. CASE f <= 5
            <4>1. f \in DOMAIN Tags[t] BY <1>2, <1>5, <3>1, <3>2
            <4>2. QED BY <2>1, <3>2, <4>1
        <3>3. CASE f > 6
            <4>1. f - 1 \in DOMAIN Tags[t] BY <1>2, <1>5, <3>1, <3>3
            <4>2. FieldOf(Tags[t][f - 1]) = f BY <2>1, <3>1, <3>3, <4>1
            <4>3. QED BY <4>1, <4>2
        <3>4. QED BY <2>3, <3>1, <3>2, <3>3
    <2>4. QED BY <1>2, <1>5, <2>2, <2>3
<1>6. QED BY <1>1, <1>4, <1>5 DEF Tagged

\* Reading all pieces of v merges v.
LEMMA PiecesApplied ==
    ASSUME NEW t \in Messages, NEW m \in Values[t], NEW v \in Values[t]
    PROVE  Applied(t, m, Pieces(t, v)) = Merged[t][m][v]
<1> DEFINE PS == PieceSet(t, Texts)
           n == Len(Tags[t])
           F(j) == FieldOf(Tags[t][j])
           New(f) == MergedField(Merged, Fields[t][f], m[f], v[f])
           Read1(f, i) == \E j \in 1..i : F(j) = f
           Mixed(i) == [f \in DOMAIN Fields[t] |-> IF Read1(f, i) THEN New(f) ELSE m[f]]
           ff == [j \in DOMAIN Tags[t] |-> FieldPieces(t, v, j)]
<1>1. n \in Nat /\ DOMAIN Tags[t] = 1..n BY TagsDiffer
<1>2. /\ ff \in Seq(Seq(PS)) /\ Pieces(t, v) = FlattenSeq(ff) /\ Len(ff) = n
      /\ \A j \in 1..n : ff[j] = FieldPieces(t, v, j)
    <2>1. ff \in Seq(Seq(PS)) /\ Pieces(t, v) = FlattenSeq(ff) BY PiecesType DEF Values
    <2>2. DOMAIN ff = 1..n /\ \A j \in 1..n : ff[j] = FieldPieces(t, v, j) BY <1>1
    <2> HIDE DEF ff, PS, n
    <2>3. Len(ff) = n BY <1>1, <2>1, <2>2
    <2>4. QED BY <2>1, <2>2, <2>3
<1>3. PICK g \in [0..n -> Seq(PS)] :
        g[0] = <<>> /\ (\A i \in 1..n : g[i] = g[i - 1] \o ff[i]) /\ FlattenSeq(ff) = g[n]
    <2>1. \E g \in [0..Len(ff) -> Seq(PS)] :
            g[0] = <<>> /\ (\A i \in 1..Len(ff) : g[i] = g[i - 1] \o ff[i]) /\ FlattenSeq(ff) = g[Len(ff)]
        <3> HIDE DEF ff, PS
        <3>1. QED BY <1>2, FlattenRuns
    <2> HIDE DEF ff, PS, n
    <2>2. QED BY <1>2, <2>1
<1>4. /\ m = [f \in DOMAIN Fields[t] |-> m[f]]
      /\ \A f \in DOMAIN Fields[t] : m[f] \in FieldSet(Fields[t][f]) /\ v[f] \in FieldSet(Fields[t][f])
    BY ValueFields
<1>5. \A j \in 1..n : F(j) \in DOMAIN Fields[t] /\ KindOf(t, Tags[t][j]) = Fields[t][F(j)]
    BY <1>1, TagsMatch DEF Tagged, KindOf
<1> DEFINE T == {i \in Nat : Applied(t, m, g[i]) = Mixed(i)}
<1>6. 0 \in T
    <2>1. Applied(t, m, <<>>) = m BY AppliedEmpty
    <2>2. \A f : ~Read1(f, 0) OBVIOUS
    <2> HIDE DEF Read1
    <2>3. Mixed(0) = m BY <1>4, <2>2
    <2> HIDE DEF Mixed
    <2>4. QED BY <1>3, <2>1, <2>3
<1>7. ASSUME NEW i \in 1..n, i - 1 \in T PROVE i \in T
    <2>1. Applied(t, m, g[i - 1]) = Mixed(i - 1) BY <1>7
    <2>2. i - 1 \in 0..n /\ i \in 0..n BY <1>1
    <2>3. g[i - 1] \in Seq(PS) /\ g[i] = g[i - 1] \o FieldPieces(t, v, i) /\ FieldPieces(t, v, i) \in Seq(PS)
        <3>1. i \in DOMAIN Tags[t] BY <1>1
        <3>2. FieldPieces(t, v, i) \in Seq(PS) BY <3>1, FieldPiecesType DEF Values
        <3>3. QED BY <1>2, <1>3, <2>2, <3>2
    <2>4. Mixed(i - 1) \in Values[t]
        <3> HIDE DEF Mixed
        <3>1. Applied(t, m, g[i - 1]) \in Values[t] BY <2>3, AppliedType DEF PS
        <3>2. QED BY <2>1, <3>1
    <2>5. Applied(t, m, g[i]) = Applied(t, Mixed(i - 1), FieldPieces(t, v, i))
        <3> HIDE DEF Mixed
        <3>1. Applied(t, m, g[i - 1] \o FieldPieces(t, v, i)) = Applied(t, Applied(t, m, g[i - 1]), FieldPieces(t, v, i))
            BY <2>3, AppliedConcat DEF PS
        <3>2. QED BY <2>1, <2>3, <3>1
    <2>6. Applied(t, Mixed(i - 1), FieldPieces(t, v, i))
            = [Mixed(i - 1) EXCEPT ![F(i)] = MergedField(Merged, Fields[t][F(i)], Mixed(i - 1)[F(i)], v[F(i)])]
        <3> HIDE DEF Mixed
        <3>1. i \in DOMAIN Tags[t] BY <1>1
        <3>2. QED BY <1>5, <2>4, <3>1, FieldApplied DEF WithField
    <2>7. ~Read1(F(i), i - 1)
        <3>1. \A j \in 1..i - 1 : j \in DOMAIN Tags[t] /\ i \in DOMAIN Tags[t] /\ j # i BY <1>1
        <3>2. \A j \in 1..i - 1 : F(j) # F(i) BY <3>1, TagsDiffer
        <3>3. QED BY <3>2
    <2>8. \A f : Read1(f, i) <=> Read1(f, i - 1) \/ f = F(i)
        <3> HIDE DEF F
        <3>1. 1..i = 1..(i - 1) \cup {i} BY <1>1
        <3>2. QED BY <3>1
    <2> HIDE DEF Read1, New
    <2>9. F(i) \in DOMAIN Fields[t] BY <1>5
    <2>10. Mixed(i - 1)[F(i)] = m[F(i)] BY <2>7, <2>9
    <2>11. [Mixed(i - 1) EXCEPT ![F(i)] = New(F(i))] = Mixed(i)
        <3> DEFINE a == Mixed(i - 1)
                   b == [a EXCEPT ![F(i)] = New(F(i))]
        <3>1. DOMAIN a = DOMAIN Fields[t] OBVIOUS
        <3>2. b = [f \in DOMAIN Fields[t] |-> IF f = F(i) THEN New(f) ELSE a[f]] BY <3>1
        <3>3. \A f \in DOMAIN Fields[t] : a[f] = IF Read1(f, i - 1) THEN New(f) ELSE m[f] OBVIOUS
        <3> HIDE DEF a, b, F
        <3>4. b = Mixed(i) BY <2>8, <3>2, <3>3
        <3>5. QED BY <3>4 DEF a, b
    <2>12. MergedField(Merged, Fields[t][F(i)], m[F(i)], v[F(i)]) = New(F(i)) BY DEF New
    <2> HIDE DEF Mixed, F
    <2>13. Applied(t, m, g[i]) = Mixed(i) BY <2>5, <2>6, <2>10, <2>11, <2>12
    <2>14. QED BY <2>13
<1>8. \A i \in 0..n : i \in T
    <2> HIDE DEF T, n
    <2>1. T \in SUBSET Nat BY DEF T
    <2>2. QED BY <1>1, <1>6, <1>7, <2>1, BoundedInduction
<1>9. Applied(t, m, Pieces(t, v)) = Mixed(n)
    <2>1. n \in 0..n BY <1>1
    <2>2. Applied(t, m, g[n]) = Mixed(n)
        <3> HIDE DEF Mixed
        <3>1. QED BY <1>8, <2>1
    <2> HIDE DEF Mixed, ff, T
    <2>3. QED BY <1>2, <1>3, <2>2
<1>10. ASSUME NEW f \in DOMAIN Fields[t] PROVE (IF Read1(f, n) THEN New(f) ELSE m[f]) = New(f)
    <2>1. SUFFICES ASSUME ~Read1(f, n) PROVE m[f] = New(f) OBVIOUS
    <2>2. Fields[t][f].kind = "gap" BY <1>1, <2>1, TagsDiffer
    <2>3. FieldSet(Fields[t][f]) = {Nil} BY <2>2 DEF FieldSet, FieldValues
    <2>4. New(f) = v[f] BY <2>2 DEF MergedField
    <2>5. QED BY <1>4, <2>3, <2>4
<1>11. Mixed(n) = [f \in DOMAIN Fields[t] |-> New(f)] BY <1>10
<1>12. QED BY <1>9, <1>11, MergedAt

-----------------------------------------------------------------------------
(* The input, as the pieces it is made of.                                 *)

AllPieces(t, parts) == FlattenSeq([i \in DOMAIN parts |-> Pieces(t, parts[i])])

\* Reading all of several encodings merges them all.
LEMMA AllPiecesApplied ==
    ASSUME NEW t \in Messages, NEW parts \in Seq(Values[t]), parts # <<>>
    PROVE  /\ AllPieces(t, parts) \in Seq(PieceSet(t, Texts))
           /\ MergedAll(t, parts) \in Values[t]
           /\ Applied(t, Zero[t], AllPieces(t, parts)) = MergedAll(t, parts)
<1> DEFINE n == Len(parts)
           D == 1..n
           A == Values[t]
           PS == PieceSet(t, Texts)
           Fl(f) == f = [i \in D |-> IF i = 1 THEN parts[1] ELSE Merged[t][f[i - 1]][parts[i]]]
           fl == CHOOSE f : Fl(f)
           ss == [i \in DOMAIN parts |-> Pieces(t, parts[i])]
<1>0. n \in Nat /\ n # 0 /\ n \in D /\ 1 \in D /\ DOMAIN parts = D /\ \A i \in D : parts[i] \in A
    OBVIOUS
<1>1. MergedAll(t, parts) = fl[n] BY DEF MergedAll
<1>2. \A x, y \in A : Merged[t][x][y] \in A BY MergedType DEF MergedTyped
<1>3. Fl(fl)
    <2> DEFINE F == [i \in D |-> [x \in A |-> Merged[t][x][parts[i]]]]
               p == [i \in D |-> i - 1]
               base == {1}
    <2>1. Recursion(D, base, A, parts, F, p)
        <3>1. \A i \in D : \A x \in A : Merged[t][x][parts[i]] \in A BY <1>0, <1>2
        <3>2. D \subseteq Nat /\ \A i \in D : i \notin base => p[i] \in D /\ p[i] < i BY <1>0
        <3>3. parts \in [D -> A] BY <1>0
        <3> HIDE DEF A
        <3>4. F \in [D -> [A -> A]] BY <3>1
        <3>5. QED BY <3>2, <3>3, <3>4 DEF Recursion
    <2>2. \E f : Solves(f, D, base, A, parts, F, p)
        <3> HIDE DEF F, p, D, base, A
        <3>1. QED BY <2>1, RecursionExists
    <2>3. PICK f \in [D -> A] : \A i \in D : f[i] = IF i \in base THEN parts[i] ELSE F[i][f[p[i]]]
        BY <2>2 DEF Solves
    <2>4. ASSUME NEW i \in D, i # 1 PROVE F[i][f[p[i]]] = Merged[t][f[i - 1]][parts[i]]
        <3>1. i - 1 \in D /\ p[i] = i - 1 BY <1>0, <2>4
        <3> HIDE DEF A
        <3>2. f[i - 1] \in A BY <3>1
        <3>3. QED BY <2>4, <3>1, <3>2
    <2>5. \A i \in D : f[i] = IF i = 1 THEN parts[1] ELSE Merged[t][f[i - 1]][parts[i]] BY <2>3, <2>4
    <2>6. Fl(f) BY <2>5
    <2> HIDE DEF Fl
    <2>7. QED BY <2>6
<1> HIDE DEF fl
<1>4. \A i \in D : fl[i] = IF i = 1 THEN parts[1] ELSE Merged[t][fl[i - 1]][parts[i]] BY <1>3
<1>5. ss \in Seq(Seq(PS)) /\ Len(ss) = n /\ \A i \in D : ss[i] = Pieces(t, parts[i]) /\ ss[i] \in Seq(PS)
    <2>1. \A i \in D : Pieces(t, parts[i]) \in Seq(PS) BY <1>0, PiecesType DEF Values
    <2>2. DOMAIN ss = D /\ \A i \in D : ss[i] = Pieces(t, parts[i]) BY <1>0
    <2>3. ss \in [1..n -> Seq(PS)] BY <1>0, <2>1
    <2> HIDE DEF ss, PS, n
    <2>4. ss \in Seq(Seq(PS)) /\ Len(ss) = n BY <1>0, <2>3
    <2>5. QED BY <2>1, <2>2, <2>4
<1>6. PICK g \in [0..n -> Seq(PS)] :
        g[0] = <<>> /\ (\A i \in 1..n : g[i] = g[i - 1] \o ss[i]) /\ FlattenSeq(ss) = g[n]
    <2>1. \E g \in [0..Len(ss) -> Seq(PS)] :
            g[0] = <<>> /\ (\A i \in 1..Len(ss) : g[i] = g[i - 1] \o ss[i]) /\ FlattenSeq(ss) = g[Len(ss)]
        <3> HIDE DEF ss, PS
        <3>1. QED BY <1>5, FlattenRuns
    <2> HIDE DEF ss, PS, n
    <2>2. QED BY <1>5, <2>1
<1>7. Zero[t] \in A BY ZeroType DEF ZeroTyped
<1> DEFINE T == {i \in Nat : i # 0 => fl[i] \in A /\ Applied(t, Zero[t], g[i]) = fl[i]}
<1>8. 0 \in T OBVIOUS
<1>9. ASSUME NEW i \in 1..n, i - 1 \in T PROVE i \in T
    <2>1. i - 1 \in 0..n /\ i \in 0..n /\ i \in D /\ i # 0 BY <1>0
    <2>2. g[i - 1] \in Seq(PS) /\ g[i] = g[i - 1] \o Pieces(t, parts[i]) /\ Pieces(t, parts[i]) \in Seq(PS)
        BY <1>5, <1>6, <2>1
    <2>3. parts[i] \in A BY <1>0
    <2>4. CASE i = 1
        <3>1. g[i] = Pieces(t, parts[i])
            <4> DEFINE q == Pieces(t, parts[i])
            <4>0. i - 1 = 0 BY <2>4
            <4>1. q \in Seq(PS) /\ g[i] = g[0] \o q BY <2>2, <4>0
            <4> HIDE DEF q, T
            <4>2. <<>> \o q = q BY <4>1, ConcatEmptySeq
            <4>3. QED BY <1>6, <4>1, <4>2 DEF q
        <3>2. Applied(t, Zero[t], Pieces(t, parts[i])) = Merged[t][Zero[t]][parts[i]]
            BY <1>7, <2>3, PiecesApplied
        <3>3. Merged[t][Zero[t]][parts[i]] = parts[i] BY <2>3, ZeroNeutral DEF Neutral
        <3>4. fl[i] = parts[i] BY <1>4, <2>1, <2>4
        <3>5. QED BY <2>1, <2>3, <3>1, <3>2, <3>3, <3>4
    <2>5. CASE i # 1
        <3>1. i - 1 # 0 /\ i - 1 \in D BY <1>0, <2>5
        <3>2. fl[i - 1] \in A /\ Applied(t, Zero[t], g[i - 1]) = fl[i - 1] BY <1>9, <3>1
        <3>3. fl[i] = Merged[t][fl[i - 1]][parts[i]] BY <1>4, <2>1, <2>5
        <3>4. fl[i] \in A BY <1>2, <2>3, <3>2, <3>3
        <3>5. Applied(t, Zero[t], g[i - 1] \o Pieces(t, parts[i]))
                = Applied(t, Applied(t, Zero[t], g[i - 1]), Pieces(t, parts[i]))
            BY <1>7, <2>2, AppliedConcat DEF PS
        <3>6. Applied(t, fl[i - 1], Pieces(t, parts[i])) = Merged[t][fl[i - 1]][parts[i]]
            BY <2>3, <3>2, PiecesApplied
        <3>7. Applied(t, Zero[t], g[i]) = fl[i]
            <4> HIDE DEF T, ss
            <4>1. QED BY <2>2, <3>2, <3>3, <3>5, <3>6
        <3>8. QED BY <2>1, <3>4, <3>7
    <2>6. QED BY <2>4, <2>5
<1>10. \A i \in 0..n : i \in T
    <2> HIDE DEF T, n
    <2>1. T \in SUBSET Nat BY DEF T
    <2>2. QED BY <1>0, <1>8, <1>9, <2>1, BoundedInduction
<1>11. n \in T /\ n # 0 BY <1>0, <1>10
<1>12. AllPieces(t, parts) = g[n] /\ g[n] \in Seq(PS)
    <2>1. AllPieces(t, parts) = FlattenSeq(ss) BY DEF AllPieces
    <2>2. n \in 0..n BY <1>0
    <2> HIDE DEF ss, n, T
    <2>3. QED BY <1>6, <2>1, <2>2
<1>13. QED BY <1>1, <1>11, <1>12

\* Nothing is cut off the buffer, and nothing is left of its room.
LEMMA MarshalWrites ==
    ASSUME NEW t \in Messages, NEW v \in Values[t]
    PROVE  Marshal(t, v) = Written[t][v] /\ Written[t][v] \in Texts
<1> DEFINE w == Written[t][v]
<1>1. w \in Seq(0..255) /\ Size[t][v] = Len(w) BY SizeIsLength DEF Exact, Texts
<1>2. Marshal(t, v) = SubSeq([j \in 1..(Size[t][v] - Len(w)) |-> 0] \o w, 1, Len(w)) BY DEF Marshal
<1> HIDE DEF w
<1>3. [j \in 1..(Size[t][v] - Len(w)) |-> 0] \o w = w
    <2>1. Size[t][v] - Len(w) = 0 BY <1>1
    <2>2. [j \in 1..0 |-> 0] = <<>> OBVIOUS
    <2>3. <<>> \o w = w BY <1>1, ConcatEmptySeq
    <2>4. QED BY <2>1, <2>2, <2>3
<1>4. SubSeq(w, 1, Len(w)) = w BY <1>1
<1>5. Marshal(t, v) = w BY <1>2, <1>3, <1>4
<1>6. QED BY <1>1, <1>5 DEF w, Texts

-----------------------------------------------------------------------------
(* What a newer version writes.                                            *)

NewerBy(extra, w, t) ==
    [at \in Seq(Nat) |-> [v \in Values[t] |->
        LET p == Pieces(t, v)
            inner(c) == [u \in Messages |-> w[u][Append(at, c)]]
        IN Between(extra, t, Append(at, 0)) \o FlattenSeq([c \in DOMAIN p |->
                Chunk(inner(c), t, p[c]) \o Between(extra, t, Append(at, c))])]]

LEMMA NewerByAgrees ==
    ASSUME NEW extra, NEW t \in Messages, NEW g, NEW h, AgreeBelow(g, h, Rank(t))
    PROVE  NewerBy(extra, g, t) = NewerBy(extra, h, t)
<1> DEFINE ig(at, c) == [u \in Messages |-> g[u][Append(at, c)]]
           ih(at, c) == [u \in Messages |-> h[u][Append(at, c)]]
<1>1. ASSUME NEW at, NEW c PROVE AgreeBelow(ig(at, c), ih(at, c), Rank(t)) BY DEF AgreeBelow
<1>2. ASSUME NEW at, NEW c, NEW p \in PieceSet(t, Texts)
      PROVE  Chunk(ig(at, c), t, p) = Chunk(ih(at, c), t, p)
    <2> HIDE DEF ig, ih
    <2>1. QED BY <1>1, ChunkAgrees
<1>3. ASSUME NEW at \in Seq(Nat), NEW v \in Values[t]
      PROVE  NewerBy(extra, g, t)[at][v] = NewerBy(extra, h, t)[at][v]
    <2> DEFINE p == Pieces(t, v)
               G(c) == Between(extra, t, Append(at, c))
    <2>1. p \in Seq(PieceSet(t, Texts)) BY PiecesType DEF Values
    <2>2. NewerBy(extra, g, t)[at][v]
            = G(0) \o FlattenSeq([c \in DOMAIN p |-> Chunk(ig(at, c), t, p[c]) \o G(c)])
        BY DEF NewerBy
    <2>3. NewerBy(extra, h, t)[at][v]
            = G(0) \o FlattenSeq([c \in DOMAIN p |-> Chunk(ih(at, c), t, p[c]) \o G(c)])
        BY DEF NewerBy
    <2> HIDE DEF p, G, ig, ih
    <2>4. [c \in DOMAIN p |-> Chunk(ig(at, c), t, p[c]) \o G(c)]
            = [c \in DOMAIN p |-> Chunk(ih(at, c), t, p[c]) \o G(c)]
        <3>1. \A c \in DOMAIN p : p[c] \in PieceSet(t, Texts) BY <2>1
        <3>2. QED BY <1>2, <3>1
    <2>5. QED BY <2>2, <2>3, <2>4
<1>4. QED
    <2> DEFINE A == NewerBy(extra, g, t)
               B == NewerBy(extra, h, t)
    <2>1. A = [at \in Seq(Nat) |-> [v \in Values[t] |-> A[at][v]]] BY DEF NewerBy
    <2>2. B = [at \in Seq(Nat) |-> [v \in Values[t] |-> B[at][v]]] BY DEF NewerBy
    <2>3. \A at \in Seq(Nat) : \A v \in Values[t] : A[at][v] = B[at][v] BY <1>3
    <2> HIDE DEF A, B
    <2>4. A = B BY <2>1, <2>2, <2>3
    <2>5. QED BY <2>4 DEF A, B

LEMMA NewerUnfolds ==
    ASSUME NEW extra, NEW t \in Messages
    PROVE  Newer(extra)[t] = NewerBy(extra, Newer(extra), t)
<1> DEFINE Step(w) == [u \in Messages |-> NewerBy(extra, w, u)]
           W0 == [u \in Messages |-> <<>>]
           W1 == Step(W0)
           W2 == Step(W1)
           W3 == Step(W2)
           W4 == Step(W3)
           W5 == Step(W4)
<1>1. ASSUME NEW g, NEW h, NEW r \in Nat, AgreeBelow(g, h, r)
      PROVE  AgreeBelow(Step(g), Step(h), r + 1)
    <2>1. SUFFICES ASSUME NEW u \in Messages, Rank(u) < r + 1 PROVE Step(g)[u] = Step(h)[u]
        BY DEF AgreeBelow
    <2>2. AgreeBelow(g, h, Rank(u)) BY <1>1, <2>1, RankType DEF AgreeBelow
    <2>3. NewerBy(extra, g, u) = NewerBy(extra, h, u) BY <2>2, NewerByAgrees
    <2>4. QED BY <2>3
<1>2. \E w : w = Step(w)
    <2>1. AgreeBelow(W0, W1, 1) BY RankType DEF AgreeBelow
    <2> HIDE DEF W0, Step
    <2>2. AgreeBelow(W1, W2, 1 + 1) BY <1>1, <2>1
    <2> HIDE DEF W1
    <2>3. AgreeBelow(W2, W3, 1 + 1 + 1) BY <1>1, <2>2
    <2> HIDE DEF W2
    <2>4. AgreeBelow(W3, W4, 1 + 1 + 1 + 1) BY <1>1, <2>3
    <2> HIDE DEF W3
    <2>5. AgreeBelow(W4, W5, 1 + 1 + 1 + 1 + 1) BY <1>1, <2>4
    <2>6. \A u \in Messages : W4[u] = W5[u] BY <2>5, RankType DEF AgreeBelow
    <2>7. W4 = [u \in Messages |-> W4[u]] BY DEF W4, Step
    <2>8. W5 = [u \in Messages |-> W5[u]] BY DEF Step
    <2>9. W4 = W5 BY <2>6, <2>7, <2>8
    <2>10. QED BY <2>9
<1>3. Newer(extra) = Step(Newer(extra))
    <2>1. Newer(extra) = CHOOSE w : w = Step(w) BY DEF Newer, NewerBy
    <2> HIDE DEF Step
    <2>2. QED BY <1>2, <2>1
<1>4. QED BY <1>3
=============================================================================
