-------------------------- MODULE DlnaSessionProofs --------------------------
(***************************************************************************)
(* Proofs about DlnaSession.                                               *)
(***************************************************************************)
EXTENDS DlnaSession, TranscodeProofs, CatalogProofs

-----------------------------------------------------------------------------
(* Spans of tokens.                                                        *)

\* What lies between elements; no tag of a span has the name q.
Blank(s)    == \A i \in 1..Len(s) : s[i].k \in {"space", "comment"}
NoTag(s, q) == \A i \in 1..Len(s) : s[i].k \in {"open", "close"} => s[i].q # q

LEMMA MinIs ==
  ASSUME NEW T \in SUBSET Int, NEW m \in T, \A x \in T : m <= x
  PROVE  Min(T) = m
<1>1. \E x \in T : \A y \in T : x <= y
  OBVIOUS
<1>2. Min(T) \in T /\ \A y \in T : Min(T) <= y
  BY <1>1 DEF Min
<1>3. Min(T) \in Int /\ m \in Int /\ m <= Min(T) /\ Min(T) <= m
  BY <1>2
<1> QED BY <1>3

LEMMA SkipIs ==
  ASSUME NEW S, NEW s \in Seq(S), NEW Passed, NEW p \in Nat \ {0}, NEW n \in Nat,
         p <= n, n <= Len(s) + 1,
         \A i \in p..(n - 1) : s[i].k \in Passed,
         n = Len(s) + 1 \/ s[n].k \notin Passed
  PROVE  Skip(s, p, Passed) = n
<1> DEFINE T == {i \in p..Len(s) : s[i].k \notin Passed} \cup {Len(s) + 1}
<1>1. Len(s) \in Nat
  BY LenProperties
<1>2. T \in SUBSET Int /\ n \in T
  BY <1>1
<1>3. \A x \in T : n <= x
  BY <1>1
<1> HIDE DEF T
<1>4. Min(T) = n
  BY <1>2, <1>3, MinIs
<1> QED BY <1>4 DEF Skip, T

\* The next element is behind what may lie between elements.
LEMMA NextIs ==
  ASSUME NEW S, NEW s \in Seq(S), NEW p \in Nat \ {0}, NEW n \in Nat,
         p <= n, n <= Len(s) + 1,
         \A i \in p..(n - 1) : s[i].k \in {"space", "comment"},
         n = Len(s) + 1 \/ s[n].k \in {"open", "close"}
  PROVE  NextElement(s, p) = IF n <= Len(s) /\ s[n].k = "open" THEN n ELSE 0
<1>1. Skip(s, p, {"space", "text", "comment", "cdata"}) = n
  <2>1. \A i \in p..(n - 1) : s[i].k \in {"space", "text", "comment", "cdata"}
    OBVIOUS
  <2>2. n = Len(s) + 1 \/ s[n].k \notin {"space", "text", "comment", "cdata"}
    OBVIOUS
  <2> QED BY <2>1, <2>2, SkipIs
<1> QED BY <1>1 DEF NextElement, IsOpen

\* An element ends at the first end tag of its name if nothing in it has that name.
LEMMA FindCloseIs ==
  ASSUME NEW S, NEW s \in Seq(S), NEW p \in 1..Len(s), NEW c \in 1..Len(s), p < c,
         s[c].k = "close", s[c].q = s[p].q,
         \A i \in (p + 1)..(c - 1) : s[i].k \in {"open", "close"} => s[i].q # s[p].q
  PROVE  FindClose(s, p) = c
<1> DEFINE tags == {i \in (p + 1)..Len(s) :
                      \/ IsOpen(s[i]) /\ s[i].q = s[p].q /\ ~ s[i].self
                      \/ s[i].k = "close" /\ s[i].q = s[p].q}
           upTo(i) == {j \in tags : j <= i}
           opens(i) == {j \in upTo(i) : IsOpen(s[j])}
           ends == {i \in tags : 2 * Cardinality(opens(i)) < Cardinality(upTo(i))}
<1>1. Len(s) \in Nat
  BY LenProperties
<1>2. c \in tags
  BY <1>1
<1>3. \A i \in tags : c <= i
  BY <1>1 DEF IsOpen
<1>4. upTo(c) = {c}
  BY <1>1, <1>2, <1>3
<1>5. opens(c) = {}
  BY <1>4 DEF IsOpen
<1>6. Cardinality(opens(c)) = 0 /\ Cardinality(upTo(c)) = 1
  BY <1>4, <1>5, FS_EmptySet, FS_Singleton
<1>7. c \in ends
  BY <1>2, <1>6
<1>8. ends \in SUBSET Int /\ \A i \in ends : c <= i
  BY <1>3
<1> HIDE DEF ends
<1>9. Min(ends) = c /\ ends # {}
  BY <1>7, <1>8, MinIs
<1> QED BY <1>9 DEF FindClose, ends

\* The span t lies in the span s behind its first a tokens.
Holds(s, a, t) == a + Len(t) <= Len(s) /\ \A i \in 1..Len(t) : s[a + i] = t[i]

LEMMA HoldsAll ==
  ASSUME NEW S, NEW s \in Seq(S)
  PROVE  Holds(s, 0, s)
<1>1. Len(s) \in Nat
  BY LenProperties
<1> QED BY <1>1 DEF Holds

LEMMA HoldsCat ==
  ASSUME NEW S, NEW t \in Seq(S), NEW u \in Seq(S), NEW s \in Seq(S), NEW a \in Nat,
         Holds(s, a, t \o u)
  PROVE  Holds(s, a, t) /\ Holds(s, a + Len(t), u)
<1>1. Len(t) \in Nat /\ Len(u) \in Nat /\ Len(s) \in Nat
  BY LenProperties
<1> DEFINE w == t \o u
<1>2. /\ Len(w) = Len(t) + Len(u)
      /\ \A i \in 1..(Len(t) + Len(u)) : w[i] = IF i <= Len(t) THEN t[i] ELSE u[i - Len(t)]
  BY ConcatProperties
<1>3. Holds(s, a, w)
  OBVIOUS
<1> HIDE DEF w
<1>4. a + Len(w) <= Len(s) /\ \A i \in 1..Len(w) : s[a + i] = w[i]
  BY <1>3 DEF Holds
<1>5. \A i \in 1..Len(t) : s[a + i] = t[i]
  <2> SUFFICES ASSUME NEW i \in 1..Len(t) PROVE s[a + i] = t[i]
    OBVIOUS
  <2>1. i \in 1..(Len(t) + Len(u)) /\ i <= Len(t)
    BY <1>1
  <2>2. w[i] = t[i]
    BY <1>2, <2>1
  <2>3. s[a + i] = w[i]
    BY <1>2, <1>4, <2>1
  <2> QED BY <2>2, <2>3
<1>6. \A i \in 1..Len(u) : s[a + Len(t) + i] = u[i]
  <2> SUFFICES ASSUME NEW i \in 1..Len(u) PROVE s[a + Len(t) + i] = u[i]
    OBVIOUS
  <2>1. Len(t) + i \in 1..Len(w) /\ ~ (Len(t) + i <= Len(t)) /\ Len(t) + i - Len(t) = i
    BY <1>1, <1>2
  <2>2. w[Len(t) + i] = u[i]
    BY <1>2, <2>1
  <2>3. s[a + (Len(t) + i)] = w[Len(t) + i] /\ a + (Len(t) + i) = a + Len(t) + i
    BY <1>1, <1>4, <2>1
  <2> QED BY <2>2, <2>3
<1>7. a + Len(t) <= Len(s) /\ a + Len(t) + Len(u) <= Len(s)
  BY <1>1, <1>2, <1>4
<1> QED BY <1>5, <1>6, <1>7 DEF Holds

LEMMA HoldsElement ==
  ASSUME NEW S, NEW inner \in Seq(S), NEW s \in Seq(S), NEW a \in Nat,
         NEW q, NEW ns, Open(q, ns) \in S, Close(q) \in S,
         Holds(s, a, Element(q, ns, inner))
  PROVE  /\ s[a + 1] = Open(q, ns)
         /\ Holds(s, a + 1, inner)
         /\ a + 1 + Len(inner) < Len(s) /\ s[a + 1 + Len(inner) + 1] = Close(q)
<1> DEFINE o == <<Open(q, ns)>>
           c == <<Close(q)>>
<1>1. o \in Seq(S) /\ Len(o) = 1 /\ o[1] = Open(q, ns)
  OBVIOUS
<1>2. c \in Seq(S) /\ Len(c) = 1 /\ c[1] = Close(q)
  OBVIOUS
<1>3. Holds(s, a, (o \o inner) \o c)
  BY DEF Element
<1> HIDE DEF o, c
<1>4. o \o inner \in Seq(S) /\ Len(o \o inner) = Len(o) + Len(inner) /\ Len(inner) \in Nat
  BY <1>1, ConcatProperties, LenProperties
<1>5. Holds(s, a, o \o inner) /\ Holds(s, a + Len(o \o inner), c)
  BY <1>2, <1>3, <1>4, HoldsCat
<1>6. Holds(s, a, o) /\ Holds(s, a + Len(o), inner)
  BY <1>1, <1>5, HoldsCat
<1>7. s[a + 1] = o[1]
  BY <1>1, <1>6 DEF Holds
<1>8. a + 1 + Len(inner) + 1 <= Len(s) /\ s[a + 1 + Len(inner) + 1] = c[1]
  <2> DEFINE b == a + Len(o \o inner)
  <2>1. b = a + 1 + Len(inner)
    BY <1>1, <1>4
  <2> HIDE DEF b
  <2>2. Holds(s, b, c)
    BY <1>5 DEF b
  <2>3. b + 1 <= Len(s) /\ s[b + 1] = c[1]
    BY <1>2, <2>2 DEF Holds
  <2> QED BY <2>1, <2>3
<1>9. Len(s) \in Nat
  BY LenProperties
<1> QED BY <1>1, <1>2, <1>4, <1>6, <1>7, <1>8, <1>9

LEMMA SubSeqIs ==
  ASSUME NEW S, NEW s \in Seq(S), NEW t \in Seq(S), NEW n \in Nat,
         n + Len(t) <= Len(s), \A i \in 1..Len(t) : s[n + i] = t[i]
  PROVE  SubSeq(s, n + 1, n + Len(t)) = t
<1>1. Len(t) \in Nat /\ Len(s) \in Nat
  BY LenProperties
<1>2. \A i \in (n + 1)..(n + Len(t)) : s[i] \in S
  BY <1>1, ElementOfSeq
<1> DEFINE a == n + 1
           b == n + Len(t)
           u == SubSeq(s, a, b)
<1>3. a \in Int /\ b \in Int /\ b - a + 1 = Len(t) /\ (a <= b <=> Len(t) # 0)
  BY <1>1
<1>4. \A i \in a..b : s[i] \in S
  BY <1>2
<1> HIDE DEF a, b
<1>5. /\ u \in Seq(S) /\ Len(u) = IF a <= b THEN b - a + 1 ELSE 0
      /\ \A i \in 1..(b - a + 1) : u[i] = s[a + i - 1]
  BY <1>3, <1>4, SubSeqProperties
<1> HIDE DEF u
<1>6. Len(u) = Len(t)
  BY <1>1, <1>3, <1>5
<1>7. \A i \in 1..Len(t) : u[i] = t[i]
  <2> SUFFICES ASSUME NEW i \in 1..Len(t) PROVE u[i] = t[i]
    OBVIOUS
  <2>1. a + i - 1 = n + i
    BY DEF a
  <2> QED BY <1>3, <1>5, <2>1
<1>8. u = t
  BY <1>5, <1>6, <1>7, SeqEqual
<1> QED BY <1>8 DEF u, a, b

\* An element in a span, behind blanks: where it is found and what it holds.
LEMMA ElementAt ==
  ASSUME NEW S, NEW s \in Seq(S), NEW g \in Seq(S), NEW inner \in Seq(S), NEW a \in Nat,
         NEW q, NEW ns, Open(q, ns) \in S, Close(q) \in S,
         Blank(g), NoTag(inner, q),
         Holds(s, a, g), Holds(s, a + Len(g), Element(q, ns, inner))
  PROVE  LET n == a + Len(g) + 1 IN
         /\ n + Len(inner) + 1 <= Len(s)
         /\ NextElement(s, a + 1) = n
         /\ s[n] = Open(q, ns) /\ Ends(s, n)
         /\ FindClose(s, n) = n + Len(inner) + 1
         /\ Inner(s, n) = inner
         /\ After(s, n) = n + Len(inner) + 2
<1> DEFINE n == a + Len(g) + 1
<1>1. Len(s) \in Nat /\ Len(g) \in Nat /\ Len(inner) \in Nat /\ a + Len(g) \in Nat
  BY LenProperties
<1>2. /\ s[n] = Open(q, ns) /\ Holds(s, n, inner)
      /\ n + Len(inner) < Len(s) /\ s[n + Len(inner) + 1] = Close(q)
  BY <1>1, HoldsElement
<1>3. \A i \in 1..Len(inner) : s[n + i] = inner[i]
  BY <1>2 DEF Holds
<1>4. \A i \in (a + 1)..(n - 1) : s[i].k \in {"space", "comment"}
  <2> SUFFICES ASSUME NEW i \in (a + 1)..(n - 1) PROVE s[i].k \in {"space", "comment"}
    OBVIOUS
  <2>1. i - a \in 1..Len(g) /\ i = a + (i - a)
    BY <1>1
  <2>2. s[i] = g[i - a]
    BY <2>1 DEF Holds
  <2> QED BY <2>1, <2>2 DEF Blank
<1>5. s[n].k = "open" /\ s[n].q = q /\ ~ s[n].self
  BY <1>2 DEF Open
<1>6. NextElement(s, a + 1) = n
  <2>1. /\ a + 1 \in Nat \ {0} /\ n \in Nat /\ a + 1 <= n /\ n <= Len(s) + 1 /\ n <= Len(s)
    BY <1>1, <1>2
  <2> HIDE DEF n
  <2> QED BY <1>4, <1>5, <2>1, NextIs
<1> DEFINE c == n + Len(inner) + 1
<1>7. FindClose(s, n) = c
  <2>1. \A i \in (n + 1)..(c - 1) : s[i].k \in {"open", "close"} => s[i].q # s[n].q
    <3> SUFFICES ASSUME NEW i \in (n + 1)..(c - 1), s[i].k \in {"open", "close"}
                 PROVE  s[i].q # s[n].q
      OBVIOUS
    <3>1. i - n \in 1..Len(inner) /\ i = n + (i - n)
      BY <1>1
    <3>2. s[i] = inner[i - n]
      BY <1>3, <3>1
    <3> QED BY <1>5, <3>1, <3>2 DEF NoTag
  <2>2. n \in 1..Len(s) /\ c \in 1..Len(s) /\ n < c
    BY <1>1, <1>2
  <2>3. s[c].k = "close" /\ s[c].q = s[n].q
    BY <1>2, <1>5 DEF Close
  <2> HIDE DEF n, c
  <2> QED BY <2>1, <2>2, <2>3, FindCloseIs
<1>8. SubSeq(s, n + 1, n + Len(inner)) = inner
  <2>1. n \in Nat /\ n + Len(inner) <= Len(s)
    BY <1>1, <1>2
  <2> HIDE DEF n
  <2> QED BY <1>3, <2>1, SubSeqIs
<1>9. n \in Nat /\ c # 0 /\ c - 1 = n + Len(inner) /\ c + 1 = n + Len(inner) + 2 /\ c <= Len(s)
  BY <1>1, <1>2
<1> HIDE DEF n, c
<1>10. Inner(s, n) = inner
  BY <1>5, <1>7, <1>8, <1>9 DEF Inner
<1>11. Ends(s, n) /\ After(s, n) = n + Len(inner) + 2
  BY <1>5, <1>7, <1>9 DEF Ends, After
<1> QED BY <1>2, <1>6, <1>7, <1>9, <1>10, <1>11 DEF n, c

-----------------------------------------------------------------------------
(* The elements of a span.                                                 *)

\* Induction over the numbers up to m, as a fact about a set of them.
LEMMA Upward ==
  ASSUME NEW m \in Nat, NEW T, 0 \in T, \A j \in 0..(m - 1) : j \in T => j + 1 \in T
  PROVE  \A j \in 0..m : j \in T
<1> DEFINE Bad == {j \in 0..m : j \notin T}
<1> SUFFICES ASSUME Bad # {} PROVE FALSE
  OBVIOUS
<1>1. PICK j \in Bad : \A n \in Bad : j <= n
  <2>1. Bad \in SUBSET Nat
    OBVIOUS
  <2> QED BY <2>1, Least
<1>2. j \in 0..m /\ j \notin T /\ j # 0
  OBVIOUS
<1>3. j - 1 \in 0..(m - 1) /\ j - 1 \in 0..m /\ ~ (j <= j - 1) /\ (j - 1) + 1 = j
  BY <1>2
<1>4. j - 1 \in T
  BY <1>1, <1>3
<1> QED BY <1>2, <1>3, <1>4

LEMMA Downward ==
  ASSUME NEW m \in Nat, NEW T, m \in T, \A j \in 1..m : j \in T => j - 1 \in T
  PROVE  \A j \in 0..m : j \in T
<1> DEFINE U == {j \in 0..m : m - j \in T}
<1>1. 0 \in U
  OBVIOUS
<1>2. ASSUME NEW j \in 0..(m - 1), j \in U PROVE j + 1 \in U
  <2>1. m - j \in 1..m /\ m - j \in T /\ (m - j) - 1 = m - (j + 1) /\ j + 1 \in 0..m
    BY <1>2
  <2>2. (m - j) - 1 \in T
    BY <2>1
  <2> QED BY <2>1, <2>2
<1> HIDE DEF U
<1>3. \A j \in 0..m : j \in U
  BY <1>1, <1>2, Upward
<1>4. ASSUME NEW j \in 0..m PROVE j \in T
  <2>1. m - j \in 0..m /\ m - (m - j) = j
    OBVIOUS
  <2>2. m - j \in U
    BY <1>3, <2>1
  <2> QED BY <2>1, <2>2 DEF U
<1> QED BY <1>4

LEMMA MinIn ==
  ASSUME NEW T \in SUBSET Nat, T # {}
  PROVE  Min(T) \in T /\ \A x \in T : Min(T) <= x
  BY Least DEF Min

LEMMA NextIn ==
  ASSUME NEW S, NEW s \in Seq(S), NEW p \in Nat \ {0}
  PROVE  NextElement(s, p) = 0 \/ NextElement(s, p) \in p..Len(s)
<1> DEFINE Passed == {"space", "text", "comment", "cdata"}
           T == {i \in p..Len(s) : s[i].k \notin Passed} \cup {Len(s) + 1}
<1>1. Len(s) \in Nat
  BY LenProperties
<1>2. T \in SUBSET Nat /\ T # {} /\ \A i \in T : i <= Len(s) => i \in p..Len(s)
  BY <1>1
<1>3. Skip(s, p, Passed) \in T
  <2> HIDE DEF T
  <2>1. Min(T) \in T
    BY <1>2, MinIn
  <2> QED BY <2>1 DEF Skip, T
<1>4. Skip(s, p, Passed) <= Len(s) => Skip(s, p, Passed) \in p..Len(s)
  <2> HIDE DEF T
  <2> QED BY <1>2, <1>3
<1> QED BY <1>4 DEF NextElement

LEMMA CloseIn ==
  ASSUME NEW S, NEW s \in Seq(S), NEW p \in Nat
  PROVE  FindClose(s, p) = 0 \/ FindClose(s, p) \in (p + 1)..Len(s)
<1> DEFINE tags == {i \in (p + 1)..Len(s) :
                      \/ IsOpen(s[i]) /\ s[i].q = s[p].q /\ ~ s[i].self
                      \/ s[i].k = "close" /\ s[i].q = s[p].q}
           upTo(i) == {j \in tags : j <= i}
           ends == {i \in tags : 2 * Cardinality({j \in upTo(i) : IsOpen(s[j])}) < Cardinality(upTo(i))}
<1>1. Len(s) \in Nat
  BY LenProperties
<1>2. ends \in SUBSET Nat /\ ends \subseteq (p + 1)..Len(s)
  BY <1>1
<1>3. FindClose(s, p) = IF ends = {} THEN 0 ELSE Min(ends)
  BY DEF FindClose
<1> HIDE DEF ends
<1>4. ends # {} => Min(ends) \in ends
  BY <1>2, MinIn
<1> QED BY <1>2, <1>3, <1>4

LEMMA AfterIn ==
  ASSUME NEW S, NEW s \in Seq(S), NEW n \in 1..Len(s), Ends(s, n)
  PROVE  After(s, n) \in (n + 1)..(Len(s) + 1)
<1>1. Len(s) \in Nat
  BY LenProperties
<1>2. FindClose(s, n) = 0 \/ FindClose(s, n) \in (n + 1)..Len(s)
  BY CloseIn
<1> QED BY <1>1, <1>2 DEF Ends, After

\* ElementsOf, from any position on.
ElementsFrom(s) ==
  LET from[p \in 1..(Len(s) + 1)] ==
        LET n == NextElement(s, p) IN
        IF n = 0 THEN <<>> ELSE IF Ends(s, n) THEN <<n>> \o from[After(s, n)] ELSE <<n>>
  IN from

\* The recursion ends, since every element is behind the one before it.
LEMMA ElementsUnfold ==
  ASSUME NEW S, NEW s \in Seq(S), NEW p \in 1..(Len(s) + 1)
  PROVE  ElementsFrom(s)[p] =
           LET n == NextElement(s, p) IN
           IF n = 0 THEN <<>> ELSE IF Ends(s, n) THEN <<n>> \o ElementsFrom(s)[After(s, n)] ELSE <<n>>
<1> DEFINE N == Len(s) + 1
           G(f, x) == LET n == NextElement(s, x) IN
                      IF n = 0 THEN <<>> ELSE IF Ends(s, n) THEN <<n>> \o f[After(s, n)] ELSE <<n>>
           Solves(f, j) == /\ f = [x \in 1..N |-> f[x]]
                           /\ \A x \in (N - j + 1)..N : f[x] = G(f, x)
           Good(j) == \E f : Solves(f, j)
<1>1. Len(s) \in Nat /\ N \in Nat /\ N = Len(s) + 1
  BY LenProperties
<1> HIDE DEF N
<1>2. \A x \in 1..N : LET n == NextElement(s, x) IN
        n # 0 /\ Ends(s, n) => After(s, n) \in (x + 1)..N
  <2> SUFFICES ASSUME NEW x \in 1..N, NextElement(s, x) # 0, Ends(s, NextElement(s, x))
               PROVE  After(s, NextElement(s, x)) \in (x + 1)..N
    OBVIOUS
  <2>1. x \in Nat \ {0}
    BY <1>1
  <2>2. NextElement(s, x) \in x..Len(s)
    BY <2>1, NextIn
  <2>3. NextElement(s, x) \in 1..Len(s)
    BY <1>1, <2>2
  <2>4. After(s, NextElement(s, x)) \in (NextElement(s, x) + 1)..(Len(s) + 1)
    BY <2>3, AfterIn
  <2> QED BY <1>1, <2>2, <2>4
<1>3. ASSUME NEW f, NEW g, NEW x \in 1..N, \A y \in (x + 1)..N : f[y] = g[y]
      PROVE  G(f, x) = G(g, x)
  BY <1>2, <1>3
<1>4. Good(0)
  <2> DEFINE f == [x \in 1..N |-> 0]
  <2>1. f = [x \in 1..N |-> f[x]]
    OBVIOUS
  <2>2. (N - 0 + 1)..N = {}
    BY <1>1
  <2>3. Solves(f, 0)
    <3> HIDE DEF f, G
    <3> QED BY <2>1, <2>2
  <2> QED BY <2>3
<1>5. ASSUME NEW j \in 0..(N - 1), Good(j)
      PROVE  Good(j + 1)
  <2>1. PICK f : Solves(f, j)
    BY <1>5
  <2> DEFINE k == N - j
             g == [x \in 1..N |-> IF x = k THEN G(f, x) ELSE f[x]]
  <2>2. k \in 1..N /\ N - (j + 1) + 1 = k /\ N - j + 1 = k + 1 /\ k \in Int
    BY <1>1
  <2> HIDE DEF k
  <2>3. g = [x \in 1..N |-> g[x]]
    <3> HIDE DEF G
    <3> QED OBVIOUS
  <2>4. \A x \in (k + 1)..N : f[x] = g[x]
    <3> HIDE DEF G
    <3> QED BY <1>1, <2>2
  <2>5. g[k] = G(f, k)
    <3> HIDE DEF G
    <3> QED BY <2>2
  <2> HIDE DEF g
  <2>6. ASSUME NEW x \in k..N PROVE g[x] = G(g, x)
    <3>1. x \in 1..N /\ \A y \in (x + 1)..N : f[y] = g[y]
      BY <1>1, <2>2, <2>4
    <3>2. G(f, x) = G(g, x)
      BY <1>3, <3>1
    <3>3. g[x] = G(f, x)
      <4>1. CASE x = k
        BY <2>5, <4>1
      <4>2. CASE x # k
        <5>1. x \in (k + 1)..N
          BY <1>1, <2>2, <4>2
        <5>2. f[x] = G(f, x)
          <6> HIDE DEF G
          <6> QED BY <2>1, <2>2, <5>1
        <5>3. f[x] = g[x]
          BY <2>4, <5>1
        <5> HIDE DEF G
        <5> QED BY <5>2, <5>3
      <4> QED BY <4>1, <4>2
    <3> HIDE DEF G
    <3> QED BY <3>2, <3>3
  <2> HIDE DEF G
  <2>7. Solves(g, j + 1)
    BY <2>2, <2>3, <2>6
  <2> QED BY <2>7
<1> HIDE DEF G, Solves
<1>6. Good(N)
  <2> DEFINE T == {j \in 0..N : Good(j)}
  <2> HIDE DEF Good
  <2>1. 0 \in T /\ \A j \in 0..(N - 1) : j \in T => j + 1 \in T
    BY <1>1, <1>4, <1>5
  <2>2. N \in 0..N
    BY <1>1
  <2> HIDE DEF T
  <2>3. N \in T
    BY <1>1, <2>1, <2>2, Upward
  <2> QED BY <2>3 DEF T
<1>7. \E f : f = [x \in 1..N |-> G(f, x)]
  <2>1. N - N + 1 = 1
    BY <1>1
  <2>3. PICK f : Solves(f, N)
    BY <1>6
  <2>4. f = [x \in 1..N |-> f[x]] /\ \A x \in 1..N : f[x] = G(f, x)
    BY <2>1, <2>3 DEF Solves
  <2>5. f = [x \in 1..N |-> G(f, x)]
    BY <2>4
  <2> QED BY <2>5
<1> DEFINE from == ElementsFrom(s)
<1>8. from = CHOOSE f : f = [x \in 1..N |-> G(f, x)]
  BY DEF ElementsFrom, N, G
<1> HIDE DEF from
<1>9. from = [x \in 1..N |-> G(from, x)]
  BY <1>7, <1>8
<1>10. from[p] = G(from, p)
  <2>1. p \in 1..N
    BY DEF N
  <2> QED BY <1>9, <2>1
<1> QED BY <1>10 DEF G, from

-----------------------------------------------------------------------------
(* A sequence of spans, one after the other.                               *)

LEMMA FlattenIs ==
  ASSUME NEW S, NEW pieces \in Seq(Seq(S))
  PROVE  \E part \in [0..Len(pieces) -> Seq(S)] :
           /\ part[0] = <<>>
           /\ \A k \in 1..Len(pieces) : part[k] = part[k - 1] \o pieces[k]
           /\ part[Len(pieces)] = FlattenSeq(pieces)
<1> DEFINE m == Len(pieces)
           G(f, i) == IF i = 1 THEN pieces[i] ELSE f[i - 1] \o pieces[i]
           Solves(f, j) == f = [i \in 1..m |-> f[i]] /\ \A i \in 1..j : f[i] = G(f, i)
           Good(j) == \E f : Solves(f, j)
<1>1. m \in Nat /\ \A i \in 1..m : pieces[i] \in Seq(S)
  BY LenProperties, ElementOfSeq
<1>2. CASE m = 0
  <2> DEFINE part == [k \in 0..0 |-> <<>>]
  <2>1. pieces = <<>>
    BY <1>2, EmptySeq
  <2>2. FlattenSeq(pieces) = <<>>
    BY <1>2, <2>1 DEF FlattenSeq
  <2>3. part \in [0..0 -> Seq(S)] /\ part[0] = <<>>
    BY EmptySeq
  <2>4. /\ part \in [0..Len(pieces) -> Seq(S)] /\ part[0] = <<>>
        /\ \A k \in 1..Len(pieces) : part[k] = part[k - 1] \o pieces[k]
        /\ part[Len(pieces)] = FlattenSeq(pieces)
    <3> HIDE DEF part
    <3> QED BY <1>2, <2>2, <2>3
  <2> QED BY <2>4
<1>3. CASE m # 0
  <2> HIDE DEF m
  <2>1. Good(0)
    <3> DEFINE f == [i \in 1..m |-> <<>>]
    <3>1. f = [i \in 1..m |-> f[i]]
      OBVIOUS
    <3>2. Solves(f, 0)
      <4> HIDE DEF f, G
      <4> QED BY <3>1
    <3> QED BY <3>2
  <2>2. ASSUME NEW j \in 0..(m - 1), Good(j) PROVE Good(j + 1)
    <3>1. PICK f : Solves(f, j)
      BY <2>2
    <3> DEFINE g == [i \in 1..m |-> IF i = j + 1 THEN G(f, i) ELSE f[i]]
    <3>2. g = [i \in 1..m |-> g[i]]
      <4> HIDE DEF G
      <4> QED OBVIOUS
    <3>3. \A i \in 1..j : g[i] = f[i]
      <4> HIDE DEF G
      <4> QED BY <1>1
    <3>4. j + 1 \in 1..m /\ g[j + 1] = G(f, j + 1)
      <4>1. j + 1 \in 1..m
        BY <1>1
      <4> HIDE DEF G
      <4> QED BY <4>1
    <3> HIDE DEF g
    <3>5. ASSUME NEW i \in 1..(j + 1) PROVE G(g, i) = G(f, i)
      <4>1. i # 1 => i - 1 \in 1..j
        OBVIOUS
      <4> QED BY <3>3, <4>1
    <3>6. ASSUME NEW i \in 1..(j + 1) PROVE g[i] = G(g, i)
      <4>1. CASE i = j + 1
        <5> HIDE DEF G
        <5> QED BY <3>4, <3>5, <4>1
      <4>2. CASE i # j + 1
        <5>1. i \in 1..j
          BY <4>2
        <5> HIDE DEF G
        <5> QED BY <3>1, <3>3, <3>5, <5>1
      <4> QED BY <4>1, <4>2
    <3> HIDE DEF G
    <3>7. Solves(g, j + 1)
      BY <3>2, <3>6
    <3> QED BY <3>7
  <2>3. Good(m)
    <3> DEFINE T == {j \in 0..m : Good(j)}
    <3> HIDE DEF Good
    <3>1. 0 \in T /\ \A j \in 0..(m - 1) : j \in T => j + 1 \in T
      BY <1>1, <2>1, <2>2
    <3>2. m \in 0..m
      BY <1>1
    <3> HIDE DEF T
    <3>3. m \in T
      BY <1>1, <3>1, <3>2, Upward
    <3> QED BY <3>3 DEF T
  <2>4. \E f : f = [i \in 1..m |-> G(f, i)]
    <3>1. PICK f : Solves(f, m)
      BY <2>3
    <3> HIDE DEF G
    <3>2. f = [i \in 1..m |-> G(f, i)]
      BY <3>1
    <3> QED BY <3>2
  <2> DEFINE flat == CHOOSE f : f = [i \in 1..m |-> G(f, i)]
  <2>5. flat = [i \in 1..m |-> G(flat, i)]
    <3> HIDE DEF G
    <3> QED BY <2>4
  <2>6. FlattenSeq(pieces) = flat[m]
    BY <1>3 DEF FlattenSeq, m
  <2> HIDE DEF flat
  <2>7. \A i \in 1..m : flat[i] = G(flat, i)
    <3> HIDE DEF G
    <3> QED BY <2>5
  <2> DEFINE part == [k \in 0..m |-> IF k = 0 THEN <<>> ELSE flat[k]]
  <2>8. \A k \in 1..m : part[k] = part[k - 1] \o pieces[k]
    <3> SUFFICES ASSUME NEW k \in 1..m PROVE part[k] = part[k - 1] \o pieces[k]
      OBVIOUS
    <3>1. k \in 0..m /\ k - 1 \in 0..m /\ k # 0 /\ part[k] = flat[k]
      BY <1>1
    <3>2. CASE k = 1
      <4>1. part[k - 1] = <<>> /\ flat[k] = pieces[k]
        BY <2>7, <3>1, <3>2
      <4>2. <<>> \o pieces[k] = pieces[k]
        BY <1>1, ConcatEmptySeq
      <4> QED BY <3>1, <4>1, <4>2
    <3>3. CASE k # 1
      <4>1. part[k - 1] = flat[k - 1]
        BY <3>1, <3>3
      <4> HIDE DEF part
      <4> QED BY <2>7, <3>1, <3>3, <4>1
    <3> QED BY <3>2, <3>3
  <2>9. part[0] = <<>> /\ part[m] = FlattenSeq(pieces)
    BY <1>1, <1>3, <2>6
  <2>10. part = [k \in 0..m |-> part[k]]
    OBVIOUS
  <2> HIDE DEF part
  <2>11. \A k \in 0..m : part[k] \in Seq(S)
    <3> DEFINE T == {k \in 0..m : part[k] \in Seq(S)}
    <3>1. 0 \in T
      <4>1. 0 \in 0..m
        BY <1>1
      <4>2. part[0] \in Seq(S)
        BY <2>9, EmptySeq
      <4> QED BY <4>1, <4>2
    <3>2. ASSUME NEW j \in 0..(m - 1), j \in T PROVE j + 1 \in T
      <4>1. j + 1 \in 1..m /\ (j + 1) - 1 = j /\ j + 1 \in 0..m
        BY <1>1
      <4>2. part[j + 1] = part[j] \o pieces[j + 1]
        BY <2>8, <4>1
      <4>3. part[j] \in Seq(S) /\ pieces[j + 1] \in Seq(S)
        BY <1>1, <3>2, <4>1
      <4>4. part[j + 1] \in Seq(S)
        BY <4>2, <4>3, ConcatProperties
      <4> QED BY <4>1, <4>4
    <3> HIDE DEF T
    <3>3. \A k \in 0..m : k \in T
      BY <1>1, <3>1, <3>2, Upward
    <3> QED BY <3>3 DEF T
  <2>12. part \in [0..m -> Seq(S)]
    BY <2>10, <2>11
  <2> QED BY <2>8, <2>9, <2>12 DEF m
<1> QED BY <1>2, <1>3

\* Where each of them lies in a span that begins with them.
LEMMA PiecesLie ==
  ASSUME NEW S, NEW s \in Seq(S), NEW m \in Nat, NEW part \in [0..m -> Seq(S)], NEW pieces \in [1..m -> Seq(S)],
         \A k \in 1..m : part[k] = part[k - 1] \o pieces[k],
         Holds(s, 0, part[m])
  PROVE  \A k \in 1..m : Holds(s, Len(part[k - 1]), pieces[k])
<1> DEFINE T == {k \in 0..m : Holds(s, 0, part[k])}
<1>1. ASSUME NEW k \in 1..m, k \in T
      PROVE  k - 1 \in T /\ Holds(s, Len(part[k - 1]), pieces[k])
  <2>1. k - 1 \in 0..m /\ part[k - 1] \in Seq(S) /\ pieces[k] \in Seq(S)
    OBVIOUS
  <2>2. Holds(s, 0, part[k - 1] \o pieces[k])
    BY <1>1
  <2>3. Holds(s, 0, part[k - 1]) /\ Holds(s, 0 + Len(part[k - 1]), pieces[k])
    BY <2>1, <2>2, HoldsCat
  <2>4. 0 + Len(part[k - 1]) = Len(part[k - 1])
    BY <2>1, LenProperties
  <2> QED BY <2>1, <2>3, <2>4
<1>2. m \in T
  OBVIOUS
<1> HIDE DEF T
<1>3. \A k \in 0..m : k \in T
  BY <1>1, <1>2, Downward
<1> QED BY <1>1, <1>3

-----------------------------------------------------------------------------
(* A rendered request.                                                     *)

\* The names of a request's elements, for a set L of local names.
Names(L) == {NoName, "s", "u", "h"} \X L

\* The tokens of a request whose arguments have values in V; U are the URNs.
Tokens(V, L, U) ==
  {Other("pi"), Other("space"), Other("comment")}
    \cup {Open(q, ns) : q \in Names(L), ns \in {Plain} \cup [{"u"} -> U]}
    \cup {Alone(q, Plain) : q \in Names(L)} \cup {Close(q) : q \in Names(L)}
    \cup {Text(v, "entities") : v \in V}

\* The span of an argument.
ValueSpan(v) == IF v = <<>> THEN <<>> ELSE <<Text(v, "entities")>>

ArgSpan(a, alone) ==
  IF a[2] = <<>> /\ alone THEN <<Alone(<<NoName, a[1]>>, Plain)>>
  ELSE Element(<<NoName, a[1]>>, Plain, ValueSpan(a[2]))

LEMMA SingleIs ==
  ASSUME NEW S, NEW x \in S
  PROVE  <<x>> \in Seq(S) /\ Len(<<x>>) = 1 /\ <<x>>[1] = x
  OBVIOUS

\* The tokens of an element.
LEMMA ElementIs ==
  ASSUME NEW S, NEW inner \in Seq(S), NEW q, NEW ns, Open(q, ns) \in S, Close(q) \in S
  PROVE  Element(q, ns, inner) \in Seq(S) /\ Len(Element(q, ns, inner)) = Len(inner) + 2
<1>1. <<Open(q, ns)>> \in Seq(S) /\ Len(<<Open(q, ns)>>) = 1
  BY SingleIs
<1>2. <<Close(q)>> \in Seq(S) /\ Len(<<Close(q)>>) = 1
  BY SingleIs
<1>3. Len(inner) \in Nat
  BY LenProperties
<1> DEFINE o == <<Open(q, ns)>>
           c == <<Close(q)>>
<1> HIDE DEF o, c
<1>4. o \o inner \in Seq(S) /\ Len(o \o inner) = Len(o) + Len(inner)
  BY <1>1, ConcatProperties DEF o
<1>5. (o \o inner) \o c \in Seq(S) /\ Len((o \o inner) \o c) = Len(o \o inner) + Len(c)
  BY <1>2, <1>4, ConcatProperties DEF c
<1>6. Element(q, ns, inner) = (o \o inner) \o c
  BY DEF Element, o, c
<1>7. Len(o) = 1 /\ Len(c) = 1
  BY <1>1, <1>2 DEF o, c
<1> QED BY <1>3, <1>4, <1>5, <1>6, <1>7

LEMMA NoTagCat ==
  ASSUME NEW S, NEW s \in Seq(S), NEW t \in Seq(S), NEW q, NoTag(s, q), NoTag(t, q)
  PROVE  NoTag(s \o t, q)
<1> DEFINE w == s \o t
<1>1. Len(s) \in Nat /\ Len(t) \in Nat
  BY LenProperties
<1>2. /\ Len(w) = Len(s) + Len(t)
      /\ \A i \in 1..(Len(s) + Len(t)) : w[i] = IF i <= Len(s) THEN s[i] ELSE t[i - Len(s)]
  BY ConcatProperties
<1> HIDE DEF w
<1>3. ASSUME NEW i \in 1..Len(w), w[i].k \in {"open", "close"} PROVE w[i].q # q
  <2>1. CASE i <= Len(s)
    <3>1. i \in 1..Len(s) /\ w[i] = s[i]
      BY <1>1, <1>2, <2>1
    <3> QED BY <1>3, <3>1 DEF NoTag
  <2>2. CASE ~ (i <= Len(s))
    <3>1. i - Len(s) \in 1..Len(t) /\ w[i] = t[i - Len(s)]
      BY <1>1, <1>2, <2>2
    <3> QED BY <1>3, <3>1 DEF NoTag
  <2> QED BY <2>1, <2>2
<1>4. NoTag(w, q)
  BY <1>3 DEF NoTag
<1> QED BY <1>4 DEF w

LEMMA NoTagElement ==
  ASSUME NEW S, NEW inner \in Seq(S), NEW name, NEW ns, Open(name, ns) \in S, Close(name) \in S,
         NEW q, q # name, NoTag(inner, q)
  PROVE  NoTag(Element(name, ns, inner), q)
<1> DEFINE o == <<Open(name, ns)>>
           c == <<Close(name)>>
<1>1. o \in Seq(S) /\ c \in Seq(S)
  BY SingleIs
<1>2. NoTag(o, q) /\ NoTag(c, q)
  BY DEF NoTag, Open, Close
<1>3. Element(name, ns, inner) = (o \o inner) \o c
  BY DEF Element
<1> HIDE DEF o, c
<1>4. o \o inner \in Seq(S)
  BY <1>1, ConcatProperties
<1>5. NoTag(o \o inner, q)
  BY <1>1, <1>2, NoTagCat
<1>6. NoTag((o \o inner) \o c, q)
  BY <1>1, <1>2, <1>4, <1>5, NoTagCat
<1> QED BY <1>3, <1>6

LEMMA TokensAre ==
  ASSUME NEW V, NEW L, NEW U
  PROVE  /\ \A k \in {"pi", "space", "comment"} : Other(k) \in Tokens(V, L, U)
         /\ \A v \in V : Text(v, "entities") \in Tokens(V, L, U)
  BY DEF Tokens

LEMMA TagsAre ==
  ASSUME NEW V, NEW L, NEW U, NEW q \in Names(L)
  PROVE  /\ Open(q, Plain) \in Tokens(V, L, U)
         /\ \A ns \in [{"u"} -> U] : Open(q, ns) \in Tokens(V, L, U)
         /\ Alone(q, Plain) \in Tokens(V, L, U) /\ Close(q) \in Tokens(V, L, U)
  BY DEF Tokens

LEMMA ValueSpanIs ==
  ASSUME NEW V, NEW L, NEW U, NEW v \in V
  PROVE  /\ ValueSpan(v) \in Seq(Tokens(V, L, U))
         /\ \A q : NoTag(ValueSpan(v), q)
         /\ ValueOf(ValueSpan(v)) = v
<1>1. CASE v = <<>>
  <2>1. ValueSpan(v) = <<>>
    BY <1>1 DEF ValueSpan
  <2>2. <<>> \in Seq(Tokens(V, L, U)) /\ Len(<<>>) = 0
    BY EmptySeq
  <2>3. \A q : NoTag(<<>>, q)
    BY <2>2 DEF NoTag
  <2>4. {i \in DOMAIN <<>> : <<>>[i].k # "space"} = {}
    OBVIOUS
  <2>5. ValueOf(<<>>) = <<>>
    BY <2>4 DEF ValueOf
  <2> QED BY <1>1, <2>1, <2>2, <2>3, <2>5
<1>2. CASE v # <<>>
  <2> DEFINE x == Text(v, "entities")
             t == <<x>>
             rest == {i \in DOMAIN t : t[i].k # "space"}
  <2>1. x \in Tokens(V, L, U) /\ x.k = "text" /\ x.v = v /\ x.form = "entities"
    BY TokensAre DEF Text
  <2> HIDE DEF x
  <2>2. t \in Seq(Tokens(V, L, U)) /\ Len(t) = 1 /\ t[1] = x /\ DOMAIN t = {1}
    BY <2>1
  <2>3. \A q : NoTag(t, q)
    BY <2>1, <2>2 DEF NoTag
  <2> HIDE DEF t
  <2>4. rest = {1}
    BY <2>1, <2>2
  <2>5. Cardinality({1}) = 1 /\ Min({1}) = 1
    <3>1. {1} \in SUBSET Int /\ 1 \in {1} /\ \A y \in {1} : 1 <= y
      OBVIOUS
    <3>2. Min({1}) = 1
      BY <3>1, MinIs
    <3> QED BY <3>2, FS_Singleton
  <2>6. ValueOf(t) = v
    BY <2>1, <2>2, <2>4, <2>5 DEF ValueOf
  <2>7. ValueSpan(v) = t
    BY <1>2 DEF ValueSpan, t, x
  <2> QED BY <2>2, <2>3, <2>6, <2>7
<1> QED BY <1>1, <1>2

LEMMA NameIs ==
  ASSUME NEW L, NEW p \in {NoName, "s", "u", "h"}, NEW n \in L
  PROVE  <<p, n>> \in Names(L) /\ <<p, n>>[1] = p /\ <<p, n>>[2] = n
  BY DEF Names

LEMMA ArgSpanIs ==
  ASSUME NEW V, NEW L, NEW U, NEW a \in L \X V, NEW alone
  PROVE  /\ ArgSpan(a, alone) \in Seq(Tokens(V, L, U))
         /\ \A q : q # <<NoName, a[1]>> => NoTag(ArgSpan(a, alone), q)
<1> DEFINE name == <<NoName, a[1]>>
<1>1. name \in Names(L) /\ a[2] \in V
  <2>1. a[1] \in L /\ a[2] \in V /\ NoName \in {NoName, "s", "u", "h"}
    OBVIOUS
  <2>2. <<NoName, a[1]>> \in Names(L) /\ <<NoName, a[1]>>[2] = a[1]
    BY <2>1, NameIs
  <2> QED BY <2>1, <2>2
<1> HIDE DEF name
<1>2. Open(name, Plain) \in Tokens(V, L, U) /\ Alone(name, Plain) \in Tokens(V, L, U) /\ Close(name) \in Tokens(V, L, U)
  BY <1>1, TagsAre
<1>3. CASE a[2] = <<>> /\ alone
  <2>1. ArgSpan(a, alone) = <<Alone(name, Plain)>>
    BY <1>3 DEF ArgSpan, name
  <2>2. <<Alone(name, Plain)>> \in Seq(Tokens(V, L, U))
    BY <1>2, SingleIs
  <2>3. \A q : q # name => NoTag(<<Alone(name, Plain)>>, q)
    BY DEF NoTag, Alone
  <2> QED BY <2>1, <2>2, <2>3 DEF name
<1>4. CASE ~ (a[2] = <<>> /\ alone)
  <2>1. ArgSpan(a, alone) = Element(name, Plain, ValueSpan(a[2]))
    BY <1>4 DEF ArgSpan, name
  <2>2. ValueSpan(a[2]) \in Seq(Tokens(V, L, U)) /\ \A q : NoTag(ValueSpan(a[2]), q)
    BY <1>1, ValueSpanIs
  <2>3. Element(name, Plain, ValueSpan(a[2])) \in Seq(Tokens(V, L, U))
    BY <1>2, <2>2, ElementIs
  <2>4. \A q : q # name => NoTag(Element(name, Plain, ValueSpan(a[2])), q)
    BY <1>2, <2>2, NoTagElement
  <2> QED BY <2>1, <2>3, <2>4 DEF name
<1> QED BY <1>3, <1>4

\* An argument in a span, behind blanks: where it is found and what it says.
LEMMA ArgAt ==
  ASSUME NEW V, NEW L, NEW U, NEW s \in Seq(Tokens(V, L, U)), NEW g \in Seq(Tokens(V, L, U)), NEW at \in Nat,
         NEW a \in L \X V, NEW alone, Blank(g),
         Holds(s, at, g), Holds(s, at + Len(g), ArgSpan(a, alone))
  PROVE  LET n == at + Len(g) + 1 IN
         /\ n \in 1..Len(s)
         /\ NextElement(s, at + 1) = n /\ Ends(s, n)
         /\ s[n].q[2] = a[1] /\ ValueOf(Inner(s, n)) = a[2]
         /\ After(s, n) = at + Len(g) + Len(ArgSpan(a, alone)) + 1
<1> DEFINE n == at + Len(g) + 1
           name == <<NoName, a[1]>>
<1>1. name \in Names(L) /\ a[2] \in V /\ name[2] = a[1]
  <2>1. a[1] \in L /\ a[2] \in V /\ NoName \in {NoName, "s", "u", "h"}
    OBVIOUS
  <2>2. <<NoName, a[1]>> \in Names(L) /\ <<NoName, a[1]>>[2] = a[1]
    BY <2>1, NameIs
  <2> QED BY <2>1, <2>2
<1>2. Len(g) \in Nat /\ Len(s) \in Nat
  BY LenProperties
<1> HIDE DEF name
<1>3. Open(name, Plain) \in Tokens(V, L, U) /\ Alone(name, Plain) \in Tokens(V, L, U) /\ Close(name) \in Tokens(V, L, U)
  BY <1>1, TagsAre
<1>4. CASE a[2] = <<>> /\ alone
  <2> DEFINE x == Alone(name, Plain)
  <2>1. ArgSpan(a, alone) = <<x>>
    BY <1>4 DEF ArgSpan, name
  <2>2. x.k = "open" /\ x.q = name /\ x.self = TRUE
    BY DEF Alone
  <2>3. Holds(s, at + Len(g), <<x>>)
    BY <2>1
  <2> HIDE DEF x
  <2>4. Len(<<x>>) = 1 /\ <<x>>[1] = x
    OBVIOUS
  <2>5. at + Len(g) + 1 <= Len(s) /\ s[n] = x
    BY <2>3, <2>4 DEF Holds
  <2>6. \A i \in (at + 1)..(n - 1) : s[i].k \in {"space", "comment"}
    <3> SUFFICES ASSUME NEW i \in (at + 1)..(n - 1) PROVE s[i].k \in {"space", "comment"}
      OBVIOUS
    <3>1. i - at \in 1..Len(g) /\ i = at + (i - at)
      BY <1>2
    <3>2. s[i] = g[i - at]
      BY <3>1 DEF Holds
    <3> QED BY <3>1, <3>2 DEF Blank
  <2>7. /\ at + 1 \in Nat \ {0} /\ n \in Nat /\ at + 1 <= n /\ n <= Len(s) + 1 /\ n <= Len(s)
        /\ n \in 1..Len(s)
    BY <1>2, <2>5
  <2>8. at + Len(g) + Len(ArgSpan(a, alone)) + 1 = n + 1
    BY <1>2, <2>1, <2>4
  <2>9. s[n].k = "open" /\ s[n].q = name /\ s[n].self = TRUE
    BY <2>2, <2>5
  <2> HIDE DEF n
  <2>10. NextElement(s, at + 1) = n
    BY <2>6, <2>7, <2>9, NextIs
  <2>11. Ends(s, n) /\ Inner(s, n) = <<>> /\ After(s, n) = n + 1
    BY <2>9 DEF Ends, Inner, After
  <2>12. ValueOf(<<>>) = <<>>
    <3>1. ValueSpan(<<>>) = <<>>
      BY DEF ValueSpan
    <3> QED BY <1>1, <1>4, <3>1, ValueSpanIs
  <2>13. s[n].q[2] = a[1] /\ ValueOf(Inner(s, n)) = a[2]
    BY <1>1, <1>4, <2>9, <2>11, <2>12
  <2> QED BY <2>7, <2>8, <2>10, <2>11, <2>13 DEF n
<1>5. CASE ~ (a[2] = <<>> /\ alone)
  <2> DEFINE inner == ValueSpan(a[2])
  <2>1. ArgSpan(a, alone) = Element(name, Plain, inner)
    BY <1>5 DEF ArgSpan, name
  <2>2. inner \in Seq(Tokens(V, L, U)) /\ NoTag(inner, name) /\ ValueOf(inner) = a[2]
    BY <1>1, ValueSpanIs
  <2>3. Holds(s, at + Len(g), Element(name, Plain, inner))
    BY <2>1
  <2> HIDE DEF inner
  <2>4. Len(ArgSpan(a, alone)) = Len(inner) + 2 /\ Len(inner) \in Nat
    BY <1>3, <2>1, <2>2, ElementIs, LenProperties
  <2>5. /\ n + Len(inner) + 1 <= Len(s)
        /\ NextElement(s, at + 1) = n
        /\ s[n] = Open(name, Plain) /\ Ends(s, n)
        /\ Inner(s, n) = inner
        /\ After(s, n) = n + Len(inner) + 2
    BY <1>3, <2>2, <2>3, ElementAt
  <2>6. s[n].q[2] = a[1]
    BY <1>1, <2>5 DEF Open
  <2>7. n \in 1..Len(s) /\ n + Len(inner) + 2 = at + Len(g) + Len(ArgSpan(a, alone)) + 1
    BY <1>2, <2>4, <2>5
  <2>8. ValueOf(Inner(s, n)) = a[2]
    BY <2>2, <2>5
  <2> HIDE DEF n
  <2> QED BY <2>5, <2>6, <2>7, <2>8 DEF n
<1> QED BY <1>4, <1>5

LEMMA IntervalsDiffer ==
  ASSUME NEW a \in Nat, NEW b \in Nat, 1..a = 1..b
  PROVE  a = b
<1>1. a # 0 => a \in 1..b
  OBVIOUS
<1>2. b # 0 => b \in 1..a
  OBVIOUS
<1> QED BY <1>1, <1>2

LEMMA FunctionIs ==
  ASSUME NEW S, NEW n \in Nat, NEW f \in [1..n -> S]
  PROVE  f \in Seq(S) /\ Len(f) = n
<1>1. f \in Seq(S)
  OBVIOUS
<1>2. Len(f) \in Nat /\ DOMAIN f = 1..Len(f) /\ DOMAIN f = 1..n
  BY <1>1, LenProperties
<1>3. Len(f) = n
  <2> DEFINE l == Len(f)
  <2>1. l \in Nat /\ 1..l = 1..n
    BY <1>2
  <2> HIDE DEF l
  <2>2. l = n
    BY <2>1, IntervalsDiffer
  <2> QED BY <2>2 DEF l
<1> QED BY <1>1, <1>3

LEMMA ConsIs ==
  ASSUME NEW S, NEW x \in S, NEW s \in Seq(S)
  PROVE  /\ <<x>> \o s \in Seq(S) /\ Len(<<x>> \o s) = Len(s) + 1
         /\ (<<x>> \o s)[1] = x
         /\ \A i \in 1..Len(s) : (<<x>> \o s)[i + 1] = s[i]
<1> DEFINE o == <<x>>
<1>1. o \in Seq(S) /\ Len(o) = 1 /\ o[1] = x
  OBVIOUS
<1>2. Len(s) \in Nat
  BY LenProperties
<1> HIDE DEF o
<1>3. /\ o \o s \in Seq(S) /\ Len(o \o s) = Len(o) + Len(s)
      /\ \A i \in 1..(Len(o) + Len(s)) : (o \o s)[i] = IF i <= Len(o) THEN o[i] ELSE s[i - Len(o)]
  BY <1>1, ConcatProperties
<1>4. (o \o s)[1] = x
  BY <1>1, <1>2, <1>3
<1>5. ASSUME NEW i \in 1..Len(s) PROVE (o \o s)[i + 1] = s[i]
  <2>1. i + 1 \in 1..(Len(o) + Len(s)) /\ ~ (i + 1 <= Len(o)) /\ (i + 1) - Len(o) = i
    BY <1>1, <1>2
  <2> QED BY <1>3, <2>1
<1>6. Len(o \o s) = Len(s) + 1
  BY <1>1, <1>2, <1>3
<1> QED BY <1>3, <1>4, <1>5, <1>6 DEF o

\* A chain of elements: from[k] is where the k-th is looked for, at[k] where it is.
Chain(s, m, from, at) ==
  /\ from \in [0..m -> 1..(Len(s) + 1)] /\ at \in [1..m -> 1..Len(s)]
  /\ \A k \in 1..m : /\ NextElement(s, from[k - 1]) = at[k] /\ Ends(s, at[k])
                     /\ After(s, at[k]) = from[k]
  /\ NextElement(s, from[m]) = 0

LEMMA ChainIs ==
  ASSUME NEW S, NEW s \in Seq(S), NEW m \in Nat, NEW from, NEW at, Chain(s, m, from, at)
  PROVE  ElementsFrom(s)[from[0]] = at
<1>0. /\ from \in [0..m -> 1..(Len(s) + 1)] /\ at \in [1..m -> 1..Len(s)]
      /\ \A k \in 1..m : /\ NextElement(s, from[k - 1]) = at[k] /\ Ends(s, at[k])
                         /\ After(s, at[k]) = from[k]
      /\ NextElement(s, from[m]) = 0
  BY DEF Chain
<1> DEFINE rest(k) == [i \in 1..(m - k) |-> at[k + i]]
           T == {k \in 0..m : ElementsFrom(s)[from[k]] = rest(k)}
<1>1. m \in T
  <2>1. m \in 0..m /\ from[m] \in 1..(Len(s) + 1)
    BY <1>0
  <2>2. ElementsFrom(s)[from[m]] = <<>>
    BY <1>0, <2>1, ElementsUnfold
  <2>3. rest(m) = <<>>
    OBVIOUS
  <2> QED BY <2>1, <2>2, <2>3
<1>2. ASSUME NEW k \in 1..m, k \in T PROVE k - 1 \in T
  <2>1. /\ k - 1 \in 0..m /\ from[k - 1] \in 1..(Len(s) + 1)
        /\ at[k] \in 1..Len(s) /\ at[k] # 0 /\ m - k \in Nat /\ m - (k - 1) = (m - k) + 1
    <3>1. at[k] \in 1..Len(s) /\ k - 1 \in 0..m
      BY <1>0
    <3> QED BY <1>0, <3>1
  <2>2. NextElement(s, from[k - 1]) = at[k] /\ Ends(s, at[k]) /\ After(s, at[k]) = from[k]
    BY <1>0
  <2>3. ElementsFrom(s)[from[k - 1]] = <<at[k]>> \o ElementsFrom(s)[from[k]]
    <3> DEFINE p == from[k - 1]
    <3>1. p \in 1..(Len(s) + 1) /\ NextElement(s, p) = at[k]
      BY <2>1, <2>2
    <3> HIDE DEF p
    <3>2. ElementsFrom(s)[p] = <<at[k]>> \o ElementsFrom(s)[After(s, at[k])]
      BY <2>1, <2>2, <3>1, ElementsUnfold
    <3> QED BY <2>2, <3>2 DEF p
  <2>4. ElementsFrom(s)[from[k]] = rest(k)
    BY <1>2
  <2> DEFINE r == rest(k)
             u == rest(k - 1)
  <2>5. \A i \in 1..(m - k) : k + i \in 1..m
    OBVIOUS
  <2>6. r \in Seq(1..Len(s)) /\ Len(r) = m - k /\ \A i \in 1..(m - k) : r[i] = at[k + i]
    <3>1. r \in [1..(m - k) -> 1..Len(s)]
      BY <1>0, <2>5
    <3>2. r \in Seq(1..Len(s)) /\ Len(r) = m - k
      <4> DEFINE l == m - k
      <4>1. l \in Nat /\ r \in [1..l -> 1..Len(s)]
        BY <2>1, <3>1
      <4> HIDE DEF r, l
      <4>2. r \in Seq(1..Len(s)) /\ Len(r) = l
        BY <4>1, FunctionIs
      <4> QED BY <4>2 DEF l
    <3> QED BY <3>2
  <2>7. u \in Seq(1..Len(s)) /\ Len(u) = (m - k) + 1 /\ \A i \in 1..((m - k) + 1) : u[i] = at[(k - 1) + i]
    <3>0. \A i \in 1..(m - (k - 1)) : (k - 1) + i \in 1..m
      OBVIOUS
    <3>1. u \in [1..(m - (k - 1)) -> 1..Len(s)]
      BY <1>0, <3>0
    <3>2. u \in Seq(1..Len(s)) /\ Len(u) = m - (k - 1)
      <4> HIDE DEF u
      <4>1. m - (k - 1) \in Nat
        BY <2>1
      <4> QED BY <3>1, <4>1, FunctionIs
    <3> QED BY <2>1, <3>2
  <2> HIDE DEF r, u
  <2> DEFINE w == <<at[k]>> \o r
  <2>8. /\ w \in Seq(1..Len(s)) /\ Len(w) = Len(r) + 1 /\ w[1] = at[k]
        /\ \A i \in 1..Len(r) : w[i + 1] = r[i]
    <3> DEFINE x == at[k]
    <3>1. x \in 1..Len(s) /\ r \in Seq(1..Len(s))
      BY <2>1, <2>6
    <3> HIDE DEF x
    <3>2. /\ <<x>> \o r \in Seq(1..Len(s)) /\ Len(<<x>> \o r) = Len(r) + 1 /\ (<<x>> \o r)[1] = x
          /\ \A i \in 1..Len(r) : (<<x>> \o r)[i + 1] = r[i]
      BY <3>1, ConsIs
    <3> QED BY <3>2 DEF x
  <2> HIDE DEF w
  <2>9. Len(w) = Len(u)
    BY <2>6, <2>7, <2>8
  <2>10. ASSUME NEW i \in 1..Len(w) PROVE w[i] = u[i]
    <3>1. i \in 1..((m - k) + 1) /\ u[i] = at[(k - 1) + i]
      BY <2>6, <2>7, <2>8
    <3>2. CASE i = 1
      <4>1. (k - 1) + i = k
        BY <3>2
      <4> QED BY <2>8, <3>1, <3>2, <4>1
    <3>3. CASE i # 1
      <4>1. i - 1 \in 1..(m - k) /\ (i - 1) + 1 = i /\ k + (i - 1) = (k - 1) + i
        BY <2>1, <3>1, <3>3
      <4>2. w[(i - 1) + 1] = r[i - 1] /\ r[i - 1] = at[k + (i - 1)]
        BY <2>6, <2>8, <4>1
      <4> QED BY <3>1, <4>1, <4>2
    <3> QED BY <3>2, <3>3
  <2>11. w = u
    <3>1. w \in Seq(1..Len(s)) /\ u \in Seq(1..Len(s))
      BY <2>7, <2>8
    <3> QED BY <2>9, <2>10, <3>1, SeqEqual
  <2> QED BY <2>1, <2>3, <2>4, <2>11 DEF w, r, u
<1> HIDE DEF T
<1>3. \A k \in 0..m : k \in T
  BY <1>1, <1>2, Downward
<1>4. ElementsFrom(s)[from[0]] = rest(0)
  BY <1>3 DEF T
<1>5. rest(0) = at
  <2>1. \A i \in 1..m : 0 + i = i
    OBVIOUS
  <2>2. m - 0 = m
    OBVIOUS
  <2> QED BY <1>0, <2>1, <2>2
<1> QED BY <1>4, <1>5

\* The arguments of a call, each behind a gap.
Arguments(L, V) == L \X V

CallSpan(args, gap, alone) == FlattenSeq([i \in DOMAIN args |-> gap \o ArgSpan(args[i], alone)]) \o gap

\* They are read as they are.
LEMMA ArgsAre ==
  ASSUME NEW V, NEW L, NEW U, NEW args \in Seq(Arguments(L, V)), NEW alone,
         NEW gap \in Seq(Tokens(V, L, U)), Blank(gap)
  PROVE  LET span == CallSpan(args, gap, alone) IN
         /\ span \in Seq(Tokens(V, L, U))
         /\ \A q : (\A i \in 1..Len(args) : q # <<NoName, args[i][1]>>) => NoTag(span, q)
         /\ ArgsOf(span) = args
<1> DEFINE S == Tokens(V, L, U)
           m == Len(args)
           arg(k) == ArgSpan(args[k], alone)
           pieces == [i \in DOMAIN args |-> gap \o ArgSpan(args[i], alone)]
           span == FlattenSeq(pieces) \o gap
<1>1. m \in Nat /\ DOMAIN args = 1..m /\ \A k \in 1..m : args[k] \in L \X V
  BY LenProperties, ElementOfSeq DEF Arguments
<1>2. ASSUME NEW k \in 1..m
      PROVE  arg(k) \in Seq(S) /\ \A q : q # <<NoName, args[k][1]>> => NoTag(arg(k), q)
  BY <1>1, ArgSpanIs
<1> HIDE DEF S, m
<1>3. ASSUME NEW k \in 1..m
      PROVE  /\ pieces[k] = gap \o arg(k) /\ pieces[k] \in Seq(S)
             /\ Len(pieces[k]) = Len(gap) + Len(arg(k))
  <2>1. pieces[k] = gap \o arg(k)
    BY <1>1
  <2>2. gap \in Seq(S) /\ arg(k) \in Seq(S)
    BY <1>2 DEF S
  <2> HIDE DEF pieces, arg
  <2> QED BY <2>1, <2>2, ConcatProperties
<1>4. pieces \in Seq(Seq(S)) /\ Len(pieces) = m /\ pieces \in [1..m -> Seq(S)]
  <2>1. pieces = [i \in 1..m |-> pieces[i]]
    BY <1>1
  <2> HIDE DEF pieces
  <2>2. pieces \in [1..m -> Seq(S)]
    BY <1>3, <2>1
  <2> QED BY <1>1, <2>2, FunctionIs
<1> HIDE DEF arg
<1>5. PICK part \in [0..m -> Seq(S)] :
        /\ part[0] = <<>>
        /\ \A k \in 1..m : part[k] = part[k - 1] \o pieces[k]
        /\ part[m] = FlattenSeq(pieces)
  <2> HIDE DEF pieces
  <2> QED BY <1>4, FlattenIs
<1>6. gap \in Seq(S) /\ part[m] \in Seq(S) /\ span = part[m] \o gap /\ Len(gap) \in Nat
  <2>1. m \in 0..m
    BY <1>1
  <2>2. gap \in Seq(S)
    BY DEF S
  <2> QED BY <1>5, <2>1, <2>2, LenProperties
<1> HIDE DEF pieces, span
<1>7. span \in Seq(S) /\ Len(span) \in Nat
  BY <1>6, ConcatProperties, LenProperties
<1>8. ASSUME NEW q, \A i \in 1..m : q # <<NoName, args[i][1]>>
      PROVE  NoTag(span, q)
  <2> DEFINE T == {k \in 0..m : NoTag(part[k], q)}
  <2>1. 0 \in T
    <3>1. 0 \in 0..m /\ NoTag(<<>>, q)
      BY <1>1, EmptySeq DEF NoTag
    <3> QED BY <1>5, <3>1
  <2>2. NoTag(gap, q)
    BY DEF NoTag, Blank
  <2>3. ASSUME NEW j \in 0..(m - 1), j \in T PROVE j + 1 \in T
    <3>1. j + 1 \in 1..m /\ j + 1 \in 0..m /\ (j + 1) - 1 = j
      BY <1>1
    <3>2. part[j + 1] = part[j] \o pieces[j + 1] /\ pieces[j + 1] = gap \o arg(j + 1)
      BY <1>3, <1>5, <3>1
    <3>3. arg(j + 1) \in Seq(S) /\ NoTag(arg(j + 1), q)
      BY <1>2, <1>8, <3>1
    <3>4. part[j] \in Seq(S) /\ NoTag(part[j], q) /\ pieces[j + 1] \in Seq(S)
      BY <1>3, <2>3, <3>1
    <3>5. NoTag(gap \o arg(j + 1), q)
      BY <1>6, <2>2, <3>3, NoTagCat
    <3>6. NoTag(part[j] \o pieces[j + 1], q)
      BY <3>2, <3>4, <3>5, NoTagCat
    <3> QED BY <3>1, <3>2, <3>6
  <2> HIDE DEF T
  <2>4. \A k \in 0..m : k \in T
    BY <1>1, <2>1, <2>3, Upward
  <2>5. NoTag(part[m], q)
    <3>1. m \in 0..m
      BY <1>1
    <3> QED BY <2>4, <3>1 DEF T
  <2> QED BY <1>6, <2>2, <2>5, NoTagCat
<1>9. Holds(span, 0, part[m]) /\ Holds(span, Len(part[m]), gap)
  <2>1. Holds(span, 0, part[m] \o gap)
    BY <1>6, <1>7, HoldsAll
  <2>2. Holds(span, 0, part[m]) /\ Holds(span, 0 + Len(part[m]), gap)
    BY <1>6, <1>7, <2>1, HoldsCat
  <2>3. 0 + Len(part[m]) = Len(part[m])
    BY <1>6, LenProperties
  <2> QED BY <2>2, <2>3
<1> DEFINE end(k) == Len(part[k])
           start(k) == end(k - 1) + Len(gap)
<1>10. \A k \in 0..m : end(k) \in Nat
  BY LenProperties
<1>11. ASSUME NEW k \in 1..m
       PROVE  /\ k - 1 \in 0..m /\ end(k) = start(k) + Len(arg(k))
              /\ Holds(span, end(k - 1), gap) /\ Holds(span, start(k), arg(k))
  <2>1. k - 1 \in 0..m /\ part[k - 1] \in Seq(S) /\ pieces[k] \in Seq(S) /\ arg(k) \in Seq(S)
    <3>1. k - 1 \in 0..m
      BY <1>1
    <3> HIDE DEF end
    <3> QED BY <1>2, <1>3, <3>1
  <2>2. part[k] = part[k - 1] \o pieces[k] /\ pieces[k] = gap \o arg(k)
    BY <1>3, <1>5
  <2>3. Len(part[k]) = Len(part[k - 1]) + Len(pieces[k]) /\ Len(pieces[k]) = Len(gap) + Len(arg(k))
    BY <1>3, <2>1, <2>2, ConcatProperties
  <2>4. end(k) = start(k) + Len(arg(k))
    BY <1>6, <1>10, <2>1, <2>3, LenProperties
  <2>5. Holds(span, end(k - 1), pieces[k])
    BY <1>1, <1>4, <1>5, <1>7, <1>9, PiecesLie
  <2>6. end(k - 1) \in Nat
    BY <1>10, <2>1
  <2>7. Holds(span, end(k - 1), gap \o arg(k))
    BY <2>2, <2>5
  <2> HIDE DEF end
  <2>8. Holds(span, end(k - 1), gap) /\ Holds(span, end(k - 1) + Len(gap), arg(k))
    BY <1>6, <1>7, <2>1, <2>6, <2>7, HoldsCat
  <2> QED BY <2>1, <2>4, <2>8
<1> DEFINE n(k) == start(k) + 1
<1>12. ASSUME NEW k \in 1..m
       PROVE  /\ n(k) \in 1..Len(span)
              /\ NextElement(span, end(k - 1) + 1) = n(k) /\ Ends(span, n(k))
              /\ span[n(k)].q[2] = args[k][1] /\ ValueOf(Inner(span, n(k))) = args[k][2]
              /\ After(span, n(k)) = end(k) + 1
  <2> DEFINE a == args[k]
             e == end(k - 1)
  <2>1. a \in L \X V /\ e \in Nat /\ gap \in Seq(Tokens(V, L, U)) /\ span \in Seq(Tokens(V, L, U))
    BY <1>1, <1>7, <1>10, <1>11 DEF S
  <2>2. Holds(span, e, gap) /\ Holds(span, e + Len(gap), ArgSpan(a, alone)) /\ n(k) = e + Len(gap) + 1
    BY <1>11 DEF arg
  <2>3. end(k) = e + Len(gap) + Len(ArgSpan(a, alone))
    BY <1>11 DEF arg
  <2> HIDE DEF a, e, end
  <2>4. /\ e + Len(gap) + 1 \in 1..Len(span)
        /\ NextElement(span, e + 1) = e + Len(gap) + 1 /\ Ends(span, e + Len(gap) + 1)
        /\ span[e + Len(gap) + 1].q[2] = a[1] /\ ValueOf(Inner(span, e + Len(gap) + 1)) = a[2]
        /\ After(span, e + Len(gap) + 1) = e + Len(gap) + Len(ArgSpan(a, alone)) + 1
    BY <2>1, <2>2, ArgAt
  <2> QED BY <2>2, <2>3, <2>4 DEF a, e
<1>13. Len(span) = end(m) + Len(gap) /\ end(m) \in Nat
  <2>1. m \in 0..m
    BY <1>1
  <2> QED BY <1>6, <1>10, <2>1, ConcatProperties
<1>14. NextElement(span, end(m) + 1) = 0
  <2> DEFINE p == end(m) + 1
             z == Len(span) + 1
  <2>1. \A i \in p..(z - 1) : span[i].k \in {"space", "comment"}
    <3> SUFFICES ASSUME NEW i \in p..(z - 1) PROVE span[i].k \in {"space", "comment"}
      OBVIOUS
    <3>1. i - end(m) \in 1..Len(gap) /\ end(m) + (i - end(m)) = i
      BY <1>6, <1>13
    <3>2. span[i] = gap[i - end(m)]
      BY <1>9, <3>1 DEF Holds
    <3> QED BY <3>1, <3>2 DEF Blank
  <2>2. p \in Nat \ {0} /\ z \in Nat /\ p <= z /\ z <= Len(span) + 1 /\ z = Len(span) + 1 /\ ~ (z <= Len(span))
    BY <1>6, <1>7, <1>13
  <2> HIDE DEF p, z
  <2>3. NextElement(span, p) = 0
    BY <1>7, <2>1, <2>2, NextIs
  <2> QED BY <2>3 DEF p
<1> DEFINE from == [k \in 0..m |-> end(k) + 1]
           at == [k \in 1..m |-> n(k)]
<1>15. from \in [0..m -> 1..(Len(span) + 1)]
  <2> SUFFICES ASSUME NEW k \in 0..m PROVE end(k) + 1 \in 1..(Len(span) + 1)
    OBVIOUS
  <2>1. CASE k = m
    BY <1>6, <1>13, <2>1
  <2>2. CASE k # m
    <3>1. k + 1 \in 1..m /\ (k + 1) - 1 = k
      BY <1>1, <2>2
    <3>2. end(k) \in Nat /\ n(k + 1) \in 1..Len(span) /\ n(k + 1) = end(k) + Len(gap) + 1
      BY <1>10, <1>12, <3>1
    <3> QED BY <1>6, <1>7, <3>2
  <2> QED BY <2>1, <2>2
<1>16. at \in [1..m -> 1..Len(span)]
  BY <1>12
<1>17. /\ from[0] = 1 /\ from[m] = end(m) + 1
       /\ \A k \in 1..m : from[k - 1] = end(k - 1) + 1 /\ from[k] = end(k) + 1 /\ at[k] = n(k)
  BY <1>1, <1>5, EmptySeq
<1> HIDE DEF from, at, end, start, n
<1>18. ElementsFrom(span)[from[0]] = at
  <2>1. Chain(span, m, from, at)
    BY <1>12, <1>14, <1>15, <1>16, <1>17 DEF Chain
  <2> QED BY <1>1, <1>7, <2>1, ChainIs
<1>19. ElementsOf(span) = at
  BY <1>17, <1>18 DEF ElementsOf, ElementsFrom
<1>20. ArgsOf(span) = args
  <2>1. DOMAIN at = 1..m
    BY <1>16
  <2>2. ArgsOf(span) = [k \in 1..m |->
          IF Ends(span, at[k]) THEN <<span[at[k]].q[2], ValueOf(Inner(span, at[k]))>> ELSE <<>>]
    BY <1>19, <2>1 DEF ArgsOf
  <2>3. ArgsOf(span) = [k \in 1..m |-> <<args[k][1], args[k][2]>>]
    BY <1>12, <1>17, <2>2
  <2>4. \A k \in 1..m : <<args[k][1], args[k][2]>> = args[k]
    BY <1>1
  <2>5. args = [k \in 1..m |-> args[k]]
    BY <1>1, LenProperties
  <2> QED BY <2>3, <2>4, <2>5
<1> QED BY <1>7, <1>8, <1>20 DEF CallSpan, span, pieces, S, m

LEMMA BlankCat ==
  ASSUME NEW S, NEW s \in Seq(S), NEW t \in Seq(S), Blank(s), Blank(t)
  PROVE  Blank(s \o t)
<1> DEFINE w == s \o t
<1>1. Len(s) \in Nat /\ Len(t) \in Nat
  BY LenProperties
<1>2. /\ Len(w) = Len(s) + Len(t)
      /\ \A i \in 1..(Len(s) + Len(t)) : w[i] = IF i <= Len(s) THEN s[i] ELSE t[i - Len(s)]
  BY ConcatProperties
<1> HIDE DEF w
<1>3. ASSUME NEW i \in 1..Len(w) PROVE w[i].k \in {"space", "comment"}
  <2>1. CASE i <= Len(s)
    <3>1. i \in 1..Len(s) /\ w[i] = s[i]
      BY <1>1, <1>2, <2>1
    <3> QED BY <3>1 DEF Blank
  <2>2. CASE ~ (i <= Len(s))
    <3>1. i - Len(s) \in 1..Len(t) /\ w[i] = t[i - Len(s)]
      BY <1>1, <1>2, <2>2
    <3> QED BY <3>1 DEF Blank
  <2> QED BY <2>1, <2>2
<1>4. Blank(w)
  BY <1>3 DEF Blank
<1> QED BY <1>4 DEF w

\* Behind the last element there is none.
LEMMA NoneLeft ==
  ASSUME NEW S, NEW s \in Seq(S), NEW g \in Seq(S), NEW a \in Nat, Blank(g),
         Holds(s, a, g), a + Len(g) = Len(s)
  PROVE  NextElement(s, a + 1) = 0
<1> DEFINE p == a + 1
           z == Len(s) + 1
<1>1. Len(s) \in Nat /\ Len(g) \in Nat
  BY LenProperties
<1>2. \A i \in p..(z - 1) : s[i].k \in {"space", "comment"}
  <2> SUFFICES ASSUME NEW i \in p..(z - 1) PROVE s[i].k \in {"space", "comment"}
    OBVIOUS
  <2>1. i - a \in 1..Len(g) /\ a + (i - a) = i
    BY <1>1
  <2>2. s[i] = g[i - a]
    BY <2>1 DEF Holds
  <2> QED BY <2>1, <2>2 DEF Blank
<1>3. p \in Nat \ {0} /\ z \in Nat /\ p <= z /\ z <= Len(s) + 1 /\ z = Len(s) + 1 /\ ~ (z <= Len(s))
  BY <1>1
<1> HIDE DEF p, z
<1>4. NextElement(s, p) = 0
  BY <1>2, <1>3, NextIs
<1> QED BY <1>4 DEF p

\* An element between two gaps, in a span of its own.
LEMMA ElementBetween ==
  ASSUME NEW S, NEW gap \in Seq(S), NEW inner \in Seq(S), Blank(gap),
         NEW q, NEW ns, Open(q, ns) \in S, Close(q) \in S, NoTag(inner, q)
  PROVE  LET span == gap \o Element(q, ns, inner) \o gap
             n    == NextElement(span, 1) IN
         /\ span \in Seq(S)
         /\ n \in 1..Len(span) /\ span[n] = Open(q, ns) /\ Ends(span, n)
         /\ Inner(span, n) = inner /\ Len(inner) < Len(span)
         /\ After(span, n) \in 1..(Len(span) + 1)
<1> DEFINE x == Element(q, ns, inner)
           h == gap \o x
           span == h \o gap
<1>1. x \in Seq(S) /\ Len(x) = Len(inner) + 2
  BY ElementIs
<1>2. Len(gap) \in Nat /\ Len(inner) \in Nat
  BY LenProperties
<1> HIDE DEF x
<1>3. h \in Seq(S) /\ Len(h) = Len(gap) + Len(x)
  BY <1>1, ConcatProperties
<1>4. span \in Seq(S) /\ Len(span) = Len(h) + Len(gap)
  BY <1>3, ConcatProperties
<1>5. Holds(span, 0, h)
  <2> HIDE DEF h
  <2>1. Holds(span, 0, h \o gap)
    BY <1>4, HoldsAll
  <2> HIDE DEF span
  <2> QED BY <1>3, <1>4, <2>1, HoldsCat
<1>6. Holds(span, 0, gap) /\ Holds(span, 0 + Len(gap), x)
  <2> HIDE DEF span
  <2> QED BY <1>1, <1>4, <1>5, HoldsCat
<1> HIDE DEF span, h
<1> DEFINE n == 0 + Len(gap) + 1
<1>7. /\ n + Len(inner) + 1 <= Len(span)
      /\ NextElement(span, 0 + 1) = n
      /\ span[n] = Open(q, ns) /\ Ends(span, n)
      /\ Inner(span, n) = inner
      /\ After(span, n) = n + Len(inner) + 2
  BY <1>4, <1>6, ElementAt DEF x
<1>8. 0 + 1 = 1 /\ n \in 1..Len(span) /\ Len(span) \in Nat /\ Len(inner) < Len(span)
      /\ n + Len(inner) + 2 \in 1..(Len(span) + 1)
  BY <1>1, <1>2, <1>3, <1>4, <1>7
<1> HIDE DEF n
<1>9. NextElement(span, 1) = n
  BY <1>7, <1>8
<1> QED BY <1>4, <1>7, <1>8, <1>9 DEF span, h, x

\* Where the parts of an envelope lie in its span.
LEMMA PartsLie ==
  ASSUME NEW S, NEW gap \in Seq(S), NEW header \in Seq(S), NEW x \in Seq(S)
  PROVE  LET span == gap \o header \o gap \o x \o gap
             a    == Len(gap) + Len(header) + Len(gap) IN
         /\ span \in Seq(S) /\ Len(span) = a + Len(x) + Len(gap)
         /\ Holds(span, 0, gap) /\ Holds(span, Len(gap), header)
         /\ Holds(span, Len(gap) + Len(header), gap)
         /\ Holds(span, a, x) /\ Holds(span, a + Len(x), gap)
         /\ Holds(span, 0, gap \o header \o gap)
<1> DEFINE t1 == gap \o header
           t2 == t1 \o gap
           t3 == t2 \o x
           span == t3 \o gap
<1>1. t1 \in Seq(S) /\ Len(t1) = Len(gap) + Len(header)
  BY ConcatProperties
<1>2. t2 \in Seq(S) /\ Len(t2) = Len(t1) + Len(gap)
  <2> HIDE DEF t1
  <2> QED BY <1>1, ConcatProperties
<1>3. t3 \in Seq(S) /\ Len(t3) = Len(t2) + Len(x)
  <2> HIDE DEF t2
  <2> QED BY <1>2, ConcatProperties
<1>4. span \in Seq(S) /\ Len(span) = Len(t3) + Len(gap)
  <2> HIDE DEF t3
  <2> QED BY <1>3, ConcatProperties
<1>5. Holds(span, 0, t3) /\ Holds(span, 0 + Len(t3), gap)
  <2> HIDE DEF t3
  <2>1. Holds(span, 0, t3 \o gap)
    BY <1>4, HoldsAll
  <2> HIDE DEF span
  <2> QED BY <1>3, <1>4, <2>1, HoldsCat
<1>6. Holds(span, 0, t2) /\ Holds(span, 0 + Len(t2), x)
  <2> HIDE DEF span, t2
  <2> QED BY <1>2, <1>4, <1>5, HoldsCat
<1>7. Holds(span, 0, t1) /\ Holds(span, 0 + Len(t1), gap)
  <2> HIDE DEF span, t1
  <2>1. Holds(span, 0, t1 \o gap)
    BY <1>6
  <2> QED BY <1>1, <1>4, <2>1, HoldsCat
<1>8. Holds(span, 0, gap) /\ Holds(span, 0 + Len(gap), header)
  <2> HIDE DEF span
  <2>1. Holds(span, 0, gap \o header)
    BY <1>7
  <2> QED BY <1>4, <2>1, HoldsCat
<1>9. Len(gap) \in Nat /\ Len(header) \in Nat /\ Len(x) \in Nat
  BY LenProperties
<1>10. /\ 0 + Len(gap) = Len(gap) /\ 0 + Len(t1) = Len(gap) + Len(header)
       /\ 0 + Len(t2) = Len(gap) + Len(header) + Len(gap)
       /\ 0 + Len(t3) = Len(gap) + Len(header) + Len(gap) + Len(x)
       /\ Len(span) = Len(gap) + Len(header) + Len(gap) + Len(x) + Len(gap)
  <2> HIDE DEF t1, t2, t3, span
  <2> QED BY <1>1, <1>2, <1>3, <1>4, <1>9
<1>11. Holds(span, 0, gap \o header \o gap)
  BY <1>6
<1> HIDE DEF t1, t2, t3
<1>12. span \in Seq(S)
  BY <1>4
<1> HIDE DEF span
<1> QED BY <1>5, <1>6, <1>7, <1>8, <1>10, <1>11, <1>12 DEF span, t1, t2, t3

\* locate_body, with a header and without.
LEMMA BodyIs ==
  ASSUME NEW S, NEW gap \in Seq(S), Blank(gap),
         NEW inner \in Seq(S), NEW q, NEW ns, Open(q, ns) \in S, Close(q) \in S, NoTag(inner, q),
         q[2] \in {"Body", "body"},
         NEW rest \in Seq(S), NEW r, NEW rs, Open(r, rs) \in S, Close(r) \in S, NoTag(rest, r),
         r[2] \notin {"Body", "body"},
         NEW header \in Seq(S), header = <<>> \/ header = Element(r, rs, rest)
  PROVE  LET span == gap \o header \o gap \o Element(q, ns, inner) \o gap
             b    == BodyAt(span) IN
         /\ span \in Seq(S)
         /\ b \in 1..Len(span) /\ Inner(span, b) = inner
         /\ FindClose(span, b) \in 1..Len(span) /\ Len(inner) < Len(span)
<1> DEFINE x == Element(q, ns, inner)
           span == gap \o header \o gap \o x \o gap
           a == Len(gap) + Len(header) + Len(gap)
           n == a + 1
<1>1. x \in Seq(S) /\ Len(x) = Len(inner) + 2
  BY ElementIs
<1>2. Len(gap) \in Nat /\ Len(inner) \in Nat /\ Len(header) \in Nat
  BY LenProperties
<1>3. /\ span \in Seq(S) /\ Len(span) = a + Len(x) + Len(gap)
      /\ Holds(span, 0, gap) /\ Holds(span, Len(gap), header)
      /\ Holds(span, Len(gap) + Len(header), gap)
      /\ Holds(span, a, x) /\ Holds(span, a + Len(x), gap)
      /\ Holds(span, 0, gap \o header \o gap)
  <2> HIDE DEF x
  <2> QED BY <1>1, PartsLie
<1> HIDE DEF span
<1>4. a \in Nat /\ Len(span) \in Nat
  BY <1>2, <1>3, LenProperties
<1>5. /\ n + Len(inner) + 1 <= Len(span)
      /\ NextElement(span, Len(gap) + Len(header) + 1) = n
      /\ span[n] = Open(q, ns) /\ Ends(span, n)
      /\ FindClose(span, n) = n + Len(inner) + 1
      /\ Inner(span, n) = inner
      /\ After(span, n) = n + Len(inner) + 2
  <2> DEFINE c == Len(gap) + Len(header)
  <2>1. c \in Nat /\ a = c + Len(gap)
    BY <1>2
  <2>2. Holds(span, c, gap) /\ Holds(span, c + Len(gap), Element(q, ns, inner))
    BY <1>3 DEF x
  <2> HIDE DEF c, a
  <2> DEFINE z == c + Len(gap) + 1
  <2>3. span \in Seq(S)
    BY <1>3
  <2>4. /\ z + Len(inner) + 1 <= Len(span)
        /\ NextElement(span, c + 1) = z
        /\ span[z] = Open(q, ns) /\ Ends(span, z)
        /\ FindClose(span, z) = z + Len(inner) + 1
        /\ Inner(span, z) = inner
        /\ After(span, z) = z + Len(inner) + 2
    BY <2>1, <2>2, <2>3, ElementAt
  <2> QED BY <2>1, <2>4 DEF c
<1> DEFINE last == a + Len(x) + 1
<1>6. last = n + Len(inner) + 2 /\ last \in 1..(Len(span) + 1) /\ n \in 1..Len(span) /\ n # 0
  BY <1>1, <1>2, <1>3, <1>4
<1>7. NextElement(span, last) = 0
  <2> DEFINE c == a + Len(x)
  <2>1. c \in Nat /\ c + Len(gap) = Len(span) /\ Holds(span, c, gap)
    BY <1>1, <1>2, <1>3, <1>4
  <2> HIDE DEF c, a, x
  <2>2. NextElement(span, c + 1) = 0
    BY <1>3, <2>1, NoneLeft
  <2> QED BY <2>2 DEF c
<1> HIDE DEF last, n
<1>8. ElementsFrom(span)[last] = <<>>
  BY <1>3, <1>6, <1>7, ElementsUnfold
<1> DEFINE E(p) == ElementsFrom(span)[p]
<1>9. ASSUME NEW p \in 1..(Len(span) + 1), NextElement(span, p) = n
      PROVE  E(p) = <<n>>
  <2>1. E(p) = <<n>> \o E(After(span, n))
    <3>1. span \in Seq(S) /\ n # 0 /\ Ends(span, n)
      BY <1>3, <1>5, <1>6
    <3> QED BY <1>9, <3>1, ElementsUnfold
  <2>2. E(After(span, n)) = <<>>
    BY <1>5, <1>6, <1>8
  <2>3. <<n>> \in Seq(Nat)
    BY <1>6
  <2> QED BY <2>1, <2>2, <2>3, ConcatEmptySeq
<1>10. ElementsOf(span) = E(1)
  BY DEF ElementsOf, ElementsFrom
<1>11. ASSUME NEW elements \in Seq(Nat), ElementsOf(span) = elements,
              NEW k \in 1..Len(elements), elements[k] = n,
              \A i \in 1..Len(elements) : i < k => span[elements[i]].q[2] \notin {"Body", "body"}
       PROVE  BodyAt(span) = n
  <2> DEFINE bodies == {i \in DOMAIN elements : span[elements[i]].q[2] \in {"Body", "body"}}
  <2>1. DOMAIN elements = 1..Len(elements) /\ Len(elements) \in Nat
    BY LenProperties
  <2>2. span[n].q[2] \in {"Body", "body"}
    BY <1>5 DEF Open
  <2>3. bodies \in SUBSET Int /\ k \in bodies /\ \A i \in bodies : k <= i
    <3>1. bodies \in SUBSET Int /\ k \in bodies
      BY <1>11, <2>1, <2>2
    <3>2. ASSUME NEW i \in bodies PROVE k <= i
      <4>1. i \in 1..Len(elements) /\ ~ (i < k)
        BY <1>11, <2>1
      <4> QED BY <2>1, <4>1
    <3> QED BY <3>1, <3>2
  <2> HIDE DEF bodies
  <2>4. Min(bodies) = k /\ bodies # {}
    BY <2>3, MinIs
  <2>5. FindClose(span, n) # 0
    BY <1>2, <1>5, <1>6
  <2> QED BY <1>11, <2>4, <2>5 DEF BodyAt, bodies
<1>12. BodyAt(span) = n
  <2>1. CASE header = <<>>
    <3> DEFINE g == gap \o header \o gap
    <3>1. Blank(header)
      BY <2>1, EmptySeq DEF Blank
    <3>2. gap \o header \in Seq(S) /\ Blank(gap \o header) /\ Len(gap \o header) = Len(gap) + Len(header)
      BY <3>1, BlankCat, ConcatProperties
    <3>3. g \in Seq(S) /\ Blank(g) /\ Len(g) = a
      <4> DEFINE t == gap \o header
      <4>1. t \in Seq(S) /\ Blank(t) /\ Len(t) = Len(gap) + Len(header)
        BY <3>2
      <4> HIDE DEF t
      <4>2. t \o gap \in Seq(S) /\ Blank(t \o gap) /\ Len(t \o gap) = Len(t) + Len(gap)
        BY <4>1, BlankCat, ConcatProperties
      <4> QED BY <4>1, <4>2 DEF t
    <3>4. Holds(span, 0, g) /\ Holds(span, 0 + Len(g), Element(q, ns, inner)) /\ 0 + Len(g) = a
      BY <1>3, <1>4, <3>3 DEF x
    <3> HIDE DEF g, a
    <3>5. NextElement(span, 0 + 1) = 0 + Len(g) + 1
      BY <1>3, <3>3, <3>4, ElementAt
    <3>6. E(1) = <<n>>
      <4>1. NextElement(span, 1) = n /\ 1 \in 1..(Len(span) + 1)
        BY <1>4, <3>4, <3>5 DEF n
      <4> QED BY <1>9, <4>1
    <3>7. <<n>> \in Seq(Nat) /\ Len(<<n>>) = 1 /\ <<n>>[1] = n
      BY <1>6
    <3> DEFINE elements == <<n>>
    <3>8. elements \in Seq(Nat) /\ Len(elements) = 1 /\ elements[1] = n /\ ElementsOf(span) = elements
      BY <1>10, <3>6, <3>7
    <3> HIDE DEF elements, E
    <3>9. 1 \in 1..Len(elements) /\ \A i \in 1..Len(elements) : ~ (i < 1)
      BY <3>8
    <3> QED BY <1>11, <3>8, <3>9
  <2>2. CASE header = Element(r, rs, rest)
    <3> DEFINE h == 0 + Len(gap) + 1
    <3>1. Len(header) = Len(rest) + 2 /\ Len(rest) \in Nat
      BY <2>2, ElementIs, LenProperties
    <3>2. Holds(span, 0, gap) /\ Holds(span, 0 + Len(gap), Element(r, rs, rest))
      BY <1>2, <1>3, <2>2
    <3>3. /\ h + Len(rest) + 1 <= Len(span)
          /\ NextElement(span, 0 + 1) = h
          /\ span[h] = Open(r, rs) /\ Ends(span, h)
          /\ After(span, h) = h + Len(rest) + 2
      <4>1. span \in Seq(S) /\ 0 \in Nat
        BY <1>3
      <4> QED BY <3>2, <4>1, ElementAt
    <3>4. /\ h \in 1..Len(span) /\ h # 0 /\ 0 + 1 = 1 /\ 1 \in 1..(Len(span) + 1)
          /\ h + Len(rest) + 2 = Len(gap) + Len(header) + 1
          /\ Len(gap) + Len(header) + 1 \in 1..(Len(span) + 1)
      BY <1>2, <1>3, <1>4, <3>1, <3>3
    <3> HIDE DEF h
    <3>5. E(1) = <<h>> \o E(After(span, h))
      BY <1>3, <3>3, <3>4, ElementsUnfold
    <3>6. E(After(span, h)) = <<n>>
      BY <1>5, <1>9, <3>3, <3>4
    <3> DEFINE elements == <<h>> \o <<n>>
    <3>7. elements \in Seq(Nat) /\ Len(elements) = 2 /\ elements[1] = h /\ elements[2] = n
      BY <1>6, <3>4
    <3>8. ElementsOf(span) = elements
      BY <1>10, <3>5, <3>6
    <3>9. span[h].q[2] \notin {"Body", "body"}
      BY <3>3 DEF Open
    <3> HIDE DEF elements, E
    <3>10. 2 \in 1..Len(elements)
           /\ \A i \in 1..Len(elements) : i < 2 => span[elements[i]].q[2] \notin {"Body", "body"}
      BY <3>7, <3>9
    <3> QED BY <1>11, <3>7, <3>8, <3>10
  <2> QED BY <2>1, <2>2
<1>13. FindClose(span, n) \in 1..Len(span) /\ Len(inner) < Len(span)
  BY <1>2, <1>4, <1>5, <1>6
<1> QED BY <1>3, <1>5, <1>6, <1>12, <1>13 DEF span, x

\* skip_meta drops what is before the root.
LEMMA MetaIsSkipped ==
  ASSUME NEW S, NEW prolog \in Seq(S), NEW s \in Seq(S), s # <<>>,
         \A i \in 1..Len(prolog) : prolog[i].k \in {"pi", "space", "comment"},
         s[1].k = "open"
  PROVE  SkipMeta(prolog \o s) = s /\ Len(s) <= Len(prolog \o s)
<1> DEFINE doc == prolog \o s
           m == Len(prolog)
           Passed == {"space", "pi", "comment", "doctype"}
<1>1. m \in Nat /\ Len(s) \in Nat /\ Len(s) # 0
  BY LenProperties, EmptySeq
<1>2. /\ doc \in Seq(S) /\ Len(doc) = m + Len(s)
      /\ \A i \in 1..(m + Len(s)) : doc[i] = IF i <= m THEN prolog[i] ELSE s[i - m]
  BY ConcatProperties
<1> HIDE DEF doc
<1>3. \A i \in 1..Len(s) : doc[m + i] = s[i]
  <2> SUFFICES ASSUME NEW i \in 1..Len(s) PROVE doc[m + i] = s[i]
    OBVIOUS
  <2>1. m + i \in 1..(m + Len(s)) /\ ~ (m + i <= m) /\ (m + i) - m = i
    BY <1>1
  <2> QED BY <1>2, <2>1
<1>4. Skip(doc, 1, Passed) = m + 1
  <2>1. \A i \in 1..((m + 1) - 1) : doc[i].k \in Passed
    <3> SUFFICES ASSUME NEW i \in 1..((m + 1) - 1) PROVE doc[i].k \in Passed
      OBVIOUS
    <3>1. i \in 1..(m + Len(s)) /\ i <= m /\ i \in 1..Len(prolog)
      BY <1>1
    <3>2. doc[i] = prolog[i]
      BY <1>2, <3>1
    <3> QED BY <3>1, <3>2
  <2>2. doc[m + 1].k \notin Passed
    <3>1. 1 \in 1..Len(s)
      BY <1>1
    <3>2. doc[m + 1] = s[1]
      BY <1>3, <3>1
    <3> QED BY <3>2
  <2>3. m + 1 \in Nat /\ 1 <= m + 1 /\ m + 1 <= Len(doc) + 1
    BY <1>1, <1>2
  <2> HIDE DEF Passed, m
  <2>4. 1 \in Nat \ {0}
    OBVIOUS
  <2> QED BY <1>2, <2>1, <2>2, <2>3, <2>4, SkipIs
<1>5. SubSeq(doc, m + 1, m + Len(s)) = s
  <2>1. m + Len(s) <= Len(doc)
    BY <1>2
  <2> HIDE DEF m
  <2> QED BY <1>1, <1>2, <1>3, <2>1, SubSeqIs
<1>6. SkipMeta(doc) = s
  BY <1>2, <1>4, <1>5 DEF SkipMeta
<1>7. Len(s) <= Len(doc)
  BY <1>1, <1>2
<1> QED BY <1>6, <1>7 DEF doc

\* What an envelope is parsed to, from the spans in it.
LEMMA EnvelopeIsRead ==
  ASSUME NEW S, NEW s \in Seq(S), NEW size \in Nat, Len(s) <= size,
         NEW e1 \in Seq(S), NEW b1 \in Seq(S), NEW c1 \in Seq(S), NEW b \in 1..Len(e1), NEW n \in 1..Len(b1),
         NEW urn, NEW action, NEW args, NEW q, NEW cq, NEW cs,
         s[1] = Open(q, Plain), q[2] \in {"Envelope", "envelope"},
         Inner(s, 1) = e1, FindClose(s, 1) \in 1..Len(s), Len(e1) < Len(s),
         BodyAt(e1) = b, Inner(e1, b) = b1, FindClose(e1, b) \in 1..Len(e1), Len(b1) < Len(e1),
         NextElement(b1, 1) = n, b1[n] = Open(cq, cs),
         Xmlns(Open(cq, cs)) = urn, urn # NoName, cq[2] = action,
         Ends(b1, n), Inner(b1, n) = c1, Len(c1) < Len(b1), After(b1, n) \in 1..(Len(b1) + 1),
         ArgsOf(c1) = args, <<>> \notin ToSet(args)
  PROVE  ParseEnvelope(s) = Parsed(urn, action, args) /\ Scanned(s) \in Int /\ Scanned(s) < 8 * size
<1>1. Len(s) \in Nat /\ Len(e1) \in Nat /\ Len(b1) \in Nat /\ Len(c1) \in Nat
  BY LenProperties
<1>2. n # 0 /\ b # 0 /\ b # -1 /\ FindClose(s, 1) # 0
  BY <1>1
<1>3. b1[n].q[2] = action
  BY DEF Open
<1>4. ParseAction(b1) = Parsed(urn, action, args)
  BY <1>2, <1>3 DEF ParseAction
<1>5. IsOpen(s[1]) /\ ~ s[1].self /\ s[1].q[2] \in {"Envelope", "envelope"}
  BY DEF IsOpen, Open
<1>6. ParseEnvelope(s) = Parsed(urn, action, args)
  BY <1>2, <1>4, <1>5 DEF ParseEnvelope
<1>7. Scanned(s) = FindClose(s, 1) - 1 + FindClose(e1, b) + After(b1, n) - 1 + Len(c1)
  BY DEF Scanned
<1>8. ASSUME NEW f1 \in 1..Len(s), NEW f2 \in 1..Len(e1), NEW f3 \in 1..(Len(b1) + 1)
      PROVE  /\ f1 - 1 + f2 + f3 - 1 + Len(c1) \in Int
             /\ f1 - 1 + f2 + f3 - 1 + Len(c1) < 8 * size
  BY <1>1, <1>8
<1> QED BY <1>6, <1>7, <1>8

\* The Open tag of a call.
CallTag(urn, action) == Open(<<"u", action>>, [p \in {"u"} |-> urn])

Call(urn, action, span) == Element(<<"u", action>>, [p \in {"u"} |-> urn], span)

\* The call of a request between its gaps.
LEMMA CallIs ==
  ASSUME NEW V, NEW L, NEW U, NEW args \in Seq(Arguments(L, V)), NEW alone,
         NEW gap \in Seq(Tokens(V, L, U)), Blank(gap), NEW urn \in U, NEW action \in L
  PROVE  LET cq   == <<"u", action>>
             span == CallSpan(args, gap, alone)
             b1   == gap \o Call(urn, action, span) \o gap
             n    == NextElement(b1, 1) IN
         /\ b1 \in Seq(Tokens(V, L, U)) /\ span \in Seq(Tokens(V, L, U))
         /\ n \in 1..Len(b1) /\ b1[n] = CallTag(urn, action) /\ Ends(b1, n)
         /\ Inner(b1, n) = span /\ Len(span) < Len(b1)
         /\ After(b1, n) \in 1..(Len(b1) + 1)
         /\ ArgsOf(span) = args
         /\ \A q : q # cq /\ (\A i \in 1..Len(args) : q # <<NoName, args[i][1]>>) => NoTag(b1, q)
<1> DEFINE S == Tokens(V, L, U)
           cq == <<"u", action>>
           cs == [p \in {"u"} |-> urn]
           span == CallSpan(args, gap, alone)
           call == Element(cq, cs, span)
           b1 == gap \o call \o gap
           n == NextElement(b1, 1)
<1>1. /\ span \in Seq(S)
      /\ \A q : (\A i \in 1..Len(args) : q # <<NoName, args[i][1]>>) => NoTag(span, q)
      /\ ArgsOf(span) = args
  BY ArgsAre
<1>2. cq \in Names(L) /\ \A a : cq # <<NoName, a>>
  <2>1. "u" # NoName
    BY Zenon DEF NoName
  <2>2. cq \in Names(L)
    BY NameIs
  <2> QED BY <2>1, <2>2
<1>3. cs \in [{"u"} -> U]
  OBVIOUS
<1> HIDE DEF cq, cs, span
<1>4. Open(cq, cs) \in S /\ Close(cq) \in S
  BY <1>2, <1>3, TagsAre
<1> HIDE DEF S
<1>5. gap \in Seq(S)
  BY DEF S
<1>6. NoTag(span, cq)
  BY <1>1, <1>2
<1>7. /\ b1 \in Seq(S) /\ n \in 1..Len(b1) /\ b1[n] = Open(cq, cs) /\ Ends(b1, n)
      /\ Inner(b1, n) = span /\ Len(span) < Len(b1)
      /\ After(b1, n) \in 1..(Len(b1) + 1)
  BY <1>1, <1>4, <1>5, <1>6, ElementBetween
<1>8. ASSUME NEW q, q # cq, \A i \in 1..Len(args) : q # <<NoName, args[i][1]>>
      PROVE  NoTag(b1, q)
  <2>1. NoTag(span, q)
    BY <1>1, <1>8
  <2>2. call \in Seq(S)
    BY <1>1, <1>4, ElementIs
  <2>3. NoTag(call, q)
    BY <1>1, <1>4, <1>8, <2>1, NoTagElement
  <2> HIDE DEF call
  <2>4. NoTag(gap, q)
    BY DEF NoTag, Blank
  <2>5. gap \o call \in Seq(S)
    BY <1>5, <2>2, ConcatProperties
  <2>6. NoTag(gap \o call, q)
    BY <1>5, <2>2, <2>3, <2>4, NoTagCat
  <2> DEFINE t == gap \o call
  <2>7. t \in Seq(S) /\ NoTag(t, q)
    BY <2>5, <2>6
  <2> HIDE DEF t
  <2>8. NoTag(t \o gap, q)
    BY <1>5, <2>4, <2>7, NoTagCat
  <2> QED BY <2>8 DEF t
<1>9. CallTag(urn, action) = Open(cq, cs)
  BY DEF CallTag, cq, cs
<1>10. Call(urn, action, span) = call
  BY DEF Call, cq, cs
<1> QED BY <1>1, <1>7, <1>8, <1>9, <1>10 DEF S, span, cq

WellKnown == {"Envelope", "envelope", "Body", "body"}

Liberties == [upper : BOOLEAN, bare : BOOLEAN, prolog : BOOLEAN, header : BOOLEAN,
              notes : BOOLEAN, alone : BOOLEAN]

LEMMA PrefixesDiffer == NoName # "u" /\ NoName # "h" /\ NoName # "s"
<1>1. NoName # "u"
  BY Zenon DEF NoName
<1>2. NoName # "h"
  BY Zenon DEF NoName
<1>3. NoName # "s"
  BY Zenon DEF NoName
<1> QED BY <1>1, <1>2, <1>3

LEMMA PairIs ==
  ASSUME NEW a, NEW b
  PROVE  <<a, b>>[1] = a /\ <<a, b>>[2] = b
  OBVIOUS

(* parse_soap_request reads what a control point wrote, in whatever of the   *)
(* ways that it tolerates: the service, the action and the arguments with    *)
(* their values, in order; and no such document is too complex for it.       *)
THEOREM RequestsAreRead ==
  ASSUME NEW V, NEW N, N \cap WellKnown = {}, NEW args \in Seq(Arguments(N, V)),
         NEW urn, urn # NoName, NEW action, NEW style \in Liberties
  PROVE  Parse(Render(urn, action, args, style)) = Parsed(urn, action, args)
<1> DEFINE L == N \cup WellKnown \cup {"Header", action}
           U == {urn}
           S == Tokens(V, L, U)
           prefix == IF style.bare THEN NoName ELSE "s"
           envelope == <<prefix, IF style.upper THEN "Envelope" ELSE "envelope">>
           body == <<prefix, IF style.upper THEN "Body" ELSE "body">>
           hq == <<prefix, "Header">>
           prolog == IF style.prolog THEN <<Other("pi"), Other("space"), Other("comment")>> ELSE <<>>
           gap == IF style.notes THEN <<Other("space"), Other("comment"), Other("space")>> ELSE <<>>
           inHeader == <<Alone(<<"h", "Body">>, Plain)>>
           header == IF style.header THEN Element(hq, Plain, inHeader) ELSE <<>>
           span == CallSpan(args, gap, style.alone)
           cq == <<"u", action>>
           cs == [p \in {"u"} |-> urn]
           call == Element(cq, cs, span)
           b1 == gap \o call \o gap
           e1 == gap \o header \o gap \o Element(body, Plain, b1) \o gap
           s == Element(envelope, Plain, e1)
           doc == prolog \o s
<1>1. Render(urn, action, args, style) = doc
  BY DEF Render, CallSpan, ArgSpan, ValueSpan
<1>2. gap \in Seq(S) /\ Blank(gap) /\ \A q : NoTag(gap, q)
  <2> DEFINE x == Other("space")
             y == Other("comment")
  <2>1. x \in S /\ y \in S /\ x.k = "space" /\ y.k = "comment"
    BY TokensAre DEF Other
  <2> HIDE DEF x, y, S
  <2>2. <<x, y, x>> \in Seq(S) /\ Blank(<<x, y, x>>)
    BY <2>1 DEF Blank
  <2>3. <<>> \in Seq(S) /\ Blank(<<>>)
    BY EmptySeq DEF Blank
  <2>4. gap = <<x, y, x>> \/ gap = <<>>
    BY DEF x, y
  <2> HIDE DEF gap
  <2>5. gap \in Seq(S) /\ Blank(gap)
    BY <2>2, <2>3, <2>4
  <2> QED BY <2>5 DEF NoTag, Blank
<1>3. prolog \in Seq(S) /\ \A i \in 1..Len(prolog) : prolog[i].k \in {"pi", "space", "comment"}
  <2> DEFINE x == Other("pi")
             y == Other("space")
             z == Other("comment")
  <2>1. x \in S /\ y \in S /\ z \in S /\ x.k = "pi" /\ y.k = "space" /\ z.k = "comment"
    BY TokensAre DEF Other
  <2> HIDE DEF x, y, z, S
  <2>2. <<x, y, z>> \in Seq(S) /\ \A i \in 1..Len(<<x, y, z>>) : <<x, y, z>>[i].k \in {"pi", "space", "comment"}
    BY <2>1
  <2>3. <<>> \in Seq(S) /\ \A i \in 1..Len(<<>>) : <<>>[i].k \in {"pi", "space", "comment"}
    BY EmptySeq
  <2>4. prolog = <<x, y, z>> \/ prolog = <<>>
    BY DEF x, y, z
  <2> HIDE DEF prolog
  <2> QED BY <2>2, <2>3, <2>4
<1>4. prefix \in {NoName, "s"}
  OBVIOUS
<1>5. /\ envelope[1] = prefix /\ envelope[2] \in {"Envelope", "envelope"}
      /\ body[1] = prefix /\ body[2] \in {"Body", "body"}
      /\ hq[1] = prefix /\ hq[2] = "Header" /\ cq[1] = "u" /\ cq[2] = action
  <2> HIDE DEF prefix
  <2> QED BY PairIs
<1>6. /\ envelope \in Names(L) /\ body \in Names(L) /\ hq \in Names(L)
      /\ <<"h", "Body">> \in Names(L)
  <2>1. /\ "Envelope" \in L /\ "envelope" \in L /\ "Body" \in L /\ "body" \in L /\ "Header" \in L
    BY DEF WellKnown
  <2>2. prefix \in {NoName, "s", "u", "h"}
    BY <1>4
  <2> HIDE DEF prefix, L
  <2> QED BY <2>1, <2>2, NameIs
<1>7. /\ envelope # body /\ envelope # hq /\ envelope # cq /\ envelope # <<"h", "Body">>
      /\ body # cq /\ hq # <<"h", "Body">> /\ body # hq
  <2> HIDE DEF prefix, envelope, body, hq, cq
  <2>1. prefix # "u" /\ prefix # "h"
    BY <1>4, PrefixesDiffer
  <2> QED BY <1>5, <2>1, PairIs
<1>8. args \in Seq(Arguments(L, V)) /\ \A i \in 1..Len(args) : args[i][1] \in N /\ args[i] # <<>>
  <2>1. Arguments(N, V) \subseteq Arguments(L, V)
    BY DEF Arguments
  <2>2. \A i \in 1..Len(args) : args[i] \in Arguments(N, V)
    BY ElementOfSeq
  <2>3. \A a \in Arguments(N, V) : a[1] \in N /\ a # <<>>
    BY DEF Arguments
  <2>4. args \in Seq(Arguments(L, V))
    <3> HIDE DEF L
    <3> QED BY <2>1, SeqMonotonic
  <2> QED BY <2>2, <2>3, <2>4
<1>9. \A i \in 1..Len(args) : envelope # <<NoName, args[i][1]>> /\ body # <<NoName, args[i][1]>>
  <2> SUFFICES ASSUME NEW i \in 1..Len(args)
               PROVE  envelope # <<NoName, args[i][1]>> /\ body # <<NoName, args[i][1]>>
    OBVIOUS
  <2>1. args[i][1] \notin {"Envelope", "envelope", "Body", "body"}
    BY <1>8 DEF WellKnown
  <2> HIDE DEF envelope, body
  <2> QED BY <1>5, <2>1, PairIs
<1>10. urn \in U /\ action \in L
  OBVIOUS
<1> HIDE DEF L, U, gap, prolog, prefix, envelope, body, hq, cq, cs, span
<1>11. CallTag(urn, action) = Open(cq, cs)
  BY DEF CallTag, cq, cs
<1> DEFINE n == NextElement(b1, 1)
<1>12. /\ b1 \in Seq(S) /\ span \in Seq(S)
       /\ n \in 1..Len(b1) /\ b1[n] = Open(cq, cs) /\ Ends(b1, n)
       /\ Inner(b1, n) = span /\ Len(span) < Len(b1)
       /\ After(b1, n) \in 1..(Len(b1) + 1)
       /\ ArgsOf(span) = args
       /\ NoTag(b1, body) /\ NoTag(b1, envelope)
  <2>1. gap \in Seq(Tokens(V, L, U)) /\ Blank(gap)
    BY <1>2
  <2> DEFINE alone == style.alone
             c == Call(urn, action, CallSpan(args, gap, alone))
             w == gap \o c \o gap
             z == NextElement(w, 1)
  <2> HIDE DEF alone
  <2>2. /\ w \in Seq(Tokens(V, L, U)) /\ CallSpan(args, gap, alone) \in Seq(Tokens(V, L, U))
        /\ z \in 1..Len(w) /\ w[z] = CallTag(urn, action) /\ Ends(w, z)
        /\ Inner(w, z) = CallSpan(args, gap, alone) /\ Len(CallSpan(args, gap, alone)) < Len(w)
        /\ After(w, z) \in 1..(Len(w) + 1)
        /\ ArgsOf(CallSpan(args, gap, alone)) = args
        /\ \A q : q # <<"u", action>> /\ (\A i \in 1..Len(args) : q # <<NoName, args[i][1]>>) => NoTag(w, q)
    BY <1>8, <1>10, <2>1, CallIs
  <2>3. w = b1 /\ z = n /\ CallSpan(args, gap, alone) = span
    BY DEF alone, span, cq, cs, Call
  <2>4. \A q : q # cq /\ (\A i \in 1..Len(args) : q # <<NoName, args[i][1]>>) => NoTag(b1, q)
    BY <2>2, <2>3 DEF cq
  <2> HIDE DEF w, z
  <2>5. NoTag(b1, body) /\ NoTag(b1, envelope)
    <3> HIDE DEF b1
    <3> QED BY <1>7, <1>9, <2>4
  <2> QED BY <1>11, <2>2, <2>3, <2>5
<1> HIDE DEF b1, n, S
<1>13. /\ Open(envelope, Plain) \in S /\ Close(envelope) \in S
       /\ Open(body, Plain) \in S /\ Close(body) \in S
       /\ Open(hq, Plain) \in S /\ Close(hq) \in S
       /\ Alone(<<"h", "Body">>, Plain) \in S
  BY <1>6, TagsAre DEF S
<1>14. inHeader \in Seq(S) /\ NoTag(inHeader, hq) /\ NoTag(inHeader, envelope)
  <2> DEFINE x == Alone(<<"h", "Body">>, Plain)
  <2>1. x.q = <<"h", "Body">>
    BY DEF Alone
  <2>2. x \in S /\ x.q # hq /\ x.q # envelope
    BY <1>7, <1>13, <2>1
  <2> HIDE DEF x
  <2>3. <<x>> \in Seq(S) /\ NoTag(<<x>>, hq) /\ NoTag(<<x>>, envelope)
    BY <2>2 DEF NoTag
  <2> QED BY <2>3 DEF x
<1> HIDE DEF inHeader
<1>15. /\ header \in Seq(S) /\ NoTag(header, envelope)
       /\ header = <<>> \/ header = Element(hq, Plain, inHeader)
  <2>1. Element(hq, Plain, inHeader) \in Seq(S)
    BY <1>13, <1>14, ElementIs
  <2>2. NoTag(Element(hq, Plain, inHeader), envelope)
    BY <1>7, <1>13, <1>14, NoTagElement
  <2>3. <<>> \in Seq(S) /\ NoTag(<<>>, envelope)
    BY EmptySeq DEF NoTag
  <2> QED BY <2>1, <2>2, <2>3
<1> HIDE DEF header
<1> DEFINE b == BodyAt(e1)
<1>16. /\ e1 \in Seq(S) /\ b \in 1..Len(e1) /\ Inner(e1, b) = b1
       /\ FindClose(e1, b) \in 1..Len(e1) /\ Len(b1) < Len(e1)
  <2>1. hq[2] \notin {"Body", "body"}
    BY <1>5
  <2>2. gap \in Seq(S) /\ Blank(gap) /\ body[2] \in {"Body", "body"}
    BY <1>2, <1>5
  <2>3. b1 \in Seq(S) /\ NoTag(b1, body)
    BY <1>12
  <2>4. inHeader \in Seq(S) /\ NoTag(inHeader, hq)
    BY <1>14
  <2>5. header \in Seq(S) /\ (header = <<>> \/ header = Element(hq, Plain, inHeader))
    BY <1>15
  <2> QED BY <1>13, <2>1, <2>2, <2>3, <2>4, <2>5, BodyIs, SMTT(60)
<1>17. NoTag(e1, envelope)
  <2> DEFINE x == Element(body, Plain, b1)
             t1 == gap \o header
             t2 == t1 \o gap
             t3 == t2 \o x
  <2>1. x \in Seq(S) /\ NoTag(x, envelope)
    BY <1>7, <1>12, <1>13, ElementIs, NoTagElement
  <2>2. NoTag(gap, envelope) /\ gap \in Seq(S)
    BY <1>2
  <2> HIDE DEF x
  <2>3. t1 \in Seq(S) /\ NoTag(t1, envelope)
    BY <1>15, <2>2, NoTagCat, ConcatProperties
  <2> HIDE DEF t1
  <2>4. t2 \in Seq(S) /\ NoTag(t2, envelope)
    BY <2>2, <2>3, NoTagCat, ConcatProperties
  <2> HIDE DEF t2
  <2>5. t3 \in Seq(S) /\ NoTag(t3, envelope)
    BY <2>1, <2>4, NoTagCat, ConcatProperties
  <2> HIDE DEF t3
  <2>6. NoTag(t3 \o gap, envelope)
    BY <2>2, <2>5, NoTagCat
  <2> QED BY <2>6 DEF t3, t2, t1, x
<1> HIDE DEF e1, b
<1>18. s \in Seq(S) /\ Len(s) = Len(e1) + 2 /\ Len(e1) \in Nat
  BY <1>13, <1>16, ElementIs, LenProperties
<1>19. s[1] = Open(envelope, Plain) /\ Inner(s, 1) = e1 /\ FindClose(s, 1) = Len(e1) + 2
  <2>1. Holds(s, 0, s)
    BY <1>18, HoldsAll
  <2> DEFINE g == <<>>
             a == 0
             z == a + Len(g) + 1
  <2>2. g \in Seq(S) /\ Blank(g) /\ Len(g) = 0 /\ a \in Nat
    BY EmptySeq DEF Blank
  <2>3. a + Len(g) = 0 /\ z = 1 /\ z + Len(e1) + 1 = Len(e1) + 2
    BY <1>18, <2>2
  <2>4. Holds(s, a, g)
    BY <1>18, <2>2, LenProperties DEF Holds
  <2>5. Holds(s, a + Len(g), Element(envelope, Plain, e1))
    BY <2>1, <2>3
  <2>6. e1 \in Seq(S) /\ s \in Seq(S)
    BY <1>16, <1>18
  <2> HIDE DEF g, s, a
  <2>7. g \in Seq(S) /\ Blank(g) /\ a \in Nat
    BY <2>2
  <2>9. /\ s[z] = Open(envelope, Plain)
        /\ FindClose(s, z) = z + Len(e1) + 1
        /\ Inner(s, z) = e1
    <3>1. Open(envelope, Plain) \in S /\ Close(envelope) \in S
      BY <1>13
    <3> QED BY <1>17, <2>4, <2>5, <2>6, <2>7, <3>1, ElementAt
  <2> HIDE DEF z
  <2> QED BY <2>3, <2>9
<1> HIDE DEF s
<1>20. SkipMeta(doc) = s /\ Len(s) <= Len(doc) /\ s # <<>> /\ Len(doc) \in Nat
  <2>1. s # <<>> /\ s[1].k = "open"
    <3>1. Len(s) # 0
      BY <1>18
    <3>2. s # <<>>
      BY <3>1, EmptySeq
    <3>3. s[1].k = "open"
      BY <1>19 DEF Open
    <3> QED BY <3>2, <3>3
  <2>2. doc \in Seq(S)
    BY <1>3, <1>18, ConcatProperties
  <2>3. SkipMeta(doc) = s /\ Len(s) <= Len(doc)
    BY <1>3, <1>18, <2>1, MetaIsSkipped
  <2> QED BY <2>1, <2>2, <2>3, LenProperties
<1> HIDE DEF doc
<1>21. ParseEnvelope(s) = Parsed(urn, action, args) /\ Scanned(s) \in Int /\ Scanned(s) < 8 * Len(doc)
  <2> DEFINE size == Len(doc)
  <2>1. size \in Nat /\ Len(s) <= size
    BY <1>20
  <2>2. envelope[2] \in {"Envelope", "envelope"} /\ cq[2] = action
    BY <1>5
  <2>3. FindClose(s, 1) \in 1..Len(s) /\ Len(e1) < Len(s)
    BY <1>18, <1>19
  <2>4. Xmlns(Open(cq, cs)) = urn
    <3>1. Open(cq, cs).q[1] = "u" /\ Open(cq, cs).ns = cs
      BY <1>5 DEF Open
    <3>2. "u" \in DOMAIN cs /\ cs["u"] = urn
      BY DEF cs
    <3> QED BY <3>1, <3>2 DEF Xmlns
  <2>5. <<>> \notin ToSet(args)
    <3>1. DOMAIN args = 1..Len(args)
      BY LenProperties
    <3> QED BY <1>8, <3>1 DEF ToSet
  <2>6. NextElement(b1, 1) = n /\ BodyAt(e1) = b
    BY DEF n, b
  <2> HIDE DEF size
  <2>7. ParseEnvelope(s) = Parsed(urn, action, args) /\ Scanned(s) \in Int /\ Scanned(s) < 8 * size
    BY <1>12, <1>16, <1>18, <1>19, <2>1, <2>2, <2>3, <2>4, <2>5, <2>6, EnvelopeIsRead, SMTT(60)
  <2> QED BY <2>7 DEF size
<1>22. ~ (Scanned(s) >= ScanBudget(doc))
  BY <1>20, <1>21 DEF ScanBudget
<1>23. Parse(doc) = Parsed(urn, action, args)
  <2>1. ParseEnvelope(s).error = NoName
    BY <1>21 DEF Parsed
  <2> QED BY <1>20, <1>21, <1>22, <2>1 DEF Parse
<1> QED BY <1>1, <1>23

-----------------------------------------------------------------------------
(* What a browse answers.                                                  *)

IsSeq(s) == Len(s) \in Nat /\ s = [i \in 1..Len(s) |-> s[i]]

LEMMA SeqsAre ==
  ASSUME NEW S, NEW s \in Seq(S)
  PROVE  IsSeq(s) /\ DOMAIN s = 1..Len(s) /\ Len(s) \in Nat
<1>1. Len(s) \in Nat /\ s \in [1..Len(s) -> S]
  BY LenProperties
<1>2. s = [i \in 1..Len(s) |-> s[i]] /\ DOMAIN s = 1..Len(s)
  BY <1>1
<1> QED BY <1>1, <1>2 DEF IsSeq

LEMMA ListIs ==
  ASSUME NEW n \in Nat, NEW s, s = [i \in 1..n |-> s[i]]
  PROVE  IsSeq(s) /\ Len(s) = n /\ DOMAIN s = 1..n
<1> DEFINE S == {s[i] : i \in 1..n}
<1>1. s \in [1..n -> S]
  OBVIOUS
<1> HIDE DEF S
<1>2. s \in Seq(S) /\ Len(s) = n
  BY <1>1, FunctionIs
<1> QED BY <1>1, <1>2, SeqsAre

LEMMA CatIs ==
  ASSUME NEW s, NEW t, IsSeq(s), IsSeq(t)
  PROVE  /\ IsSeq(s \o t) /\ Len(s \o t) = Len(s) + Len(t)
         /\ \A i \in 1..Len(s) : (s \o t)[i] = s[i]
         /\ \A i \in 1..Len(t) : (s \o t)[Len(s) + i] = t[i]
<1> DEFINE S == {s[i] : i \in 1..Len(s)} \cup {t[i] : i \in 1..Len(t)}
           w == s \o t
<1>1. s \in [1..Len(s) -> S] /\ t \in [1..Len(t) -> S] /\ Len(s) \in Nat /\ Len(t) \in Nat
  BY DEF IsSeq
<1> HIDE DEF S
<1>2. s \in Seq(S) /\ t \in Seq(S)
  BY <1>1, FunctionIs
<1>3. /\ w \in Seq(S) /\ Len(w) = Len(s) + Len(t)
      /\ \A i \in 1..(Len(s) + Len(t)) : w[i] = IF i <= Len(s) THEN s[i] ELSE t[i - Len(s)]
  BY <1>2, ConcatProperties
<1> HIDE DEF w
<1>4. ASSUME NEW i \in 1..Len(s) PROVE w[i] = s[i]
  BY <1>1, <1>3
<1>5. ASSUME NEW i \in 1..Len(t) PROVE w[Len(s) + i] = t[i]
  <2>1. Len(s) + i \in 1..(Len(s) + Len(t)) /\ ~ (Len(s) + i <= Len(s)) /\ (Len(s) + i) - Len(s) = i
    BY <1>1
  <2> QED BY <1>3, <2>1
<1>6. IsSeq(w)
  BY <1>3, SeqsAre
<1> QED BY <1>3, <1>4, <1>5, <1>6 DEF w

LEMMA SubSeqOf ==
  ASSUME NEW s, IsSeq(s), NEW a \in Nat, NEW b \in Nat, a <= b, b <= Len(s)
  PROVE  /\ IsSeq(SubSeq(s, a + 1, b)) /\ Len(SubSeq(s, a + 1, b)) = b - a
         /\ \A i \in 1..(b - a) : SubSeq(s, a + 1, b)[i] = s[a + i]
<1> DEFINE S == {s[i] : i \in 1..Len(s)}
           c == a + 1
           u == SubSeq(s, c, b)
<1>1. c \in Int /\ b \in Int /\ Len(s) \in Nat /\ \A i \in c..b : s[i] \in S
  BY DEF IsSeq
<1>2. b - c + 1 = b - a /\ (c <= b => b - c + 1 = b - a) /\ (~ (c <= b) => b - a = 0)
  OBVIOUS
<1> HIDE DEF S, c
<1>3. /\ u \in Seq(S) /\ Len(u) = IF c <= b THEN b - c + 1 ELSE 0
      /\ \A i \in 1..(b - c + 1) : u[i] = s[c + i - 1]
  BY <1>1, SubSeqProperties
<1> HIDE DEF u
<1>4. Len(u) = b - a
  BY <1>2, <1>3
<1>5. ASSUME NEW i \in 1..(b - a) PROVE u[i] = s[a + i]
  <2>1. c + i - 1 = a + i
    BY DEF c
  <2> QED BY <1>2, <1>3, <2>1
<1>6. IsSeq(u)
  BY <1>3, SeqsAre
<1> QED BY <1>4, <1>5, <1>6 DEF u, c

LEMMA PrefixOf ==
  ASSUME NEW s, NEW t, IsSeq(s), IsSeq(t), Len(s) <= Len(t), \A i \in 1..Len(s) : s[i] = t[i]
  PROVE  IsPrefix(s, t)
<1>1. Len(s) \in Nat /\ Len(t) \in Nat
  BY DEF IsSeq
<1> DEFINE z == 0
           u == SubSeq(t, z + 1, Len(s))
<1>2. z \in Nat /\ z <= Len(s) /\ z + 1 = 1
  BY <1>1
<1> HIDE DEF z
<1>3. /\ IsSeq(u) /\ Len(u) = Len(s) - z
      /\ \A i \in 1..(Len(s) - z) : u[i] = t[z + i]
  BY <1>1, <1>2, SubSeqOf
<1> HIDE DEF u
<1>4. u = s
  <2>1. z = 0
    BY DEF z
  <2>2. Len(u) = Len(s) /\ \A i \in 1..Len(s) : u[i] = s[i]
    BY <1>1, <1>3, <2>1
  <2> QED BY <1>3, <2>2 DEF IsSeq
<1>5. SubSeq(t, 1, Len(s)) = s
  BY <1>2, <1>4 DEF u
<1>6. DOMAIN s = 1..Len(s) /\ DOMAIN t = 1..Len(t)
  BY <1>1, ListIs DEF IsSeq
<1> QED BY <1>1, <1>5, <1>6 DEF IsPrefix

\* The library, which no step of the session changes.
LibraryInv ==
  /\ DOMAIN artists = {ArtistId(f) : f \in Files}
  /\ DOMAIN albums = {AlbumId(f) : f \in Files}
  /\ DOMAIN tracks = {TrackId(f) : f \in Files}
  /\ \A a \in DOMAIN albums : albums[a].cover # None =>
       /\ albums[a].cover \in DOMAIN assets
       /\ WithinRoot([dir |-> assets[albums[a].cover]])

LEMMA TablesAreFew ==
  ASSUME LibraryInv
  PROVE  /\ IsFiniteSet(DOMAIN artists) /\ DOMAIN artists \subseteq Seq(Nat)
         /\ IsFiniteSet(DOMAIN albums) /\ DOMAIN albums \subseteq Seq(Nat)
         /\ IsFiniteSet(DOMAIN tracks) /\ DOMAIN tracks \subseteq Seq(Nat)
  BY IdsAreFew DEF LibraryInv

LEMMA AlbumsOfArtistAre ==
  ASSUME LibraryInv, NEW a
  PROVE  /\ AlbumsOfArtist(a) \subseteq DOMAIN albums
         /\ IsFiniteSet(AlbumsOfArtist(a)) /\ AlbumsOfArtist(a) \in SUBSET Seq(Nat)
<1>1. AlbumsOfArtist(a) \subseteq DOMAIN albums
  BY DEF AlbumsOfArtist
<1> QED BY <1>1, TablesAreFew, FS_Subset

LEMMA TracksOfAlbumAre ==
  ASSUME LibraryInv, NEW a
  PROVE  /\ TracksOfAlbum(a) \subseteq DOMAIN tracks
         /\ IsFiniteSet(TracksOfAlbum(a)) /\ TracksOfAlbum(a) \in SUBSET Seq(Nat)
<1>1. TracksOfAlbum(a) \subseteq DOMAIN tracks
  BY DEF TracksOfAlbum
<1> QED BY <1>1, TablesAreFew, FS_Subset

LEMMA PageOfIs ==
  ASSUME NEW S \in SUBSET Seq(Nat), IsFiniteSet(S), NEW start \in Nat, NEW count \in Nat \ {0},
         start <= Cardinality(S)
  PROVE  LET p == PageOf(S, start, count) IN
         /\ IsSeq(p) /\ start + Len(p) <= Cardinality(S)
         /\ start < Cardinality(S) => Len(p) # 0
         /\ \A i \in 1..Len(p) : p[i] = Sorted(S)[start + i] /\ p[i] \in S
<1> DEFINE n == Cardinality(S)
           b == IF start + count < n THEN start + count ELSE n
           p == SubSeq(Sorted(S), start + 1, b)
<1>1. n \in Nat /\ Sorted(S) \in [1..n -> S]
  BY SortedLists
<1>2. IsSeq(Sorted(S)) /\ Len(Sorted(S)) = n
  <2> DEFINE s == Sorted(S)
  <2>1. s = [i \in 1..n |-> s[i]]
    BY <1>1
  <2> HIDE DEF s, n
  <2> QED BY <1>1, <2>1, ListIs DEF s
<1>3. PageOf(S, start, count) = p
  BY <1>2 DEF PageOf
<1> HIDE DEF n
<1>4. b \in Nat /\ start <= b /\ b <= n /\ (start < n => start < b)
  BY <1>1 DEF n
<1> HIDE DEF b
<1>5. /\ IsSeq(p) /\ Len(p) = b - start
      /\ \A i \in 1..(b - start) : p[i] = Sorted(S)[start + i]
  BY <1>2, <1>4, SubSeqOf
<1> HIDE DEF p
<1>6. ASSUME NEW i \in 1..Len(p) PROVE p[i] = Sorted(S)[start + i] /\ p[i] \in S
  <2>1. p[i] = Sorted(S)[start + i] /\ start + i \in 1..n
    BY <1>1, <1>4, <1>5
  <2> QED BY <1>1, <2>1
<1>7. start + Len(p) <= n /\ (start < n => Len(p) # 0)
  BY <1>1, <1>4, <1>5
<1> QED BY <1>3, <1>5, <1>6, <1>7 DEF n

\* reply is a page of what all lists, from start on.
IsPage(reply, all, start) ==
  /\ IsSeq(reply.objects) /\ reply.total = Len(all)
  /\ start + Len(reply.objects) <= Len(all)
  /\ start < Len(all) => Len(reply.objects) # 0
  /\ \A i \in 1..Len(reply.objects) : reply.objects[i].id = all[start + i]

LEMMA LimitIs ==
  ASSUME NEW count \in Nat
  PROVE  (IF count = 0 THEN MaxPage ELSE LeastOf(count, MaxPage)) \in Nat \ {0}
  BY MaxPageAssumption DEF LeastOf

\* The ids of the objects that a listing is made of, in its order.
ListedIds(object) ==
  [i \in 1..Cardinality(DOMAIN object) |-> object[Sorted(DOMAIN object)[i]].id]

LEMMA ListingIs ==
  ASSUME NEW object, DOMAIN object \in SUBSET Seq(Nat), IsFiniteSet(DOMAIN object),
         NEW page, page.start \in Nat, page.count \in Nat, NEW all,
         all = ListedIds(object), page.start <= Len(all)
  PROVE  LET reply == Listing(object, page) IN
         /\ IsPage(reply, all, page.start)
         /\ \A i \in 1..Len(reply.objects) : \E x \in DOMAIN object : reply.objects[i] = object[x]
         /\ reply.updateId = systemUpdateId
<1> DEFINE start == page.start
           count == page.count
           S == DOMAIN object
           limit == IF count = 0 THEN MaxPage ELSE LeastOf(count, MaxPage)
           p == PageOf(S, start, limit)
           objects == [i \in DOMAIN p |-> object[p[i]]]
           reply == Listing(object, page)
<1>0. start \in Nat /\ count \in Nat
  OBVIOUS
<1>1. limit \in Nat \ {0}
  BY LimitIs
<1>2. reply = Result(objects, Cardinality(S))
  BY DEF Listing
<1>3. reply.objects = objects /\ reply.total = Cardinality(S) /\ reply.updateId = systemUpdateId
  BY <1>2 DEF Result
<1> HIDE DEF limit, S, reply, start, count
<1>4. Cardinality(S) \in Nat /\ S \in SUBSET Seq(Nat) /\ IsFiniteSet(S)
  BY SortedLists DEF S
<1>5. Len(all) = Cardinality(S) /\ \A i \in 1..Cardinality(S) : all[i] = object[Sorted(S)[i]].id
  <2>1. all = [i \in 1..Cardinality(S) |-> object[Sorted(S)[i]].id]
    BY DEF S, ListedIds
  <2>2. all = [i \in 1..Cardinality(S) |-> all[i]] /\ \A i \in 1..Cardinality(S) : all[i] = object[Sorted(S)[i]].id
    BY <2>1
  <2> QED BY <1>4, <2>2, ListIs
<1>6. /\ IsSeq(p) /\ start + Len(p) <= Cardinality(S)
      /\ start < Cardinality(S) => Len(p) # 0
      /\ \A i \in 1..Len(p) : p[i] = Sorted(S)[start + i] /\ p[i] \in S
  <2>1. start <= Cardinality(S)
    BY <1>5 DEF start
  <2> QED BY <1>0, <1>1, <1>4, <2>1, PageOfIs
<1> HIDE DEF p
<1>7. DOMAIN p = 1..Len(p) /\ Len(p) \in Nat
  BY <1>6, ListIs DEF IsSeq
<1>8. IsSeq(objects) /\ Len(objects) = Len(p) /\ \A i \in 1..Len(p) : objects[i] = object[p[i]]
  <2>1. objects = [i \in 1..Len(p) |-> objects[i]] /\ \A i \in 1..Len(p) : objects[i] = object[p[i]]
    BY <1>7
  <2> HIDE DEF objects
  <2> QED BY <1>7, <2>1, ListIs
<1> HIDE DEF objects
<1>9. ASSUME NEW i \in 1..Len(objects)
      PROVE  objects[i].id = all[start + i] /\ \E x \in S : objects[i] = object[x]
  <2>1. objects[i] = object[p[i]] /\ p[i] = Sorted(S)[start + i] /\ p[i] \in S
    BY <1>6, <1>8
  <2>2. start + i \in 1..Cardinality(S)
    BY <1>0, <1>4, <1>6, <1>7, <1>8
  <2> QED BY <1>5, <2>1, <2>2
<1>10. IsPage(reply, all, start)
  BY <1>3, <1>5, <1>6, <1>8, <1>9 DEF IsPage
<1> QED BY <1>3, <1>9, <1>10 DEF reply, S, start

-----------------------------------------------------------------------------
(* A page holds the children that ChildIds names, from its start on.         *)

\* The kinds whose listings are cut into pages.
Paged == {"artists", "tracks", "playlists", "artist_albums", "album", "playlist"}

\* An item that is listed is that of a track under some parent.
Listed(object, profile) ==
  IsItem(object) => \E t \in DOMAIN tracks, parent \in {object.parent} : object = Item(t, parent, profile)

\* What a page of one container answers.
Answers(reply, o, start, profile) ==
  /\ IsSeq(ChildIds(o)) /\ IsPage(reply, ChildIds(o), start)
  /\ \A i \in 1..Len(reply.objects) : Listed(reply.objects[i], profile)
  /\ o.kind \notin Paged => Len(reply.objects) = reply.total
  /\ o.kind # "track" => reply.updateId = systemUpdateId
  /\ reply.objects = <<>> \/ reply.updateId = systemUpdateId

LEMMA ContainerIs ==
  ASSUME NEW id, NEW parent, NEW count
  PROVE  /\ Container(id, parent, count).id = id
         /\ ~ IsItem(Container(id, parent, count))
  BY DEF Container, IsItem

LEMMA ItemIs ==
  ASSUME NEW t, NEW parent, NEW profile
  PROVE  /\ Item(t, parent, profile).id = <<"track">> \o t
         /\ Item(t, parent, profile).parent = parent
         /\ IsItem(Item(t, parent, profile))
  BY DEF Item, IsItem

\* The ids of rows of a kind, in the order of the rows.
Under(kind, S) == [i \in DOMAIN Sorted(S) |-> <<kind>> \o Sorted(S)[i]]

LEMMA UnderIs ==
  ASSUME NEW kind, NEW object, DOMAIN object \in SUBSET Seq(Nat), IsFiniteSet(DOMAIN object),
         \A x \in DOMAIN object : object[x].id = <<kind>> \o x
  PROVE  LET all == Under(kind, DOMAIN object) IN
         /\ all = ListedIds(object)
         /\ Len(all) = Cardinality(DOMAIN object) /\ IsSeq(all)
<1> DEFINE S == DOMAIN object
           all == [i \in DOMAIN Sorted(S) |-> <<kind>> \o Sorted(S)[i]]
           n == Cardinality(S)
<1>1. n \in Nat /\ Sorted(S) \in [1..n -> S]
  BY SortedLists
<1> HIDE DEF n, S
<1>2. all = [i \in 1..n |-> object[Sorted(S)[i]].id]
  <2>1. DOMAIN Sorted(S) = 1..n /\ \A i \in 1..n : <<kind>> \o Sorted(S)[i] = object[Sorted(S)[i]].id
    BY <1>1 DEF S
  <2> QED BY <2>1
<1>3. all = [i \in 1..n |-> all[i]]
  BY <1>2
<1> HIDE DEF all
<1>4. Len(all) = n /\ IsSeq(all)
  BY <1>1, <1>3, ListIs
<1> QED BY <1>2, <1>4 DEF n, all, S, Under, ListedIds

\* A listing of rows.
LEMMA RowsPage ==
  ASSUME NEW kind, NEW object, DOMAIN object \in SUBSET Seq(Nat), IsFiniteSet(DOMAIN object),
         \A x \in DOMAIN object : object[x].id = <<kind>> \o x,
         NEW page, page.start \in Nat, page.count \in Nat, NEW o, NEW profile, o.kind \in Paged,
         ChildIds(o) = Under(kind, DOMAIN object), page.start <= Len(ChildIds(o)),
         \A x \in DOMAIN object : Listed(object[x], profile)
  PROVE  Answers(Listing(object, page), o, page.start, profile)
<1> DEFINE all == ChildIds(o)
           reply == Listing(object, page)
<1>1. all = ListedIds(object) /\ IsSeq(all)
  BY UnderIs
<1> HIDE DEF all
<1>2. page.start <= Len(all)
  BY DEF all
<1>3. /\ IsPage(reply, all, page.start)
      /\ \A i \in 1..Len(reply.objects) : \E x \in DOMAIN object : reply.objects[i] = object[x]
      /\ reply.updateId = systemUpdateId
  BY <1>1, <1>2, ListingIs
<1> HIDE DEF reply
<1>4. \A i \in 1..Len(reply.objects) : Listed(reply.objects[i], profile)
  BY <1>3
<1>5. o.kind # "track"
  BY DEF Paged
<1> QED BY <1>1, <1>3, <1>4, <1>5 DEF Answers, all, reply

\* Containers that are listed whole.
LEMMA WholePage ==
  ASSUME NEW objects, NEW n \in Nat, IsSeq(objects), Len(objects) = n,
         NEW o, NEW profile,
         IsSeq(ChildIds(o)), Len(ChildIds(o)) = n,
         \A i \in 1..n : objects[i].id = ChildIds(o)[i] /\ Listed(objects[i], profile),
         NEW z, z = 0
  PROVE  Answers(All(objects), o, z, profile)
<1> DEFINE reply == All(objects)
<1>1. reply.objects = objects /\ reply.total = n /\ reply.updateId = systemUpdateId
  BY DEF All, Result
<1> HIDE DEF reply
<1>2. \A i \in 1..n : objects[i].id = ChildIds(o)[z + i]
  OBVIOUS
<1>3. z + n <= n /\ (z < n => n # 0)
  OBVIOUS
<1>4. IsPage(reply, ChildIds(o), z)
  BY <1>1, <1>2, <1>3 DEF IsPage
<1> QED BY <1>1, <1>4 DEF Answers, reply

\* The same as ChildIds says it, kind by kind.
LEMMA ChildIdsAre ==
  ASSUME NEW o
  PROVE  /\ o.kind = "0" => ChildIds(o) = <<<<"1">>, <<"playlists">>>>
         /\ o.kind = "1" => ChildIds(o) = <<<<"artists">>, <<"tracks">>>>
         /\ o.kind = "artists" => ChildIds(o) = Under("artist", DOMAIN artists)
         /\ o.kind = "artist" => ChildIds(o) = <<AlbumsId(o.entity)>>
         /\ o.kind = "artist_albums" => ChildIds(o) = Under("album", AlbumsOfArtist(o.entity))
         /\ o.kind = "album" => ChildIds(o) = Under("track", TracksOfAlbum(o.entity))
         /\ o.kind = "tracks" => ChildIds(o) = Under("track", DOMAIN tracks)
         /\ o.kind = "playlists" => ChildIds(o) = Under("playlist", DOMAIN Playlists)
         /\ o.kind = "playlist" =>
              ChildIds(o) = [i \in DOMAIN Playlists[o.entity] |-> <<"track">> \o Playlists[o.entity][i]]
         /\ o.kind = "track" => ChildIds(o) = <<>>
<1>1. CASE o.kind = "0"
  BY <1>1 DEF ChildIds
<1>2. CASE o.kind = "1"
  BY <1>2 DEF ChildIds
<1>3. CASE o.kind = "artists"
  BY <1>3 DEF ChildIds, Under
<1>4. CASE o.kind = "artist"
  BY <1>4 DEF ChildIds
<1>5. CASE o.kind = "artist_albums"
  BY <1>5 DEF ChildIds, Under
<1>6. CASE o.kind = "album"
  BY <1>6 DEF ChildIds, Under
<1>7. CASE o.kind = "tracks"
  BY <1>7 DEF ChildIds, Under
<1>8. CASE o.kind = "playlists"
  BY <1>8 DEF ChildIds, Under
<1>9. CASE o.kind = "playlist"
  BY <1>9 DEF ChildIds
<1>10. CASE o.kind = "track"
  BY <1>10 DEF ChildIds
<1> QED BY <1>1, <1>2, <1>3, <1>4, <1>5, <1>6, <1>7, <1>8, <1>9, <1>10

LEMMA ChildrenAre ==
  ASSUME NEW o, NEW page, NEW profile, DirectChildren(o, page, profile).fault = 0
  PROVE  LET reply == DirectChildren(o, page, profile)
             e == o.entity IN
         \/ o.kind = "0" /\ reply = All(<<Music, Container(<<"playlists">>, <<"0">>, Absent)>>)
         \/ o.kind = "1" /\ reply = All(<<Artists, AllTracks>>)
         \/ o.kind = "artists" /\ reply = Listing([a \in DOMAIN artists |-> Artist(a)], page)
         \/ o.kind = "tracks" /\ reply = Listing([t \in DOMAIN tracks |-> TrackItem(t, profile)], page)
         \/ o.kind = "playlists" /\ reply = Listing([p \in DOMAIN Playlists |-> Playlist(p)], page)
         \/ o.kind = "artist" /\ e \in DOMAIN artists /\ reply = All(<<ArtistAlbums(e)>>)
         \/ /\ o.kind = "artist_albums" /\ e \in DOMAIN artists
            /\ reply = Listing([a \in AlbumsOfArtist(e) |-> Album(a)], page)
         \/ /\ o.kind = "album" /\ e \in DOMAIN albums
            /\ reply = Listing([t \in TracksOfAlbum(e) |-> TrackItem(t, profile)], page)
         \/ /\ o.kind = "playlist" /\ e \in DOMAIN Playlists
            /\ reply = PlaylistChildren(e, page, profile)
         \/ o.kind = "track" /\ reply = [All(<<>>) EXCEPT !.updateId = 0]
<1> DEFINE reply == DirectChildren(o, page, profile)
           e == o.entity
<1>0. Fault(NoSuchObject).fault # 0
  BY DEF Fault, NoSuchObject
<1>1. CASE o.kind = "0"
  BY <1>1 DEF DirectChildren
<1>2. CASE o.kind = "1"
  BY <1>2 DEF DirectChildren
<1>3. CASE o.kind = "artists"
  BY <1>3 DEF DirectChildren
<1>4. CASE o.kind = "tracks"
  BY <1>4 DEF DirectChildren
<1>5. CASE o.kind = "playlists"
  BY <1>5 DEF DirectChildren
<1>6. CASE o.kind = "artist" /\ e \in DOMAIN artists
  BY <1>6 DEF DirectChildren
<1>7. CASE o.kind = "artist_albums" /\ e \in DOMAIN artists
  BY <1>7 DEF DirectChildren
<1>8. CASE o.kind = "album" /\ e \in DOMAIN albums
  BY <1>8 DEF DirectChildren
<1>9. CASE o.kind = "playlist" /\ e \in DOMAIN Playlists
  BY <1>9 DEF DirectChildren
<1>10. CASE o.kind = "track"
  BY <1>10 DEF DirectChildren
<1>11. CASE /\ o.kind \notin {"0", "1", "artists", "tracks", "playlists", "track"}
            /\ o.kind = "artist" => e \notin DOMAIN artists
            /\ o.kind = "artist_albums" => e \notin DOMAIN artists
            /\ o.kind = "album" => e \notin DOMAIN albums
            /\ o.kind = "playlist" => e \notin DOMAIN Playlists
  <2>1. reply = Fault(NoSuchObject)
    BY <1>11 DEF DirectChildren
  <2> QED BY <1>0, <2>1
<1> HIDE DEF reply, e
<1> QED BY <1>1, <1>2, <1>3, <1>4, <1>5, <1>6, <1>7, <1>8, <1>9, <1>10, <1>11 DEF reply, e

LEMMA NotItems ==
  /\ \A a, profile : Listed(Artist(a), profile) /\ Listed(ArtistAlbums(a), profile)
                     /\ Listed(Album(a), profile) /\ Listed(Playlist(a), profile)
  /\ \A profile : Listed(Music, profile) /\ Listed(Artists, profile) /\ Listed(AllTracks, profile)
  /\ \A profile, id, parent, count : Listed(Container(id, parent, count), profile)
<1>1. \A profile, id, parent, count : Listed(Container(id, parent, count), profile)
  BY ContainerIs DEF Listed
<1> QED
  BY <1>1 DEF Artist, ArtistAlbums, Album, Playlist, Music, Artists, AllTracks

LEMMA TracksAreListed ==
  ASSUME NEW t \in DOMAIN tracks, NEW parent, NEW profile
  PROVE  /\ Listed(Item(t, parent, profile), profile)
         /\ Listed(TrackItem(t, profile), profile)
<1>1. \A p : Listed(Item(t, p, profile), profile)
  BY ItemIs DEF Listed
<1> QED BY <1>1 DEF TrackItem

\* A page of a playlist.
LEMMA PlaylistPageIs ==
  ASSUME LibraryInv, NEW p \in DOMAIN Playlists, NEW page, page.start \in Nat, page.count \in Nat,
         NEW o, NEW profile, o.kind = "playlist", o.entity = p, page.start <= Len(ChildIds(o))
  PROVE  Answers(PlaylistChildren(p, page, profile), o, page.start, profile)
<1> DEFINE start == page.start
           count == page.count
           s == Playlists[p]
           n == Len(s)
           rest == SubSeq(s, start + 1, n)
           b == LeastOf(count, Len(rest))
           some == IF count = 0 THEN rest ELSE SubSeq(rest, 1, b)
           objects == [i \in DOMAIN some |-> Item(some[i], <<"playlist">> \o p, profile)]
           reply == PlaylistChildren(p, page, profile)
           all == ChildIds(o)
<1>1. reply.objects = objects /\ reply.total = n /\ reply.updateId = systemUpdateId
  BY DEF PlaylistChildren, Result
<1>2. IsSeq(s) /\ Len(s) = n /\ n <= Len(s) /\ DOMAIN s = 1..n /\ n \in Nat /\ \A i \in 1..n : s[i] \in DOMAIN tracks
  <2>1. s \in Seq({TrackId(f) : f \in Files})
    BY PlaylistsAssumption
  <2> QED BY <2>1, SeqsAre, ElementOfSeq DEF LibraryInv
<1>3. all = [i \in 1..n |-> <<"track">> \o s[i]]
  BY <1>2, ChildIdsAre
<1>4. Len(all) = n /\ IsSeq(all) /\ \A i \in 1..n : all[i] = <<"track">> \o s[i]
  <2>1. all = [i \in 1..n |-> all[i]] /\ \A i \in 1..n : all[i] = <<"track">> \o s[i]
    BY <1>3
  <2> HIDE DEF all
  <2> QED BY <1>2, <2>1, ListIs
<1>5. start \in Nat /\ count \in Nat /\ start <= n
  BY <1>4
<1> HIDE DEF start, count, s, n, reply, all
<1>6. IsSeq(rest) /\ Len(rest) = n - start /\ \A i \in 1..(n - start) : rest[i] = s[start + i]
  BY <1>2, <1>5, SubSeqOf
<1> HIDE DEF rest
<1>7. /\ IsSeq(some) /\ start + Len(some) <= n /\ (start < n => Len(some) # 0)
      /\ Len(some) \in Nat
      /\ \A i \in 1..Len(some) : some[i] = s[start + i]
  <2>1. CASE count = 0
    <3>1. some = rest
      BY <2>1
    <3> HIDE DEF some
    <3> QED BY <1>2, <1>5, <1>6, <3>1
  <2>2. CASE count # 0
    <3> DEFINE z == 0
    <3> DEFINE a == z + 1
    <3>a. a = 1
      OBVIOUS
    <3> HIDE DEF a
    <3>1. some = SubSeq(rest, a, b)
      BY <2>2, <3>a
    <3>2. z \in Nat /\ b \in Nat /\ z <= b /\ b <= Len(rest) /\ (start < n => b # 0)
      BY <1>2, <1>5, <1>6, <2>2 DEF LeastOf
    <3>0. z = 0
      OBVIOUS
    <3> HIDE DEF z, b, some
    <3>3. /\ IsSeq(some) /\ Len(some) = b - z
          /\ \A i \in 1..(b - z) : some[i] = rest[z + i]
      BY <1>6, <3>1, <3>2, SubSeqOf DEF a
    <3>4. Len(some) = b /\ \A i \in 1..b : some[i] = rest[i]
      BY <3>0, <3>2, <3>3
    <3>5. \A i \in 1..b : some[i] = s[start + i]
      BY <1>2, <1>5, <1>6, <3>2, <3>4
    <3> QED BY <1>2, <1>5, <1>6, <3>2, <3>3, <3>4, <3>5
  <2> QED BY <2>1, <2>2
<1> HIDE DEF some
<1>8. DOMAIN some = 1..Len(some)
  BY <1>7, ListIs DEF IsSeq
<1>9. /\ IsSeq(objects) /\ Len(objects) = Len(some)
      /\ \A i \in 1..Len(some) : objects[i] = Item(some[i], <<"playlist">> \o p, profile)
  <2>1. /\ objects = [i \in 1..Len(some) |-> objects[i]]
        /\ \A i \in 1..Len(some) : objects[i] = Item(some[i], <<"playlist">> \o p, profile)
    BY <1>8
  <2> HIDE DEF objects
  <2> QED BY <1>7, <2>1, ListIs
<1> HIDE DEF objects
<1>10. ASSUME NEW i \in 1..Len(objects)
       PROVE  objects[i].id = all[start + i] /\ Listed(objects[i], profile)
  <2>1. some[i] = s[start + i] /\ start + i \in 1..n
    BY <1>2, <1>5, <1>7, <1>9
  <2>2. objects[i] = Item(s[start + i], <<"playlist">> \o p, profile) /\ s[start + i] \in DOMAIN tracks
    BY <1>2, <1>9, <2>1
  <2> DEFINE t == s[start + i]
             parent == <<"playlist">> \o p
  <2>3. objects[i] = Item(t, parent, profile) /\ t \in DOMAIN tracks
    BY <2>2
  <2> HIDE DEF t, parent
  <2>4. objects[i].id = <<"track">> \o t /\ Listed(objects[i], profile)
    BY <2>3, ItemIs, TracksAreListed
  <2> QED BY <1>4, <2>1, <2>4 DEF t
<1>11. IsPage(reply, all, start)
  BY <1>1, <1>4, <1>7, <1>9, <1>10 DEF IsPage
<1> QED BY <1>1, <1>4, <1>10, <1>11 DEF Answers, all, reply, start, Paged

LEMMA PageIs ==
  ASSUME LibraryInv, NEW o, NEW page, page.start \in Nat, page.count \in Nat, NEW profile,
         DirectChildren(o, page, profile).fault = 0,
         page.start <= Len(ChildIds(o)), o.kind \in Paged \/ page.start = 0
  PROVE  Answers(DirectChildren(o, page, profile), o, page.start, profile)
<1> DEFINE reply == DirectChildren(o, page, profile)
           e == o.entity
<1>1. CASE o.kind = "0"
  <2> DEFINE objects == <<Music, Container(<<"playlists">>, <<"0">>, Absent)>>
             n == 2
  <2>1. reply = All(objects)
    BY <1>1 DEF DirectChildren
  <2>2. IsSeq(objects) /\ Len(objects) = 2 /\ IsSeq(ChildIds(o)) /\ Len(ChildIds(o)) = 2
    BY <1>1, ChildIdsAre DEF IsSeq
  <2>3. \A i \in 1..2 : objects[i].id = ChildIds(o)[i] /\ Listed(objects[i], profile)
    BY <1>1, ChildIdsAre, NotItems, ContainerIs DEF Music
  <2>4. page.start = 0 /\ n = 2 /\ n \in Nat
    BY <1>1 DEF Paged
  <2> HIDE DEF objects, n
  <2>5. \A i \in 1..n : objects[i].id = ChildIds(o)[i] /\ Listed(objects[i], profile)
    BY <2>3, <2>4
  <2> QED BY <2>1, <2>2, <2>4, <2>5, WholePage
<1>2. CASE o.kind = "1"
  <2> DEFINE objects == <<Artists, AllTracks>>
             n == 2
  <2>1. reply = All(objects)
    BY <1>2 DEF DirectChildren
  <2>2. IsSeq(objects) /\ Len(objects) = 2 /\ IsSeq(ChildIds(o)) /\ Len(ChildIds(o)) = 2
    BY <1>2, ChildIdsAre DEF IsSeq
  <2>3. \A i \in 1..2 : objects[i].id = ChildIds(o)[i] /\ Listed(objects[i], profile)
    BY <1>2, ChildIdsAre, NotItems, ContainerIs DEF Artists, AllTracks
  <2>4. page.start = 0 /\ n = 2 /\ n \in Nat
    BY <1>2 DEF Paged
  <2> HIDE DEF objects, n
  <2>5. \A i \in 1..n : objects[i].id = ChildIds(o)[i] /\ Listed(objects[i], profile)
    BY <2>3, <2>4
  <2> QED BY <2>1, <2>2, <2>4, <2>5, WholePage
<1>3. CASE o.kind = "artist" /\ e \in DOMAIN artists
  <2> DEFINE objects == <<ArtistAlbums(e)>>
             n == 1
  <2>1. reply = All(objects)
    BY <1>3 DEF DirectChildren
  <2>2. IsSeq(objects) /\ Len(objects) = 1 /\ IsSeq(ChildIds(o)) /\ Len(ChildIds(o)) = 1
    BY <1>3, ChildIdsAre DEF IsSeq
  <2>3. \A i \in 1..1 : objects[i].id = ChildIds(o)[i] /\ Listed(objects[i], profile)
    BY <1>3, ChildIdsAre, NotItems, ContainerIs DEF ArtistAlbums
  <2>4. page.start = 0 /\ n = 1 /\ n \in Nat
    BY <1>3 DEF Paged
  <2> HIDE DEF objects, n
  <2>5. \A i \in 1..n : objects[i].id = ChildIds(o)[i] /\ Listed(objects[i], profile)
    BY <2>3, <2>4
  <2> QED BY <2>1, <2>2, <2>4, <2>5, WholePage
<1>4. CASE o.kind = "artists"
  <2> DEFINE object == [a \in DOMAIN artists |-> Artist(a)]
             S == DOMAIN object
  <2>1. reply = Listing(object, page) /\ ChildIds(o) = Under("artist", DOMAIN object)
    BY <1>4, ChildIdsAre DEF DirectChildren
  <2>2. DOMAIN object \in SUBSET Seq(Nat) /\ IsFiniteSet(DOMAIN object)
    BY TablesAreFew
  <2>3. \A x \in DOMAIN object : object[x].id = <<"artist">> \o x /\ Listed(object[x], profile)
    BY NotItems, ContainerIs DEF Artist
  <2>4. o.kind \in Paged
    BY <1>4 DEF Paged
  <2> HIDE DEF object
  <2>5. /\ \A x \in DOMAIN object : object[x].id = <<"artist">> \o x
        /\ \A x \in DOMAIN object : Listed(object[x], profile)
    BY <2>3
  <2> QED BY <2>1, <2>2, <2>4, <2>5, RowsPage
<1>5. CASE o.kind = "tracks"
  <2> DEFINE object == [t \in DOMAIN tracks |-> TrackItem(t, profile)]
  <2>1. reply = Listing(object, page) /\ ChildIds(o) = Under("track", DOMAIN object)
    BY <1>5, ChildIdsAre DEF DirectChildren
  <2>2. DOMAIN object \in SUBSET Seq(Nat) /\ IsFiniteSet(DOMAIN object)
    BY TablesAreFew
  <2>3. \A x \in DOMAIN object : object[x].id = <<"track">> \o x /\ Listed(object[x], profile)
    BY TracksAreListed, ItemIs DEF TrackItem
  <2>4. o.kind \in Paged
    BY <1>5 DEF Paged
  <2> HIDE DEF object
  <2>5. /\ \A x \in DOMAIN object : object[x].id = <<"track">> \o x
        /\ \A x \in DOMAIN object : Listed(object[x], profile)
    BY <2>3
  <2> QED BY <2>1, <2>2, <2>4, <2>5, RowsPage
<1>6. CASE o.kind = "playlists"
  <2> DEFINE object == [p \in DOMAIN Playlists |-> Playlist(p)]
  <2>1. reply = Listing(object, page) /\ ChildIds(o) = Under("playlist", DOMAIN object)
    BY <1>6, ChildIdsAre DEF DirectChildren
  <2>2. DOMAIN object \in SUBSET Seq(Nat) /\ IsFiniteSet(DOMAIN object)
    BY PlaylistsAssumption
  <2>3. \A x \in DOMAIN object : object[x].id = <<"playlist">> \o x /\ Listed(object[x], profile)
    BY NotItems, ContainerIs DEF Playlist
  <2>4. o.kind \in Paged
    BY <1>6 DEF Paged
  <2> HIDE DEF object
  <2>5. /\ \A x \in DOMAIN object : object[x].id = <<"playlist">> \o x
        /\ \A x \in DOMAIN object : Listed(object[x], profile)
    BY <2>3
  <2> QED BY <2>1, <2>2, <2>4, <2>5, RowsPage
<1>7. CASE o.kind = "artist_albums" /\ e \in DOMAIN artists
  <2> DEFINE object == [a \in AlbumsOfArtist(e) |-> Album(a)]
  <2>1. reply = Listing(object, page) /\ ChildIds(o) = Under("album", DOMAIN object)
    BY <1>7, ChildIdsAre DEF DirectChildren
  <2>2. DOMAIN object \in SUBSET Seq(Nat) /\ IsFiniteSet(DOMAIN object)
    BY AlbumsOfArtistAre
  <2>3. \A x \in DOMAIN object : object[x].id = <<"album">> \o x /\ Listed(object[x], profile)
    BY NotItems, ContainerIs DEF Album
  <2>4. o.kind \in Paged
    BY <1>7 DEF Paged
  <2> HIDE DEF object
  <2>5. /\ \A x \in DOMAIN object : object[x].id = <<"album">> \o x
        /\ \A x \in DOMAIN object : Listed(object[x], profile)
    BY <2>3
  <2> QED BY <2>1, <2>2, <2>4, <2>5, RowsPage
<1>8. CASE o.kind = "album" /\ e \in DOMAIN albums
  <2> DEFINE object == [t \in TracksOfAlbum(e) |-> TrackItem(t, profile)]
  <2>1. reply = Listing(object, page) /\ ChildIds(o) = Under("track", DOMAIN object)
    BY <1>8, ChildIdsAre DEF DirectChildren
  <2>2. DOMAIN object \in SUBSET Seq(Nat) /\ IsFiniteSet(DOMAIN object)
    BY TracksOfAlbumAre
  <2>3. \A x \in DOMAIN object : object[x].id = <<"track">> \o x /\ Listed(object[x], profile)
    BY TracksOfAlbumAre, TracksAreListed, ItemIs DEF TrackItem
  <2>4. o.kind \in Paged
    BY <1>8 DEF Paged
  <2> HIDE DEF object
  <2>5. /\ \A x \in DOMAIN object : object[x].id = <<"track">> \o x
        /\ \A x \in DOMAIN object : Listed(object[x], profile)
    BY <2>3
  <2> QED BY <2>1, <2>2, <2>4, <2>5, RowsPage
<1>9. CASE o.kind = "playlist" /\ e \in DOMAIN Playlists
  <2>1. reply = PlaylistChildren(e, page, profile)
    BY <1>9 DEF DirectChildren
  <2> QED BY <1>9, <2>1, PlaylistPageIs
<1>10. CASE o.kind = "track"
  <2>1. reply = [All(<<>>) EXCEPT !.updateId = 0]
    BY <1>10 DEF DirectChildren
  <2>2. reply.objects = <<>> /\ reply.total = 0
    BY <2>1 DEF All, Result
  <2>3. ChildIds(o) = <<>> /\ page.start = 0
    BY <1>10, ChildIdsAre DEF Paged
  <2>4. IsSeq(<<>>) /\ Len(<<>>) = 0
    BY DEF IsSeq
  <2> HIDE DEF reply
  <2>5. IsPage(reply, ChildIds(o), page.start)
    BY <2>2, <2>3, <2>4 DEF IsPage
  <2>6. Answers(reply, o, page.start, profile)
    BY <1>10, <2>2, <2>3, <2>4, <2>5 DEF Answers, Paged
  <2> QED BY <2>6 DEF reply
<1> QED BY <1>1, <1>2, <1>3, <1>4, <1>5, <1>6, <1>7, <1>8, <1>9, <1>10, ChildrenAre

-----------------------------------------------------------------------------
(* From a request to its answer.                                             *)

ArgNames == {"ObjectID", "BrowseFlag", "Filter", "StartingIndex", "RequestedCount", "SortCriteria"}

LEMMA ArgsOfBrowse ==
  ASSUME NEW o, NEW flag, NEW start
  PROVE  LET args == Args(o, flag, start) IN
         /\ \E V : args \in Seq(Arguments(ArgNames, V))
         /\ DOMAIN args = 1..6
         /\ args[1] = <<"ObjectID", o>> /\ args[2] = <<"BrowseFlag", <<flag>>>>
         /\ args[3] = <<"Filter", <<"*">>>> /\ args[4] = <<"StartingIndex", <<"n", start>>>>
         /\ args[5] = <<"RequestedCount", <<"n", PageCount>>>> /\ args[6] = <<"SortCriteria", <<>>>>
<1> DEFINE v1 == o
           v2 == <<flag>>
           v3 == <<"*">>
           v4 == <<"n", start>>
           v5 == <<"n", PageCount>>
           v6 == <<>>
           V == {v1, v2, v3, v4, v5, v6}
           args == <<<<"ObjectID", v1>>, <<"BrowseFlag", v2>>, <<"Filter", v3>>,
                     <<"StartingIndex", v4>>, <<"RequestedCount", v5>>, <<"SortCriteria", v6>>>>
<1>1. Args(o, flag, start) = args
  BY DEF Args
<1> HIDE DEF v1, v2, v3, v4, v5, v6
<1>2. v1 \in V /\ v2 \in V /\ v3 \in V /\ v4 \in V /\ v5 \in V /\ v6 \in V
  OBVIOUS
<1> HIDE DEF V
<1>3. /\ <<"ObjectID", v1>> \in ArgNames \X V /\ <<"BrowseFlag", v2>> \in ArgNames \X V
      /\ <<"Filter", v3>> \in ArgNames \X V /\ <<"StartingIndex", v4>> \in ArgNames \X V
      /\ <<"RequestedCount", v5>> \in ArgNames \X V /\ <<"SortCriteria", v6>> \in ArgNames \X V
  BY <1>2 DEF ArgNames
<1>4. args \in Seq(Arguments(ArgNames, V))
  BY <1>3 DEF Arguments
<1>5. DOMAIN args = 1..6
  OBVIOUS
<1>6. /\ args[1] = <<"ObjectID", v1>> /\ args[2] = <<"BrowseFlag", v2>>
      /\ args[3] = <<"Filter", v3>> /\ args[4] = <<"StartingIndex", v4>>
      /\ args[5] = <<"RequestedCount", v5>> /\ args[6] = <<"SortCriteria", v6>>
  OBVIOUS
<1> HIDE DEF args
<1> QED BY <1>1, <1>4, <1>5, <1>6 DEF v1, v2, v3, v4, v5, v6

LEMMA NoUrnIsEmpty == ContentDirectoryUrn # NoName
BY Zenon DEF ContentDirectoryUrn, NoName

LEMMA NamesAreTheirOwn == ArgNames \cap WellKnown = {}
BY DEF ArgNames, WellKnown

\* SoapRouter hands the control point's arguments to handle_browse.
LEMMA BrowseIsDispatched ==
  ASSUME NEW o, NEW flag, NEW start, NEW style \in Styles, NEW agent
  PROVE  Control(Render(ContentDirectoryUrn, "Browse", Args(o, flag, start), style), agent)
           = HandleBrowse(Args(o, flag, start), Match(agent))
<1> DEFINE args == Args(o, flag, start)
           doc == Render(ContentDirectoryUrn, "Browse", args, style)
<1>1. PICK V : args \in Seq(Arguments(ArgNames, V))
  BY ArgsOfBrowse
<1>2. style \in Liberties
  BY StylesAssumption DEF Liberties
<1> HIDE DEF args
<1>3. Parse(doc) = Parsed(ContentDirectoryUrn, "Browse", args)
  BY <1>1, <1>2, NoUrnIsEmpty, NamesAreTheirOwn, RequestsAreRead
<1> HIDE DEF doc
<1>4. Parse(doc).error = NoName
  BY <1>3 DEF Parsed
<1>5. /\ Parse(doc).urn = ContentDirectoryUrn /\ Parse(doc).action = "Browse"
      /\ Parse(doc).args = args
  BY <1>3 DEF Parsed
<1>6. Control(doc, agent) = ContentDirectoryDispatch(Parse(doc), agent)
  BY <1>4, <1>5 DEF Control, Dispatch, ContentDirectoryUrn, ConnectionManagerUrn
<1>7. ContentDirectoryDispatch(Parse(doc), agent) = HandleBrowse(args, Match(agent))
  BY <1>5 DEF ContentDirectoryDispatch
<1> QED BY <1>6, <1>7 DEF args, doc

LEMMA ArgAtName ==
  ASSUME NEW args, NEW name, NEW default, DOMAIN args \subseteq Int, NEW k \in DOMAIN args,
         args[k][1] = name, \A i \in DOMAIN args : args[i][1] = name => i = k
  PROVE  Arg(args, name, default) = args[k][2]
<1> DEFINE those == {i \in DOMAIN args : args[i][1] = name}
<1>1. those \in SUBSET Int /\ k \in those /\ those # {} /\ \A x \in those : k <= x
  OBVIOUS
<1> HIDE DEF those
<1>2. Min(those) = k
  BY <1>1, MinIs
<1> QED BY <1>1, <1>2 DEF Arg, those

\* handle_browse, for what a control point asks.
LEMMA BrowseIs ==
  ASSUME NEW object, NEW flag, NEW start \in Nat, NEW profile
  PROVE  LET o == ParseObjectId(object)
             page == [start |-> start, count |-> PageCount]
             reply == HandleBrowse(Args(object, flag, start), profile) IN
         /\ o.kind = "none" => reply = Fault(NoSuchObject)
         /\ o.kind # "none" /\ flag = "BrowseMetadata" => reply = Metadata(o, profile)
         /\ o.kind # "none" /\ flag = "BrowseDirectChildren" =>
              reply = DirectChildren(o, page, profile)
<1> DEFINE args == Args(object, flag, start)
           o == ParseObjectId(object)
           page == [start |-> start, count |-> PageCount]
           names(k) == args[k][1]
<1>1. /\ DOMAIN args = 1..6
      /\ args[1] = <<"ObjectID", object>> /\ args[2] = <<"BrowseFlag", <<flag>>>>
      /\ args[3] = <<"Filter", <<"*">>>> /\ args[4] = <<"StartingIndex", <<"n", start>>>>
      /\ args[5] = <<"RequestedCount", <<"n", PageCount>>>> /\ args[6] = <<"SortCriteria", <<>>>>
  BY ArgsOfBrowse
<1> HIDE DEF args
<1>2. /\ args[1][1] = "ObjectID" /\ args[2][1] = "BrowseFlag" /\ args[3][1] = "Filter"
      /\ args[4][1] = "StartingIndex" /\ args[5][1] = "RequestedCount" /\ args[6][1] = "SortCriteria"
      /\ args[1][2] = object /\ args[2][2] = <<flag>>
      /\ args[4][2] = <<"n", start>> /\ args[5][2] = <<"n", PageCount>>
  BY <1>1
<1>3. \A d : Arg(args, "ObjectID", d) = object
  <2>1. \A i \in DOMAIN args : args[i][1] = "ObjectID" => i = 1
    BY <1>1, <1>2
  <2>2. DOMAIN args \subseteq Int /\ 1 \in DOMAIN args /\ args[1][1] = "ObjectID"
    BY <1>1, <1>2
  <2>3. \A d : Arg(args, "ObjectID", d) = args[1][2]
    BY <2>1, <2>2, ArgAtName
  <2> QED BY <1>2, <2>3
<1>4. \A d : Arg(args, "BrowseFlag", d) = <<flag>>
  <2>1. \A i \in DOMAIN args : args[i][1] = "BrowseFlag" => i = 2
    BY <1>1, <1>2
  <2>2. DOMAIN args \subseteq Int /\ 2 \in DOMAIN args /\ args[2][1] = "BrowseFlag"
    BY <1>1, <1>2
  <2>3. \A d : Arg(args, "BrowseFlag", d) = args[2][2]
    BY <2>1, <2>2, ArgAtName
  <2> QED BY <1>2, <2>3
<1>5. \A d : Arg(args, "StartingIndex", d) = <<"n", start>>
  <2>1. \A i \in DOMAIN args : args[i][1] = "StartingIndex" => i = 4
    BY <1>1, <1>2
  <2>2. DOMAIN args \subseteq Int /\ 4 \in DOMAIN args /\ args[4][1] = "StartingIndex"
    BY <1>1, <1>2
  <2>3. \A d : Arg(args, "StartingIndex", d) = args[4][2]
    BY <2>1, <2>2, ArgAtName
  <2> QED BY <1>2, <2>3
<1>6. \A d : Arg(args, "RequestedCount", d) = <<"n", PageCount>>
  <2>1. \A i \in DOMAIN args : args[i][1] = "RequestedCount" => i = 5
    BY <1>1, <1>2
  <2>2. DOMAIN args \subseteq Int /\ 5 \in DOMAIN args /\ args[5][1] = "RequestedCount"
    BY <1>1, <1>2
  <2>3. \A d : Arg(args, "RequestedCount", d) = args[5][2]
    BY <2>1, <2>2, ArgAtName
  <2> QED BY <1>2, <2>3
<1>7. ParseU32(<<"n", start>>) = start /\ ParseU32(<<"n", PageCount>>) = PageCount
  BY DEF ParseU32
<1>8. ~ \A i \in DOMAIN args : args[i][1] # "ObjectID"
  BY <1>1, <1>2
<1>9. HandleBrowse(args, profile) =
        IF o.kind = "none" THEN Fault(NoSuchObject)
        ELSE IF <<flag>> = <<"BrowseMetadata">> THEN Metadata(o, profile)
        ELSE IF <<flag>> = <<"BrowseDirectChildren">> THEN DirectChildren(o, page, profile)
        ELSE Fault(ArgumentInvalid)
  BY <1>3, <1>4, <1>5, <1>6, <1>7, <1>8 DEF HandleBrowse
<1>10. /\ flag = "BrowseMetadata" <=> <<flag>> = <<"BrowseMetadata">>
       /\ flag = "BrowseDirectChildren" <=> <<flag>> = <<"BrowseDirectChildren">>
       /\ flag = "BrowseDirectChildren" => flag # "BrowseMetadata"
  OBVIOUS
<1> HIDE DEF o, page
<1> QED BY <1>9, <1>10 DEF o, page, args

\* What Replies offers without a fault is handle_browse's answer.
LEMMA RepliesAre ==
  ASSUME NEW agent, NEW o, NEW flag, NEW start, NEW style \in Styles,
         NEW reply \in Replies(agent, o, flag, start, style)
  PROVE  \/ reply = HandleBrowse(Args(o, flag, start), Match(agent))
         \/ reply = BackendFails /\ reply.fault # 0
<1>1. BackendFails.fault # 0
  BY DEF BackendFails, Fault, ActionFailed
<1> QED BY <1>1, BrowseIsDispatched DEF Replies

-----------------------------------------------------------------------------
(* The session's invariant: counters, the library, the view.                 *)

Counters ==
  /\ clock \in 0..MaxClock /\ runs \in 0..MaxRuns
  /\ systemUpdateId \in 1..(1 + runs)
  /\ job.at # "done" => systemUpdateId <= runs

\* A view of what was listed.
ListingView(v) ==
  [mode |-> "browsing", agent |-> v.agent, object |-> v.object, flag |-> v.flag,
   got |-> v.got, total |-> v.total, updateId |-> v.updateId]

\* The view is of the server as it is: what is listed is what ChildIds says, as
\* far as it was asked for.
PagesInv ==
  /\ view.mode \in {"idle", "browsing", "refused", "playing"}
  /\ view.mode = "browsing" =>
       LET o == ParseObjectId(view.object) IN
       /\ view = ListingView(view)
       /\ IsSeq(view.got) /\ view.total \in Nat /\ Len(view.got) <= view.total
       /\ view.updateId \in Nat /\ view.updateId <= systemUpdateId
       /\ view.flag = "BrowseDirectChildren" =>
            /\ o.kind # "none"
            /\ IsSeq(ChildIds(o)) /\ view.total = Len(ChildIds(o))
            /\ Len(view.got) = 0 => view.total = 0
            /\ \A i \in 1..Len(view.got) : view.got[i].id = ChildIds(o)[i]
            /\ o.kind \notin Paged => Len(view.got) = view.total

\* An item without its tokens, which is all that depends on the time.
PlainItem(t, parent, profile) ==
  LET selected == SelectResources(Rows(t), profile) IN
  [id        |-> <<"track">> \o t,
   parent    |-> parent,
   art       |-> albums[AlbumOf(t)].cover # None,
   resources |-> [i \in DOMAIN selected |->
                    [id |-> selected[i].id, format |-> selected[i].format, token |-> NoToken]]]

IsFresh(object, profile) ==
  IsItem(object) => Unsigned(object) = PlainItem(Tail(object.id), object.parent, profile)

FreshInv ==
  view.mode = "browsing" /\ job.exit = 0 /\ view.updateId = systemUpdateId =>
    \A i \in 1..Len(view.got) : IsFresh(view.got[i], Match(view.agent))

LEMMA TailIs ==
  ASSUME NEW kind, NEW t \in Seq(Nat)
  PROVE  /\ Tail(<<kind>> \o t) = t
         /\ Head(<<kind>> \o t) = kind
         /\ Len(<<kind>> \o t) = 1 + Len(t)
<1> DEFINE S == {kind} \cup Nat
           w == <<kind>> \o t
<1>1. <<kind>> \in Seq(S) /\ t \in Seq(S) /\ Len(<<kind>>) = 1 /\ <<kind>>[1] = kind
  <2>1. Len(t) \in Nat /\ t \in [1..Len(t) -> S]
    BY SeqsAre, LenProperties
  <2>2. t \in Seq(S)
    BY <2>1, FunctionIs
  <2>3. <<kind>> \in Seq(S)
    OBVIOUS
  <2> QED BY <2>2, <2>3
<1> HIDE DEF S
<1>2. /\ w \in Seq(S) /\ Len(w) = 1 + Len(t)
      /\ \A i \in 1..(1 + Len(t)) : w[i] = IF i <= 1 THEN <<kind>>[i] ELSE t[i - 1]
  BY <1>1, ConcatProperties
<1>3. Len(t) \in Nat /\ t = [i \in 1..Len(t) |-> t[i]]
  BY SeqsAre DEF IsSeq
<1> HIDE DEF w
<1>4. w # <<>>
  BY <1>2, <1>3
<1>5. Head(w) = w[1] /\ Tail(w) \in Seq(S) /\ Len(Tail(w)) = Len(w) - 1
      /\ \A i \in 1..Len(Tail(w)) : Tail(w)[i] = w[i + 1]
  BY <1>2, <1>4, HeadTailProperties
<1>6. Head(w) = kind
  BY <1>1, <1>2, <1>3, <1>5
<1>7. Tail(w) = t
  <2>1. Len(Tail(w)) = Len(t)
    BY <1>2, <1>3, <1>5
  <2>2. \A i \in 1..Len(t) : Tail(w)[i] = t[i]
    <3> SUFFICES ASSUME NEW i \in 1..Len(t) PROVE Tail(w)[i] = t[i]
      OBVIOUS
    <3>1. i + 1 \in 1..(1 + Len(t)) /\ ~ (i + 1 <= 1) /\ (i + 1) - 1 = i
      BY <1>3
    <3> QED BY <1>2, <1>5, <2>1, <3>1
  <2>3. Tail(w) = [i \in 1..Len(Tail(w)) |-> Tail(w)[i]]
    BY <1>5, SeqsAre DEF IsSeq
  <2> QED BY <1>3, <2>1, <2>2, <2>3
<1> QED BY <1>2, <1>6, <1>7 DEF w

LEMMA UnsignedItem ==
  ASSUME NEW t, NEW parent, NEW profile
  PROVE  Unsigned(Item(t, parent, profile)) = PlainItem(t, parent, profile)
<1> DEFINE selected == SelectResources(Rows(t), profile)
           item == Item(t, parent, profile)
           resources == [i \in DOMAIN selected |->
                           [id |-> selected[i].id, format |-> selected[i].format,
                            token |-> Sign(selected[i].id)]]
           plain == [i \in DOMAIN selected |->
                           [id |-> selected[i].id, format |-> selected[i].format,
                            token |-> NoToken]]
           cover == albums[AlbumOf(t)].cover # None
           id == <<"track">> \o t
<1>1. item = [id |-> id, parent |-> parent, art |-> cover, resources |-> resources]
  BY DEF Item
<1>2. PlainItem(t, parent, profile) = [id |-> id, parent |-> parent, art |-> cover, resources |-> plain]
  BY DEF PlainItem
<1>3. [i \in DOMAIN resources |-> [resources[i] EXCEPT !.token = NoToken]] = plain
  OBVIOUS
<1> HIDE DEF resources, plain, cover, id, item
<1>4. Unsigned(item) = [item EXCEPT !.resources =
                          [i \in DOMAIN resources |-> [resources[i] EXCEPT !.token = NoToken]]]
  <2>0. IsItem(item)
    BY ItemIs DEF item
  <2>1. item.resources = resources
    BY <1>1
  <2>2. Unsigned(item) = [item EXCEPT !.resources =
          [i \in DOMAIN item.resources |-> [item.resources[i] EXCEPT !.token = NoToken]]]
    BY <2>0 DEF Unsigned
  <2> QED BY <2>1, <2>2
<1>5. Unsigned(item) = [item EXCEPT !.resources = plain]
  BY <1>3, <1>4
<1>6. [item EXCEPT !.resources = plain]
        = [id |-> id, parent |-> parent, art |-> cover, resources |-> plain]
  BY <1>1
<1> QED BY <1>2, <1>5, <1>6 DEF item

\* What a page lists is fresh.
LEMMA ListedIsFresh ==
  ASSUME LibraryInv, NEW object, NEW profile, Listed(object, profile)
  PROVE  IsFresh(object, profile)
<1> SUFFICES ASSUME IsItem(object)
             PROVE  Unsigned(object) = PlainItem(Tail(object.id), object.parent, profile)
  BY DEF IsFresh
<1>1. PICK t \in DOMAIN tracks : object = Item(t, object.parent, profile)
  BY DEF Listed
<1>2. object.id = <<"track">> \o t
  BY <1>1, ItemIs
<1>3. Tail(object.id) = t
  BY <1>2, TablesAreFew, TailIs
<1> QED BY <1>1, <1>3, UnsignedItem

LEMMA LibraryStays ==
  ASSUME UNCHANGED library, NEW o
  PROVE  ChildIds(o)' = ChildIds(o)
  BY DEF library, ChildIds, AlbumsOfArtist, TracksOfAlbum

LEMMA ItemsStay ==
  ASSUME UNCHANGED <<library, renditions>>, NEW t, NEW parent, NEW profile
  PROVE  PlainItem(t, parent, profile)' = PlainItem(t, parent, profile)
  BY DEF library, PlainItem, Rows, RowsOf

LEMMA UnderIsSeq ==
  ASSUME NEW kind, NEW S \in SUBSET Seq(Nat), IsFiniteSet(S)
  PROVE  IsSeq(Under(kind, S)) /\ Len(Under(kind, S)) = Cardinality(S) /\ Cardinality(S) \in Nat
         /\ \A i \in 1..Cardinality(S) : Under(kind, S)[i] = <<kind>> \o Sorted(S)[i]
<1> DEFINE all == Under(kind, S)
           n == Cardinality(S)
<1>1. n \in Nat /\ Sorted(S) \in [1..n -> S]
  BY SortedLists
<1> HIDE DEF n
<1>2. all = [i \in 1..n |-> all[i]] /\ \A i \in 1..n : all[i] = <<kind>> \o Sorted(S)[i]
  BY <1>1 DEF Under
<1> HIDE DEF all
<1>3. Len(all) = n /\ IsSeq(all)
  BY <1>1, <1>2, ListIs
<1> QED BY <1>1, <1>2, <1>3 DEF n, all

LEMMA ChildrenAreAList ==
  ASSUME LibraryInv, NEW o, NEW page, NEW profile, DirectChildren(o, page, profile).fault = 0
  PROVE  IsSeq(ChildIds(o)) /\ Len(ChildIds(o)) \in Nat
<1>1. CASE o.kind \in {"0", "1", "artist", "track"}
  <2>2. CASE o.kind = "0"
    <3>1. ChildIds(o) = <<<<"1">>, <<"playlists">>>>
      BY <2>2, ChildIdsAre
    <3> QED BY <3>1 DEF IsSeq
  <2>3. CASE o.kind = "1"
    <3>1. ChildIds(o) = <<<<"artists">>, <<"tracks">>>>
      BY <2>3, ChildIdsAre
    <3> QED BY <3>1 DEF IsSeq
  <2>4. CASE o.kind = "artist"
    <3>1. ChildIds(o) = <<AlbumsId(o.entity)>>
      BY <2>4, ChildIdsAre
    <3> QED BY <3>1 DEF IsSeq
  <2>5. CASE o.kind = "track"
    <3>1. ChildIds(o) = <<>>
      BY <2>5, ChildIdsAre
    <3> QED BY <3>1 DEF IsSeq
  <2> QED BY <1>1, <2>2, <2>3, <2>4, <2>5
<1>2. CASE o.kind \in {"artists", "tracks", "playlists", "artist_albums", "album"}
  <2>1. \A kind : /\ IsSeq(Under(kind, DOMAIN artists)) /\ IsSeq(Under(kind, DOMAIN tracks))
                  /\ IsSeq(Under(kind, DOMAIN Playlists))
    BY TablesAreFew, PlaylistsAssumption, UnderIsSeq
  <2>2. \A kind, a : IsSeq(Under(kind, AlbumsOfArtist(a))) /\ IsSeq(Under(kind, TracksOfAlbum(a)))
    BY AlbumsOfArtistAre, TracksOfAlbumAre, UnderIsSeq
  <2>3. IsSeq(ChildIds(o))
    BY <1>2, <2>1, <2>2, ChildIdsAre
  <2> QED BY <2>3 DEF IsSeq
<1>3. CASE o.kind = "playlist" /\ o.entity \in DOMAIN Playlists
  <2> DEFINE s == Playlists[o.entity]
             n == Len(s)
             all == ChildIds(o)
  <2>1. s \in Seq({TrackId(f) : f \in Files})
    BY <1>3, PlaylistsAssumption
  <2>2. n \in Nat /\ DOMAIN s = 1..n
    BY <2>1, SeqsAre
  <2> HIDE DEF n
  <2>3. all = [i \in 1..n |-> all[i]]
    BY <1>3, <2>2, ChildIdsAre
  <2> HIDE DEF all
  <2>4. IsSeq(all)
    BY <2>2, <2>3, ListIs
  <2> QED BY <2>4 DEF all, IsSeq
<1> QED BY <1>1, <1>2, <1>3, ChildrenAre

LEMMA MetadataIs ==
  ASSUME LibraryInv, NEW o, NEW profile
  PROVE  LET reply == Metadata(o, profile) IN
         /\ reply.fault = 0 /\ reply.updateId = systemUpdateId
         /\ IsSeq(reply.objects) /\ reply.total = Len(reply.objects)
         /\ \A i \in 1..Len(reply.objects) : Listed(reply.objects[i], profile)
<1> DEFINE reply == Metadata(o, profile)
           e == o.entity
<1>1. \/ reply = All(<<>>)
      \/ \E x : Listed(x, profile) /\ reply = All(<<x>>)
  <2> DEFINE Found == \E x : Listed(x, profile) /\ reply = All(<<x>>)
  <2>1. CASE o.kind = "0"
    <3>1. reply = All(<<Container(<<"0">>, <<"-1">>, 1)>>)
      BY <2>1 DEF Metadata
    <3> QED BY <3>1, NotItems
  <2>2. CASE o.kind = "1"
    <3>1. reply = All(<<Music>>)
      BY <2>2 DEF Metadata
    <3> QED BY <3>1, NotItems
  <2>3. CASE o.kind = "artists"
    <3>1. reply = All(<<Artists>>)
      BY <2>3 DEF Metadata
    <3> QED BY <3>1, NotItems
  <2>4. CASE o.kind = "tracks"
    <3>1. reply = All(<<AllTracks>>)
      BY <2>4 DEF Metadata
    <3> QED BY <3>1, NotItems
  <2>5. CASE o.kind = "playlists"
    <3>1. reply = All(<<Container(<<"playlists">>, <<"1">>, Cardinality(DOMAIN Playlists))>>)
      BY <2>5 DEF Metadata
    <3> QED BY <3>1, NotItems
  <2>6. CASE o.kind = "artist" /\ e \in DOMAIN artists
    <3>1. reply = All(<<Artist(e)>>)
      BY <2>6 DEF Metadata
    <3> QED BY <3>1, NotItems
  <2>7. CASE o.kind = "artist_albums" /\ e \in DOMAIN artists
    <3>1. reply = All(<<ArtistAlbums(e)>>)
      BY <2>7 DEF Metadata
    <3> QED BY <3>1, NotItems
  <2>8. CASE o.kind = "album" /\ e \in DOMAIN albums
    <3>1. reply = All(<<Album(e)>>)
      BY <2>8 DEF Metadata
    <3> QED BY <3>1, NotItems
  <2>9. CASE o.kind = "playlist" /\ e \in DOMAIN Playlists
    <3>1. reply = All(<<Playlist(e)>>)
      BY <2>9 DEF Metadata
    <3> QED BY <3>1, NotItems
  <2>10. CASE o.kind = "track" /\ e \in DOMAIN tracks
    <3>1. reply = All(<<TrackItem(e, profile)>>)
      BY <2>10 DEF Metadata
    <3> QED BY <2>10, <3>1, TracksAreListed
  <2>11. CASE /\ o.kind \notin {"0", "1", "artists", "tracks", "playlists"}
              /\ o.kind = "artist" => e \notin DOMAIN artists
              /\ o.kind = "artist_albums" => e \notin DOMAIN artists
              /\ o.kind = "album" => e \notin DOMAIN albums
              /\ o.kind = "playlist" => e \notin DOMAIN Playlists
              /\ o.kind = "track" => e \notin DOMAIN tracks
    <3>1. reply = All(<<>>)
      BY <2>11 DEF Metadata
    <3> QED BY <3>1
  <2> HIDE DEF reply, e
  <2> QED BY <2>1, <2>2, <2>3, <2>4, <2>5, <2>6, <2>7, <2>8, <2>9, <2>10, <2>11
<1> HIDE DEF reply
<1>2. CASE reply = All(<<>>)
  <2>1. reply.objects = <<>> /\ reply.total = 0 /\ reply.fault = 0 /\ reply.updateId = systemUpdateId
    BY <1>2 DEF All, Result
  <2>2. IsSeq(<<>>) /\ Len(<<>>) = 0
    BY DEF IsSeq
  <2> QED BY <2>1, <2>2 DEF reply
<1>3. CASE \E x : Listed(x, profile) /\ reply = All(<<x>>)
  <2>1. PICK x : Listed(x, profile) /\ reply = All(<<x>>)
    BY <1>3
  <2>2. reply.objects = <<x>> /\ reply.total = 1 /\ reply.fault = 0 /\ reply.updateId = systemUpdateId
    BY <2>1 DEF All, Result
  <2>3. IsSeq(<<x>>) /\ Len(<<x>>) = 1 /\ <<x>>[1] = x
    BY DEF IsSeq
  <2>4. \A i \in 1..Len(reply.objects) : Listed(reply.objects[i], profile)
    BY <2>1, <2>2, <2>3
  <2> QED BY <2>2, <2>3, <2>4 DEF reply
<1> QED BY <1>1, <1>2, <1>3

\* An answer to a browse from the start.
LEMMA FirstAnswerIs ==
  ASSUME LibraryInv, systemUpdateId \in Nat, NEW agent, NEW object,
         NEW flag \in {"BrowseDirectChildren", "BrowseMetadata"}, NEW style \in Styles,
         NEW z, z = 0, NEW reply \in Replies(agent, object, flag, z, style), reply.fault = 0
  PROVE  LET o == ParseObjectId(object) IN
         /\ IsSeq(reply.objects) /\ reply.total \in Nat /\ Len(reply.objects) <= reply.total
         /\ reply.updateId \in Nat /\ reply.updateId <= systemUpdateId
         /\ \A i \in 1..Len(reply.objects) : Listed(reply.objects[i], Match(agent))
         /\ flag = "BrowseDirectChildren" =>
              o.kind # "none" /\ Answers(reply, o, z, Match(agent))
<1> DEFINE o == ParseObjectId(object)
           profile == Match(agent)
           page == [start |-> z, count |-> PageCount]
<1>1. reply = HandleBrowse(Args(object, flag, z), profile)
  BY RepliesAre
<1>2. z \in Nat
  OBVIOUS
<1>3. /\ o.kind # "none"
      /\ flag = "BrowseMetadata" => reply = Metadata(o, profile)
      /\ flag = "BrowseDirectChildren" => reply = DirectChildren(o, page, profile)
  <2>1. Fault(NoSuchObject).fault # 0
    BY DEF Fault, NoSuchObject
  <2> QED BY <1>1, <1>2, <2>1, BrowseIs
<1> HIDE DEF profile, o
<1>4. CASE flag = "BrowseMetadata"
  BY <1>3, <1>4, MetadataIs DEF IsSeq, profile, o
<1>5. CASE flag = "BrowseDirectChildren"
  <2>1. IsSeq(ChildIds(o)) /\ Len(ChildIds(o)) \in Nat
    BY <1>3, <1>5, ChildrenAreAList
  <2>2. page.start = z /\ page.start \in Nat /\ page.count \in Nat /\ page.start <= Len(ChildIds(o))
    BY <2>1, BoundsAssumption
  <2> HIDE DEF page
  <2>3. Answers(reply, o, z, profile)
    BY <1>3, <1>5, <2>2, PageIs
  <2>4. /\ IsSeq(reply.objects) /\ reply.total \in Nat /\ Len(reply.objects) <= reply.total
        /\ \A i \in 1..Len(reply.objects) : Listed(reply.objects[i], profile)
    BY <2>1, <2>3 DEF Answers, IsPage, IsSeq
  <2>5. reply.updateId \in Nat /\ reply.updateId <= systemUpdateId
    <3>1. CASE o.kind # "track"
      BY <2>3, <3>1 DEF Answers
    <3>2. CASE o.kind = "track"
      <4>1. reply = [All(<<>>) EXCEPT !.updateId = 0]
        BY <1>3, <1>5, <3>2 DEF DirectChildren
      <4>2. reply.updateId = 0
        BY <4>1 DEF All, Result
      <4> QED BY <4>2
    <3> QED BY <3>1, <3>2
  <2> QED BY <1>3, <2>3, <2>4, <2>5 DEF profile, o
<1> QED BY <1>4, <1>5

\* The next page continues what was got.
LEMMA NextAnswerIs ==
  ASSUME LibraryInv, NEW agent, NEW object, NEW flag, flag = "BrowseDirectChildren",
         NEW style \in Styles, NEW start \in Nat,
         NEW reply \in Replies(agent, object, flag, start, style), reply.fault = 0,
         ParseObjectId(object).kind \in Paged, start <= Len(ChildIds(ParseObjectId(object)))
  PROVE  /\ Answers(reply, ParseObjectId(object), start, Match(agent))
         /\ reply.updateId = systemUpdateId
<1> DEFINE o == ParseObjectId(object)
           profile == Match(agent)
           page == [start |-> start, count |-> PageCount]
<1>1. reply = HandleBrowse(Args(object, flag, start), profile)
  BY RepliesAre
<1>2. o.kind # "none" /\ o.kind # "track"
  BY DEF Paged
<1>3. reply = DirectChildren(o, page, profile)
  BY <1>1, <1>2, BrowseIs
<1> HIDE DEF profile
<1>4. page.start = start /\ page.start \in Nat /\ page.count \in Nat /\ page.start <= Len(ChildIds(o))
  BY BoundsAssumption
<1> HIDE DEF page
<1>5. Answers(reply, o, start, profile)
  BY <1>3, <1>4, PageIs
<1>6. reply.updateId = systemUpdateId
  BY <1>2, <1>5 DEF Answers
<1> QED BY <1>5, <1>6 DEF profile

-----------------------------------------------------------------------------
LEMMA ViewOfBrowsing ==
  ASSUME NEW agent, NEW o, NEW flag, NEW reply
  PROVE  LET v == Browsing(agent, o, flag, reply) IN
         /\ v.mode = "browsing" /\ v.agent = agent /\ v.object = o /\ v.flag = flag
         /\ v.got = reply.objects /\ v.total = reply.total /\ v.updateId = reply.updateId
         /\ v = ListingView(v)
  BY DEF Browsing, ListingView

LEMMA OtherViews ==
  /\ Idle.mode = "idle"
  /\ \A o, fault : Refused(o, fault).mode = "refused"
  /\ \A link, mime : Playing(link, mime).mode = "playing"
  BY DEF Idle, Refused, Playing

\* A browse from the start gives a view that is in order.
LEMMA BrowseStep ==
  ASSUME LibraryInv, Counters, NEW agent, NEW object,
         NEW flag \in {"BrowseDirectChildren", "BrowseMetadata"}, NEW style \in Styles,
         Browse(agent, object, flag, style),
         UNCHANGED <<library, renditions, systemUpdateId, jobVars>>
  PROVE  PagesInv' /\ FreshInv'
<1> DEFINE o == ParseObjectId(object)
           z == 0
<1>0. systemUpdateId \in Nat
  BY BoundsAssumption, MaxRunsAssumption DEF Counters
<1>1. PICK reply \in Replies(agent, object, flag, z, style) :
        view' = IF reply.fault = 0 THEN Browsing(agent, object, flag, reply)
                ELSE Refused(object, reply.fault)
  BY DEF Browse
<1>2. CASE reply.fault # 0
  <2>1. view'.mode = "refused"
    BY <1>1, <1>2, OtherViews
  <2> QED BY <2>1 DEF PagesInv, FreshInv
<1>3. CASE reply.fault = 0
  <2>1. z = 0
    OBVIOUS
  <2> HIDE DEF z
  <2>2. /\ IsSeq(reply.objects) /\ reply.total \in Nat /\ Len(reply.objects) <= reply.total
        /\ reply.updateId \in Nat /\ reply.updateId <= systemUpdateId
        /\ \A i \in 1..Len(reply.objects) : Listed(reply.objects[i], Match(agent))
        /\ flag = "BrowseDirectChildren" =>
             o.kind # "none" /\ Answers(reply, o, z, Match(agent))
    BY <1>0, <1>1, <1>3, <2>1, FirstAnswerIs
  <2>3. view' = Browsing(agent, object, flag, reply)
    BY <1>1, <1>3
  <2>4. /\ view'.mode = "browsing" /\ view'.agent = agent /\ view'.object = object
        /\ view'.flag = flag /\ view'.got = reply.objects /\ view'.total = reply.total
        /\ view'.updateId = reply.updateId /\ view' = ListingView(view')
    BY <2>3, ViewOfBrowsing
  <2>5. ChildIds(o)' = ChildIds(o)
    BY LibraryStays
  <2>6. ASSUME flag = "BrowseDirectChildren"
        PROVE  /\ o.kind # "none" /\ IsSeq(ChildIds(o)) /\ reply.total = Len(ChildIds(o))
               /\ Len(reply.objects) = 0 => reply.total = 0
               /\ \A i \in 1..Len(reply.objects) : reply.objects[i].id = ChildIds(o)[i]
               /\ o.kind \notin Paged => Len(reply.objects) = reply.total
    <3>1. o.kind # "none" /\ Answers(reply, o, z, Match(agent))
      BY <2>2, <2>6
    <3>2. \A i \in 1..Len(reply.objects) : z + i = i
      BY <2>1
    <3>3. Len(ChildIds(o)) \in Nat
      BY <3>1 DEF Answers, IsSeq
    <3> QED BY <2>1, <3>1, <3>2, <3>3 DEF Answers, IsPage
  <2>7. PagesInv'
    <3>1. ParseObjectId(view'.object) = o
      BY <2>4
    <3>2. /\ IsSeq(view'.got) /\ view'.total \in Nat /\ Len(view'.got) <= view'.total
          /\ view'.updateId \in Nat /\ view'.updateId <= systemUpdateId'
      BY <2>2, <2>4
    <3>3. view'.flag = "BrowseDirectChildren" =>
             /\ o.kind # "none"
             /\ IsSeq(ChildIds(o)') /\ view'.total = Len(ChildIds(o)')
             /\ Len(view'.got) = 0 => view'.total = 0
             /\ \A i \in 1..Len(view'.got) : view'.got[i].id = (ChildIds(o)')[i]
             /\ o.kind \notin Paged => Len(view'.got) = view'.total
      BY <2>4, <2>5, <2>6
    <3> QED BY <2>4, <3>1, <3>2, <3>3 DEF PagesInv, o
  <2>8. FreshInv'
    <3> SUFFICES ASSUME NEW i \in 1..Len(view'.got)
                 PROVE  IsFresh(view.got[i], Match(view.agent))'
      BY DEF FreshInv
    <3>1. IsFresh(reply.objects[i], Match(agent))
      BY <2>2, <2>4, ListedIsFresh
    <3> DEFINE t == Tail(reply.objects[i].id)
               parent == reply.objects[i].parent
               profile == Match(agent)
    <3>2. PlainItem(t, parent, profile)' = PlainItem(t, parent, profile)
      BY ItemsStay
    <3> QED BY <2>4, <3>1, <3>2 DEF IsFresh, IsItem, Unsigned
  <2> QED BY <2>7, <2>8
<1> QED BY <1>2, <1>3

LEMMA FreshStays ==
  ASSUME UNCHANGED <<library, renditions>>, NEW object, NEW profile
  PROVE  IsFresh(object, profile)' = IsFresh(object, profile)
<1> DEFINE t == Tail(object.id)
           parent == object.parent
<1>1. PlainItem(t, parent, profile)' = PlainItem(t, parent, profile)
  BY ItemsStay
<1> QED BY <1>1 DEF IsFresh, IsItem, Unsigned

\* The next page is put behind the ones before it.
LEMMA NextPageStep ==
  ASSUME LibraryInv, Counters, PagesInv, FreshInv, NEW style \in Styles, NextPage(style),
         UNCHANGED <<library, renditions, systemUpdateId, jobVars>>
  PROVE  PagesInv' /\ FreshInv'
<1> DEFINE o == ParseObjectId(view.object)
           start == Len(view.got)
           profile == Match(view.agent)
           agent == view.agent
           object == view.object
           flag == view.flag
<1>1. /\ view.mode = "browsing" /\ view.flag = "BrowseDirectChildren" /\ start < view.total
      /\ \E reply \in Replies(view.agent, view.object, view.flag, start, style) :
           view' = IF reply.fault = 0 /\ reply.updateId = view.updateId
                   THEN [view EXCEPT !.got = @ \o reply.objects] ELSE Idle
  BY DEF NextPage
<1>2. PICK reply \in Replies(view.agent, view.object, view.flag, start, style) :
        view' = IF reply.fault = 0 /\ reply.updateId = view.updateId
                THEN [view EXCEPT !.got = @ \o reply.objects] ELSE Idle
  BY <1>1
<1>3. /\ view = ListingView(view)
      /\ IsSeq(view.got) /\ view.total \in Nat /\ start <= view.total
      /\ view.updateId \in Nat /\ view.updateId <= systemUpdateId
      /\ o.kind # "none" /\ IsSeq(ChildIds(o)) /\ view.total = Len(ChildIds(o))
      /\ \A i \in 1..start : view.got[i].id = ChildIds(o)[i]
      /\ o.kind \in Paged /\ start \in Nat
  BY <1>1 DEF PagesInv, IsSeq
<1>4. CASE ~ (reply.fault = 0 /\ reply.updateId = view.updateId)
  <2>1. view'.mode = "idle"
    BY <1>2, <1>4, OtherViews
  <2> QED BY <2>1 DEF PagesInv, FreshInv
<1>5. CASE reply.fault = 0 /\ reply.updateId = view.updateId
  <2>1. /\ start \in Nat /\ start <= Len(ChildIds(o)) /\ o.kind \in Paged
    BY <1>1, <1>3
  <2> HIDE DEF start
  <2>2. Answers(reply, o, start, profile) /\ reply.updateId = systemUpdateId
    <3>1. /\ reply \in Replies(agent, object, flag, start, style) /\ flag = "BrowseDirectChildren"
          /\ ParseObjectId(object).kind \in Paged /\ start <= Len(ChildIds(ParseObjectId(object)))
      BY <1>1, <1>2, <2>1
    <3>2. reply.fault = 0
      BY <1>5
    <3> HIDE DEF agent, object, flag
    <3>3. /\ Answers(reply, ParseObjectId(object), start, Match(agent))
          /\ reply.updateId = systemUpdateId
      BY <2>1, <3>1, <3>2, NextAnswerIs
    <3> QED BY <3>3 DEF object, agent
  <2>3. view' = [view EXCEPT !.got = @ \o reply.objects]
    BY <1>2, <1>5
  <2> DEFINE got == view.got \o reply.objects
             n == Len(reply.objects)
  <2>4. /\ view'.mode = view.mode /\ view'.agent = view.agent /\ view'.object = view.object
        /\ view'.flag = view.flag /\ view'.total = view.total /\ view'.updateId = view.updateId
        /\ view'.got = got /\ view' = ListingView(view')
    <3> DEFINE w == ListingView(view)
    <3>1. view = w
      BY <1>3
    <3>2. w.mode = "browsing" /\ w = [mode |-> "browsing", agent |-> w.agent, object |-> w.object,
            flag |-> w.flag, got |-> w.got, total |-> w.total, updateId |-> w.updateId]
      BY DEF ListingView
    <3> HIDE DEF got, w
    <3>3. view' = [w EXCEPT !.got = got]
      BY <2>3, <3>1 DEF got
    <3>4. view' = [mode |-> "browsing", agent |-> w.agent, object |-> w.object,
            flag |-> w.flag, got |-> got, total |-> w.total, updateId |-> w.updateId]
      BY <3>2, <3>3
    <3> QED BY <3>1, <3>2, <3>4 DEF ListingView
  <2>5. /\ IsSeq(reply.objects) /\ start + n <= Len(ChildIds(o))
        /\ \A i \in 1..n : reply.objects[i].id = ChildIds(o)[start + i]
        /\ \A i \in 1..n : Listed(reply.objects[i], profile)
    BY <2>2 DEF Answers, IsPage
  <2>6. /\ IsSeq(got) /\ Len(got) = start + n
        /\ \A i \in 1..start : got[i] = view.got[i]
        /\ \A i \in 1..n : got[start + i] = reply.objects[i]
    <3> DEFINE old == view.got
               new == reply.objects
               both == old \o new
    <3>1. IsSeq(old) /\ IsSeq(new) /\ Len(old) = start /\ Len(new) = n /\ got = both
      BY <1>3, <2>5 DEF start
    <3> HIDE DEF old, new, got, n
    <3>3. /\ IsSeq(both) /\ Len(both) = Len(old) + Len(new)
          /\ \A i \in 1..Len(old) : both[i] = old[i]
          /\ \A i \in 1..Len(new) : both[Len(old) + i] = new[i]
      BY ONLY <3>1, CatIs DEF both
    <3> HIDE DEF both
    <3>2. /\ IsSeq(got) /\ Len(got) = Len(old) + Len(new)
          /\ \A i \in 1..Len(old) : got[i] = old[i]
          /\ \A i \in 1..Len(new) : got[Len(old) + i] = new[i]
      BY ONLY <3>1, <3>3
    <3> QED BY <3>1, <3>2 DEF old, new
  <2>7. n \in Nat
    BY <2>5 DEF IsSeq
  <2> HIDE DEF got, n, o, profile
  <2>8. ASSUME NEW i \in 1..(start + n)
        PROVE  \/ i \in 1..start /\ got[i] = view.got[i]
               \/ i - start \in 1..n /\ got[i] = reply.objects[i - start] /\ start + (i - start) = i
    <3>1. CASE i <= start
      BY <2>1, <2>6, <2>7, <2>8, <3>1
    <3>2. CASE i > start
      <4>1. i - start \in 1..n /\ start + (i - start) = i
        BY <2>1, <2>7, <2>8, <3>2
      <4> QED BY <2>6, <4>1
    <3> QED BY <2>1, <2>7, <3>1, <3>2
  <2>9. \A i \in 1..(start + n) : got[i].id = ChildIds(o)[i]
    BY <1>3, <2>5, <2>8
  <2> PICK c : c = o
    OBVIOUS
  <2>10. ChildIds(c)' = ChildIds(c)
    BY LibraryStays
  <2>11. PagesInv'
    <3>1. ParseObjectId(view'.object) = c
      BY <2>4 DEF o
    <3>2. /\ view' = ListingView(view') /\ IsSeq(view'.got) /\ view'.total \in Nat
          /\ Len(view'.got) <= view'.total
          /\ view'.updateId \in Nat /\ view'.updateId <= systemUpdateId'
      BY <1>3, <2>4, <2>5, <2>6
    <3>3. /\ c.kind # "none"
          /\ IsSeq(ChildIds(c)') /\ view'.total = Len(ChildIds(c)')
          /\ Len(view'.got) = 0 => view'.total = 0
          /\ \A i \in 1..Len(view'.got) : view'.got[i].id = (ChildIds(c)')[i]
          /\ c.kind \notin Paged => Len(view'.got) = view'.total
      <4>1. n # 0
        BY <1>1, <1>3, <2>2 DEF Answers, IsPage, n, start
      <4> QED BY <1>3, <2>1, <2>4, <2>6, <2>7, <2>9, <2>10, <4>1
    <3> QED BY <1>1, <2>4, <3>1, <3>2, <3>3 DEF PagesInv
  <2>12. FreshInv'
    <3> SUFFICES ASSUME (job.exit = 0 /\ view.updateId = systemUpdateId)', NEW i \in 1..(start + n)
                 PROVE  IsFresh(view.got[i], Match(view.agent))'
      BY <2>4, <2>6 DEF FreshInv
    <3>1. job.exit = 0 /\ view.updateId = systemUpdateId
      BY <2>4 DEF jobVars
    <3>2. \A j \in 1..start : IsFresh(view.got[j], profile)
      BY <1>1, <3>1 DEF FreshInv, start, profile
    <3>3. \A j \in 1..n : IsFresh(reply.objects[j], profile)
      BY <2>5, ListedIsFresh
    <3>4. IsFresh(got[i], profile)
      BY <2>8, <3>2, <3>3
    <3>5. PICK x, p : x = got[i] /\ p = profile
      OBVIOUS
    <3>6. IsFresh(x, p)' = IsFresh(x, p)
      BY FreshStays
    <3>7. view'.got[i] = x /\ Match(view'.agent) = p
      BY <2>4, <3>5 DEF profile
    <3> QED BY <3>4, <3>5, <3>6, <3>7
  <2> QED BY <2>11, <2>12
<1> QED BY <1>4, <1>5

\* Steps of the command that leave the view alone.
LEMMA RunStep ==
  ASSUME JobInv, Counters, TranscodeNext
  PROVE  /\ systemUpdateId' >= systemUpdateId /\ systemUpdateId' \in Nat
         /\ runs' \in 0..MaxRuns /\ systemUpdateId' \in 1..(1 + runs')
         /\ job'.at # "done" => systemUpdateId' <= runs'
         /\ job'.exit = 0 => systemUpdateId' = systemUpdateId + 1
<1> USE MaxRunsAssumption, NoneAssumption
<1>0. /\ job \in Jobs /\ runs \in Nat /\ systemUpdateId \in Nat
      /\ job.at # "done" => job.exit # 0
  BY DEF JobInv, TypeInv, FilesApart, Counters
<1>1. ASSUME NEW t \in DOMAIN tracks, NEW target \in Targets, NEW kbps \in Bitrates,
             Start(t, target, kbps)
      PROVE  /\ runs < MaxRuns /\ runs' = runs + 1 /\ job'.exit # 0 /\ systemUpdateId' = systemUpdateId
  <2>1. PICK r \in DOMAIN renditions :
          LET new == Job(t, renditions[r].path, target, kbps) IN
          job' = IF new.source = new.output THEN NoJob ELSE new
    BY <1>1 DEF Start
  <2>2. Job(t, renditions[r].path, target, kbps).exit = None /\ NoJob.exit = None
    BY DEF Job, NoJob
  <2>3. job'.exit = None
    BY <2>1, <2>2
  <2> QED BY <1>1, <2>3 DEF Start
<1>2. CASE \E t \in DOMAIN tracks, target \in Targets, kbps \in Bitrates : Start(t, target, kbps)
  BY <1>0, <1>1, <1>2 DEF Counters
<1>3. CASE FfmpegWrites \/ FfmpegEnds \/ StatOutput \/ UpsertRendition
  <2>1. /\ job.at # "done" /\ runs' = runs /\ systemUpdateId' = systemUpdateId
        /\ job'.exit = job.exit
    BY <1>0, <1>3 DEF FfmpegWrites, FfmpegEnds, StatOutput, UpsertRendition, Step, Jobs
  <2> QED BY <1>0, <2>1 DEF Counters
<1>4. CASE FfmpegFails \/ StatementFails \/ Killed
  <2>1. job' = NoJob /\ runs' = runs /\ systemUpdateId' = systemUpdateId
    BY <1>4 DEF FfmpegFails, StatementFails, Killed, Fail
  <2>2. job'.exit # 0 /\ job'.at = "done"
    BY <2>1 DEF NoJob
  <2> QED BY <1>0, <2>1, <2>2 DEF Counters
<1>5. CASE BumpSystemUpdateId
  <2>1. /\ job.at = "bump" /\ job' = [job EXCEPT !.at = "done", !.exit = 0]
        /\ runs' = runs /\ systemUpdateId' = systemUpdateId + 1
    BY <1>5 DEF BumpSystemUpdateId, Succeed
  <2>2. job'.at = "done"
    BY <1>0, <2>1 DEF Jobs
  <2> QED BY <1>0, <2>1, <2>2 DEF Counters
<1> QED BY <1>2, <1>3, <1>4, <1>5 DEF TranscodeNext

SessInv == JobInv /\ LibraryInv /\ Counters /\ PagesInv /\ FreshInv

\* While the view stays, the pages in it stay right.
LEMMA ViewStays ==
  ASSUME PagesInv, UNCHANGED <<library, view>>, systemUpdateId' >= systemUpdateId,
         systemUpdateId \in Nat, systemUpdateId' \in Nat
  PROVE  PagesInv'
<1> PICK c : c = ParseObjectId(view.object)
  OBVIOUS
<1>1. ChildIds(c)' = ChildIds(c)
  BY LibraryStays
<1>2. ParseObjectId(view'.object) = c
  OBVIOUS
<1> QED BY <1>1, <1>2 DEF PagesInv

LEMMA LibraryInit == TranscodeInit => LibraryInv
<1> SUFFICES ASSUME TranscodeInit PROVE LibraryInv
  OBVIOUS
<1>1. /\ DOMAIN artists = {ArtistId(f) : f \in Files} /\ DOMAIN albums = {AlbumId(f) : f \in Files}
      /\ DOMAIN tracks = {TrackId(f) : f \in Files}
  BY DEF TranscodeInit
<1>2. ASSUME NEW a \in DOMAIN albums, albums[a].cover # None
      PROVE  albums[a].cover \in DOMAIN assets /\ WithinRoot([dir |-> assets[albums[a].cover]])
  <2>1. a \in Covered /\ albums[a].cover = a
    BY <1>2 DEF TranscodeInit
  <2> DEFINE f == CHOOSE g \in Files : AlbumId(g) = a
  <2>2. f \in Files
    BY <1>1
  <2>3. a \in DOMAIN assets /\ assets[a] = f.dir
    BY <2>1 DEF TranscodeInit
  <2> HIDE DEF f
  <2>4. WithinRoot([dir |-> f.dir])
    BY <2>2, RootAssumption DEF WithinRoot
  <2> QED BY <2>1, <2>3, <2>4
<1> QED BY <1>1, <1>2 DEF LibraryInv

LEMMA LibraryStep == ASSUME LibraryInv, UNCHANGED library PROVE LibraryInv'
BY DEF LibraryInv, library, WithinRoot

LEMMA SessInit == Init => SessInv
<1> SUFFICES ASSUME Init PROVE SessInv
  OBVIOUS
<1>1. JobInv /\ LibraryInv
  BY JobInit, LibraryInit DEF Init
<1>2. view.mode = "idle"
  BY OtherViews DEF Init
<1>3. Counters
  BY BoundsAssumption, MaxRunsAssumption DEF Init, TranscodeInit, Counters, NoJob
<1>4. PagesInv /\ FreshInv
  BY <1>2 DEF PagesInv, FreshInv
<1> QED BY <1>1, <1>3, <1>4 DEF SessInv

Quiet == UNCHANGED <<library, renditions, systemUpdateId, jobVars>>

LEMMA SessStep == SessInv /\ [Next]_vars => SessInv'
<1> SUFFICES ASSUME SessInv, [Next]_vars PROVE SessInv'
  OBVIOUS
<1>0. JobInv /\ LibraryInv /\ Counters /\ PagesInv /\ FreshInv
  BY DEF SessInv
<1>00. systemUpdateId \in Nat /\ clock \in Nat
  BY <1>0, MaxRunsAssumption, BoundsAssumption DEF Counters
<1>1. JobInv' /\ LibraryInv'
  <2>1. [TranscodeNext]_allVars /\ UNCHANGED library
    BY DEF Next, vars, allVars, TranscodeNext, library, jobVars
  <2> QED BY <1>0, <2>1, JobStep, LibraryStep
<1>2. CASE TranscodeNext /\ UNCHANGED <<clock, view>>
  <2>1. UNCHANGED library
    BY <1>2 DEF TranscodeNext
  <2>2. /\ systemUpdateId' >= systemUpdateId /\ systemUpdateId' \in Nat
        /\ job'.exit = 0 => systemUpdateId' = systemUpdateId + 1
    BY <1>0, <1>2, RunStep
  <2>3. Counters'
    BY <1>0, <1>2, RunStep DEF Counters
  <2>4. PagesInv'
    BY <1>0, <1>00, <1>2, <2>1, <2>2, ViewStays
  <2>5. FreshInv'
    <3>1. view.mode = "browsing" => view.updateId \in Nat /\ view.updateId <= systemUpdateId
      BY <1>0 DEF PagesInv
    <3> QED BY <1>00, <1>2, <2>2, <3>1 DEF FreshInv
  <2> QED BY <1>1, <2>3, <2>4, <2>5 DEF SessInv
<1>3. CASE Tick /\ Quiet
  <2>1. Counters'
    BY <1>0, <1>00, <1>3, BoundsAssumption DEF Tick, Quiet, Counters, jobVars
  <2>2. PagesInv'
    BY <1>0, <1>00, <1>3, ViewStays DEF Tick, Quiet
  <2>3. FreshInv'
    <3> SUFFICES ASSUME view'.mode = "browsing", job'.exit = 0, view'.updateId = systemUpdateId',
                        NEW i \in 1..Len(view'.got)
                 PROVE  IsFresh(view.got[i], Match(view.agent))'
      BY DEF FreshInv
    <3>1. UNCHANGED <<library, renditions, systemUpdateId, job, view>>
      BY <1>3 DEF Tick, Quiet, jobVars
    <3>2. IsFresh(view.got[i], Match(view.agent))
      BY <1>0, <3>1 DEF FreshInv
    <3>3. PICK x, p : x = view.got[i] /\ p = Match(view.agent)
      OBVIOUS
    <3>4. IsFresh(x, p)' = IsFresh(x, p)
      BY <3>1, FreshStays
    <3> QED BY <3>1, <3>2, <3>3, <3>4
  <2> QED BY <1>1, <2>1, <2>2, <2>3 DEF SessInv
<1>4. CASE Client /\ Quiet
  <2>1. Counters'
    <3>1. UNCHANGED clock
      BY <1>4 DEF Client, Browse, NextPage, OpenMaster, Take, Follow, Leave
    <3> QED BY <1>0, <1>4, <3>1 DEF Quiet, Counters, jobVars
  <2>2. ASSUME NEW agent \in Agents, NEW o \in KnownIds \cup UnknownIds, NEW style \in Styles,
               NEW flag \in {"BrowseDirectChildren", "BrowseMetadata"}, Browse(agent, o, flag, style)
        PROVE  PagesInv' /\ FreshInv'
    BY <1>0, <1>4, <2>2, BrowseStep DEF Quiet
  <2>3. ASSUME NEW style \in Styles, NextPage(style) PROVE PagesInv' /\ FreshInv'
    BY <1>0, <1>4, <2>3, NextPageStep DEF Quiet
  <2>4. ASSUME (\E t \in DOMAIN tracks : OpenMaster(t)) \/ Take \/ Follow \/ Leave
        PROVE  PagesInv' /\ FreshInv'
    <3>1. view'.mode \in {"idle", "playing"}
      BY <2>4, OtherViews DEF OpenMaster, Take, Follow, Leave
    <3> QED BY <3>1 DEF PagesInv, FreshInv
  <2>5. PagesInv' /\ FreshInv'
    BY <1>4, <2>2, <2>3, <2>4 DEF Client
  <2> QED BY <1>1, <2>1, <2>5 DEF SessInv
<1>5. CASE UNCHANGED vars
  <2>1. UNCHANGED <<library, renditions, systemUpdateId, jobVars, clock, view>>
    BY <1>5 DEF vars
  <2>2. Counters'
    BY <1>0, <2>1 DEF Counters, jobVars
  <2>3. PagesInv'
    BY <1>0, <1>00, <2>1, ViewStays
  <2>4. FreshInv'
    <3> SUFFICES ASSUME view'.mode = "browsing", job'.exit = 0, view'.updateId = systemUpdateId',
                        NEW i \in 1..Len(view'.got)
                 PROVE  IsFresh(view.got[i], Match(view.agent))'
      BY DEF FreshInv
    <3>2. IsFresh(view.got[i], Match(view.agent))
      BY <1>0, <2>1 DEF FreshInv, jobVars
    <3>3. PICK x, p : x = view.got[i] /\ p = Match(view.agent)
      OBVIOUS
    <3>4. IsFresh(x, p)' = IsFresh(x, p)
      BY <2>1, FreshStays
    <3> QED BY <2>1, <3>2, <3>3, <3>4
  <2> QED BY <1>1, <2>2, <2>3, <2>4 DEF SessInv
<1> QED BY <1>2, <1>3, <1>4, <1>5 DEF Next, Quiet

LEMMA SessAlways == Spec => []SessInv
BY SessInit, SessStep, PTL DEF Spec

-----------------------------------------------------------------------------
(* Every variable has its type, and a renderer never has more than it was    *)
(* told there is.                                                            *)
THEOREM SessionTypes == Spec => []TypeOK
<1>1. SessInv => TypeOK
  <2> SUFFICES ASSUME SessInv PROVE TypeOK
    OBVIOUS
  <2>1. job.at \in {"ffmpeg", "encoding", "stat", "upsert", "bump", "done"}
    BY DEF SessInv, JobInv, TypeInv, Jobs
  <2>2. systemUpdateId \in 1..(1 + MaxRuns)
    BY MaxRunsAssumption DEF SessInv, Counters
  <2> QED BY <2>1, <2>2 DEF SessInv, Counters, PagesInv, TypeOK
<1> QED BY <1>1, SessAlways, PTL

(* The pages that a renderer puts together are the container: in order,      *)
(* nothing missing and nothing twice, for any library, any page sizes of     *)
(* either side, and whatever fails or is written in between.                 *)
THEOREM PagesAlwaysAddUp == Spec => []PagesAddUp
<1>1. SessInv => PagesAddUp
  <2> SUFFICES ASSUME SessInv, view.mode = "browsing", view.flag = "BrowseDirectChildren"
               PROVE  LET ids == [i \in DOMAIN view.got |-> view.got[i].id]
                          all == ChildIds(ParseObjectId(view.object)) IN
                      /\ view.total = Len(all)
                      /\ IsPrefix(ids, all)
                      /\ ids = <<>> => all = <<>>
    BY DEF PagesAddUp
  <2> DEFINE got == view.got
             n == Len(got)
             ids == [i \in DOMAIN got |-> got[i].id]
             all == ChildIds(ParseObjectId(view.object))
  <2>1. /\ IsSeq(got) /\ n <= Len(all) /\ IsSeq(all) /\ view.total = Len(all)
        /\ n = 0 => view.total = 0
        /\ \A i \in 1..n : got[i].id = all[i]
    BY DEF SessInv, PagesInv
  <2>2. n \in Nat /\ DOMAIN got = 1..n
    BY <2>1, ListIs DEF IsSeq
  <2> HIDE DEF got, n, all
  <2>3. ids = [i \in 1..n |-> ids[i]] /\ \A i \in 1..n : ids[i] = got[i].id
    BY <2>2
  <2> HIDE DEF ids
  <2>4. IsSeq(ids) /\ Len(ids) = n
    BY <2>2, <2>3, ListIs
  <2>5. IsPrefix(ids, all)
    BY <2>1, <2>3, <2>4, PrefixOf
  <2>6. ASSUME ids = <<>> PROVE all = <<>>
    <3>1. Len(all) = 0
      BY <2>1, <2>4, <2>6
    <3>2. all = [i \in 1..0 |-> all[i]]
      BY <2>1, <3>1 DEF IsSeq
    <3> QED BY <3>2
  <2> QED BY <2>1, <2>5, <2>6 DEF got, n, all, ids
<1> QED BY <1>1, SessAlways, PTL

(* When a command has reported success, a renderer whose UpdateID is current *)
(* has every item as the server would show it now.                           *)
THEOREM ListingsAreFresh == Spec => []FreshListing
<1>1. SessInv => FreshListing
  <2> SUFFICES ASSUME SessInv, view.mode = "browsing", job.exit = 0, view.updateId = systemUpdateId,
                      NEW i \in DOMAIN view.got, IsItem(view.got[i])
               PROVE  Unsigned(view.got[i]) =
                        Unsigned(Item(Tail(view.got[i].id), view.got[i].parent, Match(view.agent)))
    BY DEF FreshListing
  <2>1. DOMAIN view.got = 1..Len(view.got)
    <3> DEFINE got == view.got
    <3>1. IsSeq(got)
      BY DEF SessInv, PagesInv
    <3> HIDE DEF got
    <3>2. DOMAIN got = 1..Len(got)
      BY <3>1, ListIs DEF IsSeq
    <3> QED BY <3>2 DEF got
  <2>2. IsFresh(view.got[i], Match(view.agent))
    BY <2>1 DEF SessInv, FreshInv
  <2> QED BY <2>2, UnsignedItem DEF IsFresh
<1> QED BY <1>1, SessAlways, PTL

-----------------------------------------------------------------------------
(* Which resources an item has.                                              *)

\* The place of a position among the positions that are kept.
Place(n, P) == Cardinality({m \in P : m <= n})

LEMMA PlaceIs ==
  ASSUME NEW P \in SUBSET Int, IsFiniteSet(P)
  PROVE  /\ \A n \in P : Place(n, P) \in 1..Cardinality(P)
         /\ \A i \in 1..Cardinality(P) : \E n \in P : Place(n, P) = i
         /\ \A a, b \in P : Place(a, P) = Place(b, P) => a = b
         /\ Cardinality(P) \in Nat
<1> DEFINE card == Cardinality(P)
           place == [n \in P |-> Place(n, P)]
<1>1. card \in Nat
  BY FS_CardinalityType
<1>2. ASSUME NEW n \in P PROVE Place(n, P) \in 1..card
  <2> DEFINE A == {m \in P : m <= n}
  <2>1. A \subseteq P /\ n \in A
    OBVIOUS
  <2> HIDE DEF A
  <2>2. IsFiniteSet(A) /\ Cardinality(A) <= Cardinality(P)
    BY <2>1, FS_Subset
  <2>3. Cardinality(A) \in Nat /\ Cardinality(A) # 0
    BY <2>1, <2>2, FS_CardinalityType, FS_EmptySet
  <2>4. Cardinality(A) \in 1..card
    BY <1>1, <2>2, <2>3
  <2> USE DEF A
  <2> QED BY <2>4 DEF Place
<1>3. ASSUME NEW a \in P, NEW b \in P, a < b PROVE Place(a, P) < Place(b, P)
  <2> DEFINE A == {m \in P : m <= a}
             B == {m \in P : m <= b}
  <2>0. a \in Int /\ b \in Int /\ \A x \in P : x \in Int
    OBVIOUS
  <2>a. \A x \in P : x <= a => x <= b
    BY <1>3, <2>0
  <2>b. b <= b /\ ~ (b <= a)
    BY <1>3, <2>0
  <2>1. A \subseteq B /\ b \in B /\ b \notin A /\ A \subseteq P /\ B \subseteq P
    BY <2>a, <2>b
  <2> HIDE DEF A, B
  <2>2. IsFiniteSet(A) /\ IsFiniteSet(B)
    BY <2>1, FS_Subset
  <2>3. Cardinality(A) <= Cardinality(B) /\ Cardinality(A) # Cardinality(B)
    BY <2>1, <2>2, FS_Subset
  <2>4. Cardinality(A) \in Nat /\ Cardinality(B) \in Nat
    BY <2>2, FS_CardinalityType
  <2>5. Cardinality(A) < Cardinality(B)
    BY <2>3, <2>4
  <2> USE DEF A, B
  <2> QED BY <2>5 DEF Place
<1>4. \A a, b \in P : Place(a, P) = Place(b, P) => a = b
  <2> SUFFICES ASSUME NEW a \in P, NEW b \in P, a # b PROVE Place(a, P) # Place(b, P)
    OBVIOUS
  <2>1. a < b \/ b < a
    OBVIOUS
  <2>2. Place(a, P) \in Int /\ Place(b, P) \in Int
    BY <1>1, <1>2
  <2> QED BY <1>3, <2>1, <2>2
<1>5. place \in Injection(P, 1..card)
  <2>1. place \in [P -> 1..card]
    BY <1>2
  <2> QED BY <1>4, <2>1 DEF Injection, IsInjective
<1>6. place \in Surjection(P, 1..card)
  <2>1. IsFiniteSet(1..card) /\ Cardinality(1..card) = card
    BY <1>1, FS_Interval
  <2> HIDE DEF place, card
  <2>2. Cardinality(P) = Cardinality(1..card)
    BY <2>1 DEF card
  <2> QED BY <1>5, <2>1, <2>2, FS_Injection
<1>7. \A i \in 1..card : \E n \in P : Place(n, P) = i
  BY <1>6 DEF Surjection
<1> QED BY <1>1, <1>2, <1>4, <1>7

\* Kept keeps the elements at the positions and no others.
LEMMA KeptIs ==
  ASSUME NEW s, NEW P \in SUBSET Int, IsFiniteSet(P)
  PROVE  /\ DOMAIN Kept(s, P) = 1..Cardinality(P)
         /\ \A i \in DOMAIN Kept(s, P) : \E n \in P : Kept(s, P)[i] = s[n]
         /\ \A n \in P : \E i \in DOMAIN Kept(s, P) : Kept(s, P)[i] = s[n]
<1> DEFINE at(i) == CHOOSE n \in P : Place(n, P) = i
<1>1. Kept(s, P) = [i \in 1..Cardinality(P) |-> s[at(i)]]
  BY DEF Kept, Place
<1>2. ASSUME NEW i \in 1..Cardinality(P) PROVE at(i) \in P /\ Place(at(i), P) = i
  <2>1. \E n \in P : Place(n, P) = i
    BY PlaceIs
  <2> QED BY <2>1
<1>3. ASSUME NEW n \in P PROVE Place(n, P) \in 1..Cardinality(P) /\ at(Place(n, P)) = n
  <2>1. Place(n, P) \in 1..Cardinality(P)
    BY PlaceIs
  <2>2. at(Place(n, P)) \in P /\ Place(at(Place(n, P)), P) = Place(n, P)
    BY <1>2, <2>1
  <2> HIDE DEF at
  <2> QED BY <2>1, <2>2, PlaceIs
<1> HIDE DEF at
<1> QED BY <1>1, <1>2, <1>3

LEMMA ProfilesAre ==
  /\ \A i \in 1..7 : DOMAIN Profiles[i].codecs \subseteq 1..4
  /\ DOMAIN Profiles = 1..7 /\ Profiles[7].agents = {}
<1>1. DOMAIN Profiles = 1..7 /\ Profiles[7].agents = {}
  BY DEF Profiles, Profile
<1>2. \A i \in 1..7 : DOMAIN Profiles[i].codecs \subseteq 1..4
  BY DEF Profiles, Profile
<1> QED BY <1>1, <1>2

LEMMA MatchIs ==
  ASSUME NEW agent
  PROVE  \E i \in 1..7 : Match(agent) = Profiles[i]
<1> DEFINE matches == {i \in DOMAIN Profiles :
                         Profiles[i].agents = {} \/ Profiles[i].agents \cap agent # {}}
<1>1. 7 \in matches /\ matches \subseteq 1..7
  BY ProfilesAre
<1> HIDE DEF matches
<1>2. \E m \in matches : \A x \in matches : m <= x
  <2>1. matches \in SUBSET Nat /\ matches # {}
    BY <1>1
  <2> QED BY <2>1, Least
<1>3. Min(matches) \in matches
  BY <1>1, <1>2, MinIs
<1> QED BY <1>1, <1>3 DEF Match, matches

Takes(c, rs, profile) ==
  /\ profile.lossless \/ c \notin Lossless
  /\ \E i \in DOMAIN rs : rs[i].codec = c

\* The codecs offered are those of the profile that it takes.
LEMMA OfferedIs ==
  ASSUME NEW rs, NEW agent
  PROVE  LET profile == Match(agent)
             codecs == Offered(rs, profile) IN
         /\ \A i \in DOMAIN codecs :
              Takes(codecs[i], rs, profile) /\ \E n \in DOMAIN profile.codecs : codecs[i] = profile.codecs[n]
         /\ \A n \in DOMAIN profile.codecs : Takes(profile.codecs[n], rs, profile) =>
              \E i \in DOMAIN codecs : codecs[i] = profile.codecs[n]
<1> DEFINE profile == Match(agent)
           P == {n \in DOMAIN profile.codecs : Takes(profile.codecs[n], rs, profile)}
<1>1. Offered(rs, profile) = Kept(profile.codecs, P)
  BY DEF Offered, Takes
<1>2. DOMAIN profile.codecs \subseteq 1..4
  BY MatchIs, ProfilesAre
<1>3. P \in SUBSET Int /\ IsFiniteSet(P)
  <2> DEFINE k == 4
             l == 1
  <2>1. P \in SUBSET (l..k) /\ k \in Int /\ l \in Int
    BY <1>2
  <2> HIDE DEF P, k, l
  <2>2. IsFiniteSet(l..k)
    BY <2>1, FS_Interval
  <2>3. IsFiniteSet(P)
    BY <2>1, <2>2, FS_Subset
  <2>4. P \in SUBSET Int
    BY <2>1
  <2> QED BY <2>3, <2>4
<1> DEFINE codecs == Kept(profile.codecs, P)
<1>4. /\ \A i \in DOMAIN codecs : \E n \in P : codecs[i] = profile.codecs[n]
      /\ \A n \in P : \E i \in DOMAIN codecs : codecs[i] = profile.codecs[n]
  <2> HIDE DEF P, profile
  <2> QED BY <1>3, KeptIs
<1> HIDE DEF codecs
<1>5. ASSUME NEW i \in DOMAIN codecs
      PROVE  Takes(codecs[i], rs, profile) /\ \E n \in DOMAIN profile.codecs : codecs[i] = profile.codecs[n]
  BY <1>4
<1>6. ASSUME NEW n \in DOMAIN profile.codecs, Takes(profile.codecs[n], rs, profile)
      PROVE  \E i \in DOMAIN codecs : codecs[i] = profile.codecs[n]
  <2>1. n \in P
    BY <1>6
  <2> QED BY <1>4, <2>1
<1>7. Offered(rs, profile) = codecs
  BY <1>1 DEF codecs
<1> QED BY <1>5, <1>6, <1>7

-----------------------------------------------------------------------------
(* The rows of renditions: what the id of one says of it.                    *)

Formats == {Flac, M4a, Mp3, Wav}

\* A row lies where a file of its track lies, in the format that its id names.
GoodRow(r, row) ==
  /\ r \in Seq(Nat) /\ r[4] \in Formats /\ TrackOf(r) \in {TrackId(f) : f \in Files}
  /\ row.codec = CodecOf(r[4])
  /\ \E f \in Files : row.path.dir = f.dir

RowsInv ==
  /\ IsFiniteSet(DOMAIN renditions)
  /\ \A r \in DOMAIN renditions : GoodRow(r, renditions[r])
  /\ \A f \in Files : RenditionId(f) \in DOMAIN renditions

LEMMA RenditionIdIs ==
  ASSUME NEW f \in Files
  PROVE  /\ RenditionId(f) \in Seq(Nat) /\ RenditionId(f)[4] = f.ext
         /\ TrackOf(RenditionId(f)) = TrackId(f) /\ f.ext \in Formats
  BY IdsAre, IdsNest, FormatsAssumption DEF RenditionId, Formats

LEMMA PathIs ==
  ASSUME NEW p \in Paths
  PROVE  /\ p.ext \in Formats
         /\ \E f \in Files : p.dir = f.dir /\ TrackId(p) = TrackId(f)
<1>1. CASE p \in Files
  BY <1>1, RenditionIdIs
<1>2. ASSUME NEW f \in Files, NEW e \in Targets, p = [f EXCEPT !.ext = e]
      PROVE  p.ext \in Formats /\ p.dir = f.dir /\ TrackId(p) = TrackId(f)
  <2>1. f \in [artist : Nat, album : Nat, track : Nat, ext : Nat, dir : {g.dir : g \in Files}]
    BY FilesAssumption
  <2>2. /\ p.ext = e /\ p.dir = f.dir /\ p.artist = f.artist /\ p.album = f.album
        /\ p.track = f.track
    BY <1>2, <2>1
  <2>3. e \in Formats
    BY FormatsAssumption DEF Formats
  <2> QED BY <2>2, <2>3 DEF TrackId
<1> QED BY <1>1, <1>2 DEF Paths

LEMMA OutputIdIs ==
  ASSUME NEW j, j.output \in Paths, j.kbps \in Nat
  PROVE  /\ OutputId(j) \in Seq(Nat) /\ OutputId(j)[4] = j.output.ext
         /\ TrackOf(OutputId(j)) = TrackId(j.output)
<1>1. PICK f \in Files : j.output.dir = f.dir /\ TrackId(j.output) = TrackId(f)
  BY PathIs
<1> DEFINE t == TrackId(f)
           x == j.output.ext
           end == <<x, j.kbps>>
           id == t \o end
<1>2. t \in Seq(Nat) /\ Len(t) = 3
  BY IdsAre
<1>3. x \in Nat
  BY PathIs DEF Formats, Flac, M4a, Mp3, Wav
<1>4. end \in Seq(Nat) /\ Len(end) = 2 /\ end[1] = x
  BY <1>3
<1>5. OutputId(j) = id
  BY <1>1 DEF OutputId
<1> HIDE DEF t, end
<1>6. /\ id \in Seq(Nat) /\ Len(id) = Len(t) + Len(end)
      /\ \A i \in 1..(Len(t) + Len(end)) : id[i] = IF i <= Len(t) THEN t[i] ELSE end[i - Len(t)]
  BY <1>2, <1>4, ConcatProperties
<1> HIDE DEF id
<1>7. id[4] = x
  <2>1. 4 \in 1..(Len(t) + Len(end)) /\ ~ (4 <= Len(t)) /\ 4 - Len(t) = 1
    BY <1>2, <1>4
  <2> QED BY <1>4, <1>6, <2>1
<1>8. SubSeq(id, 1, Len(t)) = t
  <2>1. Len(t) <= Len(id) /\ \A i \in 1..Len(t) : t[i] = id[i]
    BY <1>2, <1>4, <1>6
  <2> QED BY <1>2, <1>6, <2>1, PrefixIs
<1>9. TrackOf(id) = t
  BY <1>2, <1>8 DEF TrackOf
<1> QED BY <1>1, <1>5, <1>6, <1>7, <1>9 DEF t

LEMMA RowsInit == TranscodeInit => RowsInv
<1> SUFFICES ASSUME TranscodeInit PROVE RowsInv
  OBVIOUS
<1> DEFINE ids == {RenditionId(f) : f \in Files}
           pick(r) == CHOOSE f \in Files : RenditionId(f) = r
<1>1. renditions = [r \in ids |-> Row(pick(r), Original)]
  BY DEF TranscodeInit
<1>2. IsFiniteSet(ids)
  <2>1. [f \in Files |-> RenditionId(f)] \in Surjection(Files, ids)
    BY DEF Surjection
  <2> QED BY <2>1, FilesAssumption, FS_Surjection
<1>3. ASSUME NEW r \in ids PROVE GoodRow(r, renditions[r])
  <2>1. pick(r) \in Files /\ RenditionId(pick(r)) = r
    OBVIOUS
  <2> DEFINE f == pick(r)
  <2>2. f \in Files /\ RenditionId(f) = r
    BY <2>1
  <2>3. renditions[r] = Row(f, Original)
    BY <1>1
  <2> HIDE DEF f
  <2>4. renditions[r].codec = CodecOf(f.ext) /\ renditions[r].path = f
    BY <2>3 DEF Row
  <2>5. r \in Seq(Nat) /\ r[4] = f.ext /\ TrackOf(r) = TrackId(f) /\ f.ext \in Formats
    BY <2>2, RenditionIdIs
  <2> QED BY <2>2, <2>4, <2>5 DEF GoodRow
<1>4. DOMAIN renditions = ids
  BY <1>1
<1> QED BY <1>2, <1>3, <1>4 DEF RowsInv

\* No step takes a row away, and none changes what its id says.
LEMMA RowsStep ==
  ASSUME JobInv, RowsInv, [TranscodeNext]_allVars
  PROVE  RowsInv' /\ DOMAIN renditions \subseteq DOMAIN renditions'
<1>1. CASE UpsertRendition
  <2> DEFINE id == OutputId(job)
             row == Row(job.output, job.file)
  <2>1. job.at = "upsert" /\ renditions' = Upsert(renditions, id, row)
    BY <1>1 DEF UpsertRendition, Step
  <2>2. job.output \in Paths /\ job.kbps \in Nat
    BY <2>1 DEF JobInv, TypeInv, FilesApart, Jobs
  <2>3. GoodRow(id, row)
    <3>1. id \in Seq(Nat) /\ id[4] = job.output.ext /\ TrackOf(id) = TrackId(job.output)
      BY <2>2, OutputIdIs
    <3>2. row.codec = CodecOf(job.output.ext) /\ row.path = job.output
      BY DEF Row
    <3> HIDE DEF id, row
    <3> QED BY <2>2, <3>1, <3>2, PathIs DEF GoodRow
  <2> HIDE DEF id, row
  <2>4. /\ DOMAIN renditions' = DOMAIN renditions \cup {id} /\ renditions'[id] = row
        /\ \A x \in DOMAIN renditions : x # id => renditions'[x] = renditions[x]
    BY <2>1 DEF Upsert
  <2>5. IsFiniteSet(DOMAIN renditions')
    BY <2>4, FS_AddElement DEF RowsInv
  <2>6. \A r \in DOMAIN renditions' : GoodRow(r, renditions'[r])
    BY <2>3, <2>4 DEF RowsInv
  <2> QED BY <2>4, <2>5, <2>6 DEF RowsInv
<1>2. CASE UNCHANGED renditions
  BY <1>2 DEF RowsInv
<1> QED
  BY <1>1, <1>2 DEF TranscodeNext, Start, FfmpegWrites, FfmpegEnds, FfmpegFails, StatOutput,
                    BumpSystemUpdateId, StatementFails, Killed, allVars

-----------------------------------------------------------------------------
(* Tokens, resources and links.                                              *)

\* A token that was made for an id.
GoodToken(id, token) ==
  IF Signing THEN \E e \in Nat : token = [expires |-> e, sig |-> Hmac(id, e)]
  ELSE token = NoToken

LEMMA SignIs ==
  ASSUME clock \in Nat, NEW id
  PROVE  GoodToken(id, Sign(id))
  BY TTLAssumption DEF GoodToken, Sign

LEMMA RowsAre ==
  ASSUME RowsInv, NEW t
  PROVE  /\ DOMAIN Rows(t) = 1..Cardinality(RowsOf(t)) /\ Cardinality(RowsOf(t)) \in Nat
         /\ \A i \in DOMAIN Rows(t) :
              /\ Rows(t)[i].id \in RowsOf(t) /\ Rows(t)[i].id \in DOMAIN renditions
              /\ Rows(t)[i].codec = CodecOf(Rows(t)[i].id[4])
<1> DEFINE S == RowsOf(t)
           n == Cardinality(S)
           ids == Sorted(S)
<1>1. S \subseteq DOMAIN renditions
  BY DEF RowsOf
<1>2. S \in SUBSET Seq(Nat) /\ IsFiniteSet(S)
  <2> HIDE DEF S
  <2>1. IsFiniteSet(S)
    BY <1>1, FS_Subset DEF RowsInv
  <2>2. S \in SUBSET Seq(Nat)
    BY <1>1 DEF RowsInv, GoodRow
  <2> QED BY <2>1, <2>2
<1>3. n \in Nat /\ ids \in [1..n -> S]
  <2> HIDE DEF S
  <2> QED BY <1>2, SortedLists
<1>4. Rows(t) = [i \in DOMAIN ids |-> [id |-> ids[i], codec |-> renditions[ids[i]].codec]]
  BY DEF Rows
<1> HIDE DEF S, n, ids
<1>5. DOMAIN Rows(t) = 1..n
  BY <1>3, <1>4
<1>6. ASSUME NEW i \in 1..n
      PROVE  /\ Rows(t)[i].id \in S /\ Rows(t)[i].id \in DOMAIN renditions
             /\ Rows(t)[i].codec = CodecOf(Rows(t)[i].id[4])
  <2>1. ids[i] \in S /\ ids[i] \in DOMAIN renditions
    BY <1>1, <1>3
  <2>2. Rows(t)[i].id = ids[i] /\ Rows(t)[i].codec = renditions[ids[i]].codec
    BY <1>3, <1>4
  <2>3. renditions[ids[i]].codec = CodecOf(ids[i][4])
    BY <2>1 DEF RowsInv, GoodRow
  <2> QED BY <2>1, <2>2, <2>3
<1> QED BY <1>3, <1>5, <1>6 DEF S, n

Codecs == {"flac", "aac", "mp3", "wav"}

LEMMA CodecIs == \A e \in Formats : CodecOf(e) \in Codecs
BY DEF Formats, CodecOf, Codecs, Flac, M4a, Mp3, Wav

\* GetProtocolInfo announces each format that the profile takes.
Announced(agent) ==
  ToSet(ConnectionManagerDispatch(
          Parsed(ConnectionManagerUrn, "GetProtocolInfo", <<>>), agent).out)

LEMMA AnnouncedIs ==
  ASSUME NEW agent, NEW c \in Codecs, NEW rs, Takes(c, rs, Match(agent)),
         NEW n \in DOMAIN Match(agent).codecs, c = Match(agent).codecs[n]
  PROVE  Format(c, Match(agent)) \in Announced(agent)
<1> DEFINE profile == Match(agent)
           served == <<[codec |-> "mp3"], [codec |-> "aac"], [codec |-> "wav"], [codec |-> "flac"]>>
           codecs == Offered(served, profile)
           request == Parsed(ConnectionManagerUrn, "GetProtocolInfo", <<>>)
<1>1. request.action = "GetProtocolInfo"
  BY DEF Parsed
<1>2. ConnectionManagerDispatch(request, agent).out = SourceFormats(profile)
  <2> HIDE DEF request
  <2>1. ConnectionManagerDispatch(request, agent) = Out(SourceFormats(profile))
    BY <1>1 DEF ConnectionManagerDispatch
  <2> QED BY <2>1 DEF Out
<1>3. SourceFormats(profile) = [i \in DOMAIN codecs |-> Format(codecs[i], profile)]
  BY DEF SourceFormats
<1>4. Takes(c, served, profile)
  <2>1. \E i \in DOMAIN served : served[i].codec = c
    <3>1. /\ 1 \in DOMAIN served /\ 2 \in DOMAIN served /\ 3 \in DOMAIN served /\ 4 \in DOMAIN served
          /\ served[1].codec = "mp3" /\ served[2].codec = "aac"
          /\ served[3].codec = "wav" /\ served[4].codec = "flac"
      OBVIOUS
    <3> HIDE DEF served
    <3> QED BY <3>1 DEF Codecs
  <2> QED BY <2>1 DEF Takes
<1>5. \E i \in DOMAIN codecs : codecs[i] = c
  <2> HIDE DEF served
  <2> QED BY <1>4, OfferedIs
<1> HIDE DEF codecs, profile
<1>6. \E i \in DOMAIN SourceFormats(profile) : SourceFormats(profile)[i] = Format(c, profile)
  BY <1>3, <1>5
<1> QED BY <1>2, <1>6 DEF Announced, ToSet, profile

\* What is offered in an item: rows that are there, in formats that are announced.
GoodResource(r, agent) ==
  /\ r.id \in DOMAIN renditions /\ GoodToken(r.id, r.token)
  /\ r.format = Format(CodecOf(r.id[4]), Match(agent))
  /\ r.format \in Announced(agent)

LEMMA ResourcesAre ==
  ASSUME RowsInv, clock \in Nat, NEW t, NEW parent, NEW agent,
         NEW j \in DOMAIN Item(t, parent, Match(agent)).resources
  PROVE  GoodResource(Item(t, parent, Match(agent)).resources[j], agent)
<1> DEFINE profile == Match(agent)
           item == Item(t, parent, profile)
           rs == Rows(t)
           codecs == Offered(rs, profile)
           selected == SelectResources(rs, profile)
           r == item.resources[j]
<1>1. item.resources = [i \in DOMAIN selected |->
                          [id |-> selected[i].id, format |-> selected[i].format,
                           token |-> Sign(selected[i].id)]]
  BY DEF Item
<1>2. selected = [i \in DOMAIN codecs |-> [id     |-> FirstOf(rs, codecs[i]).id,
                                          format |-> Format(codecs[i], profile)]]
  BY DEF SelectResources
<1> HIDE DEF item, selected
<1>3. j \in DOMAIN selected
  BY <1>1 DEF item
<1>4. j \in DOMAIN codecs
  BY <1>2, <1>3
<1> DEFINE c == codecs[j]
<1>5. /\ r.id = FirstOf(rs, c).id /\ r.format = Format(c, profile) /\ r.token = Sign(r.id)
  BY <1>1, <1>2, <1>3, <1>4
<1>6. /\ Takes(c, rs, profile)
      /\ \E n \in DOMAIN profile.codecs : c = profile.codecs[n]
  BY <1>4, OfferedIs
<1> HIDE DEF codecs, c, r
<1> DEFINE those == {i \in DOMAIN rs : rs[i].codec = c}
<1>7. Min(those) \in those
  <2>1. those # {} /\ those \in SUBSET Nat
    BY <1>6, RowsAre DEF Takes
  <2> HIDE DEF those
  <2>2. \E m \in those : \A x \in those : m <= x
    BY <2>1, Least
  <2> QED BY <2>1, <2>2, MinIs
<1>8. PICK k \in DOMAIN rs : FirstOf(rs, c) = rs[k] /\ rs[k].codec = c
  BY <1>7 DEF FirstOf
<1>9. r.id \in DOMAIN renditions /\ c = CodecOf(r.id[4])
  BY <1>5, <1>8, RowsAre
<1>10. c \in Codecs
  BY <1>9, CodecIs DEF RowsInv, GoodRow
<1>11. r.format \in Announced(agent)
  <2>1. PICK n \in DOMAIN profile.codecs : c = profile.codecs[n]
    BY <1>6
  <2> QED BY <1>5, <1>6, <1>10, <2>1, AnnouncedIs
<1>12. GoodToken(r.id, r.token)
  BY <1>5, SignIs
<1>13. GoodResource(r, agent)
  BY <1>5, <1>9, <1>11, <1>12 DEF GoodResource
<1> QED BY <1>13 DEF r, item

\* An item that was handed out.
GoodItem(object, agent) ==
  IsItem(object) =>
    /\ \A j \in DOMAIN object.resources : GoodResource(object.resources[j], agent)
    /\ \E t \in DOMAIN tracks :
         /\ object.id = <<"track">> \o t
         /\ object.art => albums[AlbumOf(t)].cover # None

\* A link that was handed out.
GoodLink(link) ==
  \/ /\ link.route \in {"media", "index", "segment"}
     /\ link.id \in DOMAIN renditions /\ GoodToken(link.id, link.token)
  \/ /\ link.route = "master"
     /\ link.id \in DOMAIN tracks /\ GoodToken(link.id, link.token)
  \/ /\ link.route = "art" /\ link.token = NoToken
     /\ link.id \in DOMAIN albums /\ albums[link.id].cover # None

GoodMime(link, mime) ==
  mime # NoMime => link.route = "media" /\ mime = Mime(CodecOf(link.id[4]))

LinksInv ==
  /\ RowsInv
  /\ view.mode = "browsing" => \A i \in 1..Len(view.got) : GoodItem(view.got[i], view.agent)
  /\ view.mode = "playing" => GoodLink(view.link) /\ GoodMime(view.link, view.mime)

LEMMA LinkIs ==
  ASSUME NEW route, NEW id, NEW token
  PROVE  LET link == Link(route, id, token) IN
         link.route = route /\ link.id = id /\ link.token = token
  BY DEF Link

LEMMA PlayingIs ==
  ASSUME NEW link, NEW mime
  PROVE  LET v == Playing(link, mime) IN v.mode = "playing" /\ v.link = link /\ v.mime = mime
  BY DEF Playing

LEMMA AlbumsAreThere ==
  ASSUME LibraryInv, NEW t \in DOMAIN tracks
  PROVE  AlbumOf(t) \in DOMAIN albums
  BY IdsNest DEF LibraryInv

LEMMA ListedIsGood ==
  ASSUME LibraryInv, RowsInv, clock \in Nat, NEW object, NEW agent, Listed(object, Match(agent))
  PROVE  GoodItem(object, agent)
<1> SUFFICES ASSUME IsItem(object)
             PROVE  /\ \A j \in DOMAIN object.resources : GoodResource(object.resources[j], agent)
                    /\ \E t \in DOMAIN tracks :
                         /\ object.id = <<"track">> \o t
                         /\ object.art => albums[AlbumOf(t)].cover # None
  BY DEF GoodItem
<1>1. PICK t \in DOMAIN tracks, parent \in {object.parent} : object = Item(t, parent, Match(agent))
  BY DEF Listed
<1>2. \A j \in DOMAIN object.resources : GoodResource(object.resources[j], agent)
  BY <1>1, ResourcesAre
<1>3. object.id = <<"track">> \o t
  BY <1>1, ItemIs
<1>4. object.art = (albums[AlbumOf(t)].cover # None)
  BY <1>1 DEF Item
<1> QED BY <1>2, <1>3, <1>4

\* What was handed out stays good, whatever the command does meanwhile.
LEMMA GoodStays ==
  ASSUME UNCHANGED library, DOMAIN renditions \subseteq DOMAIN renditions'
  PROVE  /\ \A object, agent : GoodItem(object, agent) => GoodItem(object, agent)'
         /\ \A link : GoodLink(link) => GoodLink(link)'
         /\ \A link, mime : GoodMime(link, mime)' = GoodMime(link, mime)
<1>1. \A r, agent : GoodResource(r, agent) => GoodResource(r, agent)'
  BY DEF GoodResource, Announced, ConnectionManagerDispatch
<1>2. \A object, agent : GoodItem(object, agent) => GoodItem(object, agent)'
  BY <1>1 DEF GoodItem, library
<1>3. \A link : GoodLink(link) => GoodLink(link)'
  BY DEF GoodLink, library
<1> QED BY <1>2, <1>3 DEF GoodMime

\* The links of an answer are good.
LEMMA AnswersHaveLinks ==
  ASSUME JobInv, LibraryInv, RowsInv, clock \in Nat, NEW link, GoodLink(link),
         NEW i \in DOMAIN Get(link).links
  PROVE  GoodLink(Get(link).links[i])
<1>1. CASE link.route = "media"
  <2>1. Get(link) = MediaRoute(link.id, link.token)
    BY <1>1 DEF Get
  <2>2. Get(link).links = <<>>
    BY <2>1 DEF MediaRoute, Answer, Forbidden, NotFound
  <2> QED BY <2>2
<1>2. CASE link.route = "art"
  <2>1. Get(link) = ArtRoute(link.id)
    BY <1>2 DEF Get
  <2>2. Get(link).links = <<>>
    BY <2>1 DEF ArtRoute, Answer, NotFound
  <2> QED BY <2>2
<1>3. CASE link.route = "segment"
  <2>1. Get(link) = SegmentRoute(link.id, link.token)
    BY <1>3 DEF Get
  <2>2. Get(link).links = <<>>
    BY <2>1 DEF SegmentRoute, Answer, Forbidden
  <2> QED BY <2>2
<1>4. CASE link.route = "index"
  <2> DEFINE id == link.id
             out == Get(link).links
  <2>1. Get(link) = IndexRoute(id, link.token)
    BY <1>4 DEF Get
  <2>2. \/ out = <<>>
        \/ out = <<Link("media", id, Sign(id))>>
        \/ out = <<Link("segment", id, Sign(id))>>
    BY <2>1 DEF IndexRoute, Answer, Forbidden, NotFound
  <2>3. id \in DOMAIN renditions
    BY <1>4 DEF GoodLink
  <2>4. GoodLink(Link("media", id, Sign(id))) /\ GoodLink(Link("segment", id, Sign(id)))
    BY <2>3, SignIs, LinkIs DEF GoodLink
  <2> HIDE DEF out
  <2>5. \A k \in DOMAIN out : GoodLink(out[k])
    BY <2>2, <2>4
  <2> QED BY <2>5 DEF out
<1>5. CASE link.route = "master"
  <2> DEFINE id == link.id
             rs == Rows(id)
             out == Get(link).links
  <2>1. Get(link) = MasterRoute(id, link.token)
    BY <1>5 DEF Get
  <2>2. \/ out = <<>>
        \/ out = [k \in DOMAIN rs |-> Variant(rs[k], id)]
    BY <2>1 DEF MasterRoute, Answer, Forbidden, NotFound
  <2>3. ASSUME NEW k \in DOMAIN rs PROVE GoodLink(Variant(rs[k], id))
    <3>1. rs[k].id \in DOMAIN renditions
      BY RowsAre
    <3> QED BY <3>1, SignIs, LinkIs DEF GoodLink, Variant
  <2> HIDE DEF out, rs
  <2>4. \A k \in DOMAIN out : GoodLink(out[k])
    BY <2>2, <2>3
  <2> QED BY <2>4 DEF out
<1> QED BY <1>1, <1>2, <1>3, <1>4, <1>5 DEF GoodLink

LEMMA LinksInit == Init => LinksInv
<1> SUFFICES ASSUME Init PROVE LinksInv
  OBVIOUS
<1>1. RowsInv
  BY RowsInit DEF Init
<1>2. view.mode = "idle"
  BY OtherViews DEF Init
<1> QED BY <1>1, <1>2 DEF LinksInv

\* While the view stays, it stays good.
LEMMA GoodViewStays ==
  ASSUME LinksInv, RowsInv', UNCHANGED <<library, view>>,
         DOMAIN renditions \subseteq DOMAIN renditions'
  PROVE  LinksInv'
<1>1. ASSUME view'.mode = "browsing", NEW i \in 1..Len(view'.got)
      PROVE  GoodItem(view.got[i], view.agent)'
  <2>1. GoodItem(view.got[i], view.agent)
    BY <1>1 DEF LinksInv
  <2>2. PICK x, p : x = view.got[i] /\ p = view.agent
    OBVIOUS
  <2>3. GoodItem(x, p)'
    BY <2>1, <2>2, GoodStays
  <2> QED BY <2>2, <2>3
<1>2. ASSUME view'.mode = "playing"
      PROVE  GoodLink(view.link)' /\ GoodMime(view.link, view.mime)'
  <2>1. GoodLink(view.link) /\ GoodMime(view.link, view.mime)
    BY <1>2 DEF LinksInv
  <2>2. PICK x, m : x = view.link /\ m = view.mime
    OBVIOUS
  <2>3. GoodLink(x)' /\ GoodMime(x, m)'
    BY <2>1, <2>2, GoodStays
  <2> QED BY <2>2, <2>3
<1> QED BY <1>1, <1>2 DEF LinksInv

\* A view that is new is good by what it is made of.
LEMMA NewViewIsGood ==
  ASSUME RowsInv, UNCHANGED <<library, renditions>>,
         \/ view'.mode \in {"idle", "refused"}
         \/ /\ view'.mode = "browsing"
            /\ \A i \in 1..Len(view'.got) : GoodItem(view'.got[i], view'.agent)
         \/ \E link, mime : view' = Playing(link, mime) /\ GoodLink(link) /\ GoodMime(link, mime)
  PROVE  LinksInv'
<1>1. RowsInv'
  BY DEF RowsInv
<1>2. CASE view'.mode \in {"idle", "refused"}
  BY <1>1, <1>2 DEF LinksInv
<1>3. CASE /\ view'.mode = "browsing"
           /\ \A i \in 1..Len(view'.got) : GoodItem(view'.got[i], view'.agent)
  <2>1. ASSUME NEW i \in 1..Len(view'.got) PROVE GoodItem(view.got[i], view.agent)'
    <3>1. PICK x, p : x = view'.got[i] /\ p = view'.agent
      OBVIOUS
    <3>2. GoodItem(x, p)
      BY <1>3, <3>1
    <3>3. GoodItem(x, p)'
      BY <3>2, GoodStays
    <3> QED BY <3>1, <3>3
  <2> QED BY <1>1, <1>3, <2>1 DEF LinksInv
<1>4. CASE \E link, mime : view' = Playing(link, mime) /\ GoodLink(link) /\ GoodMime(link, mime)
  <2>1. PICK link, mime : view' = Playing(link, mime) /\ GoodLink(link) /\ GoodMime(link, mime)
    BY <1>4
  <2>2. view'.mode = "playing" /\ view'.link = link /\ view'.mime = mime
    BY <2>1, PlayingIs
  <2>3. GoodLink(link)' /\ GoodMime(link, mime)'
    BY <2>1, GoodStays
  <2> QED BY <1>1, <2>2, <2>3 DEF LinksInv
<1> QED BY <1>2, <1>3, <1>4

LEMMA TakeStep ==
  ASSUME SessInv, LinksInv, Take, Quiet
  PROVE  LinksInv'
<1>0. /\ view.mode = "browsing" /\ RowsInv /\ LibraryInv
      /\ \A i \in 1..Len(view.got) : GoodItem(view.got[i], view.agent)
      /\ DOMAIN view.got = 1..Len(view.got)
  <2>1. view.mode = "browsing"
    BY DEF Take
  <2> DEFINE got == view.got
  <2>2. IsSeq(got)
    BY <2>1 DEF SessInv, PagesInv
  <2> HIDE DEF got
  <2>3. DOMAIN got = 1..Len(got)
    BY <2>2, ListIs DEF IsSeq
  <2> QED BY <2>1, <2>3 DEF SessInv, LinksInv, got
<1>1. PICK n \in DOMAIN view.got :
        /\ IsItem(view.got[n])
        /\ \/ \E i \in DOMAIN view.got[n].resources :
                LET r == view.got[n].resources[i] IN
                view' = Playing(Link("media", r.id, r.token), r.format.mime)
           \/ /\ view.got[n].art
              /\ view' = Playing(Link("art", AlbumOf(Tail(view.got[n].id)), NoToken), NoMime)
  BY DEF Take
<1>2. GoodItem(view.got[n], view.agent)
  BY <1>0
<1>3. CASE \E i \in DOMAIN view.got[n].resources :
             LET r == view.got[n].resources[i] IN
             view' = Playing(Link("media", r.id, r.token), r.format.mime)
  <2>1. PICK i \in DOMAIN view.got[n].resources :
          LET r == view.got[n].resources[i] IN
          view' = Playing(Link("media", r.id, r.token), r.format.mime)
    BY <1>3
  <2> DEFINE r == view.got[n].resources[i]
             link == Link("media", r.id, r.token)
             mime == r.format.mime
  <2>2. GoodResource(r, view.agent)
    BY <1>1, <1>2 DEF GoodItem
  <2>3. view' = Playing(link, mime)
    BY <2>1
  <2> HIDE DEF r
  <2>4. link.route = "media" /\ link.id = r.id /\ link.token = r.token
    BY LinkIs
  <2> HIDE DEF link
  <2>5. GoodLink(link)
    BY <2>2, <2>4 DEF GoodLink, GoodResource
  <2>6. mime = Mime(CodecOf(r.id[4]))
    BY <2>2 DEF GoodResource, Format
  <2> HIDE DEF mime
  <2>7. GoodMime(link, mime)
    BY <2>4, <2>6 DEF GoodMime
  <2> QED BY <1>0, <2>3, <2>5, <2>7, NewViewIsGood DEF Quiet
<1>4. CASE /\ view.got[n].art
           /\ view' = Playing(Link("art", AlbumOf(Tail(view.got[n].id)), NoToken), NoMime)
  <2>1. PICK t \in DOMAIN tracks :
          view.got[n].id = <<"track">> \o t /\ albums[AlbumOf(t)].cover # None
    BY <1>1, <1>2, <1>4 DEF GoodItem
  <2>2. Tail(view.got[n].id) = t
    BY <1>0, <2>1, TablesAreFew, TailIs
  <2> DEFINE link == Link("art", AlbumOf(t), NoToken)
  <2>3. view' = Playing(link, NoMime)
    BY <1>4, <2>2
  <2>4. link.route = "art" /\ link.id = AlbumOf(t) /\ link.token = NoToken
    BY LinkIs
  <2> HIDE DEF link
  <2>5. GoodLink(link)
    BY <1>0, <2>1, <2>4, AlbumsAreThere DEF GoodLink
  <2>6. GoodMime(link, NoMime)
    BY DEF GoodMime
  <2> QED BY <1>0, <2>3, <2>5, <2>6, NewViewIsGood DEF Quiet
<1> QED BY <1>1, <1>3, <1>4

\* The next page, good as the ones before it.
LEMMA NextPageIsGood ==
  ASSUME LibraryInv, Counters, PagesInv, RowsInv, clock \in Nat,
         view.mode = "browsing" => \A i \in 1..Len(view.got) : GoodItem(view.got[i], view.agent),
         NEW style \in Styles, NextPage(style), UNCHANGED <<library, renditions>>
  PROVE  LinksInv'
<1> DEFINE o == ParseObjectId(view.object)
           start == Len(view.got)
           agent == view.agent
           object == view.object
           flag == view.flag
<1>1. /\ view.mode = "browsing" /\ flag = "BrowseDirectChildren" /\ start < view.total
      /\ \E reply \in Replies(agent, object, flag, start, style) :
           view' = IF reply.fault = 0 /\ reply.updateId = view.updateId
                   THEN [view EXCEPT !.got = @ \o reply.objects] ELSE Idle
  BY DEF NextPage
<1>2. PICK reply \in Replies(agent, object, flag, start, style) :
        view' = IF reply.fault = 0 /\ reply.updateId = view.updateId
                THEN [view EXCEPT !.got = @ \o reply.objects] ELSE Idle
  BY <1>1
<1>3. /\ view = ListingView(view) /\ IsSeq(view.got) /\ start \in Nat
      /\ o.kind \in Paged /\ start <= Len(ChildIds(o))
  BY <1>1 DEF PagesInv, IsSeq
<1>4. CASE ~ (reply.fault = 0 /\ reply.updateId = view.updateId)
  <2>1. view'.mode = "idle"
    BY <1>2, <1>4, OtherViews
  <2> QED BY <2>1, NewViewIsGood
<1>5. CASE reply.fault = 0 /\ reply.updateId = view.updateId
  <2> DEFINE old == view.got
             new == reply.objects
             got == old \o new
             n == Len(new)
  <2>1. view' = [view EXCEPT !.got = got]
    BY <1>2, <1>5
  <2> HIDE DEF start, agent, object, flag
  <2>2. /\ ParseObjectId(object).kind \in Paged /\ start <= Len(ChildIds(ParseObjectId(object)))
        /\ reply.fault = 0
    BY <1>3, <1>5 DEF object
  <2>3. Answers(reply, ParseObjectId(object), start, Match(agent))
    BY <1>1, <1>2, <1>3, <2>2, NextAnswerIs
  <2>4. IsSeq(new) /\ \A i \in 1..n : Listed(new[i], Match(agent))
    BY <2>3 DEF Answers, IsPage
  <2>5. \A i \in 1..n : GoodItem(new[i], agent)
    BY <2>4, ListedIsGood
  <2>6. \A i \in 1..start : GoodItem(old[i], agent)
    BY <1>1 DEF start, agent
  <2>7. /\ view'.mode = "browsing" /\ view'.agent = agent /\ view'.got = got
    <3> DEFINE w == ListingView(view)
    <3>1. view = w
      BY <1>3
    <3>2. w = [mode |-> "browsing", agent |-> w.agent, object |-> w.object,
            flag |-> w.flag, got |-> w.got, total |-> w.total, updateId |-> w.updateId]
      BY DEF ListingView
    <3> HIDE DEF got, w
    <3>3. view' = [w EXCEPT !.got = got]
      BY <2>1, <3>1
    <3>4. view' = [mode |-> "browsing", agent |-> w.agent, object |-> w.object,
            flag |-> w.flag, got |-> got, total |-> w.total, updateId |-> w.updateId]
      BY <3>2, <3>3
    <3> QED BY <3>1, <3>4 DEF agent
  <2>8. IsSeq(old) /\ Len(old) = start
    BY <1>3 DEF start
  <2> HIDE DEF old, new, got, n
  <2>9. /\ IsSeq(got) /\ Len(got) = Len(old) + Len(new)
        /\ \A i \in 1..Len(old) : got[i] = old[i]
        /\ \A i \in 1..Len(new) : got[Len(old) + i] = new[i]
    BY <2>4, <2>8, CatIs DEF got
  <2>10. n \in Nat /\ n = Len(new)
    BY <2>4 DEF IsSeq, n
  <2>11. ASSUME NEW i \in 1..(start + n) PROVE GoodItem(got[i], agent)
    <3>1. CASE i <= start
      <4>1. i \in 1..start /\ got[i] = old[i]
        BY <1>3, <2>8, <2>9, <2>10, <3>1
      <4> QED BY <2>6, <4>1
    <3>2. CASE i > start
      <4>1. i - start \in 1..n /\ start + (i - start) = i
        BY <1>3, <2>10, <3>2
      <4>2. got[i] = new[i - start]
        BY <2>8, <2>9, <2>10, <4>1
      <4> QED BY <2>5, <4>1, <4>2
    <3> QED BY <1>3, <2>10, <3>1, <3>2
  <2>12. \A i \in 1..Len(view'.got) : GoodItem(view'.got[i], view'.agent)
    BY <2>7, <2>8, <2>9, <2>10, <2>11
  <2> QED BY <2>7, <2>12, NewViewIsGood
<1> QED BY <1>4, <1>5

LEMMA ClientLinksStep ==
  ASSUME SessInv, LinksInv, Client, Quiet
  PROVE  LinksInv'
<1>0. /\ JobInv /\ LibraryInv /\ Counters /\ PagesInv /\ RowsInv
      /\ clock \in Nat /\ systemUpdateId \in Nat
      /\ UNCHANGED <<library, renditions>>
  BY BoundsAssumption, MaxRunsAssumption DEF SessInv, LinksInv, Quiet, Counters
<1>1. ASSUME NEW agent \in Agents, NEW o \in KnownIds \cup UnknownIds, NEW style \in Styles,
             NEW flag \in {"BrowseDirectChildren", "BrowseMetadata"}, Browse(agent, o, flag, style)
      PROVE  LinksInv'
  <2> DEFINE z == 0
  <2>1. PICK reply \in Replies(agent, o, flag, z, style) :
          view' = IF reply.fault = 0 THEN Browsing(agent, o, flag, reply)
                  ELSE Refused(o, reply.fault)
    BY <1>1 DEF Browse
  <2>2. CASE reply.fault # 0
    <3>1. view'.mode = "refused"
      BY <2>1, <2>2, OtherViews
    <3> QED BY <1>0, <3>1, NewViewIsGood
  <2>3. CASE reply.fault = 0
    <3>1. z = 0
      OBVIOUS
    <3> HIDE DEF z
    <3>2. \A i \in 1..Len(reply.objects) : Listed(reply.objects[i], Match(agent))
      BY <1>0, <2>1, <2>3, <3>1, FirstAnswerIs
    <3>3. view' = Browsing(agent, o, flag, reply)
      BY <2>1, <2>3
    <3>4. view'.mode = "browsing" /\ view'.agent = agent /\ view'.got = reply.objects
      BY <3>3, ViewOfBrowsing
    <3>5. \A i \in 1..Len(view'.got) : GoodItem(view'.got[i], view'.agent)
      BY <1>0, <3>2, <3>4, ListedIsGood
    <3> QED BY <1>0, <3>4, <3>5, NewViewIsGood
  <2> QED BY <2>2, <2>3
<1>2. ASSUME NEW style \in Styles, NextPage(style) PROVE LinksInv'
  BY <1>0, <1>2, NextPageIsGood DEF LinksInv
<1>3. ASSUME NEW t \in DOMAIN tracks, OpenMaster(t) PROVE LinksInv'
  <2> DEFINE link == Link("master", t, Sign(t))
  <2>1. view' = Playing(link, NoMime)
    BY <1>3 DEF OpenMaster
  <2>2. link.route = "master" /\ link.id = t /\ link.token = Sign(t)
    BY LinkIs
  <2> HIDE DEF link
  <2>3. GoodLink(link)
    BY <1>0, <2>2, SignIs DEF GoodLink
  <2>4. GoodMime(link, NoMime)
    BY DEF GoodMime
  <2> QED BY <1>0, <2>1, <2>3, <2>4, NewViewIsGood
<1>4. CASE Take
  BY <1>4, TakeStep
<1>5. CASE Follow
  <2>1. view.mode = "playing" /\ GoodLink(view.link)
    BY <1>5 DEF Follow, LinksInv
  <2>2. PICK i \in DOMAIN Get(view.link).links : view' = Playing(Get(view.link).links[i], NoMime)
    BY <1>5 DEF Follow
  <2> DEFINE old == view.link
             link == Get(old).links[i]
  <2>3. GoodLink(old) /\ i \in DOMAIN Get(old).links
    BY <2>1, <2>2
  <2> HIDE DEF old
  <2>4. GoodLink(link)
    BY <1>0, <2>3, AnswersHaveLinks
  <2>5. view' = Playing(link, NoMime)
    BY <2>2 DEF old
  <2> HIDE DEF link
  <2>6. GoodMime(link, NoMime)
    BY DEF GoodMime
  <2> QED BY <1>0, <2>4, <2>5, <2>6, NewViewIsGood
<1>6. CASE Leave
  <2>1. view'.mode = "idle"
    BY <1>6, OtherViews DEF Leave
  <2> QED BY <1>0, <2>1, NewViewIsGood
<1> QED BY <1>1, <1>2, <1>3, <1>4, <1>5, <1>6 DEF Client

LEMMA LinksStep == SessInv /\ LinksInv /\ [Next]_vars => LinksInv'
<1> SUFFICES ASSUME SessInv, LinksInv, [Next]_vars PROVE LinksInv'
  OBVIOUS
<1>0. JobInv /\ RowsInv
  BY DEF SessInv, LinksInv
<1>1. CASE TranscodeNext /\ UNCHANGED <<clock, view>>
  <2>1. [TranscodeNext]_allVars /\ UNCHANGED library
    BY <1>1 DEF TranscodeNext
  <2>2. RowsInv' /\ DOMAIN renditions \subseteq DOMAIN renditions'
    BY <1>0, <2>1, RowsStep
  <2> QED BY <1>1, <2>1, <2>2, GoodViewStays
<1>2. CASE Tick /\ Quiet
  <2>1. RowsInv' /\ DOMAIN renditions \subseteq DOMAIN renditions'
    BY <1>0, <1>2 DEF Quiet, RowsInv
  <2> QED BY <1>2, <2>1, GoodViewStays DEF Tick, Quiet
<1>3. CASE Client /\ Quiet
  BY <1>3, ClientLinksStep
<1>4. CASE UNCHANGED vars
  <2>1. RowsInv' /\ DOMAIN renditions \subseteq DOMAIN renditions'
    BY <1>0, <1>4 DEF vars, RowsInv
  <2> QED BY <1>4, <2>1, GoodViewStays DEF vars
<1> QED BY <1>1, <1>2, <1>3, <1>4 DEF Next, Quiet

\* What a link that was handed out gets.
LEMMA LinkPlays ==
  ASSUME JobInv, LibraryInv, RowsInv, clock \in Nat, NEW link, GoodLink(link), NEW mime,
         GoodMime(link, mime)
  PROVE  LET answer == Get(link) IN
         IF link.token # NoToken /\ clock >= link.token.expires
         THEN answer.status = 403
         ELSE /\ answer.status = 200
              /\ mime # NoMime => answer.mime = mime
<1> DEFINE id == link.id
           token == link.token
           late == token # NoToken /\ clock >= token.expires
<1>1. \A status, type, out : /\ Answer(status, type, out).status = status
                             /\ Answer(status, type, out).mime = type
  BY DEF Answer
<1>2. Forbidden.status = 403
  BY DEF Forbidden, Answer
<1>3. ASSUME link.route # "art" PROVE Verify(id, token) <=> ~ late
  <2>1. GoodToken(id, token)
    BY <1>3 DEF GoodLink
  <2>2. CASE ~ Signing
    BY <2>1, <2>2 DEF GoodToken, Verify
  <2>3. CASE Signing
    <3>1. PICK e \in Nat : token = [expires |-> e, sig |-> Hmac(id, e)]
      BY <2>1, <2>3 DEF GoodToken
    <3>2. token.expires = e /\ token.sig = Hmac(id, e)
      BY <3>1
    <3>3. token # NoToken
      <4>1. id \in Seq(Nat)
        BY <1>3, TablesAreFew DEF GoodLink, RowsInv, GoodRow
      <4>2. token \in [expires : Nat, sig : [id : Seq(Nat), expires : Nat]]
        BY <3>1, <4>1 DEF Hmac
      <4> QED BY <4>2, NoTokenAssumption
    <3> HIDE DEF id, token
    <3> QED BY <2>3, <3>2, <3>3 DEF Verify
  <2> QED BY <2>2, <2>3
<1>4. ASSUME NEW r \in DOMAIN renditions
      PROVE  /\ WithinRoot(renditions[r].path) /\ Servable(renditions[r].path)
             /\ renditions[r].codec = CodecOf(r[4])
  <2>1. PICK f \in Files : renditions[r].path.dir = f.dir
    BY DEF RowsInv, GoodRow
  <2>2. WithinRoot(renditions[r].path)
    BY <2>1, RootAssumption DEF WithinRoot
  <2>3. disk[renditions[r].path] # None
    BY DEF JobInv, RowsHaveFiles
  <2> QED BY <2>2, <2>3 DEF Servable, RowsInv, GoodRow
<1>5. CASE link.route = "media"
  <2>1. Get(link) = MediaRoute(id, token) /\ id \in DOMAIN renditions
    BY <1>5 DEF Get, GoodLink
  <2>2. CASE late
    BY <1>2, <1>3, <1>5, <2>1, <2>2 DEF MediaRoute
  <2>3. CASE ~ late
    <3>1. Get(link) = Answer(200, Mime(renditions[id].codec), <<>>)
      BY <1>3, <1>4, <1>5, <2>1, <2>3 DEF MediaRoute
    <3>2. mime # NoMime => mime = Mime(renditions[id].codec)
      BY <1>4, <2>1 DEF GoodMime
    <3> QED BY <1>1, <2>3, <3>1, <3>2
  <2> QED BY <2>2, <2>3
<1>6. link.route # "media" => mime = NoMime
  BY DEF GoodMime
<1>7. CASE link.route = "index"
  <2>1. Get(link) = IndexRoute(id, token) /\ id \in DOMAIN renditions
    BY <1>7 DEF Get, GoodLink
  <2>2. CASE late
    BY <1>2, <1>3, <1>7, <2>1, <2>2 DEF IndexRoute
  <2>3. CASE ~ late
    <3>1. Get(link).status = 200
      BY <1>1, <1>3, <1>4, <1>7, <2>1, <2>3 DEF IndexRoute
    <3> QED BY <1>6, <1>7, <2>3, <3>1
  <2> QED BY <2>2, <2>3
<1>8. CASE link.route = "segment"
  <2>1. Get(link) = SegmentRoute(id, token)
    BY <1>8 DEF Get
  <2> QED BY <1>1, <1>2, <1>3, <1>6, <1>8, <2>1 DEF SegmentRoute
<1>9. CASE link.route = "master"
  <2>1. Get(link) = MasterRoute(id, token) /\ id \in DOMAIN tracks
    BY <1>9 DEF Get, GoodLink
  <2>2. CASE late
    BY <1>2, <1>3, <1>9, <2>1, <2>2 DEF MasterRoute
  <2>3. CASE ~ late
    <3>1. Rows(id) # <<>>
      <4>1. PICK f \in Files : id = TrackId(f)
        BY <2>1 DEF LibraryInv
      <4>2. RenditionId(f) \in RowsOf(id)
        BY <4>1, RenditionIdIs DEF RowsOf, RowsInv
      <4>3. Cardinality(RowsOf(id)) # 0
        <5> DEFINE S == RowsOf(id)
        <5>1. S \subseteq DOMAIN renditions /\ S # {}
          BY <4>2 DEF RowsOf
        <5> HIDE DEF S
        <5>2. IsFiniteSet(S)
          BY <5>1, FS_Subset DEF RowsInv
        <5>3. Cardinality(S) # 0
          BY <5>1, <5>2, FS_EmptySet
        <5> QED BY <5>3 DEF S
      <4>4. 1 \in DOMAIN Rows(id)
        BY <4>3, RowsAre
      <4> QED BY <4>4
    <3>2. Get(link).status = 200
      BY <1>1, <1>3, <1>9, <2>1, <2>3, <3>1 DEF MasterRoute
    <3> QED BY <1>6, <1>9, <2>3, <3>2
  <2> QED BY <2>2, <2>3
<1>10. CASE link.route = "art"
  <2>1. /\ Get(link) = ArtRoute(id) /\ token = NoToken
        /\ id \in DOMAIN albums /\ albums[id].cover # None
    BY <1>10 DEF Get, GoodLink
  <2>2. Get(link) = Answer(200, "image/jpeg", <<>>)
    BY <2>1 DEF ArtRoute, LibraryInv
  <2> QED BY <1>1, <1>6, <1>10, <2>1, <2>2
<1> QED BY <1>5, <1>7, <1>8, <1>9, <1>10 DEF GoodLink

(* Whatever a renderer is offered is of a format that GetProtocolInfo        *)
(* announces to it, and every link that is handed out is good until its      *)
(* token expires, and refused from then on: for any library, any tokens'     *)
(* life, with a secret or without, and whatever is transcoded meanwhile.     *)
THEOREM LinksAlwaysPlay == Spec => []LinksPlay
<1>1. SessInv /\ LinksInv => LinksPlay
  <2> SUFFICES ASSUME SessInv, LinksInv PROVE LinksPlay
    OBVIOUS
  <2>0. JobInv /\ LibraryInv /\ RowsInv /\ clock \in Nat
    BY BoundsAssumption DEF SessInv, LinksInv, Counters
  <2>1. ASSUME view.mode = "browsing", NEW i \in DOMAIN view.got, IsItem(view.got[i]),
               NEW j \in DOMAIN view.got[i].resources
        PROVE  view.got[i].resources[j].format \in Announced(view.agent)
    <3> DEFINE got == view.got
    <3>1. IsSeq(got)
      BY <2>1 DEF SessInv, PagesInv
    <3> HIDE DEF got
    <3>2. DOMAIN got = 1..Len(got)
      BY <3>1, ListIs DEF IsSeq
    <3>3. GoodItem(view.got[i], view.agent)
      BY <2>1, <3>2 DEF LinksInv, got
    <3> QED BY <2>1, <3>3 DEF GoodItem, GoodResource
  <2>2. ASSUME view.mode = "playing"
        PROVE  LET answer == Get(view.link) IN
               IF view.link.token # NoToken /\ clock >= view.link.token.expires
               THEN answer.status = 403
               ELSE /\ answer.status = 200
                    /\ view.mime # NoMime => answer.mime = view.mime
    <3>1. GoodLink(view.link) /\ GoodMime(view.link, view.mime)
      BY <2>2 DEF LinksInv
    <3> QED BY <2>0, <3>1, LinkPlays
  <2> QED BY <2>1, <2>2 DEF LinksPlay, Announced
<1>2. Spec => []LinksInv
  <2>1. Spec => [](SessInv)
    BY SessAlways
  <2> QED BY <2>1, LinksInit, LinksStep, PTL DEF Spec
<1> QED BY <1>1, <1>2, SessAlways, PTL

-----------------------------------------------------------------------------
(* The tree fits together.                                                   *)

\* What an object id stands for is there.
Found(o) ==
  \/ o.kind \in Fixed
  \/ o.kind \in {"artist", "artist_albums"} /\ o.entity \in DOMAIN artists
  \/ o.kind = "album" /\ o.entity \in DOMAIN albums
  \/ o.kind = "track" /\ o.entity \in DOMAIN tracks
  \/ o.kind = "playlist" /\ o.entity \in DOMAIN Playlists

LEMMA FixedIsRead ==
  ASSUME NEW k \in Fixed
  PROVE  ParseObjectId(<<k>>) = ObjectId(k, <<>>)
<1> DEFINE id == <<k>>
<1>1. Len(id) = 1 /\ Head(id) = k
  OBVIOUS
<1> HIDE DEF id
<1>2. ParseObjectId(id) = ObjectId(k, <<>>)
  BY <1>1 DEF ParseObjectId
<1> QED BY <1>2 DEF id

\* The id of an album, a track or a playlist.
LEMMA EntityIsRead ==
  ASSUME NEW kind \in Kinds, kind # "artist", NEW e \in Seq(Nat), e # <<>>
  PROVE  ParseObjectId(<<kind>> \o e) = ObjectId(kind, e)
<1> DEFINE id == <<kind>> \o e
<1>1. Tail(id) = e /\ Head(id) = kind /\ Len(id) = 1 + Len(e)
  BY TailIs
<1>2. Len(e) \in Nat /\ Len(e) # 0
  BY LenProperties, EmptySeq
<1> HIDE DEF id
<1>3. Len(id) # 1 /\ Len(id) > 1
  BY <1>1, <1>2
<1>4. ParseObjectId(id) = ObjectId(kind, e)
  BY <1>1, <1>3 DEF ParseObjectId
<1> QED BY <1>4 DEF id

LEMMA ArtistIsRead ==
  ASSUME NEW e \in Seq(Nat), Len(e) = 1
  PROVE  ParseObjectId(<<"artist">> \o e) = ObjectId("artist", e)
<1> DEFINE id == <<"artist">> \o e
<1>1. Tail(id) = e /\ Head(id) = "artist" /\ Len(id) = 1 + Len(e)
  BY TailIs
<1> HIDE DEF id
<1>2. ~ (Len(id) = 1 /\ Head(id) \in Fixed)
  BY <1>1
<1>3. ~ (Len(id) > 2 /\ Head(id) = "artist" /\ Last(id) = Albums)
  BY <1>1
<1>4. Len(id) > 1 /\ Head(id) \in Kinds
  BY <1>1 DEF Kinds
<1>5. ParseObjectId(id) = ObjectId(Head(id), Tail(id))
  BY <1>2, <1>3, <1>4, Zenon DEF ParseObjectId
<1>6. ParseObjectId(id) = ObjectId("artist", e)
  BY <1>1, <1>5
<1> QED BY <1>6 DEF id

\* The suffix is told from an artist of that name.
LEMMA AlbumsIdIsRead ==
  ASSUME NEW e \in Seq(Nat), Len(e) = 1
  PROVE  ParseObjectId(AlbumsId(e)) = ObjectId("artist_albums", e)
<1> DEFINE first == <<"artist">>
           last == <<Albums>>
           w == first \o e
           id == AlbumsId(e)
           rest == Tail(id)
<1>1. e[1] \in Nat /\ IsSeq(e)
  <2>1. e \in [1..1 -> Nat]
    BY LenProperties
  <2> QED BY <2>1, SeqsAre
<1>2. /\ IsSeq(first) /\ Len(first) = 1 /\ first[1] = "artist"
      /\ IsSeq(last) /\ Len(last) = 1 /\ last[1] = Albums
  BY DEF IsSeq
<1>3. id = w \o last
  BY DEF AlbumsId
<1> HIDE DEF first, last, w, id
<1>4. IsSeq(id) /\ Len(id) = 3 /\ id[1] = "artist" /\ id[2] = e[1] /\ id[3] = Albums
  <2>1. /\ IsSeq(w) /\ Len(w) = Len(first) + Len(e)
        /\ \A i \in 1..Len(first) : w[i] = first[i]
        /\ \A i \in 1..Len(e) : w[Len(first) + i] = e[i]
    <3>1. IsSeq(first) /\ IsSeq(e)
      BY <1>1, <1>2
    <3> QED BY ONLY <3>1, CatIs DEF w
  <2>2. Len(w) = 2 /\ w[1] = "artist" /\ w[2] = e[1]
    <3>1. w[1] = first[1] /\ w[Len(first) + 1] = e[1]
      BY <1>2, <2>1
    <3> QED BY <1>2, <2>1, <3>1
  <2>3. /\ IsSeq(id) /\ Len(id) = Len(w) + Len(last)
        /\ \A i \in 1..Len(w) : id[i] = w[i]
        /\ \A i \in 1..Len(last) : id[Len(w) + i] = last[i]
    <3>1. IsSeq(w) /\ IsSeq(last) /\ id = w \o last
      BY <1>2, <1>3, <2>1
    <3> QED BY ONLY <3>1, CatIs
  <2>4. id[1] = w[1] /\ id[2] = w[2] /\ id[Len(w) + 1] = last[1]
    BY <1>2, <2>2, <2>3
  <2> QED BY <1>2, <2>2, <2>3, <2>4
<1>5. Head(id) = "artist" /\ Last(id) = Albums
  BY <1>4 DEF Last
<1>6. Front(rest) = e
  <2> DEFINE S == {"artist", e[1], Albums}
  <2>1. id \in [1..3 -> S]
    <3>1. id = [i \in 1..3 |-> id[i]]
      BY <1>4 DEF IsSeq
    <3>2. \A i \in 1..3 : i = 1 \/ i = 2 \/ i = 3
      OBVIOUS
    <3>3. \A i \in 1..3 : id[i] \in S
      BY <1>4, <3>2
    <3> HIDE DEF S
    <3> QED BY <3>1, <3>3
  <2> HIDE DEF S
  <2>2. id \in Seq(S) /\ id # <<>>
    <3>1. 3 \in Nat
      OBVIOUS
    <3>2. id \in Seq(S)
      BY <2>1, <3>1, FunctionIs
    <3>3. Len(<<>>) = 0
      OBVIOUS
    <3>4. Len(id) = 3
      BY <1>4
    <3>5. id # <<>>
      BY ONLY <3>3, <3>4
    <3> QED BY <3>2, <3>5
  <2>3. /\ rest \in Seq(S) /\ Len(rest) = 2
        /\ \A i \in 1..2 : rest[i] = id[i + 1]
    <3> HIDE DEF rest
    <3>1. Tail(id) \in Seq(S) /\ Len(Tail(id)) = Len(id) - 1 /\ \A i \in 1..Len(Tail(id)) : Tail(id)[i] = id[i + 1]
      BY <2>2, HeadTailProperties
    <3>2. rest = Tail(id)
      BY DEF rest
    <3>3. Len(id) = 3
      BY <1>4
    <3>4. rest \in Seq(S) /\ Len(rest) = 3 - 1 /\ \A i \in 1..Len(rest) : rest[i] = id[i + 1]
      BY <3>1, <3>2, <3>3
    <3>5. Len(rest) = 2
      BY <3>4
    <3> QED BY <3>4, <3>5
  <2> HIDE DEF rest
  <2>4. rest \in Seq(Nat)
    <3>1. rest[1] = e[1] /\ rest[2] = Albums
      BY <1>4, <2>3
    <3>2. rest = [i \in 1..2 |-> rest[i]]
      BY <2>3, LenProperties
    <3>3. \A i \in 1..2 : i = 1 \/ i = 2
      OBVIOUS
    <3>4. rest \in [1..2 -> Nat]
      BY <1>1, <3>1, <3>2, <3>3 DEF Albums
    <3> QED BY <3>4, FunctionIs
  <2>5. \A i \in 1..Len(e) : e[i] = rest[i]
    <3>1. rest[1] = id[1 + 1]
      BY <2>3
    <3> QED BY <1>4, <3>1
  <2>6. SubSeq(rest, 1, Len(e)) = e
    BY <2>3, <2>4, <2>5, PrefixIs
  <2> QED BY <2>3, <2>6 DEF Front
<1>7. ~ (Len(id) = 1 /\ Head(id) \in Fixed)
  BY <1>4
<1>8. Len(id) > 2 /\ Head(id) = "artist" /\ Last(id) = Albums
  BY <1>4, <1>5
<1>9. ParseObjectId(id) = ObjectId("artist_albums", Front(Tail(id)))
  BY <1>7, <1>8, Zenon DEF ParseObjectId
<1> QED BY <1>6, <1>9 DEF id

LEMMA ObjectIdIs ==
  ASSUME NEW kind, NEW e
  PROVE  ObjectId(kind, e).kind = kind /\ ObjectId(kind, e).entity = e
BY DEF ObjectId

LEMMA NotEmptyIs ==
  ASSUME NEW s, Len(s) # 0
  PROVE  s # <<>>
<1>1. Len(<<>>) = 0
  OBVIOUS
<1> QED BY <1>1, Zenon

\* The ids of the rows nest as those of the files they come from.
LEMMA RowsNest ==
  ASSUME LibraryInv
  PROVE  /\ \A a \in DOMAIN artists : a \in Seq(Nat) /\ Len(a) = 1 /\ AlbumsOfArtist(a) # {}
         /\ \A a \in DOMAIN albums : /\ a \in Seq(Nat) /\ a # <<>>
                                     /\ ArtistOf(a) \in DOMAIN artists /\ a \in AlbumsOfArtist(ArtistOf(a))
         /\ \A t \in DOMAIN tracks : /\ t \in Seq(Nat) /\ t # <<>>
                                     /\ AlbumOf(t) \in DOMAIN albums /\ t \in TracksOfAlbum(AlbumOf(t))
<1>1. ASSUME NEW a \in DOMAIN artists
      PROVE  a \in Seq(Nat) /\ Len(a) = 1 /\ AlbumsOfArtist(a) # {}
  <2>1. PICK f \in Files : a = ArtistId(f)
    BY DEF LibraryInv
  <2>2. AlbumId(f) \in DOMAIN albums /\ ArtistOf(AlbumId(f)) = a
    BY <2>1, IdsNest DEF LibraryInv
  <2> QED BY <2>1, <2>2, IdsAre DEF AlbumsOfArtist
<1>2. ASSUME NEW a \in DOMAIN albums
      PROVE  /\ a \in Seq(Nat) /\ a # <<>>
             /\ ArtistOf(a) \in DOMAIN artists /\ a \in AlbumsOfArtist(ArtistOf(a))
  <2>1. PICK f \in Files : a = AlbumId(f)
    BY DEF LibraryInv
  <2>2. a \in Seq(Nat) /\ Len(a) = 2
    BY <2>1, IdsAre
  <2>4. a # <<>>
    BY <2>2, NotEmptyIs
  <2>3. ArtistOf(a) \in DOMAIN artists
    BY <2>1, IdsNest DEF LibraryInv
  <2> QED BY <2>2, <2>3, <2>4 DEF AlbumsOfArtist
<1>3. ASSUME NEW t \in DOMAIN tracks
      PROVE  /\ t \in Seq(Nat) /\ t # <<>>
             /\ AlbumOf(t) \in DOMAIN albums /\ t \in TracksOfAlbum(AlbumOf(t))
  <2>1. PICK f \in Files : t = TrackId(f)
    BY DEF LibraryInv
  <2>2. t \in Seq(Nat) /\ Len(t) = 3
    BY <2>1, IdsAre
  <2>4. t # <<>>
    BY <2>2, NotEmptyIs
  <2>3. AlbumOf(t) \in DOMAIN albums
    BY <2>1, IdsNest DEF LibraryInv
  <2> QED BY <2>2, <2>3, <2>4 DEF TracksOfAlbum
<1> QED BY <1>1, <1>2, <1>3

\* What every id that is handed out is read as.
LEMMA IdsAreRead ==
  ASSUME LibraryInv, <<>> \notin DOMAIN Playlists
  PROVE  /\ \A k \in Fixed : ParseObjectId(<<k>>) = ObjectId(k, <<>>)
         /\ \A a \in DOMAIN artists : /\ ParseObjectId(<<"artist">> \o a) = ObjectId("artist", a)
                                      /\ ParseObjectId(AlbumsId(a)) = ObjectId("artist_albums", a)
         /\ \A a \in DOMAIN albums : ParseObjectId(<<"album">> \o a) = ObjectId("album", a)
         /\ \A t \in DOMAIN tracks : ParseObjectId(<<"track">> \o t) = ObjectId("track", t)
         /\ \A p \in DOMAIN Playlists : ParseObjectId(<<"playlist">> \o p) = ObjectId("playlist", p)
<1>1. /\ "album" \in Kinds /\ "track" \in Kinds /\ "playlist" \in Kinds
      /\ "album" # "artist" /\ "track" # "artist" /\ "playlist" # "artist"
  BY DEF Kinds
<1>2. \A p \in DOMAIN Playlists : p \in Seq(Nat) /\ p # <<>>
  BY PlaylistsAssumption
<1>3. \A a \in DOMAIN albums : ParseObjectId(<<"album">> \o a) = ObjectId("album", a)
  BY <1>1, RowsNest, EntityIsRead
<1>4. \A t \in DOMAIN tracks : ParseObjectId(<<"track">> \o t) = ObjectId("track", t)
  BY <1>1, RowsNest, EntityIsRead
<1>5. \A p \in DOMAIN Playlists : ParseObjectId(<<"playlist">> \o p) = ObjectId("playlist", p)
  BY <1>1, <1>2, EntityIsRead
<1>6. \A a \in DOMAIN artists : /\ ParseObjectId(<<"artist">> \o a) = ObjectId("artist", a)
                                /\ ParseObjectId(AlbumsId(a)) = ObjectId("artist_albums", a)
  BY RowsNest, ArtistIsRead, AlbumsIdIsRead
<1> QED BY <1>3, <1>4, <1>5, <1>6, FixedIsRead

LEMMA KnownIsFound ==
  ASSUME LibraryInv, <<>> \notin DOMAIN Playlists, NEW id \in KnownIds
  PROVE  Found(ParseObjectId(id))
<1>1. ASSUME NEW k \in Fixed PROVE Found(ParseObjectId(<<k>>))
  <2>1. ParseObjectId(<<k>>) = ObjectId(k, <<>>)
    BY IdsAreRead
  <2> QED BY <2>1, ObjectIdIs DEF Found
<1>2. ASSUME NEW a \in DOMAIN artists PROVE Found(ParseObjectId(<<"artist">> \o a)) /\ Found(ParseObjectId(AlbumsId(a)))
  <2>1. ParseObjectId(<<"artist">> \o a) = ObjectId("artist", a)
    BY IdsAreRead
  <2>2. ParseObjectId(AlbumsId(a)) = ObjectId("artist_albums", a)
    BY IdsAreRead
  <2> QED BY <2>1, <2>2, ObjectIdIs DEF Found
<1>3. ASSUME NEW a \in DOMAIN albums PROVE Found(ParseObjectId(<<"album">> \o a))
  <2>1. ParseObjectId(<<"album">> \o a) = ObjectId("album", a)
    BY IdsAreRead
  <2> QED BY <2>1, ObjectIdIs DEF Found
<1>4. ASSUME NEW t \in DOMAIN tracks PROVE Found(ParseObjectId(<<"track">> \o t))
  <2>1. ParseObjectId(<<"track">> \o t) = ObjectId("track", t)
    BY IdsAreRead
  <2> QED BY <2>1, ObjectIdIs DEF Found
<1>5. ASSUME NEW p \in DOMAIN Playlists PROVE Found(ParseObjectId(<<"playlist">> \o p))
  <2>1. ParseObjectId(<<"playlist">> \o p) = ObjectId("playlist", p)
    BY IdsAreRead
  <2> QED BY <2>1, ObjectIdIs DEF Found
<1> QED BY <1>1, <1>2, <1>3, <1>4, <1>5 DEF KnownIds

\* What is there is listed without a fault.
LEMMA FoundAnswers ==
  ASSUME NEW o, Found(o), NEW page, NEW profile
  PROVE  DirectChildren(o, page, profile).fault = 0 /\ o.kind # "none"
<1>0. /\ \A objects : All(objects).fault = 0
      /\ \A object : Listing(object, page).fault = 0
      /\ \A p : PlaylistChildren(p, page, profile).fault = 0
      /\ [All(<<>>) EXCEPT !.updateId = 0].fault = 0
  BY DEF All, Listing, PlaylistChildren, Result
<1>1. CASE o.kind = "0"
  BY <1>0, <1>1 DEF DirectChildren
<1>2. CASE o.kind = "1"
  BY <1>0, <1>2 DEF DirectChildren
<1>3. CASE o.kind = "artists"
  BY <1>0, <1>3 DEF DirectChildren
<1>4. CASE o.kind = "tracks"
  BY <1>0, <1>4 DEF DirectChildren
<1>5. CASE o.kind = "playlists"
  BY <1>0, <1>5 DEF DirectChildren
<1>6. CASE o.kind = "artist" /\ o.entity \in DOMAIN artists
  BY <1>0, <1>6 DEF DirectChildren
<1>7. CASE o.kind = "artist_albums" /\ o.entity \in DOMAIN artists
  BY <1>0, <1>7 DEF DirectChildren
<1>8. CASE o.kind = "album" /\ o.entity \in DOMAIN albums
  BY <1>0, <1>8 DEF DirectChildren
<1>9. CASE o.kind = "playlist" /\ o.entity \in DOMAIN Playlists
  BY <1>0, <1>9 DEF DirectChildren
<1>10. CASE o.kind = "track"
  BY <1>0, <1>10 DEF DirectChildren
<1> QED BY <1>1, <1>2, <1>3, <1>4, <1>5, <1>6, <1>7, <1>8, <1>9, <1>10 DEF Found, Fixed

\* What can be shown: the fixed containers, the root and Playlists by themselves, a
\* row's container, or a track under its album or a playlist that holds it.
Holding(p, t) == \E k \in 1..Len(Playlists[p]) : Playlists[p][k] = t

RootAlone == Container(<<"0">>, <<"-1">>, 1)
PlaylistsAlone == Container(<<"playlists">>, <<"1">>, Cardinality(DOMAIN Playlists))

Node(object) ==
  \/ object = RootAlone \/ object = PlaylistsAlone
  \/ object \in {Music, Container(<<"playlists">>, <<"0">>, Absent), Artists, AllTracks}
  \/ \E a \in DOMAIN artists : object = Artist(a) \/ object = ArtistAlbums(a)
  \/ \E a \in DOMAIN albums : object = Album(a)
  \/ \E p \in DOMAIN Playlists : object = Playlist(p)
  \/ /\ IsItem(object)
     /\ \E t \in DOMAIN tracks :
          /\ object.id = <<"track">> \o t
          /\ \/ object.parent = <<"album">> \o AlbumOf(t)
             \/ \E p \in DOMAIN Playlists : object.parent = <<"playlist">> \o p /\ Holding(p, t)

LEMMA TracksAreNodes ==
  ASSUME NEW t \in DOMAIN tracks, NEW profile
  PROVE  Node(TrackItem(t, profile))
<1> DEFINE object == TrackItem(t, profile)
           parent == <<"album">> \o AlbumOf(t)
<1>0. object = Item(t, parent, profile)
  BY DEF TrackItem
<1> HIDE DEF object, parent
<1>1. object.id = <<"track">> \o t /\ object.parent = <<"album">> \o AlbumOf(t) /\ IsItem(object)
  BY <1>0, ItemIs DEF parent
<1>2. Node(object)
  BY <1>1 DEF Node
<1> QED BY <1>2 DEF object

\* The rows a listing is made of are all it shows.
LEMMA ListingShows ==
  ASSUME NEW kind, NEW object, DOMAIN object \in SUBSET Seq(Nat), IsFiniteSet(DOMAIN object),
         \A x \in DOMAIN object : object[x].id = <<kind>> \o x,
         NEW page, page.start \in Nat, page.count \in Nat, NEW o,
         ChildIds(o) = Under(kind, DOMAIN object), page.start <= Len(ChildIds(o)),
         \A x \in DOMAIN object : Node(object[x])
  PROVE  \A i \in 1..Len(Listing(object, page).objects) : Node(Listing(object, page).objects[i])
<1> DEFINE reply == Listing(object, page)
           all == ChildIds(o)
<1>0. all = ListedIds(object)
  BY UnderIs
<1>1. \A i \in 1..Len(reply.objects) : \E x \in DOMAIN object : reply.objects[i] = object[x]
  <2> HIDE DEF reply
  <2>1. page.start <= Len(all)
    OBVIOUS
  <2> HIDE DEF all
  <2> QED BY <1>0, <2>1, ListingIs DEF reply
<1> HIDE DEF reply, all
<1>2. \A i \in 1..Len(reply.objects) : Node(reply.objects[i])
  BY <1>1
<1> QED BY <1>2 DEF reply

LEMMA PlaylistShows ==
  ASSUME LibraryInv, NEW p \in DOMAIN Playlists, NEW page, page.start \in Nat, page.count \in Nat,
         NEW o, NEW profile, o.kind = "playlist", o.entity = p, page.start <= Len(ChildIds(o))
  PROVE  \A i \in 1..Len(PlaylistChildren(p, page, profile).objects) :
           Node(PlaylistChildren(p, page, profile).objects[i])
<1> DEFINE reply == PlaylistChildren(p, page, profile)
           objects == reply.objects
           s == Playlists[p]
           n == Len(s)
           parent == <<"playlist">> \o p
           all == ChildIds(o)
<1>1. Answers(reply, o, page.start, profile)
  BY PlaylistPageIs
<1>2. /\ IsSeq(objects) /\ page.start + Len(objects) <= Len(all)
      /\ \A i \in 1..Len(objects) : objects[i].id = all[page.start + i] /\ Listed(objects[i], profile)
  BY <1>1 DEF Answers, IsPage
<1>3. n \in Nat /\ DOMAIN s = 1..n /\ \A i \in 1..n : s[i] \in DOMAIN tracks
  <2>1. s \in Seq({TrackId(f) : f \in Files})
    BY PlaylistsAssumption
  <2> QED BY <2>1, SeqsAre, ElementOfSeq DEF LibraryInv
<1>4. Len(all) = n /\ \A i \in 1..n : all[i] = <<"track">> \o s[i]
  <2>1. all = [i \in 1..n |-> <<"track">> \o s[i]]
    BY <1>3, ChildIdsAre
  <2>2. all = [i \in 1..n |-> all[i]] /\ \A i \in 1..n : all[i] = <<"track">> \o s[i]
    BY <2>1
  <2> HIDE DEF all, n
  <2> QED BY <1>3, <2>2, ListIs
<1>5. \A i \in DOMAIN objects : IsItem(objects[i]) /\ objects[i].parent = parent
  <2> DEFINE rest == SubSeq(Playlists[p], page.start + 1, Len(Playlists[p]))
             some == IF page.count = 0 THEN rest ELSE SubSeq(rest, 1, LeastOf(page.count, Len(rest)))
  <2>1. objects = [i \in DOMAIN some |-> Item(some[i], parent, profile)]
    BY DEF PlaylistChildren, Result
  <2> HIDE DEF some, parent, objects
  <2>2. \A i \in DOMAIN objects : objects[i] = Item(some[i], parent, profile)
    BY <2>1
  <2> QED BY <2>2, ItemIs
<1> HIDE DEF reply, s, n, parent, all
<1>6. DOMAIN objects = 1..Len(objects) /\ Len(objects) \in Nat
  <2> HIDE DEF objects
  <2> QED BY <1>2, ListIs DEF IsSeq
<1>7. ASSUME NEW i \in 1..Len(objects) PROVE Node(objects[i])
  <2> DEFINE k == page.start + i
  <2>1. k \in 1..n
    BY <1>2, <1>3, <1>4, <1>6
  <2>2. objects[i].id = <<"track">> \o s[k] /\ s[k] \in DOMAIN tracks
    BY <1>2, <1>3, <1>4, <2>1
  <2>3. Holding(p, s[k])
    BY <2>1 DEF Holding, s, n
  <2>4. IsItem(objects[i]) /\ objects[i].parent = <<"playlist">> \o p
    BY <1>5, <1>6 DEF parent
  <2> HIDE DEF k, objects
  <2> QED BY <2>2, <2>3, <2>4 DEF Node
<1> QED BY <1>7 DEF reply

\* What a page shows are objects of the tree.
LEMMA PagesShowNodes ==
  ASSUME LibraryInv, NEW o, NEW page, page.start \in Nat, page.count \in Nat, NEW profile,
         DirectChildren(o, page, profile).fault = 0, page.start <= Len(ChildIds(o))
  PROVE  \A i \in 1..Len(DirectChildren(o, page, profile).objects) :
           Node(DirectChildren(o, page, profile).objects[i])
<1> DEFINE reply == DirectChildren(o, page, profile)
           e == o.entity
           Shown == \A i \in 1..Len(reply.objects) : Node(reply.objects[i])
<1>0. \A x, y : /\ All(<<x>>).objects = <<x>> /\ All(<<x, y>>).objects = <<x, y>>
                /\ Len(<<x>>) = 1 /\ Len(<<x, y>>) = 2
  BY DEF All, Result
<1>1. CASE o.kind = "0"
  <2>1. reply = All(<<Music, Container(<<"playlists">>, <<"0">>, Absent)>>)
    BY <1>1 DEF DirectChildren
  <2>2. Node(Music) /\ Node(Container(<<"playlists">>, <<"0">>, Absent))
    BY DEF Node
  <2> QED BY <1>0, <2>1, <2>2
<1>2. CASE o.kind = "1"
  <2>1. reply = All(<<Artists, AllTracks>>)
    BY <1>2 DEF DirectChildren
  <2>2. Node(Artists) /\ Node(AllTracks)
    BY DEF Node
  <2> QED BY <1>0, <2>1, <2>2
<1>3. CASE o.kind = "artist" /\ e \in DOMAIN artists
  <2>1. reply = All(<<ArtistAlbums(e)>>)
    BY <1>3 DEF DirectChildren
  <2>2. Node(ArtistAlbums(e))
    BY <1>3 DEF Node
  <2> QED BY <1>0, <2>1, <2>2
<1>4. CASE o.kind = "artists"
  <2> DEFINE object == [a \in DOMAIN artists |-> Artist(a)]
  <2>1. reply = Listing(object, page) /\ ChildIds(o) = Under("artist", DOMAIN object)
    BY <1>4, ChildIdsAre DEF DirectChildren
  <2>2. DOMAIN object \in SUBSET Seq(Nat) /\ IsFiniteSet(DOMAIN object)
    BY TablesAreFew
  <2>3. \A x \in DOMAIN object : object[x].id = <<"artist">> \o x
    BY ContainerIs DEF Artist
  <2>4. \A x \in DOMAIN object : Node(object[x])
    BY DEF Node
  <2> HIDE DEF object, reply
  <2>5. \A i \in 1..Len(Listing(object, page).objects) : Node(Listing(object, page).objects[i])
    BY <2>1, <2>2, <2>3, <2>4, ListingShows
  <2> QED BY <2>1, <2>5 DEF reply
<1>5. CASE o.kind = "tracks"
  <2> DEFINE object == [t \in DOMAIN tracks |-> TrackItem(t, profile)]
  <2>1. reply = Listing(object, page) /\ ChildIds(o) = Under("track", DOMAIN object)
    BY <1>5, ChildIdsAre DEF DirectChildren
  <2>2. DOMAIN object \in SUBSET Seq(Nat) /\ IsFiniteSet(DOMAIN object)
    BY TablesAreFew
  <2>3. \A x \in DOMAIN object : object[x].id = <<"track">> \o x
    BY ItemIs DEF TrackItem
  <2>4. \A x \in DOMAIN object : Node(object[x])
    BY TracksAreNodes
  <2> HIDE DEF object, reply
  <2>5. \A i \in 1..Len(Listing(object, page).objects) : Node(Listing(object, page).objects[i])
    BY <2>1, <2>2, <2>3, <2>4, ListingShows
  <2> QED BY <2>1, <2>5 DEF reply
<1>6. CASE o.kind = "playlists"
  <2> DEFINE object == [p \in DOMAIN Playlists |-> Playlist(p)]
  <2>1. reply = Listing(object, page) /\ ChildIds(o) = Under("playlist", DOMAIN object)
    BY <1>6, ChildIdsAre DEF DirectChildren
  <2>2. DOMAIN object \in SUBSET Seq(Nat) /\ IsFiniteSet(DOMAIN object)
    BY PlaylistsAssumption
  <2>3. \A x \in DOMAIN object : object[x].id = <<"playlist">> \o x
    BY ContainerIs DEF Playlist
  <2>4. \A x \in DOMAIN object : Node(object[x])
    BY DEF Node
  <2> HIDE DEF object, reply
  <2>5. \A i \in 1..Len(Listing(object, page).objects) : Node(Listing(object, page).objects[i])
    BY <2>1, <2>2, <2>3, <2>4, ListingShows
  <2> QED BY <2>1, <2>5 DEF reply
<1>7. CASE o.kind = "artist_albums" /\ e \in DOMAIN artists
  <2> DEFINE object == [a \in AlbumsOfArtist(e) |-> Album(a)]
  <2>1. reply = Listing(object, page) /\ ChildIds(o) = Under("album", DOMAIN object)
    BY <1>7, ChildIdsAre DEF DirectChildren
  <2>2. DOMAIN object \in SUBSET Seq(Nat) /\ IsFiniteSet(DOMAIN object)
    BY AlbumsOfArtistAre
  <2>3. \A x \in DOMAIN object : object[x].id = <<"album">> \o x
    BY ContainerIs DEF Album
  <2>4. \A x \in DOMAIN object : Node(object[x])
    BY AlbumsOfArtistAre DEF Node
  <2> HIDE DEF object, reply
  <2>5. \A i \in 1..Len(Listing(object, page).objects) : Node(Listing(object, page).objects[i])
    BY <2>1, <2>2, <2>3, <2>4, ListingShows
  <2> QED BY <2>1, <2>5 DEF reply
<1>8. CASE o.kind = "album" /\ e \in DOMAIN albums
  <2> DEFINE object == [t \in TracksOfAlbum(e) |-> TrackItem(t, profile)]
  <2>1. reply = Listing(object, page) /\ ChildIds(o) = Under("track", DOMAIN object)
    BY <1>8, ChildIdsAre DEF DirectChildren
  <2>2. DOMAIN object \in SUBSET Seq(Nat) /\ IsFiniteSet(DOMAIN object)
    BY TracksOfAlbumAre
  <2>3. \A x \in DOMAIN object : object[x].id = <<"track">> \o x
    BY ItemIs DEF TrackItem
  <2>4. \A x \in DOMAIN object : Node(object[x])
    BY TracksOfAlbumAre, TracksAreNodes
  <2> HIDE DEF object, reply
  <2>5. \A i \in 1..Len(Listing(object, page).objects) : Node(Listing(object, page).objects[i])
    BY <2>1, <2>2, <2>3, <2>4, ListingShows
  <2> QED BY <2>1, <2>5 DEF reply
<1>9. CASE o.kind = "playlist" /\ e \in DOMAIN Playlists
  <2>1. reply = PlaylistChildren(e, page, profile)
    BY <1>9 DEF DirectChildren
  <2> QED BY <1>9, <2>1, PlaylistShows
<1>10. CASE o.kind = "track"
  <2>1. reply = [All(<<>>) EXCEPT !.updateId = 0]
    BY <1>10 DEF DirectChildren
  <2>2. reply.objects = <<>> /\ Len(<<>>) = 0
    <3> HIDE DEF reply
    <3> QED BY <2>1 DEF All, Result
  <2> HIDE DEF reply
  <2>3. \A i \in 1..Len(reply.objects) : Node(reply.objects[i])
    BY <2>2
  <2> QED BY <2>3 DEF reply
<1> QED BY <1>1, <1>2, <1>3, <1>4, <1>5, <1>6, <1>7, <1>8, <1>9, <1>10, ChildrenAre

\* So is what an object's own metadata shows.
LEMMA MetadataShowsNodes ==
  ASSUME NEW o, NEW profile
  PROVE  \A i \in 1..Len(Metadata(o, profile).objects) : Node(Metadata(o, profile).objects[i])
<1> DEFINE reply == Metadata(o, profile)
           e == o.entity
           Lone == reply = All(<<>>) \/ \E x : Node(x) /\ reply = All(<<x>>)
<1>1. Lone
  <2>1. CASE o.kind = "0"
    <3>1. reply = All(<<RootAlone>>) /\ Node(RootAlone)
      BY <2>1 DEF Metadata, Node, RootAlone
    <3> QED BY <3>1
  <2>2. CASE o.kind = "1"
    <3>1. reply = All(<<Music>>) /\ Node(Music)
      BY <2>2 DEF Metadata, Node
    <3> QED BY <3>1
  <2>3. CASE o.kind = "artists"
    <3>1. reply = All(<<Artists>>) /\ Node(Artists)
      BY <2>3 DEF Metadata, Node
    <3> QED BY <3>1
  <2>4. CASE o.kind = "tracks"
    <3>1. reply = All(<<AllTracks>>) /\ Node(AllTracks)
      BY <2>4 DEF Metadata, Node
    <3> QED BY <3>1
  <2>5. CASE o.kind = "playlists"
    <3>1. reply = All(<<PlaylistsAlone>>) /\ Node(PlaylistsAlone)
      BY <2>5 DEF Metadata, Node, PlaylistsAlone
    <3> QED BY <3>1
  <2>6. CASE o.kind = "artist" /\ e \in DOMAIN artists
    <3>1. reply = All(<<Artist(e)>>) /\ Node(Artist(e))
      BY <2>6 DEF Metadata, Node
    <3> QED BY <3>1
  <2>7. CASE o.kind = "artist_albums" /\ e \in DOMAIN artists
    <3>1. reply = All(<<ArtistAlbums(e)>>) /\ Node(ArtistAlbums(e))
      BY <2>7 DEF Metadata, Node
    <3> QED BY <3>1
  <2>8. CASE o.kind = "album" /\ e \in DOMAIN albums
    <3>1. reply = All(<<Album(e)>>) /\ Node(Album(e))
      BY <2>8 DEF Metadata, Node
    <3> QED BY <3>1
  <2>9. CASE o.kind = "playlist" /\ e \in DOMAIN Playlists
    <3>1. reply = All(<<Playlist(e)>>) /\ Node(Playlist(e))
      BY <2>9 DEF Metadata, Node
    <3> QED BY <3>1
  <2>10. CASE o.kind = "track" /\ e \in DOMAIN tracks
    <3>1. reply = All(<<TrackItem(e, profile)>>)
      BY <2>10 DEF Metadata
    <3>2. Node(TrackItem(e, profile))
      BY <2>10, TracksAreNodes
    <3> QED BY <3>1, <3>2
  <2>11. CASE /\ o.kind \notin {"0", "1", "artists", "tracks", "playlists"}
              /\ o.kind = "artist" => e \notin DOMAIN artists
              /\ o.kind = "artist_albums" => e \notin DOMAIN artists
              /\ o.kind = "album" => e \notin DOMAIN albums
              /\ o.kind = "playlist" => e \notin DOMAIN Playlists
              /\ o.kind = "track" => e \notin DOMAIN tracks
    <3>1. reply = All(<<>>)
      BY <2>11 DEF Metadata
    <3> QED BY <3>1
  <2> HIDE DEF reply, e
  <2> QED BY <2>1, <2>2, <2>3, <2>4, <2>5, <2>6, <2>7, <2>8, <2>9, <2>10, <2>11
<1> HIDE DEF reply
<1>2. \A i \in 1..Len(reply.objects) : Node(reply.objects[i])
  <2>1. CASE reply = All(<<>>)
    <3>1. reply.objects = <<>> /\ Len(<<>>) = 0
      BY <2>1 DEF All, Result
    <3> QED BY <3>1
  <2>2. CASE \E x : Node(x) /\ reply = All(<<x>>)
    <3>1. PICK x : Node(x) /\ reply = All(<<x>>)
      BY <2>2
    <3>2. reply.objects = <<x>> /\ Len(<<x>>) = 1 /\ <<x>>[1] = x
      BY <3>1 DEF All, Result
    <3> QED BY <3>1, <3>2
  <2> QED BY <1>1, <2>1, <2>2
<1> QED BY <1>2 DEF reply

LEMMA FieldsAre ==
  ASSUME NEW id, NEW parent, NEW count
  PROVE  LET c == Container(id, parent, count) IN
         c.id = id /\ c.parent = parent /\ c.count = count /\ ~ IsItem(c)
BY DEF Container, IsItem

\* A row of a table has its place among the ids that are made of it.
LEMMA UnderHas ==
  ASSUME NEW kind, NEW S \in SUBSET Seq(Nat), IsFiniteSet(S), NEW a \in S
  PROVE  \E k \in 1..Len(Under(kind, S)) : Under(kind, S)[k] = <<kind>> \o a
<1>1. PICK k \in 1..Cardinality(S) : Sorted(S)[k] = a
  BY SortedLists
<1>2. /\ Len(Under(kind, S)) = Cardinality(S)
      /\ \A i \in 1..Cardinality(S) : Under(kind, S)[i] = <<kind>> \o Sorted(S)[i]
  BY UnderIsSeq
<1> QED BY <1>1, <1>2

\* How many children a container says it has, and the ids on the page from s on.
NumberOf(o, profile) == DirectChildren(o, [start |-> 0, count |-> 1], profile).total
IdsFrom(o, s, profile) ==
  {DirectChildren(o, [start |-> s, count |-> 0], profile).objects[n].id :
     n \in DOMAIN DirectChildren(o, [start |-> s, count |-> 0], profile).objects}

\* What a container holds can be found by asking it, one page at a time.
LEMMA IsListed ==
  ASSUME LibraryInv, NEW o, Found(o), NEW profile, NEW k \in 1..Len(ChildIds(o))
  PROVE  \E s \in 0..(NumberOf(o, profile) - 1) : ChildIds(o)[k] \in IdsFrom(o, s, profile)
<1> DEFINE first == [start |-> 0, count |-> 1]
           Page(s) == [start |-> s, count |-> 0]
           all == ChildIds(o)
           s == IF o.kind \in Paged THEN k - 1 ELSE 0
           page == Page(s)
           reply == DirectChildren(o, page, profile)
           objects == reply.objects
<1>1. /\ DirectChildren(o, first, profile).fault = 0
      /\ DirectChildren(o, page, profile).fault = 0
  BY FoundAnswers
<1>2. Len(all) \in Nat
  BY <1>1, ChildrenAreAList
<1>3. first.start = 0 /\ first.count = 1 /\ page.start = s /\ page.count = 0
  OBVIOUS
<1>4. s \in 0..(Len(all) - 1) /\ s <= Len(all)
  BY <1>2
<1>5. o.kind \in Paged \/ s = 0
  OBVIOUS
<1>6. o.kind \in Paged => s + 1 = k
  BY <1>2
<1>7. o.kind \notin Paged => s + k = k
  BY <1>2
<1> HIDE DEF first, s
<1>8. DirectChildren(o, first, profile).total = Len(all)
  BY <1>1, <1>2, <1>3, PageIs DEF Answers, IsPage
<1> HIDE DEF page
<1>9. Answers(reply, o, s, profile)
  BY <1>1, <1>3, <1>4, <1>5, PageIs
<1>10. /\ IsSeq(objects) /\ reply.total = Len(all)
       /\ s < Len(all) => Len(objects) # 0
       /\ \A i \in 1..Len(objects) : objects[i].id = all[s + i]
       /\ o.kind \notin Paged => Len(objects) = Len(all)
  BY <1>9 DEF Answers, IsPage
<1> HIDE DEF objects, all
<1>11. DOMAIN objects = 1..Len(objects) /\ Len(objects) \in Nat
  BY <1>10, ListIs DEF IsSeq
<1>12. \E n \in DOMAIN objects : objects[n].id = all[k]
  <2>1. CASE o.kind \in Paged
    <3>1. 1 \in DOMAIN objects
      BY <1>2, <1>4, <1>10, <1>11
    <3>2. objects[1].id = all[k]
      BY <1>6, <1>10, <1>11, <2>1, <3>1
    <3> QED BY <3>1, <3>2
  <2>2. CASE o.kind \notin Paged
    <3>1. k \in 1..Len(all)
      BY DEF all
    <3>2. k \in DOMAIN objects
      BY <1>10, <1>11, <2>2, <3>1
    <3>3. objects[k].id = all[k]
      BY <1>7, <1>10, <1>11, <2>2, <3>2
    <3> QED BY <3>2, <3>3
  <2> QED BY <2>1, <2>2
<1>13. all[k] \in {objects[n].id : n \in DOMAIN objects}
  BY <1>12
<1>14. s \in 0..(NumberOf(o, profile) - 1)
  BY <1>4, <1>8 DEF all, first, NumberOf
<1>15. all[k] \in IdsFrom(o, s, profile)
  BY <1>13 DEF objects, page, IdsFrom
<1> QED BY <1>14, <1>15 DEF all

\* What the containers are called, where they hang and how many children they say.
LEMMA ContainersAre ==
  /\ Music.id = <<"1">> /\ Music.parent = <<"0">> /\ Music.count = Absent /\ ~ IsItem(Music)
  /\ LET c == Container(<<"playlists">>, <<"0">>, Absent) IN
     c.id = <<"playlists">> /\ c.parent = <<"0">> /\ c.count = Absent /\ ~ IsItem(c)
  /\ /\ Artists.id = <<"artists">> /\ Artists.parent = <<"1">>
     /\ Artists.count = Cardinality(DOMAIN artists) /\ ~ IsItem(Artists)
  /\ /\ AllTracks.id = <<"tracks">> /\ AllTracks.parent = <<"1">>
     /\ AllTracks.count = Cardinality(DOMAIN tracks) /\ ~ IsItem(AllTracks)
  /\ \A a : /\ Artist(a).id = <<"artist">> \o a /\ Artist(a).parent = <<"artists">>
            /\ Artist(a).count = Cardinality(AlbumsOfArtist(a)) /\ ~ IsItem(Artist(a))
  /\ \A a : /\ ArtistAlbums(a).id = AlbumsId(a) /\ ArtistAlbums(a).parent = <<"artist">> \o a
            /\ ArtistAlbums(a).count = Cardinality(AlbumsOfArtist(a)) /\ ~ IsItem(ArtistAlbums(a))
  /\ \A a : /\ Album(a).id = <<"album">> \o a /\ Album(a).parent = AlbumsId(ArtistOf(a))
            /\ Album(a).count = Cardinality(TracksOfAlbum(a)) /\ ~ IsItem(Album(a))
  /\ \A p : /\ Playlist(p).id = <<"playlist">> \o p /\ Playlist(p).parent = <<"playlists">>
            /\ Playlist(p).count = Len(Playlists[p]) /\ ~ IsItem(Playlist(p))
<1>1. /\ Music.id = <<"1">> /\ Music.parent = <<"0">> /\ Music.count = Absent /\ ~ IsItem(Music)
  BY FieldsAre DEF Music
<1>2. LET c == Container(<<"playlists">>, <<"0">>, Absent) IN
      c.id = <<"playlists">> /\ c.parent = <<"0">> /\ c.count = Absent /\ ~ IsItem(c)
  BY FieldsAre
<1>3. /\ Artists.id = <<"artists">> /\ Artists.parent = <<"1">>
      /\ Artists.count = Cardinality(DOMAIN artists) /\ ~ IsItem(Artists)
  BY FieldsAre DEF Artists
<1>4. /\ AllTracks.id = <<"tracks">> /\ AllTracks.parent = <<"1">>
      /\ AllTracks.count = Cardinality(DOMAIN tracks) /\ ~ IsItem(AllTracks)
  BY FieldsAre DEF AllTracks
<1>5. ASSUME NEW a
      PROVE  /\ Artist(a).id = <<"artist">> \o a /\ Artist(a).parent = <<"artists">>
             /\ Artist(a).count = Cardinality(AlbumsOfArtist(a)) /\ ~ IsItem(Artist(a))
  <2> DEFINE id == <<"artist">> \o a
             parent == <<"artists">>
             count == Cardinality(AlbumsOfArtist(a))
  <2>1. Artist(a) = Container(id, parent, count)
    BY DEF Artist
  <2> HIDE DEF id, parent, count
  <2>2. Artist(a).id = id /\ Artist(a).parent = parent /\ Artist(a).count = count /\ ~ IsItem(Artist(a))
    BY <2>1, FieldsAre
  <2> QED BY <2>2 DEF id, parent, count
<1>6. ASSUME NEW a
      PROVE  /\ ArtistAlbums(a).id = AlbumsId(a) /\ ArtistAlbums(a).parent = <<"artist">> \o a
             /\ ArtistAlbums(a).count = Cardinality(AlbumsOfArtist(a)) /\ ~ IsItem(ArtistAlbums(a))
  <2> DEFINE id == AlbumsId(a)
             parent == <<"artist">> \o a
             count == Cardinality(AlbumsOfArtist(a))
  <2>1. ArtistAlbums(a) = Container(id, parent, count)
    BY DEF ArtistAlbums
  <2> HIDE DEF id, parent, count
  <2>2. ArtistAlbums(a).id = id /\ ArtistAlbums(a).parent = parent /\ ArtistAlbums(a).count = count /\ ~ IsItem(ArtistAlbums(a))
    BY <2>1, FieldsAre
  <2> QED BY <2>2 DEF id, parent, count
<1>7. ASSUME NEW a
      PROVE  /\ Album(a).id = <<"album">> \o a /\ Album(a).parent = AlbumsId(ArtistOf(a))
             /\ Album(a).count = Cardinality(TracksOfAlbum(a)) /\ ~ IsItem(Album(a))
  <2> DEFINE id == <<"album">> \o a
             parent == AlbumsId(ArtistOf(a))
             count == Cardinality(TracksOfAlbum(a))
  <2>1. Album(a) = Container(id, parent, count)
    BY DEF Album
  <2> HIDE DEF id, parent, count
  <2>2. Album(a).id = id /\ Album(a).parent = parent /\ Album(a).count = count /\ ~ IsItem(Album(a))
    BY <2>1, FieldsAre
  <2> QED BY <2>2 DEF id, parent, count
<1>8. ASSUME NEW p
      PROVE  /\ Playlist(p).id = <<"playlist">> \o p /\ Playlist(p).parent = <<"playlists">>
             /\ Playlist(p).count = Len(Playlists[p]) /\ ~ IsItem(Playlist(p))
  <2> DEFINE id == <<"playlist">> \o p
             parent == <<"playlists">>
             count == Len(Playlists[p])
  <2>1. Playlist(p) = Container(id, parent, count)
    BY DEF Playlist
  <2> HIDE DEF id, parent, count
  <2>2. Playlist(p).id = id /\ Playlist(p).parent = parent /\ Playlist(p).count = count /\ ~ IsItem(Playlist(p))
    BY <2>1, FieldsAre
  <2> QED BY <2>2 DEF id, parent, count
<1> QED BY <1>1, <1>2, <1>3, <1>4, <1>5, <1>6, <1>7, <1>8

\* Only the Playlists folder has another home than its parent: what is read as
\* something else is not called so.
LEMMA HomesAre ==
  ASSUME NEW object, ParseObjectId(object.id).kind # "playlists"
  PROVE  HomeOf(object) = object.parent
<1>1. "playlists" \in Fixed
  BY DEF Fixed
<1>2. ParseObjectId(<<"playlists">>) = ObjectId("playlists", <<>>)
  BY <1>1, FixedIsRead
<1>3. object.id # <<"playlists">>
  BY <1>2, ObjectIdIs
<1> QED BY <1>3 DEF HomeOf

\* What the root and the Playlists folder say of themselves.
LEMMA AloneAre ==
  /\ RootAlone.id = <<"0">> /\ RootAlone.count = 1 /\ ~ IsItem(RootAlone)
  /\ PlaylistsAlone.id = <<"playlists">> /\ ~ IsItem(PlaylistsAlone)
  /\ PlaylistsAlone.count = Cardinality(DOMAIN Playlists)
BY FieldsAre DEF RootAlone, PlaylistsAlone

\* Whatever is shown, but the root, is a child of what it hangs under, which is there.
LEMMA NodesHaveHomes ==
  ASSUME LibraryInv, <<>> \notin DOMAIN Playlists, NEW object, Node(object), object.id # <<"0">>
  PROVE  LET o == ParseObjectId(HomeOf(object)) IN
         Found(o) /\ \E k \in 1..Len(ChildIds(o)) : ChildIds(o)[k] = object.id
<1> DEFINE home == HomeOf(object)
           o == ParseObjectId(home)
           Child == Found(o) /\ \E k \in 1..Len(ChildIds(o)) : ChildIds(o)[k] = object.id
<1>0. /\ "0" \in Fixed /\ "1" \in Fixed /\ "artists" \in Fixed /\ "tracks" \in Fixed /\ "playlists" \in Fixed
  BY DEF Fixed
<1>1. \A x, y : /\ <<x>>[1] = x /\ Len(<<x>>) = 1
                /\ <<x, y>>[1] = x /\ <<x, y>>[2] = y /\ Len(<<x, y>>) = 2
  OBVIOUS
<1>2. ASSUME home = <<"0">>, object.id \in {<<"1">>, <<"playlists">>}
      PROVE  Child
  <2>1. o = ObjectId("0", <<>>)
    BY <1>0, <1>2, IdsAreRead
  <2> HIDE DEF o
  <2>2. o.kind = "0"
    BY <2>1, ObjectIdIs
  <2>3. ChildIds(o) = <<<<"1">>, <<"playlists">>>>
    BY <2>2, ChildIdsAre
  <2> QED BY <1>0, <1>1, <1>2, <2>2, <2>3 DEF Found
<1>3. ASSUME home = <<"1">>, object.id \in {<<"artists">>, <<"tracks">>}
      PROVE  Child
  <2>1. o = ObjectId("1", <<>>)
    BY <1>0, <1>3, IdsAreRead
  <2> HIDE DEF o
  <2>2. o.kind = "1"
    BY <2>1, ObjectIdIs
  <2>3. ChildIds(o) = <<<<"artists">>, <<"tracks">>>>
    BY <2>2, ChildIdsAre
  <2> QED BY <1>0, <1>1, <1>3, <2>2, <2>3 DEF Found
<1>4. ASSUME NEW a \in DOMAIN artists, home = <<"artists">>, object.id = <<"artist">> \o a
      PROVE  Child
  <2>1. o = ObjectId("artists", <<>>)
    BY <1>0, <1>4, IdsAreRead
  <2> HIDE DEF o
  <2>2. o.kind = "artists"
    BY <2>1, ObjectIdIs
  <2>3. ChildIds(o) = Under("artist", DOMAIN artists)
    BY <2>2, ChildIdsAre
  <2>4. Found(o)
    BY <1>0, <2>2 DEF Found
  <2>5. DOMAIN artists \in SUBSET Seq(Nat) /\ IsFiniteSet(DOMAIN artists)
    BY TablesAreFew
  <2>6. a \in DOMAIN artists
    OBVIOUS
  <2>7. \E k \in 1..Len(ChildIds(o)) : ChildIds(o)[k] = <<"artist">> \o a
    BY ONLY <2>3, <2>5, <2>6, UnderHas
  <2> QED BY <1>4, <2>4, <2>7
<1>5. ASSUME NEW a \in DOMAIN artists, home = <<"artist">> \o a, object.id = AlbumsId(a)
      PROVE  Child
  <2>1. o = ObjectId("artist", a)
    BY <1>5, IdsAreRead
  <2> HIDE DEF o
  <2>2. o.kind = "artist" /\ o.entity = a
    BY <2>1, ObjectIdIs
  <2>3. ChildIds(o) = <<AlbumsId(a)>>
    BY <2>2, ChildIdsAre
  <2>4. Found(o)
    BY <2>2 DEF Found
  <2> QED BY <1>1, <1>5, <2>3, <2>4
<1>6. ASSUME NEW a \in DOMAIN albums, home = AlbumsId(ArtistOf(a)), object.id = <<"album">> \o a
      PROVE  Child
  <2> DEFINE b == ArtistOf(a)
  <2>0. b \in DOMAIN artists /\ a \in AlbumsOfArtist(b)
    BY RowsNest
  <2> HIDE DEF b
  <2>1. o = ObjectId("artist_albums", b)
    BY <1>6, <2>0, IdsAreRead DEF b
  <2> HIDE DEF o
  <2>2. o.kind = "artist_albums" /\ o.entity = b
    BY <2>1, ObjectIdIs
  <2>3. ChildIds(o) = Under("album", AlbumsOfArtist(b))
    BY <2>2, ChildIdsAre
  <2>4. Found(o)
    BY <2>0, <2>2 DEF Found
  <2>5. AlbumsOfArtist(b) \in SUBSET Seq(Nat) /\ IsFiniteSet(AlbumsOfArtist(b))
    BY AlbumsOfArtistAre
  <2>6. a \in AlbumsOfArtist(b)
    BY <2>0
  <2>7. \E k \in 1..Len(ChildIds(o)) : ChildIds(o)[k] = <<"album">> \o a
    BY ONLY <2>3, <2>5, <2>6, UnderHas
  <2> QED BY <1>6, <2>4, <2>7
<1>7. ASSUME NEW p \in DOMAIN Playlists, home = <<"playlists">>, object.id = <<"playlist">> \o p
      PROVE  Child
  <2>1. o = ObjectId("playlists", <<>>)
    BY <1>0, <1>7, IdsAreRead
  <2> HIDE DEF o
  <2>2. o.kind = "playlists"
    BY <2>1, ObjectIdIs
  <2>3. ChildIds(o) = Under("playlist", DOMAIN Playlists)
    BY <2>2, ChildIdsAre
  <2>4. Found(o)
    BY <1>0, <2>2 DEF Found
  <2>5. DOMAIN Playlists \in SUBSET Seq(Nat) /\ IsFiniteSet(DOMAIN Playlists)
    BY PlaylistsAssumption
  <2>6. p \in DOMAIN Playlists
    OBVIOUS
  <2>7. \E k \in 1..Len(ChildIds(o)) : ChildIds(o)[k] = <<"playlist">> \o p
    BY ONLY <2>3, <2>5, <2>6, UnderHas
  <2> QED BY <1>7, <2>4, <2>7
<1>8. ASSUME NEW t \in DOMAIN tracks, object.id = <<"track">> \o t, home = <<"album">> \o AlbumOf(t)
      PROVE  Child
  <2> DEFINE b == AlbumOf(t)
  <2>0. b \in DOMAIN albums /\ t \in TracksOfAlbum(b)
    BY RowsNest
  <2> HIDE DEF b
  <2>1. o = ObjectId("album", b)
    BY <1>8, <2>0, IdsAreRead DEF b
  <2> HIDE DEF o
  <2>2. o.kind = "album" /\ o.entity = b
    BY <2>1, ObjectIdIs
  <2>3. ChildIds(o) = Under("track", TracksOfAlbum(b))
    BY <2>2, ChildIdsAre
  <2>4. Found(o)
    BY <2>0, <2>2 DEF Found
  <2>5. TracksOfAlbum(b) \in SUBSET Seq(Nat) /\ IsFiniteSet(TracksOfAlbum(b))
    BY TracksOfAlbumAre
  <2>6. \E k \in 1..Len(ChildIds(o)) : ChildIds(o)[k] = <<"track">> \o t
    BY <2>0, <2>3, <2>5, UnderHas
  <2> QED BY <1>8, <2>4, <2>6
<1>9. ASSUME NEW t \in DOMAIN tracks, object.id = <<"track">> \o t,
             NEW p \in DOMAIN Playlists, home = <<"playlist">> \o p, Holding(p, t)
      PROVE  Child
  <2>1. o = ObjectId("playlist", p)
    BY <1>9, IdsAreRead
  <2> HIDE DEF o
  <2>2. o.kind = "playlist" /\ o.entity = p
    BY <2>1, ObjectIdIs
  <2> DEFINE s == Playlists[p]
             n == Len(s)
             all == ChildIds(o)
  <2>3. n \in Nat /\ DOMAIN s = 1..n
    <3>1. s \in Seq({TrackId(f) : f \in Files})
      BY PlaylistsAssumption
    <3> QED BY <3>1, SeqsAre
  <2>4. all = [i \in 1..n |-> <<"track">> \o s[i]]
    BY <2>2, <2>3, ChildIdsAre
  <2>5. all = [i \in 1..n |-> all[i]] /\ \A i \in 1..n : all[i] = <<"track">> \o s[i]
    BY <2>4
  <2>6. \E k \in 1..n : s[k] = t
    BY <1>9 DEF Holding
  <2>7. Found(o)
    BY <2>2 DEF Found
  <2> HIDE DEF all, n, s
  <2>8. Len(all) = n
    BY <2>3, <2>5, ListIs
  <2>9. \E k \in 1..Len(all) : all[k] = object.id
    BY <1>9, <2>5, <2>6, <2>8
  <2> QED BY <2>7, <2>9 DEF all
<1> SUFFICES Child
  OBVIOUS
<1> HIDE DEF Child, o, home
<1>10. ASSUME object.id = <<"playlists">> PROVE home = <<"0">>
  BY <1>10 DEF home, HomeOf
<1>11. ASSUME NEW kind, NEW e, ParseObjectId(object.id) = ObjectId(kind, e), kind # "playlists"
       PROVE  home = object.parent
  BY <1>11, ObjectIdIs, HomesAre DEF home
<1>12. CASE object = Music
  <2>1. object.id = <<"1">> /\ object.parent = <<"0">>
    BY <1>12, ContainersAre
  <2>2. ParseObjectId(object.id) = ObjectId("1", <<>>)
    BY <1>0, <2>1, FixedIsRead
  <2>3. home = object.parent
    BY <1>11, <2>2
  <2> QED BY <1>2, <2>1, <2>3
<1>13. CASE object = Container(<<"playlists">>, <<"0">>, Absent) \/ object = PlaylistsAlone
  <2>1. object.id = <<"playlists">>
    BY <1>13, ContainersAre, AloneAre
  <2> QED BY <1>2, <1>10, <2>1
<1>14. CASE object = Artists
  <2>1. object.id = <<"artists">> /\ object.parent = <<"1">>
    BY <1>14, ContainersAre
  <2>2. ParseObjectId(object.id) = ObjectId("artists", <<>>)
    BY <1>0, <2>1, FixedIsRead
  <2>3. home = object.parent
    BY <1>11, <2>2
  <2> QED BY <1>3, <2>1, <2>3
<1>15. CASE object = AllTracks
  <2>1. object.id = <<"tracks">> /\ object.parent = <<"1">>
    BY <1>15, ContainersAre
  <2>2. ParseObjectId(object.id) = ObjectId("tracks", <<>>)
    BY <1>0, <2>1, FixedIsRead
  <2>3. home = object.parent
    BY <1>11, <2>2
  <2> QED BY <1>3, <2>1, <2>3
<1>16. ASSUME NEW a \in DOMAIN artists, object = Artist(a) PROVE Child
  <2>1. object.id = <<"artist">> \o a /\ object.parent = <<"artists">>
    BY <1>16, ContainersAre
  <2>2. ParseObjectId(object.id) = ObjectId("artist", a)
    BY <2>1, IdsAreRead
  <2>3. home = object.parent
    BY <1>11, <2>2
  <2> QED BY <1>4, <2>1, <2>3
<1>17. ASSUME NEW a \in DOMAIN artists, object = ArtistAlbums(a) PROVE Child
  <2>1. object.id = AlbumsId(a) /\ object.parent = <<"artist">> \o a
    BY <1>17, ContainersAre
  <2>2. ParseObjectId(object.id) = ObjectId("artist_albums", a)
    BY <2>1, IdsAreRead
  <2>3. home = object.parent
    BY <1>11, <2>2
  <2> QED BY <1>5, <2>1, <2>3
<1>18. ASSUME NEW a \in DOMAIN albums, object = Album(a) PROVE Child
  <2>1. object.id = <<"album">> \o a /\ object.parent = AlbumsId(ArtistOf(a))
    BY <1>18, ContainersAre
  <2>2. ParseObjectId(object.id) = ObjectId("album", a)
    BY <2>1, IdsAreRead
  <2>3. home = object.parent
    BY <1>11, <2>2
  <2> QED BY <1>6, <2>1, <2>3
<1>19. ASSUME NEW p \in DOMAIN Playlists, object = Playlist(p) PROVE Child
  <2>1. object.id = <<"playlist">> \o p /\ object.parent = <<"playlists">>
    BY <1>19, ContainersAre
  <2>2. ParseObjectId(object.id) = ObjectId("playlist", p)
    BY <2>1, IdsAreRead
  <2>3. home = object.parent
    BY <1>11, <2>2
  <2> QED BY <1>7, <2>1, <2>3
<1>20. ASSUME NEW t \in DOMAIN tracks, object.id = <<"track">> \o t,
              \/ object.parent = <<"album">> \o AlbumOf(t)
              \/ \E p \in DOMAIN Playlists : object.parent = <<"playlist">> \o p /\ Holding(p, t)
       PROVE  Child
  <2>1. ParseObjectId(object.id) = ObjectId("track", t)
    BY <1>20, IdsAreRead
  <2>2. home = object.parent
    BY <1>11, <2>1
  <2> QED BY <1>8, <1>9, <1>20, <2>2
<1>21. object # RootAlone
  BY AloneAre
<1> QED BY <1>12, <1>13, <1>14, <1>15, <1>16, <1>17, <1>18, <1>19, <1>20, <1>21 DEF Node

\* What is shown is found under its id: there it is, alone, and a container has
\* as many children as it says.
Fits(object, profile) ==
  LET o == ParseObjectId(object.id) IN
  /\ Found(o)
  /\ \E x : x.id = object.id /\ Metadata(o, profile) = All(<<x>>)
  /\ ~ IsItem(object) /\ object.count # Absent =>
       IF o.kind \in Miscounted THEN object.count > 0 <=> Len(ChildIds(o)) > 0
       ELSE object.count = Len(ChildIds(o))

LEMMA NodesFit ==
  ASSUME LibraryInv, <<>> \notin DOMAIN Playlists, NEW object, Node(object), NEW profile
  PROVE  Fits(object, profile)
<1>0. /\ "0" \in Fixed /\ "1" \in Fixed /\ "artists" \in Fixed /\ "tracks" \in Fixed /\ "playlists" \in Fixed
  BY DEF Fixed
<1>1. CASE object = Music
  <2> DEFINE o == ParseObjectId(object.id)
             x == Music
  <2>0. object.id = <<"1">> /\ object.count = Absent
    BY <1>1, ContainersAre
  <2>1. o = ObjectId("1", <<>>)
    BY <1>0, <2>0, IdsAreRead
  <2> HIDE DEF o
  <2>2. o.kind = "1"
    BY <2>1, ObjectIdIs
  <2>3. Metadata(o, profile) = All(<<x>>)
    BY <2>2 DEF Metadata
  <2>4. x.id = <<"1">>
    BY ContainersAre
  <2> HIDE DEF x
  <2>5. Found(o)
    BY <1>0, <2>2 DEF Found
  <2> QED BY <2>0, <2>3, <2>4, <2>5 DEF Fits, o
<1>2. CASE object = Container(<<"playlists">>, <<"0">>, Absent)
  <2> DEFINE o == ParseObjectId(object.id)
             x == Container(<<"playlists">>, <<"1">>, Cardinality(DOMAIN Playlists))
  <2>0. object.id = <<"playlists">> /\ object.count = Absent
    BY <1>2, ContainersAre
  <2>1. o = ObjectId("playlists", <<>>)
    BY <1>0, <2>0, IdsAreRead
  <2> HIDE DEF o
  <2>2. o.kind = "playlists"
    BY <2>1, ObjectIdIs
  <2>3. Metadata(o, profile) = All(<<x>>)
    BY <2>2 DEF Metadata
  <2>4. x.id = <<"playlists">>
    BY DEF Container
  <2> HIDE DEF x
  <2>5. Found(o)
    BY <1>0, <2>2 DEF Found
  <2> QED BY <2>0, <2>3, <2>4, <2>5 DEF Fits, o
<1>3. CASE object = Artists
  <2> DEFINE o == ParseObjectId(object.id)
             x == Artists
  <2>0. object.id = <<"artists">> /\ object.count = Cardinality(DOMAIN artists)
    BY <1>3, ContainersAre
  <2>1. o = ObjectId("artists", <<>>)
    BY <1>0, <2>0, IdsAreRead
  <2> HIDE DEF o
  <2>2. o.kind = "artists"
    BY <2>1, ObjectIdIs
  <2>3. Metadata(o, profile) = All(<<x>>)
    BY <2>2 DEF Metadata
  <2>4. x.id = <<"artists">>
    BY ContainersAre
  <2> HIDE DEF x
  <2>5. Found(o)
    BY <1>0, <2>2 DEF Found
  <2>6. ChildIds(o) = Under("artist", DOMAIN artists)
    BY <2>2, ChildIdsAre
  <2>7. Len(ChildIds(o)) = object.count
    BY <2>0, <2>6, TablesAreFew, UnderIsSeq
  <2> QED BY <2>0, <2>2, <2>3, <2>4, <2>5, <2>7 DEF Fits, Miscounted, o
<1>4. CASE object = AllTracks
  <2> DEFINE o == ParseObjectId(object.id)
             x == AllTracks
  <2>0. object.id = <<"tracks">> /\ object.count = Cardinality(DOMAIN tracks)
    BY <1>4, ContainersAre
  <2>1. o = ObjectId("tracks", <<>>)
    BY <1>0, <2>0, IdsAreRead
  <2> HIDE DEF o
  <2>2. o.kind = "tracks"
    BY <2>1, ObjectIdIs
  <2>3. Metadata(o, profile) = All(<<x>>)
    BY <2>2 DEF Metadata
  <2>4. x.id = <<"tracks">>
    BY ContainersAre
  <2> HIDE DEF x
  <2>5. Found(o)
    BY <1>0, <2>2 DEF Found
  <2>6. ChildIds(o) = Under("track", DOMAIN tracks)
    BY <2>2, ChildIdsAre
  <2>7. Len(ChildIds(o)) = object.count
    BY <2>0, <2>6, TablesAreFew, UnderIsSeq
  <2> QED BY <2>0, <2>2, <2>3, <2>4, <2>5, <2>7 DEF Fits, Miscounted, o
<1>5. ASSUME NEW a \in DOMAIN artists, object = Artist(a)
      PROVE  Fits(object, profile)
  <2> DEFINE o == ParseObjectId(object.id)
             x == Artist(a)
  <2>0. x.id = <<"artist">> \o a /\ object = x /\ x.count = Cardinality(AlbumsOfArtist(a))
    BY <1>5, ContainersAre
  <2>1. o = ObjectId("artist", a)
    BY <2>0, IdsAreRead
  <2> HIDE DEF o
  <2>2. o.kind = "artist" /\ o.entity = a
    BY <2>1, ObjectIdIs
  <2>3. Metadata(o, profile) = All(<<x>>)
    BY <2>2 DEF Metadata
  <2> HIDE DEF x
  <2>5. Found(o)
    BY <2>2 DEF Found
  <2>6. ChildIds(o) = <<AlbumsId(a)>> /\ Len(<<AlbumsId(a)>>) = 1
    BY <2>2, ChildIdsAre
  <2>7. Cardinality(AlbumsOfArtist(a)) \in Nat /\ Cardinality(AlbumsOfArtist(a)) # 0
    BY RowsNest, AlbumsOfArtistAre, FS_CardinalityType, FS_EmptySet
  <2>8. x.count > 0 <=> Len(ChildIds(o)) > 0
    BY <2>0, <2>6, <2>7
  <2> QED BY <2>0, <2>2, <2>3, <2>5, <2>8 DEF Fits, Miscounted, o
<1>6. ASSUME NEW a \in DOMAIN artists, object = ArtistAlbums(a)
      PROVE  Fits(object, profile)
  <2> DEFINE o == ParseObjectId(object.id)
             x == ArtistAlbums(a)
  <2>0. x.id = AlbumsId(a) /\ object = x /\ x.count = Cardinality(AlbumsOfArtist(a))
    BY <1>6, ContainersAre
  <2>1. o = ObjectId("artist_albums", a)
    BY <2>0, IdsAreRead
  <2> HIDE DEF o
  <2>2. o.kind = "artist_albums" /\ o.entity = a
    BY <2>1, ObjectIdIs
  <2>3. Metadata(o, profile) = All(<<x>>)
    BY <2>2 DEF Metadata
  <2> HIDE DEF x
  <2>5. Found(o)
    BY <2>2 DEF Found
  <2>6. ChildIds(o) = Under("album", AlbumsOfArtist(a))
    BY <2>2, ChildIdsAre
  <2>7. AlbumsOfArtist(a) \in SUBSET Seq(Nat) /\ IsFiniteSet(AlbumsOfArtist(a))
    BY AlbumsOfArtistAre
  <2>8. Len(ChildIds(o)) = x.count
    BY <2>0, <2>6, <2>7, UnderIsSeq
  <2> QED BY <2>0, <2>2, <2>3, <2>5, <2>8 DEF Fits, Miscounted, o
<1>7. ASSUME NEW a \in DOMAIN albums, object = Album(a)
      PROVE  Fits(object, profile)
  <2> DEFINE o == ParseObjectId(object.id)
             x == Album(a)
  <2>0. x.id = <<"album">> \o a /\ object = x /\ x.count = Cardinality(TracksOfAlbum(a))
    BY <1>7, ContainersAre
  <2>1. o = ObjectId("album", a)
    BY <2>0, IdsAreRead
  <2> HIDE DEF o
  <2>2. o.kind = "album" /\ o.entity = a
    BY <2>1, ObjectIdIs
  <2>3. Metadata(o, profile) = All(<<x>>)
    BY <2>2 DEF Metadata
  <2> HIDE DEF x
  <2>5. Found(o)
    BY <2>2 DEF Found
  <2>6. ChildIds(o) = Under("track", TracksOfAlbum(a))
    BY <2>2, ChildIdsAre
  <2>7. TracksOfAlbum(a) \in SUBSET Seq(Nat) /\ IsFiniteSet(TracksOfAlbum(a))
    BY TracksOfAlbumAre
  <2>8. Len(ChildIds(o)) = x.count
    BY <2>0, <2>6, <2>7, UnderIsSeq
  <2> QED BY <2>0, <2>2, <2>3, <2>5, <2>8 DEF Fits, Miscounted, o
<1>8. ASSUME NEW p \in DOMAIN Playlists, object = Playlist(p)
      PROVE  Fits(object, profile)
  <2> DEFINE o == ParseObjectId(object.id)
             x == Playlist(p)
  <2>0. x.id = <<"playlist">> \o p /\ object = x /\ x.count = Len(Playlists[p])
    BY <1>8, ContainersAre
  <2>1. o = ObjectId("playlist", p)
    BY <2>0, IdsAreRead
  <2> HIDE DEF o
  <2>2. o.kind = "playlist" /\ o.entity = p
    BY <2>1, ObjectIdIs
  <2>3. Metadata(o, profile) = All(<<x>>)
    BY <2>2 DEF Metadata
  <2> HIDE DEF x
  <2>4. Found(o)
    BY <2>2 DEF Found
  <2>5. Len(ChildIds(o)) = x.count
    <3> DEFINE s == Playlists[p]
               n == Len(s)
               all == ChildIds(o)
    <3>1. n \in Nat /\ DOMAIN s = 1..n
      <4>1. s \in Seq({TrackId(f) : f \in Files})
        BY PlaylistsAssumption
      <4> QED BY <4>1, SeqsAre
    <3>2. all = [i \in 1..n |-> <<"track">> \o s[i]]
      BY <2>2, <3>1, ChildIdsAre
    <3>3. all = [i \in 1..n |-> all[i]]
      BY <3>2
    <3> HIDE DEF all, n
    <3>4. Len(all) = n
      BY <3>1, <3>3, ListIs
    <3> QED BY <2>0, <3>4 DEF all, n
  <2> QED BY <2>0, <2>2, <2>3, <2>4, <2>5 DEF Fits, Miscounted, o
<1>9. ASSUME IsItem(object), NEW t \in DOMAIN tracks, object.id = <<"track">> \o t
      PROVE  Fits(object, profile)
  <2> DEFINE o == ParseObjectId(object.id)
             x == TrackItem(t, profile)
  <2>1. o = ObjectId("track", t)
    BY <1>9, IdsAreRead
  <2> HIDE DEF o
  <2>2. o.kind = "track" /\ o.entity = t
    BY <2>1, ObjectIdIs
  <2>3. Metadata(o, profile) = All(<<x>>)
    BY <2>2 DEF Metadata
  <2>4. x.id = object.id
    <3> DEFINE parent == <<"album">> \o AlbumOf(t)
    <3>1. x = Item(t, parent, profile)
      BY DEF TrackItem
    <3> HIDE DEF x, parent
    <3> QED BY <1>9, <3>1, ItemIs
  <2> HIDE DEF x
  <2>5. Found(o)
    BY <2>2 DEF Found
  <2> QED BY <1>9, <2>3, <2>4, <2>5 DEF Fits, o
<1>10. CASE object = RootAlone
  <2> DEFINE o == ParseObjectId(object.id)
  <2>0. object.id = <<"0">> /\ object.count = 1
    BY <1>10, AloneAre
  <2>1. o = ObjectId("0", <<>>)
    BY <1>0, <2>0, IdsAreRead
  <2> HIDE DEF o
  <2>2. o.kind = "0"
    BY <2>1, ObjectIdIs
  <2>3. Metadata(o, profile) = All(<<object>>)
    BY <1>10, <2>2 DEF Metadata, RootAlone
  <2>4. Found(o)
    BY <1>0, <2>2 DEF Found
  <2>5. ChildIds(o) = <<<<"1">>, <<"playlists">>>>
    BY <2>2, ChildIdsAre
  <2>6. Len(<<<<"1">>, <<"playlists">>>>) = 2
    OBVIOUS
  <2>7. object.count > 0 <=> Len(ChildIds(o)) > 0
    BY <2>0, <2>5, <2>6
  <2> QED BY <2>2, <2>3, <2>4, <2>7 DEF Fits, Miscounted, o
<1>11. CASE object = PlaylistsAlone
  <2> DEFINE o == ParseObjectId(object.id)
  <2>0. object.id = <<"playlists">> /\ object.count = Cardinality(DOMAIN Playlists)
    BY <1>11, AloneAre
  <2>1. o = ObjectId("playlists", <<>>)
    BY <1>0, <2>0, IdsAreRead
  <2> HIDE DEF o
  <2>2. o.kind = "playlists"
    BY <2>1, ObjectIdIs
  <2>3. Metadata(o, profile) = All(<<object>>)
    BY <1>11, <2>2 DEF Metadata, PlaylistsAlone
  <2>4. Found(o)
    BY <1>0, <2>2 DEF Found
  <2>5. ChildIds(o) = Under("playlist", DOMAIN Playlists)
    BY <2>2, ChildIdsAre
  <2>6. DOMAIN Playlists \in SUBSET Seq(Nat) /\ IsFiniteSet(DOMAIN Playlists)
    BY PlaylistsAssumption
  <2>7. Len(ChildIds(o)) = object.count
    BY <2>0, <2>5, <2>6, UnderIsSeq
  <2> QED BY <2>2, <2>3, <2>4, <2>7 DEF Fits, Miscounted, o
<1> QED BY <1>1, <1>2, <1>3, <1>4, <1>5, <1>6, <1>7, <1>8, <1>9, <1>10, <1>11 DEF Node

\* What a renderer was shown is of the tree; what it was refused is not there, or
\* the database did not answer.
NodeInv ==
  /\ view.mode = "refused" => view.object \in UnknownIds \/ view.fault = ActionFailed
  /\ view.mode = "browsing" => \A i \in 1..Len(view.got) : Node(view.got[i])

LEMMA NodesStay ==
  ASSUME UNCHANGED library
  PROVE  \A object : Node(object)' = Node(object)
BY DEF library, Node, RootAlone, PlaylistsAlone, Artists, AllTracks, Artist, ArtistAlbums, Album, Playlist, Music, Container,
   AlbumsOfArtist, TracksOfAlbum, IsItem, Holding

LEMMA RepliesShowNodes ==
  ASSUME LibraryInv, NEW agent, NEW object,
         NEW flag \in {"BrowseDirectChildren", "BrowseMetadata"},
         NEW style \in Styles, NEW start \in Nat,
         NEW reply \in Replies(agent, object, flag, start, style), reply.fault = 0,
         start = 0 \/ start <= Len(ChildIds(ParseObjectId(object)))
  PROVE  \A i \in 1..Len(reply.objects) : Node(reply.objects[i])
<1> DEFINE o == ParseObjectId(object)
           page == [start |-> start, count |-> PageCount]
           profile == Match(agent)
<1>1. reply = HandleBrowse(Args(object, flag, start), profile)
  BY RepliesAre
<1>2. /\ o.kind = "none" => reply = Fault(NoSuchObject)
      /\ o.kind # "none" /\ flag = "BrowseMetadata" => reply = Metadata(o, profile)
      /\ o.kind # "none" /\ flag = "BrowseDirectChildren" => reply = DirectChildren(o, page, profile)
  BY <1>1, BrowseIs
<1>3. Fault(NoSuchObject).fault # 0
  BY DEF Fault, NoSuchObject
<1>4. reply = Metadata(o, profile) \/ reply = DirectChildren(o, page, profile)
  BY <1>2, <1>3
<1>5. page.start = start /\ page.count = PageCount /\ PageCount \in Nat
  BY BoundsAssumption
<1> HIDE DEF o, page, profile
<1>6. CASE reply = Metadata(o, profile)
  BY <1>6, MetadataShowsNodes
<1>7. CASE reply = DirectChildren(o, page, profile)
  <2>1. Len(ChildIds(o)) \in Nat
    BY <1>7, ChildrenAreAList
  <2>2. page.start <= Len(ChildIds(o))
    BY <1>5, <2>1 DEF o
  <2> QED BY <1>5, <1>7, <2>2, PagesShowNodes
<1> QED BY <1>4, <1>6, <1>7

\* What is there is refused only when a query fails.
LEMMA KnownIsAnswered ==
  ASSUME LibraryInv, <<>> \notin DOMAIN Playlists, NEW agent, NEW object \in KnownIds,
         NEW flag \in {"BrowseDirectChildren", "BrowseMetadata"}, NEW style \in Styles,
         NEW z, z = 0, NEW reply \in Replies(agent, object, flag, z, style), reply.fault # 0
  PROVE  reply.fault = ActionFailed
<1> DEFINE o == ParseObjectId(object)
           page == [start |-> z, count |-> PageCount]
           profile == Match(agent)
<1>1. Found(o)
  BY KnownIsFound
<1>2. CASE reply = BackendFails
  BY <1>2 DEF BackendFails, Fault
<1>3. CASE reply = HandleBrowse(Args(object, flag, z), profile)
  <2>1. o.kind # "none" /\ DirectChildren(o, page, profile).fault = 0
    BY <1>1, FoundAnswers
  <2>2. Metadata(o, profile).fault = 0
    BY MetadataIs
  <2>3. /\ o.kind # "none" /\ flag = "BrowseMetadata" => reply = Metadata(o, profile)
        /\ o.kind # "none" /\ flag = "BrowseDirectChildren" => reply = DirectChildren(o, page, profile)
    BY <1>3, BrowseIs
  <2> HIDE DEF o, page, profile
  <2> QED BY <2>1, <2>2, <2>3
<1> QED BY <1>2, <1>3, RepliesAre

LEMMA BrowseShowsNodes ==
  ASSUME LibraryInv, <<>> \notin DOMAIN Playlists, UNCHANGED library,
         NEW agent, NEW object \in KnownIds \cup UnknownIds,
         NEW flag \in {"BrowseDirectChildren", "BrowseMetadata"}, NEW style \in Styles,
         Browse(agent, object, flag, style)
  PROVE  NodeInv'
<1> DEFINE z == 0
<1>1. PICK reply \in Replies(agent, object, flag, z, style) :
        view' = IF reply.fault = 0 THEN Browsing(agent, object, flag, reply)
                ELSE Refused(object, reply.fault)
  BY DEF Browse
<1>2. z = 0 /\ z \in Nat
  OBVIOUS
<1> HIDE DEF z
<1>3. CASE reply.fault # 0
  <2>1. view' = Refused(object, reply.fault)
    BY <1>1, <1>3
  <2>2. view'.mode = "refused" /\ view'.object = object /\ view'.fault = reply.fault
    BY <2>1 DEF Refused
  <2>3. object \in UnknownIds \/ reply.fault = ActionFailed
    BY <1>1, <1>2, <1>3, KnownIsAnswered
  <2>4. view'.object \in UnknownIds' \/ view'.fault = ActionFailed
    BY <2>2, <2>3 DEF UnknownIds
  <2> QED BY <2>2, <2>4 DEF NodeInv
<1>4. CASE reply.fault = 0
  <2>1. view' = Browsing(agent, object, flag, reply)
    BY <1>1, <1>4
  <2>2. view'.mode = "browsing" /\ view'.flag = flag /\ view'.got = reply.objects
    BY <2>1, ViewOfBrowsing
  <2>3. \A i \in 1..Len(reply.objects) : Node(reply.objects[i])
    BY <1>1, <1>2, <1>4, RepliesShowNodes
  <2>4. ASSUME NEW i \in 1..Len(view'.got) PROVE Node(view.got[i])'
    <3>1. PICK x : x = reply.objects[i]
      OBVIOUS
    <3>2. Node(x)' = Node(x)
      BY NodesStay
    <3>3. Node(x) /\ view'.got[i] = x
      BY <2>2, <2>3, <2>4, <3>1
    <3> QED BY <3>2, <3>3
  <2> QED BY <2>2, <2>4 DEF NodeInv
<1> QED BY <1>3, <1>4

LEMMA NextPageShowsNodes ==
  ASSUME LibraryInv, PagesInv, NodeInv, UNCHANGED library, NEW style \in Styles, NextPage(style)
  PROVE  NodeInv'
<1> DEFINE object == view.object
           start == Len(view.got)
           agent == view.agent
           flag == view.flag
           old == view.got
<1>1. /\ view.mode = "browsing" /\ flag = "BrowseDirectChildren" /\ start < view.total
      /\ \E reply \in Replies(agent, object, flag, start, style) :
           view' = IF reply.fault = 0 /\ reply.updateId = view.updateId
                   THEN [view EXCEPT !.got = @ \o reply.objects] ELSE Idle
  BY DEF NextPage
<1>2. PICK reply \in Replies(agent, object, flag, start, style) :
        view' = IF reply.fault = 0 /\ reply.updateId = view.updateId
                THEN [view EXCEPT !.got = @ \o reply.objects] ELSE Idle
  BY <1>1
<1>3. /\ view = ListingView(view) /\ IsSeq(old) /\ start \in Nat
      /\ ParseObjectId(object).kind \in Paged /\ start <= Len(ChildIds(ParseObjectId(object)))
  BY <1>1 DEF PagesInv, IsSeq
<1>4. CASE ~ (reply.fault = 0 /\ reply.updateId = view.updateId)
  <2>1. view'.mode = "idle"
    BY <1>2, <1>4, OtherViews
  <2> QED BY <2>1 DEF NodeInv
<1>5. CASE reply.fault = 0 /\ reply.updateId = view.updateId
  <2> DEFINE new == reply.objects
             got == old \o new
  <2>1. view' = [view EXCEPT !.got = got]
    BY <1>2, <1>5
  <2>2. \A i \in 1..Len(old) : Node(old[i])
    BY <1>1 DEF NodeInv
  <2> HIDE DEF object, start, agent, flag
  <2>3. IsSeq(new) /\ \A i \in 1..Len(new) : Node(new[i])
    <3>1. Answers(reply, ParseObjectId(object), start, Match(agent))
      BY <1>1, <1>2, <1>3, <1>5, NextAnswerIs
    <3>2. \A i \in 1..Len(reply.objects) : Node(reply.objects[i])
      BY <1>1, <1>2, <1>3, <1>5, RepliesShowNodes
    <3> QED BY <3>1, <3>2 DEF Answers, IsPage
  <2> HIDE DEF old, new, got
  <2>4. /\ IsSeq(got) /\ Len(got) = Len(old) + Len(new)
        /\ \A i \in 1..Len(old) : got[i] = old[i]
        /\ \A i \in 1..Len(new) : got[Len(old) + i] = new[i]
    BY <1>3, <2>3, CatIs DEF got
  <2>5. Len(old) \in Nat /\ Len(new) \in Nat
    BY <1>3, <2>3 DEF IsSeq
  <2>6. ASSUME NEW i \in 1..Len(got) PROVE Node(got[i])
    <3>1. CASE i <= Len(old)
      BY <2>2, <2>4, <2>5, <3>1
    <3>2. CASE i > Len(old)
      <4>1. i - Len(old) \in 1..Len(new) /\ Len(old) + (i - Len(old)) = i
        BY <2>4, <2>5, <3>2
      <4>2. got[i] = new[i - Len(old)]
        BY <2>4, <4>1
      <4> QED BY <2>3, <4>1, <4>2
    <3> QED BY <2>4, <2>5, <3>1, <3>2
  <2>7. view'.mode = "browsing" /\ view'.got = got
    <3> DEFINE w == ListingView(view)
    <3>1. view = w
      BY <1>3
    <3>2. w = [mode |-> "browsing", agent |-> w.agent, object |-> w.object,
            flag |-> w.flag, got |-> w.got, total |-> w.total, updateId |-> w.updateId]
      BY DEF ListingView
    <3> HIDE DEF w
    <3>3. view' = [w EXCEPT !.got = got]
      BY <2>1, <3>1
    <3>4. view' = [mode |-> "browsing", agent |-> w.agent, object |-> w.object,
            flag |-> w.flag, got |-> got, total |-> w.total, updateId |-> w.updateId]
      BY <3>2, <3>3
    <3> QED BY <3>4
  <2>8. ASSUME NEW i \in 1..Len(view'.got) PROVE Node(view.got[i])'
    <3>1. PICK x : x = got[i]
      OBVIOUS
    <3>2. Node(x)' = Node(x)
      BY NodesStay
    <3>3. Node(x) /\ view'.got[i] = x
      BY <2>6, <2>7, <2>8, <3>1
    <3> QED BY <3>2, <3>3
  <2> QED BY <2>7, <2>8 DEF NodeInv
<1> QED BY <1>4, <1>5

LEMMA NodeViewStays ==
  ASSUME NodeInv, UNCHANGED <<library, view>>
  PROVE  NodeInv'
<1>1. ASSUME view'.mode = "browsing", NEW i \in 1..Len(view'.got)
      PROVE  Node(view.got[i])'
  <2>1. PICK x : x = view.got[i]
    OBVIOUS
  <2>2. Node(x)' = Node(x)
    BY NodesStay
  <2>3. Node(x) /\ view'.got[i] = x
    BY <1>1, <2>1 DEF NodeInv
  <2> QED BY <2>2, <2>3
<1>2. view'.mode = "refused" => view'.object \in UnknownIds' \/ view'.fault = ActionFailed
  BY DEF NodeInv, UnknownIds
<1> QED BY <1>1, <1>2 DEF NodeInv

LEMMA NodeStep ==
  ASSUME <<>> \notin DOMAIN Playlists
  PROVE  SessInv /\ NodeInv /\ [Next]_vars => NodeInv'
<1> SUFFICES ASSUME SessInv, NodeInv, [Next]_vars PROVE NodeInv'
  OBVIOUS
<1>0. LibraryInv /\ PagesInv
  BY DEF SessInv
<1>1. UNCHANGED library
  BY DEF Next, vars, TranscodeNext, library
<1>2. ASSUME NEW agent \in Agents, NEW o \in KnownIds \cup UnknownIds, NEW style \in Styles,
             NEW flag \in {"BrowseDirectChildren", "BrowseMetadata"}, Browse(agent, o, flag, style)
      PROVE  NodeInv'
  BY <1>0, <1>1, <1>2, BrowseShowsNodes
<1>3. ASSUME NEW style \in Styles, NextPage(style) PROVE NodeInv'
  BY <1>0, <1>1, <1>3, NextPageShowsNodes
<1>4. ASSUME (\E t \in DOMAIN tracks : OpenMaster(t)) \/ Take \/ Follow \/ Leave PROVE NodeInv'
  <2>1. view'.mode \in {"idle", "playing"}
    BY <1>4, OtherViews DEF OpenMaster, Take, Follow, Leave
  <2> QED BY <2>1 DEF NodeInv
<1>5. CASE Client
  BY <1>2, <1>3, <1>4, <1>5 DEF Client
<1>6. CASE UNCHANGED view
  BY <1>1, <1>6, NodeViewStays
<1>7. Client \/ UNCHANGED view
  BY DEF Next, vars, Tick
<1> QED BY <1>5, <1>6, <1>7

(* The tree that a renderer walks fits together, for every library, every    *)
(* User-Agent and every page size: what is there is refused only when the    *)
(* database fails; whatever is shown, in a listing or by itself, is found    *)
(* under its id and, but for the root, listed where it hangs (Playlists      *)
(* under the root, though its own metadata names Music); containers have as  *)
(* many children as they say, or, for the root and artists, some if they say *)
(* some.  A playlist whose id is empty would not be found: parse_object_id   *)
(* refuses it.                                                               *)
THEOREM TreeFitsTogether ==
  ASSUME <<>> \notin DOMAIN Playlists
  PROVE  Spec => []TreeCoherent
<1>1. SessInv /\ NodeInv => TreeCoherent
  <2> SUFFICES ASSUME SessInv, NodeInv PROVE TreeCoherent
    OBVIOUS
  <2>0. LibraryInv
    BY DEF SessInv
  <2>1. ASSUME view.mode = "browsing", NEW i \in DOMAIN view.got
        PROVE  LET object == view.got[i]
                   o      == ParseObjectId(object.id)
                   itself == Metadata(o, Match(view.agent)).objects
                   total  == Children(object.id, 0, 0).total
                   number == Children(HomeOf(object), 0, 1).total IN
               /\ Len(itself) = 1 /\ Head(itself).id = object.id
               /\ object.id # <<"0">> =>
                    \E s \in 0..(number - 1) :
                      object.id \in {Children(HomeOf(object), s, 0).objects[n].id :
                                       n \in DOMAIN Children(HomeOf(object), s, 0).objects}
               /\ ~ IsItem(object) /\ object.count # Absent =>
                    IF o.kind \in Miscounted THEN object.count > 0 <=> total > 0
                    ELSE object.count = total
    <3> DEFINE got == view.got
               object == got[i]
               profile == Match(view.agent)
               o == ParseObjectId(object.id)
               above == ParseObjectId(HomeOf(object))
    <3>1. IsSeq(got) /\ i \in DOMAIN got /\ \A k \in 1..Len(got) : Node(got[k])
      BY <2>1 DEF SessInv, PagesInv, NodeInv
    <3> HIDE DEF got
    <3>2. Node(object)
      BY <3>1, ListIs DEF IsSeq
    <3> HIDE DEF object, profile
    <3>3. Fits(object, profile)
      BY <2>0, <3>2, NodesFit
    <3>4. ASSUME object.id # <<"0">>
          PROVE  Found(above) /\ \E k \in 1..Len(ChildIds(above)) : ChildIds(above)[k] = object.id
      BY <2>0, <3>2, <3>4, NodesHaveHomes
    <3> HIDE DEF o, above
    <3>5. object.id # <<"0">> =>
            \E s \in 0..(NumberOf(above, profile) - 1) : object.id \in IdsFrom(above, s, profile)
      BY <2>0, <3>4, IsListed
    <3>6. /\ Len(Metadata(o, profile).objects) = 1 /\ Head(Metadata(o, profile).objects).id = object.id
      <4>1. PICK x : x.id = object.id /\ Metadata(o, profile) = All(<<x>>)
        BY <3>3 DEF Fits, o
      <4>2. Metadata(o, profile).objects = <<x>>
        BY <4>1 DEF All, Result
      <4>3. Len(<<x>>) = 1 /\ Head(<<x>>) = x
        OBVIOUS
      <4> QED BY <4>1, <4>2, <4>3
    <3>7. DirectChildren(o, [start |-> 0, count |-> 0], profile).total = Len(ChildIds(o))
      <4> DEFINE page == [start |-> 0, count |-> 0]
      <4>1. page.start = 0 /\ page.count = 0
        OBVIOUS
      <4> HIDE DEF page
      <4>2. Found(o)
        BY <3>3 DEF Fits, o
      <4>3. DirectChildren(o, page, profile).fault = 0
        BY <4>2, FoundAnswers
      <4>4. Len(ChildIds(o)) \in Nat
        BY <2>0, <4>3, ChildrenAreAList
      <4>5. DirectChildren(o, page, profile).total = Len(ChildIds(o))
        BY <2>0, <4>1, <4>3, <4>4, PageIs DEF Answers, IsPage
      <4> QED BY <4>5 DEF page
    <3>8. ~ IsItem(object) /\ object.count # Absent =>
            IF o.kind \in Miscounted THEN object.count > 0 <=> Len(ChildIds(o)) > 0
            ELSE object.count = Len(ChildIds(o))
      BY <3>3 DEF Fits, o
    <3> QED BY <3>5, <3>6, <3>7, <3>8 DEF Children, NumberOf, IdsFrom, object, profile, o, above, got
  <2>2. view.mode = "refused" => view.object \in UnknownIds \/ view.fault = ActionFailed
    BY DEF NodeInv
  <2> QED BY <2>1, <2>2 DEF TreeCoherent
<1>2. Init => NodeInv
  <2>1. Init => view.mode = "idle"
    BY OtherViews DEF Init
  <2> QED BY <2>1 DEF NodeInv
<1>3. Spec => []NodeInv
  <2>1. Spec => []SessInv
    BY SessAlways
  <2>2. SessInv /\ NodeInv /\ [Next]_vars => NodeInv'
    BY NodeStep
  <2> QED BY <1>2, <2>1, <2>2, PTL DEF Spec
<1> QED BY <1>1, <1>3, SessAlways, PTL
=============================================================================
