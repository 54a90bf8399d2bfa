---------------------------- MODULE CatalogProofs ----------------------------
(***************************************************************************)
(* Lemmas about Catalog that the proofs of its readers and writers share:  *)
(* upserts, and what ORDER BY id makes of the rows of a table.             *)
(***************************************************************************)
EXTENDS Catalog, FiniteSetTheorems, SequenceTheorems, TLAPS

\* Induction, as the provers can use it: a set of numbers has a least one,
\* because finite sets are well-founded under inclusion.
LEMMA Least ==
  ASSUME NEW T \in SUBSET Nat, T # {}
  PROVE  \E m \in T : \A n \in T : m <= n
<1> DEFINE Upto == {1..n : n \in T}
<1>1. Upto \subseteq FiniteSubsetsOf(Nat) /\ Upto # {}
  <2>1. \A n \in T : IsFiniteSet(1..n) /\ 1..n \subseteq Nat
    BY FS_Interval
  <2> QED BY <2>1 DEF FiniteSubsetsOf
<1>2. \E x \in Upto : \A y \in Upto : ~ (<<y, x>> \in StrictSubsetOrdering(Nat))
  BY <1>1, FS_StrictSubsetOrderingWellFounded, WFMin
<1>3. PICK m \in T : \A n \in T : ~ (<<1..n, 1..m>> \in StrictSubsetOrdering(Nat))
  BY <1>2
<1>4. ASSUME NEW n \in T, n < m PROVE FALSE
  <2>1. 1..n \subseteq 1..m /\ m \in 1..m /\ m \notin 1..n
    BY <1>4
  <2>2. 1..n \subseteq Nat /\ 1..m \subseteq Nat
    OBVIOUS
  <2>3. <<1..n, 1..m>> \in StrictSubsetOrdering(Nat)
    BY <2>1, <2>2 DEF StrictSubsetOrdering
  <2> QED BY <1>3, <2>3
<1> QED BY <1>4

\* An upsert adds the row's id and changes no other row.
LEMMA UpsertRows ==
  ASSUME NEW table, NEW id, NEW row
  PROVE  /\ DOMAIN Upsert(table, id, row) = DOMAIN table \cup {id}
         /\ Upsert(table, id, row)[id] = row
         /\ \A x \in DOMAIN table : x # id => Upsert(table, id, row)[x] = table[x]
  BY DEF Upsert

\* What SubSeq makes of a prefix.
LEMMA PrefixIs ==
  ASSUME NEW s \in Seq(Nat), NEW t \in Seq(Nat), Len(t) <= Len(s),
         \A i \in 1..Len(t) : t[i] = s[i]
  PROVE  SubSeq(s, 1, Len(t)) = t
<1>1. Len(t) \in Nat /\ Len(s) \in Nat /\ \A i \in 1..Len(t) : s[i] \in Nat
  BY LenProperties, ElementOfSeq
<1>2. /\ SubSeq(s, 1, Len(t)) \in Seq(Nat)
      /\ Len(SubSeq(s, 1, Len(t))) = IF 1 <= Len(t) THEN Len(t) - 1 + 1 ELSE 0
      /\ \A i \in 1..(Len(t) - 1 + 1) : SubSeq(s, 1, Len(t))[i] = s[1 + i - 1]
  BY <1>1, SubSeqProperties
<1>3. Len(SubSeq(s, 1, Len(t))) = Len(t)
  BY <1>1, <1>2
<1>4. \A i \in 1..Len(t) : SubSeq(s, 1, Len(t))[i] = t[i]
  BY <1>1, <1>2
<1> QED BY <1>2, <1>3, <1>4, SeqEqual

\* A file's ids are sequences of numbers.
LEMMA IdsAre ==
  ASSUME NEW f \in Files
  PROVE  /\ ArtistId(f) \in Seq(Nat) /\ Len(ArtistId(f)) = 1
         /\ AlbumId(f) \in Seq(Nat) /\ Len(AlbumId(f)) = 2
         /\ TrackId(f) \in Seq(Nat) /\ Len(TrackId(f)) = 3
         /\ RenditionId(f) \in Seq(Nat) /\ Len(RenditionId(f)) = 4
<1>1. f.artist \in Nat /\ f.album \in Nat /\ f.track \in Nat /\ f.ext \in Nat
  BY FilesAssumption
<1>2. /\ <<f.artist>> \in Seq(Nat) /\ <<f.artist, f.album>> \in Seq(Nat)
      /\ <<f.artist, f.album, f.track>> \in Seq(Nat)
      /\ <<f.artist, f.album, f.track, f.ext>> \in Seq(Nat)
  BY <1>1
<1> QED BY <1>2 DEF ArtistId, AlbumId, TrackId, RenditionId

\* The ids of a file's rows extend each other.
LEMMA IdsNest ==
  ASSUME NEW f \in Files
  PROVE  /\ ArtistOf(AlbumId(f)) = ArtistId(f)
         /\ AlbumOf(TrackId(f)) = AlbumId(f)
         /\ TrackOf(RenditionId(f)) = TrackId(f)
<1>1. \A i \in 1..Len(ArtistId(f)) : ArtistId(f)[i] = AlbumId(f)[i]
  BY IdsAre DEF ArtistId, AlbumId
<1>2. \A i \in 1..Len(AlbumId(f)) : AlbumId(f)[i] = TrackId(f)[i]
  BY IdsAre DEF AlbumId, TrackId
<1>3. \A i \in 1..Len(TrackId(f)) : TrackId(f)[i] = RenditionId(f)[i]
<2>0. Len(TrackId(f)) = 3
  BY IdsAre
<2>1. \A i \in 1..Len(TrackId(f)) : i = 1 \/ i = 2 \/ i = 3
  BY <2>0
<2>2. /\ TrackId(f)[1] = RenditionId(f)[1]
      /\ TrackId(f)[2] = RenditionId(f)[2]
      /\ TrackId(f)[3] = RenditionId(f)[3]
  BY DEF TrackId, RenditionId
<2> QED BY <2>1, <2>2
<1>4. ArtistOf(AlbumId(f)) = ArtistId(f)
  BY <1>1, IdsAre, PrefixIs DEF ArtistOf
<1>5. AlbumOf(TrackId(f)) = AlbumId(f)
  BY <1>2, IdsAre, PrefixIs DEF AlbumOf
<1>6. TrackOf(RenditionId(f)) = TrackId(f)
  BY <1>3, IdsAre, PrefixIs DEF TrackOf
<1> QED BY <1>4, <1>5, <1>6

\* The ids that the files can have are finitely many.
LEMMA IdsAreFew ==
  /\ IsFiniteSet({ArtistId(f) : f \in Files}) /\ {ArtistId(f) : f \in Files} \subseteq Seq(Nat)
  /\ IsFiniteSet({AlbumId(f) : f \in Files}) /\ {AlbumId(f) : f \in Files} \subseteq Seq(Nat)
  /\ IsFiniteSet({TrackId(f) : f \in Files}) /\ {TrackId(f) : f \in Files} \subseteq Seq(Nat)
<1>1. [f \in Files |-> ArtistId(f)] \in Surjection(Files, {ArtistId(f) : f \in Files})
  BY DEF Surjection
<1>2. [f \in Files |-> AlbumId(f)] \in Surjection(Files, {AlbumId(f) : f \in Files})
  BY DEF Surjection
<1>3. [f \in Files |-> TrackId(f)] \in Surjection(Files, {TrackId(f) : f \in Files})
  BY DEF Surjection
<1>4. IsFiniteSet(Files)
  BY FilesAssumption
<1>5. IsFiniteSet({ArtistId(f) : f \in Files})
  BY <1>1, <1>4, FS_Surjection
<1>6. IsFiniteSet({AlbumId(f) : f \in Files})
  BY <1>2, <1>4, FS_Surjection
<1>7. IsFiniteSet({TrackId(f) : f \in Files})
  BY <1>3, <1>4, FS_Surjection
<1>8. /\ {ArtistId(f) : f \in Files} \subseteq Seq(Nat)
      /\ {AlbumId(f) : f \in Files} \subseteq Seq(Nat)
      /\ {TrackId(f) : f \in Files} \subseteq Seq(Nat)
  BY IdsAre
<1> QED BY <1>5, <1>6, <1>7, <1>8

-----------------------------------------------------------------------------
(* ORDER BY id: a strict order on ids, by their first difference, and a    *)
(* prefix before what extends it.                                          *)

LEMMA IdBeforeIs ==
  ASSUME NEW a \in Seq(Nat), NEW b \in Seq(Nat)
  PROVE  IdBefore(a, b) <=>
           \/ /\ Len(a) < Len(b)
              /\ \A j \in 1..Len(a) : a[j] = b[j]
           \/ \E i \in 1..Len(a) : /\ i <= Len(b)
                                   /\ a[i] < b[i]
                                   /\ \A j \in 1..(i - 1) : a[j] = b[j]
<1> DEFINE Same == \A j \in 1..Len(a) : a[j] = b[j]
<1>1. /\ Len(a) \in Nat /\ Len(b) \in Nat
      /\ DOMAIN a = 1..Len(a) /\ DOMAIN b = 1..Len(b)
      /\ \A i \in 1..Len(a) : a[i] \in Nat
      /\ \A i \in 1..Len(b) : b[i] \in Nat
  BY LenProperties, ElementOfSeq
<1>2. SubSeq(a, 1, Len(a)) = a
  BY SubSeqFull
<1>3. ASSUME Len(a) <= Len(b)
      PROVE  /\ SubSeq(b, 1, Len(a)) \in Seq(Nat)
             /\ Len(SubSeq(b, 1, Len(a))) = Len(a)
             /\ \A j \in 1..Len(a) : SubSeq(b, 1, Len(a))[j] = b[j]
  <2>1. \A j \in 1..Len(a) : b[j] \in Nat
    BY <1>1, <1>3
  <2>2. /\ SubSeq(b, 1, Len(a)) \in Seq(Nat)
        /\ Len(SubSeq(b, 1, Len(a))) = IF 1 <= Len(a) THEN Len(a) - 1 + 1 ELSE 0
        /\ \A j \in 1..(Len(a) - 1 + 1) : SubSeq(b, 1, Len(a))[j] = b[1 + j - 1]
    BY <1>1, <2>1, SubSeqProperties
  <2>3. Len(SubSeq(b, 1, Len(a))) = Len(a)
    BY <1>1, <2>2
  <2>4. \A j \in 1..Len(a) : SubSeq(b, 1, Len(a))[j] = b[j]
    BY <1>1, <2>2
  <2> QED BY <2>2, <2>3, <2>4
<1>4. IsPrefix(a, b) <=> Len(a) <= Len(b) /\ Same
  <2>1. ASSUME Len(a) <= Len(b), Same PROVE a = SubSeq(b, 1, Len(a))
    BY <1>3, <2>1, SeqEqual
  <2>2. ASSUME Len(a) <= Len(b), a = SubSeq(b, 1, Len(a)) PROVE Same
    BY <1>3, <2>2
  <2> QED BY <1>2, <2>1, <2>2 DEF IsPrefix
<1>5. IsStrictPrefix(a, b) <=> Len(a) < Len(b) /\ Same
  <2>1. ASSUME Len(a) = Len(b), Same PROVE a = b
    BY <2>1, SeqEqual
  <2>2. ASSUME Len(a) < Len(b) PROVE a # b
    BY <1>1, <2>2
  <2> HIDE DEF Same
  <2>3. CASE Len(a) = Len(b)
    BY <1>1, <1>4, <2>1, <2>3 DEF IsStrictPrefix
  <2>4. CASE Len(a) < Len(b)
    BY <1>1, <1>4, <2>2, <2>4 DEF IsStrictPrefix
  <2>5. CASE Len(a) > Len(b)
    BY <1>1, <1>4, <2>5 DEF IsStrictPrefix
  <2>6. Len(a) \in Nat /\ Len(b) \in Nat
    BY LenProperties
  <2>7. Len(a) = Len(b) \/ Len(a) < Len(b) \/ Len(a) > Len(b)
    BY <2>6
  <2> QED BY <2>3, <2>4, <2>5, <2>7
<1> HIDE DEF Same
<1>6. (DOMAIN a) \cap (DOMAIN b) = {i \in 1..Len(a) : i <= Len(b)}
  BY <1>1
<1>7. IdBefore(a, b) <=>
        \/ Len(a) < Len(b) /\ Same
        \/ \E i \in 1..Len(a) : i <= Len(b) /\ a[i] < b[i] /\ \A j \in 1..(i - 1) : a[j] = b[j]
  BY <1>5, <1>6 DEF IdBefore
<1> QED BY <1>7 DEF Same

LEMMA IdBeforeIrreflexive ==
  ASSUME NEW a \in Seq(Nat)
  PROVE  ~ IdBefore(a, a)
<1>1. Len(a) \in Nat /\ \A i \in 1..Len(a) : a[i] \in Nat
  BY ElementOfSeq, LenProperties
<1> QED BY <1>1, IdBeforeIs

LEMMA IdBeforeTransitive ==
  ASSUME NEW a \in Seq(Nat), NEW b \in Seq(Nat), NEW c \in Seq(Nat),
         IdBefore(a, b), IdBefore(b, c)
  PROVE  IdBefore(a, c)
<1>1. /\ Len(a) \in Nat /\ Len(b) \in Nat /\ Len(c) \in Nat
      /\ \A i \in 1..Len(a) : a[i] \in Nat
      /\ \A i \in 1..Len(b) : b[i] \in Nat
      /\ \A i \in 1..Len(c) : c[i] \in Nat
  BY ElementOfSeq, LenProperties
<1> DEFINE At(x, y, i) == /\ i \in 1..Len(x) /\ i <= Len(y) /\ x[i] < y[i]
                          /\ \A j \in 1..(i - 1) : x[j] = y[j]
           Extends(x, y) == Len(x) < Len(y) /\ \A j \in 1..Len(x) : x[j] = y[j]
<1>2. Extends(a, b) \/ \E i \in 1..Len(a) : At(a, b, i)
  BY IdBeforeIs
<1>3. Extends(b, c) \/ \E i \in 1..Len(b) : At(b, c, i)
  BY IdBeforeIs
<1>4. SUFFICES Extends(a, c) \/ \E i \in 1..Len(a) : At(a, c, i)
  BY IdBeforeIs
<1>5. CASE Extends(a, b) /\ Extends(b, c)
  <2>1. Extends(a, c)
    BY <1>1, <1>5
  <2> QED BY <2>1
<1>6. ASSUME NEW i \in 1..Len(b), Extends(a, b), At(b, c, i)
      PROVE  Extends(a, c) \/ \E l \in 1..Len(a) : At(a, c, l)
  <2>1. CASE i <= Len(a)
    <3>1. At(a, c, i)
      BY <1>1, <1>6, <2>1
    <3> QED BY <1>1, <2>1, <3>1
  <2>2. CASE i > Len(a)
    <3>1. Extends(a, c)
      BY <1>1, <1>6, <2>2
    <3> QED BY <3>1
  <2> QED BY <1>1, <2>1, <2>2
<1>7. ASSUME NEW i \in 1..Len(a), At(a, b, i), Extends(b, c)
      PROVE  \E l \in 1..Len(a) : At(a, c, l)
  <2>1. At(a, c, i)
    BY <1>1, <1>7
  <2> QED BY <2>1
<1>8. ASSUME NEW i \in 1..Len(a), At(a, b, i), NEW l \in 1..Len(b), At(b, c, l)
      PROVE  \E k \in 1..Len(a) : At(a, c, k)
  <2>1. CASE i <= l
    <3>1. \A j \in 1..(i - 1) : a[j] = c[j]
      BY <1>1, <1>8, <2>1
    <3>2. i <= Len(b) /\ i \in 1..Len(b) /\ l <= Len(c) /\ i <= Len(c)
      BY <1>1, <1>8, <2>1
    <3>3. a[i] \in Nat /\ b[i] \in Nat /\ c[i] \in Nat
      BY <1>1, <3>2
    <3>4. b[i] <= c[i]
      <4>1. CASE i = l
        <5>1. b[i] < c[i]
          BY <1>8, <4>1
        <5> QED BY <3>3, <5>1
      <4>2. CASE i # l
        <5>1. i \in 1..(l - 1)
          BY <2>1, <4>2
        <5>2. b[i] = c[i]
          BY <1>8, <5>1
        <5> QED BY <3>3, <5>2
      <4> QED BY <4>1, <4>2
    <3>5. a[i] < b[i]
      BY <1>8
    <3>6. a[i] < c[i]
      BY <3>3, <3>4, <3>5
    <3> QED BY <3>1, <3>2, <3>6
  <2>2. CASE l < i
    <3>1. \A j \in 1..(l - 1) : a[j] = c[j]
      BY <1>1, <1>8, <2>2
    <3>2. a[l] < c[l] /\ l <= Len(c) /\ l \in 1..Len(a)
      BY <1>1, <1>8, <2>2
    <3> QED BY <3>1, <3>2
  <2>3. i <= l \/ l < i
    BY <1>1
  <2> HIDE DEF At
  <2> QED BY <2>1, <2>2, <2>3
<1> HIDE DEF At, Extends
<1> QED BY <1>2, <1>3, <1>5, <1>6, <1>7, <1>8

LEMMA IdBeforeTotal ==
  ASSUME NEW a \in Seq(Nat), NEW b \in Seq(Nat), a # b
  PROVE  IdBefore(a, b) \/ IdBefore(b, a)
<1>1. /\ Len(a) \in Nat /\ Len(b) \in Nat
      /\ \A i \in 1..Len(a) : a[i] \in Nat
      /\ \A i \in 1..Len(b) : b[i] \in Nat
  BY ElementOfSeq, LenProperties
<1> DEFINE D == {i \in 1..Len(a) : i <= Len(b) /\ a[i] # b[i]}
<1>2. CASE D = {}
  <2>1. \A j \in 1..Len(a) : j <= Len(b) => a[j] = b[j]
    BY <1>2
  <2>2. CASE Len(a) < Len(b)
    BY <1>1, <2>1, <2>2, IdBeforeIs
  <2>3. CASE Len(b) < Len(a)
    BY <1>1, <2>1, <2>3, IdBeforeIs
  <2>4. CASE Len(a) = Len(b)
    BY <1>1, <2>1, <2>4, SeqEqual
  <2>5. Len(a) < Len(b) \/ Len(b) < Len(a) \/ Len(a) = Len(b)
    BY <1>1
  <2> QED BY <2>2, <2>3, <2>4, <2>5
<1>3. CASE D # {}
  <2>1. D \in SUBSET Nat
    BY <1>1
  <2>2. PICK i \in D : \A j \in D : i <= j
    BY <1>3, <2>1, Least
  <2>3. \A j \in 1..(i - 1) : a[j] = b[j]
    <3>1. ASSUME NEW j \in 1..(i - 1), a[j] # b[j] PROVE FALSE
      <4>1. j \in 1..Len(a) /\ j <= Len(b) /\ ~ (i <= j)
        BY <1>1
      <4>2. j \in D
        BY <3>1, <4>1
      <4> QED BY <2>2, <4>1, <4>2
    <3> QED BY <3>1
  <2>4. a[i] < b[i] \/ b[i] < a[i]
    BY <1>1, <2>2
  <2>5. i \in 1..Len(a) /\ i \in 1..Len(b)
    BY <1>1
  <2>6. \A j \in 1..(i - 1) : b[j] = a[j]
    BY <2>3
  <2>7. i <= Len(a) /\ i <= Len(b)
    BY <1>1
  <2>8. CASE a[i] < b[i]
    BY <2>3, <2>5, <2>7, <2>8, IdBeforeIs
  <2>9. CASE b[i] < a[i]
    BY <2>5, <2>6, <2>7, <2>9, IdBeforeIs
  <2> QED BY <2>4, <2>8, <2>9
<1> QED BY <1>2, <1>3

\* Each row has a number of its own.
LEMMA RowNumberGrows ==
  ASSUME NEW S \in SUBSET Seq(Nat), IsFiniteSet(S),
         NEW a \in S, NEW b \in S, IdBefore(a, b)
  PROVE  RowNumber(a, S) < RowNumber(b, S)
<1> DEFINE A == {x \in S : x = a \/ IdBefore(x, a)}
           B == {x \in S : x = b \/ IdBefore(x, b)}
<1>1. A \subseteq B
  BY IdBeforeTransitive
<1>2. b \in B /\ b \notin A
  <2>1. b # a /\ ~ IdBefore(b, a)
    BY IdBeforeIrreflexive, IdBeforeTransitive
  <2> QED BY <2>1
<1>3. IsFiniteSet(A) /\ IsFiniteSet(B)
  BY FS_Subset
<1>4. Cardinality(A) <= Cardinality(B) /\ Cardinality(A) # Cardinality(B)
  <2> HIDE DEF A, B
  <2> QED BY <1>1, <1>2, <1>3, FS_Subset
<1>5. Cardinality(A) \in Nat /\ Cardinality(B) \in Nat
  <2> HIDE DEF A, B
  <2> QED BY <1>3, FS_CardinalityType
<1> QED BY <1>4, <1>5 DEF RowNumber

LEMMA RowNumberBounds ==
  ASSUME NEW S, IsFiniteSet(S), NEW a \in S
  PROVE  RowNumber(a, S) \in 1..Cardinality(S)
<1> DEFINE A == {x \in S : x = a \/ IdBefore(x, a)}
<1>1. A \subseteq S /\ a \in A
  OBVIOUS
<1> HIDE DEF A
<1>2. IsFiniteSet(A) /\ Cardinality(A) <= Cardinality(S)
  BY <1>1, FS_Subset
<1>3. Cardinality(A) \in Nat /\ Cardinality(S) \in Nat /\ Cardinality(A) # 0
  BY <1>1, <1>2, FS_CardinalityType, FS_EmptySet
<1>4. Cardinality(A) \in 1..Cardinality(S)
  BY <1>2, <1>3
<1> USE DEF A
<1> QED BY <1>4 DEF RowNumber

\* Sorted lists each id of the set once.
LEMMA SortedLists ==
  ASSUME NEW S \in SUBSET Seq(Nat), IsFiniteSet(S)
  PROVE  /\ Cardinality(S) \in Nat
         /\ Sorted(S) \in [1..Cardinality(S) -> S]
         /\ \A i, j \in 1..Cardinality(S) : Sorted(S)[i] = Sorted(S)[j] => i = j
         /\ \A a \in S : \E i \in 1..Cardinality(S) : Sorted(S)[i] = a
<1> DEFINE n == Cardinality(S)
           number == [a \in S |-> RowNumber(a, S)]
<1>1. n \in Nat
  BY FS_CardinalityType
<1>2. \A a, b \in S : RowNumber(a, S) = RowNumber(b, S) => a = b
  <2> SUFFICES ASSUME NEW a \in S, NEW b \in S, a # b PROVE RowNumber(a, S) # RowNumber(b, S)
    OBVIOUS
  <2>1. RowNumber(a, S) \in 1..n /\ RowNumber(b, S) \in 1..n
    BY RowNumberBounds
  <2>2. IdBefore(a, b) \/ IdBefore(b, a)
    BY IdBeforeTotal
  <2>3. RowNumber(a, S) < RowNumber(b, S) \/ RowNumber(b, S) < RowNumber(a, S)
    BY <2>2, RowNumberGrows
  <2> QED BY <2>1, <2>3
<1>3. number \in Injection(S, 1..n)
  <2>1. number \in [S -> 1..n]
    BY RowNumberBounds
  <2> QED BY <1>2, <2>1 DEF Injection, IsInjective
<1>4. number \in Surjection(S, 1..n)
  <2>1. IsFiniteSet(1..n) /\ Cardinality(1..n) = n
    BY <1>1, FS_Interval
  <2> HIDE DEF number, n
  <2>2. Cardinality(S) = Cardinality(1..n)
    BY <2>1 DEF n
  <2> QED BY <1>3, <2>1, <2>2, FS_Injection
<1>5. \A i \in 1..n : \E a \in S : RowNumber(a, S) = i
  BY <1>4 DEF Surjection
<1>6. \A i \in 1..n : Sorted(S)[i] \in S /\ RowNumber(Sorted(S)[i], S) = i
  BY <1>5 DEF Sorted
<1>7. Sorted(S) \in [1..n -> S]
  BY <1>6 DEF Sorted
<1>8. \A i, j \in 1..n : Sorted(S)[i] = Sorted(S)[j] => i = j
  BY <1>6
<1>9. \A a \in S : \E i \in 1..n : Sorted(S)[i] = a
  BY <1>2, <1>6, RowNumberBounds
<1> QED BY <1>1, <1>7, <1>8, <1>9
=============================================================================
