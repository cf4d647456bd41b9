--------------------------- MODULE VersionsProofs ---------------------------
(* The order of versions, for any identifiers and tags: the comparison has *)
(* no cycles, and it is the precedence of semantic versioning.             *)
EXTENDS Versions, TLAPS, SequenceTheorems

\* The suffix b comes before the suffix a, and place k shows it: the places
\* before agree, and there b has ended or has the lower identifier.
Above(a, b, k) ==
  /\ k \in 1..Len(a)
  /\ \A i \in 1..(k - 1) : i <= Len(b) /\ CompareIdentifiers(a[i], b[i]) = 0
  /\ k = Len(b) + 1 \/ (k <= Len(b) /\ CompareIdentifiers(a[k], b[k]) > 0)

\* Identifiers are compared consistently: the order is transitive, and equal ones
\* take each other's place.
LEMMA IdentifierOrder ==
  ASSUME VersionsAssumption, NEW x \in Identifiers, NEW y \in Identifiers, NEW z \in Identifiers
  PROVE  /\ CompareIdentifiers(x, y) \in {-1, 0, 1}
         /\ CompareIdentifiers(x, x) = 0
         /\ CompareIdentifiers(x, y) >= 0 /\ CompareIdentifiers(y, z) > 0
              => CompareIdentifiers(x, z) > 0
         /\ CompareIdentifiers(x, y) > 0 /\ CompareIdentifiers(y, z) >= 0
              => CompareIdentifiers(x, z) > 0
         /\ CompareIdentifiers(x, y) = 0 /\ CompareIdentifiers(y, z) = 0
              => CompareIdentifiers(x, z) = 0
<1>1. /\ Value[x] \in Nat \cup {NaN} /\ Value[y] \in Nat \cup {NaN} /\ Value[z] \in Nat \cup {NaN}
      /\ Spelling[x] \in Nat /\ Spelling[y] \in Nat /\ Spelling[z] \in Nat
  BY DEF VersionsAssumption
<1>2. QED
  BY <1>1 DEF VersionsAssumption, CompareIdentifiers, CmpInt

\* What comparePrerelease finds is a place that decides.
LEMMA DecidingPlace ==
  ASSUME VersionsAssumption, NEW a \in Seq(Identifiers), NEW b \in Seq(Identifiers)
  PROVE  ComparePrerelease(a, b) > 0 <=> \E k \in Nat : Above(a, b, k)
<1> DEFINE C(i) == CompareIdentifiers(a[i], b[i])
<1>1. ASSUME NEW i \in 1..Len(a), i <= Len(b) PROVE C(i) \in {-1, 0, 1}
  BY <1>1, IdentifierOrder
<1>2. ASSUME ComparePrerelease(a, b) > 0 PROVE \E k \in Nat : Above(a, b, k)
  <2>1. CASE Differ(a, b) = {}
    <3>1. Len(b) < Len(a)
      BY <1>2, <2>1 DEF ComparePrerelease, CmpInt
    <3>2. Above(a, b, Len(b) + 1)
      BY <2>1, <3>1 DEF Above, Differ
    <3>3. QED
      BY <3>2
  <2>2. CASE Differ(a, b) # {}
    <3>1. PICK i \in Differ(a, b) : (\A j \in Differ(a, b) : i <= j) /\ C(i) > 0
      BY <1>2, <2>2 DEF ComparePrerelease
    <3>2. Above(a, b, i)
      BY <3>1 DEF Above, Differ
    <3>3. QED
      BY <3>2 DEF Differ
  <2>3. QED
    BY <2>1, <2>2
<1>3. ASSUME NEW k \in Nat, Above(a, b, k) PROVE ComparePrerelease(a, b) > 0
  <2>1. CASE k = Len(b) + 1
    <3>1. Differ(a, b) = {}
      BY <1>3, <2>1 DEF Above, Differ
    <3>2. QED
      BY <1>3, <2>1, <3>1 DEF Above, ComparePrerelease, CmpInt
  <2>2. CASE k <= Len(b) /\ C(k) > 0
    <3>1. k \in Differ(a, b) /\ \A j \in Differ(a, b) : k <= j
      BY <1>3, <2>2 DEF Above, Differ
    <3>2. QED
      BY <2>2, <3>1 DEF ComparePrerelease
  <2>3. QED
    BY <1>3, <2>1, <2>2 DEF Above
<1>4. QED
  BY <1>2, <1>3

\* comparePrerelease is irreflexive and transitive.
LEMMA PrereleaseOrder ==
  ASSUME VersionsAssumption, NEW a \in Seq(Identifiers), NEW b \in Seq(Identifiers),
         NEW c \in Seq(Identifiers)
  PROVE  /\ ~(ComparePrerelease(a, a) > 0)
         /\ ComparePrerelease(a, b) > 0 /\ ComparePrerelease(b, c) > 0
              => ComparePrerelease(a, c) > 0
<1>1. ~(ComparePrerelease(a, a) > 0)
  <2>1. ASSUME NEW k \in Nat, Above(a, a, k) PROVE FALSE
    <3>1. k \in 1..Len(a) /\ CompareIdentifiers(a[k], a[k]) > 0
      BY <2>1 DEF Above
    <3>2. CompareIdentifiers(a[k], a[k]) = 0
      BY <3>1, IdentifierOrder
    <3>3. QED
      BY <3>1, <3>2
  <2>2. QED
    BY <2>1, DecidingPlace
<1>2. ASSUME ComparePrerelease(a, b) > 0, ComparePrerelease(b, c) > 0
      PROVE  ComparePrerelease(a, c) > 0
  <2>1. PICK k \in Nat : Above(a, b, k)
    BY <1>2, DecidingPlace
  <2>2. PICK l \in Nat : Above(b, c, l)
    BY <1>2, DecidingPlace
  <2>3. CASE k < l
    <3>1. k \in 1..Len(a) /\ k <= Len(b) /\ k <= Len(c)
      BY <2>1, <2>2, <2>3 DEF Above
    <3>2. CompareIdentifiers(a[k], b[k]) > 0 /\ CompareIdentifiers(b[k], c[k]) = 0
      BY <2>1, <2>2, <2>3, <3>1 DEF Above
    <3>3. CompareIdentifiers(a[k], c[k]) > 0
      BY <3>1, <3>2, IdentifierOrder
    <3>4. ASSUME NEW i \in 1..(k - 1) PROVE i <= Len(c) /\ CompareIdentifiers(a[i], c[i]) = 0
      <4>1. i \in 1..Len(a) /\ i <= Len(b) /\ i <= Len(c)
        BY <3>1, <3>4
      <4>2. CompareIdentifiers(a[i], b[i]) = 0 /\ CompareIdentifiers(b[i], c[i]) = 0
        BY <2>1, <2>2, <2>3, <3>4 DEF Above
      <4>3. QED
        BY <4>1, <4>2, IdentifierOrder
    <3>5. Above(a, c, k)
      BY <3>1, <3>3, <3>4 DEF Above
    <3>6. QED
      BY <3>5, DecidingPlace
  <2>4. CASE k >= l
    <3>1. l \in 1..Len(a) /\ l <= Len(b)
      BY <2>1, <2>2, <2>4 DEF Above
    <3>2. ASSUME NEW i \in 1..(l - 1) PROVE i <= Len(c) /\ CompareIdentifiers(a[i], c[i]) = 0
      <4>1. i \in 1..Len(a) /\ i <= Len(b) /\ i <= Len(c)
        BY <2>2, <3>1, <3>2 DEF Above
      <4>2. CompareIdentifiers(a[i], b[i]) = 0 /\ CompareIdentifiers(b[i], c[i]) = 0
        BY <2>1, <2>2, <2>4, <3>2 DEF Above
      <4>3. QED
        BY <4>1, <4>2, IdentifierOrder
    <3>3. ASSUME l <= Len(c) PROVE CompareIdentifiers(a[l], c[l]) > 0
      <4>1. CompareIdentifiers(b[l], c[l]) > 0
        BY <2>2, <3>3 DEF Above
      <4>2. CompareIdentifiers(a[l], b[l]) >= 0
        <5>1. CASE l < k
          BY <2>1, <3>1, <5>1 DEF Above
        <5>2. CASE l = k
          <6>1. CompareIdentifiers(a[l], b[l]) > 0
            BY <2>1, <3>1, <5>2 DEF Above
          <6>2. CompareIdentifiers(a[l], b[l]) \in {-1, 0, 1}
            BY <3>1, IdentifierOrder
          <6>3. QED
            BY <6>1, <6>2
        <5>3. QED
          BY <2>4, <5>1, <5>2
      <4>3. QED
        BY <3>1, <3>3, <4>1, <4>2, IdentifierOrder
    <3>4. Above(a, c, l)
      BY <2>2, <3>1, <3>2, <3>3 DEF Above
    <3>5. QED
      BY <3>4, DecidingPlace
  <2>5. QED
    BY <2>3, <2>4
<1>3. QED
  BY <1>1, <1>2

\* isVersionNewer is irreflexive and transitive.
LEMMA NewerOrder ==
  ASSUME VersionsAssumption, NEW a \in Tags, NEW b \in Tags, NEW c \in Tags
  PROVE  /\ ~IsVersionNewer(a, a)
         /\ IsVersionNewer(a, b) /\ IsVersionNewer(b, c) => IsVersionNewer(a, c)
<1>1. a.suffix \in Seq(Identifiers) /\ b.suffix \in Seq(Identifiers) /\ c.suffix \in Seq(Identifiers)
  BY DEF VersionsAssumption
<1>2. ASSUME NEW t \in Tags, WellFormed(t)
      PROVE  Number(t, 1) \in Nat /\ Number(t, 2) \in Nat /\ Number(t, 3) \in Nat
  <2>1. t.numbers \in Seq(Nat \cup {NaN})
    BY DEF VersionsAssumption
  <2>2. \A i \in 1..Len(t.numbers) : t.numbers[i] \in Nat
    BY <1>2, <2>1 DEF WellFormed
  <2>3. QED
    BY <2>1, <2>2 DEF Number
<1>3. ~IsVersionNewer(a, a)
  <2>1. ~(CompareSuffix(a.suffix, a.suffix) > 0)
    BY <1>1, PrereleaseOrder DEF CompareSuffix
  <2>2. QED
    BY <2>1 DEF IsVersionNewer, Compare
<1>4. ASSUME IsVersionNewer(a, b), IsVersionNewer(b, c) PROVE IsVersionNewer(a, c)
  <2>1. WellFormed(a) /\ WellFormed(b) /\ WellFormed(c)
    BY <1>4 DEF IsVersionNewer
  <2>2. CompareSuffix(a.suffix, b.suffix) > 0 /\ CompareSuffix(b.suffix, c.suffix) > 0
          => CompareSuffix(a.suffix, c.suffix) > 0
    <3> DEFINE x == a.suffix
               y == b.suffix
               z == c.suffix
    <3>1. ComparePrerelease(x, y) > 0 /\ ComparePrerelease(y, z) > 0
            => ComparePrerelease(x, z) > 0
      BY <1>1, PrereleaseOrder
    <3> HIDE DEF x, y, z
    <3>2. CompareSuffix(x, y) > 0 /\ CompareSuffix(y, z) > 0 => CompareSuffix(x, z) > 0
      BY <3>1 DEF CompareSuffix
    <3>3. QED
      BY <3>2 DEF x, y, z
  <2>3. /\ Number(a, 1) \in Nat /\ Number(b, 1) \in Nat /\ Number(c, 1) \in Nat
        /\ Number(a, 2) \in Nat /\ Number(b, 2) \in Nat /\ Number(c, 2) \in Nat
        /\ Number(a, 3) \in Nat /\ Number(b, 3) \in Nat /\ Number(c, 3) \in Nat
    BY <1>2, <2>1
  <2>4. Compare(a, b) > 0 /\ Compare(b, c) > 0
    BY <1>4 DEF IsVersionNewer
  <2>5. Compare(a, c) > 0
    BY <2>2, <2>3, <2>4 DEF Compare, CmpInt
  <2>6. QED
    BY <2>1, <2>5 DEF IsVersionNewer
<1>5. QED
  BY <1>3, <1>4

-----------------------------------------------------------------------------
(* The comparison and the precedence of semantic versioning.                *)

\* The rank of an identifier, and that of the end of a suffix.
Rank(x) == IF Value[x] # NaN THEN <<1, Value[x]>> ELSE <<2, Spelling[x]>>
EndRank(tag) == <<IF tag.suffix = <<>> THEN 3 ELSE 0, 0>>

\* Identifiers are compared by rank.
LEMMA IdentifierRank ==
  ASSUME VersionsAssumption, NEW x \in Identifiers, NEW y \in Identifiers
  PROVE  /\ CompareIdentifiers(x, y) > 0 <=> Below(Rank(y), Rank(x))
         /\ CompareIdentifiers(x, y) = 0 <=> Rank(x) = Rank(y)
<1>1. /\ Value[x] \in Nat \cup {NaN} /\ Value[y] \in Nat \cup {NaN}
      /\ Spelling[x] \in Nat /\ Spelling[y] \in Nat
  BY DEF VersionsAssumption
<1>2. CASE Value[x] # NaN /\ Value[y] # NaN
  BY <1>1, <1>2 DEF CompareIdentifiers, CmpInt, Below, Rank
<1>3. CASE Value[x] = NaN /\ Value[y] = NaN
  BY <1>1, <1>3 DEF CompareIdentifiers, CmpInt, Below, Rank
<1>4. CASE Value[x] # NaN /\ Value[y] = NaN
  BY <1>1, <1>4 DEF CompareIdentifiers, CmpInt, Below, Rank
<1>5. CASE Value[x] = NaN /\ Value[y] # NaN
  BY <1>1, <1>5 DEF CompareIdentifiers, CmpInt, Below, Rank
<1> QED
  BY <1>2, <1>3, <1>4, <1>5

\* The ends of suffixes come below every identifier where there is a suffix, and
\* above it where there is none.
LEMMA EndRanks ==
  ASSUME VersionsAssumption, NEW a \in Tags, NEW b \in Tags, NEW x \in Identifiers
  PROVE  /\ a.suffix = <<>> => Below(Rank(x), EndRank(a)) /\ ~Below(EndRank(a), Rank(x))
         /\ a.suffix # <<>> => Below(EndRank(a), Rank(x)) /\ ~Below(Rank(x), EndRank(a))
         /\ (a.suffix = <<>>) = (b.suffix = <<>>) =>
              EndRank(a) = EndRank(b) /\ ~Below(EndRank(a), EndRank(b))
         /\ EndRank(a) # Rank(x)
BY DEF Below, Rank, EndRank

\* The list of b is below that of a in the k-th place after the numbers, and agrees
\* with it in those between.
Precedent(a, b, k) ==
  /\ k \in 1..(Len(b.suffix) + 1) /\ k <= Len(a.suffix) + 1
  /\ Below(Ranks(b)[k + 3], Ranks(a)[k + 3])
  /\ \A i \in 1..(k - 1) : Ranks(b)[i + 3] = Ranks(a)[i + 3]

\* What the list of ranks of a tag is made of.
LEMMA RanksAre ==
  ASSUME VersionsAssumption, NEW t \in Tags
  PROVE  /\ t.suffix \in Seq(Identifiers) /\ Len(t.suffix) \in Nat
         /\ Len(Ranks(t)) = Len(t.suffix) + 4
         /\ \A i \in 1..3 : Ranks(t)[i] = <<0, Number(t, i)>>
         /\ \A i \in 1..Len(t.suffix) : Ranks(t)[i + 3] = Rank(t.suffix[i])
         /\ Ranks(t)[Len(t.suffix) + 4] = EndRank(t)
<1> DEFINE n == Len(t.suffix)
           A == [i \in 1..3 |-> <<0, Number(t, i)>>]
           B == [i \in 1..n |-> Rank(t.suffix[i])]
           C == << EndRank(t) >>
           U == {<<0, Number(t, i)>> : i \in 1..3} \cup {Rank(t.suffix[i]) : i \in 1..n} \cup {EndRank(t)}
<1>1. t.suffix \in Seq(Identifiers) /\ n \in Nat
  BY DEF VersionsAssumption
<1>2. Ranks(t) = (A \o B) \o C
  BY DEF Ranks, Rank, EndRank
<1>3. A \in Seq(U) /\ Len(A) = 3 /\ \A i \in 1..3 : A[i] = <<0, Number(t, i)>>
  OBVIOUS
<1>4. B \in Seq(U) /\ Len(B) = n /\ \A i \in 1..n : B[i] = Rank(t.suffix[i])
  <2> HIDE DEF A, C
  <2> QED
    BY <1>1
<1>5. C \in Seq(U) /\ Len(C) = 1 /\ C[1] = EndRank(t)
  OBVIOUS
<1> HIDE DEF A, B, C, U, n
<1>6. /\ A \o B \in Seq(U) /\ Len(A \o B) = n + 3
      /\ \A i \in 1..3 : (A \o B)[i] = A[i]
      /\ \A i \in 1..n : (A \o B)[i + 3] = B[i]
  <2>1. /\ A \o B \in Seq(U) /\ Len(A \o B) = 3 + n
        /\ \A i \in 1..(3 + n) : (A \o B)[i] = IF i <= 3 THEN A[i] ELSE B[i - 3]
    <3>1. /\ A \o B \in Seq(U) /\ Len(A \o B) = Len(A) + Len(B)
          /\ \A i \in 1 .. Len(A) + Len(B) :
               (A \o B)[i] = IF i <= Len(A) THEN A[i] ELSE B[i - Len(A)]
      BY <1>3, <1>4, ConcatProperties, Zenon
    <3> QED
      BY <1>3, <1>4, <3>1, Zenon
  <2>2. ASSUME NEW i \in 1..n PROVE (A \o B)[i + 3] = B[i]
    <3>1. i + 3 \in 1..(3 + n) /\ ~(i + 3 <= 3) /\ (i + 3) - 3 = i
      BY <1>1, <2>2
    <3> QED
      BY <2>1, <3>1
  <2> QED
    BY <1>1, <2>1, <2>2
<1>7. /\ Len((A \o B) \o C) = n + 4
      /\ \A i \in 1..(n + 3) : ((A \o B) \o C)[i] = (A \o B)[i]
      /\ ((A \o B) \o C)[n + 4] = C[1]
  <2>1. /\ Len((A \o B) \o C) = (n + 3) + 1
        /\ \A i \in 1..((n + 3) + 1) :
             ((A \o B) \o C)[i] = IF i <= n + 3 THEN (A \o B)[i] ELSE C[i - (n + 3)]
    <3> DEFINE D == A \o B
    <3>1. /\ D \o C \in Seq(U) /\ Len(D \o C) = Len(D) + Len(C)
          /\ \A i \in 1 .. Len(D) + Len(C) :
               (D \o C)[i] = IF i <= Len(D) THEN D[i] ELSE C[i - Len(D)]
      <4> D \in Seq(U)
        BY <1>6
      <4> HIDE DEF D
      <4> QED
        BY <1>5, ConcatProperties, Zenon
    <3> QED
      BY <1>5, <1>6, <3>1, Zenon
  <2>2. n + 4 \in 1..((n + 3) + 1) /\ ~(n + 4 <= n + 3) /\ (n + 4) - (n + 3) = 1
        /\ (n + 3) + 1 = n + 4
        /\ \A i \in 1..(n + 3) : i \in 1..((n + 3) + 1) /\ i <= n + 3
    BY <1>1
  <2> QED
    BY <2>1, <2>2
<1>8. /\ Len(Ranks(t)) = n + 4 /\ Ranks(t)[n + 4] = EndRank(t)
      /\ \A i \in 1..3 : Ranks(t)[i] = <<0, Number(t, i)>>
      /\ \A i \in 1..n : Ranks(t)[i + 3] = Rank(t.suffix[i])
  <2>1. \A i \in 1..3 : i \in 1..(n + 3)
    BY <1>1
  <2>2. \A i \in 1..n : i + 3 \in 1..(n + 3)
    BY <1>1
  <2> QED
    BY <1>2, <1>3, <1>4, <1>5, <1>6, <1>7, <2>1, <2>2
<1> QED
  BY <1>1, <1>8 DEF n

LEMMA NumberIsNat ==
  ASSUME VersionsAssumption, NEW t \in Tags, WellFormed(t), NEW i \in 1..3
  PROVE  Number(t, i) \in Nat
<1>1. t.numbers \in Seq(Nat \cup {NaN})
  BY DEF VersionsAssumption
<1>2. \A j \in 1..Len(t.numbers) : t.numbers[j] \in Nat
  BY <1>1 DEF WellFormed
<1>3. QED
  BY <1>1, <1>2 DEF Number

\* The places of two lists that stand for numbers.
LEMMA NumberRanks ==
  ASSUME VersionsAssumption, NEW a \in Tags, NEW b \in Tags, WellFormed(a), WellFormed(b),
         NEW i \in 1..3
  PROVE  /\ Below(Ranks(b)[i], Ranks(a)[i]) <=> Number(b, i) < Number(a, i)
         /\ Ranks(b)[i] = Ranks(a)[i] <=> Number(b, i) = Number(a, i)
<1>1. Number(a, i) \in Nat /\ Number(b, i) \in Nat
  BY NumberIsNat
<1>2. Ranks(a)[i] = <<0, Number(a, i)>> /\ Ranks(b)[i] = <<0, Number(b, i)>>
  BY RanksAre
<1> QED
  BY <1>1, <1>2 DEF Below

\* The first two numbers that differ decide.
LEMMA NumbersDecide ==
  ASSUME VersionsAssumption, NEW a \in Tags, NEW b \in Tags, WellFormed(a), WellFormed(b),
         NEW k \in 1..3, Number(a, k) # Number(b, k),
         \A i \in 1..(k - 1) : Number(a, i) = Number(b, i)
  PROVE  Precedes(b, a) <=> Number(b, k) < Number(a, k)
<1>1. /\ k \in 1..Len(Ranks(b)) /\ k <= Len(Ranks(a))
      /\ \A i \in 1..(k - 1) : i \in 1..3
      /\ Len(Ranks(b)) \in Nat
  BY RanksAre
<1>2. ASSUME Number(b, k) < Number(a, k) PROVE Precedes(b, a)
  <2>1. \A i \in 1..(k - 1) : Ranks(b)[i] = Ranks(a)[i]
    BY <1>1, NumberRanks
  <2>2. Below(Ranks(b)[k], Ranks(a)[k])
    BY <1>2, NumberRanks
  <2> QED
    BY <1>1, <2>1, <2>2 DEF Precedes
<1>3. ASSUME Precedes(b, a) PROVE Number(b, k) < Number(a, k)
  <2>1. PICK j \in 1..Len(Ranks(b)) : /\ Below(Ranks(b)[j], Ranks(a)[j])
                                      /\ \A i \in 1..(j - 1) : Ranks(b)[i] = Ranks(a)[i]
    BY <1>3 DEF Precedes
  <2>2. CASE j < k
    <3>1. j \in 1..3 /\ j \in 1..(k - 1)
      BY <1>1, <2>2
    <3>2. Number(a, j) \in Nat /\ Number(b, j) \in Nat
      BY <3>1, NumberIsNat
    <3> QED
      BY <2>1, <3>1, <3>2, NumberRanks
  <2>3. CASE j > k
    <3>1. k \in 1..(j - 1)
      BY <1>1, <2>3
    <3> QED
      BY <2>1, <3>1, NumberRanks
  <2>4. CASE j = k
    BY <2>1, <2>4, NumberRanks
  <2> QED
    BY <1>1, <2>2, <2>3, <2>4
<1> QED
  BY <1>2, <1>3

\* Between versions of the same numbers the suffixes decide.
LEMMA SuffixesDecide ==
  ASSUME VersionsAssumption, NEW a \in Tags, NEW b \in Tags, WellFormed(a), WellFormed(b),
         \A i \in 1..3 : Number(a, i) = Number(b, i)
  PROVE  Precedes(b, a) <=> CompareSuffix(a.suffix, b.suffix) > 0
<1> DEFINE x == a.suffix
           y == b.suffix
           m == Len(x)
           n == Len(y)
           Ra == Ranks(a)
           Rb == Ranks(b)
<1>1. /\ x \in Seq(Identifiers) /\ y \in Seq(Identifiers) /\ m \in Nat /\ n \in Nat
      /\ Len(Ra) = m + 4 /\ Len(Rb) = n + 4
      /\ \A i \in 1..m : Ra[i + 3] = Rank(x[i]) /\ x[i] \in Identifiers
      /\ \A i \in 1..n : Rb[i + 3] = Rank(y[i]) /\ y[i] \in Identifiers
      /\ Ra[m + 4] = EndRank(a) /\ Rb[n + 4] = EndRank(b)
      /\ m = 0 <=> x = <<>>
      /\ n = 0 <=> y = <<>>
  BY RanksAre
<1>2. \A i \in 1..3 : Rb[i] = Ra[i] /\ ~Below(Rb[i], Ra[i])
  <2> SUFFICES ASSUME NEW i \in 1..3 PROVE Rb[i] = Ra[i] /\ ~Below(Rb[i], Ra[i])
    OBVIOUS
  <2>1. Number(a, i) \in Nat /\ Number(a, i) = Number(b, i)
    BY NumberIsNat
  <2> QED
    BY <2>1, NumberRanks
\* What Precedes finds lies in the suffixes or at their ends.
<1>3. Precedes(b, a) <=> \E k \in Nat : Precedent(a, b, k)
  <2>1. ASSUME Precedes(b, a) PROVE \E k \in Nat : Precedent(a, b, k)
    <3>1. PICK j \in 1..Len(Rb) : /\ j <= Len(Ra) /\ Below(Rb[j], Ra[j])
                                  /\ \A i \in 1..(j - 1) : Rb[i] = Ra[i]
      BY <2>1 DEF Precedes
    <3>2. j > 3
      BY <1>1, <1>2, <3>1
    <3> DEFINE k == j - 3
    <3>3. k \in 1..(n + 1) /\ k <= m + 1 /\ k + 3 = j /\ \A i \in 1..(k - 1) : i + 3 \in 1..(j - 1)
      BY <1>1, <3>1, <3>2
    <3> HIDE DEF k
    <3>4. Precedent(a, b, k)
      BY <3>1, <3>3 DEF Precedent
    <3> QED
      BY <1>1, <3>3, <3>4
  <2>2. ASSUME NEW k \in Nat, Precedent(a, b, k) PROVE Precedes(b, a)
    <3>1. k \in 1..(n + 1) /\ k <= m + 1 /\ Below(Rb[k + 3], Ra[k + 3])
          /\ \A i \in 1..(k - 1) : Rb[i + 3] = Ra[i + 3]
      BY <2>2 DEF Precedent
    <3>2. k + 3 \in 1..Len(Rb) /\ k + 3 <= Len(Ra)
      BY <1>1, <3>1
    <3>3. ASSUME NEW i \in 1..((k + 3) - 1) PROVE Rb[i] = Ra[i]
      <4>1. CASE i <= 3
        BY <1>2, <3>3, <4>1
      <4>2. CASE i > 3
        <5>1. i - 3 \in 1..(k - 1) /\ (i - 3) + 3 = i
          BY <3>3, <4>2
        <5>2. Rb[(i - 3) + 3] = Ra[(i - 3) + 3]
          BY <3>1, <5>1
        <5> QED
          BY <5>1, <5>2
      <4> QED
        BY <3>3, <4>1, <4>2
    <3> QED
      BY <3>1, <3>2, <3>3 DEF Precedes
  <2> QED
    BY <2>1, <2>2
<1> HIDE DEF Ra, Rb
<1>4. ASSUME NEW k \in 1..m, NEW l \in 1..n
      PROVE  /\ CompareIdentifiers(x[k], y[l]) > 0 <=> Below(Rank(y[l]), Rank(x[k]))
             /\ CompareIdentifiers(x[k], y[l]) = 0 <=> Rank(x[k]) = Rank(y[l])
  BY <1>1, <1>4, IdentifierRank
<1>5. CASE x # <<>> /\ y # <<>>
  <2>1. CompareSuffix(x, y) = ComparePrerelease(x, y)
    BY <1>5 DEF CompareSuffix
  <2>2. CompareSuffix(x, y) > 0 <=> \E k \in Nat : Above(x, y, k)
    BY <1>1, <2>1, DecidingPlace
  <2>3. ASSUME NEW k \in Nat, Above(x, y, k) PROVE Precedent(a, b, k)
    <3>1. /\ k \in 1..m
          /\ \A i \in 1..(k - 1) : i <= n /\ CompareIdentifiers(x[i], y[i]) = 0
          /\ k = n + 1 \/ (k <= n /\ CompareIdentifiers(x[k], y[k]) > 0)
      BY <2>3 DEF Above
    <3>2. k \in 1..(n + 1) /\ k <= m + 1 /\ \A i \in 1..(k - 1) : i \in 1..m /\ i \in 1..n
      BY <1>1, <3>1
    <3>3. \A i \in 1..(k - 1) : Rb[i + 3] = Ra[i + 3]
      BY <1>1, <1>4, <3>1, <3>2
    <3>4. Below(Rb[k + 3], Ra[k + 3])
      <4>1. CASE k = n + 1
        <5>1. k + 3 = n + 4
          BY <1>1, <4>1
        <5>2. Rb[k + 3] = EndRank(b) /\ Ra[k + 3] = Rank(x[k]) /\ x[k] \in Identifiers
          BY <1>1, <3>1, <5>1
        <5> QED
          BY <1>5, <5>2, EndRanks
      <4>2. CASE k <= n /\ CompareIdentifiers(x[k], y[k]) > 0
        <5>1. k \in 1..n
          BY <3>1, <4>2
        <5> QED
          BY <1>1, <1>4, <3>1, <4>2, <5>1
      <4> QED
        BY <3>1, <4>1, <4>2
    <3> QED
      BY <3>2, <3>3, <3>4 DEF Precedent, Ra, Rb
  <2>4. ASSUME NEW k \in Nat, Precedent(a, b, k) PROVE Above(x, y, k)
    <3>1. k \in 1..(n + 1) /\ k <= m + 1 /\ Below(Rb[k + 3], Ra[k + 3])
          /\ \A i \in 1..(k - 1) : Rb[i + 3] = Ra[i + 3]
      BY <2>4 DEF Precedent, Ra, Rb
    <3>2. k # m + 1
      <4>1. SUFFICES ASSUME k = m + 1 PROVE FALSE
        OBVIOUS
      <4>2. k + 3 = m + 4
        BY <1>1, <4>1
      <4>3. Ra[k + 3] = EndRank(a)
        BY <1>1, <4>2
      <4>4. CASE k = n + 1
        <5>1. k + 3 = n + 4
          BY <1>1, <4>4
        <5>2. Rb[k + 3] = EndRank(b)
          BY <1>1, <5>1
        <5>3. \E e \in Identifiers : TRUE
          BY <1>1, <1>5
        <5>4. ~Below(EndRank(b), EndRank(a))
          BY <1>5, <5>3, EndRanks
        <5> QED
          BY <3>1, <4>3, <5>2, <5>4
      <4>5. CASE k \in 1..n
        <5>1. Rb[k + 3] = Rank(y[k]) /\ y[k] \in Identifiers
          BY <1>1, <4>5
        <5>2. ~Below(Rank(y[k]), EndRank(a))
          BY <1>5, <5>1, EndRanks
        <5> QED
          BY <3>1, <4>3, <5>1, <5>2
      <4> QED
        BY <1>1, <3>1, <4>4, <4>5
    <3>3. k \in 1..m /\ \A i \in 1..(k - 1) : i \in 1..m /\ i \in 1..n /\ i <= n
      BY <1>1, <3>1, <3>2
    <3>4. \A i \in 1..(k - 1) : CompareIdentifiers(x[i], y[i]) = 0
      BY <1>1, <1>4, <3>1, <3>3
    <3>5. k = n + 1 \/ (k <= n /\ CompareIdentifiers(x[k], y[k]) > 0)
      <4>1. CASE k = n + 1
        BY <4>1
      <4>2. CASE k \in 1..n
        <5>1. Below(Rank(y[k]), Rank(x[k])) /\ k <= n
          BY <1>1, <3>1, <3>3, <4>2
        <5> QED
          BY <1>4, <3>3, <4>2, <5>1
      <4> QED
        BY <1>1, <3>1, <4>1, <4>2
    <3> QED
      BY <3>3, <3>4, <3>5 DEF Above
  <2> QED
    BY <1>3, <2>2, <2>3, <2>4
\* An end stands where the other list has its first identifier.
<1>6. CASE x = <<>> \/ y = <<>>
  <2>1. ASSUME NEW k \in Nat, Precedent(a, b, k) PROVE k = 1 /\ Below(Rb[4], Ra[4])
    <3>1. k \in 1..(n + 1) /\ k <= m + 1 /\ Below(Rb[k + 3], Ra[k + 3])
      BY <2>1 DEF Precedent, Ra, Rb
    <3>2. k = 1 /\ k + 3 = 4
      BY <1>1, <1>6, <3>1
    <3> QED
      BY <3>1, <3>2
  <2>2. ASSUME Below(Rb[4], Ra[4]) PROVE Precedent(a, b, 1)
    <3>1. 1 \in 1..(n + 1) /\ 1 <= m + 1 /\ 1..(1 - 1) = {}
      BY <1>1
    <3>2. 1 + 3 = 4
      OBVIOUS
    <3> QED
      BY <2>2, <3>1, <3>2 DEF Precedent, Ra, Rb
  <2>3. Precedes(b, a) <=> Below(Rb[4], Ra[4])
    BY <1>3, <2>1, <2>2
  <2>4. CASE x = <<>> /\ y # <<>>
    <3>1. 1 \in 1..n /\ 1 + 3 = 4 /\ m + 4 = 4
      BY <1>1, <2>4
    <3>2. Ra[4] = EndRank(a) /\ Rb[4] = Rank(y[1]) /\ y[1] \in Identifiers
      BY <1>1, <3>1
    <3>3. Below(Rb[4], Ra[4])
      BY <2>4, <3>2, EndRanks
    <3>4. CompareSuffix(x, y) = 1
      BY <2>4 DEF CompareSuffix
    <3> QED
      BY <2>3, <3>3, <3>4
  <2>5. CASE x # <<>> /\ y = <<>>
    <3>1. 1 \in 1..m /\ 1 + 3 = 4 /\ n + 4 = 4
      BY <1>1, <2>5
    <3>2. Rb[4] = EndRank(b) /\ Ra[4] = Rank(x[1]) /\ x[1] \in Identifiers
      BY <1>1, <3>1
    <3>3. ~Below(Rb[4], Ra[4])
      BY <2>5, <3>2, EndRanks
    <3>4. CompareSuffix(x, y) = -1
      BY <2>5 DEF CompareSuffix
    <3> QED
      BY <2>3, <3>3, <3>4
  <2>6. CASE x = <<>> /\ y = <<>>
    <3>1. Ra[4] = EndRank(a) /\ Rb[4] = EndRank(b)
      BY <1>1, <2>6
    <3>2. ~Below(Rb[4], Ra[4])
      BY <2>6, <3>1 DEF EndRank, Below
    <3>3. CompareSuffix(x, y) = 0
      BY <2>6 DEF CompareSuffix
    <3> QED
      BY <2>3, <3>2, <3>3
  <2> QED
    BY <1>6, <2>4, <2>5, <2>6
<1> QED
  BY <1>5, <1>6

\* compareSemver is the precedence of semantic versioning.
LEMMA ComparedByRank ==
  ASSUME VersionsAssumption, NEW a \in Tags, NEW b \in Tags, WellFormed(a), WellFormed(b)
  PROVE  Compare(a, b) > 0 <=> Precedes(b, a)
<1>1. \A i \in 1..3 : Number(a, i) \in Nat /\ Number(b, i) \in Nat
  BY NumberIsNat
<1>2. CASE Number(a, 1) # Number(b, 1)
  <2>1. \A i \in 1..(1 - 1) : Number(a, i) = Number(b, i)
    OBVIOUS
  <2>2. Precedes(b, a) <=> Number(b, 1) < Number(a, 1)
    BY <1>2, <2>1, NumbersDecide
  <2> QED
    BY <1>1, <1>2, <2>2 DEF Compare, CmpInt
<1>3. CASE Number(a, 1) = Number(b, 1) /\ Number(a, 2) # Number(b, 2)
  <2>1. \A i \in 1..(2 - 1) : Number(a, i) = Number(b, i)
    BY <1>3
  <2>2. Precedes(b, a) <=> Number(b, 2) < Number(a, 2)
    BY <1>3, <2>1, NumbersDecide
  <2> QED
    BY <1>1, <1>3, <2>2 DEF Compare, CmpInt
<1>4. CASE /\ Number(a, 1) = Number(b, 1) /\ Number(a, 2) = Number(b, 2)
           /\ Number(a, 3) # Number(b, 3)
  <2>1. \A i \in 1..(3 - 1) : Number(a, i) = Number(b, i)
    BY <1>4
  <2>2. Precedes(b, a) <=> Number(b, 3) < Number(a, 3)
    BY <1>4, <2>1, NumbersDecide
  <2> QED
    BY <1>1, <1>4, <2>2 DEF Compare, CmpInt
<1>5. CASE /\ Number(a, 1) = Number(b, 1) /\ Number(a, 2) = Number(b, 2)
           /\ Number(a, 3) = Number(b, 3)
  <2>1. \A i \in 1..3 : Number(a, i) = Number(b, i)
    BY <1>5
  <2>2. Compare(a, b) = CompareSuffix(a.suffix, b.suffix)
    BY <1>5 DEF Compare
  <2> QED
    BY <2>1, <2>2, SuffixesDecide
<1> QED
  BY <1>2, <1>3, <1>4, <1>5

\* Versions that compare as equal are of the same precedence, and only those.
LEMMA EqualByRank ==
  ASSUME VersionsAssumption, NEW a \in Tags, NEW b \in Tags, WellFormed(a), WellFormed(b)
  PROVE  Ranks(a) = Ranks(b) <=> Compare(a, b) = 0
<1> DEFINE x == a.suffix
           y == b.suffix
<1>1. \A i \in 1..3 : Number(a, i) \in Nat /\ Number(b, i) \in Nat
  BY NumberIsNat
<1>2. /\ x \in Seq(Identifiers) /\ y \in Seq(Identifiers)
      /\ Len(x) \in Nat /\ Len(y) \in Nat
      /\ x = <<>> <=> Len(x) = 0
      /\ y = <<>> <=> Len(y) = 0
      /\ \A i \in 1..Len(x) : x[i] \in Identifiers
      /\ \A i \in 1..Len(y) : y[i] \in Identifiers
  BY DEF VersionsAssumption
<1>3. Compare(a, b) = 0 <=> /\ \A i \in 1..3 : Number(a, i) = Number(b, i)
                           /\ CompareSuffix(x, y) = 0
  BY <1>1 DEF Compare, CmpInt
<1>4. CompareSuffix(x, y) = 0 <=>
        Len(x) = Len(y) /\ \A i \in 1..Len(x) : CompareIdentifiers(x[i], y[i]) = 0
  <2>1. CASE x = <<>> \/ y = <<>>
    BY <1>2, <2>1 DEF CompareSuffix
  <2>2. CASE x # <<>> /\ y # <<>>
    <3>1. CompareSuffix(x, y) = ComparePrerelease(x, y)
      BY <2>2 DEF CompareSuffix
    <3>2. ComparePrerelease(x, y) = 0 <=> Differ(x, y) = {} /\ Len(x) = Len(y)
      BY <1>2 DEF ComparePrerelease, CmpInt
    <3>3. Len(x) = Len(y) => (Differ(x, y) = {} <=>
            \A i \in 1..Len(x) : CompareIdentifiers(x[i], y[i]) = 0)
      BY <1>2 DEF Differ
    <3> QED
      BY <3>1, <3>2, <3>3
  <2> QED
    BY <2>1, <2>2
<1>5. ASSUME Ranks(a) = Ranks(b)
      PROVE  /\ \A i \in 1..3 : Number(a, i) = Number(b, i)
             /\ Len(x) = Len(y) /\ \A i \in 1..Len(x) : CompareIdentifiers(x[i], y[i]) = 0
  <2>1. \A i \in 1..3 : Number(a, i) = Number(b, i)
    BY <1>5, NumberRanks
  <2>2. Len(x) + 4 = Len(y) + 4
    BY <1>5, RanksAre
  <2>3. Len(x) = Len(y)
    BY <1>2, <2>2
  <2>4. ASSUME NEW i \in 1..Len(x) PROVE CompareIdentifiers(x[i], y[i]) = 0
    <3>1. Ranks(a)[i + 3] = Rank(x[i]) /\ Ranks(b)[i + 3] = Rank(y[i])
      BY <2>3, <2>4, RanksAre
    <3> QED
      BY <1>2, <1>5, <2>3, <2>4, <3>1, IdentifierRank
  <2> QED
    BY <2>1, <2>3, <2>4
<1>6. ASSUME /\ \A i \in 1..3 : Number(a, i) = Number(b, i)
             /\ Len(x) = Len(y) /\ \A i \in 1..Len(x) : CompareIdentifiers(x[i], y[i]) = 0
      PROVE  Ranks(a) = Ranks(b)
  <2>1. [i \in 1..3 |-> <<0, Number(a, i)>>] = [i \in 1..3 |-> <<0, Number(b, i)>>]
    BY <1>6
  <2>2. \A i \in 1..Len(x) : Rank(x[i]) = Rank(y[i])
    BY <1>2, <1>6, IdentifierRank
  <2>3. [i \in 1..Len(x) |-> Rank(x[i])] = [i \in 1..Len(y) |-> Rank(y[i])]
    BY <1>6, <2>2
  <2>4. EndRank(a) = EndRank(b)
    BY <1>2, <1>6 DEF EndRank
  <2>5. /\ Ranks(a) = [i \in 1..3 |-> <<0, Number(a, i)>>] \o [i \in 1..Len(x) |-> Rank(x[i])]
                       \o << EndRank(a) >>
        /\ Ranks(b) = [i \in 1..3 |-> <<0, Number(b, i)>>] \o [i \in 1..Len(y) |-> Rank(y[i])]
                       \o << EndRank(b) >>
    BY DEF Ranks, Rank, EndRank
  <2> QED
    BY <2>1, <2>3, <2>4, <2>5
<1> QED
  BY <1>3, <1>4, <1>5, <1>6

-----------------------------------------------------------------------------
Inv == TypeOK /\ NeverBackwards

LEMMA InitInv == ASSUME Init PROVE Inv
BY DEF Init, Inv, TypeOK, NeverBackwards

\* Every update keeps the versions of the host in ascending order: the new one is
\* newer than the running one, and so than those before.
LEMMA NextInv ==
  ASSUME VersionsAssumption, Inv, [Next]_vars
  PROVE  Inv'
<1>1. CASE Publish
  BY <1>1 DEF Publish, Inv, TypeOK, NeverBackwards
<1>2. CASE ApplyNow
  <2> DEFINE n == Len(installed)
  <2>1. /\ installed \in Seq(Tags) /\ n \in Nat \ {0} /\ latest \in Tags
        /\ \A i \in 1..n : installed[i] \in Tags
    BY DEF Inv, TypeOK
  <2>2. /\ installed' \in Seq(Tags) /\ Len(installed') = n + 1 /\ installed'[n + 1] = latest
        /\ \A i \in 1..n : installed'[i] = installed[i]
    BY <1>2, <2>1 DEF ApplyNow
  <2>3. TypeOK'
    BY <1>2, <2>1, <2>2 DEF ApplyNow, TypeOK
  <2>4. ASSUME NEW i \in 1..n PROVE IsVersionNewer(latest, installed[i])
    <3>1. IsVersionNewer(latest, installed[n])
      BY <1>2 DEF ApplyNow, current
    <3>2. CASE i = n
      BY <3>1, <3>2
    <3>3. CASE i < n
      <4>1. IsVersionNewer(installed[n], installed[i])
        BY <2>1, <3>3 DEF Inv, NeverBackwards
      <4>2. QED
        BY <2>1, <3>1, <4>1, NewerOrder
    <3>4. QED
      BY <2>1, <3>2, <3>3
  <2>5. ASSUME NEW i \in 1..(n + 1), NEW j \in 1..(n + 1), i < j
        PROVE  IsVersionNewer(installed'[j], installed'[i])
    <3>1. CASE j = n + 1
      BY <2>1, <2>2, <2>4, <2>5, <3>1
    <3>2. CASE j \in 1..n
      <4>1. i \in 1..n
        BY <2>1, <2>5, <3>2
      <4>2. IsVersionNewer(installed[j], installed[i])
        BY <2>5, <3>2, <4>1 DEF Inv, NeverBackwards
      <4>3. QED
        BY <2>2, <3>2, <4>1, <4>2
    <3>3. QED
      BY <2>1, <3>1, <3>2
  <2>6. ASSUME NEW i \in 1..(n + 1), NEW j \in 1..(n + 1), i < j
        PROVE  ~IsVersionNewer(installed'[i], installed'[j])
    <3>1. installed'[i] \in Tags /\ installed'[j] \in Tags
      BY <2>1, <2>2
    <3>2. QED
      BY <2>5, <2>6, <3>1, NewerOrder
  <2>7. \A i, j \in 1..(n + 1) : i < j => /\ IsVersionNewer(installed'[j], installed'[i])
                                         /\ ~IsVersionNewer(installed'[i], installed'[j])
    BY <2>5, <2>6
  <2> HIDE DEF n
  <2>8. NeverBackwards'
    BY <2>2, <2>7 DEF NeverBackwards, IsVersionNewer, WellFormed, Compare, Number
  <2>9. QED
    BY <2>3, <2>8 DEF Inv
<1>3. CASE UNCHANGED vars
  BY <1>3 DEF vars, Inv, TypeOK, NeverBackwards
<1>4. QED
  BY <1>1, <1>2, <1>3 DEF Next

\* However releases are published, renamed and withdrawn, what the running version is
\* compared with is ordered by the precedence of semantic versioning.
LEMMA InvSound ==
  ASSUME VersionsAssumption, Inv
  PROVE  TypeOK /\ NeverBackwards /\ PrecedenceKept
<1>1. latest \in Tags /\ current \in Tags
  BY DEF Inv, TypeOK, current
<1>2. ASSUME WellFormed(latest), WellFormed(current)
      PROVE  /\ IsVersionNewer(latest, current) <=> Precedes(current, latest)
             /\ IsVersionNewer(current, latest) <=> Precedes(latest, current)
             /\ Ranks(latest) = Ranks(current) <=> Compare(latest, current) = 0
  BY <1>1, <1>2, ComparedByRank, EqualByRank DEF IsVersionNewer
<1> QED
  BY <1>2 DEF Inv, PrecedenceKept

\* However releases are published, renamed and withdrawn, a chain of updates of
\* any length only goes forward: no host is brought back to a version it ran.
THEOREM UpdatesOnlyGoForward ==
  ASSUME VersionsAssumption
  PROVE  Spec => []NeverBackwards
<1>1. Init => Inv
  BY InitInv
<1>2. Inv /\ [Next]_vars => Inv'
  BY NextInv
<1>3. Inv => NeverBackwards
  BY DEF Inv
<1>4. QED
  BY <1>1, <1>2, <1>3, PTL DEF Spec
=============================================================================
