-------------------------- MODULE IniSectionProofs --------------------------
(***************************************************************************)
(* What the functions of IniSection do to sections of any length.          *)
(***************************************************************************)
EXTENDS IniSection, FiniteSetTheorems, SequenceTheorems, TLAPS

-----------------------------------------------------------------------------
(* Places and their ranks.                                                 *)

\* The rank of a place is its number among the places.
LEMMA RankBounds ==
    ASSUME NEW S \in SUBSET Int, IsFiniteSet(S), NEW i \in S
    PROVE  Rank(S, i) \in 1 .. Cardinality(S)
  <1> DEFINE upTo == {j \in S : j <= i}
  <1>1. IsFiniteSet(upTo) /\ Cardinality(upTo) <= Cardinality(S)
    BY FS_Subset
  <1>2. upTo # {}
    OBVIOUS
  <1>3. Cardinality(upTo) # 0
    BY <1>1, <1>2, FS_EmptySet
  <1>4. Cardinality(upTo) \in Nat /\ Cardinality(S) \in Nat
    BY <1>1, FS_CardinalityType
  <1> QED BY <1>1, <1>3, <1>4 DEF Rank

\* A later place has a higher rank.
LEMMA RankGrows ==
    ASSUME NEW S \in SUBSET Int, IsFiniteSet(S), NEW i \in S, NEW j \in S, i < j
    PROVE  Rank(S, i) < Rank(S, j)
  <1> DEFINE upTo(k) == {m \in S : m <= k}
  <1>1. IsFiniteSet(upTo(j))
    BY FS_Subset
  <1>2. upTo(i) \in SUBSET upTo(j)
    <2>1. \A m \in S : m <= i => m <= j
      OBVIOUS
    <2> QED BY <2>1
  <1>3. j \in upTo(j) /\ j \notin upTo(i)
    OBVIOUS
  <1>4. /\ Cardinality(upTo(i)) <= Cardinality(upTo(j))
        /\ Cardinality(upTo(i)) # Cardinality(upTo(j))
    BY <1>1, <1>2, <1>3, FS_Subset
  <1>5. Rank(S, i) \in Nat /\ Rank(S, j) \in Nat
    BY RankBounds, FS_CardinalityType
  <1> QED BY <1>4, <1>5 DEF Rank

\* Every number up to that of the places is the rank of one of them.
LEMMA RankIsOnto ==
    ASSUME NEW S \in SUBSET Int, IsFiniteSet(S), NEW n \in 1 .. Cardinality(S)
    PROVE  \E i \in S : Rank(S, i) = n
  <1> DEFINE T == 1 .. Cardinality(S)
             f == [i \in S |-> Rank(S, i)]
  <1>1. Cardinality(S) \in Nat
    BY FS_CardinalityType
  <1>2. IsFiniteSet(T) /\ Cardinality(T) = Cardinality(S)
    BY <1>1, FS_Interval
  <1>3. f \in [S -> T]
    BY RankBounds
  <1>4. ASSUME NEW i \in S, NEW j \in S, f[i] = f[j] PROVE i = j
    <2>1. f[i] \in Int /\ f[j] \in Int
      BY <1>1, <1>3
    <2>2. ~ i < j /\ ~ j < i
      BY <1>4, <2>1, RankGrows
    <2> QED BY <2>2
  <1>5. f \in Injection(S, T)
    BY <1>3, <1>4 DEF Injection, IsInjective
  <1>6. f \in Surjection(S, T)
    BY <1>2, <1>5, FS_Injection
  <1>7. PICK i \in S : f[i] = n
    BY <1>6 DEF Surjection
  <1> QED BY <1>7

\* So the n-th place is the one whose rank is n.
LEMMA NthHasRank ==
    ASSUME NEW S \in SUBSET Int, IsFiniteSet(S), NEW n \in 1 .. Cardinality(S)
    PROVE  Nth(S, n) \in S /\ Rank(S, Nth(S, n)) = n
  BY RankIsOnto DEF Nth

LEMMA NthOfRank ==
    ASSUME NEW S \in SUBSET Int, IsFiniteSet(S), NEW i \in S
    PROVE  Nth(S, Rank(S, i)) = i
  <1>1. Rank(S, i) \in 1 .. Cardinality(S) /\ Cardinality(S) \in Nat
    BY RankBounds, FS_CardinalityType
  <1>2. PICK k : k = Nth(S, Rank(S, i))
    OBVIOUS
  <1>3. k \in S /\ Rank(S, k) = Rank(S, i)
    BY <1>1, <1>2, NthHasRank
  <1>4. ~ i < k
    <2>1. i < k => Rank(S, i) < Rank(S, k)
      BY <1>3, RankGrows
    <2> QED BY <1>1, <1>3, <2>1
  <1>5. ~ k < i
    <2>1. k < i => Rank(S, k) < Rank(S, i)
      BY <1>3, RankGrows
    <2> QED BY <1>1, <1>3, <2>1
  <1>6. k \in Int /\ i \in Int
    BY <1>3
  <1> QED BY <1>2, <1>4, <1>5, <1>6

\* The first and the last of some places.
LEMMA MinIsLeast ==
    ASSUME NEW S \in SUBSET Int, IsFiniteSet(S), S # {}
    PROVE  Min(S) \in S /\ \A i \in S : Min(S) <= i
  <1>1. Cardinality(S) \in Nat \ {0}
    BY FS_CardinalityType, FS_EmptySet
  <1>2. PICK m \in S : Rank(S, m) = 1
    BY <1>1, RankIsOnto
  <1>3. ASSUME NEW i \in S PROVE m <= i
    <2>1. Rank(S, i) \in 1 .. Cardinality(S)
      BY RankBounds
    <2>2. i < m => Rank(S, i) < Rank(S, m)
      BY RankGrows
    <2> QED BY <1>1, <1>2, <2>1, <2>2
  <1> QED BY <1>3 DEF Min

LEMMA MaxIsGreatest ==
    ASSUME NEW S \in SUBSET Int, IsFiniteSet(S), S # {}
    PROVE  Max(S) \in S /\ \A i \in S : i <= Max(S)
  <1>1. Cardinality(S) \in Nat \ {0}
    BY FS_CardinalityType, FS_EmptySet
  <1>2. PICK m \in S : Rank(S, m) = Cardinality(S)
    BY <1>1, RankIsOnto
  <1>3. ASSUME NEW i \in S PROVE m >= i
    <2>1. Rank(S, i) \in 1 .. Cardinality(S)
      BY RankBounds
    <2>2. m < i => Rank(S, m) < Rank(S, i)
      BY RankGrows
    <2> QED BY <1>1, <1>2, <2>1, <2>2
  <1> QED BY <1>3 DEF Max

LEMMA IntervalSize ==
    ASSUME NEW n \in Nat
    PROVE  IsFiniteSet(1 .. n) /\ Cardinality(1 .. n) = n
  <1>1. IsFiniteSet(1 .. n) /\ Cardinality(1 .. n) = IF 1 > n THEN 0 ELSE n - 1 + 1
    BY FS_Interval
  <1> QED BY <1>1

\* Of the places from one on, each is its own rank.
LEMMA RankInInterval ==
    ASSUME NEW n \in Nat, NEW i \in 1 .. n
    PROVE  Rank(1 .. n, i) = i
  <1>1. {j \in 1 .. n : j <= i} = 1 .. i
    OBVIOUS
  <1>2. Cardinality(1 .. i) = i
    BY IntervalSize
  <1> QED BY <1>1, <1>2 DEF Rank

-----------------------------------------------------------------------------
(* The lines at some places, and those of a key.                           *)

LEMMA IsSequence ==
    ASSUME NEW R, NEW n \in Nat, NEW f \in [1 .. n -> R]
    PROVE  f \in Seq(R) /\ Len(f) = n
  OBVIOUS

LEMMA WiderSeq ==
    ASSUME NEW S, NEW R, S \subseteq R, NEW s \in Seq(S)
    PROVE  s \in Seq(R)
  <1>1. Len(s) \in Nat /\ s \in [1 .. Len(s) -> S]
    BY LenProperties
  <1>2. s \in [1 .. Len(s) -> R]
    BY <1>1
  <1> QED BY <1>1, <1>2, IsSequence

LEMMA PlacesAreFinite ==
    ASSUME NEW R, NEW lines \in Seq(R), NEW S \in SUBSET DOMAIN lines
    PROVE  /\ S \in SUBSET Int /\ IsFiniteSet(S)
           /\ Cardinality(S) \in 0 .. Len(lines)
  <1>1. Len(lines) \in Nat /\ DOMAIN lines = 1 .. Len(lines)
    BY LenProperties
  <1>2. IsFiniteSet(1 .. Len(lines)) /\ Cardinality(1 .. Len(lines)) = Len(lines)
    BY <1>1, IntervalSize
  <1>3. IsFiniteSet(S) /\ Cardinality(S) <= Len(lines)
    BY <1>1, <1>2, FS_Subset
  <1> QED BY <1>1, <1>3, FS_CardinalityType

LEMMA AtPlaces ==
    ASSUME NEW R, NEW lines \in Seq(R), NEW S \in SUBSET DOMAIN lines
    PROVE  /\ At(lines, S) \in Seq(R)
           /\ Len(At(lines, S)) = Cardinality(S)
           /\ \A n \in 1 .. Cardinality(S) :
                 Nth(S, n) \in S /\ At(lines, S)[n] = lines[Nth(S, n)]
           /\ \A i \in S : /\ Rank(S, i) \in 1 .. Cardinality(S)
                           /\ At(lines, S)[Rank(S, i)] = lines[i]
  <1>1. S \in SUBSET Int /\ IsFiniteSet(S) /\ Cardinality(S) \in Nat
    BY PlacesAreFinite
  <1>2. \A n \in 1 .. Cardinality(S) : Nth(S, n) \in S
    BY <1>1, NthHasRank
  <1>3. \A i \in S : lines[i] \in R
    BY LenProperties, ElementOfSeq
  <1>4. \A n \in 1 .. Cardinality(S) : lines[Nth(S, n)] \in R
    BY <1>2, <1>3
  <1>5. At(lines, S) \in [1 .. Cardinality(S) -> R]
    BY <1>4 DEF At
  <1>6. At(lines, S) \in Seq(R) /\ Len(At(lines, S)) = Cardinality(S)
    BY <1>1, <1>5
  <1>7. \A n \in 1 .. Cardinality(S) : At(lines, S)[n] = lines[Nth(S, n)]
    BY DEF At
  <1>8. \A i \in S : Rank(S, i) \in 1 .. Cardinality(S) /\ Nth(S, Rank(S, i)) = i
    BY <1>1, RankBounds, NthOfRank
  <1> QED BY <1>2, <1>6, <1>7, <1>8

\* The lines at all places are all lines.
LEMMA AtAll ==
    ASSUME NEW R, NEW lines \in Seq(R)
    PROVE  At(lines, DOMAIN lines) = lines
  <1>1. Len(lines) \in Nat /\ DOMAIN lines = 1 .. Len(lines)
    BY LenProperties
  <1>2. Cardinality(DOMAIN lines) = Len(lines)
    BY <1>1, IntervalSize
  <1>3. \A i \in 1 .. Len(lines) : Rank(DOMAIN lines, i) = i
    BY <1>1, RankInInterval
  <1>4. \A i \in 1 .. Len(lines) : At(lines, DOMAIN lines)[i] = lines[i]
    BY <1>1, <1>3, AtPlaces
  <1> QED BY <1>2, <1>4, AtPlaces, SeqEqual

\* An array has the values of the lines at some places, in their order.
HasValues(array, lines, places, V) ==
    /\ array \in Seq(V)
    /\ Len(array) = Cardinality(places)
    /\ \A n \in 1 .. Cardinality(places) :
          Nth(places, n) \in places /\ array[n] = lines[Nth(places, n)].value
    /\ \A i \in places : /\ Rank(places, i) \in 1 .. Cardinality(places)
                         /\ array[Rank(places, i)] = lines[i].value

\* getAsArray returns the values of all lines of the key.
LEMMA ArrayOfPlaces ==
    ASSUME NEW K, NEW V, NEW lines \in Seq([key : K, value : V]), NEW key
    PROVE  HasValues(GetAsArray(lines, key, <<>>), lines, Places(lines, key), V)
  <1> DEFINE R == [key : K, value : V]
             P == Places(lines, key)
             found == At(lines, P)
             array == GetAsArray(lines, key, <<>>)
  <1>1. P \in SUBSET DOMAIN lines
    BY DEF Places
  <1> HIDE DEF P
  <1>2. Cardinality(P) \in Nat
    BY <1>1, PlacesAreFinite
  <1>3. /\ found \in Seq(R) /\ Len(found) = Cardinality(P)
        /\ \A n \in 1 .. Cardinality(P) : Nth(P, n) \in P /\ found[n] = lines[Nth(P, n)]
        /\ \A i \in P : Rank(P, i) \in 1 .. Cardinality(P) /\ found[Rank(P, i)] = lines[i]
    BY <1>1, AtPlaces
  <1>4. array = IF found = <<>> THEN <<>> ELSE [n \in DOMAIN found |-> found[n].value]
    BY DEF GetAsArray, P
  <1> HIDE DEF found, array
  <1>5. \A n \in 1 .. Cardinality(P) : found[n].value \in V
    <2> SUFFICES ASSUME NEW n \in 1 .. Cardinality(P) PROVE found[n].value \in V
      OBVIOUS
    <2>1. found[n] \in R
      BY <1>3, ElementOfSeq
    <2> QED BY <2>1
  <1>6. CASE found = <<>>
    <2>1. array = <<>> /\ Cardinality(P) = 0
      BY <1>3, <1>4, <1>6, EmptySeq
    <2>2. array \in Seq(V) /\ Len(array) = 0
      BY <2>1, EmptySeq
    <2> QED BY <1>3, <2>1, <2>2 DEF P, array, HasValues
  <1>7. CASE found # <<>>
    <2>1. DOMAIN found = 1 .. Cardinality(P)
      BY <1>3, LenProperties
    <2>2. array = [n \in 1 .. Cardinality(P) |-> found[n].value]
      BY <1>4, <1>7, <2>1
    <2>3. array \in [1 .. Cardinality(P) -> V]
      BY <1>5, <2>2
    <2>4. array \in Seq(V) /\ Len(array) = Cardinality(P)
      BY <1>2, <2>3
    <2>5. /\ \A n \in 1 .. Cardinality(P) :
                Nth(P, n) \in P /\ array[n] = lines[Nth(P, n)].value
          /\ \A i \in P : /\ Rank(P, i) \in 1 .. Cardinality(P)
                          /\ array[Rank(P, i)] = lines[i].value
      BY <1>3, <2>2
    <2> QED BY <2>4, <2>5 DEF P, array, HasValues
  <1> QED BY <1>6, <1>7

\* Sections that agree on the lines of a key agree on what is read of it.
Alike(one, other, key) ==
    /\ Places(one, key) = Places(other, key)
    /\ \A i \in Places(one, key) : one[i].value = other[i].value

LEMMA ReadsAlike ==
    ASSUME NEW R, NEW one \in Seq(R), NEW other \in Seq(R), NEW key,
           Alike(one, other, key)
    PROVE  GetAsArray(one, key, <<>>) = GetAsArray(other, key, <<>>)
  <1>1. PICK P : P = Places(one, key)
    OBVIOUS
  <1>2. P = Places(other, key) /\ \A i \in P : one[i].value = other[i].value
    BY <1>1 DEF Alike
  <1>3. P \in SUBSET DOMAIN one /\ P \in SUBSET DOMAIN other
    BY <1>1, <1>2 DEF Places
  <1>4. PICK found : found = At(one, P)
    OBVIOUS
  <1>5. PICK found2 : found2 = At(other, P)
    OBVIOUS
  <1>6. /\ found \in Seq(R) /\ Len(found) = Cardinality(P)
        /\ \A n \in 1 .. Cardinality(P) : Nth(P, n) \in P /\ found[n] = one[Nth(P, n)]
    BY <1>3, <1>4, AtPlaces
  <1>7. /\ found2 \in Seq(R) /\ Len(found2) = Cardinality(P)
        /\ \A n \in 1 .. Cardinality(P) : Nth(P, n) \in P /\ found2[n] = other[Nth(P, n)]
    BY <1>3, <1>5, AtPlaces
  <1>8. DOMAIN found = 1 .. Cardinality(P) /\ DOMAIN found2 = 1 .. Cardinality(P)
    BY <1>6, <1>7, LenProperties
  <1>9. \A n \in 1 .. Cardinality(P) : found[n].value = found2[n].value
    BY <1>2, <1>6, <1>7
  <1>10. found = <<>> <=> found2 = <<>>
    BY <1>6, <1>7, EmptySeq
  <1>11. [n \in DOMAIN found |-> found[n].value] = [n \in DOMAIN found2 |-> found2[n].value]
    BY <1>8, <1>9
  <1> QED BY <1>1, <1>2, <1>4, <1>5, <1>10, <1>11 DEF GetAsArray

\* The first line of a key is one, and there is none before.
LEMMA FirstIsPlace ==
    ASSUME NEW R, NEW lines \in Seq(R), NEW key
    PROVE  /\ First(lines, key) = 0 <=> Places(lines, key) = {}
           /\ First(lines, key) # 0 =>
                /\ First(lines, key) \in Places(lines, key)
                /\ First(lines, key) \in 1 .. Len(lines)
                /\ lines[First(lines, key)].key = key
           /\ \A i \in Places(lines, key) : First(lines, key) <= i
  <1>1. Places(lines, key) \in SUBSET DOMAIN lines
    BY DEF Places
  <1>2. DOMAIN lines = 1 .. Len(lines)
    BY LenProperties
  <1>3. CASE Places(lines, key) = {}
    BY <1>3 DEF First
  <1>4. CASE Places(lines, key) # {}
    <2>1. /\ First(lines, key) \in Places(lines, key)
          /\ \A i \in Places(lines, key) : First(lines, key) <= i
      BY <1>1, <1>4, PlacesAreFinite, MinIsLeast DEF First
    <2>2. First(lines, key) \in 1 .. Len(lines) /\ lines[First(lines, key)].key = key
      BY <1>1, <1>2, <2>1 DEF Places
    <2> QED BY <1>4, <2>1, <2>2
  <1> QED BY <1>3, <1>4

-----------------------------------------------------------------------------
(* set with a text.                                                        *)

\* A key has no more than one line.
AtMostOne(lines, key) == \A i, j \in Places(lines, key) : i = j

\* What was set is what is read, the lines of other keys and the later lines of
\* the key are what they were.
HasScalar(new, lines, key, value) ==
    /\ Places(new, key) # {}
    /\ \A default : Get(new, key, default) = value
    /\ \A k : k # key => /\ Places(new, k) = Places(lines, k)
                        /\ \A i \in Places(lines, k) : new[i] = lines[i]
    /\ \A i \in Places(new, key) :
          new[i].value = value \/ (i \in Places(lines, key) /\ new[i] = lines[i])
    /\ AtMostOne(lines, key) => AtMostOne(new, key)

THEOREM ScalarIsSet ==
    ASSUME NEW K, NEW V, NEW lines \in Seq([key : K, value : V]),
           NEW key \in K, NEW value \in V
    PROVE  /\ SetScalar(lines, key, value) \in Seq([key : K, value : V])
           /\ HasScalar(SetScalar(lines, key, value), lines, key, value)
  <1> DEFINE R == [key : K, value : V]
             new == SetScalar(lines, key, value)
  <1>1. Len(lines) \in Nat /\ DOMAIN lines = 1 .. Len(lines)
    BY LenProperties
  <1>0. PICK f : f = First(lines, key)
    OBVIOUS
  <1>2. CASE f = 0
    <2>1. new = Append(lines, Line(key, value)) /\ Line(key, value) \in R
      BY <1>0, <1>2 DEF SetScalar, AppendLine, Line
    <2> HIDE DEF new
    <2>2. /\ new \in Seq(R) /\ Len(new) = Len(lines) + 1
          /\ \A i \in 1 .. Len(lines) : new[i] = lines[i]
          /\ new[Len(lines) + 1] = Line(key, value)
      BY <2>1, AppendProperties
    <2>3. DOMAIN new = 1 .. Len(lines) + 1
      BY <2>2, LenProperties
    <2>4. Places(lines, key) = {}
      BY <1>0, <1>2, FirstIsPlace
    <2>5. Places(new, key) = {Len(lines) + 1}
      BY <1>1, <2>2, <2>3, <2>4 DEF Places, Line
    <2>6. First(new, key) = Len(lines) + 1
      <3>1. First(new, key) \in Places(new, key)
        BY <2>2, <2>5, FirstIsPlace
      <3> QED BY <2>5, <3>1
    <2>7. \A default : Get(new, key, default) = value
      BY <1>1, <2>2, <2>6 DEF Get, Line
    <2>8. \A k : k # key => /\ Places(new, k) = Places(lines, k)
                           /\ \A i \in Places(lines, k) : new[i] = lines[i]
      BY <1>1, <2>2, <2>3 DEF Places, Line
    <2>9. \A i \in Places(new, key) : new[i].value = value
      BY <2>2, <2>5 DEF Line
    <2>10. AtMostOne(new, key)
      BY <2>5 DEF AtMostOne
    <2> QED BY <2>2, <2>5, <2>7, <2>8, <2>9, <2>10 DEF new, HasScalar
  <1>3. CASE f # 0
    <2>1. f \in Places(lines, key) /\ f \in 1 .. Len(lines) /\ lines[f].key = key
      BY <1>0, <1>3, FirstIsPlace
    <2>2. new = [lines EXCEPT ![f].value = value]
      BY <1>0, <1>3 DEF SetScalar
    <2>3. lines[f] \in R
      BY <2>1, ElementOfSeq
    <2> DEFINE line == [lines[f] EXCEPT !.value = value]
    <2>4. line \in R /\ line.key = key /\ line.value = value
      BY <2>1, <2>3
    <2>5. new = [lines EXCEPT ![f] = line]
      BY <2>2
    <2> HIDE DEF new, line
    <2>6. /\ new \in Seq(R) /\ Len(new) = Len(lines)
          /\ \A i \in 1 .. Len(lines) : new[i] = IF i = f THEN line ELSE lines[i]
      BY <2>1, <2>4, <2>5, ExceptSeq
    <2>7. DOMAIN new = 1 .. Len(lines)
      BY <2>6, LenProperties
    <2>8. \A k : Places(new, k) = Places(lines, k)
      BY <1>1, <2>1, <2>4, <2>6, <2>7 DEF Places
    <2>9. First(new, key) = f
      BY <1>0, <2>8 DEF First
    <2>10. \A default : Get(new, key, default) = value
      BY <1>3, <2>1, <2>4, <2>6, <2>9 DEF Get
    <2>11. \A k : k # key => \A i \in Places(lines, k) : new[i] = lines[i]
      BY <1>1, <2>1, <2>6 DEF Places
    <2>12. \A i \in Places(new, key) :
              new[i].value = value \/ (i \in Places(lines, key) /\ new[i] = lines[i])
      BY <1>1, <2>4, <2>6, <2>8 DEF Places
    <2>13. AtMostOne(lines, key) => AtMostOne(new, key)
      BY <2>8 DEF AtMostOne
    <2> QED BY <2>1, <2>6, <2>8, <2>10, <2>11, <2>12, <2>13 DEF new, HasScalar
  <1> QED BY <1>2, <1>3

-----------------------------------------------------------------------------
(* set with a list.                                                        *)

\* Lines keep their keys, and those of the key take the values by their ranks.
TakesValues(set, lines, key, values) ==
    /\ Len(set) = Len(lines)
    /\ \A i \in 1 .. Len(lines) :
          /\ set[i].key = lines[i].key
          /\ set[i] = IF i \in Places(lines, key) /\ Rank(Places(lines, key), i) <= Len(values)
                       THEN Line(key, values[Rank(Places(lines, key), i)]) ELSE lines[i]

LEMMA FoundAreSet ==
    ASSUME NEW K, NEW V, NEW lines \in Seq([key : K, value : V]),
           NEW key \in K, NEW values \in Seq(V)
    PROVE  /\ SetFound(lines, key, values) \in Seq([key : K, value : V])
           /\ TakesValues(SetFound(lines, key, values), lines, key, values)
  <1> DEFINE R == [key : K, value : V]
             P == Places(lines, key)
             set == SetFound(lines, key, values)
  <1>1. Len(lines) \in Nat /\ DOMAIN lines = 1 .. Len(lines) /\ Len(values) \in Nat
    BY LenProperties
  <1>2. P \in SUBSET DOMAIN lines /\ \A i \in P : lines[i].key = key
    BY DEF Places
  <1>3. P \in SUBSET Int /\ IsFiniteSet(P) /\ Cardinality(P) \in Nat
    BY <1>2, PlacesAreFinite
  <1>4. \A i \in 1 .. Len(lines) : lines[i] \in R
    BY ElementOfSeq
  <1>5. set = [i \in 1 .. Len(lines) |->
                  IF i \in P /\ Rank(P, i) <= Len(values)
                  THEN Line(key, values[Rank(P, i)]) ELSE lines[i]]
    BY <1>1 DEF SetFound
  <1> HIDE DEF set, P
  <1>6. ASSUME NEW i \in P, Rank(P, i) <= Len(values)
        PROVE  Line(key, values[Rank(P, i)]) \in R
    <2>1. Rank(P, i) \in 1 .. Len(values)
      BY <1>1, <1>3, <1>6, RankBounds
    <2>2. values[Rank(P, i)] \in V
      BY <2>1, ElementOfSeq
    <2> QED BY <2>2 DEF Line
  <1>7. \A i \in 1 .. Len(lines) : set[i] \in R
    BY <1>4, <1>5, <1>6
  <1>8. set \in [1 .. Len(lines) -> R]
    BY <1>5, <1>7
  <1>9. set \in Seq(R) /\ Len(set) = Len(lines)
    BY <1>1, <1>8
  <1>10. \A i \in 1 .. Len(lines) :
            /\ set[i].key = lines[i].key
            /\ set[i] = IF i \in P /\ Rank(P, i) <= Len(values)
                         THEN Line(key, values[Rank(P, i)]) ELSE lines[i]
    BY <1>2, <1>5 DEF Line
  <1> QED BY <1>9, <1>10 DEF set, P, TakesValues

\* To set what was read changes nothing.
THEOREM ListAsRead ==
    ASSUME NEW K, NEW V, NEW lines \in Seq([key : K, value : V]), NEW key \in K
    PROVE  SetList(lines, key, GetAsArray(lines, key, <<>>)) = lines
  <1> DEFINE R == [key : K, value : V]
             P == Places(lines, key)
             values == GetAsArray(lines, key, <<>>)
             set == SetFound(lines, key, values)
  <1>1. HasValues(values, lines, P, V)
    BY ArrayOfPlaces
  <1>2. P \in SUBSET DOMAIN lines /\ \A i \in P : lines[i].key = key
    BY DEF Places
  <1>3. Cardinality(P) \in Nat
    BY <1>2, PlacesAreFinite
  <1>4. Len(lines) \in Nat /\ DOMAIN lines = 1 .. Len(lines)
    BY LenProperties
  <1> HIDE DEF P, values
  <1>5. values \in Seq(V) /\ Len(values) = Cardinality(P)
    BY <1>1 DEF HasValues
  <1>6. set \in Seq(R) /\ TakesValues(set, lines, key, values)
    BY <1>5, FoundAreSet
  <1> HIDE DEF set
  <1>7. \A i \in P : /\ Rank(P, i) \in 1 .. Cardinality(P)
                    /\ values[Rank(P, i)] = lines[i].value
    BY <1>1 DEF HasValues
  <1>8. \A i \in 1 .. Len(lines) : set[i] = lines[i]
    <2> SUFFICES ASSUME NEW i \in 1 .. Len(lines), i \in P
                 PROVE  set[i] = lines[i]
      BY <1>6 DEF TakesValues, P
    <2>1. lines[i] \in R /\ lines[i].key = key
      BY <1>2, ElementOfSeq
    <2>2. set[i] = Line(key, lines[i].value)
      BY <1>3, <1>5, <1>6, <1>7 DEF TakesValues, P
    <2> QED BY <2>1, <2>2 DEF Line
  <1>9. set = lines
    BY <1>6, <1>8, SeqEqual DEF TakesValues
  <1>10. Removed(Surplus(lines, key, values)) = {}
    <2>1. Surplus(lines, key, values) = {}
      BY <1>3, <1>5, <1>7 DEF Surplus, P
    <2> QED BY <2>1 DEF Removed
  <1>11. SetList(lines, key, values) = At(set, DOMAIN lines \ Removed(Surplus(lines, key, values)))
    BY <1>3, <1>5 DEF SetList, P, set
  <1> QED BY <1>9, <1>10, <1>11, AtAll DEF values

\* A sequence put into another before one of its places.
IsPutBefore(w, s, t, m) ==
    /\ Len(w) = Len(s) + Len(t)
    /\ \A i \in 1 .. Len(w) : w[i] = IF i < m THEN s[i]
                                    ELSE IF i < m + Len(t) THEN t[i - m + 1]
                                    ELSE s[i - Len(t)]

LEMMA PutBefore ==
    ASSUME NEW R, NEW s \in Seq(R), NEW t \in Seq(R), NEW m \in 1 .. Len(s)
    PROVE  /\ SubSeq(s, 1, m - 1) \o t \o SubSeq(s, m, Len(s)) \in Seq(R)
           /\ IsPutBefore(SubSeq(s, 1, m - 1) \o t \o SubSeq(s, m, Len(s)), s, t, m)
  <1>1. Len(s) \in Nat /\ Len(t) \in Nat /\ m \in Nat \ {0} /\ m <= Len(s)
    BY LenProperties
  <1>2. PICK a : a = SubSeq(s, 1, m - 1)
    OBVIOUS
  <1>3. PICK b : b = SubSeq(s, m, Len(s))
    OBVIOUS
  <1>4. PICK at : at = a \o t
    OBVIOUS
  <1>5. \A i \in 1 .. Len(s) : s[i] \in R
    BY ElementOfSeq
  <1>6. /\ a \in Seq(R) /\ Len(a) = m - 1
        /\ \A i \in 1 .. m - 1 : a[i] = s[i]
    <2>1. \A i \in 1 .. m - 1 : s[i] \in R
      BY <1>1, <1>5
    <2>2. \A i \in 1 .. m - 1 - 1 + 1 : SubSeq(s, 1, m - 1)[i] = s[1 + i - 1]
      BY <1>1, <2>1, SubSeqProperties
    <2>3. \A i \in 1 .. m - 1 : i \in 1 .. m - 1 - 1 + 1 /\ 1 + i - 1 = i
      BY <1>1
    <2>4. \A i \in 1 .. m - 1 : a[i] = s[i]
      BY <1>2, <2>2, <2>3
    <2> QED BY <1>1, <1>2, <2>1, <2>4, SubSeqProperties
  <1>7. /\ b \in Seq(R) /\ Len(b) = Len(s) - m + 1
        /\ \A i \in 1 .. Len(s) - m + 1 : b[i] = s[m + i - 1]
    <2>1. \A i \in m .. Len(s) : s[i] \in R
      BY <1>1, <1>5
    <2> QED BY <1>1, <1>3, <2>1, SubSeqProperties
  <1>8. /\ at \in Seq(R) /\ Len(at) = Len(a) + Len(t)
        /\ \A i \in 1 .. Len(a) + Len(t) :
              at[i] = IF i <= Len(a) THEN a[i] ELSE t[i - Len(a)]
    BY <1>4, <1>6, ConcatProperties
  <1>0. PICK w : w = at \o b
    OBVIOUS
  <1>9. /\ w \in Seq(R) /\ Len(w) = Len(at) + Len(b)
        /\ \A i \in 1 .. Len(at) + Len(b) :
              w[i] = IF i <= Len(at) THEN at[i] ELSE b[i - Len(at)]
    <2>1. at \in Seq(R) /\ b \in Seq(R)
      BY <1>7, <1>8
    <2> QED BY <1>0, <2>1, ConcatProperties
  <1>10. Len(w) = Len(s) + Len(t)
    BY <1>1, <1>6, <1>7, <1>8, <1>9
  <1>11. ASSUME NEW i \in 1 .. Len(w)
         PROVE  w[i] = IF i < m THEN s[i] ELSE IF i < m + Len(t) THEN t[i - m + 1]
                       ELSE s[i - Len(t)]
    <2>0. i \in Nat \ {0} /\ i <= Len(s) + Len(t)
      BY <1>1, <1>10
    <2>1. CASE i < m
      <3>1. i <= Len(at) /\ i <= Len(a) /\ i \in 1 .. Len(at) + Len(b) /\ i \in 1 .. Len(a) + Len(t)
            /\ i \in 1 .. m - 1
        BY <1>1, <1>6, <1>7, <1>8, <2>0, <2>1
      <3>2. w[i] = at[i] /\ at[i] = a[i] /\ a[i] = s[i]
        BY <1>6, <1>8, <1>9, <3>1
      <3> QED BY <2>1, <3>2
    <2>2. CASE i >= m /\ i < m + Len(t)
      <3>1. i <= Len(at) /\ ~ i <= Len(a) /\ i \in 1 .. Len(at) + Len(b) /\ i \in 1 .. Len(a) + Len(t)
            /\ i - Len(a) = i - m + 1 /\ ~ i < m
        BY <1>1, <1>6, <1>7, <1>8, <2>0, <2>2
      <3>2. w[i] = at[i] /\ at[i] = t[i - Len(a)]
        BY <1>8, <1>9, <3>1
      <3> QED BY <2>2, <3>1, <3>2
    <2>3. CASE i >= m + Len(t)
      <3>1. ~ i <= Len(at) /\ i \in 1 .. Len(at) + Len(b) /\ i - Len(at) \in 1 .. Len(s) - m + 1
            /\ m + (i - Len(at)) - 1 = i - Len(t) /\ ~ i < m /\ ~ i < m + Len(t)
        BY <1>1, <1>6, <1>7, <1>8, <2>0, <2>3
      <3>2. w[i] = b[i - Len(at)]
        BY <1>9, <3>1
      <3>3. b[i - Len(at)] = s[m + (i - Len(at)) - 1]
        BY <1>7, <3>1
      <3> QED BY <3>1, <3>2, <3>3
    <2> QED BY <1>1, <2>0, <2>1, <2>2, <2>3
  <1> QED BY <1>0, <1>2, <1>3, <1>4, <1>9, <1>10, <1>11 DEF IsPutBefore

\* Of lines that are left over none follows another, so that none is stepped over.
Apart(surplus) == \A i \in surplus : i + 1 \notin surplus

\* Every line was there or has one of the values, no line of another key is lost
\* and every value has a line; if no line was stepped over, the lines of the key
\* have no other values.
HasList(new, lines, key, values) ==
    /\ \A i \in DOMAIN new : \/ \E j \in DOMAIN lines : new[i] = lines[j]
                            \/ \E n \in DOMAIN values : new[i] = Line(key, values[n])
    /\ \A j \in DOMAIN lines : lines[j].key # key => \E i \in DOMAIN new : new[i] = lines[j]
    /\ \A n \in DOMAIN values : \E i \in DOMAIN new : new[i] = Line(key, values[n])
    /\ Apart(Surplus(lines, key, values)) =>
          \A i \in Places(new, key) : \E n \in DOMAIN values : new[i] = Line(key, values[n])

\* Lines that do not follow each other are all removed.
LEMMA ApartAreRemoved ==
    ASSUME NEW surplus \in SUBSET (Nat \ {0}), Apart(surplus)
    PROVE  Removed(surplus) = surplus
  <1> DEFINE run(i) == {j \in 1 .. i : j .. i \subseteq surplus}
  <1>1. ASSUME NEW i \in surplus PROVE run(i) = {i}
    <2>1. ASSUME NEW j \in 1 .. i, j .. i \subseteq surplus PROVE j = i
      <3> SUFFICES ASSUME j < i PROVE FALSE
        OBVIOUS
      <3>1. i - 1 \in j .. i /\ i - 1 + 1 = i
        OBVIOUS
      <3>2. i - 1 \in surplus
        BY <2>1, <3>1
      <3> QED BY <3>1, <3>2 DEF Apart
    <2>2. i \in 1 .. i /\ i .. i \subseteq surplus
      OBVIOUS
    <2> QED BY <2>1, <2>2
  <1>2. Removed(surplus) = {i \in surplus : Cardinality(run(i)) % 2 = 1}
    BY DEF Removed
  <1> HIDE DEF run
  <1>3. \A i \in surplus : Cardinality(run(i)) = 1
    BY <1>1, FS_Singleton
  <1>4. \A i \in surplus : Cardinality(run(i)) % 2 = 1
    BY <1>3
  <1> QED BY <1>2, <1>4

\* As many values as there are lines, or less: the lines take the values, and of
\* those that are left over only lines of the key are removed.
LEMMA FewAreSet ==
    ASSUME NEW K, NEW V, NEW lines \in Seq([key : K, value : V]),
           NEW key \in K, NEW values \in Seq(V),
           Len(values) <= Cardinality(Places(lines, key))
    PROVE  /\ SetList(lines, key, values) \in Seq([key : K, value : V])
           /\ HasList(SetList(lines, key, values), lines, key, values)
  <1> DEFINE R == [key : K, value : V]
  <1>1. PICK P : P = Places(lines, key)
    OBVIOUS
  <1>2. PICK set : set = SetFound(lines, key, values)
    OBVIOUS
  <1>3. PICK kept : kept = DOMAIN lines \ Removed(Surplus(lines, key, values))
    OBVIOUS
  <1>4. PICK new : new = SetList(lines, key, values)
    OBVIOUS
  <1>5. new = At(set, kept)
    BY <1>2, <1>3, <1>4 DEF SetList
  <1>6. /\ P \in SUBSET Int /\ IsFiniteSet(P) /\ Cardinality(P) \in Nat
        /\ P \in SUBSET DOMAIN lines /\ \A i \in P : lines[i].key = key
    <2>1. P \in SUBSET DOMAIN lines /\ \A i \in P : lines[i].key = key
      BY <1>1 DEF Places
    <2> QED BY <2>1, PlacesAreFinite
  <1>7. set \in Seq(R) /\ TakesValues(set, lines, key, values)
    BY <1>2, FoundAreSet
  <1>8. /\ DOMAIN lines = 1 .. Len(lines) /\ DOMAIN set = 1 .. Len(lines)
        /\ DOMAIN values = 1 .. Len(values) /\ Len(values) \in Nat
    BY <1>7, LenProperties DEF TakesValues
  <1>9. kept \in SUBSET DOMAIN set
    BY <1>3, <1>8
  <1>10. /\ new \in Seq(R) /\ Len(new) = Cardinality(kept)
         /\ \A n \in 1 .. Cardinality(kept) : Nth(kept, n) \in kept /\ new[n] = set[Nth(kept, n)]
         /\ \A i \in kept : /\ Rank(kept, i) \in 1 .. Cardinality(kept)
                            /\ new[Rank(kept, i)] = set[i]
    BY <1>5, <1>7, <1>9, AtPlaces
  <1>11. DOMAIN new = 1 .. Cardinality(kept)
    BY <1>10, LenProperties
  <1>12. \A i \in 1 .. Len(lines) :
            set[i] = IF i \in P /\ Rank(P, i) <= Len(values)
                     THEN Line(key, values[Rank(P, i)]) ELSE lines[i]
    BY <1>1, <1>7 DEF TakesValues
  <1>13. \A i \in P : Rank(P, i) \in Nat \ {0}
    BY <1>6, RankBounds
  <1>14. \A i \in DOMAIN lines : (i \notin P \/ Rank(P, i) <= Len(values)) => i \in kept
    BY <1>1, <1>3, <1>8, <1>13 DEF Removed, Surplus
  <1>15. ASSUME NEW i \in DOMAIN new
         PROVE  \/ \E j \in DOMAIN lines : new[i] = lines[j]
                \/ \E n \in DOMAIN values : new[i] = Line(key, values[n])
    <2>1. PICK j \in 1 .. Len(lines) : new[i] = set[j]
      BY <1>8, <1>9, <1>10, <1>11
    <2>2. CASE j \in P /\ Rank(P, j) <= Len(values)
      BY <1>8, <1>12, <1>13, <2>1, <2>2
    <2>3. CASE ~(j \in P /\ Rank(P, j) <= Len(values))
      BY <1>8, <1>12, <2>1, <2>3
    <2> QED BY <2>2, <2>3
  <1>16. ASSUME NEW j \in DOMAIN lines, lines[j].key # key
         PROVE  \E i \in DOMAIN new : new[i] = lines[j]
    <2>1. j \notin P /\ j \in kept
      BY <1>6, <1>14, <1>16
    <2>2. new[Rank(kept, j)] = lines[j]
      BY <1>8, <1>10, <1>12, <2>1
    <2> QED BY <1>10, <1>11, <2>1, <2>2
  <1>17. ASSUME NEW n \in DOMAIN values
         PROVE  \E i \in DOMAIN new : new[i] = Line(key, values[n])
    <2>1. n \in 1 .. Cardinality(P) /\ n <= Len(values)
      BY <1>1, <1>6, <1>8
    <2>2. PICK i \in P : Rank(P, i) = n
      BY <1>6, <2>1, RankIsOnto
    <2>3. i \in kept /\ set[i] = Line(key, values[n])
      BY <1>6, <1>8, <1>12, <1>14, <2>1, <2>2
    <2> QED BY <1>10, <1>11, <2>3
  <1>18. ASSUME Apart(Surplus(lines, key, values)), NEW i \in Places(new, key)
         PROVE  \E n \in DOMAIN values : new[i] = Line(key, values[n])
    <2>1. i \in DOMAIN new /\ new[i].key = key
      BY DEF Places
    <2>2. PICK j \in kept : new[i] = set[j]
      BY <1>10, <1>11, <2>1
    <2>3. j \in P
      <3>1. j \in 1 .. Len(lines) /\ lines[j].key = key
        BY <1>7, <1>8, <1>9, <2>1, <2>2 DEF TakesValues
      <3> QED BY <1>1, <1>8, <3>1 DEF Places
    <2>4. Rank(P, j) <= Len(values)
      <3>1. Surplus(lines, key, values) \in SUBSET (Nat \ {0})
        BY <1>8 DEF Surplus, Places
      <3>2. j \notin Surplus(lines, key, values)
        BY <1>3, <1>18, <2>2, <3>1, ApartAreRemoved
      <3> QED BY <1>1, <1>8, <1>13, <2>3, <3>2 DEF Surplus
    <2> QED BY <1>6, <1>8, <1>12, <1>13, <2>2, <2>3, <2>4
  <1>19. HasList(new, lines, key, values)
    BY <1>15, <1>16, <1>17, <1>18 DEF HasList
  <1> QED BY <1>4, <1>10, <1>19

\* More values than there are lines: the lines take the first ones and new lines
\* the rest.
LEMMA ManyAreSet ==
    ASSUME NEW K, NEW V, NEW lines \in Seq([key : K, value : V]),
           NEW key \in K, NEW values \in Seq(V),
           ~ Len(values) <= Cardinality(Places(lines, key))
    PROVE  /\ SetList(lines, key, values) \in Seq([key : K, value : V])
           /\ HasList(SetList(lines, key, values), lines, key, values)
  <1> DEFINE R == [key : K, value : V]
  <1>1. PICK P : P = Places(lines, key)
    OBVIOUS
  <1>2. PICK set : set = SetFound(lines, key, values)
    OBVIOUS
  <1>3. PICK there : there = Cardinality(P)
    OBVIOUS
  <1>4. PICK new : new = SetList(lines, key, values)
    OBVIOUS
  <1>5. PICK rest : rest = [i \in 1 .. Len(values) - there |-> Line(key, values[there + i])]
    OBVIOUS
  <1>6. /\ P \in SUBSET Int /\ IsFiniteSet(P) /\ there \in Nat
        /\ P \in SUBSET DOMAIN lines /\ \A i \in P : lines[i].key = key
    <2>1. P \in SUBSET DOMAIN lines /\ \A i \in P : lines[i].key = key
      BY <1>1 DEF Places
    <2> QED BY <1>3, <2>1, PlacesAreFinite
  <1>7. set \in Seq(R) /\ TakesValues(set, lines, key, values)
    BY <1>2, FoundAreSet
  <1>8. /\ DOMAIN lines = 1 .. Len(lines) /\ Len(set) = Len(lines) /\ Len(lines) \in Nat
        /\ DOMAIN values = 1 .. Len(values) /\ Len(values) \in Nat /\ there < Len(values)
    BY <1>1, <1>3, <1>6, <1>7, LenProperties DEF TakesValues
  <1>9. \A n \in 1 .. Len(values) : values[n] \in V /\ Line(key, values[n]) \in R
    BY ElementOfSeq DEF Line
  <1>10. /\ rest \in Seq(R) /\ Len(rest) = Len(values) - there
         /\ \A i \in 1 .. Len(values) - there : rest[i] = Line(key, values[there + i])
    <2>1. \A i \in 1 .. Len(values) - there : there + i \in 1 .. Len(values)
      BY <1>6, <1>8
    <2>2. rest \in [1 .. Len(values) - there -> R]
      BY <1>5, <1>9, <2>1
    <2>3. Len(values) - there \in Nat
      BY <1>6, <1>8
    <2>4. rest \in Seq(R) /\ Len(rest) = Len(values) - there
      <3>1. PICK k : k = Len(values) - there
        OBVIOUS
      <3>2. k \in Nat /\ rest \in [1 .. k -> R]
        BY <2>2, <2>3, <3>1
      <3> QED BY <3>1, <3>2, IsSequence
    <2> QED BY <1>5, <2>4
  <1>11. \A i \in 1 .. Len(lines) :
            set[i] = IF i \in P /\ Rank(P, i) <= Len(values)
                     THEN Line(key, values[Rank(P, i)]) ELSE lines[i]
    BY <1>1, <1>7 DEF TakesValues
  <1>12. \A i \in P : Rank(P, i) \in 1 .. there
    BY <1>3, <1>6, RankBounds
  \* The new lines are those of set and of rest.
  <1>13. /\ new \in Seq(R)
         /\ \A i \in DOMAIN new : \/ \E j \in 1 .. Len(lines) : new[i] = set[j]
                                 \/ \E j \in 1 .. Len(values) - there : new[i] = rest[j]
         /\ \A j \in 1 .. Len(lines) : \E i \in DOMAIN new : new[i] = set[j]
         /\ \A j \in 1 .. Len(values) - there : \E i \in DOMAIN new : new[i] = rest[j]
    <2>1. CASE there = 0
      <3>1. new = lines \o rest
        BY <1>1, <1>3, <1>4, <1>5, <1>8, <2>1 DEF SetList
      <3>2. P = {}
        BY <1>3, <1>6, <2>1, FS_EmptySet
      <3>3. \A i \in 1 .. Len(lines) : set[i] = lines[i]
        BY <1>11, <3>2
      <3>4. /\ new \in Seq(R) /\ Len(new) = Len(lines) + Len(rest)
            /\ \A i \in 1 .. Len(lines) + Len(rest) :
                  new[i] = IF i <= Len(lines) THEN lines[i] ELSE rest[i - Len(lines)]
        BY <1>10, <3>1, ConcatProperties
      <3>5. DOMAIN new = 1 .. Len(lines) + Len(rest)
        BY <3>4, LenProperties
      <3>6. ASSUME NEW i \in DOMAIN new
            PROVE  \/ \E j \in 1 .. Len(lines) : new[i] = set[j]
                   \/ \E j \in 1 .. Len(values) - there : new[i] = rest[j]
        <4>1. CASE i <= Len(lines)
          BY <1>8, <1>10, <3>3, <3>4, <3>5, <4>1
        <4>2. CASE ~ i <= Len(lines)
          <5>1. i - Len(lines) \in 1 .. Len(values) - there
            BY <1>6, <1>8, <1>10, <3>5, <4>2
          <5> QED BY <3>4, <3>5, <4>2, <5>1
        <4> QED BY <4>1, <4>2
      <3>7. ASSUME NEW j \in 1 .. Len(lines) PROVE j \in DOMAIN new /\ new[j] = set[j]
        BY <1>6, <1>8, <1>10, <3>3, <3>4, <3>5
      <3>8. ASSUME NEW j \in 1 .. Len(values) - there
            PROVE  Len(lines) + j \in DOMAIN new /\ new[Len(lines) + j] = rest[j]
        <4>1. /\ Len(lines) + j \in 1 .. Len(lines) + Len(rest)
              /\ ~ Len(lines) + j <= Len(lines) /\ Len(lines) + j - Len(lines) = j
          BY <1>6, <1>8, <1>10
        <4> QED BY <3>4, <3>5, <4>1
      <3> QED BY <3>4, <3>6, <3>7, <3>8
    <2>2. CASE there # 0
      <3>1. PICK last : last = Max(P)
        OBVIOUS
      <3>2. last \in 1 .. Len(lines)
        <4>1. P # {}
          BY <1>3, <1>6, <2>2, FS_EmptySet
        <4> QED BY <1>6, <1>8, <3>1, <4>1, MaxIsGreatest
      <3>3. new = SubSeq(set, 1, last - 1) \o rest \o SubSeq(set, last, Len(set))
        BY <1>1, <1>2, <1>3, <1>4, <1>5, <1>6, <1>8, <2>2, <3>1 DEF SetList
      <3>4. new \in Seq(R) /\ IsPutBefore(new, set, rest, last)
        BY <1>7, <1>8, <1>10, <3>2, <3>3, PutBefore
      <3>5. PICK more : more = Len(rest)
        OBVIOUS
      <3>6. /\ DOMAIN new = 1 .. Len(lines) + more
            /\ \A i \in 1 .. Len(lines) + more :
                  new[i] = IF i < last THEN set[i]
                           ELSE IF i < last + more THEN rest[i - last + 1]
                           ELSE set[i - more]
        BY <1>8, <3>4, <3>5, LenProperties DEF IsPutBefore
      <3>7. more \in Nat /\ more = Len(values) - there
        BY <1>6, <1>8, <1>10, <3>5
      <3>8. ASSUME NEW i \in DOMAIN new
            PROVE  \/ \E j \in 1 .. Len(lines) : new[i] = set[j]
                   \/ \E j \in 1 .. Len(values) - there : new[i] = rest[j]
        <4>0. i \in 1 .. Len(lines) + more
          BY <3>6
        <4>1. CASE i < last
          BY <1>8, <3>2, <3>6, <4>0, <4>1
        <4>2. CASE ~ i < last /\ i < last + more
          <5>1. i - last + 1 \in 1 .. Len(values) - there
            BY <1>8, <3>2, <3>7, <4>0, <4>2
          <5> QED BY <3>6, <4>0, <4>2, <5>1
        <4>3. CASE ~ i < last /\ ~ i < last + more
          <5>1. i - more \in 1 .. Len(lines)
            BY <1>8, <3>2, <3>7, <4>0, <4>3
          <5> QED BY <3>6, <4>0, <4>3, <5>1
        <4> QED BY <4>1, <4>2, <4>3
      <3>9. ASSUME NEW j \in 1 .. Len(lines) PROVE \E i \in DOMAIN new : new[i] = set[j]
        <4>1. CASE j < last
          <5>1. j \in 1 .. Len(lines) + more
            BY <1>8, <3>7
          <5> QED BY <3>6, <4>1, <5>1
        <4>2. CASE ~ j < last
          <5>1. PICK i : i = j + more
            OBVIOUS
          <5>2. /\ i \in 1 .. Len(lines) + more /\ ~ i < last
                /\ ~ i < last + more /\ i - more = j
            BY <1>8, <3>2, <3>7, <4>2, <5>1
          <5>3. i \in DOMAIN new /\ new[i] = set[j]
            BY <3>6, <5>2
          <5> QED BY <5>3
        <4> QED BY <4>1, <4>2
      <3>10. ASSUME NEW j \in 1 .. Len(values) - there PROVE \E i \in DOMAIN new : new[i] = rest[j]
        <4>1. PICK i : i = last + j - 1
          OBVIOUS
        <4>2. /\ i \in 1 .. Len(lines) + more /\ ~ i < last
              /\ i < last + more /\ i - last + 1 = j
          BY <1>8, <3>2, <3>7, <4>1
        <4>3. i \in DOMAIN new /\ new[i] = rest[j]
          BY <3>6, <4>2
        <4> QED BY <4>3
      <3> QED BY <3>4, <3>8, <3>9, <3>10
    <2> QED BY <2>1, <2>2
  <1>14. ASSUME NEW i \in DOMAIN new
         PROVE  \/ \E j \in DOMAIN lines : new[i] = lines[j]
                \/ \E n \in DOMAIN values : new[i] = Line(key, values[n])
    <2>1. CASE \E j \in 1 .. Len(lines) : new[i] = set[j]
      <3>1. PICK j \in 1 .. Len(lines) : new[i] = set[j]
        BY <2>1
      <3>2. CASE j \in P
        <4>1. Rank(P, j) \in DOMAIN values /\ Rank(P, j) <= Len(values)
          BY <1>6, <1>8, <1>12, <3>2
        <4> QED BY <1>11, <3>1, <3>2, <4>1
      <3>3. CASE j \notin P
        BY <1>8, <1>11, <3>1, <3>3
      <3> QED BY <3>2, <3>3
    <2>2. CASE \E j \in 1 .. Len(values) - there : new[i] = rest[j]
      <3>1. PICK j \in 1 .. Len(values) - there : new[i] = rest[j]
        BY <2>2
      <3>2. there + j \in DOMAIN values
        BY <1>6, <1>8
      <3> QED BY <1>10, <3>1, <3>2
    <2> QED BY <1>13, <2>1, <2>2
  <1>15. ASSUME NEW j \in DOMAIN lines, lines[j].key # key
         PROVE  \E i \in DOMAIN new : new[i] = lines[j]
    <2>1. j \in 1 .. Len(lines) /\ set[j] = lines[j]
      BY <1>6, <1>8, <1>11, <1>15
    <2> QED BY <1>13, <2>1
  <1>16. ASSUME NEW n \in DOMAIN values
         PROVE  \E i \in DOMAIN new : new[i] = Line(key, values[n])
    <2>1. CASE n <= there
      <3>1. PICK j \in P : Rank(P, j) = n
        BY <1>3, <1>6, <1>8, <2>1, RankIsOnto
      <3>2. j \in 1 .. Len(lines) /\ set[j] = Line(key, values[n])
        BY <1>6, <1>8, <1>11, <3>1
      <3> QED BY <1>13, <3>2
    <2>2. CASE ~ n <= there
      <3>1. n - there \in 1 .. Len(values) - there /\ there + (n - there) = n
        BY <1>6, <1>8, <2>2
      <3>2. rest[n - there] = Line(key, values[n])
        BY <1>10, <3>1
      <3> QED BY <1>13, <3>1, <3>2
    <2> QED BY <2>1, <2>2
  <1>17. ASSUME NEW i \in Places(new, key)
         PROVE  \E n \in DOMAIN values : new[i] = Line(key, values[n])
    <2>1. i \in DOMAIN new /\ new[i].key = key
      BY DEF Places
    <2>2. CASE \E j \in 1 .. Len(lines) : new[i] = set[j]
      <3>1. PICK j \in 1 .. Len(lines) : new[i] = set[j]
        BY <2>2
      <3>2. j \in P
        <4>1. lines[j].key = key
          BY <1>7, <2>1, <3>1 DEF TakesValues
        <4> QED BY <1>1, <1>8, <4>1 DEF Places
      <3>3. Rank(P, j) \in DOMAIN values /\ Rank(P, j) <= Len(values)
        BY <1>6, <1>8, <1>12, <3>2
      <3> QED BY <1>11, <3>1, <3>2, <3>3
    <2>3. CASE \E j \in 1 .. Len(values) - there : new[i] = rest[j]
      <3>1. PICK j \in 1 .. Len(values) - there : new[i] = rest[j]
        BY <2>3
      <3>2. there + j \in DOMAIN values
        BY <1>6, <1>8
      <3> QED BY <1>10, <3>1, <3>2
    <2> QED BY <1>13, <2>1, <2>2, <2>3
  <1>18. HasList(new, lines, key, values)
    BY <1>14, <1>15, <1>16, <1>17 DEF HasList
  <1> QED BY <1>4, <1>13, <1>18

LEMMA ListIsSet ==
    ASSUME NEW K, NEW V, NEW lines \in Seq([key : K, value : V]),
           NEW key \in K, NEW values \in Seq(V)
    PROVE  /\ SetList(lines, key, values) \in Seq([key : K, value : V])
           /\ HasList(SetList(lines, key, values), lines, key, values)
  BY FewAreSet, ManyAreSet

\* What was set is among what is read.
THEOREM ListIsRead ==
    ASSUME NEW K, NEW V, NEW lines \in Seq([key : K, value : V]),
           NEW key \in K, NEW values \in Seq(V)
    PROVE  ToSet(values) \subseteq ToSet(GetAsArray(SetList(lines, key, values), key, <<>>))
  <1>1. PICK new : new = SetList(lines, key, values)
    OBVIOUS
  <1>2. PICK read : read = GetAsArray(new, key, <<>>)
    OBVIOUS
  <1>3. PICK P : P = Places(new, key)
    OBVIOUS
  <1>4. new \in Seq([key : K, value : V]) /\ HasList(new, lines, key, values)
    BY <1>1, ListIsSet
  <1>5. HasValues(read, new, P, V)
    BY <1>2, <1>3, <1>4, ArrayOfPlaces
  <1>6. DOMAIN read = 1 .. Cardinality(P)
    BY <1>5, LenProperties DEF HasValues
  <1>7. ASSUME NEW n \in DOMAIN values PROVE \E m \in DOMAIN read : read[m] = values[n]
    <2>1. PICK i \in DOMAIN new : new[i] = Line(key, values[n])
      BY <1>4 DEF HasList
    <2>2. i \in P /\ new[i].value = values[n]
      BY <1>3, <2>1 DEF Places, Line
    <2> QED BY <1>5, <1>6, <2>2 DEF HasValues
  <1> QED BY <1>1, <1>2, <1>7 DEF ToSet

\* If no line was stepped over, nothing else is read: the old values are gone.
THEOREM ListReplaces ==
    ASSUME NEW K, NEW V, NEW lines \in Seq([key : K, value : V]),
           NEW key \in K, NEW values \in Seq(V), Apart(Surplus(lines, key, values))
    PROVE  ToSet(GetAsArray(SetList(lines, key, values), key, <<>>)) = ToSet(values)
  <1>1. PICK new : new = SetList(lines, key, values)
    OBVIOUS
  <1>2. PICK read : read = GetAsArray(new, key, <<>>)
    OBVIOUS
  <1>3. PICK P : P = Places(new, key)
    OBVIOUS
  <1>4. new \in Seq([key : K, value : V]) /\ HasList(new, lines, key, values)
    BY <1>1, ListIsSet
  <1>5. HasValues(read, new, P, V)
    BY <1>2, <1>3, <1>4, ArrayOfPlaces
  <1>6. DOMAIN read = 1 .. Cardinality(P)
    BY <1>5, LenProperties DEF HasValues
  <1>7. ASSUME NEW m \in DOMAIN read PROVE \E n \in DOMAIN values : read[m] = values[n]
    <2>1. PICK i \in P : read[m] = new[i].value
      BY <1>5, <1>6 DEF HasValues
    <2>2. PICK n \in DOMAIN values : new[i] = Line(key, values[n])
      BY <1>3, <1>4 DEF HasList
    <2> QED BY <2>1, <2>2 DEF Line
  <1>8. ToSet(read) \subseteq ToSet(values)
    BY <1>7 DEF ToSet
  <1> QED BY <1>1, <1>2, <1>8, ListIsRead

\* Without a line of the key, nothing is read.
LEMMA NoneIsRead ==
    ASSUME NEW K, NEW V, NEW lines \in Seq([key : K, value : V]), NEW key,
           Places(lines, key) = {}
    PROVE  GetAsArray(lines, key, <<>>) = <<>>
  <1>1. HasValues(GetAsArray(lines, key, <<>>), lines, {}, V)
    BY ArrayOfPlaces
  <1>2. Cardinality({}) = 0
    BY FS_EmptySet
  <1> QED BY <1>1, <1>2, EmptySeq DEF HasValues

\* A list set where there was none is read again as it is.
THEOREM ListInNone ==
    ASSUME NEW K, NEW V, NEW lines \in Seq([key : K, value : V]),
           NEW key \in K, NEW values \in Seq(V), Places(lines, key) = {}
    PROVE  GetAsArray(SetList(lines, key, values), key, <<>>) = values
  <1> DEFINE R == [key : K, value : V]
  <1>1. CASE values = <<>>
    <2>1. GetAsArray(lines, key, <<>>) = values
      BY <1>1, NoneIsRead
    <2>2. SetList(lines, key, GetAsArray(lines, key, <<>>)) = lines
      BY ListAsRead
    <2> QED BY <2>1, <2>2
  <1>2. CASE values # <<>>
    <2>1. PICK n : n = Len(values)
      OBVIOUS
    <2>2. PICK m : m = Len(lines)
      OBVIOUS
    <2>3. n \in Nat \ {0} /\ m \in Nat /\ DOMAIN lines = 1 .. m
      BY <1>2, <2>1, <2>2, EmptySeq, LenProperties
    <2>4. PICK rest : rest = [i \in 1 .. n |-> Line(key, values[i])]
      OBVIOUS
    <2>5. rest \in Seq(R) /\ Len(rest) = n
      <3>1. \A i \in 1 .. n : Line(key, values[i]) \in R
        BY <2>1, ElementOfSeq DEF Line
      <3>2. rest \in [1 .. n -> R]
        BY <2>4, <3>1
      <3> QED BY <2>3, <3>2, IsSequence
    <2>6. PICK new : new = SetList(lines, key, values)
      OBVIOUS
    <2>7. new = lines \o rest
      <3>1. Cardinality(Places(lines, key)) = 0
        BY FS_EmptySet
      <3>2. [i \in 1 .. n - 0 |-> Line(key, values[0 + i])] = rest
        BY <2>3, <2>4
      <3> QED BY <2>1, <2>3, <2>6, <3>1, <3>2 DEF SetList
    <2>8. /\ new \in Seq(R) /\ Len(new) = m + n
          /\ \A i \in 1 .. m + n : new[i] = IF i <= m THEN lines[i] ELSE rest[i - m]
      BY <2>2, <2>5, <2>7, ConcatProperties
    <2>9. DOMAIN new = 1 .. m + n
      BY <2>8, LenProperties
    <2>10. PICK P : P = m + 1 .. m + n
      OBVIOUS
    <2>11. Places(new, key) = P
      <3>1. \A i \in 1 .. m : new[i].key # key
        BY <2>3, <2>8 DEF Places
      <3>2. \A i \in m + 1 .. m + n : new[i].key = key
        <4> SUFFICES ASSUME NEW i \in m + 1 .. m + n PROVE new[i].key = key
          OBVIOUS
        <4>1. i - m \in 1 .. n /\ ~ i <= m /\ i \in 1 .. m + n
          BY <2>3
        <4> QED BY <2>4, <2>8, <4>1 DEF Line
      <3>3. \A i \in 1 .. m + n : i \in 1 .. m \/ i \in m + 1 .. m + n
        BY <2>3
      <3>4. m + 1 .. m + n \subseteq 1 .. m + n
        BY <2>3
      <3> QED BY <2>9, <2>10, <3>1, <3>2, <3>3, <3>4 DEF Places
    <2>12. Cardinality(P) = n
      <3>1. Cardinality(m + 1 .. m + n) = IF m + 1 > m + n THEN 0 ELSE m + n - (m + 1) + 1
        BY <2>3, FS_Interval
      <3> QED BY <2>3, <2>10, <3>1
    <2>13. ASSUME NEW i \in 1 .. n PROVE m + i \in P /\ Rank(P, m + i) = i
      <3>0. PICK k : k = m + i
        OBVIOUS
      <3>1. {j \in P : j <= k} = m + 1 .. k
        BY <2>3, <2>10, <3>0
      <3>2. Cardinality(m + 1 .. k) = IF m + 1 > k THEN 0 ELSE k - (m + 1) + 1
        BY <2>3, <3>0, FS_Interval
      <3>3. Cardinality(m + 1 .. k) = i
        BY <2>3, <3>0, <3>2
      <3>4. k \in P
        BY <2>3, <2>10, <3>0
      <3> QED BY <3>0, <3>1, <3>3, <3>4 DEF Rank
    <2>14. PICK read : read = GetAsArray(new, key, <<>>)
      OBVIOUS
    <2>15. HasValues(read, new, P, V)
      BY <2>8, <2>11, <2>14, ArrayOfPlaces
    <2>16. ASSUME NEW i \in 1 .. n PROVE read[i] = values[i]
      <3>1. read[i] = new[m + i].value
        BY <2>13, <2>15 DEF HasValues
      <3>0. PICK k : k = m + i
        OBVIOUS
      <3>2. k \in 1 .. m + n /\ ~ k <= m /\ k - m = i
        BY <2>3, <3>0
      <3>3. new[m + i] = rest[i]
        BY <2>8, <3>0, <3>2
      <3> QED BY <2>4, <3>1, <3>3 DEF Line
    <2>17. read \in Seq(V) /\ Len(read) = n
      BY <2>12, <2>15 DEF HasValues
    <2> QED BY <2>1, <2>6, <2>14, <2>16, <2>17, SeqEqual
  <1> QED BY <1>1, <1>2

\* The empty list takes the only line away.
LEMMA ListEmptied ==
    ASSUME NEW K, NEW V, NEW lines \in Seq([key : K, value : V]),
           NEW key \in K, AtMostOne(lines, key)
    PROVE  GetAsArray(SetList(lines, key, <<>>), key, <<>>) = <<>>
  <1> DEFINE R == [key : K, value : V]
  <1>0. <<>> \in Seq(V) /\ Len(<<>>) = 0
    BY EmptySeq
  <1>1. CASE Places(lines, key) = {}
    BY <1>0, <1>1, ListInNone
  <1>2. CASE Places(lines, key) # {}
    <2>1. PICK f : Places(lines, key) = {f}
      BY <1>2 DEF AtMostOne
    <2>2. f \in 1 .. Len(lines) /\ DOMAIN lines = 1 .. Len(lines)
      BY <2>1, LenProperties DEF Places
    <2>3. Cardinality({f}) = 1 /\ IsFiniteSet({f})
      BY FS_Singleton
    <2>4. Rank({f}, f) = 1
      <3>1. {j \in {f} : j <= f} = {f}
        BY <2>2
      <3> QED BY <2>3, <3>1 DEF Rank
    <2>5. Surplus(lines, key, <<>>) = {f}
      BY <1>0, <2>1, <2>4 DEF Surplus
    <2>6. Removed({f}) = {f}
      <3> DEFINE run(i) == {j \in 1 .. i : j .. i \subseteq {f}}
      <3>1. run(f) = {f}
        <4>1. ASSUME NEW j \in 1 .. f, j .. f \subseteq {f} PROVE j = f
          BY <2>2, <4>1
        <4>2. f \in 1 .. f /\ f .. f \subseteq {f}
          BY <2>2
        <4> QED BY <4>1, <4>2
      <3>2. Removed({f}) = {i \in {f} : Cardinality(run(i)) % 2 = 1}
        BY DEF Removed
      <3> HIDE DEF run
      <3>3. Cardinality(run(f)) = 1
        BY <2>3, <3>1
      <3>4. Cardinality(run(f)) % 2 = 1
        BY <3>3
      <3> QED BY <3>2, <3>4
    <2>7. PICK set : set = SetFound(lines, key, <<>>)
      OBVIOUS
    <2>8. PICK kept : kept = DOMAIN lines \ {f}
      OBVIOUS
    <2>9. PICK new : new = SetList(lines, key, <<>>)
      OBVIOUS
    <2>10. new = At(set, kept)
      <3>1. Len(<<>>) <= Cardinality(Places(lines, key))
        BY <1>0, <2>1, <2>3
      <3>2. Removed(Surplus(lines, key, <<>>)) = {f}
        BY <2>5, <2>6
      <3> QED BY <2>7, <2>8, <2>9, <3>1, <3>2 DEF SetList
    <2>11. set \in Seq(R) /\ TakesValues(set, lines, key, <<>>)
      BY <1>0, <2>7, FoundAreSet
    <2>12. kept \in SUBSET DOMAIN set
      BY <2>2, <2>8, <2>11, LenProperties DEF TakesValues
    <2>13. /\ new \in Seq(R) /\ Len(new) = Cardinality(kept)
           /\ \A n \in 1 .. Cardinality(kept) : Nth(kept, n) \in kept /\ new[n] = set[Nth(kept, n)]
      BY <2>10, <2>11, <2>12, AtPlaces
    <2>14. \A i \in kept : set[i].key # key
      BY <2>1, <2>2, <2>8, <2>11 DEF TakesValues, Places
    <2>15. Places(new, key) = {}
      <3>1. DOMAIN new = 1 .. Cardinality(kept)
        BY <2>13, LenProperties
      <3> QED BY <2>13, <2>14, <3>1 DEF Places
    <2> QED BY <2>9, <2>13, <2>15, NoneIsRead
  <1> QED BY <1>1, <1>2

-----------------------------------------------------------------------------
(* remove.                                                                 *)

\* Every line was there, no line of another key is lost, and of a single line of
\* the key none is left.
IsRemoved(new, lines, key) ==
    /\ \A i \in DOMAIN new : \E j \in DOMAIN lines : new[i] = lines[j]
    /\ \A j \in DOMAIN lines : lines[j].key # key => \E i \in DOMAIN new : new[i] = lines[j]
    /\ AtMostOne(lines, key) => Places(new, key) = {}

LEMMA LineIsRemoved ==
    ASSUME NEW R, NEW lines \in Seq(R), NEW key
    PROVE  /\ RemoveLine(lines, key) \in Seq(R)
           /\ IsRemoved(RemoveLine(lines, key), lines, key)
  <1>1. PICK f : f = First(lines, key)
    OBVIOUS
  <1>2. PICK new : new = RemoveLine(lines, key)
    OBVIOUS
  <1>3. CASE f = 0
    <2>1. new = lines
      BY <1>1, <1>2, <1>3 DEF RemoveLine
    <2>2. Places(lines, key) = {}
      BY <1>1, <1>3, FirstIsPlace
    <2> QED BY <1>2, <2>1, <2>2 DEF IsRemoved
  <1>4. CASE f # 0
    <2>1. PICK m : m = Len(lines)
      OBVIOUS
    <2>2. /\ f \in Places(lines, key) /\ f \in 1 .. m /\ lines[f].key = key
          /\ m \in Nat /\ DOMAIN lines = 1 .. m
      BY <1>1, <1>4, <2>1, FirstIsPlace, LenProperties
    <2>3. \A i \in 1 .. m : lines[i] \in R
      BY <2>1, ElementOfSeq
    <2>4. PICK a : a = SubSeq(lines, 1, f - 1)
      OBVIOUS
    <2>5. PICK b : b = SubSeq(lines, f + 1, m)
      OBVIOUS
    <2>6. new = a \o b
      BY <1>1, <1>2, <1>4, <2>1, <2>4, <2>5 DEF RemoveLine, RemoveAt
    <2>7. a \in Seq(R) /\ Len(a) = f - 1 /\ \A i \in 1 .. f - 1 : a[i] = lines[i]
      <3>1. \A i \in 1 .. f - 1 : lines[i] \in R
        BY <2>2, <2>3
      <3>2. \A i \in 1 .. f - 1 - 1 + 1 : SubSeq(lines, 1, f - 1)[i] = lines[1 + i - 1]
        BY <2>2, <3>1, SubSeqProperties
      <3>3. \A i \in 1 .. f - 1 : i \in 1 .. f - 1 - 1 + 1 /\ 1 + i - 1 = i
        BY <2>2
      <3>4. \A i \in 1 .. f - 1 : a[i] = lines[i]
        BY <2>4, <3>2, <3>3
      <3> QED BY <2>2, <2>4, <3>1, <3>4, SubSeqProperties
    <2>8. b \in Seq(R) /\ Len(b) = m - f /\ \A i \in 1 .. m - f : b[i] = lines[f + i]
      <3>1. \A i \in f + 1 .. m : lines[i] \in R
        BY <2>2, <2>3
      <3>2. \A i \in 1 .. m - (f + 1) + 1 : SubSeq(lines, f + 1, m)[i] = lines[f + 1 + i - 1]
        BY <2>2, <3>1, SubSeqProperties
      <3>3. \A i \in 1 .. m - f : i \in 1 .. m - (f + 1) + 1 /\ f + 1 + i - 1 = f + i
        BY <2>2
      <3>4. \A i \in 1 .. m - f : b[i] = lines[f + i]
        BY <2>5, <3>2, <3>3
      <3> QED BY <2>2, <2>5, <3>1, <3>4, SubSeqProperties
    <2>9. /\ new \in Seq(R) /\ Len(new) = Len(a) + Len(b)
          /\ \A i \in 1 .. Len(a) + Len(b) :
                new[i] = IF i <= Len(a) THEN a[i] ELSE b[i - Len(a)]
      <3>1. a \in Seq(R) /\ b \in Seq(R)
        BY <2>7, <2>8
      <3> QED BY <2>6, <3>1, ConcatProperties
    <2>10. /\ DOMAIN new = 1 .. m - 1
           /\ \A i \in 1 .. m - 1 : new[i] = IF i < f THEN lines[i] ELSE lines[i + 1]
      <3>1. DOMAIN new = 1 .. m - 1
        BY <2>2, <2>7, <2>8, <2>9, LenProperties
      <3>2. ASSUME NEW i \in 1 .. m - 1, i < f PROVE new[i] = lines[i]
        <4>1. i \in 1 .. Len(a) + Len(b) /\ i <= Len(a) /\ i \in 1 .. f - 1
          BY <2>2, <2>7, <2>8, <3>2
        <4> QED BY <2>7, <2>9, <4>1
      <3>3. ASSUME NEW i \in 1 .. m - 1, ~ i < f PROVE new[i] = lines[i + 1]
        <4>1. /\ i \in 1 .. Len(a) + Len(b) /\ ~ i <= Len(a)
              /\ i - Len(a) \in 1 .. m - f /\ f + (i - Len(a)) = i + 1
          BY <2>2, <2>7, <2>8, <3>3
        <4>2. new[i] = b[i - Len(a)] /\ b[i - Len(a)] = lines[f + (i - Len(a))]
          BY <2>8, <2>9, <4>1
        <4> QED BY <4>1, <4>2
      <3> QED BY <3>1, <3>2, <3>3
    <2>11. ASSUME NEW i \in DOMAIN new
           PROVE  \E j \in DOMAIN lines : j # f /\ new[i] = lines[j]
      <3>1. i \in 1 .. m - 1
        BY <2>10
      <3>2. CASE i < f
        BY <2>2, <2>10, <3>1, <3>2
      <3>3. CASE ~ i < f
        <4>1. i + 1 \in 1 .. m /\ i + 1 # f
          BY <2>2, <3>1, <3>3
        <4> QED BY <2>2, <2>10, <3>1, <3>3, <4>1
      <3> QED BY <3>2, <3>3
    <2>12. ASSUME NEW j \in DOMAIN lines, lines[j].key # key
           PROVE  \E i \in DOMAIN new : new[i] = lines[j]
      <3>1. j \in 1 .. m /\ j # f
        BY <2>2, <2>12
      <3>2. CASE j < f
        <4>1. j \in 1 .. m - 1
          BY <2>2, <3>1, <3>2
        <4> QED BY <2>10, <3>2, <4>1
      <3>3. CASE ~ j < f
        <4>1. PICK i : i = j - 1
          OBVIOUS
        <4>2. i \in 1 .. m - 1 /\ ~ i < f /\ i + 1 = j
          BY <2>2, <3>1, <3>3, <4>1
        <4> QED BY <2>10, <4>2
      <3> QED BY <3>2, <3>3
    <2>13. AtMostOne(lines, key) => Places(new, key) = {}
      <3> SUFFICES ASSUME AtMostOne(lines, key), NEW i \in Places(new, key) PROVE FALSE
        OBVIOUS
      <3>1. i \in DOMAIN new /\ new[i].key = key
        BY DEF Places
      <3>2. PICK j \in DOMAIN lines : j # f /\ new[i] = lines[j]
        BY <2>11, <3>1
      <3>3. j \in Places(lines, key)
        BY <3>1, <3>2 DEF Places
      <3> QED BY <2>2, <3>2, <3>3 DEF AtMostOne
    <2>14. IsRemoved(new, lines, key)
      BY <2>11, <2>12, <2>13 DEF IsRemoved
    <2> QED BY <1>2, <2>9, <2>14
  <1> QED BY <1>3, <1>4
=============================================================================
