--------------------------- MODULE WaitingLineLemmas ---------------------------
(* What pushing, shifting and splicing do to the elements of a line. *)
EXTENDS WaitingLine, SequenceTheorems, FiniteSetTheorems, TLAPS

\* A sequence is empty just when it has no elements.
LEMMA EmptyIffNoElements ==
    ASSUME NEW S, NEW s \in Seq(S)
    PROVE  s = <<>> <=> Elements(s) = {}
<1>1. CASE s = <<>>
  BY <1>1 DEF Elements
<1>2. CASE s # <<>>
  <2>1. 1 \in DOMAIN s
    BY <1>2, EmptySeq, LenProperties
  <2> QED BY <1>2, <2>1 DEF Elements
<1> QED BY <1>1, <1>2

\* push: one element more, at the end.
LEMMA AppendElements ==
    ASSUME NEW S, NEW s \in Seq(S), NEW x \in S
    PROVE  /\ Append(s, x) \in Seq(S)
           /\ Elements(Append(s, x)) = Elements(s) \cup {x}
           /\ Distinct(s) /\ x \notin Elements(s) => Distinct(Append(s, x))
           /\ \A i \in DOMAIN Append(s, x) : Append(s, x)[i] \in Elements(s) \cup {x}
<1> DEFINE t == Append(s, x)
<1>1. /\ t \in Seq(S) /\ Len(s) \in Nat /\ DOMAIN s = 1 .. Len(s)
      /\ DOMAIN t = 1 .. Len(s) + 1
      /\ \A i \in 1 .. Len(s) : t[i] = s[i]
      /\ t[Len(s) + 1] = x
  OBVIOUS
<1> HIDE DEF t
<1>2. \A i \in DOMAIN t : t[i] \in Elements(s) \cup {x}
  BY <1>1 DEF Elements
<1>3. \A y \in Elements(s) \cup {x} : \E i \in DOMAIN t : t[i] = y
  BY <1>1 DEF Elements
<1>4. Elements(t) = Elements(s) \cup {x}
  BY <1>2, <1>3 DEF Elements
<1>5. ASSUME Distinct(s), x \notin Elements(s) PROVE Distinct(t)
  BY <1>1, <1>5 DEF Distinct, Elements
<1> QED BY <1>1, <1>2, <1>4, <1>5 DEF t

\* splice(i, 1) shifts what follows i down by one.
LEMMA WithoutIsSeq ==
    ASSUME NEW S, NEW s \in Seq(S), NEW i \in DOMAIN s
    PROVE  /\ Without(s, i) \in Seq(S)
           /\ Len(Without(s, i)) = Len(s) - 1
           /\ Len(s) - 1 \in Nat
           /\ DOMAIN Without(s, i) = 1 .. Len(s) - 1
           /\ \A k \in 1 .. Len(s) - 1 :
                Without(s, i)[k] = IF k < i THEN s[k] ELSE s[k + 1]
<1>1. /\ Len(s) \in Nat /\ DOMAIN s = 1 .. Len(s) /\ i \in 1 .. Len(s)
      /\ \A k \in 1 .. Len(s) : s[k] \in S
  OBVIOUS
<1>2. \A k \in 1 .. Len(s) - 1 : (IF k < i THEN s[k] ELSE s[k + 1]) \in S
  BY <1>1
<1> QED BY <1>1, <1>2 DEF Without

\* splice(i, 1) of a sequence without repetitions removes just that element.
LEMMA WithoutElements ==
    ASSUME NEW S, NEW s \in Seq(S), NEW i \in DOMAIN s, Distinct(s)
    PROVE  /\ Without(s, i) \in Seq(S)
           /\ Elements(Without(s, i)) = Elements(s) \ {s[i]}
           /\ Distinct(Without(s, i))
<1> DEFINE t == Without(s, i)
<1>1. Len(s) \in Nat /\ DOMAIN s = 1 .. Len(s) /\ i \in 1 .. Len(s)
  OBVIOUS
<1>2. /\ t \in Seq(S)
      /\ DOMAIN t = 1 .. Len(s) - 1 /\ Len(s) - 1 \in Nat
      /\ \A k \in 1 .. Len(s) - 1 : t[k] = IF k < i THEN s[k] ELSE s[k + 1]
  BY WithoutIsSeq
<1> HIDE DEF t
<1>4. \A k \in DOMAIN t : t[k] \in Elements(s) /\ t[k] # s[i]
  BY <1>1, <1>2 DEF Elements, Distinct
<1>5. ASSUME NEW y \in Elements(s), y # s[i] PROVE y \in Elements(t)
  <2>1. PICK k \in 1 .. Len(s) : s[k] = y
    BY <1>1, <1>5 DEF Elements
  <2>2. CASE k < i
    BY <1>1, <1>2, <2>1, <2>2 DEF Elements
  <2>3. CASE k > i
    <3>1. k - 1 \in DOMAIN t /\ t[k - 1] = s[k]
      BY <1>1, <1>2, <2>3
    <3> QED BY <2>1, <3>1 DEF Elements
  <2> QED BY <1>1, <1>5, <2>1, <2>2, <2>3
<1>6. Elements(t) = Elements(s) \ {s[i]}
  <2>1. Elements(t) \subseteq Elements(s) \ {s[i]}
    BY <1>4 DEF Elements
  <2> QED BY <1>5, <2>1
<1>7. Distinct(t)
  <2> SUFFICES ASSUME NEW j \in DOMAIN t, NEW k \in DOMAIN t, t[j] = t[k]
               PROVE  j = k
    BY DEF Distinct
  <2> DEFINE up(n) == IF n < i THEN n ELSE n + 1
  <2>1. /\ up(j) \in DOMAIN s /\ up(k) \in DOMAIN s
        /\ t[j] = s[up(j)] /\ t[k] = s[up(k)]
    BY <1>1, <1>2
  <2>2. up(j) = up(k)
    BY <2>1 DEF Distinct
  <2> QED BY <1>1, <1>2, <2>2
<1> QED BY <1>2, <1>6, <1>7 DEF t

\* shift is splice(0, 1).
LEMMA TailIsWithout ==
    ASSUME NEW S, NEW s \in Seq(S), s # <<>>
    PROVE  Tail(s) = Without(s, 1) /\ 1 \in DOMAIN s /\ Head(s) = s[1]
<1>1. /\ Len(s) \in Nat /\ Len(s) >= 1 /\ DOMAIN s = 1 .. Len(s) /\ Head(s) = s[1]
  OBVIOUS
<1> DEFINE t == Without(s, 1)
<1>2. /\ t \in Seq(S) /\ Len(t) = Len(s) - 1
      /\ \A k \in 1 .. Len(s) - 1 : t[k] = s[k + 1]
  <2>1. /\ t \in Seq(S) /\ Len(t) = Len(s) - 1
        /\ \A k \in 1 .. Len(s) - 1 : t[k] = IF k < 1 THEN s[k] ELSE s[k + 1]
    <3>1. 1 \in DOMAIN s
      BY <1>1
    <3> QED BY <3>1, WithoutIsSeq, Zenon
  <2>2. \A k \in 1 .. Len(s) - 1 : ~(k < 1)
    BY <1>1
  <2> HIDE DEF t
  <2> QED BY <2>1, <2>2, Zenon
<1> HIDE DEF t
<1>3. /\ Tail(s) \in Seq(S) /\ Len(Tail(s)) = Len(s) - 1
      /\ \A k \in 1 .. Len(s) - 1 : Tail(s)[k] = s[k + 1]
  BY <1>1, HeadTailProperties
<1>4. Tail(s) = t
  BY <1>1, <1>2, <1>3, SeqEqual
<1> QED BY <1>1, <1>4 DEF t
\* The place findIndex gives.
LEMMA IndexOfPlace ==
    ASSUME NEW S, NEW s \in Seq(S), NEW x \in Elements(s)
    PROVE  IndexOf(s, x) \in DOMAIN s /\ s[IndexOf(s, x)] = x
<1>1. \E i \in DOMAIN s : s[i] = x
  BY DEF Elements
<1> QED BY <1>1, Zenon DEF IndexOf

\* The first n of a line without repetitions are n.
LEMMA FirstAreThatMany ==
    ASSUME NEW S, NEW s \in Seq(S), Distinct(s), NEW n \in 0 .. Len(s)
    PROVE  /\ IsFiniteSet({s[i] : i \in 1 .. n})
           /\ Cardinality({s[i] : i \in 1 .. n}) = n
<1> DEFINE F == {s[i] : i \in 1 .. n}
           f == [i \in 1 .. n |-> s[i]]
<1>1. /\ n \in Nat /\ 1 \in Int /\ n \in Int
      /\ \A i \in 1 .. n : i \in DOMAIN s
  OBVIOUS
<1>2. IsFiniteSet(1 .. n) /\ Cardinality(1 .. n) = n
  BY <1>1, FS_Interval
<1>3. f \in Bijection(1 .. n, F)
  <2>1. \A i, j \in 1 .. n : f[i] = f[j] => i = j
    BY <1>1 DEF Distinct
  <2>2. f \in [1 .. n -> F]
    OBVIOUS
  <2>3. \A y \in F : \E i \in 1 .. n : f[i] = y
    OBVIOUS
  <2> QED BY <2>1, <2>2, <2>3 DEF Bijection, Injection, Surjection, IsInjective
<1>4. ExistsBijection(1 .. n, F)
  BY <1>3 DEF ExistsBijection
<1> HIDE DEF F, f
<1>5. IsFiniteSet(F) /\ Cardinality(F) = n
  BY <1>2, <1>4, FS_Bijection
<1> QED BY <1>5 DEF F

\* What is left of a line when the first n have gone.
LEMMA RestOfLine ==
    ASSUME NEW S, NEW s \in Seq(S), Distinct(s), NEW n \in 0 .. Len(s)
    PROVE  /\ SubSeq(s, n + 1, Len(s)) \in Seq(S)
           /\ Elements(SubSeq(s, n + 1, Len(s))) = Elements(s) \ {s[i] : i \in 1 .. n}
           /\ Distinct(SubSeq(s, n + 1, Len(s)))
           /\ n = Len(s) => SubSeq(s, n + 1, Len(s)) = <<>>
<1> DEFINE t == SubSeq(s, n + 1, Len(s))
<1>1. /\ Len(s) \in Nat /\ n \in Nat /\ DOMAIN s = 1 .. Len(s)
      /\ t \in Seq(S) /\ Len(t) = Len(s) - n /\ DOMAIN t = 1 .. Len(s) - n
      /\ \A i \in 1 .. Len(s) - n : t[i] = s[n + i]
  OBVIOUS
<1> HIDE DEF t
<1>2. Elements(t) \subseteq Elements(s) \ {s[i] : i \in 1 .. n}
  <2> SUFFICES ASSUME NEW i \in 1 .. Len(s) - n
               PROVE  /\ n + i \in 1 .. Len(s)
                      /\ \A j \in 1 .. n : s[j] # s[n + i]
    BY <1>1 DEF Elements
  <2>1. n + i \in 1 .. Len(s) /\ \A j \in 1 .. n : j \in 1 .. Len(s) /\ j # n + i
    BY <1>1
  <2> QED BY <1>1, <2>1 DEF Distinct
<1>3. Elements(s) \ {s[i] : i \in 1 .. n} \subseteq Elements(t)
  <2> SUFFICES ASSUME NEW i \in 1 .. Len(s), s[i] \notin {s[j] : j \in 1 .. n}
               PROVE  s[i] \in Elements(t)
    BY <1>1 DEF Elements
  <2>1. i \notin 1 .. n
    OBVIOUS
  <2>2. i - n \in 1 .. Len(s) - n /\ n + (i - n) = i
    BY <1>1, <2>1
  <2>3. t[i - n] = s[i]
    BY <1>1, <2>2
  <2> QED BY <1>1, <2>2, <2>3 DEF Elements
<1>4. Distinct(t)
  <2> SUFFICES ASSUME NEW i \in 1 .. Len(s) - n, NEW j \in 1 .. Len(s) - n, t[i] = t[j]
               PROVE  i = j
    BY <1>1 DEF Distinct
  <2>1. n + i \in 1 .. Len(s) /\ n + j \in 1 .. Len(s) /\ s[n + i] = s[n + j]
    BY <1>1
  <2>2. n + i = n + j
    BY <1>1, <2>1 DEF Distinct
  <2> QED BY <1>1, <2>2
<1>5. n = Len(s) => t = <<>>
  BY <1>1, EmptySeq
<1> QED BY <1>1, <1>2, <1>3, <1>4, <1>5 DEF t

\* A nonempty set of numbers has a least one.
LEMMA LeastExists ==
    ASSUME NEW S \in SUBSET Nat, S # {}
    PROVE  \E m \in S : \A n \in S : m <= n
<1> DEFINE U == {0 .. m : m \in S}
<1>1. U # {} /\ U \subseteq FiniteSubsetsOf(Nat)
  <2>1. \A m \in Nat : 0 .. m \in SUBSET Nat /\ IsFiniteSet(0 .. m)
    BY FS_Interval
  <2> QED BY <2>1 DEF FiniteSubsetsOf
<1>2. PICK L \in U : \A T \in U : <<T, L>> \notin StrictSubsetOrdering(Nat)
  <2>1. IsWellFoundedOn(StrictSubsetOrdering(Nat), FiniteSubsetsOf(Nat))
    BY FS_StrictSubsetOrderingWellFounded
  <2> HIDE DEF U
  <2> QED BY <1>1, <2>1, WFMin
<1>3. PICK m \in S : L = 0 .. m
  OBVIOUS
<1>4. ASSUME NEW n \in S, n < m PROVE FALSE
  <2>1. 0 .. n \subseteq 0 .. m /\ 0 .. n # 0 .. m /\ 0 .. n \in U /\ L \in U
    <3>1. m \in 0 .. m /\ m \notin 0 .. n
      BY <1>4
    <3> QED BY <1>3, <1>4, <3>1
  <2>2. <<0 .. n, L>> \in StrictSubsetOrdering(Nat)
    BY <1>3, <2>1 DEF StrictSubsetOrdering
  <2> QED BY <1>2, <2>1, <2>2
<1> QED BY <1>4

\* How many of the first i elements a filter lets through.
Upto(s, T, i) == Cardinality({j \in 1 .. i : s[j] \in T})

LEMMA FilterCounts ==
    ASSUME NEW S, NEW s \in Seq(S), NEW T
    PROVE  /\ \A i \in 0 .. Len(s) : Upto(s, T, i) \in Nat
           /\ \A i \in 1 .. Len(s) :
                  Upto(s, T, i) = IF s[i] \in T THEN Upto(s, T, i - 1) + 1
                                               ELSE Upto(s, T, i - 1)
           /\ Upto(s, T, 0) = 0
<1> DEFINE In(k) == {j \in 1 .. k : s[j] \in T}
<1>1. \A k \in Nat : IsFiniteSet(In(k)) /\ Cardinality(In(k)) \in Nat
  <2> TAKE k \in Nat
  <2>1. IsFiniteSet(1 .. k) /\ In(k) \subseteq 1 .. k
    BY FS_Interval
  <2> HIDE DEF In
  <2> QED BY <2>1, FS_Subset, FS_CardinalityType
<1>2. ASSUME NEW i \in 1 .. Len(s)
      PROVE  Cardinality(In(i)) =
                 IF s[i] \in T THEN Cardinality(In(i - 1)) + 1 ELSE Cardinality(In(i - 1))
  <2>1. /\ i - 1 \in Nat /\ i \notin In(i - 1)
        /\ In(i) = IF s[i] \in T THEN In(i - 1) \cup {i} ELSE In(i - 1)
    OBVIOUS
  <2> HIDE DEF In
  <2> QED BY <1>1, <2>1, FS_AddElement
<1>3. Cardinality(In(0)) = 0
  <2>1. In(0) = {}
    OBVIOUS
  <2> HIDE DEF In
  <2> QED BY <2>1, FS_EmptySet
<1>4. \A k : Upto(s, T, k) = Cardinality(In(k))
  BY DEF Upto
<1>5. Len(s) \in Nat
  OBVIOUS
<1> HIDE DEF In
<1> QED BY <1>1, <1>2, <1>3, <1>4, <1>5

\* filter picks places of the sequence whose elements are in the set, in their order.
LEMMA FilteredPicks ==
    ASSUME NEW S, NEW s \in Seq(S), NEW T
    PROVE  /\ Upto(s, T, Len(s)) \in Nat
           /\ DOMAIN Filtered(s, T) = 1 .. Upto(s, T, Len(s))
           /\ Filtered(s, T) = [n \in 1 .. Upto(s, T, Len(s)) |-> Filtered(s, T)[n]]
           /\ \A n \in 1 .. Upto(s, T, Len(s)) :
                  \E i \in DOMAIN s : /\ s[i] \in T /\ Upto(s, T, i) = n
                                      /\ Filtered(s, T)[n] = s[i]
<1>1. /\ \A i \in 0 .. Len(s) : Upto(s, T, i) \in Nat
      /\ \A i \in 1 .. Len(s) :
             Upto(s, T, i) = IF s[i] \in T THEN Upto(s, T, i - 1) + 1
                                          ELSE Upto(s, T, i - 1)
      /\ Upto(s, T, 0) = 0
  BY FilterCounts
<1>2. Len(s) \in Nat /\ DOMAIN s = 1 .. Len(s) /\ \A i \in 1 .. Len(s) : s[i] \in S
  OBVIOUS
<1>3. ASSUME NEW n \in 1 .. Upto(s, T, Len(s))
      PROVE  \E i \in DOMAIN s : s[i] \in T /\ Upto(s, T, i) = n
  <2> DEFINE B == {i \in 0 .. Len(s) : Upto(s, T, i) >= n}
  <2>1. B \in SUBSET Nat /\ Len(s) \in B
    BY <1>1, <1>2
  <2>2. PICK i \in B : \A k \in B : i <= k
    <3> HIDE DEF B
    <3> QED BY <2>1, LeastExists
  <2>3. i \in 1 .. Len(s) /\ i - 1 \in 0 .. Len(s) /\ i - 1 \notin B
    BY <1>1, <1>2, <2>2
  <2> QED BY <1>1, <1>2, <2>2, <2>3
<1> DEFINE at(n) == CHOOSE i \in DOMAIN s : s[i] \in T /\ Upto(s, T, i) = n
<1>4. \A n \in 1 .. Upto(s, T, Len(s)) :
          at(n) \in DOMAIN s /\ s[at(n)] \in T /\ Upto(s, T, at(n)) = n
  BY <1>3
<1>5. Upto(s, T, Len(s)) \in Nat
  BY <1>1, <1>2
<1>6. Filtered(s, T) = [n \in 1 .. Upto(s, T, Len(s)) |-> s[at(n)]]
  BY DEF Filtered, Upto
<1> HIDE DEF at
<1> QED BY <1>4, <1>5, <1>6

LEMMA FilteredIsSeq ==
    ASSUME NEW S, NEW s \in Seq(S), NEW T
    PROVE  Filtered(s, T) \in Seq({x \in S : x \in T})
<1> DEFINE f == Filtered(s, T)
           k == Upto(s, T, Len(s))
<1>1. /\ k \in Nat /\ f = [n \in 1 .. k |-> f[n]]
      /\ \A n \in 1 .. k : \E i \in DOMAIN s : s[i] \in T /\ f[n] = s[i]
  BY FilteredPicks
<1>2. \A i \in DOMAIN s : s[i] \in S
  OBVIOUS
<1> HIDE DEF f, k
<1>3. \A n \in 1 .. k : f[n] \in {x \in S : x \in T}
  BY <1>1, <1>2
<1>4. f \in Seq({x \in S : x \in T})
  BY <1>1, <1>3
<1> QED BY <1>4 DEF f

LEMMA FilteredDistinct ==
    ASSUME NEW S, NEW s \in Seq(S), NEW T, Distinct(s)
    PROVE  Distinct(Filtered(s, T))
<1> DEFINE f == Filtered(s, T)
<1>1. /\ DOMAIN f = 1 .. Upto(s, T, Len(s))
      /\ \A n \in DOMAIN f : \E i \in DOMAIN s : Upto(s, T, i) = n /\ f[n] = s[i]
  BY FilteredPicks
<1> HIDE DEF f
<1>2. ASSUME NEW m \in DOMAIN f, NEW n \in DOMAIN f, f[m] = f[n]
      PROVE  m = n
  <2>1. PICK i \in DOMAIN s : Upto(s, T, i) = m /\ f[m] = s[i]
    BY <1>1
  <2>2. PICK j \in DOMAIN s : Upto(s, T, j) = n /\ f[n] = s[j]
    BY <1>1
  <2>3. i = j
    BY <1>2, <2>1, <2>2 DEF Distinct
  <2> QED BY <2>1, <2>2, <2>3
<1>3. Distinct(f)
  BY <1>2 DEF Distinct
<1> QED BY <1>3 DEF f

\* A filter everything passes changes nothing.
LEMMA FilteredAll ==
    ASSUME NEW S, NEW s \in Seq(S), NEW T, Elements(s) \subseteq T
    PROVE  Filtered(s, T) = s
<1>1. /\ Len(s) \in Nat /\ DOMAIN s = 1 .. Len(s) /\ s = [n \in 1 .. Len(s) |-> s[n]]
      /\ \A i \in 1 .. Len(s) : s[i] \in T
  BY DEF Elements
<1>2. \A i \in 0 .. Len(s) : Upto(s, T, i) = i
  <2> TAKE i \in 0 .. Len(s)
  <2>1. {j \in 1 .. i : s[j] \in T} = 1 .. i
    BY <1>1
  <2>2. Cardinality(1 .. i) = i
    BY FS_Interval
  <2> QED BY <2>1, <2>2 DEF Upto
<1>3. Filtered(s, T) = [n \in 1 .. Upto(s, T, Len(s)) |->
                           s[CHOOSE i \in DOMAIN s : s[i] \in T /\ Upto(s, T, i) = n]]
  BY DEF Filtered, Upto
<1>4. Upto(s, T, Len(s)) = Len(s)
  BY <1>1, <1>2
<1>5. \A n \in 1 .. Len(s) : (CHOOSE i \in DOMAIN s : s[i] \in T /\ Upto(s, T, i) = n) = n
  BY <1>1, <1>2
<1> QED BY <1>1, <1>3, <1>4, <1>5

\* A filter nothing passes leaves nothing.
LEMMA FilteredNone ==
    ASSUME NEW S, NEW s \in Seq(S), NEW T, Elements(s) \cap T = {}
    PROVE  Filtered(s, T) = <<>>
<1>1. {j \in 1 .. Len(s) : s[j] \in T} = {}
  BY DEF Elements
<1>2. Cardinality({j \in 1 .. Len(s) : s[j] \in T}) = 0
  BY <1>1, FS_EmptySet
<1>3. Filtered(s, T) \in Seq({x \in S : x \in T})
  BY FilteredIsSeq
<1>4. DOMAIN Filtered(s, T) = 1 .. Cardinality({j \in 1 .. Len(s) : s[j] \in T})
  BY DEF Filtered
<1>5. Len(Filtered(s, T)) = 0
  BY <1>2, <1>3, <1>4
<1> QED BY <1>3, <1>5
===============================================================================
