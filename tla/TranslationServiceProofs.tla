---------------------- MODULE TranslationServiceProofs ----------------------
(***************************************************************************)
(* Proofs about the stateless translation, for every request, every stream *)
(* and every list of witnesses.  First what the helpers compute: the least *)
(* member of a set, Firsts (a recursive function, so its induction is a    *)
(* least counterexample) and the words of a text; then the invariant.      *)
(***************************************************************************)
EXTENDS TranslationService, FiniteSetTheorems, SequenceTheorems,
        WellFoundedInduction, TLAPS

-----------------------------------------------------------------------------
(* Least and greatest.                                                     *)

\* A nonempty set of naturals has a least element.
LEMMA LeastNat ==
    ASSUME NEW S \in SUBSET Nat, NEW k \in S
    PROVE  \E m \in S : \A n \in S : m <= n
<1> DEFINE D == 0..k
           J == { n \in S : n <= k }
           Below(j) == { n \in S : n <= j }
           T == { Below(j) : j \in J }
<1>0. k \in Nat /\ \A n \in S : n \in Nat
  OBVIOUS
<1>1. IsFiniteSet(D)
  BY FS_Interval
<1>2. k \in J /\ J \subseteq S /\ \A j \in J : j \in Nat /\ j <= k
  BY <1>0
<1>3. \A n \in S : n \in J \/ k < n
  BY <1>0
<1> HIDE DEF J
<1>4. \A j \in J : Below(j) \subseteq D
  <2> SUFFICES ASSUME NEW j \in J, NEW n \in S, n <= j PROVE n \in 0..k
    OBVIOUS
  <2> QED
    BY <1>0, <1>2
<1>5. ASSUME NEW j \in J, NEW n \in J, n < j
      PROVE  Below(n) \subseteq Below(j) /\ j \in Below(j) /\ j \notin Below(n)
  <2>1. j \in Nat /\ n \in Nat /\ j \in S /\ j <= j /\ ~(j <= n)
    BY <1>2, <1>5
  <2>2. \A i \in S : i <= n => i <= j
    BY <1>0, <1>5, <2>1
  <2> QED
    BY <2>1, <2>2
<1> HIDE DEF D, Below
<1>6. T \in SUBSET (SUBSET D) /\ T # {}
  BY <1>2, <1>4
<1>7. IsWellFoundedOn(StrictSubsetOrdering(D), SUBSET D)
  BY <1>1, FS_StrictSubsetOrderingWellFounded, FS_FiniteSubsetsOfFinite
<1>8. PICK x \in T : \A y \in T : ~(<<y, x>> \in StrictSubsetOrdering(D))
  BY <1>6, <1>7, WFMin
<1>9. PICK m \in J : x = Below(m)
  BY <1>8
<1>10. ASSUME NEW n \in J, n < m PROVE FALSE
  <2>1. <<Below(n), Below(m)>> \in StrictSubsetOrdering(D)
    BY <1>4, <1>5, <1>9, <1>10 DEF StrictSubsetOrdering
  <2> QED
    BY <1>8, <1>9, <2>1
<1>11. \A n \in S : m <= n
  BY <1>0, <1>2, <1>3, <1>9, <1>10
<1> QED
  BY <1>2, <1>11

\* A nonempty bounded set of naturals has a greatest element.
LEMMA GreatestNat ==
    ASSUME NEW S \in SUBSET Nat, NEW k \in S, NEW b \in Nat, \A n \in S : n <= b
    PROVE  \E m \in S : \A n \in S : n <= m
<1> DEFINE R == { b - n : n \in S }
<1>1. \A n \in S : n \in Nat /\ n <= b
  OBVIOUS
<1>2. R \in SUBSET Nat /\ b - k \in R
  BY <1>1
<1>3. PICK r \in R : \A x \in R : r <= x
  BY <1>2, LeastNat
<1>4. PICK m \in S : r = b - m
  BY <1>3
<1>5. ASSUME NEW n \in S PROVE n <= m
  <2>1. b - m <= b - n
    BY <1>3, <1>4
  <2> QED
    BY <1>1, <2>1
<1> QED
  BY <1>5

\* Min and Max of the community modules are what they are named for.
LEMMA MinMax ==
    ASSUME NEW b \in Nat, NEW S \in SUBSET (0..b), S # {}
    PROVE  /\ Min(S) \in S /\ \A n \in S : Min(S) <= n
           /\ Max(S) \in S /\ \A n \in S : n <= Max(S)
<1>1. \A n \in S : n \in Nat /\ n <= b
  OBVIOUS
<1>a. S \in SUBSET Nat
  BY <1>1
<1>b. PICK k \in S : TRUE
  OBVIOUS
<1>2. \E m \in S : \A n \in S : m <= n
  BY <1>a, <1>b, LeastNat
<1>3. \E m \in S : \A n \in S : n <= m
  BY <1>1, <1>a, <1>b, GreatestNat
<1>4. \E m \in S : \A n \in S : m >= n
  BY <1>1, <1>3
<1>5. Min(S) \in S /\ \A n \in S : Min(S) <= n
  BY <1>2 DEF Min
<1>6. Max(S) \in S /\ \A n \in S : Max(S) >= n
  BY <1>4 DEF Max
<1>7. \A n \in S : n <= Max(S)
  BY <1>1, <1>6
<1> QED
  BY <1>5, <1>6, <1>7

-----------------------------------------------------------------------------
(* Firsts.                                                                 *)

\* The rule of the recursion, for the first m languages.
Rule(L, X, f, m) ==
    /\ f[0] = <<>>
    /\ \A n \in 1..m : f[n] = IF L[n] \in X \cup ToSet(f[n - 1]) THEN f[n - 1]
                              ELSE Append(f[n - 1], L[n])

\* There is a function that follows the rule, for each number of languages.
LEMMA RuleHasFunction ==
    ASSUME NEW E, NEW L \in Seq(E), NEW X
    PROVE  \E f \in [0..Len(L) -> Seq(E)] : Rule(L, X, f, Len(L))
<1> DEFINE G(m) == { f \in [0..m -> Seq(E)] : Rule(L, X, f, m) }
           Bad == { m \in 0..Len(L) : G(m) = {} }
<1>1. Len(L) \in Nat /\ \A n \in 1..Len(L) : L[n] \in E
  OBVIOUS
<1>2. G(0) # {}
  <2> DEFINE f == [n \in 0..0 |-> <<>>]
  <2>1. f \in [0..0 -> Seq(E)] /\ Rule(L, X, f, 0)
    BY DEF Rule
  <2> QED
    BY <2>1
<1>3. ASSUME NEW m \in 0..Len(L), m # 0, G(m - 1) # {} PROVE G(m) # {}
  <2>1. PICK f \in [0..(m - 1) -> Seq(E)] : Rule(L, X, f, m - 1)
    BY <1>3
  <2> DEFINE last == IF L[m] \in X \cup ToSet(f[m - 1]) THEN f[m - 1]
                     ELSE Append(f[m - 1], L[m])
             g == [n \in 0..m |-> IF n = m THEN last ELSE f[n]]
  <2>2. m \in Nat /\ m - 1 \in 0..(m - 1) /\ m \in 1..Len(L)
    BY <1>1, <1>3
  <2>3. last \in Seq(E)
    BY <1>1, <2>1, <2>2
  <2> HIDE DEF last
  <2>4. g \in [0..m -> Seq(E)]
    BY <2>2, <2>3
  <2>5. g[0] = <<>>
    BY <1>3, <2>1, <2>2 DEF Rule
  <2>6. \A n \in 1..m : n - 1 \in 0..(m - 1) /\ g[n - 1] = f[n - 1]
    BY <2>2
  <2>7. \A n \in 1..m : n # m => n \in 1..(m - 1) /\ g[n] = f[n]
    BY <2>2
  <2>8. m \in 1..m /\ g[m] = last
    BY <1>3, <2>2
  <2> HIDE DEF g
  <2>9. Rule(L, X, g, m)
    BY <2>1, <2>5, <2>6, <2>7, <2>8 DEF Rule, last
  <2> QED
    BY <2>4, <2>9
<1>4. Bad = {}
  <2> SUFFICES ASSUME NEW k \in Bad PROVE FALSE
    OBVIOUS
  <2>1. Bad \in SUBSET Nat
    BY <1>1
  <2>2. PICK m \in Bad : \A n \in Bad : m <= n
    BY <2>1, LeastNat
  <2>3. m \in 0..Len(L) /\ G(m) = {} /\ m # 0
    BY <1>2, <2>2
  <2>4. m - 1 \in 0..Len(L) /\ ~(m <= m - 1)
    BY <1>1, <2>3
  <2>5. G(m - 1) # {}
    BY <2>2, <2>4
  <2> QED
    BY <1>3, <2>3, <2>5
<1>5. G(Len(L)) # {}
  BY <1>1, <1>4
<1> QED
  BY <1>5

\* Firsts is what the function that follows the rule comes to.
LEMMA FirstsIsRule ==
    ASSUME NEW E, NEW L \in Seq(E), NEW X
    PROVE  \E f \in [0..Len(L) -> Seq(E)] :
               Rule(L, X, f, Len(L)) /\ Firsts(L, X) = f[Len(L)]
<1> DEFINE Body(f, n) == IF n = 0 THEN <<>>
                         ELSE IF L[n] \in X \cup ToSet(f[n - 1]) THEN f[n - 1]
                         ELSE Append(f[n - 1], L[n])
           kept == CHOOSE f : f = [n \in 0..Len(L) |-> Body(f, n)]
<1>1. Len(L) \in Nat
  OBVIOUS
<1>2. PICK f \in [0..Len(L) -> Seq(E)] : Rule(L, X, f, Len(L))
  BY RuleHasFunction
<1>3. \A n \in 0..Len(L) : f[n] = Body(f, n)
  <2>1. \A n \in 0..Len(L) : n = 0 \/ (n \in 1..Len(L) /\ n # 0)
    BY <1>1
  <2> QED
    BY <1>2, <2>1 DEF Rule
<1>4. f = [n \in 0..Len(L) |-> Body(f, n)]
  <2> HIDE DEF Body
  <2> QED
    BY <1>2, <1>3
<1>5. kept = [n \in 0..Len(L) |-> Body(kept, n)]
  BY <1>4
<1>6. Firsts(L, X) = kept[Len(L)]
  BY DEF Firsts
<1> HIDE DEF kept
<1>7. DOMAIN kept = 0..Len(L) /\ \A n \in 0..Len(L) : kept[n] = Body(kept, n)
  <2> HIDE DEF Body
  <2> QED
    BY <1>5
<1> DEFINE Bad == { n \in 0..Len(L) : kept[n] # f[n] }
<1>8. Bad = {}
  <2> SUFFICES ASSUME NEW k \in Bad PROVE FALSE
    OBVIOUS
  <2>1. Bad \in SUBSET Nat
    BY <1>1
  <2>2. PICK n \in Bad : \A j \in Bad : n <= j
    BY <2>1, LeastNat
  <2>3. n \in 0..Len(L) /\ kept[n] # f[n]
    BY <2>2
  <2>4. CASE n = 0
    BY <1>3, <1>7, <2>3, <2>4
  <2>5. CASE n # 0
    <3>1. n - 1 \in 0..Len(L) /\ ~(n <= n - 1)
      BY <1>1, <2>3, <2>5
    <3>2. kept[n - 1] = f[n - 1]
      BY <2>2, <3>1
    <3>3. Body(kept, n) = Body(f, n)
      BY <3>2
    <3> QED
      BY <1>3, <1>7, <2>3, <3>3
  <2> QED
    BY <2>4, <2>5
<1>9. kept[Len(L)] = f[Len(L)]
  BY <1>1, <1>8
<1> QED
  BY <1>2, <1>6, <1>9

\* Firsts holds no language twice and none of the excluded.
THEOREM FirstsDistinct ==
    ASSUME NEW E, NEW L \in Seq(E), NEW X
    PROVE  /\ Firsts(L, X) \in Seq(E)
           /\ \A i \in DOMAIN Firsts(L, X) : Firsts(L, X)[i] \notin X
           /\ \A i, j \in DOMAIN Firsts(L, X) :
                 Firsts(L, X)[i] = Firsts(L, X)[j] => i = j
<1> DEFINE Good(s) == /\ \A i \in 1..Len(s) : s[i] \notin X
                      /\ \A i, j \in 1..Len(s) : s[i] = s[j] => i = j
<1>1. Len(L) \in Nat /\ \A n \in 1..Len(L) : L[n] \in E
  OBVIOUS
<1>2. PICK f \in [0..Len(L) -> Seq(E)] :
          Rule(L, X, f, Len(L)) /\ Firsts(L, X) = f[Len(L)]
  BY FirstsIsRule
<1>3. Good(<<>>)
  OBVIOUS
<1>4. ASSUME NEW s \in Seq(E), Good(s), NEW x \in E, x \notin X \cup ToSet(s)
      PROVE  Good(Append(s, x))
  <2>1. /\ Len(Append(s, x)) = Len(s) + 1 /\ Append(s, x)[Len(s) + 1] = x
        /\ \A i \in 1..Len(s) : Append(s, x)[i] = s[i]
        /\ \A i \in 1..(Len(s) + 1) : i \in 1..Len(s) \/ i = Len(s) + 1
    OBVIOUS
  <2>2. \A i \in 1..Len(s) : s[i] # x
    BY <1>4 DEF ToSet
  <2> HIDE DEF Good
  <2> DEFINE t == Append(s, x)
  <2>3. \A i \in 1..Len(t) : t[i] \notin X
    BY <1>4, <2>1 DEF Good
  <2>4. \A i, j \in 1..Len(t) : t[i] = t[j] => i = j
    BY <1>4, <2>1, <2>2 DEF Good
  <2> QED
    BY <2>3, <2>4 DEF Good
<1> HIDE DEF Good
<1> DEFINE Bad == { n \in 0..Len(L) : ~Good(f[n]) }
<1>5. Bad = {}
  <2> SUFFICES ASSUME NEW k \in Bad PROVE FALSE
    OBVIOUS
  <2>1. Bad \in SUBSET Nat
    BY <1>1
  <2>2. PICK n \in Bad : \A j \in Bad : n <= j
    BY <2>1, LeastNat
  <2>3. n \in 0..Len(L) /\ ~Good(f[n])
    BY <2>2
  <2>4. n # 0
    BY <1>2, <1>3, <2>3 DEF Rule
  <2>5. n - 1 \in 0..Len(L) /\ n \in 1..Len(L) /\ ~(n <= n - 1)
    BY <1>1, <2>3, <2>4
  <2>6. Good(f[n - 1]) /\ f[n - 1] \in Seq(E)
    BY <1>2, <2>2, <2>5
  <2>7. f[n] = IF L[n] \in X \cup ToSet(f[n - 1]) THEN f[n - 1] ELSE Append(f[n - 1], L[n])
    BY <1>2, <2>5 DEF Rule
  <2> QED
    BY <1>1, <1>4, <2>3, <2>5, <2>6, <2>7
  
<1>6. Good(Firsts(L, X)) /\ Firsts(L, X) \in Seq(E)
  BY <1>1, <1>2, <1>5
<1>7. DOMAIN Firsts(L, X) = 1..Len(Firsts(L, X))
  BY <1>6
<1> QED
  BY <1>6, <1>7 DEF Good

\* A list of distinct languages that are not excluded is kept as it is, after
\* any d excluded ones.
LEMMA FirstsOfDistinct ==
    ASSUME NEW E, NEW L \in Seq(E), NEW X, NEW d \in 0..Len(L),
           \A i \in 1..d : L[i] \in X,
           \A i \in (d + 1)..Len(L) : L[i] \notin X,
           \A i, j \in (d + 1)..Len(L) : L[i] = L[j] => i = j
    PROVE  Firsts(L, X) = SubSeq(L, d + 1, Len(L))
<1>1. Len(L) \in Nat /\ d \in Nat /\ d <= Len(L)
  OBVIOUS
<1>2. PICK f \in [0..Len(L) -> Seq(E)] :
          Rule(L, X, f, Len(L)) /\ Firsts(L, X) = f[Len(L)]
  BY FirstsIsRule
<1> DEFINE Upto(n) == IF n <= d THEN <<>> ELSE SubSeq(L, d + 1, n)
           Bad == { n \in 0..Len(L) : f[n] # Upto(n) }
<1>3. ASSUME NEW n \in 1..Len(L), n <= d PROVE L[n] \in X
  BY <1>1, <1>3
<1>4. ASSUME NEW n \in 1..Len(L), ~(n <= d)
      PROVE  /\ L[n] \notin X \cup ToSet(Upto(n - 1))
             /\ Append(Upto(n - 1), L[n]) = SubSeq(L, d + 1, n)
  <2>1. n \in Nat /\ n \in (d + 1)..Len(L) /\ L[n] \in E
    BY <1>1, <1>4
  <2>2. CASE n - 1 <= d
    <3>1. n = d + 1 /\ Upto(n - 1) = <<>>
      BY <1>1, <1>4, <2>1, <2>2
    <3>2. SubSeq(L, n, n) = <<L[n]>>
      <4>1. /\ SubSeq(L, n, n) \in Seq(E) /\ Len(SubSeq(L, n, n)) = 1
            /\ SubSeq(L, n, n)[1] = L[n]
        <5>1. \A i \in n..n : L[i] \in E
          BY <2>1
        <5>2. n \in Int /\ n - n + 1 = 1 /\ n <= n /\ n + 1 - 1 = n /\ 1 \in 1..1
          BY <2>1
        <5> QED
          BY <5>1, <5>2, SubSeqProperties
      <4>2. /\ <<L[n]>> \in Seq(E) /\ Len(<<L[n]>>) = 1 /\ <<L[n]>>[1] = L[n]
        BY <2>1
      <4>3. \A i \in 1..1 : SubSeq(L, n, n)[i] = <<L[n]>>[i]
        BY <4>1, <4>2
      <4> QED
        BY <4>1, <4>2, <4>3, SeqEqual
    <3>3. Append(<<>>, L[n]) = <<L[n]>> /\ ToSet(<<>>) = {}
      BY DEF ToSet
    <3> QED
      BY <2>1, <3>1, <3>2, <3>3
  <2>3. CASE ~(n - 1 <= d)
    <3>1. Upto(n - 1) = SubSeq(L, d + 1, n - 1)
      BY <2>3
    <3> DEFINE s == SubSeq(L, d + 1, n - 1)
               t == SubSeq(L, d + 1, n)
    <3>2. /\ s \in Seq(E) /\ Len(s) = n - 1 - d
          /\ \A i \in 1..(n - 1 - d) : s[i] = L[d + i]
      BY <1>1, <2>1, <2>3
    <3>3. /\ t \in Seq(E) /\ Len(t) = n - d
          /\ \A i \in 1..(n - d) : t[i] = L[d + i]
      <4>1. \A i \in (d + 1)..n : L[i] \in E
        BY <1>1, <2>1
      <4>2. /\ d + 1 \in Int /\ n \in Int /\ d + 1 <= n /\ n - (d + 1) + 1 = n - d
            /\ \A i \in 1..(n - d) : d + 1 + i - 1 = d + i
        BY <1>1, <2>1
      <4>3. /\ t \in Seq(E)
            /\ Len(t) = IF d + 1 <= n THEN n - (d + 1) + 1 ELSE 0
            /\ \A i \in 1..(n - (d + 1) + 1) : t[i] = L[d + 1 + i - 1]
        BY <4>1, <4>2, SubSeqProperties
      <4> HIDE DEF t
      <4> QED
        BY <4>2, <4>3
    <3> HIDE DEF s, t
    <3>4. Append(s, L[n]) = t
      <4>1. /\ Append(s, L[n]) \in Seq(E) /\ Len(Append(s, L[n])) = n - d
            /\ \A i \in 1..(n - 1 - d) : Append(s, L[n])[i] = s[i]
            /\ Append(s, L[n])[n - d] = L[n]
        BY <1>1, <2>1, <2>3, <3>2
      <4>2. \A i \in 1..(n - d) : i \in 1..(n - 1 - d) \/ i = n - d
        BY <1>1, <2>1
      <4>3. \A i \in 1..(n - d) : Append(s, L[n])[i] = t[i]
        <5>1. L[d + (n - d)] = L[n] /\ n - d \in 1..(n - d)
          BY <1>1, <2>1
        <5> QED
          BY <3>2, <3>3, <4>1, <4>2, <5>1
      <4> QED
        BY <3>3, <4>1, <4>3, SeqEqual
    <3>5. L[n] \notin ToSet(s)
      <4>1. \A i \in 1..(n - 1 - d) : d + i \in (d + 1)..Len(L) /\ d + i # n
        BY <1>1, <2>1
      <4>2. \A i \in 1..(n - 1 - d) : s[i] # L[n]
        BY <2>1, <3>2, <4>1
      <4>3. DOMAIN s = 1..(n - 1 - d)
        BY <3>2
      <4> QED
        BY <4>2, <4>3 DEF ToSet
    <3> QED
      BY <2>1, <3>1, <3>4, <3>5 DEF s, t
  <2> QED
    BY <2>2, <2>3
<1>5. Bad = {}
  <2> SUFFICES ASSUME NEW k \in Bad PROVE FALSE
    OBVIOUS
  <2>1. Bad \in SUBSET Nat
    BY <1>1
  <2>2. PICK n \in Bad : \A j \in Bad : n <= j
    BY <2>1, LeastNat
  <2>3. n \in 0..Len(L) /\ f[n] # Upto(n)
    BY <2>2
  <2>4. n # 0
    BY <1>1, <1>2, <2>3 DEF Rule
  <2>5. n - 1 \in 0..Len(L) /\ n \in 1..Len(L) /\ ~(n <= n - 1) /\ n \in Nat
    BY <1>1, <2>3, <2>4
  <2>6. f[n - 1] = Upto(n - 1)
    BY <2>2, <2>5
  <2>7. f[n] = IF L[n] \in X \cup ToSet(f[n - 1]) THEN f[n - 1] ELSE Append(f[n - 1], L[n])
    BY <1>2, <2>5 DEF Rule
  <2>8. CASE n <= d
    <3>1. L[n] \in X /\ Upto(n - 1) = Upto(n)
      BY <1>1, <1>3, <2>5, <2>8
    <3> QED
      BY <2>3, <2>6, <2>7, <3>1
  <2>9. CASE ~(n <= d)
    BY <1>4, <2>3, <2>5, <2>6, <2>7, <2>9
  <2> QED
    BY <2>8, <2>9
<1>6. f[Len(L)] = Upto(Len(L))
  <2> HIDE DEF Upto
  <2> QED
    BY <1>1, <1>5
<1>7. CASE d = Len(L)
  BY <1>1, <1>2, <1>6, <1>7
<1>8. CASE d # Len(L)
  BY <1>1, <1>2, <1>6, <1>8
<1> QED
  BY <1>7, <1>8

-----------------------------------------------------------------------------
(* Words.                                                                  *)

\* A letter is in exactly one word of a text.
THEOREM WordOf ==
    ASSUME NEW t \in Seq(Mark), NEW j \in 1..Len(t), t[j] # Blank
    PROVE  \E w \in Words(t) : /\ w[1] < j /\ j <= w[2]
                               /\ \A v \in Words(t) : (v[1] < j /\ j <= v[2]) => v = w
<1>1. Len(t) \in Nat /\ DOMAIN t = 1..Len(t)
  OBVIOUS
<1> DEFINE A == { i \in 0..Len(t) : i < j /\ (i > 0 => t[i] = Blank) }
           Z == { i \in 0..Len(t) : j <= i /\ (i < Len(t) => t[i + 1] = Blank) }
<1>2. A \in SUBSET (0..Len(t)) /\ Z \in SUBSET (0..Len(t)) /\ 0 \in A /\ Len(t) \in Z
  BY <1>1
<1>3. PICK a \in A : \A i \in A : i <= a
  BY <1>1, <1>2, MinMax
<1>4. PICK z \in Z : \A i \in Z : z <= i
  BY <1>1, <1>2, MinMax
<1>5. /\ a \in 0..Len(t) /\ a < j /\ (a > 0 => t[a] = Blank)
      /\ \A i \in 1..Len(t) : (a < i /\ i < j) => t[i] # Blank
  <2>1. ASSUME NEW i \in 1..Len(t), a < i, i < j, t[i] = Blank PROVE FALSE
    <3>1. i \in A
      BY <1>1, <2>1
    <3> QED
      BY <1>1, <1>2, <1>3, <2>1, <3>1
  <2> QED
    BY <1>3, <2>1
<1>6. /\ z \in 0..Len(t) /\ j <= z /\ (z < Len(t) => t[z + 1] = Blank)
      /\ \A i \in 1..Len(t) : (j < i /\ i <= z) => t[i] # Blank
  <2>1. ASSUME NEW i \in 1..Len(t), j < i, i <= z, t[i] = Blank PROVE FALSE
    <3>1. i - 1 \in 0..Len(t) /\ j <= i - 1 /\ i - 1 + 1 = i
      BY <1>1, <2>1
    <3>2. i - 1 \in Z
      <4> DEFINE p == i - 1
      <4>1. p \in 0..Len(t) /\ j <= p /\ t[p + 1] = Blank
        BY <2>1, <3>1
      <4> HIDE DEF p
      <4>2. p \in Z
        BY <4>1
      <4> QED
        BY <4>2 DEF p
    <3> HIDE DEF Z
    <3>3. z <= i - 1
      BY <1>4, <3>2
    <3>4. z \in Nat /\ i \in Nat
      BY <1>1, <1>2, <1>4
    <3> QED
      BY <2>1, <3>3, <3>4
  <2> QED
    BY <1>4, <2>1
<1> HIDE DEF A, Z
<1>7. \A i \in a+1..z : t[i] # Blank
  <2> SUFFICES ASSUME NEW i \in a+1..z PROVE t[i] # Blank
    OBVIOUS
  <2>1. i \in 1..Len(t) /\ a < i /\ i <= z /\ (i < j \/ i = j \/ j < i)
    BY <1>1, <1>5, <1>6
  <2> QED
    BY <1>5, <1>6, <2>1
<1> DEFINE w == <<a, z>>
<1>8. w \in Words(t)
  <2>1. w \in (0..Len(t)) \X (0..Len(t)) /\ w[1] = a /\ w[2] = z
    BY <1>5, <1>6
  <2>2. a < z
    BY <1>1, <1>5, <1>6
  <2> QED
    BY <1>5, <1>6, <1>7, <2>1, <2>2 DEF Words
<1>9. ASSUME NEW v \in Words(t), v[1] < j, j <= v[2] PROVE v = w
  <2>1. /\ v[1] \in 0..Len(t) /\ v[2] \in 0..Len(t) /\ v = <<v[1], v[2]>>
        /\ \A i \in v[1]+1..v[2] : t[i] # Blank
        /\ v[1] > 0 => t[v[1]] = Blank
        /\ v[2] < Len(t) => t[v[2] + 1] = Blank
    BY DEF Words
  <2>2. ~(v[1] < a)
    BY <1>1, <1>5, <1>9, <2>1
  <2>3. ~(a < v[1])
    BY <1>1, <1>5, <1>6, <1>7, <1>9, <2>1
  <2>4. ~(v[2] < z)
    BY <1>1, <1>5, <1>6, <1>7, <1>9, <2>1
  <2>5. ~(z < v[2])
    BY <1>1, <1>5, <1>6, <1>9, <2>1
  <2>6. v[1] = a /\ v[2] = z
    BY <1>1, <1>5, <1>6, <2>1, <2>2, <2>3, <2>4, <2>5
  <2> QED
    BY <2>1, <2>6
<1>10. w[1] = a /\ w[2] = z
  OBVIOUS
<1> QED
  BY <1>5, <1>6, <1>8, <1>9, <1>10

-----------------------------------------------------------------------------
(* The invariant.                                                          *)

Typed ==
    /\ req \in Request
    /\ acc = [text |-> acc.text, tokens |-> acc.tokens]
    /\ acc.text \in Seq(Mark)
    /\ acc.tokens \in Seq([start : Nat, end : Nat, lp : { chunk.lp : chunk \in Chunk }])
    /\ answer = [translation |-> answer.translation, confidence |-> answer.confidence]
    /\ parts = [draft |-> parts.draft, back |-> parts.back, witness |-> parts.witness]
    /\ parts.witness \in Seq([lang : Lang, text : Part])
    /\ streamed \in Seq(Chunk)
    /\ marks \in Seq([chunk : Nat, mark : Mark])

\* The accumulator holds the marks of this attempt, and its tokens divide them
\* as the chunks did, each with its chunk's probability.
AccFits ==
    /\ Len(acc.text) = Len(marks)
    /\ \A j \in 1..Len(marks) : acc.text[j] = marks[j].mark
    /\ Len(acc.tokens) = Len(streamed)
    /\ \A i \in 1..Len(streamed) :
          /\ acc.tokens[i].lp = streamed[i].lp
          /\ acc.tokens[i].start < acc.tokens[i].end
          /\ acc.tokens[i].end <= Len(marks)
    /\ \A j \in 1..Len(marks) :
          /\ marks[j].chunk \in 1..Len(streamed)
          /\ \A i \in 1..Len(streamed) :
                marks[j].chunk = i <=>
                    (acc.tokens[i].start < j /\ j <= acc.tokens[i].end)

\* What AnswerIsOneAttempt says of an answer.
Fits(a) ==
    /\ a.translation = [j \in DOMAIN FinalMarks |-> FinalMarks[j].mark]
    /\ \A span \in a.confidence :
          Origins(span) # {} /\ (span.low <=> IsLow(Origins(span)))
    /\ \A j \in DOMAIN FinalMarks :
          (/\ FinalMarks[j].mark # Blank
           /\ streamed[FinalMarks[j].chunk].lp # NoLogprob) =>
              Cardinality({ span \in a.confidence : span.start < j /\ j <= span.end }) = 1

Made == pc \in {"draft", "back", "align", "witness"} \/ status = 201

Progress ==
    /\ pc \in {"final", "draft", "back", "align", "witness", "over"}
    /\ pc # "over" => status = 0
    /\ pc = "final" => answer.translation = <<>>
    /\ Made => Fits(answer)
    /\ status = 503 => pc = "over" /\ degraded /\ answer.translation = <<>>

WitnessesInOrder ==
    /\ Len(parts.witness) <= Len(WitnessLangs)
    /\ \A i \in 1..Len(parts.witness) : parts.witness[i].lang = WitnessLangs[i]
    /\ (status = 201 /\ req.verify) => Len(parts.witness) = Len(WitnessLangs)

Inv == Typed /\ AccFits /\ Progress /\ WitnessesInOrder

-----------------------------------------------------------------------------
(* What _finalize makes of the accumulator.                                *)

\* The blanks around the text are gone, and mark j of the rest is mark
\* lead + j of the stream.
LEMMA Stripped ==
    ASSUME Typed, AccFits
    PROVE  /\ Strip(acc.text) \in Seq(Mark)
           /\ Strip(acc.text) = [j \in DOMAIN FinalMarks |-> FinalMarks[j].mark]
           /\ Len(FinalMarks) = Len(Strip(acc.text))
           /\ FinalMarks \in Seq([chunk : Nat, mark : Mark])
           /\ Strip(acc.text) # <<>> =>
                 /\ Lead(acc.text) \in Nat /\ FirstMark = Lead(acc.text) + 1
                 /\ Lead(acc.text) + Len(Strip(acc.text)) <= Len(marks)
                 /\ \A j \in 1..Len(FinalMarks) : FinalMarks[j] = marks[Lead(acc.text) + j]
<1> DEFINE n == Len(marks)
<1>1. /\ n \in Nat /\ DOMAIN marks = 1..n /\ DOMAIN acc.text = 1..n
      /\ \A j \in 1..n : /\ marks[j] \in [chunk : Nat, mark : Mark]
                         /\ acc.text[j] = marks[j].mark /\ acc.text[j] \in Mark
  <2>1. n \in Nat /\ DOMAIN marks = 1..n /\ \A j \in 1..n : marks[j] \in [chunk : Nat, mark : Mark]
    <3> DEFINE T == [chunk : Nat, mark : Mark]
    <3>1. marks \in Seq(T)
      BY DEF Typed
    <3> HIDE DEF T
    <3>2. n \in Nat /\ DOMAIN marks = 1..n /\ \A j \in 1..n : marks[j] \in T
      BY <3>1
    <3> QED
      BY <3>2 DEF T
  <2>2. DOMAIN acc.text = 1..n /\ \A j \in 1..n : acc.text[j] \in Mark
    BY DEF Typed, AccFits
  <2> QED
    BY <2>1, <2>2 DEF AccFits
<1>2. Inked(acc.text) = Ink
  BY <1>1 DEF Inked, Ink
<1>3. CASE Ink = {}
  <2>1. Strip(acc.text) = <<>> /\ FinalMarks = <<>>
    BY <1>2, <1>3 DEF Strip, FinalMarks
  <2> QED
    BY <2>1
<1>4. CASE Ink # {}
  <2> DEFINE lo == Min(Ink)
             hi == Max(Ink)
  <2>1. Ink \in SUBSET (0..n) /\ Ink \in SUBSET (1..n)
    BY <1>1 DEF Ink
  <2>2. lo \in 1..n /\ hi \in 1..n /\ lo <= hi
    <3>1. lo \in Ink /\ hi \in Ink /\ \A i \in Ink : lo <= i
      BY <1>1, <1>4, <2>1, MinMax
    <3> QED
      BY <2>1, <3>1
  <2>3. /\ Strip(acc.text) = SubSeq(acc.text, lo, hi)
        /\ FinalMarks = SubSeq(marks, lo, hi) /\ FirstMark = lo
        /\ Lead(acc.text) = lo - 1
    BY <1>2, <1>4 DEF Strip, FinalMarks, FirstMark, Lead
  <2> HIDE DEF lo, hi, n
  <2>4. /\ lo \in Int /\ hi \in Int /\ lo <= hi /\ hi - lo + 1 \in Nat /\ lo - 1 \in Nat
        /\ hi <= n
        /\ \A i \in lo..hi : i \in 1..n
        /\ \A j \in 1..(hi - lo + 1) : lo + j - 1 \in 1..n /\ lo + j - 1 = lo - 1 + j
    BY <1>1, <2>2
  <2>5. /\ SubSeq(acc.text, lo, hi) \in Seq(Mark)
        /\ Len(SubSeq(acc.text, lo, hi)) = hi - lo + 1
        /\ \A j \in 1..(hi - lo + 1) : SubSeq(acc.text, lo, hi)[j] = acc.text[lo + j - 1]
    <3>1. \A i \in lo..hi : acc.text[i] \in Mark
      BY <1>1, <2>4
    <3> QED
      BY <2>4, <3>1, SubSeqProperties
  <2>6. /\ SubSeq(marks, lo, hi) \in Seq([chunk : Nat, mark : Mark])
        /\ Len(SubSeq(marks, lo, hi)) = hi - lo + 1
        /\ \A j \in 1..(hi - lo + 1) : SubSeq(marks, lo, hi)[j] = marks[lo + j - 1]
    BY <1>1, <2>4, SubSeqProperties
  <2> DEFINE S == SubSeq(acc.text, lo, hi)
             F == SubSeq(marks, lo, hi)
  <2> HIDE DEF S, F
  <2>7. /\ S \in Seq(Mark) /\ F \in Seq([chunk : Nat, mark : Mark])
        /\ Len(S) = hi - lo + 1 /\ Len(F) = hi - lo + 1
        /\ DOMAIN F = 1..(hi - lo + 1) /\ DOMAIN S = 1..(hi - lo + 1)
        /\ \A j \in 1..(hi - lo + 1) : S[j] = F[j].mark /\ F[j] = marks[lo - 1 + j]
    BY <1>1, <2>4, <2>5, <2>6 DEF S, F
  <2>8. S = [j \in DOMAIN F |-> F[j].mark]
    BY <2>7
  <2>9. Strip(acc.text) = S /\ FinalMarks = F /\ FirstMark = lo - 1 + 1
    BY <2>3, <2>4 DEF S, F
  <2>10. lo - 1 + (hi - lo + 1) <= n
    BY <2>4
  <2> QED
    BY <2>3, <2>4, <2>7, <2>8, <2>9, <2>10 DEF n
<1> QED
  BY <1>3, <1>4

\* The tokens of a word are the chunks its marks came in.
LEMMA OverIsOrigins ==
    ASSUME Typed, AccFits, NEW w \in Words(Strip(acc.text))
    PROVE  /\ Over(Shifted(acc.tokens, Lead(acc.text)), w)
                  = { i \in { marks[j].chunk : j \in FirstMark + w[1] .. FirstMark + w[2] - 1 } :
                          streamed[i].lp # NoLogprob }
           /\ \A i \in 1..Len(streamed) :
                 Shifted(acc.tokens, Lead(acc.text))[i].lp = streamed[i].lp
<1> DEFINE lead == Lead(acc.text)
           len == Len(Strip(acc.text))
           n == Len(marks)
           m == Len(streamed)
           tok(i) == acc.tokens[i]
           shf == Shifted(acc.tokens, lead)
<1>1. /\ w[1] \in 0..len /\ w[2] \in 0..len /\ w[1] < w[2] /\ len \in Nat
      /\ Strip(acc.text) # <<>>
  <2>1. Strip(acc.text) \in Seq(Mark)
    BY Stripped
  <2>2. w[1] \in 0..len /\ w[2] \in 0..len /\ w[1] < w[2] /\ len \in Nat
    BY <2>1 DEF Words
  <2>3. len # 0
    BY <2>2
  <2>4. Len(<<>>) = 0
    OBVIOUS
  <2>5. Strip(acc.text) # <<>>
    BY <2>3, <2>4, Zenon
  <2> QED
    BY <2>2, <2>5
<1>2. lead \in Nat /\ FirstMark = lead + 1 /\ lead + len <= n /\ n \in Nat /\ m \in Nat
  <2>1. n \in Nat /\ m \in Nat
    BY DEF Typed
  <2>2. lead \in Nat /\ FirstMark = lead + 1 /\ lead + len <= n
    BY <1>1, Stripped
  <2> QED
    BY <2>1, <2>2
<1>3. DOMAIN acc.tokens = 1..m
  BY DEF Typed, AccFits
<1>4. \A i \in 1..m : /\ tok(i).start \in Nat /\ tok(i).end \in Nat
                      /\ tok(i).start < tok(i).end /\ tok(i).end <= n
                      /\ tok(i).lp = streamed[i].lp
  <2>1. \A i \in 1..m : tok(i) \in [start : Nat, end : Nat, lp : { chunk.lp : chunk \in Chunk }]
    <3> DEFINE T == [start : Nat, end : Nat, lp : { chunk.lp : chunk \in Chunk }]
    <3>1. acc.tokens \in Seq(T)
      BY DEF Typed
    <3> HIDE DEF T
    <3>2. \A i \in 1..m : acc.tokens[i] \in T
      BY <1>3, <3>1
    <3> QED
      BY <3>2 DEF T
  <2>2. \A i \in 1..m : tok(i).start \in Nat /\ tok(i).end \in Nat
    BY <2>1
  <2> QED
    BY <2>2 DEF AccFits
<1>5. /\ DOMAIN shf = 1..m
      /\ \A i \in 1..m : /\ shf[i].start = Behind(tok(i).start, lead)
                         /\ shf[i].end = Behind(tok(i).end, lead)
                         /\ shf[i].lp = tok(i).lp
  BY <1>3 DEF Shifted
<1>6. \A j \in 1..n : /\ marks[j].chunk \in 1..m
                      /\ \A i \in 1..m : marks[j].chunk = i <=>
                              (tok(i).start < j /\ j <= tok(i).end)
  BY DEF AccFits
<1>7. FirstMark + w[1] = lead + w[1] + 1 /\ FirstMark + w[2] - 1 = lead + w[2]
  BY <1>1, <1>2
<1> HIDE DEF shf, lead, len, n, m, tok
<1>8. ASSUME NEW i \in 1..m
      PROVE  (shf[i].start < w[2] /\ shf[i].end > w[1]) <=>
                 (tok(i).start < lead + w[2] /\ tok(i).end > lead + w[1])
  <2>1. \A x, l, a, b \in Nat : a < b =>
            /\ Behind(x, l) < b <=> x < l + b
            /\ Behind(x, l) > a <=> x > l + a
    BY DEF Behind
  <2>2. lead \in Nat /\ w[1] \in Nat /\ w[2] \in Nat /\ w[1] < w[2]
    BY <1>1, <1>2
  <2> QED
    BY <1>4, <1>5, <2>1, <2>2
<1>9. ASSUME NEW i \in 1..m
      PROVE  (tok(i).start < lead + w[2] /\ tok(i).end > lead + w[1]) <=>
                 \E j \in (lead + w[1] + 1)..(lead + w[2]) : marks[j].chunk = i
  <2>1. ASSUME tok(i).start < lead + w[2], tok(i).end > lead + w[1]
        PROVE  \E j \in (lead + w[1] + 1)..(lead + w[2]) : marks[j].chunk = i
    <3> DEFINE j == IF tok(i).start < lead + w[1] THEN lead + w[1] + 1 ELSE tok(i).start + 1
    <3>1. /\ j \in (lead + w[1] + 1)..(lead + w[2]) /\ j \in 1..n
          /\ tok(i).start < j /\ j <= tok(i).end
      <4> DEFINE x == tok(i).start
                 y == tok(i).end
                 a == lead + w[1]
                 b == lead + w[2]
      <4>1. /\ a \in Nat /\ b \in Nat /\ a < b /\ b <= n
            /\ x \in Nat /\ y \in Nat /\ x < y /\ y <= n /\ x < b /\ y > a
        <5>1. lead \in Nat /\ w[1] \in Nat /\ w[2] \in Nat /\ w[1] < w[2] /\ w[2] <= len /\ len \in Nat
          BY <1>1, <1>2
        <5>2. a \in Nat /\ b \in Nat /\ a < b /\ b <= n
          BY <1>2, <5>1
        <5>3. x \in Nat /\ y \in Nat /\ x < y /\ y <= n
          BY <1>4
        <5> QED
          BY <2>1, <5>2, <5>3
      <4> HIDE DEF x, y, a, b
      <4>2. j = IF x < a THEN a + 1 ELSE x + 1
        BY DEF x, a
      <4>3. j \in (a + 1)..b /\ j \in 1..n /\ x < j /\ j <= y
        <5> HIDE DEF j
        <5> QED
          BY <1>2, <4>1, <4>2
      <4> QED
        BY <4>3 DEF x, y, a, b
    <3> HIDE DEF j
    <3> QED
      BY <1>6, <3>1
  <2>2. ASSUME NEW j \in (lead + w[1] + 1)..(lead + w[2]), marks[j].chunk = i
        PROVE  tok(i).start < lead + w[2] /\ tok(i).end > lead + w[1]
    <3>1. j \in 1..n /\ j <= lead + w[2] /\ lead + w[1] < j /\ j \in Nat
      BY <1>1, <1>2
    <3>2. tok(i).start < j /\ j <= tok(i).end
      BY <1>6, <2>2, <3>1
    <3> QED
      BY <1>1, <1>2, <1>4, <3>1, <3>2
  <2> QED
    BY <2>1, <2>2
<1>10. \A j \in (lead + w[1] + 1)..(lead + w[2]) : marks[j].chunk \in 1..m
  <2>1. \A j \in (lead + w[1] + 1)..(lead + w[2]) : j \in 1..n
    BY <1>1, <1>2
  <2> QED
    BY <1>6, <2>1
<1> DEFINE o == { i \in { marks[j].chunk : j \in (lead + w[1] + 1)..(lead + w[2]) } :
                      streamed[i].lp # NoLogprob }
<1>11. ASSUME NEW i \in Over(shf, w) PROVE i \in o
  BY <1>4, <1>5, <1>8, <1>9, <1>11 DEF Over
<1>12. ASSUME NEW i \in o PROVE i \in Over(shf, w)
  BY <1>4, <1>5, <1>8, <1>9, <1>10, <1>12 DEF Over
<1>13. Over(shf, w) = o
  <2> HIDE DEF o
  <2> QED
    BY <1>11, <1>12
<1> QED
  BY <1>4, <1>5, <1>7, <1>13 DEF shf, lead, m

\* What _finalize and build_confidence_spans make of the accumulator fits.
LEMMA FinalizeFits ==
    ASSUME Typed, AccFits
    PROVE  Fits([translation |-> Strip(acc.text),
                 confidence |-> Spans(Shifted(acc.tokens, Lead(acc.text)), Strip(acc.text))])
<1> DEFINE t == Strip(acc.text)
           shf == Shifted(acc.tokens, Lead(acc.text))
           conf == Spans(shf, t)
           Sp(w) == [start |-> w[1], end |-> w[2], low |-> Low(shf, Over(shf, w))]
<1>1. t = [j \in DOMAIN FinalMarks |-> FinalMarks[j].mark] /\ t \in Seq(Mark)
      /\ Len(FinalMarks) = Len(t) /\ DOMAIN FinalMarks = 1..Len(t)
  <2>1. /\ t = [j \in DOMAIN FinalMarks |-> FinalMarks[j].mark] /\ t \in Seq(Mark)
        /\ Len(FinalMarks) = Len(t) /\ FinalMarks \in Seq([chunk : Nat, mark : Mark])
    BY Stripped
  <2> QED
    BY <2>1
<1>2. conf = { Sp(w) : w \in { v \in Words(t) : Over(shf, v) # {} } }
  BY DEF Spans
<1>3. ASSUME NEW w \in Words(t)
      PROVE  /\ Over(shf, w) = Origins(Sp(w))
             /\ Low(shf, Over(shf, w)) <=> IsLow(Over(shf, w))
  <2>1. Over(shf, w) = Origins(Sp(w))
    BY OverIsOrigins DEF Origins
  <2>2. \A i \in Over(shf, w) : shf[i].lp = streamed[i].lp
    <3>1. DOMAIN shf = DOMAIN acc.tokens /\ DOMAIN acc.tokens = 1..Len(streamed)
      BY DEF Shifted, Typed, AccFits
    <3>2. Over(shf, w) \subseteq 1..Len(streamed)
      BY <3>1 DEF Over
    <3> QED
      BY <3>2, OverIsOrigins
  <2> DEFINE used == Over(shf, w)
  <2> HIDE DEF used, shf
  <2>3. [i \in used |-> shf[i].lp] = [i \in used |-> streamed[i].lp]
    BY <2>2 DEF used
  <2>4. Low(shf, used) <=> IsLow(used)
    BY <2>3 DEF Low, IsLow
  <2> QED
    BY <2>1, <2>4 DEF used
<1>4. ASSUME NEW span \in conf
      PROVE  Origins(span) # {} /\ (span.low <=> IsLow(Origins(span)))
  <2>1. PICK w \in Words(t) : Over(shf, w) # {} /\ span = Sp(w)
    BY <1>2
  <2>2. span.low <=> Low(shf, Over(shf, w))
    BY <2>1
  <2> QED
    BY <1>3, <2>1, <2>2
<1>5. ASSUME NEW j \in DOMAIN FinalMarks, FinalMarks[j].mark # Blank,
             streamed[FinalMarks[j].chunk].lp # NoLogprob
      PROVE  Cardinality({ span \in conf : span.start < j /\ j <= span.end }) = 1
  <2>1. j \in 1..Len(t) /\ t[j] # Blank /\ t # <<>>
    BY <1>1, <1>5
  <2>2. PICK w \in Words(t) : /\ w[1] < j /\ j <= w[2]
                              /\ \A v \in Words(t) : (v[1] < j /\ j <= v[2]) => v = w
    BY <1>1, <2>1, WordOf
  <2>3. FinalMarks[j] = marks[Lead(acc.text) + j] /\ FirstMark = Lead(acc.text) + 1
        /\ Lead(acc.text) \in Nat
    BY <1>1, <1>5, <2>1, Stripped
  <2>4. FinalMarks[j].chunk \in Origins(Sp(w))
    <3>1. w[1] \in Nat /\ w[2] \in Nat /\ j \in Nat
      BY <1>1, <2>1 DEF Words
    <3>2. Lead(acc.text) + j \in FirstMark + w[1] .. FirstMark + w[2] - 1
      BY <2>2, <2>3, <3>1
    <3>3. Lead(acc.text) + j \in FirstMark + Sp(w).start .. FirstMark + Sp(w).end - 1
      BY <3>2
    <3> HIDE DEF Sp
    <3> QED
      BY <1>5, <2>3, <3>3 DEF Origins
  <2>5. Sp(w) \in conf
    BY <1>2, <1>3, <2>4
  <2>6. Sp(w).start < j /\ j <= Sp(w).end
    BY <2>2
  <2>7. ASSUME NEW span \in conf, span.start < j, j <= span.end PROVE span = Sp(w)
    <3>1. PICK v \in Words(t) : span = Sp(v)
      BY <1>2
    <3>2. v[1] < j /\ j <= v[2]
      BY <2>7, <3>1
    <3>3. v = w
      BY <2>2, <3>2
    <3> QED
      BY <3>1, <3>3
  <2> HIDE DEF conf, Sp
  <2>8. { span \in conf : span.start < j /\ j <= span.end } = { Sp(w) }
    BY <2>5, <2>6, <2>7
  <2> QED
    BY <2>8, FS_Singleton
<1> HIDE DEF t, conf
<1>6. Fits([translation |-> t, confidence |-> conf])
  BY <1>1, <1>4, <1>5 DEF Fits
<1> QED
  BY <1>6 DEF t, conf

\* A list of distinct languages that are not excluded is kept behind another
\* language, which is kept unless it is excluded.
LEMMA FirstsBehind ==
    ASSUME NEW E, NEW x \in E, NEW W \in Seq(E), NEW X,
           \A i \in 1..Len(W) : W[i] \notin X /\ W[i] # x,
           \A i, j \in 1..Len(W) : W[i] = W[j] => i = j
    PROVE  Firsts(<<x>> \o W, X) = (IF x \in X THEN <<>> ELSE <<x>>) \o W
<1> DEFINE q == <<x>>
           L == q \o W
           n == Len(W)
           d == IF x \in X THEN 1 ELSE 0
<1>1. n \in Nat /\ d \in Nat /\ d <= 1 /\ (d = 0 \/ d = 1)
  OBVIOUS
<1>2. q \in Seq(E) /\ Len(q) = 1 /\ q[1] = x
  OBVIOUS
<1> HIDE DEF q
<1>3. /\ L \in Seq(E) /\ Len(L) = 1 + n
      /\ \A i \in 1..(1 + n) : L[i] = IF i <= 1 THEN q[i] ELSE W[i - 1]
  BY <1>2, ConcatProperties
<1> HIDE DEF L, n
<1>4. L[1] = x
  <2>1. 1 \in 1..(1 + n) /\ 1 <= 1
    BY <1>1
  <2> QED
    BY <1>2, <1>3, <2>1
<1>5. ASSUME NEW i \in 2..(1 + n) PROVE i - 1 \in 1..n /\ L[i] = W[i - 1]
  <2>1. i \in 1..(1 + n) /\ ~(i <= 1) /\ i - 1 \in 1..n
    BY <1>1
  <2> QED
    BY <1>3, <2>1
<1>6. \A i \in 1..(1 + n) : i = 1 \/ i \in 2..(1 + n)
  BY <1>1
<1>7. \A i \in 2..(1 + n) : L[i] \notin X /\ L[i] # x
  BY <1>5 DEF n
<1>8. ASSUME NEW i \in 2..(1 + n), NEW j \in 2..(1 + n), L[i] = L[j] PROVE i = j
  <2>1. W[i - 1] = W[j - 1] /\ i - 1 \in 1..n /\ j - 1 \in 1..n
    BY <1>5, <1>8
  <2>2. i - 1 = j - 1
    BY <2>1 DEF n
  <2> QED
    BY <1>1, <2>2
<1>9. d \in 0..Len(L) /\ \A i \in 1..d : L[i] \in X
  <2>1. d \in 0..(1 + n)
    BY <1>1
  <2>2. \A i \in 1..d : i = 1 /\ x \in X
    BY <1>1
  <2> QED
    BY <1>3, <1>4, <2>1, <2>2
<1>10. \A i \in (d + 1)..Len(L) : i \in 2..(1 + n) \/ (i = 1 /\ x \notin X)
  <2>1. ASSUME NEW i \in (d + 1)..(1 + n) PROVE i \in 2..(1 + n) \/ (i = 1 /\ x \notin X)
    BY <1>1
  <2> QED
    BY <1>3, <2>1
<1>11. \A i \in (d + 1)..Len(L) : L[i] \notin X
  BY <1>4, <1>7, <1>10
<1>12. \A i, j \in (d + 1)..Len(L) : L[i] = L[j] => i = j
  BY <1>4, <1>7, <1>8, <1>10
<1> HIDE DEF d
<1>13. Firsts(L, X) = SubSeq(L, d + 1, Len(L))
  BY <1>3, <1>9, <1>11, <1>12, FirstsOfDistinct
<1>14. CASE x \notin X
  <2>1. SubSeq(L, 1, Len(L)) = L
    BY <1>3, SubSeqFull
  <2>2. d + 1 = 1
    BY <1>14 DEF d
  <2> QED
    BY <1>13, <1>14, <2>1, <2>2 DEF L, q
<1>15. CASE x \in X
  <2> DEFINE s == SubSeq(L, 2, 1 + n)
  <2>1. \A i \in 2..(1 + n) : L[i] \in E
    BY <1>5 DEF n
  <2>2. s \in Seq(E) /\ Len(s) = n /\ \A i \in 1..n : s[i] = L[i + 1]
    <3> DEFINE lo == 2
               hi == 1 + n
    <3>1. lo \in Int /\ hi \in Int /\ \A i \in lo..hi : L[i] \in E
      BY <1>1, <2>1
    <3>2. /\ hi - lo + 1 = n /\ (lo <= hi \/ n = 0)
          /\ \A i \in 1..n : lo + i - 1 = i + 1
      BY <1>1
    <3>3. s = SubSeq(L, lo, hi)
      OBVIOUS
    <3> HIDE DEF lo, hi, s
    <3>4. /\ SubSeq(L, lo, hi) \in Seq(E)
          /\ Len(SubSeq(L, lo, hi)) = IF lo <= hi THEN hi - lo + 1 ELSE 0
          /\ \A i \in 1..(hi - lo + 1) : SubSeq(L, lo, hi)[i] = L[lo + i - 1]
      BY <3>1, SubSeqProperties
    <3> QED
      BY <3>2, <3>3, <3>4
  <2> HIDE DEF s
  <2>4. ASSUME NEW i \in 1..n PROVE s[i] = W[i]
    <3>1. i + 1 \in 2..(1 + n) /\ i + 1 - 1 = i
      BY <1>1
    <3>2. L[i + 1] = W[i + 1 - 1]
      BY <1>5, <3>1
    <3> QED
      BY <2>2, <3>1, <3>2
  <2>5. s \in Seq(E) /\ Len(s) = n
    BY <2>2
  <2>6. s = W
    BY <2>4, <2>5, SeqEqual DEF n
  <2>7. <<>> \o W = W
    BY ConcatEmptySeq
  <2>8. d + 1 = 2
    BY <1>15 DEF d
  <2>9. Firsts(L, X) = s
    BY <1>3, <1>13, <2>8 DEF s
  <2> QED
    BY <1>15, <2>6, <2>7, <2>9 DEF L, q
<1> QED
  BY <1>14, <1>15

\* The witnesses of a request follow the target among a session's languages.
LEMMA WitnessesOfSession ==
    ASSUME NEW src \in Lang, NEW tgt \in Lang, NEW witness \in Seq(Lang)
    PROVE  /\ Firsts(witness, {src, tgt}) \in Seq(Lang)
           /\ TargetLangs(Session(src, tgt, witness))
                  = (IF tgt = src THEN <<>> ELSE <<tgt>>) \o Firsts(witness, {src, tgt})
<1> DEFINE X == {src, tgt}
           W == Firsts(witness, X)
<1>1. /\ W \in Seq(Lang)
      /\ \A i \in DOMAIN W : W[i] \notin X
      /\ \A i, j \in DOMAIN W : W[i] = W[j] => i = j
  <2> HIDE DEF X
  <2> QED
    BY FirstsDistinct
<1>2. TargetLangs(Session(src, tgt, witness)) = Firsts(<<tgt>> \o W, {src})
  BY DEF TargetLangs, Session
<1> HIDE DEF W
<1>3. DOMAIN W = 1..Len(W)
  BY <1>1
<1>4. /\ \A i \in 1..Len(W) : W[i] \notin {src} /\ W[i] # tgt
      /\ \A i, j \in 1..Len(W) : W[i] = W[j] => i = j
  BY <1>1, <1>3
<1>5. Firsts(<<tgt>> \o W, {src}) = (IF tgt \in {src} THEN <<>> ELSE <<tgt>>) \o W
  <2> DEFINE Y == {src}
  <2> HIDE DEF Y
  <2>1. Firsts(<<tgt>> \o W, Y) = (IF tgt \in Y THEN <<>> ELSE <<tgt>>) \o W
    BY <1>1, <1>4, FirstsBehind DEF Y
  <2> QED
    BY <2>1 DEF Y
<1> QED
  BY <1>1, <1>2, <1>5 DEF W

-----------------------------------------------------------------------------
(* The steps.                                                              *)

\* The invariant gives the two the run checks.
LEMMA InvImplies == Inv => AnswerIsOneAttempt /\ VerificationIsWhole
<1> SUFFICES ASSUME Inv PROVE AnswerIsOneAttempt /\ VerificationIsWhole
  OBVIOUS
<1>1. AnswerIsOneAttempt
  BY DEF Inv, Progress, Made, Fits, AnswerIsOneAttempt
<1>2. ASSUME status = 201, req.verify
      PROVE  TargetLangs(Session(req.src, req.tgt, req.witness))
                 = (IF req.tgt = req.src THEN <<>> ELSE <<req.tgt>>)
                       \o [i \in DOMAIN parts.witness |-> parts.witness[i].lang]
  <2>1. req.src \in Lang /\ req.tgt \in Lang /\ req.witness \in Seq(Lang)
    BY TranslationAssumption DEF Inv, Typed
  <2>2. /\ WitnessLangs \in Seq(Lang)
        /\ TargetLangs(Session(req.src, req.tgt, req.witness))
               = (IF req.tgt = req.src THEN <<>> ELSE <<req.tgt>>) \o WitnessLangs
    BY <2>1, WitnessesOfSession DEF WitnessLangs
  <2>3. DOMAIN parts.witness = 1..Len(parts.witness)
    BY DEF Inv, Typed
  <2>4. /\ Len(parts.witness) = Len(WitnessLangs)
        /\ \A i \in 1..Len(parts.witness) : parts.witness[i].lang = WitnessLangs[i]
    BY <1>2 DEF Inv, WitnessesInOrder
  <2>5. [i \in DOMAIN parts.witness |-> parts.witness[i].lang]
            = [i \in 1..Len(WitnessLangs) |-> WitnessLangs[i]]
    BY <2>3, <2>4
  <2>6. [i \in 1..Len(WitnessLangs) |-> WitnessLangs[i]] = WitnessLangs
    BY <2>2
  <2> QED
    BY <2>2, <2>5, <2>6
<1> QED
  BY <1>1, <1>2 DEF Inv, Progress, VerificationIsWhole

\* It holds of a new request.
LEMMA InitInv == Init => Inv
<1> SUFFICES ASSUME Init PROVE Inv
  OBVIOUS
<1>1. Typed
  BY DEF Init, Typed, Empty
<1>2. AccFits
  BY DEF Init, AccFits, Empty
<1>3. Progress
  BY DEF Init, Progress, Made
<1>4. WitnessesInOrder
  <2>1. req.src \in Lang /\ req.tgt \in Lang /\ req.witness \in Seq(Lang)
    BY TranslationAssumption DEF Init
  <2>2. WitnessLangs \in Seq(Lang)
    BY <2>1, WitnessesOfSession DEF WitnessLangs
  <2>3. Len(WitnessLangs) \in Nat
    BY <2>2
  <2>4. parts.witness = <<>> /\ status = 0 /\ Len(<<>>) = 0
    BY DEF Init
  <2> QED
    BY <2>3, <2>4 DEF WitnessesInOrder
<1> QED
  BY <1>1, <1>2, <1>3, <1>4 DEF Inv

\* A chunk extends text, tokens and marks alike.
LEMMA ChunkKeepsFit ==
    ASSUME Inv, NEW chunk \in Chunk, ChunkArrives(chunk)
    PROVE  Typed' /\ AccFits'
<1> DEFINE n == Len(marks)
           m == Len(streamed)
           k == Len(chunk.text)
           tok == Token(acc.text, chunk)
           new == [j \in DOMAIN chunk.text |-> [chunk |-> m + 1, mark |-> chunk.text[j]]]
           T == [start : Nat, end : Nat, lp : { c.lp : c \in Chunk }]
           M == [chunk : Nat, mark : Mark]
<1>1. chunk.text \in Seq(Mark) /\ k \in Nat /\ k > 0 /\ DOMAIN chunk.text = 1..k
  <2>1. chunk.text \in Seq(Mark) /\ chunk.text # <<>>
    BY TranslationAssumption
  <2>2. k # 0
    BY <2>1, EmptySeq
  <2> QED
    BY <2>1, <2>2
<1>2. /\ streamed \in Seq(Chunk) /\ m \in Nat
      /\ marks \in Seq(M) /\ n \in Nat
      /\ acc.text \in Seq(Mark) /\ acc.tokens \in Seq(T)
      /\ Len(acc.text) = n /\ Len(acc.tokens) = m
  BY DEF Inv, Typed, AccFits
<1>3. tok \in T /\ tok.start = n /\ tok.end = n + k /\ tok.lp = chunk.lp
  BY <1>1, <1>2 DEF Token
<1>4. /\ acc'.text = acc.text \o chunk.text /\ acc'.tokens = Append(acc.tokens, tok)
      /\ acc' = [text |-> acc'.text, tokens |-> acc'.tokens]
      /\ streamed' = Append(streamed, chunk)
      /\ UNCHANGED <<req, quality, pc, degraded, answer, parts, status>>
  BY DEF ChunkArrives
<1>5. /\ streamed' \in Seq(Chunk) /\ Len(streamed') = m + 1
      /\ streamed'[m + 1] = chunk /\ \A i \in 1..m : streamed'[i] = streamed[i]
  BY <1>2, <1>4
<1>6. marks' = marks \o new
  BY <1>5 DEF ChunkArrives
<1>7. /\ new \in Seq(M) /\ Len(new) = k
      /\ \A j \in 1..k : new[j].chunk = m + 1 /\ new[j].mark = chunk.text[j]
  <2>1. \A j \in 1..k : [chunk |-> m + 1, mark |-> chunk.text[j]] \in M
    BY <1>1, <1>2
  <2>2. DOMAIN new = 1..k /\ \A j \in 1..k : new[j] = [chunk |-> m + 1, mark |-> chunk.text[j]]
    BY <1>1
  <2>3. new \in [1..k -> M]
    BY <1>1, <2>1
  <2>4. new \in Seq(M) /\ Len(new) = k
    <3> HIDE DEF M, new, k
    <3> QED
      BY <1>1, <2>2, <2>3
  <2> QED
    BY <2>2, <2>4
<1> HIDE DEF T, M, n, m, k, tok, new
<1>8. /\ acc'.tokens \in Seq(T) /\ Len(acc'.tokens) = m + 1
      /\ acc'.tokens[m + 1] = tok /\ \A i \in 1..m : acc'.tokens[i] = acc.tokens[i]
  BY <1>2, <1>3, <1>4
<1>9. /\ marks' \in Seq(M) /\ Len(marks') = n + k
      /\ \A j \in 1..(n + k) : marks'[j] = IF j <= n THEN marks[j] ELSE new[j - n]
  BY <1>2, <1>6, <1>7, ConcatProperties DEF n
<1>10. /\ acc'.text \in Seq(Mark) /\ Len(acc'.text) = n + k
       /\ \A j \in 1..(n + k) : acc'.text[j] = IF j <= n THEN acc.text[j] ELSE chunk.text[j - n]
  <2>1. \A c \in Seq(Mark), d \in Seq(Mark) :
            /\ c \o d \in Seq(Mark) /\ Len(c \o d) = Len(c) + Len(d)
            /\ \A j \in 1..(Len(c) + Len(d)) :
                  (c \o d)[j] = IF j <= Len(c) THEN c[j] ELSE d[j - Len(c)]
    BY ConcatProperties
  <2>2. Len(chunk.text) = k
    BY DEF k
  <2> DEFINE a == acc.text
             c == chunk.text
             x == acc'.text
  <2>3. a \in Seq(Mark) /\ c \in Seq(Mark) /\ x = a \o c /\ Len(a) = n /\ Len(c) = k
    BY <1>1, <1>2, <1>4, <2>2
  <2> HIDE DEF a, c, x
  <2>4. /\ x \in Seq(Mark) /\ Len(x) = n + k
        /\ \A j \in 1..(n + k) : x[j] = IF j <= n THEN a[j] ELSE c[j - n]
    BY <2>1, <2>3
  <2> QED
    BY <2>4 DEF a, c, x
<1>11. \A j \in 1..(n + k) : \/ j <= n /\ j \in 1..n
                             \/ ~(j <= n) /\ j - n \in 1..k /\ n < j /\ j <= n + k
  BY <1>1, <1>2
<1>12. \A i \in 1..(m + 1) : i \in 1..m \/ i = m + 1
  BY <1>2
<1>13. Typed'
  BY <1>4, <1>5, <1>8, <1>9, <1>10 DEF Inv, Typed, T, M
<1>14. /\ \A j \in 1..n : /\ acc.text[j] = marks[j].mark /\ marks[j].chunk \in 1..m
                          /\ \A i \in 1..m : marks[j].chunk = i <=>
                                 (acc.tokens[i].start < j /\ j <= acc.tokens[i].end)
       /\ \A i \in 1..m : /\ acc.tokens[i].lp = streamed[i].lp
                          /\ acc.tokens[i].start < acc.tokens[i].end
                          /\ acc.tokens[i].end <= n
                          /\ acc.tokens[i].start \in Nat /\ acc.tokens[i].end \in Nat
  <2>1. \A i \in 1..m : acc.tokens[i] \in T
    BY <1>2
  <2> QED
    BY <2>1 DEF Inv, AccFits, n, m, T
<1>15. \A j \in 1..(n + k) : acc'.text[j] = marks'[j].mark
  BY <1>7, <1>9, <1>10, <1>11, <1>14
<1>16. \A i \in 1..(m + 1) : /\ acc'.tokens[i].lp = streamed'[i].lp
                             /\ acc'.tokens[i].start < acc'.tokens[i].end
                             /\ acc'.tokens[i].end <= n + k
  <2>1. ASSUME NEW i \in 1..m
        PROVE  /\ acc'.tokens[i].lp = streamed'[i].lp
               /\ acc'.tokens[i].start < acc'.tokens[i].end
               /\ acc'.tokens[i].end <= n + k
    <3>1. /\ acc.tokens[i].lp = streamed[i].lp
          /\ acc.tokens[i].start < acc.tokens[i].end
          /\ acc.tokens[i].end <= n /\ acc.tokens[i].end \in Nat
      BY <1>14
    <3>2. acc.tokens[i].end <= n + k
      BY <1>1, <1>2, <3>1
    <3> QED
      BY <1>5, <1>8, <3>1, <3>2
  <2>2. /\ acc'.tokens[m + 1].lp = streamed'[m + 1].lp
        /\ acc'.tokens[m + 1].start < acc'.tokens[m + 1].end
        /\ acc'.tokens[m + 1].end <= n + k
    BY <1>1, <1>2, <1>3, <1>5, <1>8
  <2> QED
    BY <1>12, <2>1, <2>2
<1>17. ASSUME NEW j \in 1..(n + k)
       PROVE  /\ marks'[j].chunk \in 1..(m + 1)
              /\ \A i \in 1..(m + 1) : marks'[j].chunk = i <=>
                     (acc'.tokens[i].start < j /\ j <= acc'.tokens[i].end)
  <2>1. CASE j <= n
    <3>1. j \in 1..n /\ marks'[j] = marks[j]
      BY <1>9, <1>11, <2>1
    <3>2. marks[j].chunk \in 1..m /\ marks[j].chunk # m + 1 /\ marks[j].chunk \in 1..(m + 1)
      BY <1>2, <1>14, <3>1
    <3>3. ~(acc'.tokens[m + 1].start < j)
      BY <1>2, <1>3, <1>8, <2>1, <3>1
    <3> QED
      BY <1>8, <1>12, <1>14, <3>1, <3>2, <3>3
  <2>2. CASE ~(j <= n)
    <3>1. marks'[j].chunk = m + 1 /\ n < j /\ j <= n + k /\ j \in Nat
      BY <1>1, <1>2, <1>7, <1>9, <1>11, <2>2
    <3>2. \A i \in 1..m : ~(j <= acc'.tokens[i].end) /\ i # m + 1
      <4> SUFFICES ASSUME NEW i \in 1..m PROVE ~(j <= acc'.tokens[i].end) /\ i # m + 1
        OBVIOUS
      <4>1. acc.tokens[i].end \in Nat /\ acc.tokens[i].end <= n
        BY <1>14
      <4>2. ~(j <= acc.tokens[i].end) /\ i # m + 1
        BY <1>2, <3>1, <4>1
      <4> QED
        BY <1>8, <4>2
    <3>3. acc'.tokens[m + 1].start < j /\ j <= acc'.tokens[m + 1].end
      BY <1>3, <1>8, <3>1
    <3>4. m + 1 \in 1..(m + 1)
      BY <1>2
    <3> QED
      BY <1>12, <3>1, <3>2, <3>3, <3>4
  <2> QED
    BY <2>1, <2>2
<1>18. AccFits'
  BY <1>5, <1>8, <1>9, <1>10, <1>15, <1>16, <1>17 DEF AccFits
<1> QED
  BY <1>13, <1>18

\* Each step keeps the invariant.
LEMMA NextInv == Inv /\ [Next]_vars => Inv'
<1> SUFFICES ASSUME Inv, [Next]_vars PROVE Inv'
  OBVIOUS
<1>0. ASSUME UNCHANGED <<answer, history>> PROVE Fits(answer)' <=> Fits(answer)
  BY <1>0 DEF Fits, history, FinalMarks, FirstMark, Ink, Origins, IsLow
<1>a. ASSUME UNCHANGED <<req, acc, answer, parts, history>> PROVE Typed' /\ AccFits'
  BY <1>a DEF Inv, Typed, AccFits, history
<1>b. ASSUME parts'.witness = parts.witness, req' = req, status' # 201 PROVE WitnessesInOrder'
  BY <1>b DEF Inv, WitnessesInOrder, WitnessLangs
<1>1. ASSUME NEW chunk \in Chunk, ChunkArrives(chunk) PROVE Inv'
  <2>1. Typed' /\ AccFits'
    BY <1>1, ChunkKeepsFit
  <2>2. Progress'
    BY <1>1 DEF Inv, Progress, Made, ChunkArrives
  <2>3. WitnessesInOrder'
    BY <1>1 DEF Inv, Progress, WitnessesInOrder, WitnessLangs, ChunkArrives
  <2> QED
    BY <2>1, <2>2, <2>3 DEF Inv
<1>2. ASSUME FinalFails PROVE Inv'
  <2>1. Typed' /\ AccFits'
    <3>1. CASE degraded
      BY <1>a, <1>2, <3>1 DEF FinalFails
    <3>2. CASE ~degraded
      <4>1. acc' = [text |-> <<>>, tokens |-> <<>>] /\ streamed' = <<>> /\ marks' = <<>>
            /\ UNCHANGED <<req, answer, parts>>
        BY <1>2, <3>2 DEF FinalFails, Empty
      <4>2. Typed'
        BY <4>1 DEF Inv, Typed
      <4>3. AccFits'
        BY <4>1 DEF AccFits
      <4> QED
        BY <4>2, <4>3
    <3> QED
      BY <3>1, <3>2
  <2>2. Progress'
    BY <1>2 DEF Inv, Progress, Made, FinalFails, Ends
  <2>3. WitnessesInOrder'
    BY <1>b, <1>2 DEF Inv, Progress, FinalFails, Ends
  <2> QED
    BY <2>1, <2>2, <2>3 DEF Inv
<1>3. ASSUME FinalEnds PROVE Inv'
  <2>1. Typed' /\ AccFits'
    BY <1>3 DEF Inv, Typed, AccFits, FinalEnds, history
  <2>2. Fits(answer')
    BY <1>3, FinalizeFits DEF Inv, FinalEnds
  <2>3. Fits(answer)'
    <3>1. UNCHANGED <<streamed, marks>>
      BY <1>3 DEF FinalEnds, history
    <3>2. FinalMarks' = FinalMarks /\ FirstMark' = FirstMark
      BY <3>1 DEF FinalMarks, FirstMark, Ink
    <3>3. /\ \A span : Origins(span)' = Origins(span)
          /\ \A o : IsLow(o)' <=> IsLow(o)
      BY <3>1, <3>2 DEF Origins, IsLow
    <3> QED
      BY <2>2, <3>1, <3>2, <3>3 DEF Fits
  <2>4. Progress'
    BY <1>3, <2>3 DEF Inv, Progress, Made, FinalEnds, Ends
  <2>5. WitnessesInOrder'
    BY <1>3 DEF Inv, Progress, WitnessesInOrder, WitnessLangs, FinalEnds, Ends
  <2> QED
    BY <2>1, <2>4, <2>5 DEF Inv
<1>4. ASSUME DraftEnds PROVE Inv'
  <2>1. Typed' /\ AccFits'
    BY <1>4 DEF Inv, Typed, AccFits, history, DraftEnds
  <2>2. Fits(answer)' <=> Fits(answer)
    BY <1>0, <1>4 DEF DraftEnds
  <2>3. Progress'
    <3>1. (Made' => Made) /\ (Made => Fits(answer))
      BY <1>4 DEF Inv, Progress, Made, DraftEnds, Ends
    <3>2. Made' => Fits(answer)'
      BY <2>2, <3>1, Zenon
    <3> QED
      BY <1>4, <3>2 DEF Inv, Progress, DraftEnds, Ends
  <2>4. WitnessesInOrder'
    <3>1. parts'.witness = parts.witness /\ req' = req /\ status' # 201
      BY <1>4 DEF Inv, Typed, Progress, DraftEnds, Ends
    <3> QED
      BY <1>b, <3>1
  <2> QED
    BY <2>1, <2>3, <2>4 DEF Inv
<1>5. ASSUME BackEnds PROVE Inv'
  <2>1. Typed' /\ AccFits'
    BY <1>5 DEF Inv, Typed, AccFits, history, BackEnds
  <2>2. Fits(answer)' <=> Fits(answer)
    BY <1>0, <1>5 DEF BackEnds
  <2>3. Progress'
    <3>1. (Made' => Made) /\ (Made => Fits(answer))
      BY <1>5 DEF Inv, Progress, Made, BackEnds, Ends
    <3>2. Made' => Fits(answer)'
      BY <2>2, <3>1, Zenon
    <3> QED
      BY <1>5, <3>2 DEF Inv, Progress, BackEnds, Ends
  <2>4. WitnessesInOrder'
    <3>1. parts'.witness = parts.witness /\ req' = req /\ status' # 201
      BY <1>5 DEF Inv, Typed, Progress, BackEnds, Ends
    <3> QED
      BY <1>b, <3>1
  <2> QED
    BY <2>1, <2>3, <2>4 DEF Inv
<1>6. ASSUME AlignEnds PROVE Inv'
  <2>1. Typed' /\ AccFits'
    BY <1>6 DEF Inv, Typed, AccFits, history, AlignEnds
  <2>2. Fits(answer)' <=> Fits(answer)
    BY <1>0, <1>6 DEF AlignEnds
  <2>3. Progress'
    <3>1. (Made' => Made) /\ (Made => Fits(answer))
      BY <1>6 DEF Inv, Progress, Made, AlignEnds, Ends
    <3>2. Made' => Fits(answer)'
      BY <2>2, <3>1, Zenon
    <3> QED
      BY <1>6, <3>2 DEF Inv, Progress, AlignEnds, Ends
  <2>4. WitnessesInOrder'
    BY <1>6 DEF Inv, Progress, WitnessesInOrder, WitnessLangs, AlignEnds, Ends
  <2> QED
    BY <2>1, <2>3, <2>4 DEF Inv
<1>7. ASSUME WitnessEnds PROVE Inv'
  <2> DEFINE n == Len(parts.witness)
  <2>1. PICK part \in Part :
            parts' = [parts EXCEPT !.witness =
                          Append(@, [lang |-> WitnessLangs[n + 1], text |-> part])]
    BY <1>7 DEF WitnessEnds
  <2> DEFINE new == [lang |-> WitnessLangs[n + 1], text |-> part]
  <2>2. WitnessLangs \in Seq(Lang)
    <3>1. req.src \in Lang /\ req.tgt \in Lang /\ req.witness \in Seq(Lang)
      BY TranslationAssumption DEF Inv, Typed
    <3> QED
      BY <3>1, WitnessesOfSession DEF WitnessLangs
  <2>3. n \in Nat /\ n + 1 <= Len(WitnessLangs) /\ n + 1 \in 1..Len(WitnessLangs)
    BY <1>7, <2>2 DEF Inv, Typed, WitnessEnds
  <2>4. new \in [lang : Lang, text : Part]
    BY <2>2, <2>3
  <2>5. /\ parts' = [draft |-> parts'.draft, back |-> parts'.back, witness |-> parts'.witness]
        /\ parts'.witness = Append(parts.witness, new)
    BY <2>1 DEF Inv, Typed
  <2>6. parts.witness \in Seq([lang : Lang, text : Part])
    BY DEF Inv, Typed
  <2> HIDE DEF new
  <2>7. /\ parts'.witness \in Seq([lang : Lang, text : Part]) /\ Len(parts'.witness) = n + 1
        /\ \A i \in 1..n : parts'.witness[i] = parts.witness[i]
        /\ parts'.witness[n + 1] = new
    BY <2>4, <2>5, <2>6
  <2>8. Typed' /\ AccFits'
    BY <1>7, <2>5, <2>7 DEF Inv, Typed, AccFits, WitnessEnds, history
  <2>9. Fits(answer)' <=> Fits(answer)
    BY <1>0, <1>7 DEF WitnessEnds
  <2>10. Progress'
    BY <1>7, <2>9 DEF Inv, Progress, Made, WitnessEnds
  <2>11. status' = 0 /\ WitnessLangs' = WitnessLangs
    BY <1>7 DEF Inv, Progress, WitnessEnds, WitnessLangs
  <2>12. \A i \in 1..(n + 1) : i \in 1..n \/ i = n + 1
    BY <2>3
  <2>13. \A i \in 1..(n + 1) : parts'.witness[i].lang = WitnessLangs[i]
    BY <2>7, <2>12 DEF Inv, WitnessesInOrder, new
  <2>14. WitnessesInOrder'
    BY <2>3, <2>7, <2>11, <2>13 DEF WitnessesInOrder
  <2> QED
    BY <2>8, <2>10, <2>14 DEF Inv
<1>8. ASSUME Verified PROVE Inv'
  <2>1. Typed' /\ AccFits'
    BY <1>8 DEF Inv, Typed, AccFits, history, Verified
  <2>2. Fits(answer)' <=> Fits(answer)
    BY <1>0, <1>8 DEF Verified
  <2>3. Progress'
    <3>1. (Made' => Made) /\ (Made => Fits(answer))
      BY <1>8 DEF Inv, Progress, Made, Verified, Ends
    <3>2. Made' => Fits(answer)'
      BY <2>2, <3>1, Zenon
    <3> QED
      BY <1>8, <3>2 DEF Inv, Progress, Verified, Ends
  <2>4. WitnessesInOrder'
    BY <1>8 DEF Inv, Progress, WitnessesInOrder, WitnessLangs, Verified, Ends
  <2> QED
    BY <2>1, <2>3, <2>4 DEF Inv
<1>9. ASSUME Breaks PROVE Inv'
  <2>1. Typed' /\ AccFits'
    BY <1>9 DEF Inv, Typed, AccFits, history, Breaks
  <2>2. Fits(answer)' <=> Fits(answer)
    BY <1>0, <1>9 DEF Breaks
  <2>3. Progress'
    <3>1. (Made' => Made) /\ (Made => Fits(answer))
      BY <1>9 DEF Inv, Progress, Made, Breaks, Ends
    <3>2. Made' => Fits(answer)'
      BY <2>2, <3>1, Zenon
    <3> QED
      BY <1>9, <3>2 DEF Inv, Progress, Breaks, Ends
  <2>4. WitnessesInOrder'
    <3>1. parts'.witness = parts.witness /\ req' = req /\ status' # 201
      BY <1>9 DEF Inv, Typed, Progress, Breaks, Ends
    <3> QED
      BY <1>b, <3>1
  <2> QED
    BY <2>1, <2>3, <2>4 DEF Inv
<1>10. CASE UNCHANGED vars
  <2>1. Typed' /\ AccFits'
    BY <1>a, <1>10 DEF vars
  <2>2. Fits(answer)' <=> Fits(answer)
    BY <1>0, <1>10 DEF vars
  <2>3. Progress'
    <3>1. (Made' => Made) /\ (Made => Fits(answer))
      BY <1>10 DEF Inv, Progress, Made, vars
    <3>2. Made' => Fits(answer)'
      BY <2>2, <3>1, Zenon
    <3> QED
      BY <1>10, <3>2 DEF Inv, Progress, vars
  <2>4. WitnessesInOrder'
    BY <1>10 DEF vars, Inv, WitnessesInOrder, WitnessLangs
  <2> QED
    BY <2>1, <2>3, <2>4 DEF Inv
<1> QED
  BY <1>1, <1>2, <1>3, <1>4, <1>5, <1>6, <1>7, <1>8, <1>9, <1>10 DEF Next

-----------------------------------------------------------------------------
(* The theorems.                                                           *)

\* The invariant holds at every moment of a request.
THEOREM SpecInv == Spec => []Inv
<1>1. Inv /\ [Next]_vars => Inv'
  BY NextInv
<1> QED
  BY InitInv, <1>1, PTL DEF Spec

\* For every stream of chunks, wherever an attempt broke off: the answer is what
\* one engine streamed, stripped, and build_confidence_spans judges every word
\* by exactly the chunks its letters came in.
THEOREM AnswerIsOneAttemptHolds == Spec => []AnswerIsOneAttempt
BY SpecInv, InvImplies, PTL

\* For every list of witnesses a client may send: those verified are those a
\* session would show, in its order, and an engine error costs no translation.
THEOREM VerificationIsWholeHolds == Spec => []VerificationIsWhole
BY SpecInv, InvImplies, PTL
=============================================================================
