-------------------------- MODULE SimilarityProofs --------------------------
(***************************************************************************)
(* The two pure algorithms: how the similarity levels see hashes of any    *)
(* width, and how scores become a verdict, for any categories and frames.  *)
(***************************************************************************)
EXTENDS MCSimilarity, FiniteSetTheorems, TLAPS

LEMMA Apart ==
    ASSUME NEW S, NEW T, IsFiniteSet(S), IsFiniteSet(T), S \cap T = {}
    PROVE  Cardinality(S \cup T) = Cardinality(S) + Cardinality(T)
<1>1. Cardinality(S \cup T) = Cardinality(S) + Cardinality(T) - Cardinality(S \cap T)
  BY FS_Union
<1>2. Cardinality(S \cap T) = 0 /\ Cardinality(S) \in Nat /\ Cardinality(T) \in Nat
  BY FS_EmptySet, FS_CardinalityType
<1>3. QED
  BY <1>1, <1>2

\* The ones of a hash are those it shares and those of its own.
LEMMA Ones ==
    ASSUME NEW x, NEW y, IsFiniteSet(x), IsFiniteSet(y)
    PROVE  /\ Cardinality(x \cap y) \in Nat
           /\ Cardinality(x \ y) \in Nat /\ Cardinality(y \ x) \in Nat
           /\ Cardinality(x) = Cardinality(x \cap y) + Cardinality(x \ y)
           /\ Cardinality(y) = Cardinality(x \cap y) + Cardinality(y \ x)
           /\ Hamming(x, y) = Cardinality(x \ y) + Cardinality(y \ x)
           /\ Cardinality(x \cup y) = Cardinality(x) + Cardinality(y \ x)
<1>1. PICK both, own, other : both = x \cap y /\ own = x \ y /\ other = y \ x
  OBVIOUS
<1>2. /\ both \in SUBSET x /\ own \in SUBSET x /\ other \in SUBSET y
      /\ x = both \cup own /\ y = both \cup other
      /\ x \cup y = x \cup other
  BY <1>1
<1>3. /\ IsFiniteSet(both) /\ IsFiniteSet(own) /\ IsFiniteSet(other)
      /\ Cardinality(both) \in Nat /\ Cardinality(own) \in Nat /\ Cardinality(other) \in Nat
  BY <1>2, FS_Subset, FS_CardinalityType
<1>4. both \cap own = {} /\ both \cap other = {} /\ own \cap other = {} /\ x \cap other = {}
  BY <1>1
<1>5. /\ Cardinality(x) = Cardinality(both) + Cardinality(own)
      /\ Cardinality(y) = Cardinality(both) + Cardinality(other)
      /\ Cardinality(own \cup other) = Cardinality(own) + Cardinality(other)
      /\ Cardinality(x \cup other) = Cardinality(x) + Cardinality(other)
  <2>1. Cardinality(both \cup own) = Cardinality(both) + Cardinality(own)
    BY <1>3, <1>4, Apart
  <2>2. Cardinality(both \cup other) = Cardinality(both) + Cardinality(other)
    BY <1>3, <1>4, Apart
  <2>3. Cardinality(own \cup other) = Cardinality(own) + Cardinality(other)
    BY <1>3, <1>4, Apart
  <2>4. Cardinality(x \cup other) = Cardinality(x) + Cardinality(other)
    BY <1>3, <1>4, Apart
  <2>5. QED
    BY <1>2, <2>1, <2>2, <2>3, <2>4
<1>6. Hamming(x, y) = Cardinality(own \cup other)
  BY <1>1 DEF Hamming
<1>7. QED
  BY <1>1, <1>2, <1>3, <1>5, <1>6

\* The arithmetic of the two thresholds.
LEMMA NearReaches ==
    ASSUME NEW i \in Nat, NEW a \in Nat, NEW b \in Nat, a + b <= 5, i >= 14
    PROVE  CertaintyReached(i, i + a, i + b)
<1>1. /\ i * i \in Nat /\ i * i >= 14 * i
      /\ (i + a) * (i + b) = i * i + (a + b) * i + a * b
  OBVIOUS
<1>2. (a + b) * i <= 5 * i /\ a * b <= 6
  <2>1. a \in 0 .. 5 /\ b \in 0 .. 5
    OBVIOUS
  <2>2. QED
    BY <2>1
<1>3. (a + b) * i \in Nat /\ a * b \in Nat
  OBVIOUS
<1>4. PICK ii, ai, ab, mn \in Nat :
          ii = i * i /\ ai = (a + b) * i /\ ab = a * b /\ mn = (i + a) * (i + b)
  BY <1>1, <1>3
<1>5. ii >= 14 * i /\ ai <= 5 * i /\ ab <= 6 /\ mn = ii + ai + ab
  BY <1>1, <1>2, <1>4
<1>6. mn > 0 /\ 10000 * ii >= 7056 * mn
  BY <1>5
<1>7. 10000 * i * i = 10000 * ii /\ 7056 * (i + a) * (i + b) = 7056 * mn
  BY <1>4
<1>8. QED
  BY <1>4, <1>6, <1>7 DEF CertaintyReached

LEMMA ReachIsNear ==
    ASSUME NEW i \in Nat, NEW a \in Nat, NEW b \in Nat, i + a + b <= 64,
           CertaintyReached(i, i + a, i + b)
    PROVE  a + b <= 18
<1> SUFFICES ASSUME a + b >= 19
             PROVE  FALSE
    OBVIOUS
<1>1. i <= 45
  OBVIOUS
<1>2. (i + a) * (i + b) = i * i + (a + b) * i + a * b
  OBVIOUS
<1>3. (a + b) * i >= 19 * i /\ a * b >= 0 /\ i * i <= 45 * i
  BY <1>1
<1>4. i * i \in Nat /\ (a + b) * i \in Nat /\ a * b \in Nat
  OBVIOUS
<1>5. PICK ii, ai, ab, mn \in Nat :
          ii = i * i /\ ai = (a + b) * i /\ ab = a * b /\ mn = (i + a) * (i + b)
  BY <1>2, <1>4
<1>6. mn = ii + ai + ab /\ ai >= 19 * i /\ ii <= 45 * i
  BY <1>2, <1>3, <1>5
<1>7. mn > 0 /\ 10000 * ii >= 7056 * mn
  <2>1. 10000 * i * i = 10000 * ii /\ 7056 * (i + a) * (i + b) = 7056 * mn
    BY <1>5
  <2>2. QED
    BY <1>5, <2>1 DEF CertaintyReached
<1>8. 2944 * ii >= 7056 * ai
  BY <1>6, <1>7
<1>9. 2944 * (45 * i) >= 7056 * (19 * i)
  BY <1>6, <1>8
<1>10. i = 0
  BY <1>9
<1>11. ii = 0 /\ mn = 0
  BY <1>5, <1>6, <1>7, <1>10
<1>12. QED
  BY <1>7, <1>11
-----------------------------------------------------------------------------
\* A non-empty set of numbers has a least one.
LEMMA Least ==
    ASSUME NEW S \in SUBSET Nat, S # {}
    PROVE  \E x \in S : \A y \in S : x <= y
<1>1. PICK x \in S : \A y \in S : ~(<<y, x>> \in OpToRel(<, Nat))
  BY WFMin, NatLessThanWellFounded
<1>2. \A y \in S : ~(y < x)
  BY <1>1 DEF OpToRel
<1>3. QED
  BY <1>2

LEMMA MinIsIn ==
    ASSUME NEW S \in SUBSET Nat, S # {}
    PROVE  Min(S) \in S
  BY Least DEF Min

\* Both hashes are words of Bits bits.
HashInv == p \in SUBSET (0 .. Bits - 1) /\ q \in SUBSET (0 .. Bits - 1)

LEMMA HashInvariant == ASSUME Bits \in Nat PROVE Spec => []HashInv
<1>1. Init => HashInv
  BY DEF Init, HashInv
<1>2. HashInv /\ [Next]_vars => HashInv'
  <2> SUFFICES ASSUME HashInv, [Next]_vars
               PROVE  HashInv'
      OBVIOUS
  <2>1. Free # {} => Min(Free) \in 0 .. Bits - 1
    BY MinIsIn DEF Free
  <2>2. QED
    BY <2>1 DEF HashInv, Next, SetBoth, SetFirst, SetSecond, hashVars, vars
<1>3. QED
  BY <1>1, <1>2, PTL DEF Spec

LEMMA HashFinite ==
    ASSUME HashInv, Bits \in Nat
    PROVE  /\ IsFiniteSet(p) /\ IsFiniteSet(q) /\ Cardinality(p \cup q) <= Bits
<1>1. IsFiniteSet(0 .. Bits - 1) /\ Cardinality(0 .. Bits - 1) <= Bits
  <2>1. /\ IsFiniteSet(0 .. Bits - 1)
        /\ Cardinality(0 .. Bits - 1) = IF 0 > Bits - 1 THEN 0 ELSE Bits - 1 - 0 + 1
    BY FS_Interval
  <2>2. QED
    BY <2>1
<1>2. p \cup q \in SUBSET (0 .. Bits - 1)
  BY DEF HashInv
<1>3. Cardinality(p \cup q) <= Cardinality(0 .. Bits - 1)
  BY <1>1, <1>2, FS_Subset
<1>4. Cardinality(p \cup q) \in Nat /\ Cardinality(0 .. Bits - 1) \in Nat
  BY <1>1, <1>2, FS_Subset, FS_CardinalityType
<1>5. IsFiniteSet(p) /\ IsFiniteSet(q)
  BY <1>1, FS_Subset DEF HashInv
<1>6. QED
  BY <1>1, <1>3, <1>4, <1>5

\* An L2 hit on hashes with 14 ones in common is in reach of the index, at any
\* width of the hash (HammingThreshold and the certainty of SearchSimilar).
THEOREM NearHashesIndexed == ASSUME Bits \in Nat PROVE Spec => []NearIsIndexed
<1>1. HashInv => NearIsIndexed
  <2> SUFFICES ASSUME HashInv, L2Match(p, q), Cardinality(p \cap q) >= 14
               PROVE  L3Match(p, q)
      BY DEF NearIsIndexed
  <2>1. PICK i, a, b \in Nat :
            /\ Cardinality(p \cap q) = i
            /\ Cardinality(p) = i + a /\ Cardinality(q) = i + b
            /\ Hamming(p, q) = a + b
    <3>1. IsFiniteSet(p) /\ IsFiniteSet(q)
      BY HashFinite
    <3>2. /\ Cardinality(p \cap q) \in Nat
          /\ Cardinality(p \ q) \in Nat /\ Cardinality(q \ p) \in Nat
          /\ Cardinality(p) = Cardinality(p \cap q) + Cardinality(p \ q)
          /\ Cardinality(q) = Cardinality(p \cap q) + Cardinality(q \ p)
          /\ Hamming(p, q) = Cardinality(p \ q) + Cardinality(q \ p)
          /\ Cardinality(p \cup q) = Cardinality(p) + Cardinality(q \ p)
      BY <3>1, Ones
    <3>3. QED
      BY <3>2
  <2>2. a + b <= 5 /\ i >= 14
    BY <2>1 DEF L2Match, HammingThreshold
  <2>3. QED
    BY <2>1, <2>2, NearReaches DEF L3Match
<1>2. Spec => []HashInv
  BY HashInvariant
<1>3. QED
  BY <1>1, <1>2, PTL

\* No hit of the index is on a picture 19 bits away, for the 64 bits a hash has.
THEOREM IndexStaysNear == ASSUME Bits \in 0 .. 64 PROVE Spec => []IndexReach
<1>1. Bits \in Nat
  OBVIOUS
<1>2. HashInv => IndexReach
  <2> SUFFICES ASSUME HashInv, L3Match(p, q)
               PROVE  Hamming(p, q) <= 18
      BY DEF IndexReach
  <2>1. PICK i, a, b \in Nat :
            /\ Cardinality(p \cap q) = i
            /\ Cardinality(p) = i + a /\ Cardinality(q) = i + b
            /\ Hamming(p, q) = a + b /\ Cardinality(p \cup q) = i + a + b
    <3>1. IsFiniteSet(p) /\ IsFiniteSet(q)
      BY <1>1, HashFinite
    <3>2. /\ Cardinality(p \cap q) \in Nat
          /\ Cardinality(p \ q) \in Nat /\ Cardinality(q \ p) \in Nat
          /\ Cardinality(p) = Cardinality(p \cap q) + Cardinality(p \ q)
          /\ Cardinality(q) = Cardinality(p \cap q) + Cardinality(q \ p)
          /\ Hamming(p, q) = Cardinality(p \ q) + Cardinality(q \ p)
          /\ Cardinality(p \cup q) = Cardinality(p) + Cardinality(q \ p)
      BY <3>1, Ones
    <3>3. QED
      BY <3>2
  <2>2. i + a + b <= 64
    BY <1>1, <2>1, HashFinite
  <2>3. CertaintyReached(i, i + a, i + b)
    BY <2>1 DEF L3Match
  <2>4. QED
    BY <2>1, <2>2, <2>3, ReachIsNear
<1>3. Spec => []HashInv
  BY <1>1, HashInvariant
<1>4. QED
  BY <1>2, <1>3, PTL
-----------------------------------------------------------------------------
(* From scores to a verdict.                                               *)

LEMMA Induction ==
    ASSUME NEW S, 0 \in S, \A n \in Nat : n \in S => n + 1 \in S
    PROVE  Nat \subseteq S
<1> SUFFICES ASSUME Nat \ S # {}
             PROVE  FALSE
    OBVIOUS
<1>1. PICK x \in Nat \ S : \A y \in Nat \ S : x <= y
  BY Least
<1>2. x # 0
  BY <1>1
<1>3. x - 1 \in Nat
  BY <1>1, <1>2
<1>4. ~(x <= x - 1) /\ x - 1 + 1 = x
  BY <1>1
<1>5. x - 1 \in S
  BY <1>1, <1>3, <1>4
<1>6. QED
  BY <1>1, <1>3, <1>4, <1>5

LEMMA MaxIsMax ==
    ASSUME NEW K \in Nat, NEW S \in SUBSET (0 .. K), S # {}
    PROVE  Max(S) \in S /\ \A y \in S : y <= Max(S)
<1>1. PICK T : T = {d \in Nat : \E x \in S : d = K - x}
  OBVIOUS
<1>2. T \in SUBSET Nat /\ T # {} /\ \A y \in S : K - y \in T
  <2>1. \A y \in S : K - y \in Nat
    OBVIOUS
  <2>2. \A y \in S : K - y \in T
    BY <1>1, <2>1
  <2>3. QED
    BY <1>1, <2>2
<1>3. PICK d \in T : \A e \in T : d <= e
  BY <1>2, Least
<1>4. PICK x \in S : d = K - x
  BY <1>1, <1>3
<1>5. \A y \in S : x >= y
  BY <1>2, <1>3, <1>4
<1>6. QED
  BY <1>4, <1>5 DEF Max

\* A function may be defined by recursion over 1 .. N.
BuiltOver(T, a, N, F) ==
    \E f \in [1 .. N -> T] :
        \A i \in 1 .. N : f[i] = IF i = 1 THEN a ELSE F[<<i, f[i - 1]>>]

LEMMA Recursion ==
    ASSUME NEW T, NEW a \in T, NEW N \in Nat, NEW F \in [(2 .. N) \X T -> T]
    PROVE  BuiltOver(T, a, N, F)
<1>1. PICK S : S = {n \in Nat : n <= N =>
          \E f \in [1 .. n -> T] :
              \A i \in 1 .. n : f[i] = IF i = 1 THEN a ELSE F[<<i, f[i - 1]>>]}
  OBVIOUS
<1>2. 0 \in S
  <2>1. PICK f : f = [i \in 1 .. 0 |-> a]
    OBVIOUS
  <2>2. f \in [1 .. 0 -> T] /\ \A i \in 1 .. 0 : f[i] = IF i = 1 THEN a ELSE F[<<i, f[i - 1]>>]
    BY <2>1
  <2>3. QED
    BY <1>1, <2>2
<1>3. ASSUME NEW n \in Nat, n \in S
      PROVE  n + 1 \in S
  <2> SUFFICES ASSUME n + 1 <= N
               PROVE  \E f \in [1 .. n + 1 -> T] :
                          \A i \in 1 .. n + 1 :
                              f[i] = IF i = 1 THEN a ELSE F[<<i, f[i - 1]>>]
      BY <1>1
  <2>1. PICK g \in [1 .. n -> T] :
            \A i \in 1 .. n : g[i] = IF i = 1 THEN a ELSE F[<<i, g[i - 1]>>]
    BY <1>1, <1>3
  <2>2. PICK last : last = IF n = 0 THEN a ELSE F[<<n + 1, g[n]>>]
    OBVIOUS
  <2>3. last \in T
    <3>1. CASE n = 0
      BY <2>2, <3>1
    <3>2. CASE n # 0
      <4>1. <<n + 1, g[n]>> \in (2 .. N) \X T
        BY <2>1, <3>2
      <4>2. QED
        BY <2>2, <3>2, <4>1
    <3>3. QED
      BY <3>1, <3>2
  <2>4. PICK f : f = [i \in 1 .. n + 1 |-> IF i <= n THEN g[i] ELSE last]
    OBVIOUS
  <2>5. f \in [1 .. n + 1 -> T]
    BY <2>1, <2>3, <2>4
  <2>6. (\A i \in 1 .. n : f[i] = g[i]) /\ f[n + 1] = last
    BY <2>4
  <2>7. ASSUME NEW i \in 1 .. n + 1
        PROVE  f[i] = IF i = 1 THEN a ELSE F[<<i, f[i - 1]>>]
    <3>1. CASE i = 1
      <4>1. CASE n = 0
        BY <2>2, <2>6, <3>1, <4>1
      <4>2. CASE n # 0
        <5>1. 1 \in 1 .. n
          BY <4>2
        <5>2. g[1] = IF 1 = 1 THEN a ELSE F[<<1, g[1 - 1]>>]
          BY <2>1, <5>1
        <5>3. QED
          BY <2>6, <3>1, <5>1, <5>2
      <4>3. QED
        BY <4>1, <4>2
    <3>2. CASE i # 1 /\ i <= n
      <4>1. i \in 1 .. n /\ i - 1 \in 1 .. n
        BY <3>2
      <4>2. f[i] = g[i] /\ f[i - 1] = g[i - 1]
        BY <2>6, <4>1
      <4>3. QED
        BY <2>1, <3>2, <4>1, <4>2
    <3>3. CASE i # 1 /\ i = n + 1
      <4>1. n \in 1 .. n /\ n # 0 /\ i - 1 = n
        BY <3>3
      <4>2. f[i - 1] = g[n] /\ f[i] = last
        BY <2>6, <3>3, <4>1
      <4>3. QED
        BY <2>2, <3>3, <4>1, <4>2
    <3>4. QED
      BY <3>1, <3>2, <3>3
  <2>8. QED
    BY <2>5, <2>7
<1>4. N \in S
  BY <1>2, <1>3, Induction
<1>5. QED
  BY <1>1, <1>4 DEF BuiltOver
\* The rows and the offsets, category by category, are what the two loops build.
LEMMA RowsBuilt ==
    ASSUME NEW cs \in Seq(Category), cs # <<>>
    PROVE  \E f : /\ FlattenInputIDs(cs) = f[Len(cs)]
                  /\ \A c \in 1 .. Len(cs) : f[c] \in Seq(Nat \X Nat)
                  /\ f[1] = Prompts(cs, 1)
                  /\ \A c \in 2 .. Len(cs) : f[c] = f[c - 1] \o Prompts(cs, c)
<1>1. PICK N, T, ps : /\ N = Len(cs) /\ T = Seq(Nat \X Nat)
                      /\ ps = [c \in DOMAIN cs |-> Prompts(cs, c)]
  OBVIOUS
<1>2. N \in Nat \ {0} /\ DOMAIN cs = 1 .. N
  BY <1>1
<1>3. /\ DOMAIN ps = 1 .. N /\ Len(ps) = N
      /\ \A c \in 1 .. N : ps[c] = Prompts(cs, c) /\ ps[c] \in T
  <2>1. ps \in [1 .. N -> T]
    <3>1. ASSUME NEW c \in 1 .. N
          PROVE  Prompts(cs, c) \in T
      <4>1. cs[c] \in Category
        BY <1>1
      <4>2. cs[c].prompts \in Nat
        BY <4>1 DEF Category
      <4>3. PICK n \in Nat : n = cs[c].prompts
        BY <4>2
      <4>4. [i \in 1 .. n |-> <<c, i>>] \in [1 .. n -> Nat \X Nat]
        OBVIOUS
      <4>5. [i \in 1 .. n |-> <<c, i>>] \in Seq(Nat \X Nat)
        BY <4>4
      <4>6. QED
        BY <1>1, <4>3, <4>5 DEF Prompts
    <3>2. QED
      BY <1>1, <1>2, <3>1
  <2>2. ps \in Seq(T) /\ Len(ps) = N
    BY <1>2, <2>1
  <2>3. QED
    BY <1>1, <1>2, <2>1, <2>2
<1>4. PICK F : F = [x \in (2 .. N) \X T |-> x[2] \o ps[x[1]]]
  OBVIOUS
<1>5. F \in [(2 .. N) \X T -> T]
  <2>1. \A c \in 2 .. N, rows \in T : rows \o ps[c] \in T
    BY <1>1, <1>2, <1>3
  <2>2. QED
    BY <1>4, <2>1
<1>6. PICK g \in [1 .. N -> T] :
          \A c \in 1 .. N : g[c] = IF c = 1 THEN ps[1] ELSE F[<<c, g[c - 1]>>]
  <2>1. ps[1] \in T
    BY <1>2, <1>3
  <2>2. QED
    <3>1. N \in Nat
      BY <1>2
    <3>2. BuiltOver(T, ps[1], N, F)
      BY <1>5, <2>1, <3>1, Recursion
    <3>3. QED
      BY <3>2 DEF BuiltOver
<1>7. g = [c \in 1 .. N |-> IF c = 1 THEN ps[c] ELSE g[c - 1] \o ps[c]]
  <2>1. ASSUME NEW c \in 1 .. N, c # 1
        PROVE  g[c] = g[c - 1] \o ps[c]
    <3>1. c \in 2 .. N /\ c - 1 \in 1 .. N /\ g[c - 1] \in T
      BY <1>2, <1>6, <2>1
    <3>2. F[<<c, g[c - 1]>>] = g[c - 1] \o ps[c]
      BY <1>4, <3>1
    <3>3. QED
      BY <1>6, <2>1, <3>2
  <2>2. \A c \in 1 .. N : g[c] = IF c = 1 THEN ps[c] ELSE g[c - 1] \o ps[c]
    BY <1>6, <2>1
  <2>3. QED
    BY <1>6, <2>2
<1>8. PICK f : f = CHOOSE flatten :
          flatten = [c \in 1 .. Len(ps) |-> IF c = 1 THEN ps[c] ELSE flatten[c - 1] \o ps[c]]
  OBVIOUS
<1>9. f = [c \in 1 .. N |-> IF c = 1 THEN ps[c] ELSE f[c - 1] \o ps[c]]
  BY <1>3, <1>7, <1>8
<1>10. FlattenInputIDs(cs) = f[N]
  <2>1. FlattenSeq(ps) = f[Len(ps)]
    BY <1>2, <1>3, <1>8 DEF FlattenSeq
  <2>2. QED
    BY <1>1, <1>3, <2>1 DEF FlattenInputIDs
<1>11. f[1] = ps[1] /\ \A c \in 2 .. N : f[c] = f[c - 1] \o ps[c]
  <2>1. \A c \in 1 .. N : f[c] = IF c = 1 THEN ps[c] ELSE f[c - 1] \o ps[c]
    BY <1>9
  <2>2. ASSUME NEW c \in 2 .. N
        PROVE  f[c] = f[c - 1] \o ps[c]
    <3>1. c \in 1 .. N /\ c # 1
      BY <1>2
    <3>2. QED
      BY <2>1, <3>1, Zenon
  <2>3. 1 \in 1 .. N
    BY <1>2
  <2>4. f[1] = ps[1]
    BY <2>1, <2>3, Zenon
  <2>5. QED
    BY <2>2, <2>4
<1>12. \A c \in 1 .. N : f[c] \in T
  <2>1. PICK S : S = {n \in Nat : n \in 1 .. N => f[n] \in T}
    OBVIOUS
  <2>2. 0 \in S
    BY <2>1
  <2>3. ASSUME NEW n \in Nat, n \in S
        PROVE  n + 1 \in S
    <3>1. CASE n = 0
      BY <1>2, <1>3, <1>11, <2>1, <3>1
    <3>2. CASE n # 0 /\ n + 1 <= N
      <4>1. n + 1 \in 2 .. N /\ n \in 1 .. N /\ n + 1 - 1 = n
        BY <1>2, <3>2
      <4>2. f[n] \in T /\ n + 1 \in 1 .. N
        BY <1>2, <2>1, <2>3, <4>1
      <4>3. ps[n + 1] \in T
        BY <1>3, <4>2
      <4>4. f[n + 1] = f[n] \o ps[n + 1]
        <5>1. PICK m : m = n + 1
          OBVIOUS
        <5>2. m \in 2 .. N /\ m - 1 = n
          BY <4>1, <5>1
        <5>3. f[m] = f[m - 1] \o ps[m]
          BY <1>11, <5>2, Zenon
        <5>4. QED
          BY <5>1, <5>2, <5>3
      <4>5. f[n + 1] \in T
        BY <1>1, <4>1, <4>2, <4>3, <4>4
      <4>6. QED
        BY <2>1, <4>5
    <3>3. CASE n + 1 > N
      BY <1>2, <2>1, <3>3
    <3>4. QED
      BY <1>2, <3>1, <3>2, <3>3
  <2>4. Nat \subseteq S
    BY <2>2, <2>3, Induction
  <2>5. QED
    BY <1>2, <2>1, <2>4
<1>13. f[1] = Prompts(cs, 1) /\ \A c \in 2 .. N : f[c] = f[c - 1] \o Prompts(cs, c)
  <2>1. 1 \in 1 .. N /\ \A c \in 2 .. N : c \in 1 .. N
    BY <1>2
  <2>2. QED
    BY <1>3, <1>11, <2>1, Zenon
<1>14. QED
  BY <1>1, <1>10, <1>12, <1>13

LEMMA OffsetsBuilt ==
    ASSUME NEW cs \in Seq(Category), cs # <<>>
    PROVE  /\ Offset(cs, 1) = 0
           /\ \A c \in 2 .. Len(cs) : Offset(cs, c) = Offset(cs, c - 1) + cs[c - 1].prompts
           /\ \A c \in 1 .. Len(cs) : Offset(cs, c) \in Nat
<1>1. PICK N : N = Len(cs)
  OBVIOUS
<1>2. /\ N \in Nat \ {0} /\ DOMAIN cs = 1 .. N
      /\ \A c \in 1 .. N : cs[c].prompts \in Nat
  <2>1. N \in Nat \ {0} /\ DOMAIN cs = 1 .. N /\ \A c \in 1 .. N : cs[c] \in Category
    BY <1>1
  <2>2. QED
    BY <2>1 DEF Category
<1>3. PICK F : F = [x \in (2 .. N) \X Nat |-> x[2] + cs[x[1] - 1].prompts]
  OBVIOUS
<1>4. F \in [(2 .. N) \X Nat -> Nat]
  <2>1. \A c \in 2 .. N, n \in Nat : n + cs[c - 1].prompts \in Nat
    BY <1>2
  <2>2. QED
    BY <1>3, <2>1
<1>5. PICK g \in [1 .. N -> Nat] :
          \A c \in 1 .. N : g[c] = IF c = 1 THEN 0 ELSE F[<<c, g[c - 1]>>]
  <2>1. N \in Nat /\ 0 \in Nat
    BY <1>2
  <2>2. BuiltOver(Nat, 0, N, F)
    BY <1>4, <2>1, Recursion
  <2>3. QED
    BY <2>2 DEF BuiltOver
<1>6. g = [c \in DOMAIN cs |-> IF c = 1 THEN 0 ELSE g[c - 1] + cs[c - 1].prompts]
  <2>1. ASSUME NEW c \in 1 .. N, c # 1
        PROVE  g[c] = g[c - 1] + cs[c - 1].prompts
    <3>1. c \in 2 .. N /\ c - 1 \in 1 .. N /\ g[c - 1] \in Nat
      BY <1>2, <1>5, <2>1
    <3>2. F[<<c, g[c - 1]>>] = g[c - 1] + cs[c - 1].prompts
      BY <1>3, <3>1
    <3>3. QED
      BY <1>5, <2>1, <3>2
  <2>2. \A c \in 1 .. N : g[c] = IF c = 1 THEN 0 ELSE g[c - 1] + cs[c - 1].prompts
    BY <1>5, <2>1
  <2>3. QED
    BY <1>2, <1>5, <2>2
<1>7. PICK h : h = CHOOSE before :
          before = [d \in DOMAIN cs |-> IF d = 1 THEN 0 ELSE before[d - 1] + cs[d - 1].prompts]
  OBVIOUS
<1>8. h = [d \in DOMAIN cs |-> IF d = 1 THEN 0 ELSE h[d - 1] + cs[d - 1].prompts]
  BY <1>6, <1>7
<1>9. \A c : Offset(cs, c) = h[c]
  BY <1>7 DEF Offset
<1>10. h[1] = 0 /\ \A c \in 2 .. N : h[c] = h[c - 1] + cs[c - 1].prompts
  <2>1. \A c \in 1 .. N : h[c] = IF c = 1 THEN 0 ELSE h[c - 1] + cs[c - 1].prompts
    BY <1>2, <1>8
  <2>2. QED
    BY <1>2, <2>1
<1>11. \A c \in 1 .. N : h[c] \in Nat
  <2>1. PICK S : S = {n \in Nat : n \in 1 .. N => h[n] \in Nat}
    OBVIOUS
  <2>2. 0 \in S
    BY <2>1
  <2>3. ASSUME NEW n \in Nat, n \in S
        PROVE  n + 1 \in S
    <3>1. CASE n = 0
      BY <1>10, <2>1, <3>1
    <3>2. CASE n # 0 /\ n + 1 <= N
      <4>1. n + 1 \in 2 .. N /\ n \in 1 .. N /\ n + 1 - 1 = n
        BY <1>2, <3>2
      <4>2. h[n] \in Nat /\ h[n + 1] = h[n] + cs[n].prompts
        BY <1>10, <2>1, <2>3, <4>1
      <4>3. QED
        BY <1>2, <2>1, <4>1, <4>2
    <3>3. CASE n + 1 > N
      BY <1>2, <2>1, <3>3
    <3>4. QED
      BY <1>2, <3>1, <3>2, <3>3
  <2>4. Nat \subseteq S
    BY <2>2, <2>3, Induction
  <2>5. QED
    BY <1>2, <2>1, <2>4
<1>12. QED
  BY <1>1, <1>9, <1>10, <1>11


\* Cutting the rows by offset and count finds each category's own prompts.
LEMMA Cut ==
    ASSUME NEW cs \in Seq(Category), cs # <<>>
    PROVE  \A c \in 1 .. Len(cs) : \A i \in 1 .. cs[c].prompts :
              /\ Offset(cs, c) + i \in DOMAIN FlattenInputIDs(cs)
              /\ FlattenInputIDs(cs)[Offset(cs, c) + i] = <<c, i>>
<1>1. PICK N, o, m : /\ N = Len(cs)
                     /\ o = [c \in 1 .. N |-> Offset(cs, c)]
                     /\ m = [c \in 1 .. N |-> cs[c].prompts]
  OBVIOUS
<1>2. N \in Nat \ {0} /\ m \in [1 .. N -> Nat] /\ o \in [1 .. N -> Nat]
  <2>1. N \in Nat \ {0} /\ \A c \in 1 .. N : cs[c] \in Category
    BY <1>1
  <2>2. \A c \in 1 .. N : cs[c].prompts \in Nat
    BY <2>1 DEF Category
  <2>3. \A c \in 1 .. N : Offset(cs, c) \in Nat
    BY <1>1, OffsetsBuilt
  <2>4. QED
    BY <1>1, <2>1, <2>2, <2>3
<1>3. o[1] = 0 /\ \A c \in 2 .. N : o[c] = o[c - 1] + m[c - 1]
  <2>1. Offset(cs, 1) = 0 /\ \A c \in 2 .. N : Offset(cs, c) = Offset(cs, c - 1) + cs[c - 1].prompts
    BY <1>1, OffsetsBuilt
  <2>2. QED
    BY <1>1, <1>2, <2>1
<1>4. PICK f : /\ FlattenInputIDs(cs) = f[N]
               /\ \A c \in 1 .. N : f[c] \in Seq(Nat \X Nat)
               /\ f[1] = Prompts(cs, 1)
               /\ \A c \in 2 .. N : f[c] = f[c - 1] \o Prompts(cs, c)
  BY <1>1, RowsBuilt
<1>5. ASSUME NEW c \in 1 .. N
      PROVE  Prompts(cs, c) = [i \in 1 .. m[c] |-> <<c, i>>]
  BY <1>1 DEF Prompts
<1>6. PICK S : S = {n \in Nat : n \in 1 .. N =>
          /\ Len(f[n]) = o[n] + m[n]
          /\ \A c \in 1 .. n : \A i \in 1 .. m[c] :
                o[c] + i \in 1 .. Len(f[n]) /\ f[n][o[c] + i] = <<c, i>>}
  OBVIOUS
<1>7. 0 \in S
  BY <1>6
<1>8. ASSUME NEW n \in Nat, n \in S
      PROVE  n + 1 \in S
  <2> SUFFICES ASSUME n + 1 \in 1 .. N
               PROVE  /\ Len(f[n + 1]) = o[n + 1] + m[n + 1]
                      /\ \A c \in 1 .. n + 1 : \A i \in 1 .. m[c] :
                            /\ o[c] + i \in 1 .. Len(f[n + 1])
                            /\ f[n + 1][o[c] + i] = <<c, i>>
      BY <1>6
  <2>1. PICK k, own : k = n + 1 /\ own = [i \in 1 .. m[k] |-> <<k, i>>]
    OBVIOUS
  <2>2. k \in 1 .. N /\ m[k] \in Nat /\ o[k] \in Nat
    BY <1>2, <2>1
  <2>3. /\ own \in Seq(Nat \X Nat) /\ Len(own) = m[k]
        /\ \A i \in 1 .. m[k] : own[i] = <<k, i>>
    <3>1. PICK M \in Nat : M = m[k]
      BY <2>2
    <3>2. own = [i \in 1 .. M |-> <<k, i>>]
      BY <2>1, <3>1
    <3>3. own \in [1 .. M -> Nat \X Nat]
      BY <2>2, <3>2
    <3>4. own \in Seq(Nat \X Nat) /\ Len(own) = M
      BY <3>3
    <3>5. \A i \in 1 .. M : own[i] = <<k, i>>
      BY <3>2
    <3>6. QED
      BY <3>1, <3>4, <3>5
  <2>4. Prompts(cs, k) = own
    BY <1>5, <2>1, <2>2
  <2>5. CASE n = 0
    <3>1. k = 1 /\ f[k] = own /\ o[k] = 0
      <4>1. k = 1 /\ o[1] = 0 /\ f[1] = Prompts(cs, 1)
        BY <1>3, <1>4, <2>1, <2>5
      <4>2. QED
        BY <2>4, <4>1
    <3>2. Len(f[k]) = o[k] + m[k]
      BY <2>2, <2>3, <3>1
    <3>3. ASSUME NEW c \in 1 .. k, NEW i \in 1 .. m[c]
          PROVE  o[c] + i \in 1 .. Len(f[k]) /\ f[k][o[c] + i] = <<c, i>>
      <4>1. c = k /\ o[c] + i = i
        BY <3>1
      <4>2. QED
        BY <2>2, <2>3, <3>1, <4>1
    <3>4. QED
      BY <2>1, <3>2, <3>3
  <2>6. CASE n # 0
    <3>1. n \in 1 .. N /\ k \in 2 .. N /\ k - 1 = n
      BY <1>2, <2>1, <2>2, <2>6
    <3>2. PICK old : old = f[n]
      OBVIOUS
    <3>3. /\ old \in Seq(Nat \X Nat) /\ Len(old) = o[n] + m[n]
          /\ \A c \in 1 .. n : \A i \in 1 .. m[c] :
                o[c] + i \in 1 .. Len(old) /\ old[o[c] + i] = <<c, i>>
      BY <1>4, <1>6, <1>8, <3>1, <3>2
    <3>4. f[k] = old \o own
      BY <1>4, <2>4, <3>1, <3>2
    <3>5. o[k] = Len(old)
      BY <1>3, <3>1, <3>3
    <3>6. Len(f[k]) = Len(old) + m[k]
      <4>1. old \in Seq(Nat \X Nat) /\ own \in Seq(Nat \X Nat)
        BY <2>3, <3>3
      <4>2. Len(old \o own) = Len(old) + Len(own)
        BY <4>1
      <4>3. QED
        BY <2>3, <3>4, <4>2
    <3>7. ASSUME NEW c \in 1 .. k, NEW i \in 1 .. m[c]
          PROVE  o[c] + i \in 1 .. Len(f[k]) /\ f[k][o[c] + i] = <<c, i>>
      <4>1. CASE c \in 1 .. n
        <5>1. PICK j : j = o[c] + i
          OBVIOUS
        <5>2. j \in 1 .. Len(old) /\ old[j] = <<c, i>>
          BY <3>3, <4>1, <5>1
        <5>3. (old \o own)[j] = old[j]
          BY <2>3, <3>3, <5>2
        <5>4. j \in 1 .. Len(f[k])
          BY <2>2, <3>3, <3>6, <5>2
        <5>5. QED
          BY <3>4, <5>1, <5>2, <5>3, <5>4
      <4>2. CASE c = k
        <5>1. i \in 1 .. m[k]
          BY <4>2
        <5>2. (old \o own)[Len(old) + i] = own[i]
          <6>1. old \in Seq(Nat \X Nat) /\ own \in Seq(Nat \X Nat)
            BY <2>3, <3>3
          <6>2. i \in 1 .. Len(own)
            BY <2>3, <5>1
          <6>3. QED
            BY <6>1, <6>2
        <5>3. Len(old) + i \in 1 .. Len(f[k])
          BY <2>2, <3>3, <3>6, <5>1
        <5>4. own[i] = <<c, i>>
          BY <2>3, <4>2, <5>1
        <5>5. QED
          BY <3>4, <3>5, <4>2, <5>2, <5>3, <5>4
      <4>3. QED
        BY <2>1, <4>1, <4>2
    <3>8. QED
      BY <2>1, <3>5, <3>6, <3>7
  <2>7. QED
    BY <2>5, <2>6
<1>9. Nat \subseteq S
  BY <1>7, <1>8, Induction
<1>10. N \in S /\ N \in 1 .. N
  BY <1>2, <1>9
<1>11. ASSUME NEW c \in 1 .. N, NEW i \in 1 .. m[c]
       PROVE  o[c] + i \in 1 .. Len(f[N]) /\ f[N][o[c] + i] = <<c, i>>
  BY <1>6, <1>10
<1>12. DOMAIN f[N] = 1 .. Len(f[N])
  BY <1>4, <1>10
<1>13. QED
  BY <1>1, <1>4, <1>11, <1>12

\* The prompts of all categories, by category and position.
LEMMA PromptsOf ==
    ASSUME NEW cs
    PROVE  /\ \A c \in DOMAIN cs : \A i \in 1 .. cs[c].prompts : <<c, i>> \in AllPrompts(cs)
           /\ \A pr \in AllPrompts(cs) :
                 \E c \in DOMAIN cs : \E i \in 1 .. cs[c].prompts : pr = <<c, i>>
<1>1. ASSUME NEW c
      PROVE  ToSet(Prompts(cs, c)) = {<<c, i>> : i \in 1 .. cs[c].prompts}
  BY DEF ToSet, Prompts
<1>2. AllPrompts(cs) = UNION {{<<c, i>> : i \in 1 .. cs[c].prompts} : c \in DOMAIN cs}
  BY <1>1 DEF AllPrompts
<1>3. QED
  BY <1>2

\* A name is that of a category, the last of which counts.
LEMMA Named ==
    ASSUME NEW cs \in Seq(Category), NEW n \in NamesOf(cs)
    PROVE  LastNamed(cs, n) \in DOMAIN cs
<1>1. DOMAIN cs = 1 .. Len(cs) /\ Len(cs) \in Nat
  OBVIOUS
<1>2. PICK S : S = {c \in DOMAIN cs : cs[c].name = n}
  OBVIOUS
<1>3. S \in SUBSET (0 .. Len(cs)) /\ S # {}
  BY <1>1, <1>2 DEF NamesOf
<1>4. Max(S) \in S
  BY <1>1, <1>3, MaxIsMax
<1>5. QED
  BY <1>2, <1>4 DEF LastNamed

\* Of one frame, a name gets the best score of the prompts that count for it.
LEMMA BestOfAFrame ==
    ASSUME NEW cs \in Configs, NEW said \in [AllPrompts(cs) -> Scores],
           NEW logits,
           logits = [k \in DOMAIN FlattenInputIDs(cs) |-> said[FlattenInputIDs(cs)[k]]],
           NEW n \in NamesOf(cs), NEW c, c = LastNamed(cs, n)
    PROVE  /\ Classify(logits, cs)[n] \in Scores
           /\ \A i \in 1 .. cs[c].prompts : said[<<c, i>>] <= Classify(logits, cs)[n]
           /\ \/ Classify(logits, cs)[n] = 0
              \/ \E i \in 1 .. cs[c].prompts : said[<<c, i>>] = Classify(logits, cs)[n]
<1>1. /\ cs \in Seq(Category) /\ cs # <<>> /\ DOMAIN cs = 1 .. Len(cs)
      /\ MaxScore \in Nat /\ c \in DOMAIN cs
  BY ScoringAssumption, Named
<1>2. PICK m : m = cs[c].prompts
  OBVIOUS
<1>3. ASSUME NEW i \in 1 .. m
      PROVE  logits[Offset(cs, c) + i] = said[<<c, i>>] /\ said[<<c, i>>] \in Scores
  <2>1. /\ Offset(cs, c) + i \in DOMAIN FlattenInputIDs(cs)
        /\ FlattenInputIDs(cs)[Offset(cs, c) + i] = <<c, i>>
    BY <1>1, <1>2, Cut
  <2>2. <<c, i>> \in AllPrompts(cs)
    BY <1>1, <1>2, PromptsOf
  <2>3. QED
    BY <2>1, <2>2
<1>4. PICK S : S = {0} \cup {said[<<c, i>>] : i \in 1 .. m}
  OBVIOUS
<1>5. S \in SUBSET (0 .. MaxScore) /\ S # {}
  <2>1. \A i \in 1 .. m : said[<<c, i>>] \in 0 .. MaxScore
    BY <1>3 DEF Scores
  <2>2. 0 \in 0 .. MaxScore
    BY <1>1
  <2>3. QED
    BY <1>4, <2>1, <2>2
<1>6. Max(S) \in S /\ \A y \in S : y <= Max(S)
  BY <1>1, <1>5, MaxIsMax
<1>7. Classify(logits, cs)[n] = Max(S)
  <2>1. {logits[Offset(cs, c) + i] : i \in 1 .. m} = {said[<<c, i>>] : i \in 1 .. m}
    BY <1>3
  <2>2. Classify(logits, cs)[n]
            = Max({0} \cup {logits[Offset(cs, c) + i] : i \in 1 .. cs[c].prompts})
    BY DEF Classify
  <2>3. QED
    BY <1>2, <1>4, <2>1, <2>2
<1>8. \A i \in 1 .. m : said[<<c, i>>] \in S
  BY <1>4
<1>9. Max(S) = 0 \/ \E i \in 1 .. m : said[<<c, i>>] = Max(S)
  BY <1>4, <1>6
<1>10. QED
  BY <1>2, <1>5, <1>6, <1>7, <1>8, <1>9 DEF Scores

\* x is the best of the first m prompts of c on a frame, each as a float32.
Best(x, said, c, m) ==
    /\ x \in Scores
    /\ \A i \in 1 .. m : Single[said[<<c, i>>]] <= x
    /\ x = 0 \/ \E i \in 1 .. m : Single[said[<<c, i>>]] = x

\* The best score of a name, as a float32, is the best of its prompts as float32:
\* rounding keeps the order of scores.
LEMMA BestAsSingle ==
    ASSUME NEW cs \in Configs, NEW said \in [AllPrompts(cs) -> Scores],
           NEW logits,
           logits = [k \in DOMAIN FlattenInputIDs(cs) |-> said[FlattenInputIDs(cs)[k]]],
           NEW n \in NamesOf(cs), NEW c, c = LastNamed(cs, n)
    PROVE  Best(Single[Classify(logits, cs)[n]], said, c, cs[c].prompts)
<1>1. c \in DOMAIN cs
  BY ScoringAssumption, Named
<1>2. PICK score : score = Classify(logits, cs)[n]
  OBVIOUS
<1>3. /\ score \in Scores
      /\ \A i \in 1 .. cs[c].prompts : said[<<c, i>>] <= score
      /\ score = 0 \/ \E i \in 1 .. cs[c].prompts : said[<<c, i>>] = score
  BY <1>2, BestOfAFrame
<1>4. \A i \in 1 .. cs[c].prompts : said[<<c, i>>] \in Scores
  BY <1>1, PromptsOf
<1>5. \A i \in 1 .. cs[c].prompts : Single[said[<<c, i>>]] <= Single[score]
  BY <1>3, <1>4, ScoringAssumption
<1>6. Single[score] \in Scores /\ (score = 0 => Single[score] = 0)
  BY <1>3, ScoringAssumption
<1>7. QED
  BY <1>2, <1>3, <1>5, <1>6 DEF Best

\* The better of two scores.
LEMMA Better ==
    ASSUME NEW a \in Scores, NEW b \in Scores
    PROVE  /\ Max({a, b}) \in Scores /\ Max({a, b}) \in {a, b}
           /\ a <= Max({a, b}) /\ b <= Max({a, b})
<1>1. MaxScore \in Nat
  BY ScoringAssumption
<1>2. PICK S : S = {a, b}
  OBVIOUS
<1>3. S \in SUBSET (0 .. MaxScore) /\ S # {}
  BY <1>2 DEF Scores
<1>4. Max(S) \in S /\ \A y \in S : y <= Max(S)
  BY <1>1, <1>3, MaxIsMax
<1>5. QED
  BY <1>2, <1>3, <1>4

\* The score of a name bounds what the prompts that count for it reached so far
\* and, unless it is still 0, one of them reached it.
ScoredBy(n, c) ==
    /\ \A k \in DOMAIN frames : \A i \in 1 .. cats[c].prompts :
          Single[frames[k][<<c, i>>]] <= aggScores[n]
    /\ \/ aggScores[n] = 0
       \/ \E k \in DOMAIN frames : \E i \in 1 .. cats[c].prompts :
             Single[frames[k][<<c, i>>]] = aggScores[n]

Scored == \A n \in NamesOf(cats) : ScoredBy(n, LastNamed(cats, n))

Answered ==
    result # NoResult =>
        /\ frames # <<>> /\ result.flagged = Triggered
        /\ result.decision <=> Triggered # {}

ScoreTypes ==
    /\ cats \in Configs
    /\ frames \in Seq([AllPrompts(cats) -> Scores])
    /\ aggScores \in [NamesOf(cats) -> Scores]

ScoreInv == ScoreTypes /\ Scored /\ Answered

\* What depends on the configuration only.
LEMMA SameConfig ==
    ASSUME cats' = cats
    PROVE  /\ AllPrompts(cats)' = AllPrompts(cats) /\ NamesOf(cats)' = NamesOf(cats)
           /\ \A n : LastNamed(cats, n)' = LastNamed(cats, n)
BY DEF AllPrompts, Prompts, NamesOf, LastNamed

\* What the answer leaves alone.
LEMMA SameScores ==
    ASSUME UNCHANGED <<cats, frames, aggScores>>
    PROVE  Triggered' = Triggered /\ (ScoreTypes' <=> ScoreTypes) /\ (Scored' <=> Scored)
<1>1. Triggered' = Triggered
  BY DEF Triggered
<1>2. ScoreTypes' <=> ScoreTypes
  BY SameConfig DEF ScoreTypes
<1>3. \A n, c : ScoredBy(n, c)' <=> ScoredBy(n, c)
  BY DEF ScoredBy
<1>4. Scored' <=> Scored
  BY <1>3 DEF Scored, NamesOf, LastNamed
<1>5. QED
  BY <1>1, <1>2, <1>4

LEMMA ScoreFrameStep == ScoreInv /\ ScoreFrame => ScoreInv'
<1> SUFFICES ASSUME ScoreInv, ScoreFrame
             PROVE  ScoreInv'
    OBVIOUS
<1>1. PICK said \in [AllPrompts(cats) -> Scores] :
          LET rows   == FlattenInputIDs(cats)
              logits == [k \in DOMAIN rows |-> said[rows[k]]]
          IN  /\ frames' = Append(frames, said)
              /\ aggScores' = Aggregate(aggScores, Classify(logits, cats))
  BY DEF ScoreFrame
<1>2. PICK logits : logits =
          [k \in DOMAIN FlattenInputIDs(cats) |-> said[FlattenInputIDs(cats)[k]]]
  OBVIOUS
<1>3. PICK best : best =
          [n \in NamesOf(cats) |-> Single[Classify(logits, cats)[n]]]
  OBVIOUS
<1>4. /\ frames' = Append(frames, said)
      /\ aggScores' = Aggregate(aggScores, Classify(logits, cats))
      /\ cats' = cats /\ result = NoResult /\ result' = NoResult
  BY <1>1, <1>2 DEF ScoreFrame
<1>5. /\ cats \in Configs /\ cats \in Seq(Category)
      /\ frames \in Seq([AllPrompts(cats) -> Scores])
      /\ aggScores \in [NamesOf(cats) -> Scores] /\ Scored
  BY ScoringAssumption DEF ScoreInv, ScoreTypes
<1>6. ASSUME NEW n \in NamesOf(cats), NEW c, c = LastNamed(cats, n)
      PROVE  /\ best[n] \in Scores /\ c \in DOMAIN cats
             /\ \A i \in 1 .. cats[c].prompts : Single[said[<<c, i>>]] <= best[n]
             /\ best[n] = 0 \/ \E i \in 1 .. cats[c].prompts : Single[said[<<c, i>>]] = best[n]
  <2>1. best[n] = Single[Classify(logits, cats)[n]]
    BY <1>3
  <2>2. c \in DOMAIN cats
    BY <1>5, <1>6, Named
  <2>3. Best(Single[Classify(logits, cats)[n]], said, c, cats[c].prompts)
    <3>1. cats \in Configs /\ c = LastNamed(cats, n)
      BY <1>5, <1>6
    <3>2. QED
      BY <1>2, <3>1, BestAsSingle
  <2>4. QED
    BY <2>1, <2>2, <2>3 DEF Best
<1>7. ASSUME NEW n \in NamesOf(cats)
      PROVE  /\ aggScores'[n] \in Scores /\ aggScores'[n] \in {aggScores[n], best[n]}
             /\ aggScores[n] <= aggScores'[n] /\ best[n] <= aggScores'[n]
  <2>1. aggScores[n] \in Scores /\ best[n] \in Scores
    BY <1>5, <1>6
  <2>2. aggScores'[n] = Max({aggScores[n], best[n]})
    BY <1>3, <1>4, <1>5 DEF Aggregate
  <2>3. QED
    BY <2>1, <2>2, Better
<1>8. frames' \in Seq([AllPrompts(cats) -> Scores])
  BY <1>1, <1>4, <1>5
<1>9. ScoreTypes'
  <2>1. aggScores' \in [NamesOf(cats) -> Scores]
    BY <1>4, <1>5, <1>7 DEF Aggregate
  <2>2. QED
    BY <1>4, <1>5, <1>8, <2>1, SameConfig DEF ScoreTypes
<1>10. /\ DOMAIN frames' = 1 .. Len(frames) + 1 /\ Len(frames) \in Nat
       /\ DOMAIN frames = 1 .. Len(frames)
       /\ frames'[Len(frames) + 1] = said
       /\ \A k \in DOMAIN frames : frames'[k] = frames[k]
  BY <1>4, <1>5
<1>11. Scored'
  <2> SUFFICES ASSUME NEW n \in NamesOf(cats), NEW c, c = LastNamed(cats, n)
               PROVE  ScoredBy(n, c)'
      BY <1>4, SameConfig DEF Scored, ScoredBy
  <2>0. ScoredBy(n, c)
    BY <1>5 DEF Scored
  <2>1. ASSUME NEW k \in DOMAIN frames', NEW i \in 1 .. cats[c].prompts
        PROVE  Single[frames'[k][<<c, i>>]] <= aggScores'[n]
    <3>0. /\ aggScores[n] \in Int /\ aggScores'[n] \in Int /\ best[n] \in Int
          /\ <<c, i>> \in AllPrompts(cats)
      BY <1>5, <1>6, <1>7, PromptsOf DEF Scores
    <3>1. CASE k = Len(frames) + 1
      <4>1. Single[said[<<c, i>>]] <= best[n] /\ Single[said[<<c, i>>]] \in Scores
        BY <1>6, <3>0, ScoringAssumption
      <4>2. QED
        BY <1>7, <1>10, <3>0, <3>1, <4>1 DEF Scores
    <3>2. CASE k \in DOMAIN frames
      <4>1. /\ Single[frames[k][<<c, i>>]] <= aggScores[n]
            /\ frames[k] \in [AllPrompts(cats) -> Scores]
        BY <1>5, <2>0, <3>2 DEF ScoredBy
      <4>2. Single[frames[k][<<c, i>>]] \in Scores
        BY <3>0, <4>1, ScoringAssumption
      <4>3. QED
        BY <1>7, <1>10, <3>0, <3>2, <4>1, <4>2 DEF Scores
    <3>3. QED
      BY <1>10, <3>1, <3>2
  <2>2. \/ aggScores'[n] = 0
        \/ \E k \in DOMAIN frames' : \E i \in 1 .. cats[c].prompts :
              Single[frames'[k][<<c, i>>]] = aggScores'[n]
    <3>1. CASE aggScores'[n] = aggScores[n] /\ aggScores[n] # 0
      <4>1. PICK k \in DOMAIN frames, i \in 1 .. cats[c].prompts :
                Single[frames[k][<<c, i>>]] = aggScores[n]
        BY <2>0, <3>1 DEF ScoredBy
      <4>2. k \in DOMAIN frames' /\ frames'[k] = frames[k]
        BY <1>10
      <4>3. QED
        BY <3>1, <4>1, <4>2
    <3>2. CASE aggScores'[n] = best[n] /\ best[n] # 0
      <4>1. PICK i \in 1 .. cats[c].prompts : Single[said[<<c, i>>]] = best[n]
        BY <1>6, <3>2
      <4>2. Len(frames) + 1 \in DOMAIN frames'
        BY <1>10
      <4>3. QED
        BY <1>10, <3>2, <4>1, <4>2
    <3>3. QED
      BY <1>7, <3>1, <3>2
  <2>3. QED
    BY <1>4, <2>1, <2>2 DEF ScoredBy
<1>12. Answered'
  BY <1>4 DEF Answered, NoResult
<1>13. QED
  BY <1>9, <1>11, <1>12 DEF ScoreInv

\* As each category has a prompt and the answer needs a frame, a category's
\* threshold is reached by the score of its name exactly when a prompt reached it.
LEMMA TriggeredIsReached ==
    ASSUME ScoreTypes, Scored, frames # <<>>
    PROVE  Triggered = {cats[c].name : c \in {d \in DOMAIN cats : Reached(d)}}
<1>1. /\ cats \in Seq(Category) /\ frames \in Seq([AllPrompts(cats) -> Scores])
      /\ aggScores \in [NamesOf(cats) -> Scores]
  BY ScoringAssumption DEF ScoreTypes
<1>2. ASSUME NEW c \in DOMAIN cats
      PROVE  aggScores[cats[c].name] >= cats[c].threshold <=> Reached(c)
  <2>1. PICK n, d : n = cats[c].name /\ d = LastNamed(cats, n)
    OBVIOUS
  <2>2. n \in NamesOf(cats) /\ d \in DOMAIN cats /\ ScoredBy(n, d)
    <3>1. n \in NamesOf(cats)
      BY <2>1 DEF NamesOf
    <3>2. QED
      BY <1>1, <2>1, <3>1, Named DEF Scored
  <2>3. /\ cats[c].threshold \in Nat /\ cats[d].prompts \in Nat \ {0}
        /\ aggScores[n] \in Nat
    <3>1. cats[c] \in Category /\ cats[d] \in Category /\ aggScores[n] \in Scores
      BY <1>1, <2>2
    <3>2. QED
      BY <3>1 DEF Category, Scores
  <2>4. ASSUME NEW i \in 1 .. cats[d].prompts, NEW k \in DOMAIN frames
        PROVE  /\ Single[frames[k][<<d, i>>]] \in Nat
               /\ Single[frames[k][<<d, i>>]] <= aggScores[n]
    <3>1. <<d, i>> \in AllPrompts(cats) /\ frames[k] \in [AllPrompts(cats) -> Scores]
      BY <1>1, <2>2, PromptsOf
    <3>2. Single[frames[k][<<d, i>>]] \in Scores
      BY <3>1, ScoringAssumption
    <3>3. QED
      BY <2>2, <3>2 DEF Scores, ScoredBy
  <2>5. \E k \in DOMAIN frames : \E i \in 1 .. cats[d].prompts :
            Single[frames[k][<<d, i>>]] = aggScores[n]
    <3>1. CASE aggScores[n] = 0
      <4>1. 1 \in DOMAIN frames /\ 1 \in 1 .. cats[d].prompts
        BY <1>1, <2>3
      <4>2. Single[frames[1][<<d, 1>>]] \in Nat /\ Single[frames[1][<<d, 1>>]] <= aggScores[n]
        BY <2>4, <4>1
      <4>3. Single[frames[1][<<d, 1>>]] = aggScores[n]
        BY <3>1, <4>2
      <4>4. QED
        BY <4>1, <4>3
    <3>2. CASE aggScores[n] # 0
      BY <2>2, <3>2 DEF ScoredBy
    <3>3. QED
      BY <3>1, <3>2
  <2>6. Reached(c) <=> \E k \in DOMAIN frames : \E i \in 1 .. cats[d].prompts :
                           Single[frames[k][<<d, i>>]] >= cats[c].threshold
    BY <2>1 DEF Reached
  <2>7. ASSUME aggScores[n] >= cats[c].threshold
        PROVE  Reached(c)
    BY <2>5, <2>6, <2>7
  <2>8. ASSUME Reached(c)
        PROVE  aggScores[n] >= cats[c].threshold
    <3>1. PICK k \in DOMAIN frames, i \in 1 .. cats[d].prompts :
              Single[frames[k][<<d, i>>]] >= cats[c].threshold
      BY <2>6, <2>8
    <3>2. QED
      BY <2>3, <2>4, <3>1
  <2>9. QED
    BY <2>1, <2>7, <2>8
<1>3. {d \in DOMAIN cats : aggScores[cats[d].name] >= cats[d].threshold}
          = {d \in DOMAIN cats : Reached(d)}
  BY <1>2
<1>4. QED
  BY <1>3 DEF Triggered
-----------------------------------------------------------------------------
\* Whatever the categories, their names, prompts and thresholds, whatever a
\* float32 can tell apart, and however the model scores each frame: content is
\* blocked exactly when a frame reached, as a float32 and on a prompt of the last
\* category of the name, a threshold (handler.go, lines 185-218, and the cut of
\* Classify).
THEOREM VerdictsHaveAPrompt == Spec => []BlockedByAPrompt
<1>1. Init => ScoreInv
  <2> SUFFICES ASSUME Init
               PROVE  ScoreInv
      OBVIOUS
  <2>1. cats \in Configs /\ frames = <<>> /\ aggScores = [n \in NamesOf(cats) |-> 0]
        /\ result = NoResult
    BY DEF Init, ScoringInit
  <2>2. 0 \in Scores
    BY ScoringAssumption DEF Scores
  <2>3. ScoreTypes
    BY <2>1, <2>2 DEF ScoreTypes
  <2>4. Scored /\ Answered
    BY <2>1 DEF Scored, ScoredBy, Answered
  <2>5. QED
    BY <2>3, <2>4 DEF ScoreInv
<1>2. ScoreInv /\ [Next]_vars => ScoreInv'
  <2> SUFFICES ASSUME ScoreInv, [Next]_vars
               PROVE  ScoreInv'
      OBVIOUS
  <2>1. CASE ScoreFrame
    BY <2>1, ScoreFrameStep
  <2>2. CASE Respond
    <3>1. /\ UNCHANGED <<cats, frames, aggScores>> /\ frames # <<>>
          /\ result'.flagged = Triggered /\ (result'.decision <=> Triggered # {})
      BY <2>2 DEF Respond
    <3>2. Triggered' = Triggered /\ ScoreTypes' /\ Scored'
      BY <3>1, SameScores DEF ScoreInv
    <3>3. Answered'
      BY <3>1, <3>2 DEF Answered
    <3>4. QED
      BY <3>2, <3>3 DEF ScoreInv
  <2>3. CASE UNCHANGED scoringVars
    <3>1. UNCHANGED <<cats, frames, aggScores, result>>
      BY <2>3 DEF scoringVars
    <3>2. Triggered' = Triggered /\ ScoreTypes' /\ Scored'
      BY <3>1, SameScores DEF ScoreInv
    <3>3. Answered'
      BY <3>1, <3>2 DEF ScoreInv, Answered, NoResult
    <3>4. QED
      BY <3>2, <3>3 DEF ScoreInv
  <2>4. QED
    BY <2>1, <2>2, <2>3 DEF Next, vars
<1>3. ScoreInv => BlockedByAPrompt
  <2> SUFFICES ASSUME ScoreInv, result # NoResult
               PROVE  LET reached == {cats[c].name : c \in {d \in DOMAIN cats : Reached(d)}}
                      IN  result.flagged = reached /\ (result.decision <=> reached # {})
      BY DEF BlockedByAPrompt
  <2>1. ScoreTypes /\ Scored /\ frames # <<>> /\ result.flagged = Triggered
        /\ (result.decision <=> Triggered # {})
    BY DEF ScoreInv, Answered
  <2>2. QED
    BY <2>1, TriggeredIsReached
<1>4. QED
  BY <1>1, <1>2, <1>3, PTL DEF Spec
=============================================================================
