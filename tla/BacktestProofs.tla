--------------------------- MODULE BacktestProofs ---------------------------
(***************************************************************************)
(* What a backtest promises.                                               *)
(***************************************************************************)
EXTENDS Backtest, SequenceTheorems, FiniteSetTheorems, WellFoundedInduction, TLAPS

-----------------------------------------------------------------------------
(* Recursion over the places of a sequence                                 *)

LEMMA UpThroughNat ==
    ASSUME NEW T, 0 \in T, \A n \in Nat : n \in T => n + 1 \in T
    PROVE  Nat \subseteq T
<1> DEFINE Rest == Nat \ T
<1> SUFFICES ASSUME Rest # {} PROVE FALSE
  OBVIOUS
<1>1. PICK d \in Rest : \A e \in Rest : ~(<<e, d>> \in OpToRel(<, Nat))
  BY NatLessThanWellFounded, WFMin
<1>2. d - 1 \in Nat /\ d - 1 < d
  OBVIOUS
<1>3. d - 1 \notin Rest
  BY <1>1, <1>2 DEF OpToRel
<1> QED
  BY <1>2, <1>3

LEMMA UpTo ==
    ASSUME NEW n \in Nat, NEW T, 0 \in T, \A i \in 1..n : i - 1 \in T => i \in T
    PROVE  0..n \subseteq T
<1>1. PICK U : U = {i \in Nat : i <= n => i \in T}
  OBVIOUS
<1>2. 0 \in U
  BY <1>1
<1>3. ASSUME NEW i \in Nat, i \in U PROVE i + 1 \in U
  <2>1. i + 1 <= n => i + 1 \in 1..n /\ (i + 1) - 1 = i /\ i <= n
    OBVIOUS
  <2> QED
    BY <1>1, <1>3, <2>1
<1>4. Nat \subseteq U
  BY <1>2, <1>3, UpThroughNat
<1> QED
  BY <1>1, <1>4

\* A function is defined by its first value and a step from each to the next.
Iterates(f, n, S, b, h) ==
    f \in [0..n -> S] /\ f[0] = b /\ \A i \in 1..n : f[i] = h[i][f[i - 1]]

LEMMA Recursion ==
    ASSUME NEW n \in Nat, NEW S, NEW b \in S, NEW h \in [1..n -> [S -> S]]
    PROVE  \E f : Iterates(f, n, S, b, h)
<1> DEFINE Good(f, m) == f[0] = b /\ \A i \in 1..m : f[i] = h[i][f[i - 1]]
<1>1. PICK T : T = {m \in 0..n : \E f \in [0..n -> S] : Good(f, m)}
  OBVIOUS
<1>2. 0 \in T
  <2>1. PICK f : f = [i \in 0..n |-> b]
    OBVIOUS
  <2>2. f \in [0..n -> S] /\ f[0] = b /\ \A i \in 1..0 : FALSE
    BY <2>1
  <2> QED
    BY <1>1, <2>2
<1>3. ASSUME NEW m \in 1..n, m - 1 \in T PROVE m \in T
  <2>1. PICK f \in [0..n -> S] : Good(f, m - 1)
    BY <1>1, <1>3
  <2>2. PICK g : g = [f EXCEPT ![m] = h[m][f[m - 1]]]
    OBVIOUS
  <2>3. f[m - 1] \in S /\ h[m] \in [S -> S]
    OBVIOUS
  <2>4. g \in [0..n -> S]
    BY <2>2, <2>3
  <2>5. g[0] = b
    BY <2>1, <2>2
  <2>6. ASSUME NEW i \in 1..m PROVE g[i] = h[i][g[i - 1]]
    <3>1. i - 1 # m /\ i - 1 \in 0..n /\ g[i - 1] = f[i - 1]
      BY <2>2
    <3>2. CASE i = m
      BY <2>2, <3>1, <3>2
    <3>3. CASE i # m
      <4>1. i \in 1..(m - 1) /\ g[i] = f[i]
        BY <2>2, <3>3
      <4> QED
        BY <2>1, <3>1, <4>1
    <3> QED
      BY <3>2, <3>3
  <2>7. Good(g, m)
    BY <2>5, <2>6
  <2> QED
    BY <1>1, <2>4, <2>7
<1>4. n \in T
  <2>1. 0..n \subseteq T
    BY <1>2, <1>3, UpTo
  <2> QED
    BY <2>1
<1> QED
  BY <1>1, <1>4 DEF Iterates

\* Kept, place by place.
KeptUpTo(q, P, f) ==
    /\ f[0] = None
    /\ \A i \in 1..Len(q) : f[i] = IF i \in P THEN Append(f[i - 1], q[i]) ELSE f[i - 1]

LEMMA KeptIs ==
    ASSUME NEW T, NEW q \in Seq(T), NEW P
    PROVE  \E f \in [0..Len(q) -> Seq(T)] : KeptUpTo(q, P, f) /\ Kept(q, P) = f[Len(q)]
<1> DEFINE Chosen == CHOOSE f : f = [i \in 0..Len(q) |->
                        IF i = 0 THEN None
                        ELSE IF i \in P THEN Append(f[i - 1], q[i]) ELSE f[i - 1]]
<1>1. Kept(q, P) = Chosen[Len(q)]
  BY DEF Kept
<1> HIDE DEF Chosen
<1>2. PICK n \in Nat : n = Len(q)
  BY LenProperties
<1>3. PICK S : S = Seq(T)
  OBVIOUS
<1>4. None \in S /\ \A s \in S : \A i \in 1..n : Append(s, q[i]) \in S
  BY <1>2, <1>3, EmptySeq, ElementOfSeq, AppendProperties DEF None
<1>5. PICK h : h = [i \in 1..n |-> [s \in S |-> IF i \in P THEN Append(s, q[i]) ELSE s]]
  OBVIOUS
<1>6. h \in [1..n -> [S -> S]]
  BY <1>4, <1>5
<1>b. PICK b \in S : b = None
  BY <1>4
<1>r. PICK f : Iterates(f, n, S, b, h)
  BY <1>6, Recursion
<1>7. f \in [0..n -> S] /\ f[0] = b /\ \A i \in 1..n : f[i] = h[i][f[i - 1]]
  BY <1>r DEF Iterates
<1>8. ASSUME NEW i \in 1..n
      PROVE  f[i] = IF i \in P THEN Append(f[i - 1], q[i]) ELSE f[i - 1]
  <2>1. i - 1 \in 0..n /\ f[i - 1] \in S
    BY <1>7
  <2>2. PICK s \in S : s = f[i - 1]
    BY <2>1
  <2>3. h[i][s] = IF i \in P THEN Append(s, q[i]) ELSE s
    BY <1>5
  <2> QED
    BY <1>7, <2>2, <2>3
<1>9. f = [i \in 0..n |-> IF i = 0 THEN None
                          ELSE IF i \in P THEN Append(f[i - 1], q[i]) ELSE f[i - 1]]
  <2>1. f = [i \in 0..n |-> f[i]]
    BY <1>7
  <2>2. \A i \in 0..n : i = 0 \/ i \in 1..n
    OBVIOUS
  <2> QED
    BY <1>7, <1>8, <1>b, <2>1, <2>2
<1>10. Chosen = [i \in 0..n |-> IF i = 0 THEN None
                          ELSE IF i \in P THEN Append(Chosen[i - 1], q[i]) ELSE Chosen[i - 1]]
  BY <1>2, <1>9 DEF Chosen
<1>11. PICK E : E = {i \in 0..n : Chosen[i] = f[i]}
  OBVIOUS
<1>12. 0..n \subseteq E
  <2>1. 0 \in E
    BY <1>7, <1>10, <1>11, <1>b
  <2>2. ASSUME NEW i \in 1..n, i - 1 \in E PROVE i \in E
    <3>1. Chosen[i - 1] = f[i - 1] /\ i \in 0..n /\ i # 0
      BY <1>11, <2>2
    <3>2. Chosen[i] = IF i \in P THEN Append(f[i - 1], q[i]) ELSE f[i - 1]
      BY <1>10, <3>1
    <3> QED
      BY <1>8, <1>11, <3>1, <3>2
  <2> QED
    BY <2>1, <2>2, UpTo
<1>13. Chosen[n] = f[n]
  BY <1>11, <1>12
<1> QED
  BY <1>1, <1>2, <1>3, <1>7, <1>8, <1>13, <1>b DEF KeptUpTo

LEMMA KeptType ==
    ASSUME NEW T, NEW q \in Seq(T), NEW P, NEW S, \A i \in P \cap DOMAIN q : q[i] \in S
    PROVE  Kept(q, P) \in Seq(S)
<1>1. PICK f \in [0..Len(q) -> Seq(T)] : KeptUpTo(q, P, f) /\ Kept(q, P) = f[Len(q)]
  BY KeptIs
<1>2. PICK n \in Nat : n = Len(q)
  BY LenProperties
<1>3. PICK E : E = {i \in 0..n : f[i] \in Seq(S)}
  OBVIOUS
<1>4. 0 \in E
  BY <1>1, <1>3, EmptySeq DEF KeptUpTo, None
<1>5. ASSUME NEW i \in 1..n, i - 1 \in E PROVE i \in E
  <2>1. f[i] = IF i \in P THEN Append(f[i - 1], q[i]) ELSE f[i - 1]
    BY <1>1, <1>2 DEF KeptUpTo
  <2>2. f[i - 1] \in Seq(S)
    BY <1>3, <1>5
  <2>3. i \in P => q[i] \in S
    BY <1>2, LenProperties
  <2>4. i \in P => Append(f[i - 1], q[i]) \in Seq(S)
    BY <2>2, <2>3, AppendProperties
  <2>5. f[i] \in Seq(S)
    BY <2>1, <2>2, <2>4
  <2> QED
    BY <1>3, <2>5
<1>6. 0..n \subseteq E
  BY <1>4, <1>5, UpTo
<1> QED
  BY <1>1, <1>2, <1>3, <1>6

LEMMA KeptLength ==
    ASSUME NEW T, NEW q \in Seq(T), NEW P
    PROVE  Len(Kept(q, P)) = Cardinality(P \cap DOMAIN q)
<1>1. PICK f \in [0..Len(q) -> Seq(T)] : KeptUpTo(q, P, f) /\ Kept(q, P) = f[Len(q)]
  BY KeptIs
<1>2. PICK n \in Nat : n = Len(q)
  BY LenProperties
<1>3. PICK E : E = {i \in 0..n : Len(f[i]) = Cardinality(P \cap (1..i))}
  OBVIOUS
<1>4. 0 \in E
  <2>1. P \cap (1..0) = {}
    OBVIOUS
  <2> QED
    BY <1>1, <1>3, <2>1, EmptySeq, FS_EmptySet DEF KeptUpTo, None
<1>5. ASSUME NEW i \in 1..n, i - 1 \in E PROVE i \in E
  <2>1. f[i] = IF i \in P THEN Append(f[i - 1], q[i]) ELSE f[i - 1]
    BY <1>1, <1>2 DEF KeptUpTo
  <2>2. f[i - 1] \in Seq(T) /\ q[i] \in T
    BY <1>2, ElementOfSeq
  <2>i. i - 1 \in Int /\ P \cap (1..(i - 1)) \subseteq 1..(i - 1)
    OBVIOUS
  <2>j. IsFiniteSet(1..(i - 1))
    BY <2>i, FS_Interval
  <2>3. IsFiniteSet(P \cap (1..(i - 1)))
    BY <2>i, <2>j, FS_Subset
  <2>4. CASE i \in P
    <3>1. P \cap (1..i) = (P \cap (1..(i - 1))) \cup {i} /\ i \notin P \cap (1..(i - 1))
      BY <2>4
    <3>2. Cardinality(P \cap (1..i)) = Cardinality(P \cap (1..(i - 1))) + 1
      BY <2>3, <3>1, FS_AddElement
    <3>3. Len(f[i]) = Len(f[i - 1]) + 1
      BY <2>1, <2>2, <2>4, AppendProperties
    <3> QED
      BY <1>3, <1>5, <3>2, <3>3
  <2>5. CASE i \notin P
    <3>1. P \cap (1..i) = P \cap (1..(i - 1))
      BY <2>5
    <3> QED
      BY <1>3, <1>5, <2>1, <2>5, <3>1
  <2> QED
    BY <2>4, <2>5
<1>6. 0..n \subseteq E
  BY <1>4, <1>5, UpTo
<1>7. DOMAIN q = 1..n
  BY <1>2, LenProperties
<1> QED
  BY <1>1, <1>2, <1>3, <1>6, <1>7

\* Total, place by place.
LEMMA TotalIs ==
    ASSUME NEW q \in Seq(Int)
    PROVE  \E f \in [0..Len(q) -> Int] :
              /\ f[0] = 0
              /\ \A i \in 1..Len(q) : f[i] = f[i - 1] + q[i]
              /\ Total(q) = f[Len(q)]
<1> DEFINE Chosen == CHOOSE f : f = [i \in 0..Len(q) |-> IF i = 0 THEN 0 ELSE f[i - 1] + q[i]]
<1>1. Total(q) = Chosen[Len(q)]
  BY DEF Total
<1> HIDE DEF Chosen
<1>2. PICK n \in Nat : n = Len(q)
  BY LenProperties
<1>3. PICK S : S = Int
  OBVIOUS
<1>4. PICK b \in S : b = 0
  BY <1>3, SMT
<1>5. ASSUME NEW i \in 1..n, NEW k \in S PROVE k + q[i] \in S
  BY <1>2, <1>3, <1>5, ElementOfSeq
<1>6. PICK h : h = [i \in 1..n |-> [k \in S |-> k + q[i]]]
  OBVIOUS
<1>7. h \in [1..n -> [S -> S]]
  BY <1>5, <1>6
<1>8. PICK f : Iterates(f, n, S, b, h)
  BY <1>7, Recursion
<1>9. f \in [0..n -> S] /\ f[0] = b /\ \A i \in 1..n : f[i] = h[i][f[i - 1]]
  BY <1>8 DEF Iterates
<1>10. ASSUME NEW i \in 1..n PROVE f[i] = f[i - 1] + q[i]
  <2>1. i - 1 \in 0..n /\ f[i - 1] \in S
    BY <1>9
  <2>2. PICK k \in S : k = f[i - 1]
    BY <2>1
  <2>3. h[i][k] = k + q[i]
    BY <1>6
  <2> QED
    BY <1>9, <2>2, <2>3
<1>11. f = [i \in 0..n |-> IF i = 0 THEN 0 ELSE f[i - 1] + q[i]]
  <2>1. f = [i \in 0..n |-> f[i]]
    BY <1>9
  <2>2. \A i \in 0..n : i = 0 \/ i \in 1..n
    OBVIOUS
  <2> QED
    BY <1>4, <1>9, <1>10, <2>1, <2>2
<1>12. Chosen = [i \in 0..n |-> IF i = 0 THEN 0 ELSE Chosen[i - 1] + q[i]]
  BY <1>2, <1>11 DEF Chosen
<1>13. PICK E : E = {i \in 0..n : Chosen[i] = f[i]}
  OBVIOUS
<1>14. 0..n \subseteq E
  <2>1. 0 \in E
    BY <1>4, <1>9, <1>12, <1>13
  <2>2. ASSUME NEW i \in 1..n, i - 1 \in E PROVE i \in E
    <3>1. Chosen[i - 1] = f[i - 1] /\ i \in 0..n /\ i # 0
      BY <1>13, <2>2
    <3>2. Chosen[i] = f[i - 1] + q[i]
      BY <1>12, <3>1
    <3> QED
      BY <1>10, <1>13, <3>1, <3>2
  <2> QED
    BY <2>1, <2>2, UpTo
<1>15. Chosen[n] = f[n]
  BY <1>13, <1>14
<1> QED
  BY <1>1, <1>2, <1>3, <1>4, <1>9, <1>10, <1>15

LEMMA TotalType == ASSUME NEW q \in Seq(Int) PROVE Total(q) \in Int
<1>1. PICK f \in [0..Len(q) -> Int] : Total(q) = f[Len(q)]
  BY TotalIs
<1>2. Len(q) \in 0..Len(q)
  BY LenProperties
<1> QED
  BY <1>1, <1>2

-----------------------------------------------------------------------------
(* The universe and its orders                                             *)

BarRecords == [day : Nat, slot : Nat, o : Price, h : Price, l : Price, c : Price, v : Nat]
Holding == [qty : Price, price : Nat, opened : Nat]
Positions(W) == UNION {[D -> Holding] : D \in SUBSET W}
OrdersOf(W) == [sym : W, side : {"buy", "sell"}, qty : Price]

LEMMA UniverseIs ==
    /\ Universe \in Seq(Symbols) /\ Len(Universe) \in Nat \ {0}
    /\ DOMAIN Universe = 1..Len(Universe)
    /\ RiskOn \in Symbols /\ RiskOff \in Symbols
<1>1. Universe \in Seq(Symbols) /\ Universe # << >>
  BY DailyAssumption DEF Symbols
<1>2. Len(Universe) \in Nat \ {0} /\ DOMAIN Universe = 1..Len(Universe)
  BY <1>1, EmptySeq, LenProperties
<1>3. 1 \in 1..Len(Universe) /\ Len(Universe) \in 1..Len(Universe)
  BY <1>2
<1> QED
  BY <1>1, <1>2, <1>3, ElementOfSeq DEF RiskOn, RiskOff

LEMMA AmongType ==
    ASSUME NEW T, NEW q \in Seq(T), NEW S
    PROVE  Among(q, S) \in Seq(S) /\ Among(q, S) \in Seq(T)
<1>1. PICK P : P = {i \in DOMAIN q : q[i] \in S}
  OBVIOUS
<1>2. \A i \in P \cap DOMAIN q : q[i] \in S
  BY <1>1
<1>3. \A i \in P \cap DOMAIN q : q[i] \in T
  BY LenProperties, ElementOfSeq
<1> QED
  BY <1>1, <1>2, <1>3, KeptType DEF Among

LEMMA InOrderType == ASSUME NEW S PROVE InOrder(S) \in Seq(S)
  BY UniverseIs, AmongType DEF InOrder

LEMMA InOrderSome ==
    ASSUME NEW S, S \subseteq Symbols, S # {}
    PROVE  Len(InOrder(S)) \in Nat \ {0}
<1>1. PICK P : P = {i \in DOMAIN Universe : Universe[i] \in S}
  OBVIOUS
<1>2. PICK i \in P : TRUE
  BY <1>1 DEF Symbols
<1>3. P \cap DOMAIN Universe = P /\ P \subseteq 1..Len(Universe)
  BY <1>1, UniverseIs
<1>4. IsFiniteSet(1..Len(Universe))
  BY UniverseIs, FS_Interval
<1>5. IsFiniteSet(P)
  BY <1>3, <1>4, FS_Subset
<1>6. Cardinality(P) \in Nat /\ Cardinality(P) # 0
  BY <1>2, <1>5, FS_CardinalityType, FS_EmptySet
<1>7. Len(InOrder(S)) = Cardinality(P)
  BY <1>1, <1>3, UniverseIs, KeptLength DEF InOrder, Among
<1> QED
  BY <1>6, <1>7

LEMMA JoinType ==
    ASSUME NEW S, NEW s \in Seq(S), NEW t \in Seq(S)
    PROVE  s \o t \in Seq(S) /\ Len(s \o t) = Len(s) + Len(t)
  BY ConcatProperties

LEMMA PlacedType ==
    ASSUME NEW S, NEW q \in Seq(S), NEW s \in S, NEW key
    PROVE  Placed(q, s, key) \in Seq(S) /\ Len(Placed(q, s, key)) = Len(q) + 1
<1>1. PICK P : P = {i \in DOMAIN q : key[q[i]] <= key[s]}
  OBVIOUS
<1>2. PICK n \in Nat : n = Len(q) /\ DOMAIN q = 1..n
  BY LenProperties
<1>3. PICK m : m = Cardinality(P)
  OBVIOUS
<1>4. m \in 0..n
  <2>1. IsFiniteSet(1..n) /\ Cardinality(1..n) = n
    BY FS_Interval
  <2>2. P \subseteq 1..n
    BY <1>1, <1>2
  <2>3. IsFiniteSet(P) /\ Cardinality(P) <= Cardinality(1..n)
    BY <2>1, <2>2, FS_Subset
  <2> QED
    BY <1>3, <2>1, <2>3, FS_CardinalityType
<1>5. Placed(q, s, key) = SubSeq(q, 1, m) \o <<s>> \o SubSeq(q, m + 1, n)
  <2>1. (1 + m) - 1 = m /\ 1 + m = m + 1
    BY <1>4
  <2> QED
    BY <1>1, <1>2, <1>3, <2>1 DEF Placed, InsertAt
<1>6. PICK a : a = SubSeq(q, 1, m)
  OBVIOUS
<1>7. PICK b : b = SubSeq(q, m + 1, n)
  OBVIOUS
<1>8. a \in Seq(S) /\ Len(a) = m
  <2>1. m \in Int /\ 1 \in Int /\ \A i \in 1..m : q[i] \in S
    BY <1>2, <1>4, ElementOfSeq
  <2> QED
    BY <1>4, <1>6, <2>1, SubSeqProperties
<1>9. b \in Seq(S) /\ Len(b) = n - m
  <2>1. m + 1 \in Int /\ n \in Int /\ \A i \in (m + 1)..n : q[i] \in S
    BY <1>2, <1>4, ElementOfSeq
  <2> QED
    BY <1>4, <1>7, <2>1, SubSeqProperties
<1>10. PICK c : c = <<s>>
  OBVIOUS
<1>11. c \in Seq(S) /\ Len(c) = 1
  BY <1>10
<1>12. PICK d : d = a \o c
  OBVIOUS
<1>13. d \in Seq(S) /\ Len(d) = m + 1
  BY <1>8, <1>11, <1>12, JoinType
<1>14. PICK e : e = d \o b
  OBVIOUS
<1>15. e \in Seq(S) /\ Len(e) = Len(d) + Len(b)
  BY <1>9, <1>13, <1>14, JoinType
<1>16. Len(e) = n + 1
  BY <1>4, <1>9, <1>13, <1>15
<1>17. Placed(q, s, key) = e
  BY <1>5, <1>6, <1>7, <1>10, <1>12, <1>14
<1> QED
  BY <1>2, <1>15, <1>16, <1>17

\* Ranked, place by place.
LEMMA RankedIs ==
    ASSUME NEW D, NEW key, DOMAIN key = D
    PROVE  \E f \in [0..Len(InOrder(D)) -> Seq(D)] :
              /\ f[0] = None
              /\ \A i \in 1..Len(InOrder(D)) : f[i] = Placed(f[i - 1], InOrder(D)[i], key)
              /\ Ranked(key) = f[Len(InOrder(D))]
<1> DEFINE Chosen == CHOOSE f : f = [i \in 0..Len(InOrder(D)) |-> IF i = 0 THEN None ELSE Placed(f[i - 1], InOrder(D)[i], key)]
<1>1. Ranked(key) = Chosen[Len(InOrder(D))]
  BY DEF Ranked
<1> HIDE DEF Chosen
<1>2. PICK n \in Nat : n = Len(InOrder(D))
  BY InOrderType, LenProperties
<1>3. PICK S : S = Seq(D)
  OBVIOUS
<1>4. PICK b \in S : b = None
  BY <1>3, EmptySeq DEF None
<1>5. ASSUME NEW i \in 1..n, NEW k \in S PROVE Placed(k, InOrder(D)[i], key) \in S
  <2>1. InOrder(D)[i] \in D
    BY <1>2, InOrderType, ElementOfSeq
  <2> QED
    BY <1>3, <2>1, PlacedType
<1>6. PICK h : h = [i \in 1..n |-> [k \in S |-> Placed(k, InOrder(D)[i], key)]]
  OBVIOUS
<1>7. h \in [1..n -> [S -> S]]
  BY <1>5, <1>6
<1>8. PICK f : Iterates(f, n, S, b, h)
  BY <1>7, Recursion
<1>9. f \in [0..n -> S] /\ f[0] = b /\ \A i \in 1..n : f[i] = h[i][f[i - 1]]
  BY <1>8 DEF Iterates
<1>10. ASSUME NEW i \in 1..n PROVE f[i] = Placed(f[i - 1], InOrder(D)[i], key)
  <2>1. i - 1 \in 0..n /\ f[i - 1] \in S
    BY <1>9
  <2>2. PICK k \in S : k = f[i - 1]
    BY <2>1
  <2>3. h[i][k] = Placed(k, InOrder(D)[i], key)
    BY <1>6
  <2> QED
    BY <1>9, <2>2, <2>3
<1>11. f = [i \in 0..n |-> IF i = 0 THEN None ELSE Placed(f[i - 1], InOrder(D)[i], key)]
  <2>1. f = [i \in 0..n |-> f[i]]
    BY <1>9
  <2>2. \A i \in 0..n : i = 0 \/ i \in 1..n
    OBVIOUS
  <2> QED
    BY <1>4, <1>9, <1>10, <2>1, <2>2
<1>12. Chosen = [i \in 0..n |-> IF i = 0 THEN None ELSE Placed(Chosen[i - 1], InOrder(D)[i], key)]
  BY <1>2, <1>11 DEF Chosen
<1>13. PICK E : E = {i \in 0..n : Chosen[i] = f[i]}
  OBVIOUS
<1>14. 0..n \subseteq E
  <2>1. 0 \in E
    BY <1>4, <1>9, <1>12, <1>13
  <2>2. ASSUME NEW i \in 1..n, i - 1 \in E PROVE i \in E
    <3>1. Chosen[i - 1] = f[i - 1] /\ i \in 0..n /\ i # 0
      BY <1>13, <2>2
    <3>2. Chosen[i] = Placed(f[i - 1], InOrder(D)[i], key)
      BY <1>12, <3>1
    <3> QED
      BY <1>10, <1>13, <3>1, <3>2
  <2> QED
    BY <2>1, <2>2, UpTo
<1>15. Chosen[n] = f[n]
  BY <1>13, <1>14
<1> QED
  BY <1>1, <1>2, <1>3, <1>4, <1>9, <1>10, <1>15

LEMMA RankedType ==
    ASSUME NEW D, NEW key, DOMAIN key = D
    PROVE  Ranked(key) \in Seq(D) /\ Len(Ranked(key)) = Len(InOrder(D))
<1>1. PICK q : q = InOrder(D)
  OBVIOUS
<1>2. q \in Seq(D) /\ Len(q) \in Nat
  BY <1>1, InOrderType, LenProperties
<1>3. PICK n \in Nat : n = Len(q)
  BY <1>2
<1>4. PICK f \in [0..n -> Seq(D)] : /\ f[0] = None
                                    /\ \A i \in 1..n : f[i] = Placed(f[i - 1], q[i], key)
                                    /\ Ranked(key) = f[n]
  BY <1>1, <1>3, RankedIs
<1>5. PICK E : E = {i \in 0..n : Len(f[i]) = i}
  OBVIOUS
<1>6. 0..n \subseteq E
  <2>1. 0 \in E
    BY <1>4, <1>5, EmptySeq DEF None
  <2>2. ASSUME NEW i \in 1..n, i - 1 \in E PROVE i \in E
    <3>1. f[i - 1] \in Seq(D) /\ q[i] \in D
      BY <1>2, <1>3, <1>4, ElementOfSeq
    <3>2. Len(f[i]) = Len(f[i - 1]) + 1
      BY <1>4, <3>1, PlacedType
    <3>3. Len(f[i - 1]) = i - 1
      BY <1>5, <2>2
    <3>4. Len(f[i]) = i
      BY <3>2, <3>3
    <3> QED
      BY <1>5, <3>4
  <2> QED
    BY <2>1, <2>2, UpTo
<1>7. n \in 0..n
  OBVIOUS
<1>8. Len(f[n]) = n /\ f[n] \in Seq(D)
  BY <1>5, <1>6, <1>7
<1> QED
  BY <1>1, <1>3, <1>4, <1>8

LEMMA FirstType ==
    ASSUME NEW S, NEW q \in Seq(S), NEW n \in Int
    PROVE  First(q, n) \in Seq(S)
<1>1. PICK m \in Nat : m = Len(q)
  BY LenProperties
<1>2. PICK k : k = IF n < m THEN n ELSE m
  OBVIOUS
<1>3. k \in Int /\ k <= m
  BY <1>2
<1>4. First(q, n) = SubSeq(q, 1, k)
  BY <1>1, <1>2 DEF First
<1>5. \A i \in 1..k : q[i] \in S
  BY <1>1, <1>3, ElementOfSeq
<1> QED
  BY <1>3, <1>4, <1>5, SubSeqProperties

-----------------------------------------------------------------------------
(* What a strategy decides                                                 *)

LEMMA Products == \A a, b \in Nat : a * b \in Nat
  BY SMT
LEMMA PositiveProducts == \A a, b \in Nat \ {0} : a * b \in Nat \ {0}
  BY SMT
LEMMA IntProducts == \A a, b \in Int : a * b \in Int
  BY SMT
LEMMA Quotients == \A a \in Int, b \in Nat \ {0} : a \div b \in Int
  BY SMT

LEMMA EntryType ==
    ASSUME NEW W, NEW sym \in W, NEW equity \in Int, NEW price \in Price
    PROVE  Entry(sym, equity, price) \in Seq(OrdersOf(W))
<1>1. 100 * price \in Nat \ {0} /\ equity * AllocTenths \in Int
  BY DailyAssumption, IntProducts DEF Price
<1>2. Shares(equity, price) \in Int
  BY <1>1, Quotients DEF Shares
<1>3. CASE Shares(equity, price) > 0
  <2>1. PICK o : o = Order(sym, "buy", Shares(equity, price))
    OBVIOUS
  <2>2. o \in OrdersOf(W)
    BY <1>2, <1>3, <2>1 DEF Order, OrdersOf, Price
  <2>3. Entry(sym, equity, price) = <<o>>
    BY <1>3, <2>1 DEF Entry
  <2>4. <<o>> \in Seq(OrdersOf(W))
    BY <2>2
  <2> QED
    BY <2>3, <2>4
<1>4. CASE ~(Shares(equity, price) > 0)
  BY <1>4, EmptySeq DEF Entry, None
<1> QED
  BY <1>3, <1>4

\* What a strategy is shown.
Shown(v) == /\ v.bars \in [Symbols -> Seq(BarRecords)]
            /\ v.pos \in Positions(Symbols)
            /\ \A s \in DOMAIN v.pos : v.bars[s] # None
            /\ v.equity \in Int

LEMMA CloseType ==
    ASSUME NEW b \in Seq(BarRecords), b # None
    PROVE  Close(b) \in Price
<1>1. Len(b) \in 1..Len(b)
  BY EmptySeq DEF None
<1>2. b[Len(b)] \in BarRecords
  BY <1>1, ElementOfSeq
<1> QED
  BY <1>2 DEF Close, Last, BarRecords

LEMMA HeldTypes ==
    ASSUME NEW W, NEW pp \in Positions(W)
    PROVE  /\ DOMAIN pp \subseteq W
           /\ \A s \in DOMAIN pp : pp[s] \in Holding
  BY DEF Positions

LEMMA SaleType ==
    ASSUME NEW W, NEW pp \in Positions(W), NEW s \in DOMAIN pp
    PROVE  Sale(pp, s) \in OrdersOf(W) /\ <<Sale(pp, s)>> \in Seq(OrdersOf(W))
<1>1. pp[s] \in Holding /\ s \in W
  BY HeldTypes
<1>2. Sale(pp, s) \in OrdersOf(W)
  BY <1>1 DEF Sale, Order, OrdersOf, Holding
<1> QED
  BY <1>2

LEMMA SalesType ==
    ASSUME NEW W, NEW pp \in Positions(W), NEW S, S \subseteq DOMAIN pp
    PROVE  Sales(pp, S) \in Seq(OrdersOf(W))
<1>1. PICK q : q = InOrder(S)
  OBVIOUS
<1>2. q \in Seq(S)
  BY <1>1, InOrderType
<1>3. PICK n \in Nat : n = Len(q) /\ DOMAIN q = 1..n
  BY <1>2, LenProperties
<1>4. Sales(pp, S) = [i \in 1..n |-> Sale(pp, q[i])]
  BY <1>1, <1>3 DEF Sales
<1>5. \A i \in 1..n : Sale(pp, q[i]) \in OrdersOf(W)
  BY <1>2, <1>3, ElementOfSeq, SaleType
<1>6. [i \in 1..n |-> Sale(pp, q[i])] \in [1..n -> OrdersOf(W)]
  BY <1>5
<1>7. [1..n -> OrdersOf(W)] \subseteq Seq(OrdersOf(W))
  BY SeqDef
<1> QED
  BY <1>4, <1>6, <1>7

LEMMA KnownTypes ==
    ASSUME NEW v, Shown(v)
    PROVE  /\ DOMAIN v.pos \subseteq Known(v) /\ Free(v) \subseteq Known(v)
           /\ Known(v) \subseteq Symbols
           /\ \A s \in Known(v) : Close(v.bars[s]) \in Price
<1>1. DOMAIN v.pos \subseteq Known(v) /\ Free(v) \subseteq Known(v) /\ Known(v) \subseteq Symbols
  BY HeldTypes DEF Shown, Known, Free
<1>2. ASSUME NEW s \in Known(v) PROVE Close(v.bars[s]) \in Price
  BY CloseType DEF Shown, Known
<1> QED
  BY <1>1, <1>2

\* Entries, place by place.
LEMMA EntriesIs ==
    ASSUME NEW v, Shown(v), NEW q \in Seq(Known(v))
    PROVE  \E f \in [0..Len(q) -> Seq(OrdersOf(Symbols))] :
              /\ f[0] = None
              /\ \A i \in 1..Len(q) : f[i] = f[i - 1] \o Entry(q[i], v.equity, Close(v.bars[q[i]]))
              /\ Entries(v, q) = f[Len(q)]
<1> DEFINE Chosen == CHOOSE f : f = [i \in 0..Len(q) |-> IF i = 0 THEN None ELSE f[i - 1] \o Entry(q[i], v.equity, Close(v.bars[q[i]]))]
<1>1. Entries(v, q) = Chosen[Len(q)]
  BY DEF Entries
<1> HIDE DEF Chosen
<1>2. PICK n \in Nat : n = Len(q)
  BY LenProperties
<1>3. PICK S : S = Seq(OrdersOf(Symbols))
  OBVIOUS
<1>4. PICK b \in S : b = None
  BY <1>3, EmptySeq DEF None
<1>5. ASSUME NEW i \in 1..n, NEW k \in S PROVE k \o Entry(q[i], v.equity, Close(v.bars[q[i]])) \in S
  <2>1. q[i] \in Known(v)
    BY <1>2, ElementOfSeq
  <2>2. q[i] \in Symbols /\ Close(v.bars[q[i]]) \in Price /\ v.equity \in Int
    BY <2>1, KnownTypes DEF Shown
  <2>3. Entry(q[i], v.equity, Close(v.bars[q[i]])) \in Seq(OrdersOf(Symbols))
    BY <2>2, EntryType
  <2> QED
    BY <1>3, <2>3, JoinType
<1>6. PICK h : h = [i \in 1..n |-> [k \in S |-> k \o Entry(q[i], v.equity, Close(v.bars[q[i]]))]]
  OBVIOUS
<1>7. h \in [1..n -> [S -> S]]
  BY <1>5, <1>6
<1>8. PICK f : Iterates(f, n, S, b, h)
  BY <1>7, Recursion
<1>9. f \in [0..n -> S] /\ f[0] = b /\ \A i \in 1..n : f[i] = h[i][f[i - 1]]
  BY <1>8 DEF Iterates
<1>10. ASSUME NEW i \in 1..n PROVE f[i] = f[i - 1] \o Entry(q[i], v.equity, Close(v.bars[q[i]]))
  <2>1. i - 1 \in 0..n /\ f[i - 1] \in S
    BY <1>9
  <2>2. PICK k \in S : k = f[i - 1]
    BY <2>1
  <2>3. h[i][k] = k \o Entry(q[i], v.equity, Close(v.bars[q[i]]))
    BY <1>6
  <2> QED
    BY <1>9, <2>2, <2>3
<1>11. f = [i \in 0..n |-> IF i = 0 THEN None ELSE f[i - 1] \o Entry(q[i], v.equity, Close(v.bars[q[i]]))]
  <2>1. f = [i \in 0..n |-> f[i]]
    BY <1>9
  <2>2. \A i \in 0..n : i = 0 \/ i \in 1..n
    OBVIOUS
  <2> QED
    BY <1>4, <1>9, <1>10, <2>1, <2>2
<1>12. Chosen = [i \in 0..n |-> IF i = 0 THEN None ELSE Chosen[i - 1] \o Entry(q[i], v.equity, Close(v.bars[q[i]]))]
  BY <1>2, <1>11 DEF Chosen
<1>13. PICK E : E = {i \in 0..n : Chosen[i] = f[i]}
  OBVIOUS
<1>14. 0..n \subseteq E
  <2>1. 0 \in E
    BY <1>4, <1>9, <1>12, <1>13
  <2>2. ASSUME NEW i \in 1..n, i - 1 \in E PROVE i \in E
    <3>1. Chosen[i - 1] = f[i - 1] /\ i \in 0..n /\ i # 0
      BY <1>13, <2>2
    <3>2. Chosen[i] = f[i - 1] \o Entry(q[i], v.equity, Close(v.bars[q[i]]))
      BY <1>12, <3>1
    <3> QED
      BY <1>10, <1>13, <3>1, <3>2
  <2> QED
    BY <2>1, <2>2, UpTo
<1>15. Chosen[n] = f[n]
  BY <1>13, <1>14
<1> QED
  BY <1>1, <1>2, <1>3, <1>4, <1>9, <1>10, <1>15

LEMMA EntriesType ==
    ASSUME NEW v, Shown(v), NEW q \in Seq(Known(v))
    PROVE  Entries(v, q) \in Seq(OrdersOf(Symbols))
<1>1. PICK S : S = Seq(OrdersOf(Symbols))
  OBVIOUS
<1>2. PICK f \in [0..Len(q) -> S] : Entries(v, q) = f[Len(q)]
  BY <1>1, EntriesIs
<1>3. Len(q) \in 0..Len(q)
  BY LenProperties
<1> QED
  BY <1>1, <1>2, <1>3

LEMMA SymbolsFinite == \A S \in SUBSET Symbols : IsFiniteSet(S) /\ Cardinality(S) \in Nat
<1>1. IsFiniteSet(1..Len(Universe))
  BY UniverseIs, FS_Interval
<1>2. Universe \in [1..Len(Universe) -> Symbols]
  BY UniverseIs, LenProperties
<1>3. Universe \in Surjection(1..Len(Universe), Symbols)
  BY <1>2, UniverseIs DEF Surjection, Symbols
<1>4. IsFiniteSet(Symbols)
  BY <1>1, <1>3, FS_Surjection
<1> QED
  BY <1>4, FS_Subset, FS_CardinalityType

LEMMA RoomType ==
    ASSUME NEW S \in SUBSET Symbols
    PROVE  MaxPositions - Cardinality(S) \in Int
  BY SymbolsFinite, DailyAssumption

LEMMA CrossSectionalType ==
    ASSUME NEW v, Shown(v), NEW exits \in SUBSET DOMAIN v.pos,
           NEW key, DOMAIN key \subseteq Known(v), NEW filtered
    PROVE  CrossSectional(v, exits, key, filtered) \in Seq(OrdersOf(Symbols))
<1>1. PICK D : D = DOMAIN key
  OBVIOUS
<1>2. Ranked(key) \in Seq(Known(v))
  <2>1. Ranked(key) \in Seq(D)
    BY <1>1, RankedType
  <2> QED
    BY <1>1, <2>1, SeqMonotonic
<1>3. PICK best : best = First(Ranked(key), MaxPositions - Cardinality(DOMAIN v.pos))
  OBVIOUS
<1>4. DOMAIN v.pos \in SUBSET Symbols
  BY KnownTypes
<1>5. best \in Seq(Known(v))
  BY <1>2, <1>3, <1>4, RoomType, FirstType
<1>6. Entries(v, best) \in Seq(OrdersOf(Symbols))
  BY <1>5, EntriesType
<1>7. Sales(v.pos, exits) \in Seq(OrdersOf(Symbols))
  BY SalesType DEF Shown
<1>8. None \in Seq(OrdersOf(Symbols))
  BY EmptySeq DEF None
<1> QED
  BY <1>3, <1>6, <1>7, <1>8 DEF CrossSectional

LEMMA RotateType ==
    ASSUME NEW v, Shown(v), NEW out \in SUBSET DOMAIN v.pos, NEW leaders \in Seq(Known(v))
    PROVE  Rotate(v, out, leaders) \in Seq(OrdersOf(Symbols))
<1>1. PICK stay : stay = DOMAIN v.pos \ out
  OBVIOUS
<1>2. PICK new : new = Among(leaders, Symbols \ stay)
  OBVIOUS
<1>3. new \in Seq(Known(v))
  BY <1>2, AmongType
<1>4. stay \in SUBSET Symbols
  BY <1>1, KnownTypes
<1>5. PICK best : best = First(new, MaxPositions - Cardinality(stay))
  OBVIOUS
<1>6. best \in Seq(Known(v))
  BY <1>3, <1>4, <1>5, RoomType, FirstType
<1>7. Entries(v, best) \in Seq(OrdersOf(Symbols))
  BY <1>6, EntriesType
<1>8. Sales(v.pos, out) \in Seq(OrdersOf(Symbols))
  BY SalesType DEF Shown
<1>9. Rotate(v, out, leaders) = Sales(v.pos, out) \o Entries(v, best)
  BY <1>1, <1>2, <1>5 DEF Rotate
<1> QED
  BY <1>7, <1>8, <1>9, JoinType

\* The eight families that share evaluate().
LEMMA CrossSectionalDecisions ==
    ASSUME NEW v, Shown(v)
    PROVE  \A f \in CrossSectionalFamilies : DailyDecision(f, v) \in Seq(OrdersOf(Symbols))
<1>1. ASSUME NEW exits, NEW key, NEW filtered, exits \subseteq DOMAIN v.pos,
             DOMAIN key \subseteq Free(v)
      PROVE  CrossSectional(v, exits, key, filtered) \in Seq(OrdersOf(Symbols))
  BY <1>1, KnownTypes, CrossSectionalType
<1>2. Rsi2Pullback(v) \in Seq(OrdersOf(Symbols))
  <2>1. PICK S : S = {s \in Free(v) : Rsi2Candidate(v.bars[s])}
    OBVIOUS
  <2>2. PICK out : out = {s \in DOMAIN v.pos : Rsi2Exit(v.bars[s], v.pos[s], v.day)}
    OBVIOUS
  <2>3. PICK key : key = [s \in S |-> Rsi(Closes(v.bars[s]))]
    OBVIOUS
  <2>4. Rsi2Pullback(v) = CrossSectional(v, out, key, TRUE)
    BY <2>1, <2>2, <2>3 DEF Rsi2Pullback
  <2>5. out \subseteq DOMAIN v.pos /\ DOMAIN key \subseteq Free(v)
    BY <2>1, <2>2, <2>3
  <2> QED
    BY <1>1, <2>4, <2>5
<1>3. IbsLowClose(v) \in Seq(OrdersOf(Symbols))
  <2>1. PICK S : S = {s \in Free(v) : IbsCandidate(v.bars[s])}
    OBVIOUS
  <2>2. PICK out : out = {s \in DOMAIN v.pos : IbsExit(v.bars[s], v.pos[s], v.day)}
    OBVIOUS
  <2>3. PICK key : key = [s \in S |-> Ibs(v.bars[s])]
    OBVIOUS
  <2>4. IbsLowClose(v) = CrossSectional(v, out, key, FALSE)
    BY <2>1, <2>2, <2>3 DEF IbsLowClose
  <2>5. out \subseteq DOMAIN v.pos /\ DOMAIN key \subseteq Free(v)
    BY <2>1, <2>2, <2>3
  <2> QED
    BY <1>1, <2>4, <2>5
<1>4. BandsLowerBand(v) \in Seq(OrdersOf(Symbols))
  <2>1. PICK S : S = {s \in Free(v) : BandsCandidate(v.bars[s])}
    OBVIOUS
  <2>2. PICK out : out = {s \in DOMAIN v.pos : BandsExit(v.bars[s], v.pos[s], v.day)}
    OBVIOUS
  <2>3. PICK key : key = [s \in S |-> ZScore(v.bars[s])]
    OBVIOUS
  <2>4. BandsLowerBand(v) = CrossSectional(v, out, key, FALSE)
    BY <2>1, <2>2, <2>3 DEF BandsLowerBand
  <2>5. out \subseteq DOMAIN v.pos /\ DOMAIN key \subseteq Free(v)
    BY <2>1, <2>2, <2>3
  <2> QED
    BY <1>1, <2>4, <2>5
<1>5. Nr7Inside(v) \in Seq(OrdersOf(Symbols))
  <2>1. PICK S : S = {s \in Free(v) : Nr7Candidate(v.bars[s])}
    OBVIOUS
  <2>2. PICK out : out = {s \in DOMAIN v.pos : Nr7Exit(v.bars[s], v.pos[s], v.day)}
    OBVIOUS
  <2>3. PICK key : key = [s \in S |-> Width(Last(v.bars[s]))]
    OBVIOUS
  <2>4. Nr7Inside(v) = CrossSectional(v, out, key, FALSE)
    BY <2>1, <2>2, <2>3 DEF Nr7Inside
  <2>5. out \subseteq DOMAIN v.pos /\ DOMAIN key \subseteq Free(v)
    BY <2>1, <2>2, <2>3
  <2> QED
    BY <1>1, <2>4, <2>5
<1>6. AtrChannel(v) \in Seq(OrdersOf(Symbols))
  <2>1. PICK S : S = {s \in Free(v) : AtrCandidate(v.bars[s])}
    OBVIOUS
  <2>2. PICK out : out = {s \in DOMAIN v.pos : AtrExit(v.bars[s], v.pos[s], v.day)}
    OBVIOUS
  <2>3. PICK key : key = [s \in S |-> - AtrStrength(v.bars[s])]
    OBVIOUS
  <2>4. AtrChannel(v) = CrossSectional(v, out, key, TRUE)
    BY <2>1, <2>2, <2>3 DEF AtrChannel
  <2>5. out \subseteq DOMAIN v.pos /\ DOMAIN key \subseteq Free(v)
    BY <2>1, <2>2, <2>3
  <2> QED
    BY <1>1, <2>4, <2>5
<1>7. Donchian(v) \in Seq(OrdersOf(Symbols))
  <2>1. PICK S : S = {s \in Free(v) : DonchianCandidate(v.bars[s])}
    OBVIOUS
  <2>2. PICK out : out = {s \in DOMAIN v.pos : DonchianExit(v.bars[s], v.pos[s], v.day)}
    OBVIOUS
  <2>3. PICK key : key = [s \in S |-> - Breakout(v.bars[s])]
    OBVIOUS
  <2>4. Donchian(v) = CrossSectional(v, out, key, TRUE)
    BY <2>1, <2>2, <2>3 DEF Donchian
  <2>5. out \subseteq DOMAIN v.pos /\ DOMAIN key \subseteq Free(v)
    BY <2>1, <2>2, <2>3
  <2> QED
    BY <1>1, <2>4, <2>5
<1>8. DailyTsmom(v) \in Seq(OrdersOf(Symbols))
  <2>1. PICK S : S = {s \in Free(v) : TsmomCandidate(v.bars[s])}
    OBVIOUS
  <2>2. PICK out : out = {s \in DOMAIN v.pos : TsmomExit(v.bars[s], v.pos[s], v.day)}
    OBVIOUS
  <2>3. PICK key : key = [s \in S |-> - Return(v.bars[s], Lookback)]
    OBVIOUS
  <2>4. DailyTsmom(v) = CrossSectional(v, out, key, TRUE)
    BY <2>1, <2>2, <2>3 DEF DailyTsmom
  <2>5. out \subseteq DOMAIN v.pos /\ DOMAIN key \subseteq Free(v)
    BY <2>1, <2>2, <2>3
  <2> QED
    BY <1>1, <2>4, <2>5
<1>9. High52w(v) \in Seq(OrdersOf(Symbols))
  <2>1. PICK S : S = {s \in Free(v) : HighCandidate(v.bars[s])}
    OBVIOUS
  <2>2. PICK out : out = {s \in DOMAIN v.pos : HighExit(v.bars[s], v.pos[s], v.day)}
    OBVIOUS
  <2>3. PICK key : key = [s \in S |-> - Proximity(v.bars[s])]
    OBVIOUS
  <2>4. High52w(v) = CrossSectional(v, out, key, FALSE)
    BY <2>1, <2>2, <2>3 DEF High52w
  <2>5. out \subseteq DOMAIN v.pos /\ DOMAIN key \subseteq Free(v)
    BY <2>1, <2>2, <2>3
  <2> QED
    BY <1>1, <2>4, <2>5
<1> QED
  BY <1>2, <1>3, <1>4, <1>5, <1>6, <1>7, <1>8, <1>9 DEF CrossSectionalFamilies, DailyDecision

\* The families that rank.
LEMMA RankingDecisions ==
    ASSUME NEW v, Shown(v)
    PROVE  /\ XsecRotation(v) \in Seq(OrdersOf(Symbols))
           /\ ScoredLinear(v) \in Seq(OrdersOf(Symbols))
           /\ TreeBucketed(v) \in Seq(OrdersOf(Symbols))
<1>1. Sales(v.pos, Stops(v)) \in Seq(OrdersOf(Symbols))
  <2>1. Stops(v) \subseteq DOMAIN v.pos
    BY DEF Stops
  <2> QED
    BY <2>1, SalesType DEF Shown
<1>2. None \in Seq(OrdersOf(Symbols))
  BY EmptySeq DEF None
<1>3. ASSUME NEW key, DOMAIN key \subseteq Known(v)
      PROVE  Ranked(key) \in Seq(Known(v))
  <2>1. PICK D : D = DOMAIN key
    OBVIOUS
  <2>2. Ranked(key) \in Seq(D)
    BY <2>1, RankedType
  <2> QED
    BY <1>3, <2>1, <2>2, SeqMonotonic
<1>4. \A ranking : Behind(v, ranking) \in SUBSET DOMAIN v.pos
  BY DEF Behind
<1>5. MaxPositions \in Int
  BY DailyAssumption
<1>6. XsecRanking(v) \in Seq(Known(v))
  <2> DEFINE key == [s \in Known(v) |-> IF HasReturn(v.bars[s])
                        THEN - Return(v.bars[s], Lookback) ELSE 100000]
  <2>1. XsecRanking(v) = Ranked(key)
    BY DEF XsecRanking
  <2>2. DOMAIN key = Known(v)
    OBVIOUS
  <2> HIDE DEF key
  <2> QED
    BY <1>3, <2>1, <2>2
<1>7. XsecRotation(v) \in Seq(OrdersOf(Symbols))
  <2>1. PICK r \in Seq(Known(v)) : r = XsecRanking(v)
    BY <1>6
  <2>2. PICK S : S = {s \in Known(v) : /\ Bullish(v) /\ Len(v.bars[s]) >= MaLength
                                       /\ AboveMean(v.bars[s], MaLength)}
    OBVIOUS
  <2>3. PICK leaders : leaders = Among(First(r, MaxPositions), S)
    OBVIOUS
  <2>4. leaders \in Seq(Known(v))
    BY <1>5, <2>3, FirstType, AmongType
  <2>5. Rotate(v, Behind(v, r), leaders) \in Seq(OrdersOf(Symbols))
    BY <1>4, <2>4, RotateType
  <2>6. XsecRotation(v) = IF Stops(v) # {} THEN Sales(v.pos, Stops(v))
                          ELSE IF ~Rebalancing(v.day) THEN None
                          ELSE Rotate(v, Behind(v, r), leaders)
    BY <2>1, <2>2, <2>3 DEF XsecRotation
  <2> QED
    BY <1>1, <1>2, <2>5, <2>6
<1>8. ScoredLinear(v) \in Seq(OrdersOf(Symbols))
  <2>1. PICK key : key = [s \in Scorable(v) |-> - Score(v, s)]
    OBVIOUS
  <2>2. PICK r : r = Ranked(key)
    OBVIOUS
  <2>3. r \in Seq(Known(v))
    BY <1>3, <2>1, <2>2 DEF Scorable
  <2>4. PICK leaders : leaders = Among(First(r, MaxPositions), Sizable(v))
    OBVIOUS
  <2>5. leaders \in Seq(Known(v))
    BY <1>5, <2>3, <2>4, FirstType, AmongType
  <2>6. Rotate(v, Behind(v, r), leaders) \in Seq(OrdersOf(Symbols))
    BY <1>4, <2>5, RotateType
  <2>7. ScoredLinear(v) = IF Stops(v) # {} THEN Sales(v.pos, Stops(v))
                          ELSE IF r = None THEN None
                          ELSE Rotate(v, Behind(v, r), leaders)
    BY <2>1, <2>2, <2>4 DEF ScoredLinear
  <2> QED
    BY <1>1, <1>2, <2>6, <2>7
<1>9. TreeBucketed(v) \in Seq(OrdersOf(Symbols))
  <2>1. PICK S : S = {t \in Scorable(v) : Leaf(v.bars[t]) > 0}
    OBVIOUS
  <2> DEFINE key == [s \in S |-> - (100000 * Leaf(v.bars[s]) + Return(v.bars[s], Lookback))]
  <2>2. TreeRanking(v) = Ranked(key)
    BY <2>1 DEF TreeRanking
  <2>3. DOMAIN key = S /\ S \subseteq Known(v)
    BY <2>1 DEF Scorable
  <2> HIDE DEF key
  <2>r. PICK r : r = TreeRanking(v)
    OBVIOUS
  <2>4. r \in Seq(Known(v))
    BY <1>3, <2>2, <2>3, <2>r
  <2>5. PICK leaders : leaders = Among(r, Sizable(v))
    OBVIOUS
  <2>6. leaders \in Seq(Known(v))
    BY <2>4, <2>5, AmongType
  <2>7. PICK out : out = DOMAIN v.pos \ {r[i] : i \in DOMAIN r}
    OBVIOUS
  <2>8. Rotate(v, out, leaders) \in Seq(OrdersOf(Symbols))
    BY <2>6, <2>7, RotateType
  <2>9. TreeBucketed(v) = IF Stops(v) # {} THEN Sales(v.pos, Stops(v))
                          ELSE Rotate(v, out, leaders)
    BY <2>r, <2>5, <2>7 DEF TreeBucketed
  <2> QED
    BY <1>1, <2>8, <2>9
<1> QED
  BY <1>7, <1>8, <1>9

\* A position was the first to be entered.
LEMMA HeldType ==
    ASSUME NEW W, NEW pp \in Positions(W), DOMAIN pp # {}
    PROVE  Held(pp) \in DOMAIN pp
<1>1. PICK D : D = {pp[s].opened : s \in DOMAIN pp}
  OBVIOUS
<1>2. D \subseteq Nat /\ D # {}
  BY <1>1, HeldTypes DEF Holding
<1>3. PICK d \in D : \A e \in D : ~(<<e, d>> \in OpToRel(<, Nat))
  BY <1>2, NatLessThanWellFounded, WFMin
<1>4. ASSUME NEW e \in D PROVE d <= e
  <2>1. d \in Nat /\ e \in Nat
    BY <1>2
  <2>2. ~(e < d)
    BY <1>3, <2>1 DEF OpToRel
  <2> QED
    BY <2>1, <2>2
<1>5. PICK s \in DOMAIN pp : pp[s].opened = d
  BY <1>1, <1>3
<1>6. \A t \in DOMAIN pp : pp[s].opened <= pp[t].opened
  BY <1>1, <1>4, <1>5
<1> QED
  BY <1>6 DEF Held

\* The families that hold one symbol.
LEMMA SingleDecisions ==
    ASSUME NEW v, Shown(v)
    PROVE  /\ Gem(v) \in Seq(OrdersOf(Symbols))
           /\ Regime(v) \in Seq(OrdersOf(Symbols))
           /\ TurnOfMonth(v) \in Seq(OrdersOf(Symbols))
           /\ CryptoRsi2(v) \in Seq(OrdersOf(Symbols))
           /\ CryptoEmaCross(v) \in Seq(OrdersOf(Symbols))
<1>1. None \in Seq(OrdersOf(Symbols))
  BY EmptySeq DEF None
<1>2. v.pos \in Positions(Symbols) /\ v.equity \in Int
  BY DEF Shown
<1>3. ASSUME NEW s \in DOMAIN v.pos PROVE <<Sale(v.pos, s)>> \in Seq(OrdersOf(Symbols))
  BY <1>2, SaleType
<1>4. ASSUME NEW s \in Symbols, NEW price \in Price
      PROVE  Entry(s, v.equity, price) \in Seq(OrdersOf(Symbols))
  BY <1>2, EntryType
<1>5. PICK b : b = v.bars[RiskOn]
  OBVIOUS
<1>6. b \in Seq(BarRecords) /\ RiskOn \in Symbols
  BY <1>5, UniverseIs DEF Shown
<1>7. b # None => Close(b) \in Price
  BY <1>6, CloseType
<1>8. Len(b) \in Nat /\ (b = None => Len(b) = 0)
  BY <1>6, LenProperties, EmptySeq DEF None
<1>9. Gem(v) \in Seq(OrdersOf(Symbols))
  <2>1. PICK rated : rated = {s \in Known(v) : HasReturn(v.bars[s])}
    OBVIOUS
  <2>2. PICK key : key = [s \in rated \ {RiskOff} |-> - Return(v.bars[s], Lookback)]
    OBVIOUS
  <2>3. PICK top : top = Ranked(key)[1]
    OBVIOUS
  <2>4. PICK target : target = IF Return(v.bars[top], Lookback) > Return(v.bars[RiskOff], Lookback)
                               THEN top ELSE RiskOff
    OBVIOUS
  <2>5. Gem(v) = IF ~Rebalancing(v.day) \/ RiskOff \notin rated \/ rated = {RiskOff}
                 THEN None
                 ELSE IF DOMAIN v.pos # {} /\ Held(v.pos) = target THEN None
                 ELSE (IF DOMAIN v.pos = {} THEN None ELSE <<Sale(v.pos, Held(v.pos))>>)
                      \o Entry(target, v.equity, Close(v.bars[target]))
    BY <2>1, <2>2, <2>3, <2>4 DEF Gem
  <2>6. CASE ~Rebalancing(v.day) \/ RiskOff \notin rated \/ rated = {RiskOff}
    BY <1>1, <2>5, <2>6
  <2>7. CASE ~(~Rebalancing(v.day) \/ RiskOff \notin rated \/ rated = {RiskOff})
    <3>1. PICK D : D = rated \ {RiskOff}
      OBVIOUS
    <3>2. D # {} /\ D \subseteq Known(v) /\ RiskOff \in Known(v)
      BY <2>1, <2>7, <3>1
    <3>3. Ranked(key) \in Seq(D) /\ Len(Ranked(key)) = Len(InOrder(D))
      BY <2>2, <3>1, RankedType
    <3>4. Len(InOrder(D)) \in Nat \ {0}
      BY <3>2, KnownTypes, InOrderSome
    <3>5. 1 \in 1..Len(Ranked(key))
      BY <3>3, <3>4
    <3>6. top \in D
      BY <2>3, <3>3, <3>5, ElementOfSeq
    <3>7. target \in Known(v)
      BY <2>4, <3>2, <3>6
    <3>8. target \in Symbols /\ Close(v.bars[target]) \in Price
      BY <3>7, KnownTypes
    <3>9. PICK e : e = Entry(target, v.equity, Close(v.bars[target]))
      OBVIOUS
    <3>10. e \in Seq(OrdersOf(Symbols))
      BY <1>4, <3>8, <3>9
    <3>11. PICK out : out = IF DOMAIN v.pos = {} THEN None ELSE <<Sale(v.pos, Held(v.pos))>>
      OBVIOUS
    <3>12. out \in Seq(OrdersOf(Symbols))
      BY <1>1, <1>2, <1>3, <3>11, HeldType
    <3>13. out \o e \in Seq(OrdersOf(Symbols))
      BY <3>10, <3>12, JoinType
    <3> QED
      BY <1>1, <2>5, <2>7, <3>9, <3>11, <3>13
  <2> QED
    BY <2>6, <2>7
<1>10. Regime(v) \in Seq(OrdersOf(Symbols))
  <2>1. PICK target : target = IF AboveMean(b, MaLength) THEN RiskOn ELSE RiskOff
    OBVIOUS
  <2>2. target \in Symbols
    BY <2>1, UniverseIs
  <2>3. PICK out : out = Sales(v.pos, DOMAIN v.pos \ {target})
    OBVIOUS
  <2>4. out \in Seq(OrdersOf(Symbols))
    <3>1. DOMAIN v.pos \ {target} \subseteq DOMAIN v.pos
      OBVIOUS
    <3> QED
      BY <1>2, <2>3, <3>1, SalesType
  <2>5. PICK e : e = IF target \in DOMAIN v.pos THEN None
                     ELSE Entry(target, v.equity, Close(b))
    OBVIOUS
  <2>6. Regime(v) = IF Len(b) < MaLength THEN None ELSE out \o e
    BY <1>5, <2>1, <2>3, <2>5 DEF Regime
  <2>7. CASE Len(b) < MaLength
    BY <1>1, <2>6, <2>7
  <2>8. CASE ~(Len(b) < MaLength)
    <3>1. b # None
      BY <1>8, <2>8 DEF MaLength
    <3>2. e \in Seq(OrdersOf(Symbols))
      BY <1>1, <1>4, <1>7, <2>2, <2>5, <3>1
    <3>3. out \o e \in Seq(OrdersOf(Symbols))
      BY <2>4, <3>2, JoinType
    <3> QED
      BY <2>6, <2>8, <3>3
  <2> QED
    BY <2>7, <2>8
<1>11. TurnOfMonth(v) \in Seq(OrdersOf(Symbols))
  <2>1. PICK n : n = Cardinality({i \in DOMAIN b : Month(b[i].day) = Month(Last(b).day)})
    OBVIOUS
  <2>2. TurnOfMonth(v) =
          IF b = None THEN None
          ELSE IF RiskOn \in DOMAIN v.pos
          THEN IF n = 1 THEN <<Sale(v.pos, RiskOn)>> ELSE None
          ELSE IF Month(Last(b).day + 1) # Month(Last(b).day)
          THEN Entry(RiskOn, v.equity, Close(b)) ELSE None
    BY <1>5, <2>1 DEF TurnOfMonth
  <2> QED
    BY <1>1, <1>3, <1>4, <1>6, <1>7, <2>2
<1>12. CryptoRsi2(v) \in Seq(OrdersOf(Symbols))
  <2>1. b = None => CryptoRsi2(v) = None
    BY <1>5 DEF CryptoRsi2
  <2>2. b # None => CryptoRsi2(v) \in {None, Entry(RiskOn, v.equity, Close(b))}
                      \cup {<<Sale(v.pos, s)>> : s \in DOMAIN v.pos}
    BY <1>5 DEF CryptoRsi2
  <2> QED
    BY <1>1, <1>3, <1>4, <1>6, <1>7, <2>1, <2>2
<1>13. CryptoEmaCross(v) \in Seq(OrdersOf(Symbols))
  <2>1. Len(b) <= MaLength => CryptoEmaCross(v) = None
    BY <1>5 DEF CryptoEmaCross
  <2>2. ~(Len(b) <= MaLength) =>
            CryptoEmaCross(v) \in {None, Entry(RiskOn, v.equity, Close(b))}
                      \cup {<<Sale(v.pos, s)>> : s \in DOMAIN v.pos}
    BY <1>5 DEF CryptoEmaCross
  <2>3. ~(Len(b) <= MaLength) => b # None
    BY <1>8 DEF MaLength
  <2> QED
    BY <1>1, <1>3, <1>4, <1>6, <1>7, <2>1, <2>2, <2>3
<1> QED
  BY <1>9, <1>10, <1>11, <1>12, <1>13

LEMMA DailyDecisionType ==
    ASSUME NEW v, Shown(v), NEW f \in DailyFamilies
    PROVE  DailyDecision(f, v) \in Seq(OrdersOf(Symbols))
<1>1. CASE f \in CrossSectionalFamilies
  BY <1>1, CrossSectionalDecisions
<1>2. CASE f = "no_trade"
  BY <1>2, EmptySeq DEF DailyDecision, None
<1>3. CASE f \in {"xsec_rotation", "scored_linear", "tree_bucketed"}
  BY <1>3, RankingDecisions DEF DailyDecision
<1>4. CASE f \in {"gem", "regime", "turn_of_month", "crypto_rsi2", "crypto_ema_cross"}
  BY <1>4, SingleDecisions DEF DailyDecision
<1> QED
  BY <1>1, <1>2, <1>3, <1>4 DEF DailyFamilies

-----------------------------------------------------------------------------
(* Prefixes of what is kept                                                *)

\* Two recursions over a common beginning agree on it.
LEMMA KeptAgree ==
    ASSUME NEW T, NEW q \in Seq(T), NEW r \in Seq(T), NEW P, NEW R, NEW f, NEW g,
           KeptUpTo(q, P, f), KeptUpTo(r, R, g), Len(q) <= Len(r),
           \A i \in 1..Len(q) : q[i] = r[i] /\ (i \in P <=> i \in R)
    PROVE  \A i \in 0..Len(q) : f[i] = g[i]
<1>1. PICK n \in Nat : n = Len(q)
  BY LenProperties
<1>2. PICK m \in Nat : m = Len(r)
  BY LenProperties
<1>3. PICK E : E = {i \in 0..n : f[i] = g[i]}
  OBVIOUS
<1>4. 0 \in E
  BY <1>3 DEF KeptUpTo
<1>5. ASSUME NEW i \in 1..n, i - 1 \in E PROVE i \in E
  <2>1. i \in 1..m /\ f[i - 1] = g[i - 1]
    BY <1>1, <1>2, <1>3, <1>5
  <2>2. f[i] = IF i \in P THEN Append(f[i - 1], q[i]) ELSE f[i - 1]
    BY <1>1 DEF KeptUpTo
  <2>3. g[i] = IF i \in R THEN Append(g[i - 1], r[i]) ELSE g[i - 1]
    BY <1>2, <2>1 DEF KeptUpTo
  <2>4. q[i] = r[i] /\ (i \in P <=> i \in R)
    BY <1>1
  <2> QED
    BY <1>3, <2>1, <2>2, <2>3, <2>4
<1>6. 0..n \subseteq E
  BY <1>4, <1>5, UpTo
<1> QED
  BY <1>1, <1>3, <1>6

\* What is kept of a longer sequence starts with what is kept of its beginning.
LEMMA KeptOfPrefix ==
    ASSUME NEW T, NEW q \in Seq(T), NEW r \in Seq(T), NEW P, NEW R, NEW g,
           KeptUpTo(r, R, g), Len(q) <= Len(r),
           \A i \in 1..Len(q) : q[i] = r[i] /\ (i \in P <=> i \in R)
    PROVE  Kept(q, P) = g[Len(q)]
<1>1. PICK f : KeptUpTo(q, P, f) /\ Kept(q, P) = f[Len(q)]
  BY KeptIs
<1>2. Len(q) \in 0..Len(q)
  BY LenProperties
<1> QED
  BY <1>1, <1>2, KeptAgree

LEMMA KeptStep ==
    ASSUME NEW T, NEW q \in Seq(T), NEW r \in Seq(T), NEW P, NEW R,
           Len(r) = Len(q) + 1,
           \A i \in 1..Len(q) : q[i] = r[i] /\ (i \in P <=> i \in R)
    PROVE  Kept(r, R) = IF Len(r) \in R THEN Append(Kept(q, P), r[Len(r)]) ELSE Kept(q, P)
<1>1. PICK g : KeptUpTo(r, R, g) /\ Kept(r, R) = g[Len(r)]
  BY KeptIs
<1>2. PICK n \in Nat : n = Len(q)
  BY LenProperties
<1>3. Len(r) = n + 1 /\ n + 1 \in 1..(n + 1) /\ (n + 1) - 1 = n /\ n <= n + 1
  BY <1>2
<1>4. Kept(q, P) = g[n]
  BY <1>1, <1>2, <1>3, KeptOfPrefix
<1>5. g[n + 1] = IF n + 1 \in R THEN Append(g[n], r[n + 1]) ELSE g[n]
  BY <1>1, <1>3 DEF KeptUpTo
<1> QED
  BY <1>1, <1>3, <1>4, <1>5

Begins(a, b) == Len(a) <= Len(b) /\ \A j \in 1..Len(a) : b[j] = a[j]

\* The recursion only appends.
LEMMA KeptGrows ==
    ASSUME NEW T, NEW q \in Seq(T), NEW P, NEW f \in [0..Len(q) -> Seq(T)], KeptUpTo(q, P, f),
           NEW m \in 0..Len(q)
    PROVE  \A i \in m..Len(q) : Begins(f[m], f[i])
<1>1. PICK n \in Nat : n = Len(q)
  BY LenProperties
<1>2. PICK E : E = {i \in 0..n : m <= i => /\ Len(f[m]) <= Len(f[i])
                                         /\ \A j \in 1..Len(f[m]) : f[i][j] = f[m][j]}
  OBVIOUS
<1>3. m \in 0..n /\ \A i \in 0..n : f[i] \in Seq(T) /\ Len(f[i]) \in Nat
  BY <1>1, LenProperties
<1>4. 0 \in E
  BY <1>2, <1>3
<1>5. ASSUME NEW i \in 1..n, i - 1 \in E PROVE i \in E
  <2>1. CASE m <= i - 1
    <3>1. /\ Len(f[m]) <= Len(f[i - 1])
          /\ \A j \in 1..Len(f[m]) : f[i - 1][j] = f[m][j]
      BY <1>2, <1>5, <2>1
    <3>2. f[i] = IF i \in P THEN Append(f[i - 1], q[i]) ELSE f[i - 1]
      BY <1>1 DEF KeptUpTo
    <3>3. i - 1 \in 0..n /\ q[i] \in T
      BY <1>1, ElementOfSeq
    <3>4. PICK a \in Seq(T) : a = f[i - 1]
      BY <1>3, <3>3
    <3>5. /\ Len(Append(a, q[i])) = Len(a) + 1
          /\ \A j \in 1..Len(a) : Append(a, q[i])[j] = a[j]
      BY <3>3, AppendProperties
    <3>6. PICK l \in Nat : l = Len(f[m])
      BY <1>3
    <3>7. Len(a) \in Nat /\ l <= Len(a)
      BY <1>3, <3>1, <3>3, <3>4, <3>6
    <3>8. PICK b : b = f[i]
      OBVIOUS
    <3>9. b = IF i \in P THEN Append(a, q[i]) ELSE a
      BY <3>2, <3>4, <3>8
    <3>10. l <= Len(b) /\ \A j \in 1..l : b[j] = a[j]
      <4>1. CASE i \in P
        BY <3>5, <3>7, <3>9, <4>1
      <4>2. CASE i \notin P
        BY <3>7, <3>9, <4>2
      <4> QED
        BY <4>1, <4>2
    <3> QED
      BY <1>2, <3>1, <3>4, <3>6, <3>8, <3>10
  <2>2. CASE m = i
    BY <1>2, <1>3, <2>2
  <2>3. CASE i < m
    BY <1>2, <1>3, <2>3
  <2> QED
    BY <1>3, <2>1, <2>2, <2>3
<1>6. 0..n \subseteq E
  BY <1>4, <1>5, UpTo
<1>7. \A i \in m..n : i \in E /\ m <= i
  BY <1>3, <1>6
<1> QED
  BY <1>1, <1>2, <1>7 DEF Begins

-----------------------------------------------------------------------------
(* What a same-session strategy decides                                    *)

\* What a same-session strategy is shown: a session that has begun.
Watching(v) == Shown(v) /\ v.pos \in Positions({RiskOn}) /\ Session(v) # None

\* The entry signal of family f, from the session's bars q and the draw alone.
Signal(f, drawn, q) ==
    CASE f = "orb" -> HasRange(q) /\ OrbEntry(q)
      [] f = "orb_retest" -> RetestEntry(q)
      [] f = "gap_continuation" ->
             Close(q) > q[1].o /\ \A i \in DOMAIN Earlier(q) : Earlier(q)[i].c <= q[1].o
      [] f = "vwap_reversion" -> ReversionEntry(q)
      [] f = "vwap_trend" -> TrendEntry(q)
      [] f = "late_session" -> LateEntry(q)
      [] f = "rsi2_intraday" -> OversoldEntry(q)
      [] f = "random_matched" ->
             /\ drawn # 0 /\ Last(q).slot >= drawn
             /\ \A i \in DOMAIN Earlier(q) : Earlier(q)[i].slot < drawn
      [] f = "time_of_day" -> Last(q).slot = OpeningRange
      [] f = "unconditional" -> Last(q).slot = OpeningRange

\* The three things a session rule may do.
Sells(v, o) == RiskOn \in DOMAIN v.pos /\ o = <<Sale(v.pos, RiskOn)>>
Enters(v, o) == /\ RiskOn \notin DOMAIN v.pos /\ InWindow(Last(Session(v)))
                /\ o = Entry(RiskOn, v.equity, Close(Session(v)))

LEMMA SessionRuleIs ==
    ASSUME NEW v, NEW exit, NEW entry
    PROVE  \/ SessionRule(v, exit, entry) = None
           \/ Sells(v, SessionRule(v, exit, entry))
           \/ Enters(v, SessionRule(v, exit, entry)) /\ entry /\ ~v.half
<1>1. PICK q : q = Session(v)
  OBVIOUS
<1>2. PICK o : o = SessionRule(v, exit, entry)
  OBVIOUS
<1>3. CASE RiskOn \in DOMAIN v.pos
  BY <1>1, <1>2, <1>3 DEF SessionRule, Sells
<1>4. CASE RiskOn \notin DOMAIN v.pos
  BY <1>1, <1>2, <1>4 DEF SessionRule, Enters
<1> QED
  BY <1>2, <1>3, <1>4

LEMMA IntradayDecisionIs ==
    ASSUME NEW v, NEW f \in IntradayFamilies
    PROVE  \/ IntradayDecision(f, v) = None
           \/ Sells(v, IntradayDecision(f, v))
           \/ Enters(v, IntradayDecision(f, v)) /\ Signal(f, v.draw, Session(v))
<1>1. PICK q : q = Session(v)
  OBVIOUS
<1>2. CASE f = "orb"
  <2>1. PICK exit : exit = (Last(q).l <= RangeLow(q))
    OBVIOUS
  <2>2. \/ OrbIntraday(v) = None
        \/ OrbIntraday(v) = SessionRule(v, exit, OrbEntry(q)) /\ (v.half \/ HasRange(q))
    BY <1>1, <2>1 DEF OrbIntraday, NeedsRange
  <2>3. CASE OrbIntraday(v) = None
    BY <1>2, <2>3 DEF IntradayDecision
  <2>4. CASE OrbIntraday(v) = SessionRule(v, exit, OrbEntry(q)) /\ (v.half \/ HasRange(q))
    <3>1. PICK o : o = OrbIntraday(v)
      OBVIOUS
    <3>2. o = None \/ Sells(v, o) \/ (Enters(v, o) /\ OrbEntry(q) /\ HasRange(q))
      BY <2>4, <3>1, SessionRuleIs
    <3>3. IntradayDecision(f, v) = o
      BY <1>2, <3>1 DEF IntradayDecision
    <3>4. OrbEntry(q) /\ HasRange(q) => Signal(f, v.draw, Session(v))
      BY <1>1, <1>2 DEF Signal
    <3> QED
      BY <3>2, <3>3, <3>4
  <2> QED
    BY <2>2, <2>3, <2>4
<1>3. CASE f = "orb_retest"
  <2>1. PICK exit : exit = (Last(q).l <= RangeLow(q) \/ StoppedOut(v))
    OBVIOUS
  <2>2. OpeningRangeRetest(v) = None \/ OpeningRangeRetest(v) = SessionRule(v, exit, RetestEntry(q))
    BY <1>1, <2>1 DEF OpeningRangeRetest, NeedsRange
  <2> QED
    BY <1>1, <1>3, <2>2, SessionRuleIs DEF IntradayDecision, Signal
<1>4. CASE f = "gap_continuation"
  <2>1. PICK exit : exit = (StoppedOut(v) \/ Close(q) < q[1].o)
    OBVIOUS
  <2>2. GapContinuation(v) = None \/ GapContinuation(v) = SessionRule(v, exit, GapEntry(v, q))
    BY <1>1, <2>1 DEF GapContinuation
  <2>3. GapEntry(v, q) => Signal(f, v.draw, q)
    BY <1>4 DEF GapEntry, Signal
  <2> QED
    BY <1>1, <1>4, <2>2, <2>3, SessionRuleIs DEF IntradayDecision
<1>5. CASE f = "vwap_reversion"
  BY <1>1, <1>5, SessionRuleIs DEF IntradayDecision, Signal, VwapReversion
<1>6. CASE f = "vwap_trend"
  BY <1>1, <1>6, SessionRuleIs DEF IntradayDecision, Signal, VwapTrend
<1>7. CASE f = "late_session"
  BY <1>1, <1>7, SessionRuleIs DEF IntradayDecision, Signal, LateSession
<1>8. CASE f = "rsi2_intraday"
  BY <1>1, <1>8, SessionRuleIs DEF IntradayDecision, Signal, Rsi2Intraday
<1>9. CASE f = "random_matched"
  BY <1>1, <1>9, SessionRuleIs DEF IntradayDecision, Signal, RandomMatched, RandomEntry
<1>10. CASE f \in {"time_of_day", "unconditional"}
  BY <1>1, <1>10, SessionRuleIs DEF IntradayDecision, Signal, TimeOfDayNull, UnconditionalLong
<1> QED
  BY <1>2, <1>3, <1>4, <1>5, <1>6, <1>7, <1>8, <1>9, <1>10 DEF IntradayFamilies

\* Of the session there are only bars of the one symbol it trades.
LEMMA SessionType ==
    ASSUME NEW v, Shown(v)
    PROVE  Session(v) \in Seq(BarRecords)
<1>1. PICK b \in Seq(BarRecords) : b = v.bars[RiskOn]
  BY UniverseIs DEF Shown
<1>2. \A i \in DOMAIN b : b[i] \in BarRecords
  BY <1>1, LenProperties, ElementOfSeq
<1>3. PICK P : P = {i \in DOMAIN b : b[i].day \in {v.day}}
  OBVIOUS
<1>4. Kept(b, P) \in Seq(BarRecords)
  BY <1>2, KeptType
<1> QED
  BY <1>1, <1>3, <1>4 DEF Session, OfDays

LEMMA NoBuys == OfSide(None, "buy") = {} /\ \A W : \A pp \in Positions(W) : \A s \in DOMAIN pp :
                    OfSide(<<Sale(pp, s)>>, "buy") = {}
  BY DEF OfSide, None, Sale, Order

\* It decides at most one entry at a time, and only on its signal.
LEMMA IntradayDecisionType ==
    ASSUME NEW v, Watching(v), NEW f \in IntradayFamilies
    PROVE  /\ IntradayDecision(f, v) \in Seq(OrdersOf({RiskOn}))
           /\ Len(IntradayDecision(f, v)) <= 1
           /\ \/ Cardinality(OfSide(IntradayDecision(f, v), "buy")) = 0
              \/ /\ Cardinality(OfSide(IntradayDecision(f, v), "buy")) = 1
                 /\ InWindow(Last(Session(v))) /\ Signal(f, v.draw, Session(v))
<1>1. PICK o : o = IntradayDecision(f, v)
  OBVIOUS
<1>2. v.pos \in Positions({RiskOn}) /\ Shown(v) /\ Session(v) # None /\ v.equity \in Int
  BY DEF Watching, Shown
<1>3. CASE o = None
  <2>1. Len(o) <= 1 /\ o \in Seq(OrdersOf({RiskOn}))
    BY <1>3, EmptySeq DEF None
  <2> QED
    BY <1>1, <1>3, <2>1, NoBuys, FS_EmptySet
<1>4. CASE Sells(v, o)
  <2>3. Len(o) <= 1
    BY <1>4 DEF Sells
  <2>1. o \in Seq(OrdersOf({RiskOn}))
    BY <1>2, <1>4, SaleType DEF Sells
  <2>2. OfSide(o, "buy") = {}
    BY <1>2, <1>4, NoBuys DEF Sells
  <2> QED
    BY <1>1, <2>1, <2>2, <2>3, FS_EmptySet
<1>5. CASE Enters(v, o) /\ Signal(f, v.draw, Session(v))
  <2>1. Close(Session(v)) \in Price
    BY <1>2, SessionType, CloseType
  <2>2. o \in Seq(OrdersOf({RiskOn}))
    BY <1>2, <1>5, <2>1, EntryType DEF Enters
  <2>3. o = None \/ OfSide(o, "buy") = {1}
    BY <1>5 DEF Enters, Entry, Order, OfSide
  <2>4. Cardinality(OfSide(o, "buy")) \in {0, 1}
    BY <2>3, NoBuys, FS_EmptySet, FS_Singleton
  <2>5. Len(o) <= 1
    BY <1>5 DEF Enters, Entry, None
  <2> QED
    BY <1>1, <1>5, <2>2, <2>4, <2>5 DEF Enters
<1> QED
  BY <1>1, <1>3, <1>4, <1>5, IntradayDecisionIs

-----------------------------------------------------------------------------
(* The kernel's books                                                      *)

BookSet(W) == [cash : Int, pos : Positions(W), filled : Nat, skipped : Nat]
Quotes(W) == UNION {[D -> Price] : D \in SUBSET W}

Handled(k) == k.filled + k.skipped
InTime(k) == \A s \in DOMAIN k.pos : k.pos[s].opened \in 1..day
\* A sale of one share at the lowest price pays for itself.
CheapSales == Commission <= 10 - Slip

\* What an order may make of the books: one more is handled, nothing is held
\* that was not held or quoted, no debt.
Follows(m, k, opens) ==
    /\ Handled(m) = Handled(k) + 1
    /\ DOMAIN m.pos \subseteq DOMAIN k.pos \cup DOMAIN opens
    /\ InTime(k) => InTime(m)
    /\ CheapSales /\ k.cash >= 0 => m.cash >= 0

LEMMA CostTypes ==
    /\ Slip \in Nat /\ 10 - Slip \in Nat /\ Commission \in Nat /\ InitialCash \in Nat
    /\ \A price, qty \in Price : /\ BuyFill(price) \in Nat /\ BuyFill(price) * qty \in Nat
                                 /\ SellFill(price) \in Nat /\ SellFill(price) * qty \in Nat
<1>1. Slip \in Nat /\ 10 - Slip \in Nat /\ 10 + Slip \in Nat /\ Commission \in Nat /\ InitialCash \in Nat
  BY BacktestAssumption
<1>2. ASSUME NEW price \in Price, NEW qty \in Price
      PROVE  /\ BuyFill(price) \in Nat /\ BuyFill(price) * qty \in Nat
             /\ SellFill(price) \in Nat /\ SellFill(price) * qty \in Nat
  <2>1. price \in Nat /\ qty \in Nat
    BY DEF Price
  <2>2. BuyFill(price) \in Nat /\ SellFill(price) \in Nat
    BY <1>1, <2>1, Products DEF BuyFill, SellFill
  <2> QED
    BY <2>1, <2>2, Products
<1> QED
  BY <1>1, <1>2

LEMMA SoldType ==
    ASSUME NEW W, NEW k \in BookSet(W), NEW s \in DOMAIN k.pos, NEW price \in Price, day \in Nat
    PROVE  /\ Sold(k, s, price) \in BookSet(W)
           /\ Sold(k, s, price).filled = k.filled + 1 /\ Sold(k, s, price).skipped = k.skipped
           /\ DOMAIN Sold(k, s, price).pos = DOMAIN k.pos \ {s}
           /\ InTime(k) => InTime(Sold(k, s, price))
           /\ CheapSales /\ k.cash >= 0 => Sold(k, s, price).cash >= 0
<1>1. k.cash \in Int /\ k.pos \in Positions(W) /\ k.filled \in Nat /\ k.skipped \in Nat
  BY DEF BookSet
<1>2. k.pos[s] \in Holding /\ DOMAIN k.pos \subseteq W
  BY <1>1, HeldTypes
<1>3. PICK n \in Price : n = k.pos[s].qty
  BY <1>2 DEF Holding
<1>4. PICK c : c = SellFill(price) * n
  OBVIOUS
<1>5. c \in Nat
  BY <1>4, CostTypes
<1>6. PICK pp : pp = Without(k.pos, s)
  OBVIOUS
<1>7. DOMAIN pp = DOMAIN k.pos \ {s} /\ \A t \in DOMAIN pp : pp[t] = k.pos[t]
  BY <1>6 DEF Without
<1>8. pp \in Positions(W)
  <2>1. PICK D : D = DOMAIN k.pos \ {s}
    OBVIOUS
  <2>2. pp = [t \in D |-> k.pos[t]]
    BY <1>6, <2>1 DEF Without
  <2>3. \A t \in D : k.pos[t] \in Holding
    BY <1>1, <2>1, HeldTypes
  <2>4. pp \in [D -> Holding] /\ D \in SUBSET W
    BY <1>2, <2>1, <2>2, <2>3
  <2> QED
    BY <2>4 DEF Positions
<1>9. PICK m : m = [k EXCEPT !.cash = k.cash + c - Commission, !.pos = pp, !.filled = k.filled + 1]
  OBVIOUS
<1>10. Sold(k, s, price) = m
  BY <1>3, <1>4, <1>6, <1>9 DEF Sold
<1>11. /\ m.cash = k.cash + c - Commission /\ m.pos = pp
       /\ m.filled = k.filled + 1 /\ m.skipped = k.skipped
       /\ m \in [cash : {m.cash}, pos : {m.pos}, filled : {m.filled}, skipped : {m.skipped}]
  BY <1>9 DEF BookSet
<1>12. m \in BookSet(W)
  BY <1>1, <1>5, <1>8, <1>11, CostTypes DEF BookSet
<1>13. InTime(k) => InTime(m)
  BY <1>7, <1>11 DEF InTime
<1>14. CheapSales => c - Commission >= 0
  <2>1. PICK r \in Nat : r = 10 - Slip
    BY CostTypes
  <2>2. price \in Nat /\ price >= 1 /\ n \in Nat /\ n >= 1
    BY DEF Price
  <2>3. \A a, b \in Nat : a >= 1 => a * b >= b
    BY SMT
  <2>4. price * r >= r /\ price * r \in Nat
    BY <2>1, <2>2, <2>3, Products
  <2>5. n * (price * r) >= price * r
    BY <2>2, <2>3, <2>4
  <2>6. \A a, b \in Nat : a * b = b * a
    BY SMT
  <2>7. c = (price * r) * n
    BY <1>4, <2>1 DEF SellFill
  <2>8. (price * r) * n = n * (price * r)
    BY <2>2, <2>4, <2>6
  <2>9. c >= r
    BY <1>5, <2>1, <2>4, <2>5, <2>7, <2>8
  <2> QED
    BY <1>5, <2>1, <2>9, CostTypes DEF CheapSales
<1>15. CheapSales /\ k.cash >= 0 => m.cash >= 0
  BY <1>1, <1>5, <1>11, <1>14, CostTypes
<1> QED
  BY <1>7, <1>10, <1>11, <1>12, <1>13, <1>15

LEMMA BoughtType ==
    ASSUME NEW W, NEW k \in BookSet(W), NEW o \in OrdersOf(W), NEW price \in Price,
           day \in Nat \ {0}
    PROVE  /\ Bought(k, o, price) \in BookSet(W)
           /\ Bought(k, o, price).filled = k.filled + 1 /\ Bought(k, o, price).skipped = k.skipped
           /\ DOMAIN Bought(k, o, price).pos = DOMAIN k.pos \cup {o.sym}
           /\ InTime(k) => InTime(Bought(k, o, price))
           /\ Affordable(k, o, price) => Bought(k, o, price).cash >= 0
<1>1. k.cash \in Int /\ k.pos \in Positions(W) /\ k.filled \in Nat /\ k.skipped \in Nat
  BY DEF BookSet
<1>2. o.sym \in W /\ o.qty \in Price /\ DOMAIN k.pos \subseteq W
  BY <1>1, HeldTypes DEF OrdersOf
<1>3. PICK c : c = BuyFill(price) * o.qty
  OBVIOUS
<1>4. c \in Nat /\ BuyFill(price) \in Nat
  BY <1>2, <1>3, CostTypes
<1>5. PICK new : new = [qty |-> o.qty, price |-> BuyFill(price), opened |-> day]
  OBVIOUS
<1>6. new \in Holding /\ new.opened = day
  BY <1>2, <1>4, <1>5 DEF Holding
<1>7. PICK D : D = DOMAIN k.pos \cup {o.sym}
  OBVIOUS
<1>8. PICK pp : pp = [t \in D |-> IF t = o.sym THEN new ELSE k.pos[t]]
  OBVIOUS
<1>9. DOMAIN pp = D /\ \A t \in D : pp[t] = IF t = o.sym THEN new ELSE k.pos[t]
  BY <1>8
<1>10. pp \in Positions(W)
  <2>1. \A t \in DOMAIN k.pos : k.pos[t] \in Holding
    BY <1>1, HeldTypes
  <2>2. pp \in [D -> Holding] /\ D \in SUBSET W
    BY <1>2, <1>6, <1>7, <1>8, <2>1
  <2> QED
    BY <2>2 DEF Positions
<1>11. PICK m : m = [k EXCEPT !.cash = k.cash - c - Commission, !.pos = pp, !.filled = k.filled + 1]
  OBVIOUS
<1>12. Bought(k, o, price) = m
  BY <1>3, <1>5, <1>7, <1>8, <1>11 DEF Bought
<1>13. /\ m.cash = k.cash - c - Commission /\ m.pos = pp
       /\ m.filled = k.filled + 1 /\ m.skipped = k.skipped
       /\ m \in [cash : {m.cash}, pos : {m.pos}, filled : {m.filled}, skipped : {m.skipped}]
  BY <1>11 DEF BookSet
<1>14. m \in BookSet(W)
  BY <1>1, <1>4, <1>10, <1>13, CostTypes DEF BookSet
<1>15. InTime(k) => InTime(m)
  BY <1>6, <1>7, <1>9, <1>13 DEF InTime
<1>16. Affordable(k, o, price) => m.cash >= 0
  BY <1>1, <1>3, <1>4, <1>13, CostTypes DEF Affordable
<1> QED
  BY <1>7, <1>9, <1>12, <1>13, <1>14, <1>15, <1>16

LEMMA FilledType ==
    ASSUME NEW W, NEW k \in BookSet(W), NEW o \in OrdersOf(W), NEW opens \in Quotes(W),
           day \in Nat \ {0}
    PROVE  Filled(k, o, opens) \in BookSet(W) /\ Follows(Filled(k, o, opens), k, opens)
<1>1. \A s \in DOMAIN opens : opens[s] \in Price
  BY DEF Quotes
<1>2. k.filled \in Nat /\ k.skipped \in Nat /\ k.cash \in Int
  BY DEF BookSet
<1>3. Skip(k) \in BookSet(W) /\ Follows(Skip(k), k, opens)
  <2>1. PICK m : m = [k EXCEPT !.skipped = k.skipped + 1]
    OBVIOUS
  <2>2. /\ m.cash = k.cash /\ m.pos = k.pos /\ m.filled = k.filled /\ m.skipped = k.skipped + 1
        /\ m \in BookSet(W)
    BY <1>2, <2>1 DEF BookSet
  <2>3. Skip(k) = m
    BY <2>1 DEF Skip
  <2>4. Follows(m, k, opens)
    BY <1>2, <2>2 DEF Follows, Handled, InTime
  <2> QED
    BY <2>2, <2>3, <2>4
<1>4. CASE o.side = "sell" /\ ~SellSkipped(k, o, opens)
  <2>1. PICK s \in DOMAIN k.pos : s = o.sym
    BY <1>4 DEF SellSkipped
  <2>2. PICK price \in Price : price = opens[s]
    BY <1>1, <1>4, <2>1 DEF SellSkipped
  <2>3. PICK m : m = Sold(k, s, price)
    OBVIOUS
  <2>4. /\ m \in BookSet(W) /\ m.filled = k.filled + 1 /\ m.skipped = k.skipped
        /\ DOMAIN m.pos = DOMAIN k.pos \ {s}
        /\ InTime(k) => InTime(m)
        /\ CheapSales /\ k.cash >= 0 => m.cash >= 0
    BY <2>3, SoldType
  <2>5. Filled(k, o, opens) = m
    BY <1>4, <2>1, <2>2, <2>3 DEF Filled
  <2>6. Follows(m, k, opens)
    BY <1>2, <2>4 DEF Follows, Handled
  <2> QED
    BY <2>4, <2>5, <2>6
<1>5. CASE o.side # "sell" /\ ~BuySkipped(k, o, opens)
  <2>1. o.sym \in DOMAIN opens /\ Affordable(k, o, opens[o.sym])
    BY <1>5 DEF BuySkipped
  <2>2. PICK price \in Price : price = opens[o.sym]
    BY <1>1, <2>1
  <2>3. PICK m : m = Bought(k, o, price)
    OBVIOUS
  <2>4. /\ m \in BookSet(W) /\ m.filled = k.filled + 1 /\ m.skipped = k.skipped
        /\ DOMAIN m.pos = DOMAIN k.pos \cup {o.sym}
        /\ InTime(k) => InTime(m)
        /\ m.cash >= 0
    BY <2>1, <2>2, <2>3, BoughtType
  <2>5. Filled(k, o, opens) = m
    BY <1>5, <2>2, <2>3 DEF Filled
  <2>6. Follows(m, k, opens)
    BY <1>2, <2>1, <2>4 DEF Follows, Handled
  <2> QED
    BY <2>4, <2>5, <2>6
<1>6. CASE o.side = "sell" /\ SellSkipped(k, o, opens)
  BY <1>3, <1>6 DEF Filled
<1>7. CASE o.side # "sell" /\ BuySkipped(k, o, opens)
  BY <1>3, <1>7 DEF Filled
<1> QED
  BY <1>4, <1>5, <1>6, <1>7

\* FilledAll, place by place.
LEMMA FilledAllIs ==
    ASSUME NEW W, NEW k \in BookSet(W), NEW q \in Seq(OrdersOf(W)), NEW P, NEW opens \in Quotes(W),
           day \in Nat \ {0}
    PROVE  \E f \in [0..Len(q) -> BookSet(W)] :
              /\ f[0] = k
              /\ \A i \in 1..Len(q) : f[i] = (IF i \in P THEN Filled(f[i - 1], q[i], opens) ELSE f[i - 1])
              /\ FilledAll(k, q, P, opens) = f[Len(q)]
<1> DEFINE Chosen == CHOOSE f : f = [i \in 0..Len(q) |-> IF i = 0 THEN k ELSE (IF i \in P THEN Filled(f[i - 1], q[i], opens) ELSE f[i - 1])]
<1>1. FilledAll(k, q, P, opens) = Chosen[Len(q)]
  BY DEF FilledAll
<1> HIDE DEF Chosen
<1>2. PICK n \in Nat : n = Len(q)
  BY LenProperties
<1>3. PICK S : S = BookSet(W)
  OBVIOUS
<1>4. PICK b \in S : b = k
  BY <1>3, SMT
<1>5. ASSUME NEW i \in 1..n, NEW x \in S PROVE (IF i \in P THEN Filled(x, q[i], opens) ELSE x) \in S
  <2>1. q[i] \in OrdersOf(W)
    BY <1>2, ElementOfSeq
  <2> QED
    BY <1>3, <2>1, FilledType
<1>6. PICK h : h = [i \in 1..n |-> [x \in S |-> (IF i \in P THEN Filled(x, q[i], opens) ELSE x)]]
  OBVIOUS
<1>7. h \in [1..n -> [S -> S]]
  BY <1>5, <1>6
<1>8. PICK f : Iterates(f, n, S, b, h)
  BY <1>7, Recursion
<1>9. f \in [0..n -> S] /\ f[0] = b /\ \A i \in 1..n : f[i] = h[i][f[i - 1]]
  BY <1>8 DEF Iterates
<1>10. ASSUME NEW i \in 1..n PROVE f[i] = (IF i \in P THEN Filled(f[i - 1], q[i], opens) ELSE f[i - 1])
  <2>1. i - 1 \in 0..n /\ f[i - 1] \in S
    BY <1>9
  <2>2. PICK x \in S : x = f[i - 1]
    BY <2>1
  <2>3. h[i][x] = (IF i \in P THEN Filled(x, q[i], opens) ELSE x)
    BY <1>6
  <2> QED
    BY <1>9, <2>2, <2>3
<1>11. f = [i \in 0..n |-> IF i = 0 THEN k ELSE (IF i \in P THEN Filled(f[i - 1], q[i], opens) ELSE f[i - 1])]
  <2>1. f = [i \in 0..n |-> f[i]]
    BY <1>9
  <2>2. \A i \in 0..n : i = 0 \/ i \in 1..n
    OBVIOUS
  <2> QED
    BY <1>4, <1>9, <1>10, <2>1, <2>2
<1>12. Chosen = [i \in 0..n |-> IF i = 0 THEN k ELSE (IF i \in P THEN Filled(Chosen[i - 1], q[i], opens) ELSE Chosen[i - 1])]
  BY <1>2, <1>11 DEF Chosen
<1>13. PICK E : E = {i \in 0..n : Chosen[i] = f[i]}
  OBVIOUS
<1>14. 0..n \subseteq E
  <2>1. 0 \in E
    BY <1>4, <1>9, <1>12, <1>13
  <2>2. ASSUME NEW i \in 1..n, i - 1 \in E PROVE i \in E
    <3>1. Chosen[i - 1] = f[i - 1] /\ i \in 0..n /\ i # 0
      BY <1>13, <2>2
    <3>2. Chosen[i] = (IF i \in P THEN Filled(f[i - 1], q[i], opens) ELSE f[i - 1])
      BY <1>12, <3>1
    <3> QED
      BY <1>10, <1>13, <3>1, <3>2
  <2> QED
    BY <2>1, <2>2, UpTo
<1>15. Chosen[n] = f[n]
  BY <1>13, <1>14
<1> QED
  BY <1>1, <1>2, <1>3, <1>4, <1>9, <1>10, <1>15

\* Among the places up to i there is one more than up to i - 1, or not.
LEMMA OneMorePlace ==
    ASSUME NEW n \in Nat, NEW i \in 1..n, NEW P
    PROVE  /\ Cardinality(P \cap (1..(i - 1))) \in Nat
           /\ Cardinality(P \cap (1..i)) =
                  Cardinality(P \cap (1..(i - 1))) + (IF i \in P THEN 1 ELSE 0)
<1>1. PICK Q : Q = P \cap (1..(i - 1))
  OBVIOUS
<1>2. Q \subseteq 1..(i - 1) /\ i - 1 \in Int
  BY <1>1
<1>3. IsFiniteSet(1..(i - 1))
  BY <1>2, FS_Interval
<1>4. IsFiniteSet(Q)
  BY <1>2, <1>3, FS_Subset
<1>5. Cardinality(Q) \in Nat
  BY <1>4, FS_CardinalityType
<1>6. i \notin P => P \cap (1..i) = Q
  BY <1>1
<1>7. i \in P => P \cap (1..i) = Q \cup {i}
  BY <1>1
<1>8. Cardinality(Q \cup {i}) = Cardinality(Q) + 1
  BY <1>1, <1>4, FS_AddElement
<1>9. CASE i \in P
  <2>1. Cardinality(P \cap (1..i)) = Cardinality(Q) + 1
    BY <1>7, <1>8, <1>9
  <2> QED
    BY <1>1, <1>5, <1>9, <2>1
<1>10. CASE i \notin P
  <2>1. Cardinality(P \cap (1..i)) = Cardinality(Q)
    BY <1>6, <1>10
  <2> QED
    BY <1>1, <1>5, <1>10, <2>1
<1> QED
  BY <1>9, <1>10

LEMMA FilledAllType ==
    ASSUME NEW W, NEW k \in BookSet(W), NEW q \in Seq(OrdersOf(W)), NEW P \in SUBSET DOMAIN q,
           NEW opens \in Quotes(W), day \in Nat \ {0}
    PROVE  /\ FilledAll(k, q, P, opens) \in BookSet(W)
           /\ Handled(FilledAll(k, q, P, opens)) = Handled(k) + Cardinality(P)
           /\ DOMAIN FilledAll(k, q, P, opens).pos \subseteq DOMAIN k.pos \cup DOMAIN opens
           /\ InTime(k) => InTime(FilledAll(k, q, P, opens))
           /\ CheapSales /\ k.cash >= 0 => FilledAll(k, q, P, opens).cash >= 0
<1>1. PICK n \in Nat : n = Len(q) /\ DOMAIN q = 1..n
  BY LenProperties
<1>a. PICK f \in [0..Len(q) -> BookSet(W)] :
          /\ f[0] = k
          /\ \A i \in 1..Len(q) :
                f[i] = (IF i \in P THEN Filled(f[i - 1], q[i], opens) ELSE f[i - 1])
          /\ FilledAll(k, q, P, opens) = f[Len(q)]
  BY FilledAllIs
<1>2. /\ f \in [0..n -> BookSet(W)] /\ f[0] = k
      /\ \A i \in 1..n : f[i] = IF i \in P THEN Filled(f[i - 1], q[i], opens) ELSE f[i - 1]
      /\ FilledAll(k, q, P, opens) = f[n]
  BY <1>1, <1>a
<1> DEFINE Good(i) == /\ Handled(f[i]) = Handled(k) + Cardinality(P \cap (1..i))
                      /\ DOMAIN f[i].pos \subseteq DOMAIN k.pos \cup DOMAIN opens
                      /\ InTime(k) => InTime(f[i])
                      /\ CheapSales /\ k.cash >= 0 => f[i].cash >= 0
<1>3. PICK E : E = {i \in 0..n : Good(i)}
  OBVIOUS
<1>4. 0 \in E
  <2>1. P \cap (1..0) = {}
    OBVIOUS
  <2>2. Handled(k) \in Nat
    BY DEF Handled, BookSet
  <2>3. Cardinality(P \cap (1..0)) = 0
    BY <2>1, FS_EmptySet
  <2>4. Good(0)
    BY <1>2, <2>2, <2>3
  <2>5. 0 \in 0..n
    OBVIOUS
  <2> QED
    BY <1>3, <2>4, <2>5
<1>5. ASSUME NEW i \in 1..n, i - 1 \in E PROVE i \in E
  <2>1. PICK j \in 0..n : j = i - 1
    OBVIOUS
  <2>2. Good(j)
    BY <1>3, <1>5, <2>1
  <2>3. PICK x \in BookSet(W) : x = f[j]
    BY <1>2
  <2>4. PICK c \in Nat : c = Cardinality(P \cap (1..j))
    BY <2>1, OneMorePlace
  <2>5. /\ Handled(x) = Handled(k) + c /\ DOMAIN x.pos \subseteq DOMAIN k.pos \cup DOMAIN opens
        /\ InTime(k) => InTime(x)
        /\ CheapSales /\ k.cash >= 0 => x.cash >= 0
    BY <2>2, <2>3, <2>4
  <2>6. Cardinality(P \cap (1..i)) = c + (IF i \in P THEN 1 ELSE 0)
    BY <2>1, <2>4, OneMorePlace
  <2>7. PICK y : y = f[i]
    OBVIOUS
  <2>8. y = IF i \in P THEN Filled(x, q[i], opens) ELSE x
    BY <1>2, <2>1, <2>3, <2>7
  <2>9. Handled(k) \in Nat /\ Handled(x) \in Nat
    BY DEF Handled, BookSet
  <2>10. CASE i \in P
    <3>1. Follows(y, x, opens)
      BY <1>1, <2>8, <2>10, ElementOfSeq, FilledType
    <3>2. /\ Handled(y) = Handled(k) + (c + 1)
          /\ DOMAIN y.pos \subseteq DOMAIN k.pos \cup DOMAIN opens
          /\ InTime(k) => InTime(y)
          /\ CheapSales /\ k.cash >= 0 => y.cash >= 0
      BY <2>5, <2>9, <3>1 DEF Follows
    <3>3. Good(i)
      BY <2>6, <2>7, <2>10, <3>2
    <3> QED
      BY <1>3, <3>3
  <2>11. CASE i \notin P
    <3>1. Good(i)
      BY <2>5, <2>6, <2>7, <2>8, <2>9, <2>11
    <3> QED
      BY <1>3, <3>1
  <2> QED
    BY <2>10, <2>11
<1>6. 0..n \subseteq E
  BY <1>4, <1>5, UpTo
<1>7. Good(n)
  BY <1>3, <1>6
<1>8. P \cap (1..n) = P
  BY <1>1
<1>9. f[n] \in BookSet(W)
  BY <1>2
<1> QED
  BY <1>2, <1>7, <1>8, <1>9

-----------------------------------------------------------------------------
(* A drain handles every order it takes, and leaves the others             *)

LEMMA PlacesFinite ==
    ASSUME NEW T, NEW q \in Seq(T), NEW P \in SUBSET DOMAIN q
    PROVE  IsFiniteSet(P) /\ Cardinality(P) \in Nat
<1>1. P \subseteq 1..Len(q) /\ Len(q) \in Nat
  BY LenProperties
<1>2. IsFiniteSet(1..Len(q))
  BY <1>1, FS_Interval
<1> QED
  BY <1>1, <1>2, FS_Subset, FS_CardinalityType

LEMMA PlacesCount == ASSUME NEW T, NEW q \in Seq(T) PROVE Cardinality(DOMAIN q) = Len(q)
<1>1. PICK n \in Nat : n = Len(q) /\ DOMAIN q = 1..n
  BY LenProperties
<1>2. Cardinality(1..n) = n
  BY FS_Interval
<1> QED
  BY <1>1, <1>2

LEMMA PlacesParted ==
    ASSUME NEW T, NEW q \in Seq(T), NEW P, NEW R, P \cup R \subseteq DOMAIN q, P \cap R = {}
    PROVE  Cardinality(P \cup R) = Cardinality(P) + Cardinality(R)
<1>1. IsFiniteSet(P) /\ IsFiniteSet(R) /\ Cardinality(P) \in Nat /\ Cardinality(R) \in Nat
  BY PlacesFinite
<1>2. Cardinality(P \cup R) = Cardinality(P) + Cardinality(R) - Cardinality(P \cap R)
  BY <1>1, FS_Union
<1>3. Cardinality(P \cap R) = 0
  BY FS_EmptySet
<1> QED
  BY <1>1, <1>2, <1>3

LEMMA DrainedType ==
    ASSUME NEW W, Books \in BookSet(W), NEW q \in Seq(OrdersOf(W)), NEW opens \in Quotes(W),
           day \in Nat \ {0}
    PROVE  /\ Drained(q, opens) \in BookSet(W)
           /\ Retained(q, opens) \in Seq(OrdersOf(W))
           /\ Handled(Drained(q, opens)) + Len(Retained(q, opens)) = Len(q)
           /\ DOMAIN Drained(q, opens).pos \subseteq DOMAIN pos \cup DOMAIN opens
           /\ InTime(Books) => InTime(Drained(q, opens))
           /\ CheapSales /\ cash >= 0 => Drained(q, opens).cash >= 0
<1>1. PICK k \in BookSet(W) : k = Books
  OBVIOUS
<1>2. Handled(k) = 0 /\ k.pos = pos /\ k.cash = cash
  BY <1>1 DEF Books, Handled
<1>3. PICK due \in SUBSET DOMAIN q : due = Drainable(q, opens)
  BY DEF Drainable
<1>4. PICK S \in SUBSET DOMAIN q : S = due \cap OfSide(q, "sell")
  BY DEF OfSide
<1>5. PICK B \in SUBSET DOMAIN q : B = due \cap OfSide(q, "buy")
  BY DEF OfSide
<1>6. PICK w \in SUBSET DOMAIN q : w = Waiting(q, opens)
  BY DEF Waiting
<1>7. due \cup w = DOMAIN q /\ due \cap w = {}
  BY <1>3, <1>6 DEF Drainable
<1>8. S \cup B = due /\ S \cap B = {}
  <2>a. \A i \in DOMAIN q : q[i] \in OrdersOf(W)
    BY LenProperties, ElementOfSeq
  <2>1. \A i \in DOMAIN q : q[i].side \in {"buy", "sell"}
    BY <2>a DEF OrdersOf
  <2> QED
    BY <1>3, <1>4, <1>5, <2>1 DEF OfSide
<1>9. Len(q) = Cardinality(S) + Cardinality(B) + Cardinality(w)
  <2>1. Cardinality(due) = Cardinality(S) + Cardinality(B)
    BY <1>8, PlacesParted
  <2>2. Len(q) = Cardinality(due) + Cardinality(w)
    <3>1. due \cup w \subseteq DOMAIN q
      OBVIOUS
    <3>2. due \cap w = {}
      BY <1>7
    <3>3. Cardinality(due \cup w) = Cardinality(due) + Cardinality(w)
      BY <3>1, <3>2, PlacesParted
    <3>4. Cardinality(DOMAIN q) = Len(q)
      BY PlacesCount
    <3>5. Cardinality(due \cup w) = Len(q)
      BY <1>7, <3>4
    <3> QED
      BY <3>3, <3>5
  <2> QED
    BY <2>1, <2>2
<1>t. ASSUME NEW z \in BookSet(W), NEW P \in SUBSET DOMAIN q, NEW m, m = FilledAll(z, q, P, opens)
      PROVE  /\ m \in BookSet(W) /\ Handled(m) = Handled(z) + Cardinality(P)
             /\ DOMAIN m.pos \subseteq DOMAIN z.pos \cup DOMAIN opens
             /\ InTime(z) => InTime(m)
             /\ CheapSales /\ z.cash >= 0 => m.cash >= 0
  <2>1. FilledAll(z, q, P, opens) \in BookSet(W)
    BY FilledAllType
  <2>2. Handled(FilledAll(z, q, P, opens)) = Handled(z) + Cardinality(P)
    BY FilledAllType
  <2>d. DOMAIN FilledAll(z, q, P, opens).pos \subseteq DOMAIN z.pos \cup DOMAIN opens
    BY FilledAllType
  <2>3. /\ InTime(z) => InTime(FilledAll(z, q, P, opens))
        /\ CheapSales /\ z.cash >= 0 => FilledAll(z, q, P, opens).cash >= 0
    BY FilledAllType
  <2> QED
    BY <1>t, <2>1, <2>2, <2>3, <2>d
<1>10. PICK x : x = FilledAll(k, q, S, opens)
  OBVIOUS
<1>11. /\ x \in BookSet(W) /\ Handled(x) = Handled(k) + Cardinality(S)
       /\ DOMAIN x.pos \subseteq DOMAIN k.pos \cup DOMAIN opens
       /\ InTime(k) => InTime(x)
       /\ CheapSales /\ k.cash >= 0 => x.cash >= 0
  BY <1>t, <1>10
<1>12. PICK y : y = FilledAll(x, q, B, opens)
  OBVIOUS
<1>13. /\ y \in BookSet(W) /\ Handled(y) = Handled(x) + Cardinality(B)
       /\ DOMAIN y.pos \subseteq DOMAIN x.pos \cup DOMAIN opens
       /\ InTime(x) => InTime(y)
       /\ CheapSales /\ x.cash >= 0 => y.cash >= 0
  BY <1>t, <1>11, <1>12
<1>14. Drained(q, opens) = y
  BY <1>1, <1>3, <1>4, <1>5, <1>10, <1>12 DEF Drained
<1>15. Retained(q, opens) = Kept(q, w)
  BY <1>6 DEF Retained
<1>16. Len(Kept(q, w)) = Cardinality(w)
  <2>1. w \cap DOMAIN q = w
    OBVIOUS
  <2> QED
    BY <2>1, KeptLength
<1>17. Kept(q, w) \in Seq(OrdersOf(W))
  <2>1. \A i \in w \cap DOMAIN q : q[i] \in OrdersOf(W)
    BY LenProperties, ElementOfSeq
  <2> QED
    BY <2>1, KeptType
<1>18. Handled(y) + Cardinality(w) = Len(q)
  BY <1>2, <1>9, <1>11, <1>13, PlacesFinite
<1>19. DOMAIN y.pos \subseteq DOMAIN pos \cup DOMAIN opens
  BY <1>2, <1>11, <1>13
<1> QED
  BY <1>1, <1>2, <1>11, <1>13, <1>14, <1>15, <1>16, <1>17, <1>18, <1>19

-----------------------------------------------------------------------------
(* The end of a session                                                    *)

LEMMA NothingInOrder == InOrder({}) = None
  BY InOrderType, EmptySeq DEF None

LEMMA RiskOnInOrder == InOrder({RiskOn}) = <<RiskOn>>
<1>1. PICK q \in Seq({RiskOn}) : q = InOrder({RiskOn})
  BY InOrderType
<1>2. PICK P : P = {i \in DOMAIN Universe : Universe[i] \in {RiskOn}}
  OBVIOUS
<1>3. Len(q) = Cardinality(P)
  <2>1. P \cap DOMAIN Universe = P
    BY <1>2
  <2> QED
    BY <1>1, <1>2, <2>1, UniverseIs, KeptLength DEF InOrder, Among
<1>4. P = {1}
  <2>1. 1 \in DOMAIN Universe
    BY UniverseIs
  <2> QED
    BY <1>2, <2>1, DailyAssumption DEF RiskOn
<1>5. Len(q) = 1
  BY <1>3, <1>4, FS_Singleton
<1>6. q \in [1..1 -> {RiskOn}]
  BY <1>5, LenProperties
<1>7. 1 \in 1..1 /\ q[1] = RiskOn
  BY <1>6
<1>8. q = [i \in 1..1 |-> RiskOn]
  BY <1>6
<1>9. <<RiskOn>> = [i \in 1..1 |-> RiskOn]
  OBVIOUS
<1> QED
  BY <1>1, <1>8, <1>9

LEMMA SoldOffOne ==
    ASSUME NEW k, NEW s
    PROVE  SoldOff(k, <<s>>) = Sold(k, s, Close(bars[s]))
<1>1. PICK q : q = <<s>>
  OBVIOUS
<1>2. Len(q) = 1 /\ q[1] = s
  BY <1>1
<1> DEFINE Chosen == CHOOSE f : f = [i \in 0..Len(q) |->
                        IF i = 0 THEN k ELSE Sold(f[i - 1], q[i], Close(bars[q[i]]))]
<1>3. SoldOff(k, q) = Chosen[1]
  BY <1>2 DEF SoldOff
<1>4. PICK m : m = Sold(k, s, Close(bars[s]))
  OBVIOUS
<1>5. PICK g : g = [i \in 0..1 |-> IF i = 0 THEN k ELSE m]
  OBVIOUS
<1>6. g = [i \in 0..Len(q) |-> IF i = 0 THEN k ELSE Sold(g[i - 1], q[i], Close(bars[q[i]]))]
  <2>1. g[0] = k
    BY <1>5
  <2>2. ASSUME NEW i \in 0..1
        PROVE  (IF i = 0 THEN k ELSE m)
                   = (IF i = 0 THEN k ELSE Sold(g[i - 1], q[i], Close(bars[q[i]])))
    <3>1. CASE i = 0
      BY <3>1
    <3>2. CASE i = 1
      <4>1. i - 1 = 0 /\ q[i] = s
        BY <1>2, <3>2
      <4>2. g[i - 1] = k
        BY <2>1, <4>1
      <4> QED
        BY <1>4, <3>2, <4>1, <4>2
    <3> QED
      BY <3>1, <3>2
  <2>3. 0..Len(q) = 0..1
    BY <1>2
  <2> QED
    BY <1>5, <2>2, <2>3
<1>7. Chosen = [i \in 0..Len(q) |->
                   IF i = 0 THEN k ELSE Sold(Chosen[i - 1], q[i], Close(bars[q[i]]))]
  BY <1>6
<1> HIDE DEF Chosen
<1>8. Chosen[0] = k
  BY <1>2, <1>7
<1>9. Chosen[1] = Sold(Chosen[0], q[1], Close(bars[q[1]]))
  <2>1. 1 \in 0..Len(q) /\ 1 # 0 /\ 1 - 1 = 0
    BY <1>2
  <2> QED
    BY <1>7, <2>1
<1> QED
  BY <1>1, <1>2, <1>3, <1>8, <1>9

LEMMA SoldOffNone ==
    ASSUME NEW k
    PROVE  SoldOff(k, None) = k
<1>1. PICK q : q = None
  OBVIOUS
<1>2. Len(q) = 0
  BY <1>1 DEF None
<1> DEFINE Chosen == CHOOSE f : f = [i \in 0..Len(q) |->
                        IF i = 0 THEN k ELSE Sold(f[i - 1], q[i], Close(bars[q[i]]))]
<1>3. SoldOff(k, q) = Chosen[0]
  BY <1>2 DEF SoldOff
<1>4. PICK g : g = [i \in 0..0 |-> k]
  OBVIOUS
<1>5. g = [i \in 0..Len(q) |-> IF i = 0 THEN k ELSE Sold(g[i - 1], q[i], Close(bars[q[i]]))]
  <2>1. 0..Len(q) = 0..0 /\ \A i \in 0..0 : i = 0
    BY <1>2
  <2> QED
    BY <1>4, <2>1
<1>6. Chosen = [i \in 0..Len(q) |->
                   IF i = 0 THEN k ELSE Sold(Chosen[i - 1], q[i], Close(bars[q[i]]))]
  BY <1>5
<1> HIDE DEF Chosen
<1>7. Chosen[0] = k
  BY <1>2, <1>6
<1> QED
  BY <1>1, <1>3, <1>7

LEMMA NoPositions == ASSUME NEW W, NEW p \in Positions(W), DOMAIN p = {} PROVE p = << >>
<1>1. p \in [{} -> Holding]
  BY DEF Positions
<1> QED
  BY <1>1

\* The session's flattening empties the books of the one symbol walked.
LEMMA FlattenedType ==
    ASSUME Books \in BookSet({RiskOn}), Liquidated = DOMAIN pos, day \in Nat,
           RiskOn \in DOMAIN pos => Close(bars[RiskOn]) \in Price
    PROVE  /\ SoldOff(Books, InOrder(Liquidated)) \in BookSet({RiskOn})
           /\ SoldOff(Books, InOrder(Liquidated)).pos = << >>
           /\ SoldOff(Books, InOrder(Liquidated)).filled = (IF Liquidated = {} THEN 0 ELSE 1)
           /\ CheapSales /\ cash >= 0 => SoldOff(Books, InOrder(Liquidated)).cash >= 0
<1>1. PICK k \in BookSet({RiskOn}) : k = Books
  OBVIOUS
<1>2. k.pos = pos /\ k.cash = cash /\ k.filled = 0
  BY <1>1 DEF Books
<1>3. PICK m : m = SoldOff(k, InOrder(Liquidated))
  OBVIOUS
<1>4. pos \in Positions({RiskOn}) /\ DOMAIN pos \subseteq {RiskOn}
  BY <1>2, HeldTypes DEF BookSet
<1>5. CASE RiskOn \in DOMAIN pos
  <2>1. Liquidated = {RiskOn}
    BY <1>4, <1>5
  <2>2. m = Sold(k, RiskOn, Close(bars[RiskOn]))
    BY <1>3, <2>1, RiskOnInOrder, SoldOffOne
  <2>3. PICK price \in Price : price = Close(bars[RiskOn])
    BY <1>5
  <2>4. RiskOn \in DOMAIN k.pos /\ m = Sold(k, RiskOn, price)
    BY <1>2, <1>5, <2>2, <2>3
  <2>5. /\ m \in BookSet({RiskOn}) /\ DOMAIN m.pos = DOMAIN k.pos \ {RiskOn}
        /\ m.filled = 0 + 1
        /\ CheapSales /\ k.cash >= 0 => m.cash >= 0
    BY <1>2, <2>4, SoldType
  <2>6. DOMAIN m.pos = {} /\ m.pos \in Positions({RiskOn})
    BY <1>2, <1>4, <2>5 DEF BookSet
  <2>7. m.pos = << >>
    BY <2>6, NoPositions
  <2> QED
    BY <1>1, <1>2, <1>3, <2>1, <2>5, <2>7
<1>6. CASE RiskOn \notin DOMAIN pos
  <2>1. DOMAIN pos = {} /\ Liquidated = {}
    BY <1>4, <1>6
  <2>2. m = k
    BY <1>3, <2>1, NothingInOrder, SoldOffNone
  <2>3. pos = << >>
    BY <1>4, <2>1, NoPositions
  <2> QED
    BY <1>1, <1>2, <1>3, <2>1, <2>2, <2>3
<1> QED
  BY <1>5, <1>6

-----------------------------------------------------------------------------
(* What the walk shows a strategy                                          *)

LEMMA EquityType ==
    ASSUME cash \in Int, NEW W, pos \in Positions(W), bars \in [Symbols -> Seq(BarRecords)],
           \A s \in DOMAIN pos : s \in Symbols /\ bars[s] # None
    PROVE  Equity \in Int
<1>1. ASSUME NEW s \in DOMAIN pos PROVE pos[s].qty * 10 * Close(bars[s]) \in Int
  <2>1. pos[s].qty \in Int
    BY HeldTypes DEF Holding, Price
  <2>2. pos[s].qty * 10 \in Int
    BY <2>1
  <2>3. Close(bars[s]) \in Int
    BY CloseType DEF Price
  <2> QED
    BY <2>2, <2>3, IntProducts
<1>2. PICK q : q = [i \in DOMAIN Universe |-> IF Universe[i] \notin DOMAIN pos THEN 0
                       ELSE pos[Universe[i]].qty * 10 * Close(bars[Universe[i]])]
  OBVIOUS
<1>3. q \in [1..Len(Universe) -> Int]
  <2>1. \A i \in DOMAIN Universe : Universe[i] \in DOMAIN pos =>
            pos[Universe[i]].qty * 10 * Close(bars[Universe[i]]) \in Int
    BY <1>1
  <2>2. \A i \in DOMAIN Universe : (IF Universe[i] \notin DOMAIN pos THEN 0
                       ELSE pos[Universe[i]].qty * 10 * Close(bars[Universe[i]])) \in Int
    BY <2>1
  <2> QED
    BY <1>2, <2>2, UniverseIs
<1>4. q \in Seq(Int)
  <2>1. PICK n \in Nat : n = Len(Universe)
    BY UniverseIs
  <2>2. [1..n -> Int] \subseteq Seq(Int)
    BY SeqDef
  <2> QED
    BY <1>3, <2>1, <2>2
<1>5. Equity = cash + Total(q)
  BY <1>2 DEF Equity
<1> QED
  BY <1>4, <1>5, TotalType

-----------------------------------------------------------------------------
(* The walk                                                                *)

Tallies == [decided : Nat, filled : Nat, skipped : Nat, forced : Nat]

Walking == /\ family \in Families /\ day \in 1..LastDay /\ slot \in 0..LastSlot
           /\ half \in BOOLEAN
           /\ phase \in {"open", "decide", "close", "night", "done"}

Booked == /\ bars \in [Symbols -> Seq(BarRecords)]
          /\ cash \in Int /\ pos \in Positions(Walked)
          /\ \A s \in DOMAIN pos : pos[s].opened \in 1..day /\ bars[s] # None
          /\ pending \in Seq(OrdersOf(Walked)) /\ tally \in Tallies

\* What a same-session strategy holds it has seen trade today, and it holds
\* nothing overnight; its decisions are taken on a bar of today, which has
\* emptied its queue, and are one order at most.
WithinSession ==
    /\ phase = "close" => SameSession
    /\ SameSession => /\ phase \in {"open", "decide", "close"} => \A s \in DOMAIN pos : Today(s)
                      /\ phase \in {"night", "done"} => pos = << >>
                      /\ phase = "decide" => Today(RiskOn) /\ Len(pending) = 0
                      /\ Len(pending) <= 1

WalkInv == Walking /\ Booked /\ WithinSession /\ OrdersAccounted

LEMMA WalkFacts ==
    /\ HalfSlots - 1 \in Nat /\ Slots - 1 \in Nat
    /\ MaxDays["daily"] \in Nat \ {0} /\ MaxDays["intraday"] \in Nat \ {0}
    /\ RiskOn \in Symbols
  BY UniverseIs, IntradayAssumption, BacktestAssumption

LEMMA WalkedIs ==
    /\ Walked \subseteq Symbols
    /\ SameSession => Walked = {RiskOn}
    /\ ~SameSession => Walked = Symbols
    /\ LastDay \in Nat \ {0} /\ LastSlot \in Nat
  BY WalkFacts DEF Walked, LastDay, LastSlot, Kind

LEMMA InitWalk == Init => WalkInv
<1> SUFFICES ASSUME Init PROVE WalkInv
  OBVIOUS
<1> USE DEF Init
<1>a. half \in BOOLEAN
  <2>1. half \in {FALSE} \/ half \in BOOLEAN
    BY DEF Halves
  <2> QED
    BY <2>1
<1>b. 1 \in 1..LastDay /\ 0 \in 0..LastSlot
  BY WalkedIs
<1>1. Walking
  BY <1>a, <1>b DEF Walking
<1>2. Booked
  <2>1. pos \in [{} -> Holding]
    OBVIOUS
  <2>2. pos \in Positions(Walked) /\ DOMAIN pos = {}
    BY <2>1 DEF Positions
  <2>3. pending \in Seq(OrdersOf(Walked)) /\ None \in Seq(BarRecords)
    BY EmptySeq DEF None
  <2>4. cash \in Int
    BY CostTypes
  <2>5. tally \in Tallies
    BY DEF Tallies
  <2> QED
    BY <2>2, <2>3, <2>4, <2>5 DEF Booked
<1>3. WithinSession
  BY EmptySeq DEF WithinSession, None
<1>4. OrdersAccounted
  BY EmptySeq DEF OrdersAccounted, None
<1> QED
  BY <1>1, <1>2, <1>3, <1>4 DEF WalkInv

LEMMA AdvanceIs ==
    ASSUME Walking, Advance, UNCHANGED walk
    PROVE  /\ Walking'
           /\ phase' = "close" => SameSession
           /\ phase' \in {"night", "done"} => ~SameSession
           /\ phase' # "decide"
<1>1. slot' \in 0..LastSlot
  BY WalkedIs DEF Advance, Walking
<1>2. LastSlot' = LastSlot /\ LastDay' = LastDay /\ SameSession' = SameSession
  BY DEF walk, LastSlot, LastDay, Kind, SameSession
<1> QED
  BY <1>1, <1>2 DEF Walking, Advance, walk

\* The bars that may be printed, and the prices they open at.
LEMMA QuotesType ==
    ASSUME Walking, NEW new \in [Walked -> Printable],
           \A s \in Walked : new[s] \in Candles[Kind][s] \cup {NoBar}
    PROVE  /\ Printed(new) \subseteq Walked
           /\ \A s \in Printed(new) : new[s] \in Candle /\ Stamped(new[s]) \in BarRecords
           /\ Opens(new) \in Quotes(Walked) /\ DOMAIN Opens(new) = Printed(new)
<1>1. Printed(new) \subseteq Walked
  BY DEF Printed
<1>2. ASSUME NEW s \in Printed(new) PROVE new[s] \in Candle
  <2>1. s \in Walked /\ new[s] \in Candles[Kind][s]
    BY DEF Printed
  <2>2. CASE SameSession
    <3>1. Kind = "intraday" /\ s = RiskOn
      BY <2>1, <2>2, WalkedIs DEF Kind
    <3> QED
      BY <2>1, <3>1, BacktestAssumption
  <2>3. CASE ~SameSession
    <3>1. Kind = "daily" /\ s \in Symbols
      BY <2>1, <2>3, WalkedIs DEF Kind
    <3> QED
      BY <2>1, <3>1, BacktestAssumption
  <2> QED
    BY <2>2, <2>3
<1>3. day \in Nat /\ slot \in Nat
  BY WalkedIs DEF Walking
<1>4. ASSUME NEW b \in Candle PROVE Stamped(b) \in BarRecords
  BY <1>3 DEF Stamped, BarRecords, Candle
<1>5. PICK D : D = Printed(new)
  OBVIOUS
<1>6. \A s \in D : new[s].o \in Price
  BY <1>2, <1>5 DEF Candle
<1>7. PICK opens : opens = [s \in D |-> new[s].o]
  OBVIOUS
<1>8. opens \in [D -> Price] /\ D \in SUBSET Walked /\ DOMAIN opens = D
  BY <1>1, <1>5, <1>6, <1>7
<1>9. opens \in Quotes(Walked)
  BY <1>8 DEF Quotes
<1>10. Opens(new) = opens
  BY <1>5, <1>7 DEF Opens
<1> QED
  BY <1>1, <1>2, <1>4, <1>5, <1>8, <1>9, <1>10

\* The books and the queue a drain starts from.
LEMMA BooksType == ASSUME Walking, Booked PROVE Books \in BookSet(Walked) /\ InTime(Books)
  BY DEF Booked, Books, BookSet, InTime

LEMMA Appended ==
    ASSUME NEW T, NEW q \in Seq(T), NEW e \in T
    PROVE  /\ Append(q, e) \in Seq(T) /\ Append(q, e) # None /\ Last(Append(q, e)) = e
           /\ Len(Append(q, e)) = Len(q) + 1
<1>1. PICK r : r = Append(q, e)
  OBVIOUS
<1>2. r \in Seq(T) /\ Len(r) = Len(q) + 1 /\ Len(q) \in Nat /\ r[Len(q) + 1] = e
  BY <1>1, AppendProperties, LenProperties
<1>3. r # None
  BY <1>2, EmptySeq DEF None
<1> QED
  BY <1>1, <1>2, <1>3 DEF Last

LEMMA OpenKeeps ==
    ASSUME WalkInv, NEW new \in [Walked -> Printable],
           \A s \in Walked : new[s] \in Candles[Kind][s] \cup {NoBar}, Open(new)
    PROVE  WalkInv' /\ (CheapSales /\ cash >= 0 => cash' >= 0)
<1> USE DEF WalkInv
<1>1. day \in Nat \ {0} /\ UNCHANGED walk /\ phase = "open"
  BY WalkedIs DEF Walking, Open
<1>2. PICK W : W = Walked
  OBVIOUS
<1>3. Walked' = W /\ LastSlot' = LastSlot /\ LastDay' = LastDay /\ SameSession' = SameSession
      /\ day' = day /\ family' = family /\ half' = half
  BY <1>1, <1>2 DEF walk, Walked, LastSlot, LastDay, Kind, SameSession
<1>4. PICK opens \in Quotes(W) : opens = Opens(new)
  BY <1>2, QuotesType
<1>5. PICK q \in Seq(OrdersOf(W)) : q = pending
  BY <1>2 DEF Booked
<1>6. PICK k : k = Drained(q, opens)
  OBVIOUS
<1>7. PICK r : r = Retained(q, opens)
  OBVIOUS
<1>8. /\ k \in BookSet(W) /\ r \in Seq(OrdersOf(W)) /\ Handled(k) + Len(r) = Len(q)
      /\ DOMAIN k.pos \subseteq DOMAIN pos \cup DOMAIN opens
      /\ InTime(k) /\ (CheapSales /\ cash >= 0 => k.cash >= 0)
  <2>1. Books \in BookSet(W) /\ InTime(Books)
    BY <1>2, BooksType
  <2> QED
    BY <1>1, <1>6, <1>7, <2>1, DrainedType
<1>9. /\ cash' = k.cash /\ pos' = k.pos /\ pending' = r
      /\ tally' = [tally EXCEPT !.filled = tally.filled + k.filled,
                                !.skipped = tally.skipped + k.skipped]
  BY <1>4, <1>5, <1>6, <1>7 DEF Open, Posted
<1>10. k.cash \in Int /\ k.pos \in Positions(W) /\ k.filled \in Nat /\ k.skipped \in Nat
  BY <1>8 DEF BookSet
<1>11. PICK D : D = Printed(new)
  OBVIOUS
<1>12. D \subseteq W /\ DOMAIN opens = D /\ \A s \in D : Stamped(new[s]) \in BarRecords
  BY <1>2, <1>4, <1>11, QuotesType
<1>13. bars' = [s \in Symbols |-> IF s \in D THEN Append(bars[s], Stamped(new[s])) ELSE bars[s]]
  BY <1>11 DEF Open
<1>14. /\ bars' \in [Symbols -> Seq(BarRecords)]
       /\ \A s \in D : bars'[s] # None /\ Last(bars'[s]).day = day
       /\ \A s \in Symbols \ D : bars'[s] = bars[s]
  <2>1. bars \in [Symbols -> Seq(BarRecords)]
    BY DEF Booked
  <2>2. ASSUME NEW s \in D
        PROVE  /\ Append(bars[s], Stamped(new[s])) \in Seq(BarRecords)
               /\ Append(bars[s], Stamped(new[s])) # None
               /\ Last(Append(bars[s], Stamped(new[s]))) = Stamped(new[s])
    <3>1. s \in Symbols /\ bars[s] \in Seq(BarRecords)
      BY <1>2, <1>12, <2>1, WalkedIs
    <3> QED
      BY <1>12, <3>1, Appended
  <2>3. bars' \in [Symbols -> Seq(BarRecords)]
    BY <1>13, <2>1, <2>2
  <2>4. \A s \in D : s \in Symbols /\ Stamped(new[s]).day = day
    BY <1>2, <1>12, WalkedIs DEF Stamped
  <2>5. \A s \in D : bars'[s] # None /\ Last(bars'[s]).day = day
    BY <1>13, <2>2, <2>4
  <2> QED
    BY <1>13, <2>3, <2>5
<1>15. \A s \in DOMAIN pos' : s \in Symbols /\ s \in DOMAIN pos \cup D
  <2>1. DOMAIN k.pos \subseteq W
    BY <1>10, HeldTypes
  <2> QED
    BY <1>2, <1>8, <1>9, <1>12, <2>1, WalkedIs
<1>16. Booked'
  <2>1. \A s \in DOMAIN pos' : pos'[s].opened \in 1..day'
    BY <1>3, <1>8, <1>9 DEF InTime
  <2>2. \A s \in DOMAIN pos' : bars'[s] # None
    BY <1>14, <1>15 DEF Booked
  <2>3. tally' \in Tallies
    <3>1. PICK t \in Tallies : t = tally
      BY DEF Booked
    <3>2. tally' = [t EXCEPT !.filled = t.filled + k.filled, !.skipped = t.skipped + k.skipped]
      BY <1>9, <3>1
    <3>3. t.filled + k.filled \in Nat /\ t.skipped + k.skipped \in Nat
      BY <1>10 DEF Tallies
    <3> QED
      BY <3>2, <3>3 DEF Tallies
  <2> QED
    BY <1>3, <1>8, <1>9, <1>10, <1>14, <2>1, <2>2, <2>3 DEF Booked
<1>17. OrdersAccounted'
  <2>1. tally'.decided = tally.decided /\ tally'.forced = tally.forced
        /\ tally'.filled = tally.filled + k.filled /\ tally'.skipped = tally.skipped + k.skipped
    BY <1>9 DEF Booked, Tallies
  <2>2. tally.decided \in Int /\ tally.forced \in Int /\ tally.filled \in Int /\ tally.skipped \in Int
    BY DEF Booked, Tallies
  <2>3. k.filled + k.skipped + Len(r) = Len(q) /\ Len(r) \in Nat /\ Len(q) \in Nat
    BY <1>8, LenProperties DEF Handled
  <2>4. tally.decided + tally.forced = tally.filled + tally.skipped + Len(q)
    BY <1>5 DEF OrdersAccounted
  <2>5. tally'.decided + tally'.forced = tally'.filled + tally'.skipped + Len(r)
    BY <1>10, <2>1, <2>2, <2>3, <2>4
  <2> QED
    BY <1>9, <2>5 DEF OrdersAccounted
<1>18. ASSUME SameSession PROVE \A s \in DOMAIN pos' : Today(s)'
  <2>1. \A s \in DOMAIN pos : bars[s] # None /\ Last(bars[s]).day = day
    BY <1>1, <1>18 DEF WithinSession, Today
  <2>2. \A s \in DOMAIN pos' : bars'[s] # None /\ Last(bars'[s]).day = day
    BY <1>14, <1>15, <2>1
  <2> QED
    BY <1>3, <2>2 DEF Today
<1>a. Len(r) \in Nat /\ Len(q) \in Nat /\ Len(r) <= Len(q)
  BY <1>8, <1>10, LenProperties DEF Handled
<1>b. SameSession => Len(pending') <= 1
  BY <1>5, <1>9, <1>a DEF WithinSession
<1>19. CASE D = {}
  <2>1. Advance
    BY <1>11, <1>19 DEF Open
  <2>2. /\ Walking' /\ (phase' = "close" => SameSession)
        /\ (phase' \in {"night", "done"} => ~SameSession) /\ phase' # "decide"
    BY <1>1, <2>1, AdvanceIs
  <2>3. WithinSession'
    BY <1>3, <1>18, <1>b, <2>2 DEF WithinSession
  <2> QED
    BY <1>8, <1>9, <1>16, <1>17, <2>2, <2>3
<1>20. CASE D # {}
  <2>1. phase' = "decide" /\ slot' = slot
    BY <1>11, <1>20 DEF Open
  <2>2. Walking'
    BY <1>3, <2>1 DEF Walking
  <2>3. SameSession => Today(RiskOn)'
    <3>1. SameSession => D = {RiskOn}
      BY <1>2, <1>12, <1>20, WalkedIs
    <3> QED
      BY <1>3, <1>14, <3>1 DEF Today
  <2>d. SameSession => Len(pending') = 0
    <3>1. ASSUME SameSession PROVE Waiting(q, opens) = {}
      <4>1. W = {RiskOn} /\ DOMAIN opens = {RiskOn}
        BY <1>2, <1>12, <1>20, <3>1, WalkedIs
      <4>2. \A i \in DOMAIN q : q[i] \in OrdersOf(W)
        BY <1>5, LenProperties, ElementOfSeq
      <4>3. \A i \in DOMAIN q : q[i].sym \in DOMAIN opens
        BY <4>1, <4>2 DEF OrdersOf
      <4> QED
        BY <4>3 DEF Waiting
    <3>2. ASSUME SameSession PROVE Len(r) = 0
      <4>1. r = Kept(q, {})
        BY <1>7, <3>1, <3>2 DEF Retained
      <4>2. {} \cap DOMAIN q = {}
        OBVIOUS
      <4> QED
        BY <4>1, <4>2, KeptLength, FS_EmptySet
    <3> QED
      BY <1>9, <3>2
  <2>4. WithinSession'
    BY <1>3, <1>18, <1>b, <2>1, <2>3, <2>d DEF WithinSession
  <2> QED
    BY <1>8, <1>9, <1>16, <1>17, <2>2, <2>4
<1> QED
  BY <1>19, <1>20

\* The bars of the session so far, of the symbol a same-session strategy trades.
TodayBars == Kept(bars[RiskOn], {i \in DOMAIN bars[RiskOn] : bars[RiskOn][i].day \in {day}})

LEMMA TodayBarsType ==
    ASSUME bars \in [Symbols -> Seq(BarRecords)]
    PROVE  /\ TodayBars \in Seq(BarRecords)
           /\ Today(RiskOn) => TodayBars # None
<1>1. PICK b \in Seq(BarRecords) : b = bars[RiskOn]
  BY WalkFacts
<1>2. PICK P \in SUBSET DOMAIN b : P = {i \in DOMAIN b : b[i].day \in {day}}
  OBVIOUS
<1>3. TodayBars = Kept(b, P)
  BY <1>1, <1>2 DEF TodayBars
<1>4. \A i \in P \cap DOMAIN b : b[i] \in BarRecords
  BY LenProperties, ElementOfSeq
<1>5. Kept(b, P) \in Seq(BarRecords)
  BY <1>4, KeptType
<1>6. ASSUME Today(RiskOn) PROVE Kept(b, P) # None
  <2>1. b # None /\ b[Len(b)].day = day
    BY <1>1, <1>6 DEF Today, Last
  <2>2. Len(b) \in DOMAIN b
    BY <2>1, EmptySeq, LenProperties DEF None
  <2>3. Len(b) \in P
    BY <1>2, <2>1, <2>2
  <2>4. P \cap DOMAIN b = P
    OBVIOUS
  <2>5. Len(Kept(b, P)) = Cardinality(P)
    BY <2>4, KeptLength
  <2>6. IsFiniteSet(P) /\ Cardinality(P) \in Nat
    BY PlacesFinite
  <2>7. Cardinality(P) # 0
    BY <2>3, <2>6, FS_EmptySet
  <2> QED
    BY <2>5, <2>7, EmptySeq DEF None
<1> QED
  BY <1>3, <1>5, <1>6

\* An entry of a same-session strategy: one buy, on its signal, in the window.
Entering(orders) ==
    /\ Cardinality(OfSide(orders, "buy")) = 1
    /\ InWindow(Last(TodayBars)) /\ Signal(family, draw, TodayBars)

LEMMA DecisionType ==
    ASSUME Walking, Booked, WithinSession, phase = "decide"
    PROVE  /\ Decision \in Seq(OrdersOf(Walked))
           /\ SameSession => Len(Decision) <= 1
           /\ SameSession => \/ Cardinality(OfSide(Decision, "buy")) = 0
                             \/ Entering(Decision)
<1>1. PICK v : v = [bars |-> bars, pos |-> pos, equity |-> Equity, day |-> day,
                    draw |-> draw, half |-> half]
  OBVIOUS
<1>2. /\ v.bars = bars /\ v.pos = pos /\ v.equity = Equity /\ v.day = day /\ v.draw = draw
  BY <1>1
<1>3. /\ bars \in [Symbols -> Seq(BarRecords)] /\ cash \in Int /\ pos \in Positions(Walked)
      /\ \A s \in DOMAIN pos : s \in Symbols /\ bars[s] # None
  BY WalkedIs, HeldTypes DEF Booked
<1>4. Equity \in Int
  BY <1>3, EquityType
<1>5. pos \in Positions(Symbols)
  BY <1>3, WalkedIs DEF Positions
<1>6. Shown(v)
  BY <1>2, <1>3, <1>4, <1>5 DEF Shown
<1>7. Decision = IF SameSession THEN IntradayDecision(family, v) ELSE DailyDecision(family, v)
  BY <1>1 DEF Decision
<1>8. CASE ~SameSession
  <2>1. family \in DailyFamilies
    BY <1>8, BacktestAssumption DEF Walking, SameSession
  <2> QED
    BY <1>6, <1>7, <1>8, <2>1, DailyDecisionType, WalkedIs
<1>9. CASE SameSession
  <2>1. family \in IntradayFamilies /\ Walked = {RiskOn}
    BY <1>9, WalkedIs DEF SameSession
  <2>2. Session(v) = TodayBars
    BY <1>2 DEF Session, OfDays, TodayBars
  <2>3. TodayBars # None
    BY <1>3, <1>9, TodayBarsType DEF WithinSession
  <2>4. Watching(v)
    BY <1>2, <1>3, <1>6, <2>1, <2>2, <2>3 DEF Watching
  <2>5. PICK o : o = IntradayDecision(family, v)
    OBVIOUS
  <2>6. /\ o \in Seq(OrdersOf({RiskOn})) /\ Len(o) <= 1
        /\ \/ Cardinality(OfSide(o, "buy")) = 0
           \/ /\ Cardinality(OfSide(o, "buy")) = 1
              /\ InWindow(Last(Session(v))) /\ Signal(family, v.draw, Session(v))
    BY <2>1, <2>4, <2>5, IntradayDecisionType
  <2>7. \/ Cardinality(OfSide(o, "buy")) = 0
        \/ Entering(o)
    BY <1>2, <2>2, <2>6 DEF Entering
  <2>8. Decision = o
    BY <1>7, <1>9, <2>5
  <2> QED
    BY <2>1, <2>6, <2>7, <2>8
<1> QED
  BY <1>8, <1>9

LEMMA DecideKeeps ==
    ASSUME WalkInv, Decide
    PROVE  WalkInv' /\ cash' = cash
<1> USE DEF WalkInv
<1>1. phase = "decide" /\ UNCHANGED walk /\ Advance /\ UNCHANGED <<bars, cash, pos>>
  BY DEF Decide
<1>2. /\ Walking' /\ (phase' = "close" => SameSession)
      /\ (phase' \in {"night", "done"} => ~SameSession) /\ phase' # "decide"
  BY <1>1, AdvanceIs
<1>3. Walked' = Walked /\ SameSession' = SameSession /\ day' = day
  BY <1>1 DEF walk, Walked, SameSession
<1>4. PICK o \in Seq(OrdersOf(Walked)) : o = Decision
  BY <1>1, DecisionType
<1>5. PICK q \in Seq(OrdersOf(Walked)) : q = pending
  BY DEF Booked
<1>6. pending' = q \o o /\ q \o o \in Seq(OrdersOf(Walked)) /\ Len(q \o o) = Len(q) + Len(o)
  BY <1>4, <1>5, JoinType DEF Decide
<1>7. PICK t \in Tallies : t = tally
  BY DEF Booked
<1>8. tally' = [t EXCEPT !.decided = t.decided + Len(o)] /\ Len(o) \in Nat /\ Len(q) \in Nat
  BY <1>4, <1>7, LenProperties DEF Decide
<1>9. tally' \in Tallies
  BY <1>8 DEF Tallies
<1>10. Booked'
  BY <1>1, <1>3, <1>6, <1>9 DEF Booked
<1>11. WithinSession'
  <2>1. SameSession => Len(q) = 0 /\ Len(o) <= 1
    BY <1>1, <1>4, <1>5, DecisionType DEF WithinSession
  <2>2. SameSession => Len(pending') <= 1
    BY <1>6, <1>8, <2>1
  <2> QED
    BY <1>1, <1>2, <1>3, <2>2 DEF WithinSession, Today
<1>12. OrdersAccounted'
  <2>1. /\ tally'.decided = t.decided + Len(o) /\ tally'.forced = t.forced
        /\ tally'.filled = t.filled /\ tally'.skipped = t.skipped
        /\ t.decided \in Int /\ t.forced \in Int /\ t.filled \in Int /\ t.skipped \in Int
    BY <1>8 DEF Tallies
  <2>2. t.decided + t.forced = t.filled + t.skipped + Len(q)
    BY <1>5, <1>7 DEF OrdersAccounted
  <2>3. tally'.decided + tally'.forced = tally'.filled + tally'.skipped + (Len(q) + Len(o))
    <3>a. PICK d \in Int : d = t.decided
      BY DEF Tallies
    <3>b. PICK e \in Int : e = t.forced
      BY DEF Tallies
    <3>c. PICK f \in Int : f = t.filled
      BY DEF Tallies
    <3>d. PICK s \in Int : s = t.skipped
      BY DEF Tallies
    <3>e. PICK l \in Int : l = Len(q)
      BY <1>8
    <3>f. PICK m \in Int : m = Len(o)
      BY <1>8
    <3>2. d + e = f + s + l
      BY <2>2, <3>a, <3>b, <3>c, <3>d, <3>e, <3>f
    <3>3. (d + m) + e = f + s + (l + m)
      BY <3>2
    <3> QED
      BY <2>1, <3>a, <3>b, <3>c, <3>d, <3>e, <3>f, <3>3
  <2> QED
    BY <1>6, <2>3 DEF OrdersAccounted
<1> QED
  BY <1>1, <1>2, <1>10, <1>11, <1>12

LEMMA FlattenKeeps ==
    ASSUME WalkInv, Flatten
    PROVE  WalkInv' /\ (CheapSales /\ cash >= 0 => cash' >= 0)
<1> USE DEF WalkInv
<1>1. phase = "close" /\ phase' = "night" /\ UNCHANGED <<walk, slot, bars, entries>>
  BY DEF Flatten
<1>2. SameSession /\ Walked = {RiskOn}
  BY <1>1, WalkedIs DEF WithinSession
<1>3. Walked' = Walked /\ SameSession' = SameSession /\ day' = day
      /\ LastSlot' = LastSlot /\ LastDay' = LastDay
  BY <1>1 DEF walk, Walked, SameSession, LastSlot, LastDay, Kind
<1>4. Liquidated = DOMAIN pos
  BY <1>1, <1>2 DEF WithinSession, Liquidated
<1>5. PICK k : k = SoldOff(Books, InOrder(Liquidated))
  OBVIOUS
<1>6. /\ k \in BookSet({RiskOn}) /\ k.pos = << >> /\ (CheapSales /\ cash >= 0 => k.cash >= 0)
      /\ k.filled = (IF Liquidated = {} THEN 0 ELSE 1)
  <2>1. Books \in BookSet({RiskOn})
    BY <1>2, BooksType
  <2>2. RiskOn \in DOMAIN pos => Close(bars[RiskOn]) \in Price
    BY WalkFacts, CloseType DEF Booked
  <2>3. day \in Nat
    BY WalkedIs DEF Walking
  <2> QED
    BY <1>4, <1>5, <2>1, <2>2, <2>3, FlattenedType
<1>7. PICK q \in Seq(OrdersOf({RiskOn})) : q = pending
  BY <1>2 DEF Booked
<1>8. PICK S \in SUBSET DOMAIN q : S = Superseded
  BY <1>7 DEF Superseded, OfSide
<1>9. PICK rest \in SUBSET DOMAIN q : rest = DOMAIN q \ S
  OBVIOUS
<1>10. PICK r : r = Kept(q, rest)
  OBVIOUS
<1>11. /\ r \in Seq(OrdersOf({RiskOn})) /\ Len(r) = Cardinality(rest)
  <2>1. \A i \in rest \cap DOMAIN q : q[i] \in OrdersOf({RiskOn})
    BY LenProperties, ElementOfSeq
  <2>2. rest \cap DOMAIN q = rest
    OBVIOUS
  <2> QED
    BY <1>10, <2>1, <2>2, KeptType, KeptLength
<1>12. Len(q) = Cardinality(S) + Cardinality(rest)
  <2>1. S \cup rest \subseteq DOMAIN q /\ S \cap rest = {} /\ S \cup rest = DOMAIN q
    BY <1>9
  <2>2. Cardinality(S \cup rest) = Cardinality(S) + Cardinality(rest)
    BY <2>1, PlacesParted
  <2>3. Cardinality(DOMAIN q) = Len(q)
    BY PlacesCount
  <2> QED
    BY <2>1, <2>2, <2>3
<1>13. PICK n \in Nat : n = Cardinality(S)
  BY PlacesFinite
<1>14. PICK t \in Tallies : t = tally
  BY DEF Booked
<1>a. PICK u : u = Cardinality(Liquidated \ Leaving)
  OBVIOUS
<1>b. u \in Nat /\ u + n = k.filled
  <2>1. Liquidated \subseteq {RiskOn}
    BY <1>2, <1>4, HeldTypes DEF Booked
  <2>2. Len(q) \in Nat /\ Len(q) <= 1 /\ DOMAIN q = 1..Len(q)
    BY <1>2, <1>7, LenProperties DEF WithinSession
  <2>3. \A i \in DOMAIN q : q[i].sym = RiskOn
    <3>1. \A i \in DOMAIN q : q[i] \in OrdersOf({RiskOn})
      BY <1>7, LenProperties, ElementOfSeq
    <3> QED
      BY <3>1 DEF OrdersOf
  <2>4. /\ S = {i \in DOMAIN q : q[i].side = "sell" /\ q[i].sym \in Liquidated}
        /\ Leaving = {q[i].sym : i \in {j \in DOMAIN q : q[j].side = "sell"}}
    BY <1>7, <1>8 DEF Superseded, Leaving, OfSide
  <2>5. Cardinality({}) = 0 /\ Cardinality({1}) = 1 /\ Cardinality({RiskOn}) = 1
    BY FS_EmptySet, FS_Singleton
  <2>6. CASE Liquidated = {}
    <3>1. S = {} /\ Liquidated \ Leaving = {}
      BY <2>4, <2>6
    <3> QED
      BY <1>6, <1>13, <1>a, <2>5, <2>6, <3>1
  <2>7. CASE Liquidated = {RiskOn} /\ S = {}
    <3>1. Leaving = {}
      BY <2>3, <2>4, <2>7
    <3>2. Liquidated \ Leaving = {RiskOn}
      BY <2>7, <3>1
    <3>3. u = 1
      BY <1>a, <2>5, <3>2
    <3>4. n = 0
      BY <1>13, <2>5, <2>7
    <3>5. k.filled = 1
      BY <1>6, <2>7
    <3> QED
      BY <3>3, <3>4, <3>5
  <2>8. CASE Liquidated = {RiskOn} /\ S # {}
    <3>1. DOMAIN q \subseteq {1}
      BY <2>2
    <3>2. S = {1} /\ 1 \in DOMAIN q /\ q[1].side = "sell"
      BY <2>4, <2>8, <3>1
    <3>3. RiskOn \in Leaving
      BY <2>3, <2>4, <3>2
    <3>4. Liquidated \ Leaving = {}
      BY <2>8, <3>3
    <3>5. u = 0
      BY <1>a, <2>5, <3>4
    <3>6. n = 1
      BY <1>13, <2>5, <3>2
    <3>7. k.filled = 1
      BY <1>6, <2>8
    <3> QED
      BY <3>5, <3>6, <3>7
  <2> QED
    BY <2>1, <2>6, <2>7, <2>8
<1>15. /\ cash' = k.cash /\ pos' = k.pos /\ pending' = r
       /\ tally' = [t EXCEPT !.filled = t.filled + k.filled, !.forced = t.forced + u]
  BY <1>5, <1>7, <1>8, <1>9, <1>10, <1>14, <1>a DEF Flatten
<1>16. k.cash \in Int /\ k.pos \in Positions({RiskOn}) /\ k.filled \in Nat
  BY <1>6 DEF BookSet
<1>17. tally' \in Tallies
  <2>1. t.filled + k.filled \in Nat /\ t.forced + u \in Nat
    BY <1>16, <1>b DEF Tallies
  <2> QED
    BY <1>15, <2>1 DEF Tallies
<1>18. DOMAIN pos' = {}
  BY <1>6, <1>15
<1>19. Booked'
  BY <1>1, <1>2, <1>3, <1>11, <1>15, <1>16, <1>17, <1>18 DEF Booked
<1>20. Walking'
  BY <1>1, <1>3 DEF Walking, walk
<1>21. WithinSession'
  <2>1. Len(r) \in Nat /\ n + Len(r) = Len(q)
    BY <1>11, <1>12, <1>13, LenProperties
  <2>2. Len(q) \in Nat /\ Len(q) <= 1
    BY <1>2, <1>7, LenProperties DEF WithinSession
  <2>3. Len(pending') <= 1
    BY <1>13, <1>15, <2>1, <2>2
  <2> QED
    BY <1>1, <1>2, <1>3, <1>6, <1>15, <2>3 DEF WithinSession
<1>22. OrdersAccounted'
  <2>1. /\ tally'.decided = t.decided /\ tally'.forced = t.forced + u
        /\ tally'.filled = t.filled + k.filled /\ tally'.skipped = t.skipped
        /\ t.decided \in Int /\ t.forced \in Int /\ t.filled \in Int /\ t.skipped \in Int
    BY <1>15 DEF Tallies
  <2>2. t.decided + t.forced = t.filled + t.skipped + Len(q)
    BY <1>7, <1>14 DEF OrdersAccounted
  <2>3. Len(q) = n + Len(r) /\ Len(r) \in Nat
    BY <1>11, <1>12, <1>13, LenProperties
  <2>4. tally'.decided + tally'.forced = tally'.filled + tally'.skipped + Len(r)
    <3>a. PICK d \in Int : d = t.decided
      BY DEF Tallies
    <3>b. PICK e \in Int : e = t.forced
      BY DEF Tallies
    <3>c. PICK f \in Int : f = t.filled
      BY DEF Tallies
    <3>d. PICK s \in Int : s = t.skipped
      BY DEF Tallies
    <3>e. PICK l \in Int : l = Len(r)
      BY <2>3
    <3>f. PICK j \in Int : j = k.filled
      BY <1>16
    <3>g. PICK w \in Int : w = u
      BY <1>b
    <3>h. w + n = j
      BY <1>b, <3>f, <3>g
    <3>2. d + e = f + s + (n + l)
      BY <2>2, <2>3, <3>a, <3>b, <3>c, <3>d, <3>e, <3>f
    <3>3. d + (e + w) = (f + j) + s + l
      BY <3>2, <3>h
    <3> QED
      BY <2>1, <3>a, <3>b, <3>c, <3>d, <3>e, <3>f, <3>g, <3>3
  <2> QED
    BY <1>15, <2>4 DEF OrdersAccounted
<1> QED
  BY <1>6, <1>15, <1>19, <1>20, <1>21, <1>22

LEMMA NextDayKeeps ==
    ASSUME WalkInv, NextDay
    PROVE  WalkInv' /\ cash' = cash
<1> USE DEF WalkInv
<1>1. /\ phase = "night" /\ day < LastDay /\ day' = day + 1 /\ slot' = 0 /\ phase' = "open"
      /\ bars' = [s \in Symbols |-> Remembered(bars[s])]
      /\ UNCHANGED <<family, cash, pos, pending, tally>>
  BY DEF NextDay
<1>2. half' \in BOOLEAN
  <2>1. half' \in {FALSE} \/ half' \in BOOLEAN
    BY DEF NextDay, Halves
  <2> QED
    BY <2>1
<1>3. Walked' = Walked /\ SameSession' = SameSession /\ LastDay' = LastDay
  BY <1>1 DEF Walked, SameSession, LastDay, Kind
<1>4. day \in 1..LastDay /\ LastDay \in Nat
  BY WalkedIs DEF Walking
<1>5. 0 \in 0..LastSlot'
  BY WalkFacts DEF LastSlot
<1>6. Walking'
  BY <1>1, <1>2, <1>3, <1>4, <1>5 DEF Walking
<1>7. \A s \in DOMAIN pos : pos[s].opened \in 1..day' /\ s \in Symbols
  BY <1>1, <1>4, WalkedIs, HeldTypes DEF Booked
<1>8. bars' \in [Symbols -> Seq(BarRecords)]
  <2>1. ASSUME NEW b \in Seq(BarRecords) PROVE Remembered(b) \in Seq(BarRecords)
    <3>1. CASE b # None
      <4>1. Len(b) \in 1..Len(b)
        BY <3>1, EmptySeq, LenProperties DEF None
      <4>2. PICK e \in BarRecords : e = Last(b)
        BY <4>1, ElementOfSeq DEF Last
      <4>3. <<e>> \in Seq(BarRecords)
        OBVIOUS
      <4> QED
        BY <4>2, <4>3 DEF Remembered
    <3>2. CASE b = None
      BY <3>2 DEF Remembered
    <3> QED
      BY <3>1, <3>2
  <2> QED
    BY <1>1, <2>1 DEF Booked
<1>9. \A s \in DOMAIN pos : bars'[s] # None
  <2>1. CASE SameSession
    BY <1>1, <2>1 DEF WithinSession
  <2>2. CASE ~SameSession
    BY <1>1, <1>7, <2>2 DEF Booked, Remembered
  <2> QED
    BY <2>1, <2>2
<1>10. Booked'
  BY <1>1, <1>3, <1>7, <1>8, <1>9 DEF Booked
<1>11. WithinSession'
  BY <1>1, <1>3 DEF WithinSession
<1>12. OrdersAccounted'
  BY <1>1 DEF OrdersAccounted
<1> QED
  BY <1>1, <1>6, <1>10, <1>11, <1>12

LEMMA FinishKeeps ==
    ASSUME WalkInv, Finish
    PROVE  WalkInv' /\ cash' = cash
<1> USE DEF WalkInv
<1>1. /\ phase = "night" /\ phase' = "done" /\ pending' = None
      /\ UNCHANGED <<walk, slot, bars, cash, pos, entries>>
  BY DEF Finish
<1>2. Walked' = Walked /\ SameSession' = SameSession /\ day' = day
      /\ LastSlot' = LastSlot /\ LastDay' = LastDay
  BY <1>1 DEF walk, Walked, SameSession, LastSlot, LastDay, Kind
<1>3. PICK t \in Tallies : t = tally
  BY DEF Booked
<1>4. PICK n \in Nat : n = Len(pending)
  BY LenProperties DEF Booked
<1>5. tally' = [t EXCEPT !.skipped = t.skipped + n]
  BY <1>3, <1>4 DEF Finish
<1>6. tally' \in Tallies
  BY <1>5 DEF Tallies
<1>7. None \in Seq(OrdersOf(Walked)) /\ Len(None) = 0
  BY EmptySeq DEF None
<1>8. Booked'
  BY <1>1, <1>2, <1>6, <1>7 DEF Booked
<1>9. Walking'
  BY <1>1, <1>2 DEF Walking, walk
<1>10. WithinSession'
  BY <1>1, <1>2, <1>7 DEF WithinSession
<1>11. OrdersAccounted'
  <2>1. /\ tally'.decided = t.decided /\ tally'.forced = t.forced
        /\ tally'.filled = t.filled /\ tally'.skipped = t.skipped + n
        /\ t.decided \in Int /\ t.forced \in Int /\ t.filled \in Int /\ t.skipped \in Int
    BY <1>5 DEF Tallies
  <2>2. t.decided + t.forced = t.filled + t.skipped + n
    BY <1>3, <1>4 DEF OrdersAccounted
  <2> QED
    BY <1>1, <1>7, <2>1, <2>2 DEF OrdersAccounted
<1> QED
  BY <1>1, <1>8, <1>9, <1>10, <1>11

\* Every step keeps the invariant, and no step makes a debt where a sale pays
\* for itself.
LEMMA StepKeeps ==
    ASSUME WalkInv, Next
    PROVE  WalkInv' /\ (CheapSales /\ cash >= 0 => cash' >= 0)
<1>1. ASSUME NEW new \in [Walked -> Printable],
             \A s \in Walked : new[s] \in Candles[Kind][s] \cup {NoBar}, Open(new)
      PROVE  WalkInv' /\ (CheapSales /\ cash >= 0 => cash' >= 0)
  BY <1>1, OpenKeeps
<1>2. CASE Decide
  BY <1>2, DecideKeeps
<1>3. CASE Flatten
  BY <1>3, FlattenKeeps
<1>4. CASE NextDay
  BY <1>4, NextDayKeeps
<1>5. CASE Finish
  BY <1>5, FinishKeeps
<1> QED
  BY <1>1, <1>2, <1>3, <1>4, <1>5 DEF Next

LEMMA StutterKeeps == ASSUME WalkInv, UNCHANGED vars PROVE WalkInv'
<1> USE DEF vars
<1>1. Walking'
  BY DEF WalkInv, Walking, LastDay, LastSlot, Kind, SameSession
<1>2. Booked'
  BY DEF WalkInv, Booked, Walked, SameSession
<1>3. WithinSession'
  BY DEF WalkInv, WithinSession, SameSession, Today
<1>4. OrdersAccounted'
  BY DEF WalkInv, OrdersAccounted
<1> QED
  BY <1>1, <1>2, <1>3, <1>4 DEF WalkInv

THEOREM WalkInvariant == Spec => []WalkInv
<1>1. WalkInv /\ [Next]_vars => WalkInv'
  BY StepKeeps, StutterKeeps
<1> QED
  BY <1>1, InitWalk, PTL DEF Spec

\* Types: the books, the queue and the walk have the shape the engine keeps,
\* whatever the strategy decides.
THEOREM WalkTypeCorrect == Spec => []TypeOK
<1>1. ASSUME WalkInv PROVE TypeOK
  <2>1. DOMAIN pos \subseteq Walked /\ \A s \in DOMAIN pos : pos[s].qty > 0
    BY <1>1, HeldTypes DEF WalkInv, Booked, Holding, Price
  <2>2. \A i \in DOMAIN pending : pending[i] \in OrdersOf(Walked)
    BY <1>1, LenProperties, ElementOfSeq DEF WalkInv, Booked
  <2>3. \A i \in DOMAIN pending : pending[i].sym \in Walked /\ pending[i].qty > 0
    BY <2>2 DEF OrdersOf, Price
  <2> QED
    BY <1>1, <2>1, <2>3 DEF TypeOK, WalkInv, Walking, Booked
<1> QED
  BY <1>1, WalkInvariant, PTL

\* A same-session strategy is flat overnight: the engine's liquidation leaves
\* nothing behind, because it holds only what it has seen trade today.
THEOREM FlatOvernight == Spec => []FlatAtClose
<1>1. WalkInv => FlatAtClose
  BY DEF WalkInv, WithinSession, FlatAtClose
<1> QED
  BY <1>1, WalkInvariant, PTL

\* No order is lost or handled twice: drain, retention, the flattening that
\* supersedes a pending sell and the end of the window account for each.
THEOREM NoOrderLost == Spec => []OrdersAccounted
<1>1. WalkInv => OrdersAccounted
  BY DEF WalkInv
<1> QED
  BY <1>1, WalkInvariant, PTL

\* The kernel never borrows, where a commission is at most what a share at the
\* lowest price brings: only then does a sale never cost more than it brings.
THEOREM NeverBorrows ==
    ASSUME Commission <= 10 - Slip
    PROVE  Spec => []NoBorrowing
<1>1. Init => WalkInv /\ NoBorrowing
  BY InitWalk, CostTypes DEF Init, NoBorrowing
<1>2. WalkInv /\ NoBorrowing /\ [Next]_vars => (WalkInv /\ NoBorrowing)'
  <2>1. ASSUME WalkInv, NoBorrowing, Next PROVE (WalkInv /\ NoBorrowing)'
    BY <2>1, StepKeeps DEF CheapSales, NoBorrowing
  <2>2. ASSUME WalkInv, NoBorrowing, UNCHANGED vars PROVE (WalkInv /\ NoBorrowing)'
    BY <2>2, StutterKeeps DEF NoBorrowing, vars
  <2> QED
    BY <2>1, <2>2
<1> QED
  BY <1>1, <1>2, PTL DEF Spec

-----------------------------------------------------------------------------
(* An entry signal fires once a session                                    *)

LEMMA PrefixIs ==
    ASSUME NEW T, NEW q \in Seq(T), NEW m \in 0..Len(q)
    PROVE  /\ SubSeq(q, 1, m) \in Seq(T) /\ Len(SubSeq(q, 1, m)) = m
           /\ \A i \in 1..m : SubSeq(q, 1, m)[i] = q[i]
<1>1. PICK n \in Nat : n = Len(q)
  BY LenProperties
<1>2. m \in Int /\ m <= n /\ 1 \in Int
  BY <1>1
<1>3. \A i \in 1..m : q[i] \in T
  BY <1>1, <1>2, ElementOfSeq
<1>4. SubSeq(q, 1, m) \in Seq(T) /\ Len(SubSeq(q, 1, m)) = m
  BY <1>2, <1>3, SubSeqProperties
<1>5. \A i \in 1..m : SubSeq(q, 1, m)[i] = q[i]
  <2>1. SubSeq(q, 1, m) = [i \in 1..m |-> q[1 + i - 1]]
    BY <1>2
  <2>2. \A i \in 1..m : 1 + i - 1 = i
    BY <1>2
  <2> QED
    BY <2>1, <2>2
<1> QED
  BY <1>4, <1>5

\* What is kept up to a kept place is the beginning of what is kept.
LEMMA KeptBeginning ==
    ASSUME NEW T, NEW q \in Seq(T), NEW r \in Seq(T), NEW P, NEW R, NEW m \in 1..Len(q),
           m \in P, Len(r) = m - 1,
           \A i \in 1..(m - 1) : r[i] = q[i] /\ (i \in R <=> i \in P)
    PROVE  Begins(Append(Kept(r, R), q[m]), Kept(q, P))
<1>1. PICK n \in Nat : n = Len(q)
  BY LenProperties
<1>2. PICK f \in [0..Len(q) -> Seq(T)] : KeptUpTo(q, P, f) /\ Kept(q, P) = f[Len(q)]
  BY KeptIs
<1>3. m \in 1..n /\ m - 1 \in 0..n /\ m \in 0..n /\ n \in m..n
  BY <1>1
<1>4. Kept(r, R) = f[m - 1]
  <2>1. Len(r) <= Len(q) /\ \A i \in 1..Len(r) : r[i] = q[i] /\ (i \in R <=> i \in P)
    BY <1>1, <1>3
  <2>2. Kept(r, R) = f[Len(r)]
    BY <1>2, <2>1, KeptOfPrefix
  <2> QED
    BY <2>2
<1>5. f[m] = Append(f[m - 1], q[m])
  BY <1>1, <1>2, <1>3 DEF KeptUpTo
<1>6. f[m - 1] \in Seq(T) /\ q[m] \in T
  BY <1>1, <1>2, <1>3, ElementOfSeq
<1>7. \A i \in m..Len(q) : Begins(f[m], f[i])
  <2>1. m \in 0..Len(q)
    BY <1>1, <1>3
  <2> QED
    BY <1>2, <2>1, KeptGrows
<1>8. Begins(f[m], f[n])
  <2>1. n \in m..Len(q)
    BY <1>1, <1>3
  <2> QED
    BY <1>7, <2>1
<1> QED
  BY <1>1, <1>2, <1>4, <1>5, <1>8

\* A session's bars come one slot after the other.
Rising(q) == \A i, j \in 1..Len(q) : i < j => q[i].slot < q[j].slot

\* What was seen of the window, that bar included, is the beginning of what is
\* seen later.
LEMMA EarlierGrows ==
    ASSUME NEW q \in Seq(BarRecords), NEW m \in 1..(Len(q) - 1), InWindow(q[m]),
           NEW e, e = SubSeq(q, 1, m)
    PROVE  /\ Earlier(e) \in Seq(BarRecords) /\ Earlier(q) \in Seq(BarRecords)
           /\ Last(e) = q[m] /\ q[m] \in BarRecords
           /\ Begins(Append(Earlier(e), Last(e)), Earlier(q))
<1>1. PICK n \in Nat : n = Len(q)
  BY LenProperties
<1>2. /\ m \in 1..(n - 1) /\ m \in 0..n /\ n - 1 \in 0..n /\ m - 1 \in 0..m /\ m \in 1..m
  BY <1>1
<1>3. /\ e \in Seq(BarRecords) /\ Len(e) = m /\ \A i \in 1..m : e[i] = q[i]
  BY <1>1, <1>2, PrefixIs
<1>4. PICK u : u = Front(q)
  OBVIOUS
<1>5. /\ u \in Seq(BarRecords) /\ Len(u) = n - 1 /\ \A i \in 1..(n - 1) : u[i] = q[i]
  BY <1>1, <1>2, <1>4, PrefixIs DEF Front
<1>6. PICK t : t = Front(e)
  OBVIOUS
<1>7. /\ t \in Seq(BarRecords) /\ Len(t) = m - 1 /\ \A i \in 1..(m - 1) : t[i] = e[i]
  BY <1>2, <1>3, <1>6, PrefixIs DEF Front
<1>8. PICK P : P = {i \in DOMAIN u : InWindow(q[i])}
  OBVIOUS
<1>9. PICK R : R = {i \in DOMAIN t : InWindow(e[i])}
  OBVIOUS
<1>10. Earlier(q) = Kept(u, P) /\ Earlier(e) = Kept(t, R)
  BY <1>4, <1>6, <1>8, <1>9 DEF Earlier
<1>11. DOMAIN u = 1..(n - 1) /\ DOMAIN t = 1..(m - 1)
  BY <1>5, <1>7, LenProperties
<1>12. \A i \in 1..(m - 1) : i \in 1..m /\ i \in 1..(n - 1)
  BY <1>2
<1>13. \A i \in 1..(m - 1) : t[i] = u[i] /\ (i \in R <=> i \in P)
  BY <1>3, <1>5, <1>7, <1>8, <1>9, <1>11, <1>12
<1>14. m \in P /\ m \in 1..Len(u) /\ u[m] = q[m]
  BY <1>2, <1>5, <1>8, <1>11
<1>15. Begins(Append(Kept(t, R), u[m]), Kept(u, P))
  BY <1>5, <1>7, <1>13, <1>14, KeptBeginning
<1>16. Last(e) = q[m] /\ q[m] \in BarRecords
  BY <1>1, <1>2, <1>3, ElementOfSeq DEF Last
<1>17. Kept(t, R) \in Seq(BarRecords) /\ Kept(u, P) \in Seq(BarRecords)
  <2>1. \A i \in R \cap DOMAIN t : t[i] \in BarRecords
    BY <1>7, LenProperties, ElementOfSeq
  <2>2. \A i \in P \cap DOMAIN u : u[i] \in BarRecords
    BY <1>5, LenProperties, ElementOfSeq
  <2> QED
    BY <1>5, <1>7, <2>1, <2>2, KeptType
<1> QED
  BY <1>10, <1>14, <1>15, <1>16, <1>17

\* The bar of the earlier signal is one of those the later signal looks back at.
LEMMA SeenEarlier ==
    ASSUME NEW q \in Seq(BarRecords), NEW m \in 1..(Len(q) - 1), InWindow(q[m]),
           NEW e, e = SubSeq(q, 1, m)
    PROVE  \E i \in DOMAIN Earlier(q) : Earlier(q)[i] = Last(e)
<1>1. PICK w \in Seq(BarRecords) : w = Earlier(e)
  BY EarlierGrows
<1>2. PICK x \in Seq(BarRecords) : x = Earlier(q)
  BY EarlierGrows
<1>3. Last(e) \in BarRecords
  <2>1. Last(e) = q[m] /\ q[m] \in BarRecords
    BY EarlierGrows
  <2> QED
    BY <2>1
<1>4. PICK a : a = Append(w, Last(e))
  OBVIOUS
<1>5. Begins(a, x)
  BY <1>1, <1>2, <1>4, EarlierGrows
<1>6. PICK i \in Nat : i = Len(w) + 1
  BY LenProperties
<1>7. Len(a) = i /\ a[i] = Last(e)
  BY <1>3, <1>4, <1>6, AppendProperties
<1>8. i \in 1..Len(a) /\ i \in DOMAIN x
  <2>1. i >= 1 /\ i <= Len(x)
    BY <1>5, <1>6, <1>7, LenProperties DEF Begins
  <2> QED
    BY <1>6, <1>7, <2>1, LenProperties
<1> QED
  BY <1>2, <1>5, <1>7, <1>8 DEF Begins

LEMMA InWindowIs ==
    ASSUME NEW x \in BarRecords
    PROVE  x.slot \in Nat /\ (InWindow(x) => x.slot >= OpeningRange /\ ~InRange(x))
  BY IntradayAssumption DEF BarRecords, InWindow, InRange, OpeningRange

\* After a bar of the window the opening range has no more bars.
LEMMA SameRange ==
    ASSUME NEW q \in Seq(BarRecords), Rising(q), NEW m \in 1..(Len(q) - 1), InWindow(q[m]),
           NEW e, e = SubSeq(q, 1, m)
    PROVE  RangeHigh(e) = RangeHigh(q)
<1>1. PICK n \in Nat : n = Len(q) /\ DOMAIN q = 1..n
  BY LenProperties
<1>2. m \in 1..(n - 1) /\ m \in 0..n /\ m \in 1..n
  BY <1>1
<1>3. /\ e \in Seq(BarRecords) /\ Len(e) = m /\ \A i \in 1..m : e[i] = q[i]
  BY <1>1, <1>2, PrefixIs
<1>4. DOMAIN e = 1..m
  BY <1>3, LenProperties
<1>5. \A i \in 1..n : q[i] \in BarRecords
  BY <1>1, ElementOfSeq
<1>6. ASSUME NEW j \in 1..n, InRange(q[j]) PROVE j \in 1..m
  <2>1. q[m].slot \in Nat /\ q[j].slot \in Nat /\ q[m].slot >= OpeningRange
    BY <1>2, <1>5, InWindowIs
  <2>2. q[j].slot < OpeningRange
    BY <1>6 DEF InRange
  <2>3. ~(m < j)
    BY <1>1, <1>2, <2>1, <2>2 DEF Rising, OpeningRange
  <2> QED
    BY <1>2, <2>3
<1>7. PICK A : A = {j \in DOMAIN q : InRange(q[j])}
  OBVIOUS
<1>8. PICK B : B = {j \in DOMAIN e : InRange(e[j])}
  OBVIOUS
<1>9. \A i \in 1..m : i \in 1..n
  BY <1>2
<1>10. A = B
  BY <1>1, <1>3, <1>4, <1>6, <1>7, <1>8, <1>9
<1>11. {q[i].h : i \in A} = {e[i].h : i \in A}
  BY <1>3, <1>4, <1>8, <1>10
<1> QED
  BY <1>7, <1>8, <1>10, <1>11 DEF RangeHigh

\* The range of a session that has one has a highest price.
LEMMA RangeHighType ==
    ASSUME NEW q \in Seq(BarRecords), HasRange(q)
    PROVE  RangeHigh(q) \in Int
<1>1. PICK n \in Nat : n = Len(q) /\ DOMAIN q = 1..n
  BY LenProperties
<1>2. PICK A : A = {j \in DOMAIN q : InRange(q[j])}
  OBVIOUS
<1>3. \A j \in 1..n : q[j].h \in Int
  <2>1. \A j \in 1..n : q[j] \in BarRecords
    BY <1>1, ElementOfSeq
  <2> QED
    BY <2>1 DEF BarRecords, Price
<1> DEFINE Best(i, j) == j \in A \cap (1..i) /\ \A l \in A \cap (1..i) : q[l].h <= q[j].h
<1>4. PICK E : E = {i \in 0..n : A \cap (1..i) = {} \/ \E j \in 1..n : Best(i, j)}
  OBVIOUS
<1>5. 0 \in E
  BY <1>4
<1>6. ASSUME NEW i \in 1..n, i - 1 \in E PROVE i \in E
  <2>1. CASE i \notin A
    <3>1. A \cap (1..i) = A \cap (1..(i - 1))
      BY <2>1
    <3> QED
      BY <1>4, <1>6, <3>1
  <2>2. CASE i \in A /\ A \cap (1..(i - 1)) = {}
    <3>1. A \cap (1..i) = {i}
      BY <2>2
    <3>2. Best(i, i)
      BY <1>3, <3>1
    <3> QED
      BY <1>4, <3>2
  <2>3. CASE i \in A /\ A \cap (1..(i - 1)) # {}
    <3>1. PICK j \in 1..n : Best(i - 1, j)
      BY <1>4, <1>6, <2>3
    <3>2. A \cap (1..i) = (A \cap (1..(i - 1))) \cup {i}
      BY <2>3
    <3>3. \A l \in A \cap (1..i) : l \in 1..n
      OBVIOUS
    <3>4. CASE q[i].h <= q[j].h
      <4>1. Best(i, j)
        BY <3>1, <3>2, <3>4
      <4> QED
        BY <1>4, <4>1
    <3>5. CASE ~(q[i].h <= q[j].h)
      <4>1. q[j].h <= q[i].h /\ q[i].h <= q[i].h
        BY <1>3, <3>5
      <4>2. \A l \in A \cap (1..(i - 1)) : q[l].h <= q[i].h
        <5>1. \A l \in A \cap (1..(i - 1)) : l \in 1..n /\ q[l].h <= q[j].h
          BY <3>1
        <5> QED
          BY <1>3, <4>1, <5>1
      <4>3. Best(i, i)
        BY <2>3, <3>2, <4>1, <4>2
      <4> QED
        BY <1>4, <4>3
    <3> QED
      BY <3>4, <3>5
  <2> QED
    BY <2>1, <2>2, <2>3
<1>7. 0..n \subseteq E
  BY <1>5, <1>6, UpTo
<1>8. A \cap (1..n) = A /\ A # {}
  BY <1>1, <1>2 DEF HasRange
<1>e. n \in E
  BY <1>7
<1>9. PICK j \in 1..n : Best(n, j)
  BY <1>4, <1>8, <1>e
<1>10. PICK H : H = {q[i].h : i \in A}
  OBVIOUS
<1>11. q[j].h \in H /\ \A y \in H : q[j].h >= y
  <2>1. \A l \in A : q[l].h <= q[j].h /\ q[l].h \in Int
    BY <1>1, <1>2, <1>3, <1>8, <1>9
  <2> QED
    BY <1>3, <1>8, <1>9, <1>10, <2>1
<1>12. Most(H) \in H
  BY <1>11 DEF Most
<1>13. \A y \in H : y \in Int
  BY <1>1, <1>2, <1>3, <1>10
<1> QED
  BY <1>2, <1>10, <1>12, <1>13 DEF RangeHigh

LEMMA BarTypes ==
    \A x \in BarRecords : x.o \in Int /\ x.c \in Int /\ x.slot \in Int
  BY DEF BarRecords, Price

\* The view of the earlier signal is among the views of the later one.
LEMMA ViewedEarlier ==
    ASSUME NEW q \in Seq(BarRecords), NEW m \in 1..(Len(q) - 1), InWindow(q[m]),
           NEW e, e = SubSeq(q, 1, m)
    PROVE  e \in Views(q) /\ e # q
<1>1. PICK n \in Nat : n = Len(q)
  BY LenProperties
<1>2. m \in 1..n /\ m \in 0..n /\ m # n
  BY <1>1
<1>3. Len(e) = m
  BY <1>1, <1>2, PrefixIs
<1> QED
  BY <1>1, <1>2, <1>3 DEF Views

\* The signal of each family, true of a bar of the window, is false from then
\* on: it asks that no earlier bar of the window fired it.
LEMMA SignalOnce ==
    ASSUME NEW q \in Seq(BarRecords), Rising(q), NEW m \in 1..(Len(q) - 1), InWindow(q[m]),
           NEW f \in IntradayFamilies, NEW d \in Nat,
           Signal(f, d, SubSeq(q, 1, m)), Signal(f, d, q)
    PROVE  FALSE
<1>1. PICK n \in Nat : n = Len(q) /\ DOMAIN q = 1..n
  BY LenProperties
<1>2. PICK e : e = SubSeq(q, 1, m)
  OBVIOUS
<1>3. /\ m \in 1..(n - 1) /\ m \in 0..n /\ m \in 1..n /\ 1 \in 1..m /\ n \in 1..n /\ m < n
  BY <1>1
<1>4. /\ e \in Seq(BarRecords) /\ Len(e) = m /\ \A i \in 1..m : e[i] = q[i]
  BY <1>1, <1>2, <1>3, PrefixIs
<1>5. Last(e) = q[m] /\ Close(e) = q[m].c /\ e[1] = q[1] /\ Last(q) = q[n]
  BY <1>1, <1>3, <1>4 DEF Last, Close
<1>6. q[m] \in BarRecords /\ q[n] \in BarRecords /\ q[1] \in BarRecords
  BY <1>1, <1>3, ElementOfSeq
<1>b. /\ q[m].c \in Int /\ q[m].slot \in Int /\ q[n].slot \in Int /\ q[1].o \in Int
  BY <1>6, BarTypes
<1>v. e \in Views(q) /\ e # q
  BY <1>2, ViewedEarlier
<1>7. PICK i \in DOMAIN Earlier(q) : Earlier(q)[i] = q[m]
  BY <1>2, <1>5, SeenEarlier
<1>8. RangeHigh(e) = RangeHigh(q)
  BY <1>2, SameRange
<1>9. Signal(f, d, e) /\ Signal(f, d, q)
  BY <1>2
<1>10. CASE f = "orb"
  <2>1. OrbEntry(e) /\ OrbEntry(q)
    BY <1>9, <1>10 DEF Signal
  <2>2. PICK h : h = RangeHigh(q)
    OBVIOUS
  <2>3. q[m].c > h /\ q[m].c <= h
    BY <1>5, <1>7, <1>8, <2>1, <2>2 DEF OrbEntry
  <2>4. h \in Int
    BY <1>9, <1>10, <2>2, RangeHighType DEF Signal
  <2> QED
    BY <1>b, <2>3, <2>4
<1>11. CASE f = "orb_retest"
  <2>1. RetestEntry(e) /\ RetestEntry(q)
    BY <1>9, <1>11 DEF Signal
  <2>2. PICK h : h = RangeHigh(q)
    OBVIOUS
  <2>3. PICK w \in Seq(BarRecords) : w = Earlier(e)
    BY <1>2, EarlierGrows
  <2>4. PICK x \in Seq(BarRecords) : x = Earlier(q)
    BY <1>2, EarlierGrows
  <2>5. PICK a \in Seq(BarRecords) : a = Append(w, Last(e)) /\ Len(a) = Len(w) + 1
    BY <1>5, <1>6, AppendProperties
  <2>6. Begins(a, x)
    BY <1>2, <2>3, <2>4, <2>5, EarlierGrows
  <2>7. PICK k \in Nat : k = Len(a)
    BY LenProperties
  <2>l. k >= 1
    BY <2>3, <2>5, <2>7, LenProperties
  <2>n. PICK z \in Nat : z = Len(x) /\ DOMAIN x = 1..z
    BY LenProperties
  <2>j. k <= z /\ \A j \in 1..k : x[j] = a[j]
    BY <2>6, <2>7, <2>n DEF Begins
  <2>8. k \in 1..k /\ k \in DOMAIN x /\ \A j \in 1..k : x[j] = a[j]
    BY <2>l, <2>n, <2>j
  <2>9. Reclaimed(a, h, k)
    BY <1>8, <2>1, <2>2, <2>3, <2>5, <2>7 DEF RetestEntry
  <2>10. ~Reclaimed(x, h, k)
    BY <2>1, <2>2, <2>4, <2>8 DEF RetestEntry
  <2>11. x[k] = a[k] /\ \A j \in 1..(k - 1) : x[j] = a[j]
    BY <2>8
  <2>12. Reclaimed(x, h, k)
    BY <2>9, <2>11 DEF Reclaimed
  <2> QED
    BY <2>10, <2>12
<1>12. CASE f = "gap_continuation"
  <2>1. q[m].c > q[1].o /\ q[m].c <= q[1].o
    BY <1>5, <1>7, <1>9, <1>12 DEF Signal
  <2> QED
    BY <1>b, <2>1
<1>13. CASE f = "vwap_reversion"
  <2>1. PICK A : A = {x \in Views(e) : FarBelow(x)}
    OBVIOUS
  <2>2. PICK B : B = {x \in Views(q) : FarBelow(x)}
    OBVIOUS
  <2>3. A = {e} /\ B = {q}
    BY <1>9, <1>13, <2>1, <2>2 DEF Signal, ReversionEntry
  <2>4. e \in A
    BY <2>3
  <2>5. e \in B
    BY <1>v, <2>1, <2>2, <2>4
  <2> QED
    BY <1>v, <2>3, <2>5
<1>14. CASE f = "vwap_trend"
  <2>1. PICK A : A = {x \in Views(e) : FarAbove(x)}
    OBVIOUS
  <2>2. PICK B : B = {x \in Views(q) : FarAbove(x)}
    OBVIOUS
  <2>3. A = {e} /\ B = {q}
    BY <1>9, <1>14, <2>1, <2>2 DEF Signal, TrendEntry
  <2>4. e \in A
    BY <2>3
  <2>5. e \in B
    BY <1>v, <2>1, <2>2, <2>4
  <2> QED
    BY <1>v, <2>3, <2>5
<1>15. CASE f = "late_session"
  <2>1. PICK A : A = {x \in Views(e) : Len(x) > Lookback /\ Close(x) > Back(x, Lookback).c}
    OBVIOUS
  <2>2. PICK B : B = {x \in Views(q) : Len(x) > Lookback /\ Close(x) > Back(x, Lookback).c}
    OBVIOUS
  <2>3. A = {e} /\ B = {q}
    BY <1>9, <1>15, <2>1, <2>2 DEF Signal, LateEntry
  <2>4. e \in A
    BY <2>3
  <2>5. e \in B
    BY <1>v, <2>1, <2>2, <2>4
  <2> QED
    BY <1>v, <2>3, <2>5
<1>16. CASE f = "rsi2_intraday"
  <2>1. PICK A : A = {x \in Views(e) : HasRsi(Closes(x)) /\ Rsi(Closes(x)) <= 300}
    OBVIOUS
  <2>2. PICK B : B = {x \in Views(q) : HasRsi(Closes(x)) /\ Rsi(Closes(x)) <= 300}
    OBVIOUS
  <2>3. A = {e} /\ B = {q}
    BY <1>9, <1>16, <2>1, <2>2 DEF Signal, OversoldEntry
  <2>4. e \in A
    BY <2>3
  <2>5. e \in B
    BY <1>v, <2>1, <2>2, <2>4
  <2> QED
    BY <1>v, <2>3, <2>5
<1>17. CASE f = "random_matched"
  <2>1. q[m].slot >= d /\ q[m].slot < d
    BY <1>5, <1>7, <1>9, <1>17 DEF Signal
  <2> QED
    BY <1>b, <2>1
<1>18. CASE f \in {"time_of_day", "unconditional"}
  <2>1. q[m].slot = q[n].slot
    BY <1>5, <1>9, <1>18 DEF Signal
  <2>2. q[m].slot < q[n].slot
    BY <1>1, <1>3 DEF Rising
  <2> QED
    BY <1>b, <2>1, <2>2
<1> QED
  BY <1>10, <1>11, <1>12, <1>13, <1>14, <1>15, <1>16, <1>17, <1>18 DEF IntradayFamilies

\* The bars b printed on day d.
DayBars(b, d) == Kept(b, {i \in DOMAIN b : b[i].day \in {d}})

\* At most one entry so far; its bar is in the window and fired the signal, and
\* was not the one now to be decided on.
Entered(n, q, f, w, ph) ==
    \/ n = 0
    \/ n = 1 /\ \E m \in 1..Len(q) : /\ InWindow(q[m]) /\ Signal(f, w, SubSeq(q, 1, m))
                                     /\ ph = "decide" => m < Len(q)

\* A session on day d, at slot s: its bars rise up to the slot, and it has
\* been entered n times.
EntryAt(b, d, n, f, w, ph, s) ==
    /\ \A i \in DOMAIN b : b[i].day <= d
    /\ Rising(DayBars(b, d))
    /\ \A i \in 1..Len(DayBars(b, d)) : /\ DayBars(b, d)[i].slot <= s
                                        /\ ph = "open" => DayBars(b, d)[i].slot < s
    /\ Entered(n, DayBars(b, d), f, w, ph)

EntryInv == /\ draw \in Nat
            /\ SameSession => EntryAt(bars[RiskOn], day, entries, family, draw, phase, slot)

LEMMA DayBarsType ==
    ASSUME NEW b \in Seq(BarRecords), NEW d
    PROVE  DayBars(b, d) \in Seq(BarRecords)
<1>1. PICK P : P = {i \in DOMAIN b : b[i].day \in {d}}
  OBVIOUS
<1>2. \A i \in P \cap DOMAIN b : b[i] \in BarRecords
  BY LenProperties, ElementOfSeq
<1> QED
  BY <1>1, <1>2, KeptType DEF DayBars

LEMMA EntryStarts ==
    ASSUME NEW b \in Seq(BarRecords), NEW d \in Nat, \A i \in DOMAIN b : b[i].day < d,
           NEW f, NEW w, NEW s
    PROVE  EntryAt(b, d, 0, f, w, "open", s)
<1>1. PICK P : P = {i \in DOMAIN b : b[i].day \in {d}}
  OBVIOUS
<1>2. \A i \in DOMAIN b : b[i].day \in Nat
  <2>1. \A i \in DOMAIN b : b[i] \in BarRecords
    BY LenProperties, ElementOfSeq
  <2> QED
    BY <2>1 DEF BarRecords
<1>3. P \cap DOMAIN b = {}
  BY <1>1, <1>2
<1>4. Len(Kept(b, P)) = 0
  BY <1>3, KeptLength, FS_EmptySet
<1>5. Len(DayBars(b, d)) = 0
  BY <1>1, <1>4 DEF DayBars
<1>6. \A i \in DOMAIN b : b[i].day <= d
  BY <1>2
<1> QED
  BY <1>5, <1>6 DEF EntryAt, Rising, Entered

LEMMA EntryPasses ==
    ASSUME NEW b \in Seq(BarRecords), NEW d, NEW n, NEW f, NEW w, NEW ph, NEW s \in Nat,
           EntryAt(b, d, n, f, w, ph, s), NEW next, NEW t \in Nat,
           \/ next = "open" /\ t = s + 1
           \/ next \in {"close", "night", "done"} /\ t = s
    PROVE  EntryAt(b, d, n, f, w, next, t)
<1>1. PICK q \in Seq(BarRecords) : q = DayBars(b, d)
  BY DayBarsType
<1>2. \A i \in 1..Len(q) : q[i].slot \in Int
  BY ElementOfSeq, BarTypes
<1>3. \A i \in 1..Len(q) : q[i].slot <= s
  BY <1>1 DEF EntryAt
<1>4. \A i \in 1..Len(q) : q[i].slot <= t /\ (next = "open" => q[i].slot < t)
  BY <1>2, <1>3
<1>5. Entered(n, q, f, w, next)
  BY <1>1 DEF EntryAt, Entered
<1> QED
  BY <1>1, <1>4, <1>5 DEF EntryAt

LEMMA EntryPrints ==
    ASSUME NEW b \in Seq(BarRecords), NEW d \in Nat, NEW n, NEW f, NEW w, NEW s \in Nat,
           EntryAt(b, d, n, f, w, "open", s),
           NEW x \in BarRecords, x.day = d, x.slot = s
    PROVE  EntryAt(Append(b, x), d, n, f, w, "decide", s)
<1>1. PICK q \in Seq(BarRecords) : q = DayBars(b, d)
  BY DayBarsType
<1>2. PICK r \in Seq(BarRecords) : r = Append(b, x)
  BY Appended
<1>3. PICK l \in Nat : l = Len(b) /\ DOMAIN b = 1..l
  BY LenProperties
<1>4. Len(r) = l + 1 /\ r[l + 1] = x /\ \A i \in 1..l : r[i] = b[i]
  BY <1>2, <1>3, AppendProperties
<1>5. DOMAIN r = 1..(l + 1)
  BY <1>4, LenProperties
<1>6. PICK P : P = {i \in DOMAIN b : b[i].day \in {d}}
  OBVIOUS
<1>7. PICK R : R = {i \in DOMAIN r : r[i].day \in {d}}
  OBVIOUS
<1>8. \A i \in 1..l : b[i] = r[i] /\ (i \in P <=> i \in R)
  BY <1>3, <1>4, <1>5, <1>6, <1>7
<1>9. l + 1 \in R
  BY <1>4, <1>5, <1>7
<1>10. Kept(r, R) = Append(Kept(b, P), r[l + 1])
  <2>1. Len(r) = Len(b) + 1 /\ \A i \in 1..Len(b) : b[i] = r[i] /\ (i \in P <=> i \in R)
    BY <1>3, <1>4, <1>8
  <2>2. Kept(r, R) = IF Len(r) \in R THEN Append(Kept(b, P), r[Len(r)]) ELSE Kept(b, P)
    BY <2>1, KeptStep
  <2> QED
    BY <1>4, <1>9, <2>2
<1>11. DayBars(r, d) = Append(q, x)
  BY <1>1, <1>4, <1>6, <1>7, <1>10 DEF DayBars
<1>12. PICK z \in Seq(BarRecords) : z = Append(q, x)
  BY Appended
<1>13. PICK k \in Nat : k = Len(q)
  BY LenProperties
<1>14. Len(z) = k + 1 /\ z[k + 1] = x /\ \A i \in 1..k : z[i] = q[i]
  BY <1>12, <1>13, AppendProperties
<1>15. \A i \in 1..k : q[i].slot \in Int /\ q[i].slot < s
  <2>1. \A i \in 1..k : q[i] \in BarRecords
    BY <1>13, ElementOfSeq
  <2> QED
    BY <1>1, <1>13, <2>1, BarTypes DEF EntryAt
<1>16. \A i \in 1..(k + 1) : i = k + 1 \/ i \in 1..k
  BY <1>13
<1>17. \A i \in 1..Len(z) : z[i].slot <= s
  BY <1>14, <1>15, <1>16
<1>18. Rising(z)
  <2>1. ASSUME NEW i \in 1..Len(z), NEW j \in 1..Len(z), i < j PROVE z[i].slot < z[j].slot
    <3>1. i \in 1..k
      BY <1>14, <2>1
    <3>2. CASE j = k + 1
      BY <1>14, <1>15, <3>1, <3>2
    <3>3. CASE j \in 1..k
      BY <1>1, <1>13, <1>14, <2>1, <3>1, <3>3 DEF EntryAt, Rising
    <3> QED
      BY <1>14, <1>16, <3>2, <3>3
  <2> QED
    BY <2>1 DEF Rising
<1>19. Entered(n, z, f, w, "decide")
  <2>1. Entered(n, q, f, w, "open")
    BY <1>1 DEF EntryAt
  <2>2. CASE n = 0
    BY <2>2 DEF Entered
  <2>3. CASE n # 0
    <3>1. n = 1 /\ \E m \in 1..k : InWindow(q[m]) /\ Signal(f, w, SubSeq(q, 1, m))
      BY <1>13, <2>1, <2>3 DEF Entered
    <3>2. PICK m \in 1..k : InWindow(q[m]) /\ Signal(f, w, SubSeq(q, 1, m))
      BY <3>1
    <3>3. m \in 1..(k + 1) /\ m < k + 1 /\ m \in 0..k /\ m \in 0..(k + 1)
      BY <1>13
    <3>4. SubSeq(z, 1, m) = SubSeq(q, 1, m)
      <4>1. PICK a \in Seq(BarRecords) : a = SubSeq(q, 1, m)
        BY <1>13, <3>3, PrefixIs
      <4>2. PICK c \in Seq(BarRecords) : c = SubSeq(z, 1, m)
        BY <1>14, <3>3, PrefixIs
      <4>3. Len(a) = m /\ \A i \in 1..m : a[i] = q[i]
        BY <1>13, <3>3, <4>1, PrefixIs
      <4>4. Len(c) = m /\ \A i \in 1..m : c[i] = z[i]
        BY <1>14, <3>3, <4>2, PrefixIs
      <4>5. \A i \in 1..m : i \in 1..k
        BY <3>3
      <4>6. \A i \in 1..Len(a) : a[i] = c[i]
        BY <1>14, <4>3, <4>4, <4>5
      <4> QED
        BY <4>1, <4>2, <4>3, <4>4, <4>6, SeqEqual
    <3>5. InWindow(z[m])
      BY <1>14, <3>2
    <3> QED
      BY <1>14, <3>1, <3>2, <3>3, <3>4, <3>5 DEF Entered
  <2> QED
    BY <2>2, <2>3
<1>20. \A i \in DOMAIN r : r[i].day <= d
  <2>1. \A i \in 1..l : b[i].day <= d
    BY <1>3 DEF EntryAt
  <2>2. \A i \in 1..(l + 1) : i = l + 1 \/ i \in 1..l
    BY <1>3
  <2> QED
    BY <1>4, <1>5, <2>1, <2>2
<1> QED
  BY <1>2, <1>11, <1>12, <1>17, <1>18, <1>19, <1>20 DEF EntryAt

\* A signal that fires finds the session not entered yet.
LEMMA EntryFires ==
    ASSUME NEW b \in Seq(BarRecords), NEW d \in Nat, NEW n, NEW f \in IntradayFamilies,
           NEW w \in Nat, NEW s \in Nat, EntryAt(b, d, n, f, w, "decide", s),
           DayBars(b, d) # None, InWindow(Last(DayBars(b, d))), Signal(f, w, DayBars(b, d))
    PROVE  n = 0 /\ EntryAt(b, d, 1, f, w, "close", s)
<1>1. PICK q \in Seq(BarRecords) : q = DayBars(b, d)
  BY DayBarsType
<1>2. PICK k \in Nat : k = Len(q)
  BY LenProperties
<1>3. k \in 1..k /\ q[k] = Last(q)
  BY <1>1, <1>2, EmptySeq DEF None, Last
<1>4. Rising(q) /\ Signal(f, w, q) /\ InWindow(q[k]) /\ Entered(n, q, f, w, "decide")
  BY <1>1, <1>3 DEF EntryAt
<1>5. n = 0
  <2>1. SUFFICES ASSUME n # 0 PROVE FALSE
    OBVIOUS
  <2>2. PICK m \in 1..k : InWindow(q[m]) /\ Signal(f, w, SubSeq(q, 1, m)) /\ m < k
    BY <1>2, <1>4, <2>1 DEF Entered
  <2>3. m \in 1..(Len(q) - 1)
    BY <1>2, <2>2
  <2> QED
    BY <1>4, <2>2, <2>3, SignalOnce
<1>6. SubSeq(q, 1, k) = q
  <2>1. PICK a \in Seq(BarRecords) : a = SubSeq(q, 1, k) /\ Len(a) = k /\ \A i \in 1..k : a[i] = q[i]
    <3>1. k \in 0..Len(q)
      BY <1>2
    <3> QED
      BY <3>1, PrefixIs
  <2>2. Len(a) = Len(q) /\ \A i \in 1..Len(a) : a[i] = q[i]
    BY <1>2, <2>1
  <2> QED
    BY <2>1, <2>2, SeqEqual
<1>7. Entered(1, q, f, w, "close")
  BY <1>2, <1>3, <1>4, <1>6 DEF Entered
<1> QED
  BY <1>1, <1>5, <1>7 DEF EntryAt

LEMMA DrawsAre == Draws \subseteq Nat
  BY IntradayAssumption DEF Draws, OpeningRange

LEMMA InitEntry == ASSUME Init PROVE EntryInv
<1>1. draw \in Nat
  BY DrawsAre DEF Init
<1>2. bars[RiskOn] = None /\ day = 1 /\ entries = 0 /\ phase = "open" /\ slot = 0
  BY WalkFacts DEF Init
<1>3. PICK b \in Seq(BarRecords) : b = None
  BY EmptySeq DEF None
<1>5. DOMAIN b = {}
  <2>1. b = << >>
    BY <1>3 DEF None
  <2> QED
    BY <2>1
<1>4. EntryAt(b, 1, 0, family, draw, "open", 0)
  BY <1>3, <1>5, EntryStarts
<1> QED
  BY <1>1, <1>2, <1>3, <1>4 DEF EntryInv

LEMMA OpenEnters ==
    ASSUME WalkInv, EntryInv, NEW new \in [Walked -> Printable],
           \A s \in Walked : new[s] \in Candles[Kind][s] \cup {NoBar}, Open(new)
    PROVE  EntryInv'
<1>1. /\ Walking /\ Booked /\ phase = "open"
      /\ family' = family /\ day' = day /\ draw' = draw /\ entries' = entries
  BY DEF WalkInv, Open, walk
<1>2. draw' \in Nat
  BY <1>1 DEF EntryInv
<1>3. ASSUME SameSession
      PROVE  EntryAt(bars'[RiskOn], day, entries, family, draw, phase', slot')
  <2>1. PICK b \in Seq(BarRecords) : b = bars[RiskOn]
    BY <1>1, WalkFacts DEF Booked
  <2>2. PICK d \in Nat : d = day
    BY <1>1, WalkedIs DEF Walking
  <2>3. PICK s \in Nat : s = slot
    BY <1>1, WalkedIs DEF Walking
  <2>4. EntryAt(b, d, entries, family, draw, "open", s)
    BY <1>1, <1>3, <2>1, <2>2, <2>3 DEF EntryInv
  <2>5. CASE RiskOn \in Printed(new)
    <3>1. PICK x \in BarRecords : x = Stamped(new[RiskOn])
      BY <1>1, <2>5, QuotesType
    <3>2. x.day = d /\ x.slot = s
      BY <2>2, <2>3, <3>1 DEF Stamped
    <3>3. bars'[RiskOn] = Append(b, x) /\ phase' = "decide" /\ slot' = s
      BY <2>1, <2>3, <2>5, <3>1, WalkFacts DEF Open
    <3>4. EntryAt(Append(b, x), d, entries, family, draw, "decide", s)
      BY <2>4, <3>2, EntryPrints
    <3> QED
      BY <2>2, <3>3, <3>4
  <2>6. CASE RiskOn \notin Printed(new)
    <3>1. Printed(new) = {}
      BY <1>1, <1>3, <2>6, QuotesType, WalkedIs
    <3>2. Advance /\ bars'[RiskOn] = b
      BY <2>1, <2>6, <3>1, WalkFacts DEF Open
    <3>3. PICK ph : ph = phase'
      OBVIOUS
    <3>4. PICK t \in Nat : t = slot'
      BY <2>3, <3>2 DEF Advance
    <3>5. \/ ph = "open" /\ t = s + 1
          \/ ph \in {"close", "night", "done"} /\ t = s
      BY <2>3, <3>2, <3>3, <3>4 DEF Advance
    <3>6. EntryAt(b, d, entries, family, draw, ph, t)
      BY <2>4, <3>5, EntryPasses
    <3> QED
      BY <2>2, <3>2, <3>3, <3>4, <3>6
  <2> QED
    BY <2>5, <2>6
<1> QED
  BY <1>1, <1>2, <1>3 DEF EntryInv, SameSession

LEMMA DecideEnters ==
    ASSUME WalkInv, EntryInv, Decide
    PROVE  EntryInv'
<1>1. /\ Walking /\ Booked /\ WithinSession /\ phase = "decide" /\ Advance
      /\ family' = family /\ day' = day /\ draw' = draw /\ bars' = bars
  BY DEF WalkInv, Decide, walk
<1>2. draw' \in Nat
  BY <1>1 DEF EntryInv
<1>3. ASSUME SameSession
      PROVE  EntryAt(bars[RiskOn], day, entries', family, draw, phase', slot')
  <2>1. PICK b \in Seq(BarRecords) : b = bars[RiskOn]
    BY <1>1, WalkFacts DEF Booked
  <2>2. PICK d \in Nat : d = day
    BY <1>1, WalkedIs DEF Walking
  <2>3. PICK s \in Nat : s = slot
    BY <1>1, WalkedIs DEF Walking
  <2>4. PICK w \in Nat : w = draw
    BY DEF EntryInv
  <2>5. PICK f \in IntradayFamilies : f = family
    BY <1>3 DEF SameSession
  <2>6. EntryAt(b, d, entries, f, w, "decide", s)
    BY <1>1, <1>3, <2>1, <2>2, <2>3, <2>4, <2>5 DEF EntryInv
  <2>7. PICK ph : ph = phase'
    OBVIOUS
  <2>8. PICK t \in Nat : t = slot'
    BY <1>1, <2>3 DEF Advance
  <2>9. \/ ph = "open" /\ t = s + 1
        \/ ph \in {"close", "night", "done"} /\ t = s
    BY <1>1, <2>3, <2>7, <2>8 DEF Advance
  <2>10. PICK c : c = Cardinality(OfSide(Decision, "buy"))
    OBVIOUS
  <2>11. entries' = entries + c
    BY <2>10 DEF Decide
  <2>12. c = 0 \/ Entering(Decision)
    BY <1>1, <1>3, <2>10, DecisionType
  <2>13. PICK n : n = entries
    OBVIOUS
  <2>14. CASE c = 0
    <3>1. n \in {0, 1}
      BY <2>6, <2>13 DEF EntryAt, Entered
    <3>2. entries' = n
      BY <2>11, <2>13, <2>14, <3>1
    <3>3. EntryAt(b, d, n, f, w, ph, t)
      BY <2>6, <2>9, <2>13, EntryPasses
    <3> QED
      BY <2>1, <2>2, <2>4, <2>5, <2>7, <2>8, <3>2, <3>3
  <2>15. CASE Entering(Decision)
    <3>1. TodayBars = DayBars(b, d)
      BY <2>1, <2>2 DEF TodayBars, DayBars
    <3>2. TodayBars # None
      BY <1>1, <1>3, TodayBarsType DEF WithinSession, Booked
    <3>3. c = 1 /\ InWindow(Last(DayBars(b, d))) /\ Signal(f, w, DayBars(b, d))
      BY <2>4, <2>5, <2>10, <2>15, <3>1 DEF Entering
    <3>4. n = 0 /\ EntryAt(b, d, 1, f, w, "close", s)
      BY <2>6, <2>13, <3>1, <3>2, <3>3, EntryFires
    <3>5. entries' = 1
      BY <2>11, <2>13, <3>3, <3>4
    <3>6. EntryAt(b, d, 1, f, w, ph, t)
      BY <2>9, <3>4, EntryPasses
    <3> QED
      BY <2>1, <2>2, <2>4, <2>5, <2>7, <2>8, <3>5, <3>6
  <2> QED
    BY <2>12, <2>14, <2>15
<1> QED
  BY <1>1, <1>2, <1>3 DEF EntryInv, SameSession

LEMMA RestEnters ==
    ASSUME WalkInv, EntryInv, phase' \in {"night", "done"},
           UNCHANGED <<walk, slot, bars, entries>>
    PROVE  EntryInv'
<1>1. /\ Walking /\ Booked
      /\ family' = family /\ day' = day /\ draw' = draw /\ bars' = bars
      /\ slot' = slot /\ entries' = entries
  BY DEF WalkInv, walk
<1>2. draw' \in Nat
  BY <1>1 DEF EntryInv
<1>3. ASSUME SameSession
      PROVE  EntryAt(bars[RiskOn], day, entries, family, draw, phase', slot)
  <2>1. PICK b \in Seq(BarRecords) : b = bars[RiskOn]
    BY <1>1, WalkFacts DEF Booked
  <2>2. PICK s \in Nat : s = slot
    BY <1>1, WalkedIs DEF Walking
  <2>3. PICK ph \in {"close", "night", "done"} : ph = phase'
    OBVIOUS
  <2>4. EntryAt(b, day, entries, family, draw, phase, s)
    BY <1>3, <2>1, <2>2 DEF EntryInv
  <2>5. EntryAt(b, day, entries, family, draw, ph, s)
    BY <2>4, EntryPasses
  <2> QED
    BY <2>1, <2>2, <2>3, <2>5
<1> QED
  BY <1>1, <1>2, <1>3 DEF EntryInv, SameSession

LEMMA NextDayEnters ==
    ASSUME WalkInv, EntryInv, NextDay
    PROVE  EntryInv'
<1>1. /\ Walking /\ Booked /\ day' = day + 1 /\ slot' = 0 /\ phase' = "open"
      /\ entries' = 0 /\ family' = family /\ draw' \in Draws
      /\ bars' = [s \in Symbols |-> Remembered(bars[s])]
  BY DEF WalkInv, NextDay, Draws
<1>2. draw' \in Nat
  BY <1>1, DrawsAre
<1>3. ASSUME SameSession
      PROVE  EntryAt(bars'[RiskOn], day + 1, 0, family, draw', "open", 0)
  <2>1. PICK b \in Seq(BarRecords) : b = bars[RiskOn]
    BY <1>1, WalkFacts DEF Booked
  <2>2. PICK d \in Nat : d = day
    BY <1>1, WalkedIs DEF Walking
  <2>3. \A i \in DOMAIN b : b[i].day <= d
    BY <1>3, <2>1, <2>2 DEF EntryInv, EntryAt
  <2>4. PICK c : c = Remembered(b)
    OBVIOUS
  <2>5. bars'[RiskOn] = c
    BY <1>1, <2>1, <2>4, WalkFacts
  <2>6. c \in Seq(BarRecords) /\ \A i \in DOMAIN c : c[i].day < d + 1
    <3>1. CASE b = None
      BY <2>4, <3>1, EmptySeq, LenProperties DEF Remembered, None
    <3>2. CASE b # None
      <4>1. Len(b) \in 1..Len(b) /\ DOMAIN b = 1..Len(b)
        BY <3>2, EmptySeq, LenProperties DEF None
      <4>2. PICK x \in BarRecords : x = Last(b)
        BY <4>1, ElementOfSeq DEF Last
      <4>3. c = <<x>> /\ <<x>> \in Seq(BarRecords)
        BY <1>3, <2>4, <3>2, <4>2 DEF Remembered
      <4>4. x.day \in Nat /\ x.day <= d
        BY <2>3, <4>1, <4>2 DEF Last, BarRecords
      <4>5. \A i \in DOMAIN c : c[i] = x
        BY <4>3
      <4> QED
        BY <4>3, <4>4, <4>5
    <3> QED
      BY <3>1, <3>2
  <2>7. d + 1 \in Nat
    OBVIOUS
  <2>8. EntryAt(c, d + 1, 0, family, draw', "open", 0)
    BY <2>6, <2>7, EntryStarts
  <2> QED
    BY <2>2, <2>5, <2>8
<1> QED
  BY <1>1, <1>2, <1>3 DEF EntryInv, SameSession

\* A same-session strategy enters at most once a session, whatever the prices,
\* the window and the strategy: the signal of its entry bar stays on record, and
\* the same signal does not fire again behind it.
THEOREM EntersOnce == Spec => []OneEntryPerSession
<1>1. Init => WalkInv /\ EntryInv
  BY InitWalk, InitEntry
<1>2. WalkInv /\ EntryInv /\ [Next]_vars => (WalkInv /\ EntryInv)'
  <2>1. ASSUME WalkInv, EntryInv, NEW new \in [Walked -> Printable],
               \A s \in Walked : new[s] \in Candles[Kind][s] \cup {NoBar}, Open(new)
        PROVE  EntryInv'
    BY <2>1, OpenEnters
  <2>2. ASSUME WalkInv, EntryInv, Decide PROVE EntryInv'
    BY <2>2, DecideEnters
  <2>3. ASSUME WalkInv, EntryInv, Flatten PROVE EntryInv'
    BY <2>3, RestEnters DEF Flatten
  <2>4. ASSUME WalkInv, EntryInv, NextDay PROVE EntryInv'
    BY <2>4, NextDayEnters
  <2>5. ASSUME WalkInv, EntryInv, Finish PROVE EntryInv'
    BY <2>5, RestEnters DEF Finish
  <2>6. ASSUME WalkInv, EntryInv, UNCHANGED vars PROVE EntryInv'
    BY <2>6 DEF EntryInv, vars, SameSession
  <2>7. WalkInv /\ EntryInv /\ Next => EntryInv'
    BY <2>1, <2>2, <2>3, <2>4, <2>5 DEF Next
  <2> QED
    BY <2>6, <2>7, StepKeeps, StutterKeeps
<1>3. EntryInv => OneEntryPerSession
  BY DEF EntryInv, EntryAt, Entered, OneEntryPerSession
<1> QED
  BY <1>1, <1>2, <1>3, PTL DEF Spec
=============================================================================
