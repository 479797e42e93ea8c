-------------------------- MODULE TransitionProofs --------------------------
(***************************************************************************)
(* Theorems about the TRANSITION encoding: what is encoded decodes to the  *)
(* same samples, for any number of samples, any sample width, any digits   *)
(* of a varint and any length of a machine word.                           *)
(***************************************************************************)
EXTENDS Transition, DataFacts, TLAPS

-----------------------------------------------------------------------------
(* Digits.                                                                 *)

(* The last digit and the others.                                          *)
Low(v)  == v % More
High(v) == v \div More

LEMMA Digits ==
  ASSUME NEW v \in Nat
  PROVE  /\ Low(v) \in 0 .. More - 1 /\ High(v) \in Nat
         /\ v = (High(v) * More) + Low(v)
         /\ v >= More => High(v) < v /\ High(v) # 0
         /\ v < More => Low(v) = v /\ High(v) = 0
<1> DEFINE q == v \div More
           r == v % More
<1>1. More \in Nat \ {0} /\ More >= 2
  BY TransitionAssumption
<1>2. r \in 0 .. More - 1 /\ q \in Nat /\ v = (q * More) + r
  BY <1>1, DivMod
<1> HIDE DEF q, r
<1>3. q = 0 => q * More = 0
  BY <1>1, Product, Z3
<1>4. q # 0 => q * More >= q + q /\ q * More >= More
  <2>1. SUFFICES ASSUME q # 0 PROVE q * More >= q + q /\ q * More >= More
    OBVIOUS
  <2>2. (q * 2) + (q * (More - 2)) = q * More /\ q * (More - 2) \in Nat
    BY <1>1, <1>2, Z3
  <2>3. (1 * More) + ((q - 1) * More) = q * More /\ (q - 1) * More \in Nat
    BY <1>1, <1>2, <2>1, Z3
  <2> QED
    BY <1>1, <1>2, <2>2, <2>3
<1>5. v >= More => q < v /\ q # 0
  BY <1>1, <1>2, <1>3, <1>4
<1>6. v < More => r = v /\ q = 0
  BY <1>1, <1>2, <1>3, <1>4
<1> QED
  BY <1>2, <1>5, <1>6 DEF q, r, Low, High

(* Power, unfolded.                                                        *)
LEMMA PowerDef ==
  /\ Power[0] = 1
  /\ \A n \in Nat : Power[n] \in Nat \ {0} /\ Power[n + 1] = More * Power[n]
<1> DEFINE rank == [n \in Nat |-> n]
           step == [n \in Nat |-> [f \in [Nat -> Nat] |->
                      IF n = 0 THEN 1 ELSE More * f[n - 1]]]
<1>1. More \in Nat /\ More > 1
  BY TransitionAssumption
<1>2. rank \in [Nat -> Nat] /\ \A n \in Nat : rank[n] = n
  OBVIOUS
<1>3. /\ step \in [Nat -> [[Nat -> Nat] -> Nat]]
      /\ \A n \in Nat : \A f \in [Nat -> Nat] :
           step[n][f] = IF n = 0 THEN 1 ELSE More * f[n - 1]
  <2>1. ASSUME NEW n \in Nat, NEW f \in [Nat -> Nat]
        PROVE  (IF n = 0 THEN 1 ELSE More * f[n - 1]) \in Nat
    <3>1. n # 0 => f[n - 1] \in Nat
      OBVIOUS
    <3> QED
      BY <1>1, <3>1, Product
  <2> QED
    BY <2>1
<1> HIDE DEF rank, step
<1>4. LooksBack(Nat, Nat, rank, step)
  <2> SUFFICES ASSUME NEW n \in Nat, NEW f \in [Nat -> Nat], NEW g \in [Nat -> Nat],
                      \A j \in Nat : rank[j] < rank[n] => f[j] = g[j]
               PROVE  step[n][f] = step[n][g]
    BY DEF LooksBack
  <2>1. n # 0 => f[n - 1] = g[n - 1]
    BY <1>2
  <2> QED
    BY <1>3, <2>1
<1>5. PICK f : Solves(f, Nat, Nat, step)
  <2>1. IsRecursion(Nat, Nat, rank, step)
    BY <1>2, <1>3, <1>4 DEF IsRecursion
  <2> QED
    BY <2>1, Recursion, Zenon
<1>6. f = [n \in Nat |-> IF n = 0 THEN 1 ELSE More * f[n - 1]]
  BY <1>3, <1>5 DEF Solves
<1>7. Power = [n \in Nat |-> IF n = 0 THEN 1 ELSE More * Power[n - 1]]
  BY <1>6 DEF Power
<1>8. Power[0] = 1 /\ \A n \in Nat : Power[n + 1] = More * Power[n]
  BY <1>7
<1> DEFINE T == {n \in Nat : Power[n] \in Nat \ {0}}
<1>9. ASSUME NEW n \in Nat, \A m \in 0 .. n - 1 : m \in T PROVE n \in T
  <2>1. CASE n = 0
    BY <1>8, <2>1
  <2>2. CASE n # 0
    <3>1. n - 1 \in Nat /\ n - 1 \in T
      BY <1>9, <2>2
    <3>2. Power[n - 1] \in Nat \ {0} /\ Power[n] = More * Power[n - 1]
      BY <1>7, <2>2, <3>1
    <3>3. More * Power[n - 1] \in Nat \ {0}
      BY <1>1, <3>2, Z3
    <3> QED
      BY <3>2, <3>3
  <2> QED
    BY <2>1, <2>2
<1> HIDE DEF T
<1>10. \A n \in Nat : n \in T
  BY <1>9, Induction
<1> QED
  BY <1>8, <1>10 DEF T

-----------------------------------------------------------------------------
(* put_varint.                                                             *)

(* Unfolded: the last digit first, marked if there are others.             *)
LEMMA PutDef ==
  \A v \in Nat :
    /\ PutVarint(v) \in Seq(Bytes) /\ <<More + Low(v)>> \in Seq(Bytes)
    /\ v < More => PutVarint(v) = <<v>>
    /\ v >= More =>
         PutVarint(v) = <<More + Low(v)>> \o PutVarint(High(v))
<1> DEFINE V == Seq(Bytes)
           rank == [v \in Nat |-> v]
           step == [v \in Nat |-> [f \in [Nat -> V] |->
                      IF v >= More THEN <<More + Low(v)>> \o f[High(v)]
                                   ELSE <<v>>]]
<1>1. More \in Nat /\ More > 1
  BY TransitionAssumption
<1>2. rank \in [Nat -> Nat] /\ \A v \in Nat : rank[v] = v
  OBVIOUS
<1>3. ASSUME NEW v \in Nat
      PROVE  /\ High(v) \in Nat
             /\ v >= More => High(v) < v
             /\ <<More + Low(v)>> \in V
             /\ v < More => <<v>> \in V
  <2>1. More + Low(v) \in Bytes
    <3>1. Low(v) \in 0 .. More - 1
      BY Digits
    <3> QED
      BY <1>1, <3>1 DEF Bytes
  <2>2. v < More => v \in Bytes
    BY <1>1 DEF Bytes
  <2> QED
    BY <2>1, <2>2, Digits
<1>4. /\ step \in [Nat -> [[Nat -> V] -> V]]
      /\ \A v \in Nat : \A f \in [Nat -> V] :
           step[v][f] = IF v >= More THEN <<More + Low(v)>> \o f[High(v)]
                                     ELSE <<v>>
  <2>1. ASSUME NEW v \in Nat, NEW f \in [Nat -> V]
        PROVE  (IF v >= More THEN <<More + Low(v)>> \o f[High(v)]
                             ELSE <<v>>) \in V
    <3>1. f[High(v)] \in V /\ <<More + Low(v)>> \in V
      BY <1>3
    <3>2. <<More + Low(v)>> \o f[High(v)] \in V
      BY <3>1, Concatenation
    <3>3. v >= More \/ v < More
      BY <1>1
    <3> QED
      BY <1>3, <3>2, <3>3
  <2> QED
    BY <2>1
<1> HIDE DEF rank, step
<1>5. LooksBack(Nat, V, rank, step)
  <2> SUFFICES ASSUME NEW v \in Nat, NEW f \in [Nat -> V], NEW g \in [Nat -> V],
                      \A j \in Nat : rank[j] < rank[v] => f[j] = g[j]
               PROVE  step[v][f] = step[v][g]
    BY DEF LooksBack
  <2>1. v >= More => f[High(v)] = g[High(v)]
    BY <1>1, <1>2, <1>3
  <2> QED
    BY <1>4, <2>1
<1>6. PICK f : Solves(f, Nat, V, step)
  <2>1. V # {}
    BY NoElements
  <2>2. IsRecursion(Nat, V, rank, step)
    BY <1>2, <1>4, <1>5, <2>1 DEF IsRecursion
  <2> QED
    BY <2>2, Recursion, Zenon
<1> DEFINE put == CHOOSE put : put = [v \in Nat |->
                     IF v >= More THEN <<More + (v % More)>> \o put[v \div More]
                                  ELSE <<v>>]
<1>7. f = [v \in Nat |-> IF v >= More THEN <<More + (v % More)>> \o f[v \div More]
                                      ELSE <<v>>]
  BY <1>4, <1>6 DEF Solves, Low, High
<1>8. put = [v \in Nat |-> IF v >= More THEN <<More + (v % More)>> \o put[v \div More]
                                        ELSE <<v>>]
  BY <1>7
<1>9. \A v \in Nat : PutVarint(v) = put[v]
  BY DEF PutVarint
<1> HIDE DEF put
<1>10. \A v \in Nat : /\ v >= More => put[v] = <<More + Low(v)>> \o put[High(v)]
                      /\ v < More => put[v] = <<v>>
  <2>1. \A v \in Nat : put[v] = IF v >= More THEN <<More + Low(v)>> \o put[High(v)]
                                             ELSE <<v>>
    BY <1>8 DEF Low, High
  <2>2. \A v \in Nat : v < More => ~(v >= More)
    BY <1>1
  <2> QED
    BY <2>1, <2>2
<1> DEFINE T == {v \in Nat : put[v] \in V}
<1>11. ASSUME NEW v \in Nat, \A m \in 0 .. v - 1 : m \in T PROVE v \in T
  <2>1. CASE v >= More
    <3>1. High(v) \in 0 .. v - 1
      BY <1>1, <1>3, <2>1
    <3>2. put[High(v)] \in V
      BY <1>11, <3>1
    <3>3. <<More + Low(v)>> \o put[High(v)] \in V
      BY <1>3, <3>2, Concatenation
    <3> QED
      BY <1>10, <2>1, <3>3
  <2>2. CASE v < More
    BY <1>1, <1>3, <1>10, <2>2
  <2> QED
    BY <1>1, <2>1, <2>2
<1>12. \A v \in Nat : v \in T
  <2> HIDE DEF T
  <2> QED
    BY <1>11, Induction
<1> HIDE DEF T
<1>13. ASSUME NEW v \in Nat
       PROVE  /\ PutVarint(v) \in Seq(Bytes) /\ <<More + Low(v)>> \in Seq(Bytes)
              /\ v < More => PutVarint(v) = <<v>>
              /\ v >= More => PutVarint(v) = <<More + Low(v)>> \o PutVarint(High(v))
  <2>1. PutVarint(v) = put[v] /\ PutVarint(High(v)) = put[High(v)]
    BY <1>3, <1>9, Zenon
  <2>2. put[v] \in V
    BY <1>12 DEF T
  <2>3. <<More + Low(v)>> \in Seq(Bytes)
    BY <1>3
  <2> QED
    BY <1>1, <1>10, <2>1, <2>2, <2>3
<1> QED
  BY <1>13

-----------------------------------------------------------------------------
(* get_varint.                                                             *)

(* The value of the bytes up to one of them, unfolded.                     *)
LEMMA ValueDef ==
  ASSUME NEW input \in Seq(Bytes), NEW to \in 0 .. Len(input)
  PROVE  \A i \in 1 .. Len(input) + 1 :
           /\ VarintValue(input, i, to) \in Nat
           /\ i > to => VarintValue(input, i, to) = 0
           /\ i <= to => VarintValue(input, i, to)
                           = Low(input[i]) + (More * VarintValue(input, i + 1, to))
<1> DEFINE D == 1 .. Len(input) + 1
           rank == [i \in D |-> Len(input) + 1 - i]
           step == [i \in D |-> [f \in [D -> Nat] |->
                      IF i > to THEN 0 ELSE Low(input[i]) + (More * f[i + 1])]]
<1>1. More \in Nat /\ More > 1 /\ Len(input) \in Nat
  BY TransitionAssumption
<1>2. rank \in [D -> Nat] /\ \A i \in D : rank[i] = Len(input) + 1 - i
  BY <1>1
<1>3. ASSUME NEW i \in D, i <= to
      PROVE  i + 1 \in D /\ Low(input[i]) \in Nat
  <2>1. i \in 1 .. Len(input) /\ i + 1 \in D
    BY <1>1, <1>3
  <2>2. input[i] \in Bytes
    BY <2>1
  <2>3. input[i] \in Nat
    BY <1>1, <2>2 DEF Bytes
  <2>4. Low(input[i]) \in 0 .. More - 1
    BY <2>3, Digits
  <2> QED
    BY <1>1, <2>1, <2>4
<1>4. ASSUME NEW i \in D, NEW n \in Nat, i <= to
      PROVE  Low(input[i]) + (More * n) \in Nat
  <2>1. More * n \in Nat
    BY <1>1, Product
  <2> QED
    BY <1>3, <1>4, <2>1
<1>5. /\ step \in [D -> [[D -> Nat] -> Nat]]
      /\ \A i \in D : \A f \in [D -> Nat] :
           step[i][f] = IF i > to THEN 0 ELSE Low(input[i]) + (More * f[i + 1])
  <2>1. ASSUME NEW i \in D, NEW f \in [D -> Nat]
        PROVE  (IF i > to THEN 0 ELSE Low(input[i]) + (More * f[i + 1])) \in Nat
    <3>1. CASE i > to
      BY <3>1
    <3>2. CASE i <= to
      <4>1. f[i + 1] \in Nat
        BY <1>3, <3>2
      <4> QED
        BY <1>4, <3>2, <4>1
    <3> QED
      BY <1>1, <3>1, <3>2
  <2> QED
    BY <2>1
<1> HIDE DEF rank, step
<1>17. ASSUME NEW i \in D, i <= to PROVE rank[i + 1] < rank[i]
  <2>1. i + 1 \in D
    BY <1>3, <1>17
  <2>2. rank[i] = Len(input) + 1 - i /\ rank[i + 1] = Len(input) + 1 - (i + 1) /\ i \in Nat
    BY <1>2, <2>1
  <2> QED
    BY <1>1, <2>2
<1>6. LooksBack(D, Nat, rank, step)
  <2> SUFFICES ASSUME NEW i \in D, NEW f \in [D -> Nat], NEW g \in [D -> Nat],
                      \A j \in D : rank[j] < rank[i] => f[j] = g[j]
               PROVE  step[i][f] = step[i][g]
    BY DEF LooksBack
  <2>1. ASSUME i <= to PROVE f[i + 1] = g[i + 1]
    <3>1. i + 1 \in D
      BY <1>3, <2>1
    <3>2. rank[i + 1] < rank[i]
      BY <1>17, <2>1
    <3> QED
      BY <3>1, <3>2
  <2>2. i > to \/ i <= to
    BY <1>1
  <2> QED
    BY <1>5, <2>1, <2>2
<1>7. PICK f : Solves(f, D, Nat, step)
  <2>1. IsRecursion(D, Nat, rank, step)
    BY <1>2, <1>5, <1>6 DEF IsRecursion
  <2> QED
    BY <2>1, Recursion, Zenon
<1> DEFINE value == CHOOSE value : value = [i \in 1 .. Len(input) + 1 |->
                      IF i > to THEN 0 ELSE (input[i] % More) + More * value[i + 1]]
<1>8. f = [i \in D |-> IF i > to THEN 0 ELSE (input[i] % More) + More * f[i + 1]]
  BY <1>5, <1>7 DEF Solves, Low
<1>9. value = [i \in D |-> IF i > to THEN 0 ELSE (input[i] % More) + More * value[i + 1]]
  BY <1>8
<1>10. \A i \in D : VarintValue(input, i, to) = value[i]
  BY DEF VarintValue
<1> HIDE DEF value
<1>11. \A i \in D : /\ i > to => value[i] = 0
                    /\ i <= to => value[i] = Low(input[i]) + (More * value[i + 1])
  <2>1. \A i \in D : value[i] = IF i > to THEN 0
                                ELSE Low(input[i]) + (More * value[i + 1])
    BY <1>9 DEF Low
  <2>2. \A i \in D : i <= to => ~(i > to)
    BY <1>1
  <2> HIDE DEF D
  <2> QED
    BY <2>1, <2>2
<1> DEFINE T == {i \in D : value[i] \in Nat}
<1>12. ASSUME NEW i \in D, \A j \in D : rank[j] < rank[i] => j \in T PROVE i \in T
  <2>1. CASE i > to
    BY <1>11, <2>1
  <2>2. CASE i <= to
    <3>1. i + 1 \in D /\ rank[i + 1] < rank[i]
      BY <1>3, <1>17, <2>2
    <3>2. value[i + 1] \in Nat
      BY <1>12, <3>1
    <3> QED
      BY <1>4, <1>11, <2>2, <3>2
  <2> QED
    BY <1>1, <2>1, <2>2
<1>14. \A i \in D : i \in T
  <2> HIDE DEF T, D
  <2>1. rank \in [D -> Nat]
    BY <1>2
  <2>2. \A i \in D : (\A j \in D : rank[j] < rank[i] => j \in T) => i \in T
    BY <1>12
  <2> QED
    BY <2>1, <2>2, RankInduction
<1>15. ASSUME NEW i \in D, i <= to
       PROVE  VarintValue(input, i + 1, to) = value[i + 1]
  BY <1>3, <1>10, <1>15
<1> HIDE DEF D
<1>16. \A i \in D :
           /\ VarintValue(input, i, to) \in Nat
           /\ i > to => VarintValue(input, i, to) = 0
           /\ i <= to => VarintValue(input, i, to)
                           = Low(input[i]) + (More * VarintValue(input, i + 1, to))
  BY <1>10, <1>11, <1>14, <1>15
<1> QED
  BY <1>16 DEF D

-----------------------------------------------------------------------------
(* What a varint looks like.                                               *)

(* All bytes but the last are marked, and there is a last one.             *)
Marked(s) ==
  /\ Len(s) \in Nat \ {0}
  /\ \A i \in 1 .. Len(s) - 1 : s[i] >= More
  /\ s[Len(s)] < More

LEMMA PutIsMarked == \A v \in Nat : Marked(PutVarint(v))
<1> DEFINE T == {v \in Nat : Marked(PutVarint(v))}
<1>1. More \in Nat /\ More > 1
  BY TransitionAssumption
<1>2. ASSUME NEW v \in Nat, \A m \in 0 .. v - 1 : m \in T PROVE v \in T
  <2>1. CASE v < More
    <3>1. PutVarint(v) = <<v>>
      BY <2>1, PutDef
    <3>2. Marked(<<v>>)
      BY <2>1 DEF Marked
    <3> QED
      BY <3>1, <3>2
  <2>2. CASE v >= More
    <3> DEFINE s == PutVarint(High(v))
               b == More + Low(v)
    <3>1. High(v) \in 0 .. v - 1 /\ High(v) \in Nat /\ Low(v) \in Nat
      BY <1>1, <2>2, Digits
    <3>2. Marked(s)
      BY <1>2, <3>1
    <3>3. s \in Seq(Bytes) /\ <<b>> \in Seq(Bytes) /\ PutVarint(v) = <<b>> \o s
      BY <2>2, <3>1, PutDef
    <3>4. b >= More
      BY <1>1, <3>1
    <3> HIDE DEF s, b
    <3>6. /\ Len(<<b>>) = 1 /\ Len(s) \in Nat \ {0} /\ Len(<<b>> \o s) = 1 + Len(s)
          /\ (<<b>> \o s)[1] = b
          /\ \A i \in 1 .. Len(s) : (<<b>> \o s)[1 + i] = s[i]
      <4>1. Len(<<b>>) = 1 /\ <<b>>[1] = b
        OBVIOUS
      <4> QED
        BY <3>2, <3>3, <4>1, Concatenation, Joining DEF Marked
    <3>7. ASSUME NEW i \in 1 .. Len(s) PROVE (<<b>> \o s)[i] >= More
      <4>1. CASE i = 1
        BY <3>4, <3>6, <4>1
      <4>2. CASE i # 1
        <5>1. i - 1 \in 1 .. Len(s) - 1 /\ 1 + (i - 1) = i
          BY <3>6, <4>2
        <5>2. (<<b>> \o s)[i] = s[i - 1] /\ s[i - 1] >= More
          BY <3>2, <3>6, <5>1 DEF Marked
        <5> QED
          BY <5>2
      <4> QED
        BY <4>1, <4>2
    <3>8. (<<b>> \o s)[1 + Len(s)] < More
      <4>1. Len(s) \in 1 .. Len(s) /\ s[Len(s)] < More
        BY <3>2 DEF Marked
      <4> QED
        BY <3>6, <4>1
    <3>9. Marked(<<b>> \o s)
      <4> DEFINE w == <<b>> \o s
      <4>1. Len(w) \in Nat \ {0} /\ Len(w) = 1 + Len(s)
        BY <3>6
      <4>2. \A i \in 1 .. Len(w) - 1 : w[i] >= More
        BY <3>6, <3>7, <4>1
      <4>3. w[Len(w)] < More
        BY <3>8, <4>1
      <4> HIDE DEF w
      <4>4. Marked(w)
        BY <4>1, <4>2, <4>3 DEF Marked
      <4> QED
        BY <4>4 DEF w
    <3> QED
      BY <3>3, <3>9
  <2> QED
    BY <1>1, <2>1, <2>2
<1> HIDE DEF T
<1>3. \A v \in Nat : v \in T
  BY <1>2, Induction
<1> QED
  BY <1>3 DEF T

(* What k digits can count takes k bytes at most.                          *)
LEMMA PutIsShort ==
  \A k \in Nat : \A v \in Nat : v < Power[k] /\ k # 0 => Len(PutVarint(v)) <= k
<1> DEFINE T == {k \in Nat : \A v \in Nat : v < Power[k] /\ k # 0 => Len(PutVarint(v)) <= k}
<1>1. More \in Nat /\ More > 1
  BY TransitionAssumption
<1>2. ASSUME NEW k \in Nat, \A m \in 0 .. k - 1 : m \in T PROVE k \in T
  <2> SUFFICES ASSUME NEW v \in Nat, v < Power[k], k # 0
               PROVE  Len(PutVarint(v)) <= k
    OBVIOUS
  <2>1. CASE v < More
    <3>1. PutVarint(v) = <<v>>
      BY <2>1, PutDef
    <3> QED
      BY <3>1
  <2>2. CASE v >= More
    <3>1. k - 1 \in Nat /\ k = (k - 1) + 1
      OBVIOUS
    <3>2. Power[k] = More * Power[k - 1] /\ Power[k - 1] \in Nat \ {0}
      BY <3>1, PowerDef
    <3>3. /\ High(v) \in Nat /\ Low(v) \in Nat /\ v = (High(v) * More) + Low(v)
      BY <2>2, Digits
    <3>4. High(v) < Power[k - 1]
      <4> DEFINE h == High(v)
                 p == Power[k - 1]
      <4>1. h \in Nat /\ p \in Nat /\ h * More < More * p
        <5>1. h * More \in Nat /\ More * p \in Nat
          BY <1>1, <3>2, <3>3, Product
        <5> QED
          BY <1>1, <3>2, <3>3, <5>1
      <4> HIDE DEF h, p
      <4>2. h < p
        BY <1>1, <4>1, Z3
      <4> QED
        BY <4>2 DEF h, p
    <3>5. k - 1 # 0
      <4>1. High(v) # 0
        BY <2>2, Digits
      <4>2. Power[0] = 1
        BY PowerDef
      <4> QED
        BY <3>2, <3>3, <3>4, <4>1, <4>2
    <3>6. Len(PutVarint(High(v))) <= k - 1
      <4>1. k - 1 \in T
        BY <1>2, <3>1
      <4> QED
        BY <3>3, <3>4, <3>5, <4>1
    <3>7. /\ PutVarint(v) = <<More + Low(v)>> \o PutVarint(High(v))
          /\ PutVarint(High(v)) \in Seq(Bytes) /\ PutVarint(v) \in Seq(Bytes)
      BY <2>2, <3>3, PutDef
    <3>8. Len(PutVarint(v)) = 1 + Len(PutVarint(High(v)))
      BY <3>7
    <3> QED
      BY <3>1, <3>6, <3>7, <3>8
  <2> QED
    BY <1>1, <2>1, <2>2
<1> HIDE DEF T
<1>3. \A k \in Nat : k \in T
  BY <1>2, Induction
<1> QED
  BY <1>3 DEF T

-----------------------------------------------------------------------------
(* A varint that is read back.                                             *)

(* The bytes of input from position from are those of s.                   *)
Holds(input, from, s) ==
  /\ from \in Nat \ {0} /\ from + Len(s) <= Len(input) + 1
  /\ \A i \in 1 .. Len(s) : input[(from - 1) + i] = s[i]

(* Where a concatenation is, its parts are, one after the other.           *)
LEMMA HoldsParts ==
  ASSUME NEW input \in Seq(Bytes), NEW from, NEW s \in Seq(Bytes), NEW t \in Seq(Bytes),
         Holds(input, from, s \o t)
  PROVE  Holds(input, from, s) /\ Holds(input, from + Len(s), t)
<1>1. /\ s \o t \in Seq(Bytes) /\ Len(s \o t) = Len(s) + Len(t)
      /\ Len(s) \in Nat /\ Len(t) \in Nat /\ Len(input) \in Nat
  BY Concatenation
<1>2. /\ \A i \in 1 .. Len(s) : (s \o t)[i] = s[i]
      /\ \A i \in 1 .. Len(t) : (s \o t)[Len(s) + i] = t[i]
  BY Joining
<1> DEFINE w == s \o t
<1>3. /\ from \in Nat \ {0} /\ from + Len(w) <= Len(input) + 1
      /\ \A i \in 1 .. Len(w) : input[(from - 1) + i] = w[i]
  BY DEF Holds
<1>4. Len(w) = Len(s) + Len(t)
  BY <1>1
<1>5. /\ \A i \in 1 .. Len(s) : w[i] = s[i]
      /\ \A i \in 1 .. Len(t) : w[Len(s) + i] = t[i]
  BY <1>2
<1> HIDE DEF w
<1>6. Holds(input, from, s)
  BY <1>1, <1>3, <1>4, <1>5 DEF Holds
<1>7. Holds(input, from + Len(s), t)
  <2>1. ASSUME NEW i \in 1 .. Len(t)
        PROVE  input[((from + Len(s)) - 1) + i] = t[i]
    <3>1. Len(s) + i \in 1 .. Len(w)
      BY <1>1, <1>4
    <3>2. ((from + Len(s)) - 1) + i = (from - 1) + (Len(s) + i)
      BY <1>1, <1>3
    <3> QED
      BY <1>3, <1>5, <3>1, <3>2
  <2> QED
    BY <1>1, <1>3, <1>4, <2>1 DEF Holds
<1> QED
  BY <1>6, <1>7

(* The mark of a byte does not count.                                      *)
LEMMA MarkIsDropped == \A r \in 0 .. More - 1 : Low(More + r) = r
<1>1. More \in Nat /\ More > 1
  BY TransitionAssumption
<1> SUFFICES ASSUME NEW r \in 0 .. More - 1 PROVE Low(More + r) = r
  OBVIOUS
<1> QED
  BY <1>1, Z3 DEF Low

(* What was put is the value, wherever it is.                              *)
LEMMA ValueOfPut ==
  \A v \in Nat : \A input \in Seq(Bytes) : \A from \in Nat \ {0} :
    Holds(input, from, PutVarint(v))
      => VarintValue(input, from, (from - 1) + Len(PutVarint(v))) = v
<1> DEFINE T == {v \in Nat : \A input \in Seq(Bytes) : \A from \in Nat \ {0} :
                   Holds(input, from, PutVarint(v))
                     => VarintValue(input, from, (from - 1) + Len(PutVarint(v))) = v}
<1>1. More \in Nat /\ More > 1
  BY TransitionAssumption
<1>2. ASSUME NEW v \in Nat, \A m \in 0 .. v - 1 : m \in T PROVE v \in T
  <2> SUFFICES ASSUME NEW input \in Seq(Bytes), NEW from \in Nat \ {0},
                      Holds(input, from, PutVarint(v))
               PROVE  VarintValue(input, from, (from - 1) + Len(PutVarint(v))) = v
    OBVIOUS
  <2>0. PutVarint(v) \in Seq(Bytes) /\ Marked(PutVarint(v))
    BY PutDef, PutIsMarked
  <2> DEFINE to == (from - 1) + Len(PutVarint(v))
  <2>1. to \in 0 .. Len(input) /\ Len(input) \in Nat /\ from <= to
    <3>1. Len(PutVarint(v)) \in Nat \ {0}
      BY <2>0 DEF Marked
    <3>2. from + Len(PutVarint(v)) <= Len(input) + 1 /\ Len(input) \in Nat
      BY DEF Holds
    <3> QED
      BY <3>1, <3>2
  <2>2. /\ from + 1 > to => VarintValue(input, from + 1, to) = 0
        /\ VarintValue(input, from, to)
             = Low(input[from]) + (More * VarintValue(input, from + 1, to))
    <3>1. from \in 1 .. Len(input) + 1 /\ from + 1 \in 1 .. Len(input) + 1
      BY <2>1
    <3> HIDE DEF to
    <3> QED
      BY <2>1, <3>1, ValueDef
  <2>3. CASE v < More
    <3>1. PutVarint(v) = <<v>> /\ Len(<<v>>) = 1 /\ <<v>>[1] = v
      BY <2>3, PutDef
    <3>2. input[from] = v /\ from + 1 > to
      BY <3>1 DEF Holds
    <3>3. Low(v) = v /\ More * 0 = 0
      BY <1>1, <2>3, Digits
    <3> QED
      BY <2>2, <3>2, <3>3
  <2>4. CASE v >= More
    <3>1. /\ High(v) \in 0 .. v - 1 /\ High(v) \in Nat
          /\ Low(v) \in 0 .. More - 1 /\ v = (High(v) * More) + Low(v)
      BY <1>1, <2>4, Digits
    <3> DEFINE b == <<More + Low(v)>>
               s == PutVarint(High(v))
    <3>2. PutVarint(v) = b \o s /\ b \in Seq(Bytes) /\ s \in Seq(Bytes)
      BY <2>4, <3>1, PutDef
    <3>3. Len(b) = 1 /\ b[1] = More + Low(v) /\ Len(s) \in Nat
      BY <3>2
    <3> HIDE DEF b, s
    <3>4. Holds(input, from, b) /\ Holds(input, from + 1, s)
      BY <3>2, <3>3, HoldsParts
    <3>5. input[from] = More + Low(v)
      BY <3>3, <3>4 DEF Holds
    <3>6. Low(input[from]) = Low(v)
      BY <3>1, <3>5, MarkIsDropped
    <3>7. VarintValue(input, from + 1, ((from + 1) - 1) + Len(s)) = High(v)
      <4>1. High(v) \in T
        BY <1>2, <3>1
      <4> QED
        BY <3>4, <4>1 DEF s
    <3>8. ((from + 1) - 1) + Len(s) = to
      <4>1. Len(PutVarint(v)) = 1 + Len(s)
        BY <3>2, <3>3, Concatenation
      <4> QED
        BY <3>3, <4>1
    <3>9. More * High(v) = High(v) * More
      BY <1>1, <3>1
    <3> QED
      BY <1>1, <2>2, <3>1, <3>6, <3>7, <3>8, <3>9
  <2> QED
    BY <1>1, <2>3, <2>4
<1> HIDE DEF T
<1>3. \A v \in Nat : v \in T
  BY <1>2, Induction
<1> QED
  BY <1>3 DEF T

(* The least member of a set that has one.                                 *)
LEMMA LeastIs ==
  ASSUME NEW S \in SUBSET Nat, NEW m \in S, \A k \in S : m <= k
  PROVE  Least(S) = m
<1>1. ASSUME NEW x \in S, \A y \in S : x <= y PROVE x = m
  <2>1. x <= m /\ m <= x /\ x \in Nat /\ m \in Nat
    BY <1>1
  <2> QED
    BY <2>1
<1>2. \E x \in S : \A y \in S : x <= y
  OBVIOUS
<1> QED
  BY <1>1, <1>2 DEF Least

LEMMA LeastExists ==
  ASSUME NEW S \in SUBSET Nat, S # {}
  PROVE  Least(S) \in S /\ \A k \in S : Least(S) <= k
<1>1. PICK m \in S : \A k \in S : m <= k
  BY LeastNatural
<1>2. Least(S) = m
  BY <1>1, LeastIs
<1> QED
  BY <1>1, <1>2

(* The ends a varint may have.                                             *)
Ends(input, from) == {i \in Window(input, from) : input[i] < More}

LEMMA GetDef ==
  ASSUME NEW input, NEW from
  PROVE  LET value == VarintValue(input, from, Least(Ends(input, from))) % Limit IN
         GetVarint(input, from)
           = IF Ends(input, from) = {} \/ value = 0 THEN Refused
             ELSE [ok |-> TRUE, value |-> value, next |-> Least(Ends(input, from)) + 1]
BY DEF GetVarint, Ends

(* What follows a varint that is read is further on.                       *)
LEMMA GetFacts ==
  ASSUME NEW input \in Seq(Bytes), NEW from \in 1 .. Len(input) + 1
  PROVE  LET v == GetVarint(input, from) IN
         \/ v = Refused
         \/ /\ v.ok = TRUE /\ v.value \in 1 .. Limit - 1
            /\ v.next \in from + 1 .. Len(input) + 1
            /\ v.next - 1 \in Ends(input, from)
            /\ v.value = VarintValue(input, from, v.next - 1) % Limit
<1>1. Limit \in Nat \ {0} /\ MaxBytes \in Nat \ {0} /\ Len(input) \in Nat
  <2>1. MaxBytes - 1 \in Nat /\ Power[MaxBytes - 1] \in Nat \ {0}
    BY TransitionAssumption, PowerDef
  <2> QED
    BY <2>1, TransitionAssumption
<1> DEFINE ends == Ends(input, from)
           value == VarintValue(input, from, Least(ends)) % Limit
<1>2. CASE ends = {}
  BY <1>2, GetDef, Zenon
<1>3. CASE ends # {}
  <2>1. ends \in SUBSET (from .. Len(input))
    BY <1>1 DEF Ends, Window
  <2>2. ends \in SUBSET Nat
    BY <1>1, <2>1
  <2>3. Least(ends) \in ends
    <3> HIDE DEF ends
    <3> QED
      BY <1>3, <2>2, LeastExists
  <2>4. Least(ends) \in from .. Len(input)
    BY <2>1, <2>3
  <2>5. VarintValue(input, from, Least(ends)) \in Nat
    <3> HIDE DEF ends
    <3>1. Least(ends) \in 0 .. Len(input)
      BY <1>1, <2>4
    <3> QED
      BY <3>1, ValueDef
  <2>6. value \in 0 .. Limit - 1
    <3> DEFINE x == VarintValue(input, from, Least(ends))
    <3>1. x \in Nat
      BY <2>5
    <3> HIDE DEF x
    <3>2. x % Limit \in 0 .. Limit - 1
      BY <1>1, <3>1, DivMod
    <3> QED
      BY <3>2 DEF x
  <2>7. GetVarint(input, from)
          = IF value = 0 THEN Refused
            ELSE [ok |-> TRUE, value |-> value, next |-> Least(ends) + 1]
    BY <1>3, GetDef
  <2> DEFINE last == Least(ends)
  <2>8. last \in from .. Len(input) /\ last \in ends
    BY <2>3, <2>4
  <2>9. value = VarintValue(input, from, last) % Limit
    OBVIOUS
  <2>10. GetVarint(input, from)
          = IF value = 0 THEN Refused
            ELSE [ok |-> TRUE, value |-> value, next |-> last + 1]
    BY <2>7
  <2> HIDE DEF last, value, ends
  <2>11. last + 1 \in from + 1 .. Len(input) + 1 /\ (last + 1) - 1 = last
    BY <1>1, <2>8
  <2>12. value # 0 => value \in 1 .. Limit - 1
    BY <1>1, <2>6
  <2> QED
    BY <2>8, <2>9, <2>10, <2>11, <2>12 DEF ends
<1> QED
  BY <1>2, <1>3

(* What put_varint wrote get_varint reads, wherever it is.                 *)
LEMMA GetsWhatWasPut ==
  ASSUME NEW input \in Seq(Bytes), NEW from, NEW v \in 1 .. Limit - 1,
         Holds(input, from, PutVarint(v))
  PROVE  /\ GetVarint(input, from)
              = [ok |-> TRUE, value |-> v, next |-> from + Len(PutVarint(v))]
         /\ Len(PutVarint(v)) \in Nat \ {0}
<1>1. /\ Limit \in Nat \ {0} /\ MaxBytes \in Nat \ {0} /\ Len(input) \in Nat
      /\ from \in Nat \ {0} /\ v \in Nat /\ v < Limit
  <2>1. MaxBytes - 1 \in Nat /\ Power[MaxBytes - 1] \in Nat \ {0}
    BY TransitionAssumption, PowerDef
  <2> QED
    BY <2>1, TransitionAssumption DEF Holds
<1> DEFINE s == PutVarint(v)
           last == (from - 1) + Len(s)
<1>2. Marked(s) /\ Holds(input, from, s)
  BY <1>1, PutIsMarked
<1>3. Len(s) \in 1 .. MaxBytes
  <2>1. v < Power[MaxBytes]
    <3>1. Power[MaxBytes] \in Nat
      BY <1>1, PowerDef
    <3>2. Limit <= Power[MaxBytes]
      BY TransitionAssumption
    <3> QED
      BY <1>1, <3>1, <3>2
  <2>2. Len(s) <= MaxBytes
    BY <1>1, <2>1, PutIsShort
  <2> QED
    BY <1>1, <1>2, <2>2 DEF Marked
<1>4. VarintValue(input, from, last) = v
  BY <1>1, ValueOfPut
<1> HIDE DEF s
<1>5. last \in from .. Len(input) /\ last < from + MaxBytes
  BY <1>1, <1>2, <1>3 DEF Holds
<1>6. Ends(input, from) \in SUBSET Nat
  BY <1>1 DEF Ends, Window
<1>7. last \in Ends(input, from)
  <2>1. last \in Window(input, from)
    BY <1>1, <1>5 DEF Window
  <2>2. input[last] = s[Len(s)]
    BY <1>2, <1>3 DEF Holds
  <2>3. s[Len(s)] < More
    BY <1>2 DEF Marked
  <2> QED
    BY <2>1, <2>2, <2>3 DEF Ends
<1>8. ASSUME NEW k \in Ends(input, from) PROVE last <= k
  <2>1. SUFFICES ASSUME k < last PROVE FALSE
    BY <1>5, <1>6
  <2>2. k \in Nat /\ from <= k /\ input[k] < More
    BY <1>1, <1>6 DEF Ends, Window
  <2> DEFINE i == (k - from) + 1
  <2>3. i \in 1 .. Len(s) - 1 /\ (from - 1) + i = k
    BY <1>1, <1>3, <2>1, <2>2
  <2> HIDE DEF i
  <2>4. input[k] = s[i] /\ s[i] >= More
    <3>1. i \in 1 .. Len(s)
      BY <1>3, <2>3
    <3> QED
      BY <1>2, <2>3, <3>1 DEF Holds, Marked
  <2>5. s[i] \in Nat
    <3>1. s \in Seq(Bytes)
      BY <1>1, PutDef DEF s
    <3>2. s[i] \in Bytes
      BY <1>3, <2>3, <3>1
    <3> QED
      BY <3>2, TransitionAssumption DEF Bytes
  <2> QED
    BY <2>2, <2>4, <2>5, TransitionAssumption
<1> HIDE DEF last
<1>9. Least(Ends(input, from)) = last
  BY <1>6, <1>7, <1>8, LeastIs
<1>10. v % Limit = v /\ v # 0
  BY <1>1, Z3
<1>11. last + 1 = from + Len(s)
  BY <1>1, <1>3 DEF last
<1>12. GetVarint(input, from) = [ok |-> TRUE, value |-> v, next |-> last + 1]
  BY <1>4, <1>7, <1>9, <1>10, GetDef
<1>13. /\ GetVarint(input, from) = [ok |-> TRUE, value |-> v, next |-> from + Len(s)]
       /\ Len(s) \in Nat \ {0}
  <2>1. Len(s) \in Nat \ {0}
    BY <1>1, <1>3
  <2>2. GetVarint(input, from) = [ok |-> TRUE, value |-> v, next |-> from + Len(s)]
    BY <1>11, <1>12, Zenon
  <2> QED
    BY <2>1, <2>2
<1> QED
  BY <1>13 DEF s

-----------------------------------------------------------------------------
(* Samples and runs.                                                       *)

(* Where the bytes of a sample come from.                                  *)
LEMMA SampleFacts ==
  ASSUME NEW packed \in Seq(Bytes), NEW u \in Nat \ {0}
  PROVE  /\ Samples(packed, u) \in Nat /\ Samples(packed, u) * u \in Nat
         /\ Samples(packed, u) * u <= Len(packed)
         /\ Samples(packed, u) <= Len(packed)
         /\ \A i \in 1 .. Samples(packed, u) :
              /\ Sample(packed, u, i) \in Seq(Bytes)
              /\ Len(Sample(packed, u, i)) = u
              /\ (i - 1) * u \in Nat
              /\ \A k \in 1 .. u : Sample(packed, u, i)[k] = packed[((i - 1) * u) + k]
<1> DEFINE n == Len(packed) \div u
<1>1. Len(packed) \in Nat
  OBVIOUS
<1>2. n \in Nat /\ n * u \in Nat /\ n * u <= Len(packed)
  <2>1. Len(packed) % u \in 0 .. u - 1 /\ n \in Nat
        /\ Len(packed) = (n * u) + (Len(packed) % u)
    BY <1>1, DivMod
  <2> DEFINE r == Len(packed) % u
  <2>2. r \in Nat /\ n \in Nat /\ Len(packed) = (n * u) + r
    BY <2>1
  <2> HIDE DEF r, n
  <2>3. n * u \in Nat
    BY <2>2, Product
  <2> QED
    BY <2>2, <2>3
<1> HIDE DEF n
<1>3. n <= n * u
  <2>1. u - 1 \in Nat /\ n * (u - 1) \in Nat
    BY <1>2, Product
  <2>2. n * u = n + (n * (u - 1))
    BY <1>2, Z3
  <2> QED
    BY <1>2, <2>1, <2>2
<1>4. ASSUME NEW i \in 1 .. n
      PROVE  /\ Sample(packed, u, i) \in Seq(Bytes)
             /\ Len(Sample(packed, u, i)) = u
             /\ (i - 1) * u \in Nat
             /\ \A k \in 1 .. u : Sample(packed, u, i)[k] = packed[((i - 1) * u) + k]
  <2> DEFINE a == (i - 1) * u
             b == i * u
  <2>1. i - 1 \in Nat /\ i \in Nat /\ n - i \in Nat
    BY <1>2
  <2>2. a \in Nat /\ b \in Nat /\ b = a + u
    <3>1. (1 * u) + ((i - 1) * u) = (1 + (i - 1)) * u
      BY <2>1, Distribute
    <3>2. 1 * u = u /\ 1 + (i - 1) = i
      BY <2>1
    <3>3. a \in Nat /\ b \in Nat
      BY <2>1, Product
    <3> QED
      BY <3>1, <3>2, <3>3
  <2>3. b <= Len(packed)
    <3>1. (i * u) + ((n - i) * u) = (i + (n - i)) * u
      BY <1>2, <2>1, Distribute
    <3>2. (n - i) * u \in Nat /\ i + (n - i) = n
      BY <1>2, <2>1, Product
    <3> QED
      BY <1>1, <1>2, <2>2, <3>1, <3>2
  <2>4. Sample(packed, u, i) = SubSeq(packed, a + 1, b)
    BY DEF Sample
  <2> HIDE DEF a, b
  <2>5. a + 1 \in Nat \ {0} /\ b \in Nat /\ a + 1 <= b + 1 /\ b <= Len(packed)
        /\ (b - (a + 1)) + 1 = u /\ (a + 1) - 1 = a
    BY <2>2, <2>3
  <2> DEFINE c == a + 1
  <2>6. c \in Nat \ {0} /\ c <= b + 1 /\ (b - c) + 1 = u /\ c - 1 = a
    BY <2>5
  <2> HIDE DEF c
  <2>7. /\ SubSeq(packed, c, b) \in Seq(Bytes) /\ Len(SubSeq(packed, c, b)) = (b - c) + 1
        /\ \A k \in 1 .. (b - c) + 1 : SubSeq(packed, c, b)[k] = packed[(c - 1) + k]
    BY <2>5, <2>6, Slice
  <2>8. SubSeq(packed, c, b) = Sample(packed, u, i)
    BY <2>4 DEF c
  <2>9. /\ Sample(packed, u, i) \in Seq(Bytes) /\ Len(Sample(packed, u, i)) = u
        /\ \A k \in 1 .. u : Sample(packed, u, i)[k] = packed[a + k]
    BY <2>6, <2>7, <2>8
  <2> QED
    BY <2>2, <2>9 DEF a
<1>5. n = Samples(packed, u)
  BY DEF n, Samples
<1> QED
  BY <1>1, <1>2, <1>3, <1>4, <1>5

(* A run ends further on, and its samples are equal.                       *)
LEMMA NextRunFacts ==
  ASSUME NEW packed \in Seq(Bytes), NEW u \in Nat \ {0}, NEW i \in 1 .. Samples(packed, u)
  PROVE  /\ NextRun(packed, u, i) \in i + 1 .. Samples(packed, u) + 1
         /\ \A j \in i + 1 .. NextRun(packed, u, i) - 1 :
              Sample(packed, u, j) = Sample(packed, u, j - 1)
<1> DEFINE n == Samples(packed, u)
           S == {j \in Starts(packed, u) : j > i} \cup {n + 1}
<1>1. n \in Nat /\ i \in 1 .. n
  BY SampleFacts
<1>2. S \in SUBSET (i + 1 .. n + 1)
  <2>1. Starts(packed, u) \subseteq 1 .. n
    BY DEF Starts
  <2> HIDE DEF n
  <2> QED
    BY <1>1, <2>1
<1>3. S \in SUBSET Nat /\ S # {}
  <2> HIDE DEF n
  <2>1. n + 1 \in S
    OBVIOUS
  <2> QED
    BY <1>1, <1>2, <2>1
<1>4. NextRun(packed, u, i) = Least(S)
  BY DEF NextRun
<1> HIDE DEF S
<1>5. Least(S) \in S /\ \A k \in S : Least(S) <= k
  BY <1>3, LeastExists
<1>6. NextRun(packed, u, i) \in i + 1 .. n + 1
  BY <1>2, <1>4, <1>5
<1>7. ASSUME NEW j \in i + 1 .. NextRun(packed, u, i) - 1
      PROVE  Sample(packed, u, j) = Sample(packed, u, j - 1)
  <2>1. j \in 1 .. n /\ j > i /\ j # 1 /\ j < NextRun(packed, u, i) /\ j \in Nat
    <3> HIDE DEF n
    <3> QED
      BY <1>1, <1>6
  <2>2. j \notin S
    <3>1. NextRun(packed, u, i) \in Nat
      <4> HIDE DEF n
      <4> QED
        BY <1>1, <1>6
    <3> QED
      BY <1>4, <1>5, <2>1, <3>1
  <2>3. j \notin Starts(packed, u)
    BY <2>1, <2>2 DEF S
  <2> QED
    BY <2>1, <2>3 DEF Starts
<1> QED
  BY <1>6, <1>7

-----------------------------------------------------------------------------
(* The encoder, unfolded: a run and what follows it.                       *)
Run(packed, u, i) ==
  PutVarint(NextRun(packed, u, i) - i) \o Sample(packed, u, i)

LEMMA EncodeDef ==
  ASSUME NEW packed \in Seq(Bytes), NEW u \in Nat \ {0}
  PROVE  /\ \A i \in 1 .. Samples(packed, u) + 1 :
              EncodeFrom(packed, u, i) \in Seq(Bytes)
         /\ \A i \in 1 .. Samples(packed, u) :
              EncodeFrom(packed, u, i)
                = Run(packed, u, i) \o EncodeFrom(packed, u, NextRun(packed, u, i))
         /\ EncodeFrom(packed, u, Samples(packed, u) + 1) = <<>>
<1> DEFINE n == Samples(packed, u)
           V == Seq(Bytes)
           next(i) == NextRun(packed, u, i)
           run(i) == PutVarint(next(i) - i) \o Sample(packed, u, i)
<1>1. n \in Nat
  BY SampleFacts
<1>2. ASSUME NEW i \in 1 .. n
      PROVE  next(i) \in i + 1 .. n + 1 /\ run(i) \in V
  <2>1. next(i) \in i + 1 .. n + 1
    BY NextRunFacts
  <2>2. PutVarint(next(i) - i) \in Seq(Bytes)
    <3>1. next(i) - i \in Nat
      <4> HIDE DEF n, next
      <4> QED
        BY <1>1, <2>1
    <3> QED
      BY <3>1, PutDef
  <2>3. Sample(packed, u, i) \in Seq(Bytes)
    BY SampleFacts
  <2> QED
    BY <2>1, <2>2, <2>3, Concatenation
<1>3. \A i : run(i) = PutVarint(NextRun(packed, u, i) - i) \o Sample(packed, u, i)
             /\ next(i) = NextRun(packed, u, i) /\ run(i) = Run(packed, u, i)
  BY DEF Run
<1> DEFINE enc == CHOOSE enc : enc = [i \in 1 .. n + 1 |->
                    IF i > n THEN <<>>
                    ELSE LET nxt == NextRun(packed, u, i)
                         IN  PutVarint(nxt - i) \o Sample(packed, u, i) \o enc[nxt]]
<1>4. \A i \in 1 .. n + 1 : EncodeFrom(packed, u, i) = enc[i]
  BY DEF EncodeFrom
<1> HIDE DEF n, next, run
<1> DEFINE D == 1 .. n + 1
           rank == [i \in D |-> (n + 1) - i]
           step == [i \in D |-> [f \in [D -> V] |->
                      IF i > n THEN <<>> ELSE run(i) \o f[next(i)]]]
<1>5. rank \in [D -> Nat] /\ \A i \in D : rank[i] = (n + 1) - i
  BY <1>1
<1>6. ASSUME NEW i \in D, ~(i > n)
      PROVE  next(i) \in D /\ rank[next(i)] < rank[i] /\ run(i) \in V
  <2>1. i \in 1 .. n
    BY <1>1, <1>6
  <2>2. next(i) \in D /\ next(i) > i /\ next(i) \in Nat /\ i \in Nat
    BY <1>1, <1>2, <2>1
  <2>3. rank[next(i)] = (n + 1) - next(i) /\ rank[i] = (n + 1) - i
    BY <1>5, <2>2
  <2> QED
    BY <1>1, <1>2, <2>1, <2>2, <2>3
<1>7. /\ step \in [D -> [[D -> V] -> V]]
      /\ \A i \in D : \A f \in [D -> V] :
           step[i][f] = IF i > n THEN <<>> ELSE run(i) \o f[next(i)]
  <2>1. ASSUME NEW i \in D, NEW f \in [D -> V]
        PROVE  (IF i > n THEN <<>> ELSE run(i) \o f[next(i)]) \in V
    <3>1. ASSUME ~(i > n) PROVE run(i) \o f[next(i)] \in V
      <4>1. run(i) \in V /\ f[next(i)] \in V
        BY <1>6, <3>1
      <4> QED
        BY <4>1, Concatenation
    <3>2. <<>> \in V
      BY NoElements
    <3> HIDE DEF V
    <3> QED
      BY <3>1, <3>2
  <2> HIDE DEF V, D
  <2> QED
    BY <2>1
<1> HIDE DEF rank, step
<1>8. LooksBack(D, V, rank, step)
  <2> SUFFICES ASSUME NEW i \in D, NEW f \in [D -> V], NEW g \in [D -> V],
                      \A j \in D : rank[j] < rank[i] => f[j] = g[j]
               PROVE  step[i][f] = step[i][g]
    BY DEF LooksBack
  <2>1. ASSUME ~(i > n) PROVE f[next(i)] = g[next(i)]
    BY <1>6, <2>1
  <2> HIDE DEF D, V
  <2> QED
    BY <1>7, <2>1
<1>9. PICK f : Solves(f, D, V, step)
  <2>1. V # {}
    BY NoElements
  <2>2. IsRecursion(D, V, rank, step)
    BY <1>5, <1>7, <1>8, <2>1 DEF IsRecursion
  <2> QED
    BY <2>2, Recursion, Zenon
<1>10. /\ f \in [D -> V]
       /\ f = [i \in D |-> IF i > n THEN <<>> ELSE run(i) \o f[next(i)]]
  <2> HIDE DEF D, V
  <2> QED
    BY <1>7, <1>9 DEF Solves
<1>12. f = [i \in D |-> IF i > n THEN <<>>
                        ELSE LET nxt == NextRun(packed, u, i)
                             IN  PutVarint(nxt - i) \o Sample(packed, u, i) \o f[nxt]]
  BY <1>3, <1>10
<1>13. enc = [i \in D |-> IF i > n THEN <<>>
                          ELSE LET nxt == NextRun(packed, u, i)
                               IN  PutVarint(nxt - i) \o Sample(packed, u, i) \o enc[nxt]]
  BY <1>12
<1> HIDE DEF enc
<1>14. \A i \in D : enc[i] = IF i > n THEN <<>> ELSE run(i) \o enc[next(i)]
  BY <1>3, <1>13
<1> DEFINE T == {i \in D : enc[i] \in V}
<1>15. ASSUME NEW i \in D, \A j \in D : rank[j] < rank[i] => j \in T PROVE i \in T
  <2>1. CASE i > n
    BY <1>14, <2>1, NoElements
  <2>2. CASE ~(i > n)
    <3>1. enc[next(i)] \in V /\ run(i) \in V
      BY <1>6, <1>15, <2>2
    <3>2. run(i) \o enc[next(i)] \in V
      BY <3>1, Concatenation
    <3> QED
      BY <1>14, <2>2, <3>2
  <2> QED
    BY <2>1, <2>2
<1>16. \A i \in D : i \in T
  <2> HIDE DEF D, T
  <2>1. rank \in [D -> Nat]
    BY <1>5
  <2>2. \A i \in D : (\A j \in D : rank[j] < rank[i] => j \in T) => i \in T
    BY <1>15
  <2> QED
    BY <2>1, <2>2, RankInduction
<1>17. \A i \in 1 .. n + 1 : EncodeFrom(packed, u, i) \in Seq(Bytes)
  BY <1>4, <1>16
<1>18. ASSUME NEW i \in 1 .. n
       PROVE  EncodeFrom(packed, u, i)
                = Run(packed, u, i) \o EncodeFrom(packed, u, NextRun(packed, u, i))
  <2>1. i \in D /\ ~(i > n)
    BY <1>1
  <2>2. next(i) \in D
    BY <1>6, <2>1
  <2>3. enc[i] = run(i) \o enc[next(i)]
    BY <1>14, <2>1
  <2> QED
    BY <1>3, <1>4, <2>1, <2>2, <2>3
<1>19. EncodeFrom(packed, u, n + 1) = <<>>
  <2>1. n + 1 \in D /\ n + 1 > n
    BY <1>1
  <2> QED
    BY <1>4, <1>14, <2>1
<1> QED
  BY <1>17, <1>18, <1>19 DEF n

-----------------------------------------------------------------------------
(* The decoder, unfolded.                                                  *)

(* What a repetition is made of.                                           *)
LEMMA RepeatFacts ==
  ASSUME NEW value \in Seq(Bytes), Len(value) # 0, NEW n \in Nat
  PROVE  /\ Repeat(value, n) \in Seq(Bytes)
         /\ Len(Repeat(value, n)) = n * Len(value)
         /\ \A i \in 1 .. n * Len(value) :
              Repeat(value, n)[i] = value[1 + ((i - 1) % Len(value))]
<1> DEFINE u == Len(value)
           m == n * u
<1>1. u \in Nat \ {0} /\ m \in Nat
  <2>1. u \in Nat \ {0}
    OBVIOUS
  <2> HIDE DEF u
  <2> QED
    BY <2>1, Product
<1>2. ASSUME NEW i \in 1 .. m PROVE value[1 + ((i - 1) % u)] \in Bytes
  <2>1. (i - 1) % u \in 0 .. u - 1
    <3> HIDE DEF m, u
    <3>1. i - 1 \in Nat
      BY <1>1
    <3> QED
      BY <1>1, <3>1, DivMod
  <2>2. 1 + ((i - 1) % u) \in 1 .. u
    BY <1>1, <2>1
  <2> QED
    BY <2>2
<1>3. Repeat(value, n) = [i \in 1 .. m |-> value[1 + ((i - 1) % u)]]
  BY DEF Repeat
<1> HIDE DEF u, m
<1>4. /\ Repeat(value, n) \in Seq(Bytes) /\ Len(Repeat(value, n)) = m
      /\ \A i \in 1 .. m : Repeat(value, n)[i] = value[1 + ((i - 1) % u)]
  BY <1>1, <1>2, <1>3
<1> QED
  BY <1>4 DEF m, u

(* What expanding ends with.                                               *)
Decoded(packed) == [ok |-> TRUE, packed |-> packed]

(* The next run is there.                                                  *)
Readable(payload, u, at) ==
  LET v == GetVarint(payload, at)
  IN  v.ok /\ v.next + u - 1 <= Len(payload)

(* Where the run after it is.                                              *)
After(payload, u, at) == GetVarint(payload, at).next + u

(* The samples it stands for.                                              *)
RunSamples(payload, u, at) ==
  LET v == GetVarint(payload, at)
  IN  Repeat(SubSeq(payload, v.next, v.next + u - 1), v.value)

LEMMA ReadableFacts ==
  ASSUME NEW payload \in Seq(Bytes), NEW u \in Nat \ {0}, NEW at \in 1 .. Len(payload) + 1
  PROVE  LET v == GetVarint(payload, at) IN
         /\ Readable(payload, u, at) = (v.ok /\ ~(Len(payload) < v.next + u - 1))
         /\ Readable(payload, u, at) =>
              /\ After(payload, u, at) \in at + 1 .. Len(payload) + 1
              /\ RunSamples(payload, u, at) \in Seq(Bytes)
              /\ at <= Len(payload)
<1> DEFINE v == GetVarint(payload, at)
<1>1. \/ v = Refused
      \/ /\ v.ok = TRUE /\ v.value \in 1 .. Limit - 1
         /\ v.next \in at + 1 .. Len(payload) + 1
  BY GetFacts
<1>2. Limit \in Nat /\ Len(payload) \in Nat /\ at \in Nat
  BY TransitionAssumption
<1>3. ASSUME v.ok
      PROVE  /\ v.value \in Nat /\ v.next \in at + 1 .. Len(payload) + 1 /\ v.next \in Nat
  <2>1. Refused.ok = FALSE
    BY DEF Refused
  <2> HIDE DEF v
  <2> QED
    BY <1>1, <1>2, <1>3, <2>1
<1>4. /\ Readable(payload, u, at) = (v.ok /\ v.next + u - 1 <= Len(payload))
      /\ After(payload, u, at) = v.next + u
      /\ RunSamples(payload, u, at)
           = Repeat(SubSeq(payload, v.next, v.next + u - 1), v.value)
  BY DEF Readable, After, RunSamples
<1> HIDE DEF v
<1>5. (v.ok /\ v.next + u - 1 <= Len(payload)) = (v.ok /\ ~(Len(payload) < v.next + u - 1))
  BY <1>2, <1>3
<1>6. ASSUME Readable(payload, u, at)
      PROVE  /\ After(payload, u, at) \in at + 1 .. Len(payload) + 1
             /\ RunSamples(payload, u, at) \in Seq(Bytes)
             /\ at <= Len(payload)
  <2>1. v.value \in Nat /\ v.next \in Nat /\ v.next > at /\ v.next + u - 1 <= Len(payload)
    <3>1. v.ok /\ v.next + u - 1 <= Len(payload)
      BY <1>4, <1>6, Zenon
    <3> QED
      BY <1>2, <1>3, <3>1
  <2> DEFINE a == v.next
             b == v.next + u - 1
             s == SubSeq(payload, a, b)
  <2>2. a \in Nat \ {0} /\ b \in Nat /\ a <= b + 1 /\ b <= Len(payload) /\ (b - a) + 1 = u
    BY <1>2, <2>1
  <2>3. s \in Seq(Bytes) /\ Len(s) = u
    <3> HIDE DEF a, b
    <3> QED
      BY <2>2, Slice
  <2>4. Repeat(s, v.value) \in Seq(Bytes)
    <3> HIDE DEF s
    <3> QED
      BY <2>1, <2>3, RepeatFacts
  <2> QED
    BY <1>2, <1>4, <2>1, <2>4
<1> QED
  BY <1>4, <1>5, <1>6 DEF v

LEMMA ExpandDef ==
  ASSUME NEW payload \in Seq(Bytes), NEW u \in Nat \ {0}
  PROVE  /\ \A at \in 1 .. Len(payload) + 1 :
              \/ ExpandFrom(payload, u, at) = Refused
              \/ \E p \in Seq(Bytes) : ExpandFrom(payload, u, at) = Decoded(p)
         /\ \A at \in 1 .. Len(payload) :
              ExpandFrom(payload, u, at)
                = IF /\ Readable(payload, u, at)
                     /\ ExpandFrom(payload, u, After(payload, u, at)).ok
                    THEN Decoded(RunSamples(payload, u, at)
                                   \o ExpandFrom(payload, u, After(payload, u, at)).packed)
                    ELSE Refused
         /\ ExpandFrom(payload, u, Len(payload) + 1) = Decoded(<<>>)
<1> DEFINE n == Len(payload)
           V == {Refused} \cup {Decoded(p) : p \in Seq(Bytes)}
           more(at) == Readable(payload, u, at)
           next(at) == After(payload, u, at)
           run(at) == RunSamples(payload, u, at)
           D == 1 .. n + 1
           rank == [at \in D |-> (n + 1) - at]
           value(at, f) ==
             IF at > n THEN Decoded(<<>>)
             ELSE IF ~more(at) THEN Refused
             ELSE IF ~f[next(at)].ok THEN Refused
             ELSE Decoded(run(at) \o f[next(at)].packed)
           step == [at \in D |-> [f \in [D -> V] |-> value(at, f)]]
           exp == CHOOSE exp : exp = [at \in 1 .. n + 1 |->
                    IF at > n THEN [ok |-> TRUE, packed |-> <<>>]
                    ELSE LET v == GetVarint(payload, at) IN
                         IF ~v.ok THEN Refused
                         ELSE IF n < v.next + u - 1 THEN Refused
                         ELSE LET rest == exp[v.next + u]
                                  val == SubSeq(payload, v.next, v.next + u - 1)
                              IN  IF ~rest.ok THEN Refused
                                  ELSE [ok |-> TRUE,
                                        packed |-> Repeat(val, v.value) \o rest.packed]]
<1>1. n \in Nat
  OBVIOUS
<1>2. \A at \in 1 .. n + 1 : ExpandFrom(payload, u, at) = exp[at]
  BY DEF ExpandFrom
<1>3. ASSUME NEW at \in D, more(at)
      PROVE  next(at) \in at + 1 .. n + 1 /\ run(at) \in Seq(Bytes) /\ at <= n
  BY <1>3, ReadableFacts
<1>4. ASSUME NEW g, NEW at \in D
      PROVE  value(at, g)
               = IF at > n THEN [ok |-> TRUE, packed |-> <<>>]
                 ELSE LET v == GetVarint(payload, at) IN
                      IF ~v.ok THEN Refused
                      ELSE IF n < v.next + u - 1 THEN Refused
                      ELSE LET rest == g[v.next + u]
                               val == SubSeq(payload, v.next, v.next + u - 1)
                           IN  IF ~rest.ok THEN Refused
                               ELSE [ok |-> TRUE,
                                     packed |-> Repeat(val, v.value) \o rest.packed]
  <2> DEFINE w == GetVarint(payload, at)
  <2>1. /\ more(at) = (w.ok /\ ~(n < w.next + u - 1))
    BY ReadableFacts
  <2>2. next(at) = w.next + u
        /\ run(at) = Repeat(SubSeq(payload, w.next, w.next + u - 1), w.value)
    BY DEF After, RunSamples
  <2> HIDE DEF w, n, more, next, run
  <2>3. value(at, g)
               = IF at > n THEN [ok |-> TRUE, packed |-> <<>>]
                 ELSE IF ~w.ok THEN Refused
                      ELSE IF n < w.next + u - 1 THEN Refused
                      ELSE IF ~g[w.next + u].ok THEN Refused
                               ELSE [ok |-> TRUE,
                                     packed |-> Repeat(SubSeq(payload, w.next, w.next + u - 1), w.value) \o g[w.next + u].packed]
    BY <2>1, <2>2, Zenon DEF Decoded
  <2> QED
    BY <2>3 DEF w
<1> HIDE DEF n, more, next, run, value, exp
<1>5. rank \in [D -> Nat] /\ \A at \in D : rank[at] = (n + 1) - at
  BY <1>1
<1>6. \A at, g : value(at, g)
        = IF at > n THEN Decoded(<<>>)
          ELSE IF ~more(at) THEN Refused
          ELSE IF ~g[next(at)].ok THEN Refused
          ELSE Decoded(run(at) \o g[next(at)].packed)
  BY DEF value
<1> HIDE DEF value
<1>7. ASSUME NEW at \in D, more(at)
      PROVE  next(at) \in D /\ rank[next(at)] < rank[at]
  <2>1. next(at) \in D /\ next(at) > at /\ next(at) \in Nat /\ at \in Nat
    BY <1>1, <1>3, <1>7
  <2>2. rank[next(at)] = (n + 1) - next(at) /\ rank[at] = (n + 1) - at
    BY <1>5, <2>1
  <2> QED
    BY <1>1, <2>1, <2>2
<1>8. /\ \A r \in V : r = Refused \/ r.packed \in Seq(Bytes)
      /\ Refused \in V /\ \A p \in Seq(Bytes) : Decoded(p) \in V
  <2>1. Refused \in V /\ \A p \in Seq(Bytes) : Decoded(p) \in V
    OBVIOUS
  <2>2. ASSUME NEW r \in V, r # Refused PROVE r.packed \in Seq(Bytes)
    <3>1. PICK p \in Seq(Bytes) : r = Decoded(p)
      BY <2>2
    <3>2. r.packed = p
      BY <3>1 DEF Decoded
    <3> QED
      BY <3>2
  <2> HIDE DEF V
  <2> QED
    BY <2>1, <2>2
<1>9. ASSUME NEW at \in D, NEW g, more(at) => g[next(at)] \in V
      PROVE  value(at, g) \in V
  <2>1. CASE at > n
    BY <1>6, <1>8, <2>1, NoElements
  <2>2. CASE ~(at > n) /\ more(at) /\ g[next(at)].ok
    <3>1. g[next(at)] # Refused
      BY <2>2 DEF Refused
    <3>2. g[next(at)].packed \in Seq(Bytes)
      BY <1>8, <1>9, <2>2, <3>1
    <3>3. run(at) \o g[next(at)].packed \in Seq(Bytes)
      BY <1>3, <2>2, <3>2, Concatenation
    <3>4. value(at, g) = Decoded(run(at) \o g[next(at)].packed)
      BY <1>6, <2>2, Zenon
    <3> QED
      BY <1>8, <3>3, <3>4
  <2>3. CASE ~(at > n) /\ ~(more(at) /\ g[next(at)].ok)
    <3>1. value(at, g) = Refused
      BY <1>6, <2>3, Zenon
    <3> QED
      BY <1>8, <3>1
  <2> QED
    BY <2>1, <2>2, <2>3
<1>10. /\ step \in [D -> [[D -> V] -> V]]
       /\ \A at \in D : \A f \in [D -> V] : step[at][f] = value(at, f)
  <2>1. ASSUME NEW at \in D, NEW f \in [D -> V] PROVE value(at, f) \in V
    BY <1>7, <1>9
  <2> HIDE DEF D, V
  <2> QED
    BY <2>1
<1> HIDE DEF rank, step
<1>11. LooksBack(D, V, rank, step)
  <2> SUFFICES ASSUME NEW at \in D, NEW f \in [D -> V], NEW g \in [D -> V],
                      \A j \in D : rank[j] < rank[at] => f[j] = g[j]
               PROVE  step[at][f] = step[at][g]
    BY DEF LooksBack
  <2>1. ASSUME more(at) PROVE f[next(at)] = g[next(at)]
    BY <1>7, <2>1
  <2>2. value(at, f) = value(at, g)
    BY <1>6, <2>1
  <2> HIDE DEF D, V
  <2> QED
    BY <1>10, <2>2
<1>12. PICK f : Solves(f, D, V, step)
  <2>1. V # {}
    BY <1>8
  <2>2. IsRecursion(D, V, rank, step)
    BY <1>5, <1>10, <1>11, <2>1 DEF IsRecursion
  <2> QED
    BY <2>2, Recursion, Zenon
<1>13. f = [at \in D |-> value(at, f)]
  <2> HIDE DEF D, V
  <2> QED
    BY <1>10, <1>12 DEF Solves
<1>14. exp = [at \in D |-> value(at, exp)]
  <2>1. \A g : (g = [at \in D |-> value(at, g)])
           <=> (g = [at \in 1 .. n + 1 |->
                    IF at > n THEN [ok |-> TRUE, packed |-> <<>>]
                    ELSE LET v == GetVarint(payload, at) IN
                         IF ~v.ok THEN Refused
                         ELSE IF n < v.next + u - 1 THEN Refused
                         ELSE LET rest == g[v.next + u]
                                  val == SubSeq(payload, v.next, v.next + u - 1)
                              IN  IF ~rest.ok THEN Refused
                                  ELSE [ok |-> TRUE,
                                        packed |-> Repeat(val, v.value) \o rest.packed]])
    BY <1>4
  <2> QED
    BY <1>13, <2>1, Zenon DEF exp
<1>15. \A at \in D : exp[at] = value(at, exp)
  <2> HIDE DEF D
  <2> QED
    BY <1>14
<1> DEFINE T == {at \in D : exp[at] \in V}
<1>16. ASSUME NEW at \in D, \A j \in D : rank[j] < rank[at] => j \in T PROVE at \in T
  <2>1. more(at) => exp[next(at)] \in V
    BY <1>7, <1>16
  <2> HIDE DEF V
  <2> QED
    BY <1>9, <1>15, <2>1
<1>17. \A at \in D : at \in T
  <2> HIDE DEF D, T
  <2>1. rank \in [D -> Nat]
    BY <1>5
  <2>2. \A at \in D : (\A j \in D : rank[j] < rank[at] => j \in T) => at \in T
    BY <1>16
  <2> QED
    BY <2>1, <2>2, RankInduction
<1>18. ASSUME NEW at \in 1 .. n + 1
       PROVE  \/ ExpandFrom(payload, u, at) = Refused
              \/ \E p \in Seq(Bytes) : ExpandFrom(payload, u, at) = Decoded(p)
  <2>1. exp[at] \in V /\ ExpandFrom(payload, u, at) = exp[at]
    BY <1>2, <1>17
  <2> QED
    BY <2>1
<1>19. ASSUME NEW at \in 1 .. n
       PROVE  ExpandFrom(payload, u, at)
                = IF more(at) /\ ExpandFrom(payload, u, next(at)).ok
                    THEN Decoded(run(at) \o ExpandFrom(payload, u, next(at)).packed)
                    ELSE Refused
  <2>1. at \in D /\ ~(at > n)
    BY <1>1
  <2>2. ExpandFrom(payload, u, at) = value(at, exp)
    BY <1>2, <1>15, <2>1
  <2>3. more(at) => ExpandFrom(payload, u, next(at)) = exp[next(at)]
    BY <1>2, <1>7, <2>1
  <2> QED
    BY <1>6, <2>1, <2>2, <2>3, Zenon
<1>20. ExpandFrom(payload, u, n + 1) = Decoded(<<>>)
  <2>1. n + 1 \in D /\ n + 1 > n
    BY <1>1
  <2> QED
    BY <1>2, <1>6, <1>15, <2>1
<1> QED
  BY <1>18, <1>19, <1>20 DEF n, more, next, run

-----------------------------------------------------------------------------
(* A run repeated gives its samples back.                                  *)

LEMMA RunIsEqual ==
  ASSUME NEW packed \in Seq(Bytes), NEW u \in Nat \ {0}, NEW i \in 1 .. Samples(packed, u)
  PROVE  \A j \in i .. NextRun(packed, u, i) - 1 :
           Sample(packed, u, j) = Sample(packed, u, i)
<1> DEFINE m == NextRun(packed, u, i)
           T == {j \in Nat : j \in i .. m - 1 => Sample(packed, u, j) = Sample(packed, u, i)}
<1>1. /\ Samples(packed, u) \in Nat /\ i \in Nat
      /\ m \in i + 1 .. Samples(packed, u) + 1 /\ m \in Nat
      /\ \A j \in i + 1 .. m - 1 : Sample(packed, u, j) = Sample(packed, u, j - 1)
  <2>1. Samples(packed, u) \in Nat
    BY SampleFacts
  <2>2. /\ m \in i + 1 .. Samples(packed, u) + 1
        /\ \A j \in i + 1 .. m - 1 : Sample(packed, u, j) = Sample(packed, u, j - 1)
    BY NextRunFacts
  <2> HIDE DEF m
  <2> QED
    BY <2>1, <2>2
<1> HIDE DEF m
<1>2. ASSUME NEW j \in Nat, \A k \in 0 .. j - 1 : k \in T PROVE j \in T
  <2> SUFFICES ASSUME j \in i .. m - 1, j # i
               PROVE  Sample(packed, u, j) = Sample(packed, u, i)
    OBVIOUS
  <2>1. j \in i + 1 .. m - 1 /\ j - 1 \in 0 .. j - 1 /\ j - 1 \in i .. m - 1
    BY <1>1
  <2>2. j - 1 \in T
    BY <1>2, <2>1
  <2> QED
    BY <1>1, <2>1, <2>2
<1> HIDE DEF T
<1>3. \A j \in Nat : j \in T
  BY <1>2, Induction
<1>4. \A j \in i .. m - 1 : j \in Nat
  BY <1>1
<1>5. \A j \in i .. m - 1 : Sample(packed, u, j) = Sample(packed, u, i)
  BY <1>3, <1>4 DEF T
<1> QED
  BY <1>5 DEF m

(* The samples from one on.                                                *)
SamplesFrom(packed, u, i) ==
  SubSeq(packed, ((i - 1) * u) + 1, Samples(packed, u) * u)

(* Where samples begin, in bytes.                                          *)
LEMMA Offsets ==
  ASSUME NEW packed \in Seq(Bytes), NEW u \in Nat \ {0},
         NEW i \in 1 .. Samples(packed, u) + 1
  PROVE  /\ (i - 1) * u \in Nat /\ (i - 1) * u <= Samples(packed, u) * u
         /\ Samples(packed, u) * u \in Nat /\ Samples(packed, u) * u <= Len(packed)
         /\ Len(packed) \in Nat
<1> DEFINE n == Samples(packed, u)
<1>1. n \in Nat /\ n * u \in Nat /\ n * u <= Len(packed) /\ Len(packed) \in Nat
  BY SampleFacts
<1>2. i \in 1 .. n + 1
  OBVIOUS
<1> HIDE DEF n
<1>3. i - 1 \in Nat /\ n - (i - 1) \in Nat /\ (i - 1) + (n - (i - 1)) = n
  BY <1>1, <1>2
<1>4. (i - 1) * u \in Nat /\ (n - (i - 1)) * u \in Nat
  BY <1>3, Product
<1>5. ((i - 1) * u) + ((n - (i - 1)) * u) = n * u
  <2>1. ((i - 1) * u) + ((n - (i - 1)) * u) = ((i - 1) + (n - (i - 1))) * u
    BY <1>1, <1>3, Distribute
  <2> QED
    BY <1>3, <2>1
<1>6. (i - 1) * u <= n * u
  BY <1>1, <1>4, <1>5
<1> QED
  BY <1>1, <1>4, <1>6 DEF n

LEMMA RunIsRepeated ==
  ASSUME NEW packed \in Seq(Bytes), NEW u \in Nat \ {0}, NEW i \in 1 .. Samples(packed, u)
  PROVE  /\ SamplesFrom(packed, u, i)
              = Repeat(Sample(packed, u, i), NextRun(packed, u, i) - i)
                  \o SamplesFrom(packed, u, NextRun(packed, u, i))
         /\ SamplesFrom(packed, u, NextRun(packed, u, i)) \in Seq(Bytes)
<1> DEFINE n == Samples(packed, u)
           m == NextRun(packed, u, i)
           r == m - i
           one == Sample(packed, u, i)
           a == (i - 1) * u
           b == (m - 1) * u
           c == n * u
           ru == r * u
           copies == Repeat(one, r)
           tail == SamplesFrom(packed, u, m)
           all == SamplesFrom(packed, u, i)
<1>1. n \in Nat /\ i \in Nat /\ m \in i + 1 .. n + 1 /\ m \in Nat
  <2>1. n \in Nat
    BY SampleFacts
  <2>2. m \in i + 1 .. n + 1
    BY NextRunFacts
  <2> HIDE DEF n, m
  <2> QED
    BY <2>1, <2>2
<1>2. r \in Nat \ {0} /\ i + r = m /\ i - 1 \in Nat /\ m - 1 \in Nat /\ r = (m - 1) - (i - 1)
  <2> HIDE DEF m
  <2> QED
    BY <1>1
<1>3. /\ a \in Nat /\ b \in Nat /\ c \in Nat /\ a <= c /\ b <= c /\ c <= Len(packed)
      /\ Len(packed) \in Nat
  <2>1. i \in 1 .. n + 1 /\ m \in 1 .. n + 1
    <3>1. i \in 1 .. n
      OBVIOUS
    <3> HIDE DEF n, m
    <3> QED
      BY <1>1, <3>1
  <2> QED
    BY <2>1, Offsets
<1>4. one \in Seq(Bytes) /\ Len(one) = u
  BY SampleFacts
<1>5. tail = SubSeq(packed, b + 1, c) /\ all = SubSeq(packed, a + 1, c)
  BY DEF SamplesFrom
<1>6. ASSUME NEW q \in 0 .. r - 1
      PROVE  \A k \in 1 .. u : one[k] = packed[(((i + q) - 1) * u) + k]
  <2> DEFINE j == i + q
  <2>1. j \in i .. m - 1 /\ j \in 1 .. n
    <3>1. i \in 1 .. n
      OBVIOUS
    <3> HIDE DEF n, m
    <3> QED
      BY <1>1, <1>2, <3>1
  <2>2. Sample(packed, u, j) = one
    <3> HIDE DEF j
    <3> QED
      BY <2>1, RunIsEqual
  <2> HIDE DEF j
  <2>3. \A k \in 1 .. u : Sample(packed, u, j)[k] = packed[((j - 1) * u) + k]
    BY <2>1, SampleFacts
  <2> QED
    BY <2>2, <2>3 DEF j
<1> HIDE DEF n, m, one, tail, all
<1>7. ru \in Nat /\ b = a + ru
  <2>1. ((i - 1) * u) + (r * u) = ((i - 1) + r) * u /\ r * u \in Nat
    BY <1>2, Distribute, Product
  <2>2. (i - 1) + r = m - 1
    BY <1>1, <1>2
  <2> QED
    BY <2>1, <2>2
<1>8. /\ copies \in Seq(Bytes) /\ Len(copies) = ru
      /\ \A k \in 1 .. ru : copies[k] = one[1 + ((k - 1) % u)]
  <2> HIDE DEF r
  <2> QED
    BY <1>2, <1>4, RepeatFacts
<1>9. ASSUME NEW k \in 1 .. ru PROVE copies[k] = packed[a + k]
  <2> DEFINE q == (k - 1) \div u
             d == (k - 1) % u
  <2>1. k \in Nat /\ k - 1 \in Nat /\ k - 1 < ru
    <3> HIDE DEF ru
    <3> QED
      BY <1>7
  <2>2. q \in Nat /\ d \in 0 .. u - 1 /\ k - 1 = (q * u) + d
    BY <2>1, DivMod
  <2> HIDE DEF q, d
  <2>3. q < r
    <3>1. q * u < r * u
      <4>1. q * u \in Nat /\ r * u \in Nat
        BY <1>7, <2>2, Product
      <4> QED
        BY <2>1, <2>2, <4>1
    <3> HIDE DEF r
    <3> QED
      BY <1>2, <2>2, <3>1, Z3
  <2>4. one[1 + d] = packed[(((i + q) - 1) * u) + (1 + d)]
    <3>1. q \in 0 .. r - 1 /\ 1 + d \in 1 .. u
      BY <1>2, <2>2, <2>3
    <3> QED
      BY <1>6, <3>1
  <2>5. ((i + q) - 1) * u = a + (q * u)
    <3>1. ((i - 1) * u) + (q * u) = ((i - 1) + q) * u /\ (i - 1) + q = (i + q) - 1
      BY <1>1, <1>2, <2>2, Distribute
    <3> QED
      BY <3>1
  <2>6. (((i + q) - 1) * u) + (1 + d) = a + k
    <3>1. q * u \in Nat
      BY <2>2, Product
    <3> QED
      BY <1>3, <2>1, <2>2, <2>5, <3>1
  <2> QED
    BY <1>8, <2>4, <2>6 DEF d
<1> HIDE DEF a, b, c, ru, copies
<1>10. /\ tail \in Seq(Bytes) /\ Len(tail) = c - b
       /\ \A k \in 1 .. c - b : tail[k] = packed[b + k]
  <2> DEFINE x == b + 1
  <2>1. x \in Nat \ {0} /\ x <= c + 1 /\ (c - x) + 1 = c - b /\ x - 1 = b
    BY <1>3
  <2>2. tail = SubSeq(packed, x, c)
    BY <1>5
  <2> HIDE DEF x
  <2>3. /\ SubSeq(packed, x, c) \in Seq(Bytes) /\ Len(SubSeq(packed, x, c)) = (c - x) + 1
        /\ \A k \in 1 .. (c - x) + 1 : SubSeq(packed, x, c)[k] = packed[(x - 1) + k]
    BY <1>3, <2>1, Slice
  <2> QED
    BY <2>1, <2>2, <2>3
<1>11. /\ all \in Seq(Bytes) /\ Len(all) = c - a
       /\ \A k \in 1 .. c - a : all[k] = packed[a + k]
  <2> DEFINE x == a + 1
  <2>1. x \in Nat \ {0} /\ x <= c + 1 /\ (c - x) + 1 = c - a /\ x - 1 = a
    BY <1>3
  <2>2. all = SubSeq(packed, x, c)
    BY <1>5
  <2> HIDE DEF x
  <2>3. /\ SubSeq(packed, x, c) \in Seq(Bytes) /\ Len(SubSeq(packed, x, c)) = (c - x) + 1
        /\ \A k \in 1 .. (c - x) + 1 : SubSeq(packed, x, c)[k] = packed[(x - 1) + k]
    BY <1>3, <2>1, Slice
  <2> QED
    BY <2>1, <2>2, <2>3
<1> DEFINE w == copies \o tail
<1>12. w \in Seq(Bytes) /\ Len(w) = c - a
  <2>1. w \in Seq(Bytes) /\ Len(w) = Len(copies) + Len(tail)
    BY <1>8, <1>10, Concatenation
  <2> HIDE DEF w
  <2> QED
    BY <1>3, <1>7, <1>8, <1>10, <2>1
<1>13. ASSUME NEW k \in 1 .. Len(all) PROVE all[k] = w[k]
  <2>1. k \in Nat /\ k >= 1 /\ k <= c - a /\ all[k] = packed[a + k]
    BY <1>3, <1>11
  <2>2. CASE k <= ru
    <3>1. w[k] = copies[k]
      BY <1>7, <1>8, <1>10, <2>1, <2>2, Joining
    <3> QED
      BY <1>7, <1>9, <2>1, <2>2, <3>1
  <2>3. CASE k > ru
    <3>1. k - ru \in 1 .. c - b /\ ru + (k - ru) = k /\ b + (k - ru) = a + k
      BY <1>3, <1>7, <2>1, <2>3
    <3>2. w[ru + (k - ru)] = tail[k - ru]
      BY <1>8, <1>10, <3>1, Joining
    <3> QED
      BY <1>10, <2>1, <3>1, <3>2
  <2>4. k <= ru \/ k > ru
    BY <1>7, <2>1
  <2> QED
    BY <2>2, <2>3, <2>4
<1> HIDE DEF w
<1>14. all = w
  BY <1>11, <1>12, <1>13, SameSequence
<1> QED
  BY <1>10, <1>14 DEF w, copies, one, tail, all, m, r

-----------------------------------------------------------------------------
(* What is encoded expands to the same samples.                            *)

(* A sequence that is held is the part of the input it is held at.         *)
LEMMA HeldPart ==
  ASSUME NEW input \in Seq(Bytes), NEW from, NEW s \in Seq(Bytes), Len(s) # 0,
         Holds(input, from, s)
  PROVE  SubSeq(input, from, from + Len(s) - 1) = s
<1> DEFINE b == from + Len(s) - 1
<1>1. /\ from \in Nat \ {0} /\ b \in Nat /\ from <= b + 1 /\ b <= Len(input)
      /\ (b - from) + 1 = Len(s) /\ Len(s) \in Nat
      /\ \A i \in 1 .. Len(s) : input[(from - 1) + i] = s[i]
  <2>1. /\ from \in Nat \ {0} /\ from + Len(s) <= Len(input) + 1
        /\ \A i \in 1 .. Len(s) : input[(from - 1) + i] = s[i]
        /\ Len(s) \in Nat /\ Len(input) \in Nat
    BY DEF Holds
  <2> QED
    BY <2>1
<1> HIDE DEF b
<1>2. /\ SubSeq(input, from, b) \in Seq(Bytes)
      /\ Len(SubSeq(input, from, b)) = (b - from) + 1
      /\ \A i \in 1 .. (b - from) + 1 : SubSeq(input, from, b)[i] = input[(from - 1) + i]
  BY <1>1, Slice
<1> DEFINE t == SubSeq(input, from, b)
<1>3. t \in Seq(Bytes) /\ Len(t) = Len(s) /\ \A i \in 1 .. Len(t) : t[i] = s[i]
  BY <1>1, <1>2
<1> HIDE DEF t
<1>4. t = s
  BY <1>3, SameSequence
<1> QED
  BY <1>4 DEF t, b

(* The rest of input, from a position on, is s.                            *)
EndsWith(input, from, s) ==
  Holds(input, from, s) /\ from + Len(s) = Len(input) + 1

LEMMA ExpandsWhatWasEncoded ==
  ASSUME NEW packed \in Seq(Bytes), NEW u \in Nat \ {0}, Samples(packed, u) < Limit
  PROVE  \A i \in 1 .. Samples(packed, u) + 1 :
           \A input \in Seq(Bytes) : \A at \in Nat :
             EndsWith(input, at, EncodeFrom(packed, u, i))
               => ExpandFrom(input, u, at) = Decoded(SamplesFrom(packed, u, i))
<1> DEFINE n == Samples(packed, u)
           D == 1 .. n + 1
           rank == [i \in D |-> (n + 1) - i]
           T == {i \in D : \A input \in Seq(Bytes) : \A at \in Nat :
                   EndsWith(input, at, EncodeFrom(packed, u, i))
                     => ExpandFrom(input, u, at) = Decoded(SamplesFrom(packed, u, i))}
<1>1. n \in Nat /\ n < Limit /\ Limit \in Nat
  BY SampleFacts, TransitionAssumption
<1>2. rank \in [D -> Nat] /\ \A i \in D : rank[i] = (n + 1) - i
  <2> HIDE DEF n
  <2> QED
    BY <1>1
<1>3. ASSUME NEW i \in D, \A j \in D : rank[j] < rank[i] => j \in T PROVE i \in T
  <2> SUFFICES ASSUME NEW input \in Seq(Bytes), NEW at \in Nat,
                      EndsWith(input, at, EncodeFrom(packed, u, i))
               PROVE  ExpandFrom(input, u, at) = Decoded(SamplesFrom(packed, u, i))
    OBVIOUS
  <2> HIDE DEF rank
  <2>1. CASE i = n + 1
    <3>1. EncodeFrom(packed, u, i) = <<>>
      BY <2>1, EncodeDef
    <3>2. at = Len(input) + 1
      <4>1. at + Len(<<>>) = Len(input) + 1
        BY <3>1 DEF EndsWith
      <4> QED
        BY <4>1
    <3>3. ExpandFrom(input, u, at) = Decoded(<<>>)
      BY <3>2, ExpandDef
    <3>4. SamplesFrom(packed, u, i) = <<>>
      <4> DEFINE c == Samples(packed, u) * u
      <4>1. i - 1 = n
        <5> HIDE DEF n
        <5> QED
          BY <1>1, <2>1
      <4>2. SamplesFrom(packed, u, i) = SubSeq(packed, c + 1, c)
        BY <4>1 DEF SamplesFrom
      <4>3. c \in Nat /\ c <= Len(packed)
        BY SampleFacts
      <4> HIDE DEF c
      <4>4. SubSeq(packed, c + 1, c) \in Seq(Bytes) /\ Len(SubSeq(packed, c + 1, c)) = 0
        BY <4>3
      <4> QED
        BY <4>2, <4>4
    <3> QED
      BY <3>3, <3>4
  <2>2. CASE i # n + 1
    <3>1. i \in 1 .. n /\ i \in Nat
      <4> HIDE DEF n
      <4> QED
        BY <1>1, <2>2
    <3> DEFINE m == NextRun(packed, u, i)
               r == m - i
               p == PutVarint(r)
               one == Sample(packed, u, i)
               e == EncodeFrom(packed, u, m)
               tail == SamplesFrom(packed, u, m)
    <3>2. m \in i + 1 .. n + 1 /\ m \in D /\ m \in Nat
      <4>1. m \in i + 1 .. n + 1
        BY <3>1, NextRunFacts
      <4> HIDE DEF m, n
      <4> QED
        BY <1>1, <3>1, <4>1
    <3>3. r \in 1 .. Limit - 1 /\ r \in Nat
      <4> HIDE DEF m, n
      <4> QED
        BY <1>1, <3>1, <3>2
    <3>4. one \in Seq(Bytes) /\ Len(one) = u
      BY <3>1, SampleFacts
    <3>5. p \in Seq(Bytes)
      BY <3>3, PutDef
    <3>6. e \in Seq(Bytes) /\ EncodeFrom(packed, u, i) = (p \o one) \o e
      BY <3>1, <3>2, EncodeDef DEF Run
    <3>7. /\ SamplesFrom(packed, u, i) = Repeat(one, r) \o tail
          /\ tail \in Seq(Bytes)
      BY <3>1, RunIsRepeated
    <3>8. m \in T
      <4>1. rank[m] < rank[i]
        <5>1. rank[m] = (n + 1) - m /\ rank[i] = (n + 1) - i
          BY <1>2, <3>2
        <5> HIDE DEF m, n
        <5> QED
          BY <1>1, <3>1, <3>2, <5>1
      <4> QED
        BY <1>3, <3>2, <4>1
    <3>9. ASSUME NEW k \in Nat, EndsWith(input, k, e)
          PROVE  ExpandFrom(input, u, k) = Decoded(tail)
      BY <3>8, <3>9
    <3> HIDE DEF m, e, tail, one, T
    <3>10. Holds(input, at, (p \o one) \o e)
           /\ at + Len((p \o one) \o e) = Len(input) + 1
      BY <3>6 DEF EndsWith
    <3>11. p \o one \in Seq(Bytes) /\ Len(p \o one) = Len(p) + u
      BY <3>4, <3>5, Concatenation
    <3>12. Holds(input, at, p \o one) /\ Holds(input, at + (Len(p) + u), e)
      BY <3>6, <3>10, <3>11, HoldsParts
    <3>13. Holds(input, at, p) /\ Holds(input, at + Len(p), one)
      BY <3>4, <3>5, <3>12, HoldsParts
    <3>14. /\ GetVarint(input, at) = [ok |-> TRUE, value |-> r, next |-> at + Len(p)]
           /\ Len(p) \in Nat \ {0}
      BY <3>3, <3>13, GetsWhatWasPut
    <3> HIDE DEF p, r
    <3> DEFINE k == at + Len(p)
    <3>15. k \in Nat /\ k + u \in Nat /\ k + u = at + (Len(p) + u)
      BY <3>14
    <3>16. Len((p \o one) \o e) = (Len(p) + u) + Len(e) /\ Len(e) \in Nat
      <4> DEFINE run == p \o one
      <4>1. run \in Seq(Bytes) /\ Len(run) = Len(p) + u
        BY <3>11
      <4> HIDE DEF run
      <4>2. e \in Seq(Bytes) /\ Len(e) \in Nat
        BY <3>6
      <4>3. Len(run \o e) = Len(run) + Len(e)
        BY <4>1, <4>2, Concatenation
      <4> QED
        BY <4>1, <4>2, <4>3 DEF run
    <3>17. EndsWith(input, k + u, e)
      <4>1. Holds(input, k + u, e)
        BY <3>12, <3>15
      <4>2. (k + u) + Len(e) = Len(input) + 1
        BY <3>10, <3>14, <3>15, <3>16
      <4> QED
        BY <4>1, <4>2 DEF EndsWith
    <3>18. SubSeq(input, k, k + u - 1) = one
      BY <3>4, <3>13, HeldPart
    <3>19. at \in 1 .. Len(input) /\ k + u - 1 <= Len(input)
      <4>1. k + Len(one) <= Len(input) + 1 /\ at \in Nat \ {0}
        BY <3>13 DEF Holds
      <4> QED
        BY <3>4, <3>14, <4>1
    <3>20. GetVarint(input, at) = [ok |-> TRUE, value |-> r, next |-> k]
      BY <3>14
    <3> HIDE DEF k
    <3>21. /\ Readable(input, u, at) /\ After(input, u, at) = k + u
           /\ RunSamples(input, u, at) = Repeat(one, r)
      <4>1. /\ GetVarint(input, at).ok /\ GetVarint(input, at).next = k
            /\ GetVarint(input, at).value = r
        BY <3>20
      <4> QED
        BY <3>18, <3>19, <4>1, Zenon DEF Readable, After, RunSamples
    <3>22. ExpandFrom(input, u, k + u) = Decoded(tail)
      BY <3>9, <3>15, <3>17
    <3>23. Decoded(tail).ok /\ Decoded(tail).packed = tail
      BY DEF Decoded
    <3>24. ExpandFrom(input, u, at)
             = IF /\ Readable(input, u, at)
                  /\ ExpandFrom(input, u, After(input, u, at)).ok
                 THEN Decoded(RunSamples(input, u, at)
                                \o ExpandFrom(input, u, After(input, u, at)).packed)
                 ELSE Refused
      BY <3>19, ExpandDef
    <3> QED
      BY <3>7, <3>21, <3>22, <3>23, <3>24, Zenon
  <2> QED
    BY <2>1, <2>2
<1>4. \A i \in D : i \in T
  <2> HIDE DEF D, T, rank
  <2>1. rank \in [D -> Nat]
    BY <1>2
  <2>2. \A i \in D : (\A j \in D : rank[j] < rank[i] => j \in T) => i \in T
    BY <1>3
  <2> QED
    BY <2>1, <2>2, RankInduction
<1> QED
  BY <1>4

-----------------------------------------------------------------------------
(* Whole payloads.                                                         *)

(* All whole samples.                                                      *)
AllSamples(packed, u) == SubSeq(packed, 1, Samples(packed, u) * u)

(* A chunk decodes to its samples.  Its length is a usize, as is that of   *)
(* any buffer of the program.                                              *)
LEMMA DecodesWhatWasEncoded ==
  ASSUME NEW packed \in Seq(Bytes), NEW u \in Nat \ {0}, Len(packed) < Limit
  PROVE  DecodeTransition(EncodeTransition(packed, u), u, Samples(packed, u))
           = Decoded(AllSamples(packed, u))
<1> DEFINE n == Samples(packed, u)
           e == EncodeTransition(packed, u)
           c == n * u
           all == AllSamples(packed, u)
<1>1. /\ n \in Nat /\ c \in Nat /\ c <= Len(packed) /\ n <= Len(packed)
      /\ Len(packed) \in Nat /\ Limit \in Nat
  BY SampleFacts, TransitionAssumption
<1>2. n < Limit /\ 1 \in 1 .. n + 1 /\ c < Limit
  <2> HIDE DEF n, c
  <2> QED
    BY <1>1
<1>3. e \in Seq(Bytes) /\ e = EncodeFrom(packed, u, 1)
  BY <1>2, EncodeDef DEF EncodeTransition
<1>4. EndsWith(e, 1, e)
  <2>1. Len(e) \in Nat
    BY <1>3
  <2> HIDE DEF e
  <2> QED
    BY <2>1 DEF EndsWith, Holds
<1>5. ExpandFrom(e, u, 1) = Decoded(SamplesFrom(packed, u, 1))
  BY <1>2, <1>3, <1>4, ExpandsWhatWasEncoded
<1>6. SamplesFrom(packed, u, 1) = all
  <2>1. (1 - 1) * u = 0 /\ 0 + 1 = 1
    BY Z3
  <2> QED
    BY <2>1 DEF SamplesFrom, AllSamples
<1>7. Len(all) = c
  <2>1. all = SubSeq(packed, 1, c)
    BY DEF AllSamples
  <2> HIDE DEF c, all
  <2> QED
    BY <1>1, <2>1
<1>8. c % Limit = c
  <2> HIDE DEF c
  <2> QED
    BY <1>1, <1>2, Z3
<1> HIDE DEF e, c, all
<1>9. Expand(e, u) = Decoded(all)
  BY <1>5, <1>6 DEF Expand
<1>10. Decoded(all).ok /\ Decoded(all).packed = all
  BY DEF Decoded
<1>11. DecodeTransition(e, u, n)
         = IF Expand(e, u).ok /\ Len(Expand(e, u).packed) = c % Limit
             THEN Expand(e, u) ELSE Refused
  <2>1. u # 0
    OBVIOUS
  <2> QED
    BY <2>1, Zenon DEF DecodeTransition, c
<1> QED
  BY <1>7, <1>8, <1>9, <1>10, <1>11, Zenon DEF e, all

(* A payload is decoded for the sample count it expands to, among those    *)
(* that say a length that does not wrap.                                   *)
LEMMA CountDecides ==
  ASSUME NEW payload \in Seq(Bytes), NEW u \in Nat \ {0},
         NEW n \in 0 .. (Limit - 1) \div u,
         DecodeTransition(payload, u, n).ok
  PROVE  Len(DecodeTransition(payload, u, n).packed) = n * u
<1> DEFINE q == (Limit - 1) \div u
<1>1. Limit \in Nat \ {0}
  <2>1. MaxBytes - 1 \in Nat /\ Power[MaxBytes - 1] \in Nat \ {0}
    BY TransitionAssumption, PowerDef
  <2> QED
    BY <2>1, TransitionAssumption
<1>2. q \in Nat /\ q * u \in Nat /\ q * u <= Limit - 1
  <2>1. (Limit - 1) % u \in Nat /\ q \in Nat /\ Limit - 1 = (q * u) + ((Limit - 1) % u)
    <3>1. Limit - 1 \in Nat
      BY <1>1
    <3>2. (Limit - 1) % u \in 0 .. u - 1 /\ q \in Nat
          /\ Limit - 1 = (q * u) + ((Limit - 1) % u)
      BY <3>1, DivMod
    <3> QED
      BY <3>2
  <2>2. q * u \in Nat
    BY <2>1, Product
  <2> QED
    BY <2>1, <2>2
<1>3. n \in Nat /\ q - n \in Nat
  <2>1. n \in 0 .. q
    OBVIOUS
  <2> HIDE DEF q
  <2> QED
    BY <1>2, <2>1
<1> HIDE DEF q
<1>4. n * u \in Nat /\ n * u < Limit
  <2>1. (n * u) + ((q - n) * u) = (n + (q - n)) * u /\ n + (q - n) = q
    BY <1>2, <1>3, Distribute
  <2>2. n * u \in Nat /\ (q - n) * u \in Nat
    BY <1>3, Product
  <2> QED
    BY <1>1, <1>2, <2>1, <2>2
<1>5. (n * u) % Limit = n * u
  <2> DEFINE c == n * u
  <2>1. c \in Nat /\ c < Limit
    BY <1>4
  <2> HIDE DEF c
  <2>2. c % Limit = c
    BY <1>1, <2>1, Z3
  <2> QED
    BY <2>2 DEF c
<1>6. DecodeTransition(payload, u, n)
        = IF Expand(payload, u).ok /\ Len(Expand(payload, u).packed) = (n * u) % Limit
            THEN Expand(payload, u) ELSE Refused
  <2>1. u # 0
    OBVIOUS
  <2> QED
    BY <2>1, Zenon DEF DecodeTransition
<1>7. ~Refused.ok
  BY DEF Refused
<1> QED
  BY <1>5, <1>6, <1>7, Zenon

(* A run of r samples takes r bytes at most for its length.                *)
LEMMA CountIsShort == \A r \in Nat \ {0} : Len(PutVarint(r)) \in 1 .. r
<1> DEFINE T == {r \in Nat : r < Power[r]}
<1>1. More \in Nat /\ More >= 2
  BY TransitionAssumption
<1>2. ASSUME NEW r \in Nat, \A m \in 0 .. r - 1 : m \in T PROVE r \in T
  <2>1. CASE r = 0
    BY <2>1, PowerDef
  <2>2. CASE r # 0
    <3> DEFINE x == Power[r - 1]
    <3>1. r - 1 \in Nat /\ r - 1 \in T /\ r = (r - 1) + 1
      BY <1>2, <2>2
    <3>2. x \in Nat \ {0} /\ Power[r] = More * x /\ r - 1 < x
      BY <3>1, PowerDef
    <3> HIDE DEF x
    <3>3. More * x >= x + x
      <4>1. (2 * x) + ((More - 2) * x) = More * x /\ (More - 2) * x \in Nat
        BY <1>1, <3>2, Z3
      <4> QED
        BY <1>1, <3>2, <4>1
    <3>4. More * x \in Nat
      BY <1>1, <3>2, Product
    <3> QED
      BY <3>2, <3>3, <3>4
  <2> QED
    BY <2>1, <2>2
<1> HIDE DEF T
<1>3. \A r \in Nat : r \in T
  BY <1>2, Induction
<1> SUFFICES ASSUME NEW r \in Nat \ {0} PROVE Len(PutVarint(r)) \in 1 .. r
  OBVIOUS
<1>4. r < Power[r]
  BY <1>3 DEF T
<1>5. Len(PutVarint(r)) <= r
  BY <1>4, PutIsShort
<1>6. Len(PutVarint(r)) \in Nat \ {0}
  BY PutIsMarked DEF Marked
<1> QED
  BY <1>5, <1>6

(* However the samples differ, encoding adds a byte per sample at most.    *)
LEMMA EncodedLength ==
  ASSUME NEW packed \in Seq(Bytes), NEW u \in Nat \ {0}
  PROVE  /\ EncodeTransition(packed, u) \in Seq(Bytes)
         /\ Len(EncodeTransition(packed, u)) <= Samples(packed, u) * (u + 1)
<1> DEFINE n == Samples(packed, u)
           D == 1 .. n + 1
           rank == [i \in D |-> (n + 1) - i]
           T == {i \in D : Len(EncodeFrom(packed, u, i)) <= ((n + 1) - i) * (u + 1)}
<1>1. n \in Nat
  BY SampleFacts
<1>2. rank \in [D -> Nat] /\ \A i \in D : rank[i] = (n + 1) - i
  <2> HIDE DEF n
  <2> QED
    BY <1>1
<1>3. ASSUME NEW i \in D, \A j \in D : rank[j] < rank[i] => j \in T PROVE i \in T
  <2> HIDE DEF rank
  <2>1. CASE i = n + 1
    <3>1. EncodeFrom(packed, u, i) = <<>>
      BY <2>1, EncodeDef
    <3>2. ((n + 1) - i) * (u + 1) = 0
      <4>1. (n + 1) - i = 0
        <5> HIDE DEF n
        <5> QED
          BY <1>1, <2>1
      <4>2. 0 * (u + 1) = 0
        BY Z3
      <4> QED
        BY <4>1, <4>2
    <3> QED
      BY <3>1, <3>2
  <2>2. CASE i # n + 1
    <3>1. i \in 1 .. n /\ i \in Nat
      <4> HIDE DEF n
      <4> QED
        BY <1>1, <2>2
    <3> DEFINE m == NextRun(packed, u, i)
               r == m - i
               p == PutVarint(r)
               one == Sample(packed, u, i)
               e == EncodeFrom(packed, u, m)
    <3>2. m \in i + 1 .. n + 1 /\ m \in D /\ m \in Nat
      <4>1. m \in i + 1 .. n + 1
        BY <3>1, NextRunFacts
      <4> HIDE DEF m, n
      <4> QED
        BY <1>1, <3>1, <4>1
    <3>3. r \in Nat \ {0}
      <4> HIDE DEF m, n
      <4> QED
        BY <1>1, <3>1, <3>2
    <3>4. one \in Seq(Bytes) /\ Len(one) = u
      BY <3>1, SampleFacts
    <3>5. p \in Seq(Bytes) /\ Len(p) \in 1 .. r
      BY <3>3, PutDef, CountIsShort
    <3>6. e \in Seq(Bytes) /\ EncodeFrom(packed, u, i) = (p \o one) \o e
      BY <3>1, <3>2, EncodeDef DEF Run
    <3>7. Len(e) <= ((n + 1) - m) * (u + 1)
      <4>1. rank[m] < rank[i]
        <5>1. rank[m] = (n + 1) - m /\ rank[i] = (n + 1) - i
          BY <1>2, <3>2
        <5> HIDE DEF m, n
        <5> QED
          BY <1>1, <3>1, <3>2, <5>1
      <4>2. m \in T
        BY <1>3, <3>2, <4>1
      <4> QED
        BY <4>2
    <3>8. Len(EncodeFrom(packed, u, i)) = (Len(p) + u) + Len(e) /\ Len(e) \in Nat
      <4> DEFINE run == p \o one
      <4> HIDE DEF e, one, p
      <4>1. run \in Seq(Bytes) /\ Len(run) = Len(p) + u
        BY <3>4, <3>5, Concatenation
      <4>2. e \in Seq(Bytes) /\ Len(e) \in Nat
        BY <3>6
      <4>3. EncodeFrom(packed, u, i) = run \o e
        BY <3>6
      <4> HIDE DEF run
      <4>4. Len(run \o e) = Len(run) + Len(e)
        BY <4>1, <4>2, Concatenation
      <4> QED
        BY <4>1, <4>2, <4>3, <4>4
    <3> DEFINE k == (n + 1) - m
               x == r * (u + 1)
               y == k * (u + 1)
    <3>9. k \in Nat /\ (n + 1) - i = r + k
      <4> HIDE DEF m, n
      <4> QED
        BY <1>1, <3>1, <3>2
    <3> HIDE DEF m, e, one, p, r, k
    <3>10. x + y = ((n + 1) - i) * (u + 1)
      BY <3>3, <3>9, Distribute
    <3>11. r + u <= x
      <4>1. x = (r + u) + ((r - 1) * u)
        BY <3>3, Z3
      <4>2. (r - 1) * u \in Nat
        <5>1. r - 1 \in Nat
          BY <3>3
        <5> QED
          BY <5>1, Product
      <4> HIDE DEF x
      <4>3. r + u \in Nat
        BY <3>3
      <4> DEFINE z == (r - 1) * u
      <4>4. x = (r + u) + z /\ z \in Nat
        BY <4>1, <4>2
      <4> HIDE DEF z
      <4> QED
        BY <4>3, <4>4
    <3>12. x \in Nat /\ y \in Nat
      <4>1. u + 1 \in Nat
        OBVIOUS
      <4> QED
        BY <3>3, <3>9, <4>1, Product
    <3>13. Len(EncodeFrom(packed, u, i)) <= x + y
      <4>1. Len(e) <= y
        BY <3>7 DEF k
      <4> HIDE DEF x, y
      <4> QED
        BY <3>3, <3>5, <3>8, <3>11, <3>12, <4>1
    <3> QED
      BY <3>10, <3>13
  <2> QED
    BY <2>1, <2>2
<1>4. \A i \in D : i \in T
  <2> HIDE DEF D, T, rank
  <2>1. rank \in [D -> Nat]
    BY <1>2
  <2>2. \A i \in D : (\A j \in D : rank[j] < rank[i] => j \in T) => i \in T
    BY <1>3
  <2> QED
    BY <2>1, <2>2, RankInduction
<1>5. 1 \in D
  <2> HIDE DEF n
  <2> QED
    BY <1>1
<1>6. Len(EncodeFrom(packed, u, 1)) <= ((n + 1) - 1) * (u + 1)
  BY <1>4, <1>5
<1>7. (n + 1) - 1 = n
  <2> HIDE DEF n
  <2> QED
    BY <1>1
<1>8. EncodeFrom(packed, u, 1) \in Seq(Bytes)
  BY <1>5, EncodeDef
<1> QED
  BY <1>6, <1>7, <1>8 DEF EncodeTransition

-----------------------------------------------------------------------------
(* Nothing is shorter than what is encoded.                                *)

(* Powers grow.                                                            *)
LEMMA PowerGrows == \A b \in Nat : \A a \in 0 .. b : Power[a] <= Power[b]
<1> DEFINE T == {b \in Nat : \A a \in 0 .. b : Power[a] <= Power[b]}
<1>1. ASSUME NEW b \in Nat, \A m \in 0 .. b - 1 : m \in T PROVE b \in T
  <2> SUFFICES ASSUME NEW a \in 0 .. b PROVE Power[a] <= Power[b]
    OBVIOUS
  <2>1. CASE a = b
    <3>1. Power[a] \in Nat
      BY PowerDef
    <3> QED
      BY <2>1, <3>1
  <2>2. CASE a # b
    <3> DEFINE x == Power[b - 1]
    <3>1. b - 1 \in Nat /\ b - 1 \in T /\ b = (b - 1) + 1 /\ a \in 0 .. b - 1
      BY <1>1, <2>2
    <3>2. x \in Nat \ {0} /\ Power[b] = More * x /\ Power[a] <= x
      BY <3>1, PowerDef
    <3>3. Power[a] \in Nat
      BY <3>1, PowerDef
    <3> HIDE DEF x
    <3>4. More * x >= x /\ More * x \in Nat
      <4>1. More \in Nat /\ More >= 1
        BY TransitionAssumption
      <4>2. x + ((More - 1) * x) = More * x /\ (More - 1) * x \in Nat
        BY <3>2, <4>1, Z3
      <4>3. More * x \in Nat
        BY <3>2, <4>1, Product
      <4> HIDE DEF x
      <4> DEFINE y == (More - 1) * x
                 z == More * x
      <4>4. x + y = z /\ y \in Nat /\ z \in Nat
        BY <4>2, <4>3
      <4> HIDE DEF y, z
      <4>5. z >= x
        BY <3>2, <4>4
      <4> QED
        BY <4>3, <4>5 DEF z
    <3> QED
      BY <3>2, <3>3, <3>4
  <2> QED
    BY <2>1, <2>2
<1> HIDE DEF T
<1>2. \A b \in Nat : b \in T
  BY <1>1, Induction
<1> QED
  BY <1>2 DEF T

(* The bytes of a varint cannot say more than their number has digits for. *)
LEMMA ValueIsBounded ==
  ASSUME NEW input \in Seq(Bytes), NEW to \in 0 .. Len(input)
  PROVE  \A k \in Nat : \A i \in 1 .. to + 1 :
           (to + 1) - i = k => VarintValue(input, i, to) < Power[k]
<1> DEFINE T == {k \in Nat : \A i \in 1 .. to + 1 :
                   (to + 1) - i = k => VarintValue(input, i, to) < Power[k]}
<1>1. Len(input) \in Nat /\ to \in Nat /\ to <= Len(input) /\ DOMAIN input = 1 .. Len(input)
  BY SeqFacts
<1>2. More \in Nat /\ More > 1
  BY TransitionAssumption
<1>3. ASSUME NEW k \in Nat, \A m \in 0 .. k - 1 : m \in T PROVE k \in T
  <2> SUFFICES ASSUME NEW i \in 1 .. to + 1, (to + 1) - i = k
               PROVE  VarintValue(input, i, to) < Power[k]
    OBVIOUS
  <2>1. CASE k = 0
    <3>1. i > to /\ i \in 1 .. Len(input) + 1
      BY <1>1, <2>1
    <3>2. VarintValue(input, i, to) = 0
      BY <3>1, ValueDef
    <3> QED
      BY <2>1, <3>2, PowerDef
  <2>2. CASE k # 0
    <3> DEFINE x == VarintValue(input, i + 1, to)
               p == Power[k - 1]
               l == Low(input[i])
    <3>1. /\ k - 1 \in Nat /\ k - 1 \in T /\ k = (k - 1) + 1
          /\ i + 1 \in 1 .. to + 1 /\ (to + 1) - (i + 1) = k - 1
          /\ i \in 1 .. Len(input) /\ i + 1 \in 1 .. Len(input) + 1 /\ i <= to
      BY <1>1, <1>3, <2>2
    <3>2. x < p
      BY <3>1
    <3>3. x \in Nat /\ VarintValue(input, i, to) = l + (More * x)
      <4>1. i \in 1 .. Len(input) + 1
        BY <1>1, <3>1
      <4> QED
        BY <3>1, <4>1, ValueDef
    <3>4. p \in Nat /\ Power[k] = More * p
      BY <3>1, PowerDef
    <3>5. l \in 0 .. More - 1
      <4>1. input[i] \in Nat
        BY <1>1, <1>2, <3>1, SeqFacts DEF Bytes
      <4> QED
        BY <4>1, Digits
    <3> HIDE DEF x, p, l
    <3>6. (p - 1) - x \in Nat
      BY <3>2, <3>3, <3>4
    <3>7. (More * x) + ((More * ((p - 1) - x)) + More) = More * p
      BY <1>2, <3>3, <3>4, Z3
    <3> DEFINE y == More * x
               z == More * ((p - 1) - x)
               w == More * p
    <3>8. y \in Nat /\ z \in Nat /\ w \in Nat
      BY <1>2, <3>3, <3>4, <3>6, Product
    <3>9. y + (z + More) = w
      BY <3>7
    <3>10. VarintValue(input, i, to) = l + y /\ Power[k] = w
      BY <3>3, <3>4
    <3> HIDE DEF y, z, w
    <3>11. l + y < w
      BY <1>2, <3>5, <3>8, <3>9
    <3> QED
      BY <3>10, <3>11
  <2> QED
    BY <2>1, <2>2
<1> HIDE DEF T
<1>4. \A k \in Nat : k \in T
  BY <1>3, Induction
<1> QED
  BY <1>4 DEF T

(* A number is below what the bytes it is written in can count.            *)
LEMMA PutFits == \A v \in Nat : v < Power[Len(PutVarint(v))]
<1> SUFFICES ASSUME NEW v \in Nat PROVE v < Power[Len(PutVarint(v))]
  OBVIOUS
<1> DEFINE p == PutVarint(v)
<1>1. p \in Seq(Bytes) /\ Len(p) \in Nat
  BY PutDef, SeqFacts
<1>2. Holds(p, 1, p)
  BY <1>1 DEF Holds
<1>3. VarintValue(p, 1, (1 - 1) + Len(p)) = v
  BY <1>1, <1>2, ValueOfPut
<1> HIDE DEF p
<1>4. /\ Len(p) \in 0 .. Len(p) /\ 1 \in 1 .. Len(p) + 1
      /\ (Len(p) + 1) - 1 = Len(p) /\ (1 - 1) + Len(p) = Len(p)
  BY <1>1
<1>5. VarintValue(p, 1, Len(p)) < Power[Len(p)]
  BY <1>1, <1>4, ValueIsBounded
<1> QED
  BY <1>3, <1>4, <1>5 DEF p

(* Two counts apart take at least the bytes of their sum.                  *)
LEMMA PutOfSum ==
  ASSUME NEW a \in Nat, NEW b \in Nat
  PROVE  Len(PutVarint(a + b)) <= Len(PutVarint(a)) + Len(PutVarint(b))
<1> DEFINE j == Len(PutVarint(a))
           k == Len(PutVarint(b))
<1>1. j \in Nat \ {0} /\ k \in Nat \ {0} /\ a < Power[j] /\ b < Power[k]
  BY PutIsMarked, PutFits DEF Marked
<1> HIDE DEF j, k
<1> DEFINE m == IF j <= k THEN k ELSE j
<1>2. m \in Nat /\ j \in 0 .. m /\ k \in 0 .. m /\ m + 1 \in Nat /\ m + 1 # 0 /\ m + 1 <= j + k
  BY <1>1
<1> HIDE DEF m
<1> DEFINE x == Power[m]
<1>3. x \in Nat /\ Power[m + 1] = More * x /\ Power[j] <= x /\ Power[k] <= x
  BY <1>2, PowerDef, PowerGrows
<1>4. Power[j] \in Nat /\ Power[k] \in Nat
  BY <1>1, PowerDef
<1> HIDE DEF x
<1>5. a < x /\ b < x
  BY <1>1, <1>3, <1>4
<1>6. a + b < More * x
  <2>1. More \in Nat /\ More >= 2
    BY TransitionAssumption
  <2>2. (2 * x) + ((More - 2) * x) = More * x /\ (More - 2) * x \in Nat
    BY <1>3, <2>1, Z3
  <2> DEFINE y == (More - 2) * x
             z == More * x
  <2>3. (x + x) + y = z /\ y \in Nat
    BY <1>3, <2>2
  <2> HIDE DEF y, z
  <2>4. a + b < z
    BY <1>3, <1>5, <2>3
  <2> QED
    BY <2>4 DEF z
<1>7. Len(PutVarint(a + b)) <= m + 1
  <2>1. a + b \in Nat /\ a + b < Power[m + 1]
    BY <1>3, <1>6
  <2> QED
    BY <1>2, <2>1, PutIsShort
<1>8. Len(PutVarint(a + b)) \in Nat
  BY PutIsMarked DEF Marked
<1> QED
  BY <1>1, <1>2, <1>7, <1>8 DEF j, k

(* A varint that is read takes at least the bytes its value is written in. *)
LEMMA ReadIsNotShorter ==
  ASSUME NEW input \in Seq(Bytes), NEW from \in 1 .. Len(input) + 1,
         GetVarint(input, from).ok
  PROVE  LET v == GetVarint(input, from) IN
         /\ v.value \in Nat \ {0} /\ v.next \in from + 1 .. Len(input) + 1
         /\ Len(PutVarint(v.value)) <= v.next - from
<1> DEFINE v == GetVarint(input, from)
           to == v.next - 1
           x == VarintValue(input, from, to)
           k == v.next - from
<1>1. ~Refused.ok
  BY DEF Refused
<1>2. /\ v.value \in 1 .. Limit - 1 /\ v.next \in from + 1 .. Len(input) + 1
      /\ v.value = x % Limit
  BY <1>1, GetFacts
<1>3. Limit \in Nat /\ Len(input) \in Nat
  BY TransitionAssumption
<1> HIDE DEF v
<1>4. /\ to \in 0 .. Len(input) /\ from \in 1 .. to + 1 /\ (to + 1) - from = k
      /\ k \in Nat /\ k # 0 /\ from \in 1 .. Len(input) + 1
  BY <1>2, <1>3
<1> HIDE DEF to
<1>5. x \in Nat
  BY <1>4, ValueDef
<1> HIDE DEF k
<1>6. x < Power[k]
  BY <1>4, ValueIsBounded
<1> HIDE DEF x
<1>7. v.value \in Nat \ {0} /\ v.value <= x
  <2>1. Limit > 0
    BY <1>2, <1>3
  <2>2. x % Limit <= x
    BY <1>3, <1>5, <2>1, Z3
  <2> QED
    BY <1>2, <1>3, <2>2
<1>8. v.value < Power[k]
  <2>1. Power[k] \in Nat
    BY <1>4, PowerDef
  <2> QED
    BY <1>5, <1>6, <1>7, <2>1
<1>9. Len(PutVarint(v.value)) <= k
  BY <1>4, <1>7, <1>8, PutIsShort
<1> QED
  BY <1>2, <1>7, <1>9 DEF k, v

(* Where v equal samples follow each other, the run that starts with the   *)
(* first of them is of v samples, or of v and those of the run after them. *)
LEMMA RunIsLong ==
  ASSUME NEW packed \in Seq(Bytes), NEW u \in Nat \ {0},
         NEW j \in 1 .. Samples(packed, u), NEW v \in Nat \ {0},
         j + v <= Samples(packed, u) + 1,
         \A i \in j + 1 .. (j + v) - 1 : Sample(packed, u, i) = Sample(packed, u, i - 1)
  PROVE  \/ NextRun(packed, u, j) = j + v
         \/ /\ j + v \in 1 .. Samples(packed, u)
            /\ NextRun(packed, u, j + v) = NextRun(packed, u, j)
            /\ NextRun(packed, u, j) > j + v
<1> DEFINE n == Samples(packed, u)
           after(i) == {k \in Starts(packed, u) : k > i} \cup {n + 1}
           m == NextRun(packed, u, j)
<1>1. n \in Nat /\ j \in 1 .. n /\ j \in Nat /\ j + v \in Nat /\ j + v <= n + 1
  <2>1. n \in Nat /\ j \in 1 .. n /\ j + v <= n + 1
    BY SampleFacts
  <2> HIDE DEF n
  <2> QED
    BY <2>1
<1>2. Starts(packed, u) \subseteq 1 .. n
  BY DEF Starts
<1>3. \A i : NextRun(packed, u, i) = Least(after(i))
  BY DEF NextRun
<1>4. \A i : after(i) \in SUBSET Nat /\ n + 1 \in after(i)
  <2> HIDE DEF n
  <2> QED
    BY <1>1, <1>2
<1>5. m \in after(j) /\ \A k \in after(j) : m <= k
  <2>1. after(j) # {}
    BY <1>4
  <2>2. Least(after(j)) \in after(j) /\ \A k \in after(j) : Least(after(j)) <= k
    <3> HIDE DEF after
    <3> QED
      BY <1>4, <2>1, LeastExists
  <2>3. m = Least(after(j))
    BY <1>3
  <2> QED
    BY <2>2, <2>3, Zenon
<1> HIDE DEF m
<1>6. m \in Nat /\ m <= n + 1 /\ m > j
  <2> HIDE DEF n
  <2> QED
    BY <1>1, <1>2, <1>4, <1>5
<1>7. m >= j + v
  <2> SUFFICES ASSUME m < j + v PROVE FALSE
    BY <1>1, <1>6
  <2>1. m # n + 1 /\ m \in j + 1 .. (j + v) - 1 /\ m # 1
    <3> HIDE DEF n
    <3> QED
      BY <1>1, <1>6
  <2>2. m \in Starts(packed, u)
    BY <1>5, <2>1
  <2>3. Sample(packed, u, m) # Sample(packed, u, m - 1)
    BY <2>1, <2>2 DEF Starts
  <2> QED
    BY <2>1, <2>3
<1>8. CASE m = j + v
  BY <1>8 DEF m
<1>9. CASE m # j + v
  <2>1. m > j + v /\ j + v \in 1 .. n
    <3> HIDE DEF n
    <3> QED
      BY <1>1, <1>6, <1>7, <1>9
  <2>2. m \in after(j + v)
    BY <1>5, <2>1
  <2>3. after(j + v) \subseteq after(j)
    <3>1. \A k \in Nat : k > j + v => k > j
      BY <1>1
    <3> QED
      BY <1>2, <3>1
  <2>4. \A k \in after(j + v) : m <= k
    BY <1>5, <2>3
  <2>5. Least(after(j + v)) = m
    <3> HIDE DEF after
    <3> QED
      BY <1>4, <2>2, <2>4, LeastIs
  <2>6. NextRun(packed, u, j + v) = m
    BY <1>3, <2>5, Zenon
  <2> QED
    BY <2>1, <2>6 DEF m
<1> QED
  BY <1>8, <1>9

(* What starts with v equal samples is encoded in no more bytes than these *)
(* as a run and the others after them.                                     *)
LEMMA RunsAreJoined ==
  ASSUME NEW packed \in Seq(Bytes), NEW u \in Nat \ {0},
         NEW j \in 1 .. Samples(packed, u), NEW v \in Nat \ {0},
         j + v <= Samples(packed, u) + 1,
         \A i \in j + 1 .. (j + v) - 1 : Sample(packed, u, i) = Sample(packed, u, i - 1)
  PROVE  Len(EncodeFrom(packed, u, j))
           <= (Len(PutVarint(v)) + u) + Len(EncodeFrom(packed, u, j + v))
<1> DEFINE n == Samples(packed, u)
           m == NextRun(packed, u, j)
           cost(i) == Len(EncodeFrom(packed, u, i))
           bytes(r) == Len(PutVarint(r))
<1>1. n \in Nat /\ j \in 1 .. n /\ j \in Nat /\ j + v \in 1 .. n + 1
  <2>1. n \in Nat /\ j \in 1 .. n /\ j + v <= n + 1
    BY SampleFacts
  <2> HIDE DEF n
  <2> QED
    BY <2>1
<1>2. ASSUME NEW i \in 1 .. n
      PROVE  /\ NextRun(packed, u, i) \in i + 1 .. n + 1
             /\ cost(i) = (bytes(NextRun(packed, u, i) - i) + u) + cost(NextRun(packed, u, i))
  <2> DEFINE e == EncodeFrom(packed, u, NextRun(packed, u, i))
             p == PutVarint(NextRun(packed, u, i) - i)
             one == Sample(packed, u, i)
             run == p \o one
  <2>1. NextRun(packed, u, i) \in i + 1 .. n + 1
    BY NextRunFacts
  <2>2. NextRun(packed, u, i) \in 1 .. n + 1 /\ NextRun(packed, u, i) - i \in Nat
    <3> HIDE DEF n
    <3> QED
      BY <1>1, <2>1
  <2>3. e \in Seq(Bytes) /\ EncodeFrom(packed, u, i) = run \o e
    BY <2>2, EncodeDef DEF Run
  <2>4. p \in Seq(Bytes) /\ one \in Seq(Bytes) /\ Len(one) = u
    BY <2>2, PutDef, SampleFacts
  <2> HIDE DEF e, p, one
  <2>5. run \in Seq(Bytes) /\ Len(run) = Len(p) + u
    BY <2>4, Concatenation
  <2> HIDE DEF run
  <2>6. Len(run \o e) = Len(run) + Len(e)
    BY <2>3, <2>5, Concatenation
  <2>7. cost(i) = (Len(p) + u) + Len(e)
    BY <2>3, <2>5, <2>6
  <2> QED
    BY <2>1, <2>7 DEF e, p
<1>3. \A i \in 1 .. n + 1 : cost(i) \in Nat
  <2>1. \A i \in 1 .. n + 1 : EncodeFrom(packed, u, i) \in Seq(Bytes)
    BY EncodeDef
  <2> QED
    BY <2>1
<1>4. \A r \in Nat : bytes(r) \in Nat
  BY PutIsMarked DEF Marked
<1>5. \/ m = j + v
      \/ j + v \in 1 .. n /\ NextRun(packed, u, j + v) = m /\ m > j + v
  BY RunIsLong
<1>6. m \in j + 1 .. n + 1 /\ cost(j) = (bytes(m - j) + u) + cost(m)
  BY <1>2
<1>7. CASE m = j + v
  <2>1. m - j = v
    BY <1>1, <1>7
  <2> QED
    BY <1>1, <1>3, <1>4, <1>6, <1>7, <2>1
<1>8. CASE j + v \in 1 .. n /\ NextRun(packed, u, j + v) = m /\ m > j + v
  <2> DEFINE r == m - (j + v)
  <2>1. cost(j + v) = (bytes(r) + u) + cost(m)
    BY <1>2, <1>8
  <2>2. r \in Nat /\ m - j = v + r /\ m \in 1 .. n + 1
    <3>1. m \in j + 1 .. n + 1
      BY <1>6
    <3> HIDE DEF n, m
    <3> QED
      BY <1>1, <1>8, <3>1
  <2> HIDE DEF r, m, n
  <2>3. bytes(v + r) <= bytes(v) + bytes(r)
    BY <2>2, PutOfSum
  <2>4. bytes(v) \in Nat /\ bytes(r) \in Nat /\ bytes(v + r) \in Nat /\ cost(m) \in Nat
    <3>1. v + r \in Nat
      BY <2>2
    <3> HIDE DEF bytes, cost
    <3> QED
      BY <1>3, <1>4, <2>2, <3>1
  <2>5. cost(j) = (bytes(v + r) + u) + cost(m)
    BY <1>6, <2>2
  <2> HIDE DEF cost, bytes
  <2>6. cost(j) <= (bytes(v) + u) + cost(j + v)
    BY <2>1, <2>3, <2>4, <2>5
  <2> QED
    BY <2>6 DEF cost, bytes
<1> QED
  BY <1>5, <1>7, <1>8

(* The samples of a run, and how many bytes they are.                      *)
LEMMA RunLength ==
  ASSUME NEW payload \in Seq(Bytes), NEW u \in Nat \ {0}, NEW at \in 1 .. Len(payload),
         Readable(payload, u, at)
  PROVE  LET v == GetVarint(payload, at)
             value == SubSeq(payload, v.next, v.next + u - 1)
         IN  /\ v.ok /\ v.value \in Nat \ {0} /\ v.next \in at + 1 .. Len(payload) + 1
             /\ Len(PutVarint(v.value)) <= v.next - at
             /\ value \in Seq(Bytes) /\ Len(value) = u
             /\ RunSamples(payload, u, at) = Repeat(value, v.value)
             /\ RunSamples(payload, u, at) \in Seq(Bytes)
             /\ Len(RunSamples(payload, u, at)) = v.value * u
<1> DEFINE v == GetVarint(payload, at)
           value == SubSeq(payload, v.next, v.next + u - 1)
<1>1. v.ok /\ v.next + u - 1 <= Len(payload)
  BY DEF Readable
<1>2. Len(payload) \in Nat /\ at \in 1 .. Len(payload) + 1
  OBVIOUS
<1>3. /\ v.value \in Nat \ {0} /\ v.next \in at + 1 .. Len(payload) + 1
      /\ Len(PutVarint(v.value)) <= v.next - at
  BY <1>1, <1>2, ReadIsNotShorter
<1>4. RunSamples(payload, u, at) = Repeat(value, v.value)
  BY DEF RunSamples
<1> HIDE DEF v
<1>5. value \in Seq(Bytes) /\ Len(value) = u
  <2> DEFINE a == v.next
             b == v.next + u - 1
  <2>1. a \in Nat \ {0} /\ b \in Nat /\ a <= b + 1 /\ b <= Len(payload) /\ (b - a) + 1 = u
    BY <1>1, <1>2, <1>3
  <2> HIDE DEF a, b
  <2>2. SubSeq(payload, a, b) \in Seq(Bytes) /\ Len(SubSeq(payload, a, b)) = (b - a) + 1
    BY <2>1, Slice
  <2> QED
    BY <2>1, <2>2 DEF a, b
<1> HIDE DEF value
<1>6. /\ Repeat(value, v.value) \in Seq(Bytes)
      /\ Len(Repeat(value, v.value)) = v.value * u
  <2>1. Len(value) # 0 /\ v.value \in Nat
    BY <1>3, <1>5
  <2> QED
    BY <1>5, <2>1, RepeatFacts
<1> QED
  BY <1>1, <1>3, <1>4, <1>5, <1>6 DEF v, value

(* A payload expands to whole samples.                                     *)
LEMMA ExpandsToWhole ==
  ASSUME NEW payload \in Seq(Bytes), NEW u \in Nat \ {0}
  PROVE  \A at \in 1 .. Len(payload) + 1 : \A q :
           ExpandFrom(payload, u, at) = Decoded(q) => \E k \in Nat : Len(q) = k * u
<1> DEFINE n == Len(payload)
           D == 1 .. n + 1
           rank == [at \in D |-> (n + 1) - at]
           T == {at \in D : \A q : ExpandFrom(payload, u, at) = Decoded(q)
                                     => \E k \in Nat : Len(q) = k * u}
<1>1. n \in Nat
  OBVIOUS
<1>2. rank \in [D -> Nat] /\ \A at \in D : rank[at] = (n + 1) - at
  <2> HIDE DEF n
  <2> QED
    BY <1>1
<1>3. ASSUME NEW at \in D, \A b \in D : rank[b] < rank[at] => b \in T PROVE at \in T
  <2> HIDE DEF rank
  <2> SUFFICES ASSUME NEW q, ExpandFrom(payload, u, at) = Decoded(q)
               PROVE  \E k \in Nat : Len(q) = k * u
    OBVIOUS
  <2>1. CASE at = n + 1
    <3>1. ExpandFrom(payload, u, at) = Decoded(<<>>)
      BY <2>1, ExpandDef
    <3>2. q = <<>>
      BY <3>1 DEF Decoded
    <3>3. 0 * u = 0
      BY Z3
    <3> QED
      BY <3>2, <3>3
  <2>2. CASE at # n + 1
    <3>1. at \in 1 .. n
      BY <1>1, <2>2
    <3> DEFINE v == GetVarint(payload, at)
               next == After(payload, u, at)
               value == SubSeq(payload, v.next, v.next + u - 1)
               run == RunSamples(payload, u, at)
               rest == ExpandFrom(payload, u, next)
    <3>2. /\ Readable(payload, u, at) /\ rest.ok
          /\ Decoded(q) = Decoded(run \o rest.packed)
      <4>1. Decoded(q) # Refused
        BY DEF Decoded, Refused
      <4> QED
        BY <2>2, <3>1, <4>1, ExpandDef, Zenon
    <3>3. next \in at + 1 .. n + 1 /\ next \in D /\ v.ok
      <4>1. next \in at + 1 .. n + 1
        BY <3>2, ReadableFacts
      <4>2. v.ok
        BY <3>2 DEF Readable
      <4> HIDE DEF next, n
      <4> QED
        BY <1>1, <3>1, <4>1, <4>2
    <3>4. PICK p \in Seq(Bytes) : rest = Decoded(p)
      <4>1. rest = Refused \/ \E p \in Seq(Bytes) : rest = Decoded(p)
        BY <3>3, ExpandDef
      <4>2. ~Refused.ok
        BY DEF Refused
      <4> QED
        BY <3>2, <4>1, <4>2, Zenon
    <3>5. q = run \o p
      BY <3>2, <3>4 DEF Decoded
    <3>6. PICK k \in Nat : Len(p) = k * u
      <4>1. rank[next] < rank[at]
        <5>1. rank[next] = (n + 1) - next /\ rank[at] = (n + 1) - at
          BY <1>2, <3>3
        <5> HIDE DEF next, n
        <5> QED
          BY <1>1, <3>1, <3>3, <5>1
      <4>2. next \in T
        BY <1>3, <3>3, <4>1
      <4> QED
        BY <3>4, <4>2
    <3>7. /\ v.value \in Nat \ {0}
          /\ run \in Seq(Bytes) /\ Len(run) = v.value * u
      BY <3>1, <3>2, <3>3, RunLength
    <3>8. Len(q) = (v.value * u) + (k * u)
      <4> HIDE DEF run
      <4> QED
        BY <3>4, <3>5, <3>6, <3>7, Concatenation
    <3> DEFINE c == v.value
    <3>9. c \in Nat
      BY <3>7
    <3> HIDE DEF v, run, rest
    <3>10. Len(q) = (c + k) * u
      <4>1. Len(q) = (c * u) + (k * u)
        BY <3>8
      <4> HIDE DEF c
      <4> QED
        BY <3>6, <3>9, <4>1, Distribute
    <3> HIDE DEF c
    <3>11. c + k \in Nat
      BY <3>6, <3>9
    <3> DEFINE e == c + k
    <3>12. e \in Nat /\ Len(q) = e * u
      BY <3>10, <3>11
    <3> HIDE DEF e
    <3> QED
      BY <3>12
  <2> QED
    BY <2>1, <2>2
<1>4. \A at \in D : at \in T
  <2> HIDE DEF D, T, rank
  <2>1. rank \in [D -> Nat]
    BY <1>2
  <2>2. \A at \in D : (\A b \in D : rank[b] < rank[at] => b \in T) => at \in T
    BY <1>3
  <2> QED
    BY <2>1, <2>2, RankInduction
<1> QED
  BY <1>4

(* Where a run is written out the samples are equal.                       *)
LEMMA SamplesOfRun ==
  ASSUME NEW packed \in Seq(Bytes), NEW u \in Nat \ {0},
         NEW j \in 1 .. Samples(packed, u), NEW v \in Nat \ {0},
         j + v <= Samples(packed, u) + 1,
         NEW value \in Seq(Bytes), Len(value) = u,
         Holds(packed, ((j - 1) * u) + 1, Repeat(value, v))
  PROVE  \A i \in j .. (j + v) - 1 : Sample(packed, u, i) = value
<1> DEFINE n == Samples(packed, u)
           copies == Repeat(value, v)
           from == ((j - 1) * u) + 1
<1>1. n \in Nat /\ j \in 1 .. n /\ j \in Nat /\ j + v <= n + 1
  <2>1. n \in Nat /\ j \in 1 .. n /\ j + v <= n + 1
    BY SampleFacts
  <2> HIDE DEF n
  <2> QED
    BY <2>1
<1> SUFFICES ASSUME NEW i \in j .. (j + v) - 1 PROVE Sample(packed, u, i) = value
  OBVIOUS
<1>2. /\ i \in 1 .. n /\ i - j \in Nat /\ v - ((i - j) + 1) \in Nat
      /\ (j - 1) + (i - j) = i - 1 /\ j - 1 \in Nat /\ i - 1 \in Nat
  <2> HIDE DEF n
  <2> QED
    BY <1>1
<1> DEFINE a == (j - 1) * u
           d == (i - j) * u
           one == Sample(packed, u, i)
<1>3. a \in Nat /\ d \in Nat /\ (i - 1) * u = a + d
  <2>1. a \in Nat /\ d \in Nat
    BY <1>2, Product
  <2>2. ((j - 1) * u) + ((i - j) * u) = ((j - 1) + (i - j)) * u
    BY <1>2, Distribute
  <2> QED
    BY <1>2, <2>1, <2>2
<1>4. d + u <= v * u /\ v * u \in Nat
  <2> DEFINE l == v - ((i - j) + 1)
  <2>1. l \in Nat /\ ((i - j) + 1) + l = v /\ (i - j) + 1 \in Nat
    BY <1>2
  <2> HIDE DEF l
  <2>2. (((i - j) + 1) * u) + (l * u) = v * u /\ l * u \in Nat /\ v * u \in Nat
    BY <2>1, Distribute, Product
  <2>3. d + (1 * u) = ((i - j) + 1) * u /\ 1 * u = u
    BY <1>2, Distribute
  <2> HIDE DEF d
  <2> DEFINE x == ((i - j) + 1) * u
             y == l * u
             z == v * u
  <2>4. x + y = z /\ y \in Nat /\ z \in Nat /\ d + u = x
    BY <2>2, <2>3
  <2> HIDE DEF x, y, z
  <2>5. d + u <= z
    BY <1>3, <2>4
  <2> QED
    BY <2>4, <2>5 DEF z
<1>5. /\ copies \in Seq(Bytes) /\ Len(copies) = v * u
      /\ \A k \in 1 .. v * u : copies[k] = value[1 + ((k - 1) % u)]
  BY RepeatFacts
<1>6. \A k \in 1 .. v * u : packed[(from - 1) + k] = copies[k]
  <2>1. \A k \in 1 .. Len(copies) : packed[(from - 1) + k] = copies[k]
    BY DEF Holds
  <2> QED
    BY <1>5, <2>1
<1>7. one \in Seq(Bytes) /\ Len(one) = u /\ \A k \in 1 .. u : one[k] = packed[((i - 1) * u) + k]
  BY <1>2, SampleFacts
<1> HIDE DEF one, copies
<1>8. ASSUME NEW k \in 1 .. Len(one) PROVE one[k] = value[k]
  <2>1. k \in 1 .. u /\ k - 1 \in 0 .. u - 1 /\ k \in Nat
    BY <1>7
  <2>2. one[k] = packed[(a + d) + k]
    BY <1>3, <1>7, <2>1
  <2>3. d + k \in 1 .. v * u
    <3> DEFINE z == v * u
    <3>1. z \in Nat /\ d + u <= z
      BY <1>4
    <3> HIDE DEF z, d
    <3>2. d + k \in 1 .. z
      BY <1>3, <2>1, <3>1
    <3> QED
      BY <3>2 DEF z
  <2>4. (from - 1) + (d + k) = (a + d) + k
    <3>1. from = a + 1
      OBVIOUS
    <3> HIDE DEF from, a, d
    <3> QED
      BY <1>3, <2>1, <3>1
  <2>5. packed[(a + d) + k] = copies[d + k]
    BY <1>6, <2>3, <2>4
  <2>6. ((d + k) - 1) % u = k - 1
    <3> DEFINE c == i - j
               e == k - 1
    <3>1. c \in Nat /\ e \in 0 .. u - 1 /\ (d + k) - 1 = (c * u) + e
      <4>1. d \in Nat /\ d = c * u
        BY <1>3
      <4> HIDE DEF d
      <4> QED
        BY <1>2, <2>1, <4>1
    <3> HIDE DEF c, e
    <3>2. ((c * u) + e) % u = e
      BY <3>1, Z3
    <3> QED
      BY <3>1, <3>2 DEF e
  <2>7. copies[d + k] = value[1 + (k - 1)]
    BY <1>5, <2>3, <2>6
  <2>8. 1 + (k - 1) = k
    BY <2>1
  <2> QED
    BY <2>2, <2>5, <2>7, <2>8
<1>9. one = value
  BY <1>7, <1>8, SameSequence
<1> QED
  BY <1>9 DEF one

(* No payload says the same in fewer bytes than the encoder.  The payload  *)
(* expands to packed; what it says of the samples from j on is what        *)
(* follows its position at, which is the longer of the two.                *)
LEMMA NothingIsShorter ==
  ASSUME NEW payload \in Seq(Bytes), NEW u \in Nat \ {0}, NEW packed \in Seq(Bytes),
         Len(packed) = Samples(packed, u) * u
  PROVE  \A at \in 1 .. Len(payload) + 1 :
           \A q \in Seq(Bytes) : \A j \in 1 .. Samples(packed, u) + 1 :
             /\ ExpandFrom(payload, u, at) = Decoded(q)
             /\ EndsWith(packed, ((j - 1) * u) + 1, q)
             => Len(EncodeFrom(packed, u, j)) <= (Len(payload) + 1) - at
<1> DEFINE l == Len(payload)
           n == Samples(packed, u)
           D == 1 .. l + 1
           rank == [at \in D |-> (l + 1) - at]
           cost(j) == Len(EncodeFrom(packed, u, j))
           Says(at, q, j) == /\ ExpandFrom(payload, u, at) = Decoded(q)
                             /\ EndsWith(packed, ((j - 1) * u) + 1, q)
           T == {at \in D : \A q \in Seq(Bytes) : \A j \in 1 .. n + 1 :
                   Says(at, q, j) => cost(j) <= (l + 1) - at}
<1>1. l \in Nat /\ n \in Nat
  BY SampleFacts
<1>2. rank \in [D -> Nat] /\ \A at \in D : rank[at] = (l + 1) - at
  <2> HIDE DEF l
  <2> QED
    BY <1>1
<1>3. \A j \in 1 .. n + 1 : cost(j) \in Nat
  <2>1. \A j \in 1 .. n + 1 : EncodeFrom(packed, u, j) \in Seq(Bytes)
    BY EncodeDef
  <2> QED
    BY <2>1
<1>4. ASSUME NEW at \in D, \A b \in D : rank[b] < rank[at] => b \in T PROVE at \in T
  <2> HIDE DEF rank
  <2> SUFFICES ASSUME NEW q \in Seq(Bytes), NEW j \in 1 .. n + 1, Says(at, q, j)
               PROVE  cost(j) <= (l + 1) - at
    OBVIOUS
  <2> DEFINE a == (j - 1) * u
             f == a + 1
  <2>1. Holds(packed, f, q) /\ f + Len(q) = (n * u) + 1
    <3>1. EndsWith(packed, f, q)
      OBVIOUS
    <3> QED
      BY <3>1 DEF EndsWith
  <2>2. ExpandFrom(payload, u, at) = Decoded(q)
    OBVIOUS
  <2>3. j \in Nat /\ j - 1 \in Nat /\ j \in 1 .. n + 1
    <3>1. j \in 1 .. n + 1
      OBVIOUS
    <3> HIDE DEF n
    <3> QED
      BY <1>1, <3>1
  <2>4. a \in Nat /\ n * u \in Nat
    BY <1>1, <2>3, Product
  <2> HIDE DEF Says
  <2>5. CASE at = l + 1
    <3>1. q = <<>>
      <4>1. ExpandFrom(payload, u, at) = Decoded(<<>>)
        BY <2>5, ExpandDef
      <4> QED
        BY <2>2, <4>1 DEF Decoded
    <3>2. j = n + 1
      <4>1. a = n * u
        <5>1. Len(q) = 0
          BY <3>1
        <5> HIDE DEF a, n
        <5> QED
          BY <2>1, <2>4, <5>1
      <4>2. j - 1 = n
        <5> HIDE DEF n
        <5>1. (j - 1) * u = n * u
          BY <4>1
        <5> DEFINE k == j - 1
        <5>2. k \in Nat /\ k * u = n * u
          BY <2>3, <5>1
        <5> HIDE DEF k
        <5>3. (k * u) \div u = k /\ (n * u) \div u = n
          BY <1>1, <5>2, Multiple
        <5> QED
          BY <5>2, <5>3 DEF k
      <4> HIDE DEF n
      <4> QED
        BY <1>1, <2>3, <4>2
    <3>3. EncodeFrom(packed, u, j) = <<>>
      BY <3>2, EncodeDef
    <3>4. cost(j) = 0
      BY <3>3
    <3> HIDE DEF cost
    <3> QED
      BY <1>1, <2>5, <3>4
  <2>6. CASE at # l + 1
    <3> DEFINE v == GetVarint(payload, at)
               next == After(payload, u, at)
               value == SubSeq(payload, v.next, v.next + u - 1)
               run == RunSamples(payload, u, at)
               rest == ExpandFrom(payload, u, next)
               c == v.value
    <3>1. at \in 1 .. l /\ at \in Nat
      <4>1. at \in 1 .. l + 1
        OBVIOUS
      <4> HIDE DEF l
      <4> QED
        BY <1>1, <2>6, <4>1
    <3>2. /\ Readable(payload, u, at) /\ rest.ok
          /\ Decoded(q) = Decoded(run \o rest.packed)
      <4>1. Decoded(q) # Refused
        BY DEF Decoded, Refused
      <4> QED
        BY <2>2, <3>1, <4>1, ExpandDef, Zenon
    <3>3. next \in at + 1 .. l + 1 /\ next \in D
      <4>1. next \in at + 1 .. l + 1
        BY <3>2, ReadableFacts
      <4> HIDE DEF next, l
      <4> QED
        BY <1>1, <3>1, <4>1
    <3>4. PICK p \in Seq(Bytes) : rest = Decoded(p)
      <4>1. rest = Refused \/ \E p \in Seq(Bytes) : rest = Decoded(p)
        BY <3>3, ExpandDef
      <4>2. ~Refused.ok
        BY DEF Refused
      <4> QED
        BY <3>2, <4>1, <4>2, Zenon
    <3>5. q = run \o p
      BY <3>2, <3>4 DEF Decoded
    <3>6. /\ c \in Nat \ {0} /\ v.next \in at + 1 .. l + 1
          /\ Len(PutVarint(c)) <= v.next - at
          /\ value \in Seq(Bytes) /\ Len(value) = u
          /\ run = Repeat(value, c)
          /\ run \in Seq(Bytes) /\ Len(run) = c * u
      BY <3>1, <3>2, RunLength
    <3>7. next = v.next + u
      BY DEF After
    <3> HIDE DEF v, c, value, run, rest, next
    <3>8. c * u \in Nat
      BY <3>6, Product
    <3>9. Holds(packed, f, run) /\ Holds(packed, f + (c * u), p)
      <4>1. Holds(packed, f, run \o p)
        BY <2>1, <3>5
      <4>2. Holds(packed, f, run) /\ Holds(packed, f + Len(run), p)
        <5> HIDE DEF f
        <5> QED
          BY <3>4, <3>6, <4>1, HoldsParts
      <4> QED
        BY <3>6, <4>2
    <3>10. Len(q) = (c * u) + Len(p) /\ Len(p) \in Nat
      <4>1. Len(run \o p) = Len(run) + Len(p)
        BY <3>4, <3>6, Concatenation
      <4>2. Len(p) \in Nat
        BY <3>4
      <4> QED
        BY <3>5, <3>6, <4>1, <4>2
    <3> DEFINE i == j + c
    <3>11. f + (c * u) = ((i - 1) * u) + 1
      <4>1. ((j - 1) * u) + (c * u) = ((j - 1) + c) * u /\ (j - 1) + c = i - 1
        BY <2>3, <3>6, Distribute
      <4>2. a + (c * u) = (i - 1) * u
        BY <4>1
      <4> HIDE DEF a, i
      <4> DEFINE x == c * u
                 y == (i - 1) * u
      <4>3. a + x = y /\ x \in Nat
        BY <3>8, <4>2
      <4>4. f = a + 1
        OBVIOUS
      <4> HIDE DEF x, y, f
      <4>5. f + x = y + 1
        BY <2>4, <4>3, <4>4
      <4> QED
        BY <4>5 DEF x, y
    <3>12. i \in Nat /\ i <= n + 1
      <4>1. i \in Nat /\ i - 1 \in Nat
        BY <2>3, <3>6
      <4>2. (i - 1) * u <= n * u
        <5> DEFINE x == c * u
                   y == (i - 1) * u
                   z == n * u
        <5>1. f + (x + Len(p)) = z + 1 /\ f + x = y + 1 /\ z \in Nat /\ x \in Nat
          BY <2>1, <2>4, <3>8, <3>10, <3>11
        <5>2. y \in Nat /\ f \in Nat
          <6>1. y \in Nat
            BY <4>1, Product
          <6> HIDE DEF a
          <6>2. f \in Nat
            BY <2>4
          <6> QED
            BY <6>1, <6>2
        <5> HIDE DEF x, y, z, f
        <5>3. y <= z
          BY <3>10, <5>1, <5>2
        <5> QED
          BY <5>3 DEF y, z
      <4> DEFINE k == i - 1
      <4>3. k \in Nat /\ k * u <= n * u
        BY <4>1, <4>2
      <4> HIDE DEF k, n
      <4>4. k <= n
        BY <1>1, <4>3, Z3
      <4> HIDE DEF i
      <4> QED
        BY <1>1, <4>1, <4>4 DEF k
    <3>13. j \in 1 .. n /\ i \in 1 .. n + 1
      <4> HIDE DEF n
      <4> QED
        BY <1>1, <2>3, <3>6, <3>12
    <3>14. EndsWith(packed, ((i - 1) * u) + 1, p)
      <4> DEFINE g == f + (c * u)
      <4>1. Holds(packed, g, p)
        BY <3>9
      <4>2. g + Len(p) = Len(packed) + 1
        <5> DEFINE x == c * u
                   z == n * u
        <5>1. f + (x + Len(p)) = z + 1 /\ x \in Nat /\ g = f + x /\ z = Len(packed)
          BY <2>1, <3>8, <3>10
        <5>2. f \in Nat
          <6> HIDE DEF a
          <6> QED
            BY <2>4
        <5> HIDE DEF x, z, f, g
        <5> QED
          BY <3>10, <5>1, <5>2
      <4>3. EndsWith(packed, g, p)
        BY <4>1, <4>2 DEF EndsWith
      <4>4. g = ((i - 1) * u) + 1
        BY <3>11
      <4> HIDE DEF g
      <4> QED
        BY <4>3, <4>4
    <3>15. cost(i) <= (l + 1) - next
      <4>1. rank[next] < rank[at]
        <5>1. rank[next] = (l + 1) - next /\ rank[at] = (l + 1) - at
          BY <1>2, <3>3
        <5> HIDE DEF l
        <5> QED
          BY <1>1, <3>1, <3>3, <5>1
      <4>2. next \in T
        BY <1>4, <3>3, <4>1
      <4>3. Says(next, p, i)
        BY <3>4, <3>14 DEF Says, rest
      <4> HIDE DEF cost, Says
      <4> QED
        BY <3>4, <3>13, <4>2, <4>3
    <3>16. \A k \in j .. i - 1 : Sample(packed, u, k) = value
      <4>1. Holds(packed, ((j - 1) * u) + 1, Repeat(value, c))
        BY <3>6, <3>9
      <4> HIDE DEF a, f
      <4>2. j + c <= n + 1
        BY <3>12
      <4> QED
        BY <3>6, <3>13, <4>1, <4>2, SamplesOfRun
    <3>17. \A k \in j + 1 .. i - 1 : Sample(packed, u, k) = Sample(packed, u, k - 1)
      <4> SUFFICES ASSUME NEW k \in j + 1 .. i - 1
                   PROVE  Sample(packed, u, k) = Sample(packed, u, k - 1)
        OBVIOUS
      <4>1. k \in j .. i - 1 /\ k - 1 \in j .. i - 1
        <5>1. k \in j + 1 .. i - 1
          OBVIOUS
        <5> HIDE DEF i
        <5> QED
          BY <2>3, <3>12, <5>1
      <4> QED
        BY <3>16, <4>1
    <3>18. cost(j) <= (Len(PutVarint(c)) + u) + cost(i)
      <4>1. j + c <= n + 1
        BY <3>12
      <4> QED
        BY <3>6, <3>13, <3>17, <4>1, RunsAreJoined
    <3>19. cost(j) \in Nat /\ cost(i) \in Nat /\ Len(PutVarint(c)) \in Nat
      <4>1. Len(PutVarint(c)) \in Nat
        BY <3>6, PutIsMarked DEF Marked
      <4>2. j \in 1 .. n + 1
        BY <2>3
      <4> HIDE DEF cost
      <4> QED
        BY <1>3, <3>13, <4>1, <4>2
    <3> DEFINE w == Len(PutVarint(c))
               x == cost(j)
               y == cost(i)
               z == v.next
    <3>20. /\ w <= z - at /\ w \in Nat /\ x <= (w + u) + y /\ x \in Nat /\ y \in Nat
           /\ z \in at + 1 .. l + 1 /\ next = z + u /\ y <= (l + 1) - next
      BY <3>6, <3>7, <3>15, <3>18, <3>19
    <3> HIDE DEF w, x, y, z, l
    <3>21. x <= (l + 1) - at
      BY <1>1, <3>1, <3>20
    <3> QED
      BY <3>21 DEF x
  <2> QED
    BY <2>5, <2>6
<1>5. \A at \in D : at \in T
  <2> HIDE DEF D, T, rank
  <2>1. rank \in [D -> Nat]
    BY <1>2
  <2>2. \A at \in D : (\A b \in D : rank[b] < rank[at] => b \in T) => at \in T
    BY <1>4
  <2> QED
    BY <2>1, <2>2, RankInduction
<1> QED
  BY <1>5

(* A payload that expands at all encodes again to one that is not longer.  *)
LEMMA EncodesNoLonger ==
  ASSUME NEW payload \in Seq(Bytes), NEW u \in Nat \ {0}, Expand(payload, u).ok
  PROVE  Len(EncodeTransition(Expand(payload, u).packed, u)) <= Len(payload)
<1>1. PICK q \in Seq(Bytes) : ExpandFrom(payload, u, 1) = Decoded(q)
  <2>1. 1 \in 1 .. Len(payload) + 1
    OBVIOUS
  <2>2. \/ ExpandFrom(payload, u, 1) = Refused
        \/ \E q \in Seq(Bytes) : ExpandFrom(payload, u, 1) = Decoded(q)
    BY <2>1, ExpandDef
  <2>3. ~Refused.ok /\ ExpandFrom(payload, u, 1).ok
    BY DEF Refused, Expand
  <2> QED
    BY <2>2, <2>3, Zenon
<1>2. Expand(payload, u).packed = q
  BY <1>1 DEF Expand, Decoded
<1>3. PICK k \in Nat : Len(q) = k * u
  <2>1. 1 \in 1 .. Len(payload) + 1
    OBVIOUS
  <2> QED
    <3>1. \A at \in 1 .. Len(payload) + 1 : \A p :
            ExpandFrom(payload, u, at) = Decoded(p) => \E k \in Nat : Len(p) = k * u
      BY ExpandsToWhole
    <3> QED
      BY <1>1, <2>1, <3>1, Zenon
<1>4. Samples(q, u) = k /\ 1 \in 1 .. Samples(q, u) + 1
  <2>1. Samples(q, u) = k
    BY <1>3, Multiple DEF Samples
  <2> QED
    BY <2>1
<1>5. EndsWith(q, ((1 - 1) * u) + 1, q)
  <2>1. ((1 - 1) * u) + 1 = 1
    BY Z3
  <2>2. EndsWith(q, 1, q)
    BY DEF EndsWith, Holds
  <2> QED
    BY <2>1, <2>2
<1>6. Len(EncodeFrom(q, u, 1)) <= (Len(payload) + 1) - 1
  <2>1. Len(q) = Samples(q, u) * u /\ 1 \in 1 .. Len(payload) + 1
    BY <1>3, <1>4
  <2> QED
    BY <1>1, <1>4, <1>5, <2>1, NothingIsShorter
<1> QED
  BY <1>2, <1>6 DEF EncodeTransition

=============================================================================
