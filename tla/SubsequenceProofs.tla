-------------------------- MODULE SubsequenceProofs --------------------------
(***************************************************************************)
(* What OnlyIn returns, for every list and set, by induction over the      *)
(* list.  The induction theorems of the library take an operator; this one *)
(* takes a set of numbers and follows from the pigeonhole principle.       *)
(***************************************************************************)
EXTENDS Subsequences, Sums, FiniteSetTheorems, SequenceTheorems, TLAPS

Elements(s) == {s[i] : i \in 1 .. Len(s)}
Distinct(s) == \A i, j \in 1 .. Len(s) : s[i] = s[j] => i = j

-----------------------------------------------------------------------------
(* Induction up to a number, for a set of numbers: if 0 is in the set and  *)
(* each of its elements is followed by the next, then so is the last.  If  *)
(* it were not, the successor would map the set into the set without 0.    *)
LEMMA FiniteInduction ==
    ASSUME NEW n \in Nat, NEW G \in SUBSET (0 .. n), 0 \in G,
           \A i \in G : i < n => i + 1 \in G
    PROVE  n \in G
<1>1. SUFFICES ASSUME n \notin G PROVE FALSE
  OBVIOUS
<1> DEFINE H == G \ {0}
           f == [i \in G |-> i + 1]
<1>2. IsFiniteSet(G)
  <2>1. IsFiniteSet(0 .. n)
    BY FS_Interval
  <2> QED BY <2>1, FS_Subset
<1>3. IsFiniteSet(H) /\ Cardinality(H) = Cardinality(G) - 1 /\ Cardinality(G) \in Nat
  BY <1>2, FS_RemoveElement, FS_CardinalityType
<1>4. f \in [G -> H]
  <2>1. \A i \in G : i + 1 \in H
    BY <1>1
  <2> QED BY <2>1
<1>5. \A x, y \in G : x # y => f[x] # f[y]
  OBVIOUS
<1> HIDE DEF H, f
<1>6. Cardinality(H) < Cardinality(G)
  BY <1>3
<1>7. \E x, y \in G : x # y /\ f[x] = f[y]
  BY <1>2, <1>3, <1>4, <1>6, FS_PigeonHole
<1> QED BY <1>5, <1>7

(* The function of OnlyIn, up to a number.                                 *)
IsWalk(f, s, S, n) ==
    f = [i \in 0 .. n |-> IF i = 0 THEN << >>
                          ELSE IF s[i] \in S THEN Append(f[i - 1], s[i]) ELSE f[i - 1]]

(* There is such a function.                                               *)
LEMMA WalkExists ==
    ASSUME NEW s, NEW S, NEW n \in Nat
    PROVE  \E f : IsWalk(f, s, S, n)
<1> DEFINE G == {m \in 0 .. n : \E f : IsWalk(f, s, S, m)}
<1>1. 0 \in G
  <2> DEFINE f == [i \in 0 .. 0 |-> << >>]
  <2>1. IsWalk(f, s, S, 0)
    BY DEF IsWalk
  <2> QED BY <2>1
<1>2. ASSUME NEW m \in G, m < n
      PROVE  m + 1 \in G
  <2>1. PICK f : IsWalk(f, s, S, m)
    OBVIOUS
  <2>2. m \in Nat /\ m + 1 \in 0 .. n
    BY <1>2
  <2> DEFINE g == [i \in 0 .. m + 1 |-> IF i = m + 1 THEN (IF s[i] \in S THEN Append(f[m], s[i]) ELSE f[m])
                                        ELSE f[i]]
             h == [i \in 0 .. m + 1 |-> IF i = 0 THEN << >>
                                        ELSE IF s[i] \in S THEN Append(g[i - 1], s[i]) ELSE g[i - 1]]
  <2>3. ASSUME NEW i \in 0 .. m + 1
        PROVE  g[i] = h[i]
    <3>1. CASE i = 0
      BY <2>1, <2>2, <3>1 DEF IsWalk
    <3>2. CASE i = m + 1
      <4>1. i # 0 /\ i - 1 = m /\ m \in 0 .. m + 1 /\ m # m + 1
        BY <2>2, <3>2
      <4>2. g[m] = f[m]
        BY <4>1
      <4>3. g[i] = IF s[i] \in S THEN Append(f[m], s[i]) ELSE f[m]
        BY <3>2
      <4> QED BY <4>1, <4>2, <4>3
    <3>3. CASE i # 0 /\ i # m + 1
      <4>1. i \in 0 .. m /\ i - 1 \in 0 .. m + 1 /\ i - 1 # m + 1
        BY <2>2, <3>3
      <4>2. g[i] = f[i] /\ g[i - 1] = f[i - 1]
        BY <3>3, <4>1
      <4>3. f[i] = IF s[i] \in S THEN Append(f[i - 1], s[i]) ELSE f[i - 1]
        BY <2>1, <3>3, <4>1 DEF IsWalk
      <4>4. h[i] = IF s[i] \in S THEN Append(g[i - 1], s[i]) ELSE g[i - 1]
        BY <3>3
      <4> QED BY <4>2, <4>3, <4>4
    <3> QED BY <3>1, <3>2, <3>3
  <2>4. g = h
    <3> HIDE DEF g, h
    <3>1. DOMAIN g = 0 .. m + 1 /\ DOMAIN h = 0 .. m + 1
          /\ g = [i \in DOMAIN g |-> g[i]] /\ h = [i \in DOMAIN h |-> h[i]]
      BY DEF g, h
    <3> QED BY <2>3, <3>1
  <2>5. IsWalk(g, s, S, m + 1)
    BY <2>4 DEF IsWalk
  <2> QED BY <2>2, <2>5
<1>3. G \in SUBSET (0 .. n)
  OBVIOUS
<1> HIDE DEF G
<1>4. n \in G
  BY <1>1, <1>2, <1>3, FiniteInduction
<1> QED BY <1>4 DEF G

(* What is walked over so far: the elements of the set up to there.        *)
LEMMA WalkIs ==
    ASSUME NEW T, NEW s \in Seq(T), NEW S, NEW f, IsWalk(f, s, S, Len(s))
    PROVE  /\ f[Len(s)] \in Seq(T) /\ Len(f[Len(s)]) <= Len(s)
           /\ Elements(f[Len(s)]) = Elements(s) \cap S
           /\ Distinct(s) => Distinct(f[Len(s)])
<1> DEFINE n == Len(s)
           Upto(m) == {s[i] : i \in 1 .. m}
           Good(m) == /\ f[m] \in Seq(T) /\ Len(f[m]) <= m
                      /\ Elements(f[m]) = Upto(m) \cap S
                      /\ Distinct(s) => Distinct(f[m])
           G == {m \in 0 .. n : Good(m)}
<1>1. n \in Nat
  BY LenProperties
<1>2. 0 \in G
  <2>1. f[0] = << >> /\ 0 \in 0 .. n
    BY <1>1 DEF IsWalk
  <2>2. f[0] \in Seq(T) /\ Len(f[0]) = 0
    BY <2>1, EmptySeq
  <2>3. Elements(f[0]) = {} /\ Upto(0) = {} /\ Distinct(f[0])
    BY <2>2 DEF Elements, Distinct
  <2>4. Elements(f[0]) = Upto(0) \cap S /\ Len(f[0]) <= 0
    BY <2>2, <2>3
  <2>5. Good(0)
    BY <2>2, <2>3, <2>4
  <2> HIDE DEF Good
  <2> QED BY <2>1, <2>5
<1>3. ASSUME NEW m \in G, m < n
      PROVE  m + 1 \in G
  <2>1. /\ m \in Nat /\ m + 1 \in 0 .. n /\ m + 1 \in 1 .. n /\ (m + 1) - 1 = m /\ m + 1 # 0
        /\ Good(m)
    BY <1>1, <1>3
  <2>2. s[m + 1] \in T
    BY <2>1, ElementOfSeq
  <2>3. f[m + 1] = IF s[m + 1] \in S THEN Append(f[m], s[m + 1]) ELSE f[m]
    BY <2>1 DEF IsWalk
  <2>4. Upto(m + 1) = Upto(m) \cup {s[m + 1]}
    <3>1. \A i : i \in 1 .. m + 1 <=> i \in 1 .. m \/ i = m + 1
      BY <2>1
    <3> QED BY <3>1
  <2>5. CASE s[m + 1] \notin S
    <3>1. f[m + 1] = f[m] /\ Len(f[m]) \in Nat
      BY <2>1, <2>3, <2>5, LenProperties
    <3>2. Len(f[m + 1]) <= m + 1
      BY <2>1, <3>1
    <3>3. Upto(m + 1) \cap S = Upto(m) \cap S
      BY <2>4, <2>5
    <3> HIDE DEF Upto
    <3> QED BY <2>1, <3>1, <3>2, <3>3
  <2>6. CASE s[m + 1] \in S
    <3> DEFINE x == s[m + 1]
               old == f[m]
               new == f[m + 1]
    <3>1. new = Append(old, x) /\ old \in Seq(T) /\ x \in T
      BY <2>1, <2>2, <2>3, <2>6
    <3> HIDE DEF x, old, new
    <3>2. /\ new \in Seq(T) /\ Len(new) = Len(old) + 1 /\ new[Len(old) + 1] = x
          /\ \A i \in 1 .. Len(old) : new[i] = old[i]
          /\ Len(old) \in Nat
      BY <3>1, AppendProperties, LenProperties
    <3>3. \A i : i \in 1 .. Len(new) <=> i \in 1 .. Len(old) \/ i = Len(old) + 1
      BY <3>2
    <3>4. Elements(new) = Elements(old) \cup {x}
      <4>1. \A i \in 1 .. Len(new) : new[i] \in Elements(old) \cup {x}
        BY <3>2, <3>3 DEF Elements
      <4>2. \A i \in 1 .. Len(old) : old[i] \in Elements(new)
        BY <3>2, <3>3 DEF Elements
      <4>3. x \in Elements(new)
        BY <3>2, <3>3 DEF Elements
      <4> QED BY <4>1, <4>2, <4>3 DEF Elements
    <3>5. Elements(old) = Upto(m) \cap S /\ Len(old) <= m /\ (Distinct(s) => Distinct(old))
      BY <2>1 DEF old
    <3>6. Len(new) <= m + 1
      BY <2>1, <3>2, <3>5
    <3>7. Elements(new) = Upto(m + 1) \cap S
      BY <2>4, <2>6, <3>4, <3>5 DEF x
    <3>8. ASSUME Distinct(s)
          PROVE  Distinct(new)
      <4>1. x \notin Upto(m)
        <5>1. \A i \in 1 .. m : i \in 1 .. Len(s) /\ i # m + 1
          BY <1>1, <1>3, <2>1
        <5> QED BY <2>1, <3>8, <5>1 DEF Distinct, x
      <4>2. \A i \in 1 .. Len(old) : old[i] # x
        BY <3>5, <4>1 DEF Elements
      <4>3. \A i, j \in 1 .. Len(old) : old[i] = old[j] => i = j
        BY <3>5, <3>8 DEF Distinct
      <4>4. ASSUME NEW i \in 1 .. Len(new), NEW j \in 1 .. Len(new), new[i] = new[j]
            PROVE  i = j
        BY <3>2, <3>3, <4>2, <4>3, <4>4
      <4> QED BY <4>4 DEF Distinct
    <3>9. Good(m + 1)
      BY <3>2, <3>6, <3>7, <3>8 DEF new
    <3> QED BY <2>1, <3>9
  <2> QED BY <2>5, <2>6
<1>4. G \in SUBSET (0 .. n)
  OBVIOUS
<1> HIDE DEF G
<1>5. n \in G
  BY <1>1, <1>2, <1>3, <1>4, FiniteInduction
<1>6. Upto(n) = Elements(s)
  BY DEF Elements
<1> QED BY <1>5, <1>6 DEF G

(* What is left has the elements that are in the set, no others, and none  *)
(* twice if the list had none twice.                                       *)
LEMMA OnlyInIs ==
    ASSUME NEW T, NEW s \in Seq(T), NEW S
    PROVE  /\ OnlyIn(s, S) \in Seq(T) /\ Len(OnlyIn(s, S)) <= Len(s)
           /\ Elements(OnlyIn(s, S)) = Elements(s) \cap S
           /\ Distinct(s) => Distinct(OnlyIn(s, S))
<1> DEFINE F == CHOOSE f : IsWalk(f, s, S, Len(s))
<1>1. Len(s) \in Nat
  BY LenProperties
<1>2. IsWalk(F, s, S, Len(s))
  BY <1>1, WalkExists
<1>3. OnlyIn(s, S) = F[Len(s)]
  BY DEF OnlyIn, IsWalk
<1> HIDE DEF F
<1> QED BY <1>2, <1>3, WalkIs
-----------------------------------------------------------------------------
(* Lists with an element at the end or in front, and without the first or  *)
(* last ones.                                                              *)

(* One element more at the end.                                            *)
LEMMA AppendIs ==
    ASSUME NEW T, NEW s \in Seq(T), Distinct(s), NEW e \in T, e \notin Elements(s)
    PROVE  Append(s, e) \in Seq(T) /\ Distinct(Append(s, e)) /\ Elements(Append(s, e)) = Elements(s) \cup {e}
<1>1. /\ Len(s) \in Nat /\ Append(s, e) \in Seq(T) /\ Len(Append(s, e)) = Len(s) + 1
      /\ Append(s, e)[Len(s) + 1] = e /\ \A i \in 1 .. Len(s) : Append(s, e)[i] = s[i]
  OBVIOUS
<1>2. \A i \in 1 .. Len(s) + 1 : i \in 1 .. Len(s) \/ i = Len(s) + 1
  BY <1>1
<1>3. \A i \in 1 .. Len(s) : i \in 1 .. Len(s) + 1 /\ s[i] # e
  BY <1>1 DEF Elements
<1>4. Len(s) + 1 \in 1 .. Len(s) + 1
  BY <1>1
<1>5. Distinct(Append(s, e))
  BY <1>1, <1>2, <1>3 DEF Distinct
<1>6. Elements(Append(s, e)) = Elements(s) \cup {e}
  <2>1. ASSUME NEW a \in Elements(Append(s, e)) PROVE a \in Elements(s) \cup {e}
    BY <1>1, <1>2 DEF Elements
  <2>2. ASSUME NEW a \in Elements(s) \cup {e} PROVE a \in Elements(Append(s, e))
    BY <1>1, <1>3, <1>4 DEF Elements
  <2> QED BY <2>1, <2>2
<1> QED BY <1>1, <1>5, <1>6

(* One element more at the front.                                          *)
LEMMA PrependIs ==
    ASSUME NEW T, NEW s \in Seq(T), Distinct(s), NEW c \in T, c \notin Elements(s)
    PROVE  /\ <<c>> \o s \in Seq(T) /\ Distinct(<<c>> \o s) /\ Elements(<<c>> \o s) = Elements(s) \cup {c}
<1> DEFINE r == <<c>> \o s
<1>1. Len(s) \in Nat /\ <<c>> \in Seq(T) /\ Len(<<c>>) = 1 /\ <<c>>[1] = c
  BY LenProperties
<1>2. /\ r \in Seq(T) /\ Len(r) = Len(s) + 1
      /\ r[1] = c /\ \A i \in 1 .. Len(s) : r[i + 1] = s[i]
  <2>1. /\ r \in Seq(T) /\ Len(r) = 1 + Len(s)
        /\ \A i \in 1 .. 1 + Len(s) : r[i] = IF i <= 1 THEN <<c>>[i] ELSE s[i - 1]
    BY <1>1, ConcatProperties
  <2>2. 1 \in 1 .. 1 + Len(s) /\ \A i \in 1 .. Len(s) : i + 1 \in 1 .. 1 + Len(s) /\ ~ (i + 1 <= 1) /\ (i + 1) - 1 = i
    BY <1>1
  <2> HIDE DEF r
  <2> QED BY <1>1, <2>1, <2>2
<1> HIDE DEF r
<1>3. \A i : i \in 1 .. Len(r) <=> i = 1 \/ (i - 1 \in 1 .. Len(s) /\ (i - 1) + 1 = i)
  <2>1. ASSUME NEW i \in 1 .. Len(r), i # 1
        PROVE  i - 1 \in 1 .. Len(s) /\ (i - 1) + 1 = i
    BY <1>1, <1>2, <2>1
  <2>2. ASSUME NEW i, i - 1 \in 1 .. Len(s), (i - 1) + 1 = i
        PROVE  i \in 1 .. Len(r)
    <3>1. \A k \in 1 .. Len(s) : k + 1 \in 1 .. Len(s) + 1
      BY <1>1
    <3> QED BY <1>2, <2>2, <3>1
  <2>3. 1 \in 1 .. Len(r)
    BY <1>1, <1>2
  <2> QED BY <2>1, <2>2, <2>3
<1>4. \A i \in 1 .. Len(r) : r[i] = IF i = 1 THEN c ELSE s[i - 1]
  BY <1>2, <1>3
<1>5. Elements(r) = Elements(s) \cup {c}
  <2>1. \A i \in 1 .. Len(r) : r[i] \in Elements(s) \cup {c}
    BY <1>3, <1>4 DEF Elements
  <2>2. \A i \in 1 .. Len(s) : i + 1 \in 1 .. Len(r)
    BY <1>1, <1>2
  <2>3. \A i \in 1 .. Len(s) : s[i] \in Elements(r)
    BY <1>2, <2>2 DEF Elements
  <2>4. c \in Elements(r)
    BY <1>2, <1>3 DEF Elements
  <2> QED BY <2>1, <2>3, <2>4 DEF Elements
<1>6. Distinct(r)
  <2>1. ASSUME NEW i \in 1 .. Len(r), NEW j \in 1 .. Len(r), r[i] = r[j]
        PROVE  i = j
    <3>1. i # 1 /\ j # 1 => i - 1 = j - 1
      BY <1>3, <1>4, <2>1 DEF Distinct
    <3>2. i = 1 /\ j # 1 => FALSE
      BY <1>3, <1>4, <2>1 DEF Elements
    <3>3. i # 1 /\ j = 1 => FALSE
      BY <1>3, <1>4, <2>1 DEF Elements
    <3> QED BY <1>1, <1>2, <3>1, <3>2, <3>3
  <2> QED BY <2>1 DEF Distinct
<1> QED BY <1>2, <1>5, <1>6 DEF r

(* What follows an element of a list.                                      *)
LEMMA RestIs ==
    ASSUME NEW T, NEW s \in Seq(T), Distinct(s), NEW n \in 1 .. Len(s)
    PROVE  /\ SubSeq(s, n + 1, Len(s)) \in Seq(T) /\ Distinct(SubSeq(s, n + 1, Len(s)))
           /\ Elements(SubSeq(s, n + 1, Len(s))) = Elements(s) \ ({s[i] : i \in 1 .. n - 1} \cup {s[n]})
<1> DEFINE r == SubSeq(s, n + 1, Len(s))
           K == {s[i] : i \in 1 .. n - 1}
<1>1. Len(s) \in Nat /\ n \in Nat /\ n >= 1 /\ n <= Len(s)
  BY LenProperties
<1>2. n + 1 \in 1 .. Len(s) + 1
  BY <1>1
<1>3. /\ r \in Seq(T) /\ Len(r) = Len(s) - n
      /\ \A i \in 1 .. Len(s) - n : r[i] = s[n + i]
  BY <1>1, <1>2, SMTT(30)
<1> HIDE DEF r
<1>4. \A i \in 1 .. Len(r) : n + i \in 1 .. Len(s) /\ r[i] = s[n + i]
  BY <1>1, <1>3
<1>5. Distinct(r)
  BY <1>1, <1>3, <1>4 DEF Distinct
<1>6. Elements(r) \subseteq Elements(s) \ (K \cup {s[n]})
  <2>1. ASSUME NEW i \in 1 .. Len(r)
        PROVE  r[i] \in Elements(s) /\ r[i] \notin K /\ r[i] # s[n]
    <3>1. \A j \in 1 .. n - 1 : j \in 1 .. Len(s) /\ j # n + i
      BY <1>1, <1>3
    <3>2. n # n + i
      BY <1>1, <1>3
    <3> QED BY <1>4, <3>1, <3>2 DEF Elements, Distinct
  <2> QED BY <2>1 DEF Elements
<1>7. Elements(s) \ (K \cup {s[n]}) \subseteq Elements(r)
  <2>1. ASSUME NEW j \in 1 .. Len(s), s[j] \notin K, s[j] # s[n]
        PROVE  s[j] \in Elements(r)
    <3>1. j > n
      BY <1>1, <2>1
    <3>2. j - n \in 1 .. Len(r) /\ n + (j - n) = j
      BY <1>1, <1>3, <3>1
    <3> QED BY <1>4, <3>2 DEF Elements
  <2> QED BY <2>1 DEF Elements
<1>8. Elements(r) = Elements(s) \ (K \cup {s[n]})
  BY <1>6, <1>7
<1> QED BY <1>3, <1>5, <1>8 DEF r

(* The front of a list without repetitions.                                *)
LEMMA FrontIs ==
    ASSUME NEW T, NEW s \in Seq(T), Distinct(s), NEW n \in 0 .. Len(s)
    PROVE  /\ SubSeq(s, 1, n) \in Seq(T) /\ Len(SubSeq(s, 1, n)) = n /\ Distinct(SubSeq(s, 1, n))
           /\ Elements(SubSeq(s, 1, n)) = Elements(s) \ {s[i] : i \in n + 1 .. Len(s)}
<1> DEFINE r == SubSeq(s, 1, n)
           K == {s[i] : i \in n + 1 .. Len(s)}
<1>1. Len(s) \in Nat /\ n \in Nat /\ n <= Len(s)
  BY LenProperties
<1>2. /\ r \in Seq(T) /\ Len(r) = n
      /\ \A i \in 1 .. n : r[i] = s[i]
  BY <1>1, SMTT(30)
<1> HIDE DEF r
<1>3. \A i \in 1 .. n : i \in 1 .. Len(s)
  BY <1>1
<1>4. Distinct(r)
  BY <1>2, <1>3 DEF Distinct
<1>5. ASSUME NEW i \in 1 .. n
      PROVE  s[i] \in Elements(s) /\ s[i] \notin K
  <2>1. \A j \in n + 1 .. Len(s) : j \in 1 .. Len(s) /\ j # i
    BY <1>1
  <2> QED BY <1>3, <2>1 DEF Elements, Distinct
<1>6. ASSUME NEW j \in 1 .. Len(s), s[j] \notin K
      PROVE  s[j] \in Elements(r)
  <2>1. j \in 1 .. n
    BY <1>1, <1>6
  <2> QED BY <1>2, <2>1 DEF Elements
<1>7. Elements(r) = Elements(s) \ K
  BY <1>2, <1>5, <1>6 DEF Elements
<1> QED BY <1>2, <1>4, <1>7 DEF r

(* A list without repetition is as long as its elements are many.          *)
LEMMA DistinctCount ==
    ASSUME NEW T, NEW s \in Seq(T), Distinct(s)
    PROVE  IsFiniteSet(Elements(s)) /\ Cardinality(Elements(s)) = Len(s)
<1>1. Len(s) \in Nat /\ DOMAIN s = 1 .. Len(s)
  BY LenProperties
<1> DEFINE f == [i \in 1 .. Len(s) |-> s[i]]
<1>2. f \in Bijection(1 .. Len(s), Elements(s))
  <2>1. f \in [1 .. Len(s) -> Elements(s)] /\ \A i \in 1 .. Len(s) : f[i] = s[i]
    BY DEF Elements
  <2> HIDE DEF f
  <2>2. \A i, j \in 1 .. Len(s) : f[i] = f[j] => i = j
    BY <2>1 DEF Distinct
  <2>3. \A x \in Elements(s) : \E i \in 1 .. Len(s) : f[i] = x
    BY <2>1 DEF Elements
  <2> QED BY <2>1, <2>2, <2>3 DEF Bijection, Injection, IsInjective, Surjection
<1>3. ExistsBijection(1 .. Len(s), Elements(s))
  BY <1>2 DEF ExistsBijection
<1>4. IsFiniteSet(1 .. Len(s)) /\ Cardinality(1 .. Len(s)) = Len(s)
  <2>1. 1 \in Int /\ Len(s) \in Int
    BY <1>1
  <2>2. IsFiniteSet(1 .. Len(s)) /\ Cardinality(1 .. Len(s)) = IF 1 > Len(s) THEN 0 ELSE Len(s) - 1 + 1
    BY <2>1, FS_Interval
  <2> QED BY <1>1, <2>2
<1> QED BY <1>3, <1>4, FS_Bijection

(* Moving an element of a list to the front keeps its elements and its     *)
(* length.                                                                 *)
LEMMA ToFrontIs ==
    ASSUME NEW T, NEW s \in Seq(T), Distinct(s), NEW c \in T, NEW S, S = T \ {c}
    PROVE  /\ <<c>> \o OnlyIn(s, S) \in Seq(T)
           /\ Distinct(<<c>> \o OnlyIn(s, S))
           /\ Elements(<<c>> \o OnlyIn(s, S)) = Elements(s) \cup {c}
           /\ Len(<<c>> \o OnlyIn(s, S)) = IF c \in Elements(s) THEN Len(s) ELSE Len(s) + 1
<1> DEFINE o == OnlyIn(s, S)
           r == <<c>> \o o
<1>1. /\ o \in Seq(T) /\ Distinct(o) /\ Elements(o) = Elements(s) \cap (T \ {c})
  BY OnlyInIs
<1>2. \A x \in Elements(s) : x \in T
  BY ElementOfSeq DEF Elements
<1>3. c \notin Elements(o) /\ Elements(s) \cup {c} = Elements(o) \cup {c}
  BY <1>1, <1>2
<1> HIDE DEF o
<1>4. r \in Seq(T) /\ Distinct(r) /\ Elements(r) = Elements(s) \cup {c}
  <2>1. r \in Seq(T) /\ Distinct(r) /\ Elements(r) = Elements(o) \cup {c}
    BY <1>1, <1>3, PrependIs
  <2> QED BY <1>3, <2>1
<1> HIDE DEF r
<1>5. Cardinality(Elements(r)) = Len(r)
  BY <1>4, DistinctCount
<1>6. Cardinality(Elements(s)) = Len(s) /\ IsFiniteSet(Elements(s))
  BY DistinctCount
<1>7. Cardinality(Elements(s) \cup {c}) = IF c \in Elements(s) THEN Len(s) ELSE Len(s) + 1
  BY <1>6, FS_AddElement
<1>8. Len(r) = IF c \in Elements(s) THEN Len(s) ELSE Len(s) + 1
  BY <1>4, <1>5, <1>7
<1> QED BY <1>4, <1>8 DEF r, o

(* A set of numbers that is not empty has a least one.                     *)
LEMMA LeastExists ==
    ASSUME NEW S \in SUBSET Nat, S # {}
    PROVE  \E x \in S : \A y \in S : x <= y
<1> DEFINE Has == \E x \in S : \A y \in S : x <= y
<1>1. PICK n \in S : TRUE
  OBVIOUS
<1>2. n \in Nat
  OBVIOUS
<1> DEFINE G == {m \in 0 .. n : (\E x \in S : x <= m) => Has}
<1>3. 0 \in G
  <2>1. ASSUME NEW x \in S, x <= 0
        PROVE  Has
    <3>1. \A y \in S : x <= y
      BY <2>1
    <3> QED BY <3>1
  <2>2. 0 \in 0 .. n
    BY <1>2
  <2> QED BY <2>1, <2>2
<1>4. ASSUME NEW m \in G, m < n
      PROVE  m + 1 \in G
  <2>1. m \in Nat /\ m + 1 \in 0 .. n
    BY <1>2, <1>4
  <2>2. ASSUME NEW x \in S, x <= m + 1
        PROVE  Has
    <3>1. CASE \E y \in S : y <= m
      BY <1>4, <3>1
    <3>2. CASE \A y \in S : ~ (y <= m)
      <4>1. \A y \in S : x <= y
        BY <2>1, <2>2, <3>2
      <4> QED BY <4>1
    <3> QED BY <3>1, <3>2
  <2> QED BY <2>1, <2>2
<1>5. n \in G
  <2>1. G \in SUBSET (0 .. n) /\ \A m \in G : m < n => m + 1 \in G
    BY <1>4
  <2> HIDE DEF G
  <2> QED BY <1>2, <1>3, <2>1, FiniteInduction
<1>6. Has
  BY <1>2, <1>5
<1> QED BY <1>6
-----------------------------------------------------------------------------
(* Sums.  Functions whose values over a set are numbers.                   *)
Numbers(f, S) == IsFiniteSet(S) /\ \A k \in S : f[k] \in Nat

(* The pairs an element stands for are as many as its number.              *)
LEMMA UnitsOfOne ==
    ASSUME NEW k, NEW n \in Nat
    PROVE  IsFiniteSet({k} \X (1 .. n)) /\ Cardinality({k} \X (1 .. n)) = n
<1>1. IsFiniteSet({k}) /\ Cardinality({k}) = 1
  BY FS_Singleton
<1>2. IsFiniteSet(1 .. n) /\ Cardinality(1 .. n) = n
  <2>1. 1 \in Int /\ n \in Int
    OBVIOUS
  <2>2. IsFiniteSet(1 .. n) /\ Cardinality(1 .. n) = IF 1 > n THEN 0 ELSE n - 1 + 1
    BY <2>1, FS_Interval
  <2> QED BY <2>2
<1>3. IsFiniteSet({k} \X (1 .. n)) /\ Cardinality({k} \X (1 .. n)) = Cardinality({k}) * Cardinality(1 .. n)
  BY <1>1, <1>2, FS_Product
<1> QED BY <1>1, <1>2, <1>3

(* The pairs of a finite set are finitely many.                            *)
LEMMA UnitsFinite ==
    ASSUME NEW f, NEW S, Numbers(f, S)
    PROVE  IsFiniteSet(Units(f, S))
<1> DEFINE U == {{k} \X (1 .. f[k]) : k \in S}
           h == [k \in S |-> {k} \X (1 .. f[k])]
<1>1. h \in Surjection(S, U)
  <2>1. h \in [S -> U] /\ \A k \in S : h[k] = {k} \X (1 .. f[k])
    OBVIOUS
  <2>2. \A u \in U : \E k \in S : h[k] = u
    OBVIOUS
  <2> QED BY <2>1, <2>2 DEF Surjection
<1>2. \A u \in U : IsFiniteSet(u)
  <2>1. \A k \in S : IsFiniteSet({k} \X (1 .. f[k]))
    <3>1. TAKE k \in S
    <3>2. f[k] \in Nat
      BY DEF Numbers
    <3> QED BY <3>2, UnitsOfOne
  <2> QED BY <2>1
<1> HIDE DEF U, h
<1>3. IsFiniteSet(U)
  BY <1>1, FS_Surjection DEF Numbers
<1>4. IsFiniteSet(UNION U)
  BY <1>2, <1>3, FS_UNION
<1> QED BY <1>4 DEF Units, U

(* A sum is a number, and that of nothing is 0.                            *)
LEMMA SumType ==
    ASSUME NEW f, NEW S, Numbers(f, S)
    PROVE  SumOver(f, S) \in Nat
BY UnitsFinite, FS_CardinalityType DEF SumOver

(* A sum over nothing.                                                     *)
LEMMA SumOfNone ==
    ASSUME NEW f
    PROVE  SumOver(f, {}) = 0
<1>1. Units(f, {}) = {}
  BY DEF Units
<1> QED BY <1>1, FS_EmptySet DEF SumOver

(* A sum depends on the values over the set alone.                         *)
LEMMA SumSame ==
    ASSUME NEW f, NEW g, NEW S, \A k \in S : f[k] = g[k]
    PROVE  SumOver(f, S) = SumOver(g, S)
<1>1. {{k} \X (1 .. f[k]) : k \in S} = {{k} \X (1 .. g[k]) : k \in S}
  OBVIOUS
<1> QED BY <1>1 DEF SumOver, Units

(* An element can be taken out first, whichever it is.                     *)
LEMMA SumTakeOut ==
    ASSUME NEW f, NEW S, Numbers(f, S), NEW y \in S
    PROVE  /\ Numbers(f, S \ {y}) /\ SumOver(f, S \ {y}) \in Nat
           /\ SumOver(f, S) = f[y] + SumOver(f, S \ {y})
<1> DEFINE R == S \ {y}
           A == Units(f, R)
           B == {y} \X (1 .. f[y])
<1>1. Numbers(f, R)
  BY FS_RemoveElement DEF Numbers
<1>2. Units(f, S) = A \cup B
  <2>1. \A u : u \in Units(f, S) <=> \E k \in S : u \in {k} \X (1 .. f[k])
    BY DEF Units
  <2>2. \A u : u \in A <=> \E k \in R : u \in {k} \X (1 .. f[k])
    BY DEF Units
  <2> HIDE DEF A
  <2> QED BY <2>1, <2>2
<1>3. A \cap B = {}
  <2>1. \A u \in A : u[1] # y
    BY DEF Units
  <2> QED BY <2>1
<1>4. IsFiniteSet(A) /\ Cardinality(A) \in Nat
  BY <1>1, UnitsFinite, FS_CardinalityType
<1>5. f[y] \in Nat /\ IsFiniteSet(B) /\ Cardinality(B) = f[y]
  BY UnitsOfOne DEF Numbers
<1> HIDE DEF A, B, R
<1>6. Cardinality(A \cup B) = Cardinality(A) + Cardinality(B) - Cardinality(A \cap B)
  BY <1>4, <1>5, FS_Union
<1>7. Cardinality(A \cap B) = 0
  BY <1>3, FS_EmptySet
<1>8. Cardinality(A \cup B) = f[y] + Cardinality(A)
  BY <1>4, <1>5, <1>6, <1>7
<1> QED BY <1>1, <1>2, <1>4, <1>8 DEF SumOver, A, R
-----------------------------------------------------------------------------
(* Lists in an order, given as a set of pairs.                             *)
Ordered(s, R) == \A i, j \in 1 .. Len(s) : i < j => <<s[i], s[j]>> \in R

StrictOrder(R, T) ==
    /\ \A x, y \in T : <<x, y>> \in R => x # y /\ <<y, x>> \notin R
    /\ \A x, y, z \in T : <<x, y>> \in R /\ <<y, z>> \in R => <<x, z>> \in R
    /\ \A x, y \in T : x = y \/ <<x, y>> \in R \/ <<y, x>> \in R

(* The elements of a list in a set come in the order of the list.          *)
LEMMA WalkOrdered ==
    ASSUME NEW T, NEW s \in Seq(T), NEW S, NEW R, Ordered(s, R), NEW f, IsWalk(f, s, S, Len(s))
    PROVE  Ordered(f[Len(s)], R)
<1> DEFINE n == Len(s)
           Good(m) == /\ f[m] \in Seq(T)
                      /\ \A i \in 1 .. Len(f[m]) : \E k \in 1 .. m : f[m][i] = s[k]
                      /\ Ordered(f[m], R)
           G == {m \in 0 .. n : Good(m)}
<1>1. n \in Nat
  BY LenProperties
<1>2. 0 \in G
  <2>1. f[0] = << >> /\ 0 \in 0 .. n
    BY <1>1 DEF IsWalk
  <2>2. f[0] \in Seq(T) /\ Len(f[0]) = 0
    BY <2>1, EmptySeq
  <2>3. Good(0)
    BY <2>2 DEF Ordered
  <2> HIDE DEF Good
  <2> QED BY <2>1, <2>3
<1>3. ASSUME NEW m \in G, m < n
      PROVE  m + 1 \in G
  <2>1. /\ m \in Nat /\ m + 1 \in 0 .. n /\ m + 1 \in 1 .. n /\ (m + 1) - 1 = m /\ m + 1 # 0
        /\ Good(m)
    BY <1>1, <1>3
  <2>2. s[m + 1] \in T
    BY <2>1, ElementOfSeq
  <2>3. f[m + 1] = IF s[m + 1] \in S THEN Append(f[m], s[m + 1]) ELSE f[m]
    BY <2>1 DEF IsWalk
  <2>4. CASE s[m + 1] \notin S
    <3>1. f[m + 1] = f[m]
      BY <2>3, <2>4
    <3>2. \A k \in 1 .. m : k \in 1 .. m + 1
      BY <2>1
    <3>3. Good(m + 1)
      BY <2>1, <3>1, <3>2
    <3> QED BY <2>1, <3>3
  <2>5. CASE s[m + 1] \in S
    <3> DEFINE x == s[m + 1]
               old == f[m]
               new == f[m + 1]
    <3>1. new = Append(old, x) /\ old \in Seq(T) /\ x \in T
      BY <2>1, <2>2, <2>3, <2>5
    <3>2. (\A i \in 1 .. Len(old) : \E k \in 1 .. m : old[i] = s[k]) /\ Ordered(old, R)
      BY <2>1
    <3> HIDE DEF old, new
    <3>3. /\ new \in Seq(T) /\ Len(new) = Len(old) + 1 /\ new[Len(old) + 1] = x
          /\ \A i \in 1 .. Len(old) : new[i] = old[i]
          /\ Len(old) \in Nat
      BY <3>1, AppendProperties, LenProperties
    <3>4. \A i : i \in 1 .. Len(new) <=> i \in 1 .. Len(old) \/ i = Len(old) + 1
      BY <3>3
    <3>5. \A i \in 1 .. Len(new) : \E k \in 1 .. m + 1 : new[i] = s[k]
      <4>1. \A k \in 1 .. m : k \in 1 .. m + 1
        BY <2>1
      <4>2. m + 1 \in 1 .. m + 1
        BY <2>1
      <4> QED BY <3>2, <3>3, <3>4, <4>1, <4>2
    <3>6. \A i \in 1 .. Len(old) : <<old[i], x>> \in R
      <4>1. TAKE i \in 1 .. Len(old)
      <4>2. PICK k \in 1 .. m : old[i] = s[k]
        BY <3>2
      <4>3. k \in 1 .. Len(s) /\ m + 1 \in 1 .. Len(s) /\ k < m + 1
        BY <1>1, <2>1
      <4> QED BY <4>2, <4>3 DEF Ordered
    <3>7. ASSUME NEW i \in 1 .. Len(new), NEW j \in 1 .. Len(new), i < j
          PROVE  <<new[i], new[j]>> \in R
      <4>1. i \in 1 .. Len(old)
        BY <3>3, <3>7
      <4>2. CASE j \in 1 .. Len(old)
        BY <3>2, <3>3, <3>7, <4>1, <4>2 DEF Ordered
      <4>3. CASE j = Len(old) + 1
        BY <3>3, <3>6, <4>1, <4>3
      <4> QED BY <3>4, <4>2, <4>3
    <3>8. Good(m + 1)
      BY <3>3, <3>5, <3>7 DEF new, Ordered
    <3> QED BY <2>1, <3>8
  <2> QED BY <2>4, <2>5
<1>4. G \in SUBSET (0 .. n)
  OBVIOUS
<1> HIDE DEF G
<1>5. n \in G
  BY <1>1, <1>2, <1>3, <1>4, FiniteInduction
<1> QED BY <1>5 DEF G

(* What is left of a list in order is in order.                            *)
LEMMA OnlyInOrdered ==
    ASSUME NEW T, NEW s \in Seq(T), NEW S, NEW R, Ordered(s, R)
    PROVE  Ordered(OnlyIn(s, S), R)
<1> DEFINE F == CHOOSE f : IsWalk(f, s, S, Len(s))
<1>1. Len(s) \in Nat
  BY LenProperties
<1>2. IsWalk(F, s, S, Len(s))
  BY <1>1, WalkExists
<1>3. OnlyIn(s, S) = F[Len(s)]
  BY DEF OnlyIn, IsWalk
<1> HIDE DEF F
<1> QED BY <1>2, <1>3, WalkOrdered

(* Two lists in order, each element of the first before each of the        *)
(* second, are in order one after the other.                               *)
Precedes(a, b, R) == \A x \in Elements(a), y \in Elements(b) : <<x, y>> \in R

(* Of which the concatenation is one.                                      *)
LEMMA ConcatOrdered ==
    ASSUME NEW T, NEW a \in Seq(T), NEW b \in Seq(T), NEW R, Ordered(a, R), Ordered(b, R),
           Precedes(a, b, R)
    PROVE  /\ a \o b \in Seq(T) /\ Ordered(a \o b, R)
           /\ Elements(a \o b) = Elements(a) \cup Elements(b)
<1> DEFINE r == a \o b
           la == Len(a)
           lb == Len(b)
<1>1. la \in Nat /\ lb \in Nat
  BY LenProperties
<1>2. /\ r \in Seq(T) /\ Len(r) = la + lb
      /\ \A i \in 1 .. la + lb : r[i] = IF i <= la THEN a[i] ELSE b[i - la]
  BY ConcatProperties
<1> HIDE DEF r
<1>3. \A i \in 1 .. la : i \in 1 .. la + lb /\ r[i] = a[i]
  BY <1>1, <1>2
<1>4. \A i \in 1 .. lb : i + la \in 1 .. la + lb /\ r[i + la] = b[i]
  <2>1. TAKE i \in 1 .. lb
  <2>2. i + la \in 1 .. la + lb /\ ~ (i + la <= la) /\ (i + la) - la = i
    BY <1>1
  <2> QED BY <1>2, <2>2
<1>5. \A i \in 1 .. la + lb : \/ i \in 1 .. la
                              \/ i - la \in 1 .. lb /\ (i - la) + la = i /\ i > la
  BY <1>1
<1>6. ASSUME NEW i \in 1 .. la + lb
      PROVE  \/ i \in 1 .. la /\ r[i] = a[i] /\ r[i] \in Elements(a)
             \/ i - la \in 1 .. lb /\ i > la /\ r[i] = b[i - la] /\ r[i] \in Elements(b)
  BY <1>3, <1>4, <1>5 DEF Elements
<1>7. Elements(r) = Elements(a) \cup Elements(b)
  <2>1. Elements(r) \subseteq Elements(a) \cup Elements(b)
    BY <1>2, <1>6 DEF Elements
  <2>2. Elements(a) \subseteq Elements(r)
    BY <1>2, <1>3 DEF Elements
  <2>3. Elements(b) \subseteq Elements(r)
    BY <1>2, <1>4 DEF Elements
  <2> QED BY <2>1, <2>2, <2>3
<1>8. ASSUME NEW i \in 1 .. Len(r), NEW j \in 1 .. Len(r), i < j
      PROVE  <<r[i], r[j]>> \in R
  <2>1. i \in 1 .. la + lb /\ j \in 1 .. la + lb
    BY <1>2
  <2>2. CASE i \in 1 .. la /\ r[i] = a[i] /\ r[i] \in Elements(a)
    <3>1. CASE j \in 1 .. la /\ r[j] = a[j]
      BY <1>8, <2>2, <3>1 DEF Ordered
    <3>2. CASE r[j] \in Elements(b)
      BY <2>2, <3>2 DEF Precedes
    <3> QED BY <1>6, <2>1, <3>1, <3>2
  <2>3. CASE i - la \in 1 .. lb /\ i > la /\ r[i] = b[i - la]
    <3>1. j - la \in 1 .. lb /\ r[j] = b[j - la]
      <4>1. ~ (j \in 1 .. la)
        BY <1>1, <1>8, <2>1, <2>3
      <4> QED BY <1>6, <2>1, <4>1
    <3>2. i - la < j - la
      BY <1>1, <1>8, <2>1
    <3> QED BY <2>3, <3>1, <3>2 DEF Ordered
  <2> QED BY <1>6, <2>1, <2>2, <2>3
<1> QED BY <1>2, <1>7, <1>8 DEF Ordered, r

(* An element is put where it belongs in a list in order.                  *)
Inserted(s, e, R, T) ==
    OnlyIn(s, {x \in T : <<x, e>> \in R}) \o <<e>> \o OnlyIn(s, {x \in T : <<x, e>> \notin R})

(* A list in a strict order has no repetitions.                            *)
LEMMA OrderedIsDistinct ==
    ASSUME NEW T, NEW s \in Seq(T), NEW R, StrictOrder(R, T), Ordered(s, R)
    PROVE  Distinct(s)
<1>1. SUFFICES ASSUME NEW i \in 1 .. Len(s), NEW j \in 1 .. Len(s), s[i] = s[j], i # j
               PROVE  FALSE
  BY DEF Distinct
<1>2. s[i] \in T /\ s[j] \in T
  BY ElementOfSeq
<1>3. i < j \/ j < i
  BY <1>1, LenProperties
<1> QED BY <1>1, <1>2, <1>3 DEF Ordered, StrictOrder

(* Where it is, and what the list has then.                                *)
LEMMA InsertedIs ==
    ASSUME NEW T, NEW s \in Seq(T), NEW R, StrictOrder(R, T), Ordered(s, R), NEW e \in T, e \notin Elements(s)
    PROVE  /\ Inserted(s, e, R, T) \in Seq(T) /\ Ordered(Inserted(s, e, R, T), R)
           /\ Elements(Inserted(s, e, R, T)) = Elements(s) \cup {e}
           /\ Len(Inserted(s, e, R, T)) = Len(s) + 1
<1> DEFINE A == {x \in T : <<x, e>> \in R}
           B == {x \in T : <<x, e>> \notin R}
           a == OnlyIn(s, A)
           b == OnlyIn(s, B)
           one == <<e>>
           ae == a \o one
           r == ae \o b
<1>1. /\ a \in Seq(T) /\ Elements(a) = Elements(s) \cap A /\ Ordered(a, R)
      /\ b \in Seq(T) /\ Elements(b) = Elements(s) \cap B /\ Ordered(b, R)
  BY OnlyInIs, OnlyInOrdered
<1>2. one \in Seq(T) /\ Elements(one) = {e} /\ Ordered(one, R)
  <2>1. <<e>> \in Seq(T) /\ Len(<<e>>) = 1 /\ <<e>>[1] = e
    OBVIOUS
  <2>2. 1 .. 1 = {1}
    OBVIOUS
  <2> QED BY <2>1, <2>2 DEF Elements, Ordered
<1>3. Elements(s) \subseteq T
  BY ElementOfSeq DEF Elements
<1>4. Inserted(s, e, R, T) = r
  BY DEF Inserted
<1> HIDE DEF a, b, one
<1>5. /\ ae \in Seq(T) /\ Ordered(ae, R) /\ Elements(ae) = Elements(a) \cup {e}
  <2>1. Precedes(a, one, R)
    BY <1>1, <1>2 DEF Precedes
  <2>2. /\ ae \in Seq(T) /\ Ordered(ae, R) /\ Elements(ae) = Elements(a) \cup Elements(one)
    BY <1>1, <1>2, <2>1, ConcatOrdered
  <2> QED BY <1>2, <2>2
<1> HIDE DEF ae
<1>6. ASSUME NEW x \in Elements(ae), NEW y \in Elements(b)
      PROVE  <<x, y>> \in R
  <2>1. y \in T /\ y # e /\ <<y, e>> \notin R
    BY <1>1, <1>3
  <2>2. <<e, y>> \in R
    BY <2>1 DEF StrictOrder
  <2>3. x = e \/ (x \in T /\ <<x, e>> \in R)
    BY <1>1, <1>5
  <2> QED BY <2>1, <2>2, <2>3 DEF StrictOrder
<1>7. /\ r \in Seq(T) /\ Ordered(r, R) /\ Elements(r) = Elements(ae) \cup Elements(b)
  <2>1. Precedes(ae, b, R)
    BY <1>6 DEF Precedes
  <2> QED BY <1>1, <1>5, <2>1, ConcatOrdered
<1> HIDE DEF r
<1>8. Elements(r) = Elements(s) \cup {e}
  BY <1>1, <1>3, <1>5, <1>7
<1>9. Distinct(s) /\ Distinct(r)
  BY <1>7, OrderedIsDistinct
<1>10. /\ IsFiniteSet(Elements(s)) /\ Cardinality(Elements(s)) = Len(s)
       /\ Cardinality(Elements(s) \cup {e}) = Len(r)
  <2>1. IsFiniteSet(Elements(s)) /\ Cardinality(Elements(s)) = Len(s)
    BY <1>9, DistinctCount
  <2>2. Cardinality(Elements(r)) = Len(r)
    BY <1>7, <1>9, DistinctCount
  <2> QED BY <1>8, <2>1, <2>2
<1>11. Len(r) = Len(s) + 1
  BY <1>10, FS_AddElement
<1> QED BY <1>4, <1>7, <1>8, <1>11

(* The n elements of U that come first, in order.                          *)
IsTop(s, U, n, R) ==
    /\ Ordered(s, R) /\ Elements(s) \subseteq U
    /\ Len(s) = IF Cardinality(U) < n THEN Cardinality(U) ELSE n
    /\ \A x \in Elements(s), y \in U \ Elements(s) : <<x, y>> \in R

(* A list of the first n stays one when an element is inserted and what is *)
(* too long is cut: the one that is cut off comes after all the others.    *)
LEMMA InsertKeepsTop ==
    ASSUME NEW T, NEW s \in Seq(T), NEW R, StrictOrder(R, T), NEW U \in SUBSET T, IsFiniteSet(U),
           NEW n \in Nat \ {0}, IsTop(s, U, n, R), NEW e \in T \ U,
           NEW all, all = Inserted(s, e, R, T), NEW l, l = IF Len(all) < n THEN Len(all) ELSE n
    PROVE  /\ SubSeq(all, 1, l) \in Seq(T)
           /\ IsTop(SubSeq(all, 1, l), U \cup {e}, n, R)
<1>1. e \notin Elements(s)
  BY DEF IsTop
<1>2. /\ all \in Seq(T) /\ Ordered(all, R) /\ Elements(all) = Elements(s) \cup {e} /\ Len(all) = Len(s) + 1
  BY <1>1, InsertedIs DEF IsTop
<1>3. Distinct(all) /\ Distinct(s)
  BY <1>2, OrderedIsDistinct DEF IsTop
<1>4. /\ Len(s) \in Nat /\ Cardinality(U) \in Nat /\ Cardinality(U \cup {e}) = Cardinality(U) + 1
      /\ l \in 0 .. Len(all)
  BY <1>2, LenProperties, FS_CardinalityType, FS_AddElement
<1> DEFINE r == SubSeq(all, 1, l)
<1>5. /\ r \in Seq(T) /\ Len(r) = l
      /\ Elements(r) = Elements(all) \ {all[i] : i \in l + 1 .. Len(all)}
  BY <1>2, <1>3, <1>4, FrontIs
<1>6. \A i \in 1 .. l : r[i] = all[i] /\ i \in 1 .. Len(all)
  BY <1>2, <1>4
<1> HIDE DEF r
<1>7. Ordered(r, R)
  BY <1>2, <1>5, <1>6 DEF Ordered
<1>8. Elements(r) \subseteq U \cup {e}
  BY <1>2, <1>5 DEF IsTop
<1>9. Len(r) = IF Cardinality(U \cup {e}) < n THEN Cardinality(U \cup {e}) ELSE n
  BY <1>2, <1>4, <1>5 DEF IsTop
<1>10. ASSUME NEW x \in Elements(r), NEW y \in (U \cup {e}) \ Elements(r)
       PROVE  <<x, y>> \in R
  <2>1. CASE Len(s) < n
    <3>1. Cardinality(U) = Len(s)
      BY <1>4, <2>1 DEF IsTop
    <3>2. Elements(s) = U
      <4>1. Cardinality(Elements(s)) = Cardinality(U) /\ Elements(s) \in SUBSET U
        BY <1>3, <3>1, DistinctCount DEF IsTop
      <4> QED BY <4>1, FS_Subset
    <3>3. l = Len(all) /\ l + 1 .. Len(all) = {}
      BY <1>2, <1>4, <2>1
    <3>4. Elements(r) = U \cup {e}
      BY <1>2, <1>5, <3>2, <3>3
    <3> QED BY <1>10, <3>4
  <2>2. CASE Len(s) = n
    <3>1. l = n /\ Len(all) = n + 1 /\ l + 1 .. Len(all) = {n + 1} /\ n + 1 \in 1 .. Len(all)
      BY <1>2, <2>2
    <3> DEFINE z == all[n + 1]
    <3>2. Elements(r) = Elements(all) \ {z}
      BY <1>5, <3>1
    <3>3. ASSUME NEW v \in Elements(r)
          PROVE  v \in T /\ <<v, z>> \in R
      <4>1. PICK i \in 1 .. l : v = all[i]
        BY <1>5, <1>6 DEF Elements
      <4>2. i \in 1 .. Len(all) /\ i < n + 1
        BY <1>6, <3>1
      <4>3. <<all[i], all[n + 1]>> \in R
        BY <1>2, <3>1, <4>2 DEF Ordered
      <4>4. v \in T
        BY <1>2, <4>1, <4>2, ElementOfSeq
      <4> QED BY <4>1, <4>3, <4>4
    <3>4. z \in T /\ z \in Elements(all)
      BY <1>2, <3>1, ElementOfSeq DEF Elements
    <3> HIDE DEF z
    <3>5. CASE y = z
      BY <3>3, <3>5
    <3>6. CASE y # z
      <4>1. y \notin Elements(all) /\ y \in U /\ y \in T /\ y \notin Elements(s)
        BY <1>2, <1>10, <3>2, <3>6
      <4>2. CASE x \in Elements(s)
        BY <4>1, <4>2 DEF IsTop
      <4>3. CASE x = e
        <5>1. z # e
          BY <1>10, <3>2, <4>3
        <5>2. z \in Elements(s)
          BY <1>2, <3>4, <5>1
        <5>3. <<z, y>> \in R
          BY <4>1, <5>2 DEF IsTop
        <5> QED BY <3>3, <3>4, <4>1, <5>3 DEF StrictOrder
      <4> QED BY <1>2, <3>2, <4>2, <4>3
    <3> QED BY <3>5, <3>6
  <2> QED BY <1>4, <2>1, <2>2 DEF IsTop
<1> QED BY <1>5, <1>7, <1>8, <1>9, <1>10 DEF IsTop, r
-----------------------------------------------------------------------------
(* The prefixes of a list.                                                 *)
PrefixesOf(w, m) == {SubSeq(w, 1, d) : d \in 0 .. m}

(* A prefix is a list, of the length asked for.                            *)
LEMMA PrefixIs ==
    ASSUME NEW T, NEW w \in Seq(T), NEW d \in 0 .. Len(w)
    PROVE  /\ SubSeq(w, 1, d) \in Seq(T) /\ Len(SubSeq(w, 1, d)) = d
           /\ \A i \in 1 .. d : SubSeq(w, 1, d)[i] = w[i]
<1>1. Len(w) \in Nat
  BY LenProperties
<1> QED BY <1>1, SMTT(30)

(* A prefix of a prefix is one.                                            *)
LEMMA PrefixOfPrefix ==
    ASSUME NEW T, NEW w \in Seq(T), NEW d \in 0 .. Len(w), NEW e \in 0 .. d
    PROVE  SubSeq(SubSeq(w, 1, d), 1, e) = SubSeq(w, 1, e)
<1> DEFINE q == SubSeq(w, 1, d)
           p == SubSeq(w, 1, e)
           r == SubSeq(q, 1, e)
<1>1. Len(w) \in Nat /\ d \in Nat /\ e \in 0 .. Len(w)
  BY LenProperties
<1>2. q \in Seq(T) /\ Len(q) = d /\ \A i \in 1 .. d : q[i] = w[i]
  BY PrefixIs
<1>3. p \in Seq(T) /\ Len(p) = e /\ \A i \in 1 .. e : p[i] = w[i]
  BY <1>1, PrefixIs
<1> HIDE DEF q, p
<1>4. r \in Seq(T) /\ Len(r) = e /\ \A i \in 1 .. e : r[i] = q[i]
  BY <1>2, PrefixIs
<1> HIDE DEF r
<1>5. \A i \in 1 .. e : r[i] = p[i]
  BY <1>1, <1>2, <1>3, <1>4
<1>6. r = p
  BY <1>3, <1>4, <1>5, SeqEqual
<1> QED BY <1>6 DEF r, p, q

(* Finitely many, each but the empty one with another before it.           *)
LEMMA PrefixesAre ==
    ASSUME NEW T, NEW w \in Seq(T), NEW m \in 0 .. Len(w)
    PROVE  /\ IsFiniteSet(PrefixesOf(w, m)) /\ PrefixesOf(w, m) \subseteq Seq(T) /\ << >> \in PrefixesOf(w, m)
           /\ \A q \in PrefixesOf(w, m) :
                 /\ Len(q) \in 0 .. m /\ q = SubSeq(w, 1, Len(q))
                 /\ Len(q) > 0 => SubSeq(q, 1, Len(q) - 1) \in PrefixesOf(w, m)
<1> DEFINE K == PrefixesOf(w, m)
           h == [d \in 0 .. m |-> SubSeq(w, 1, d)]
<1>1. Len(w) \in Nat /\ m \in Nat /\ \A d \in 0 .. m : d \in 0 .. Len(w)
  BY LenProperties
<1>2. IsFiniteSet(K)
  <2>1. h \in Surjection(0 .. m, K)
    <3>1. h \in [0 .. m -> K] /\ \A q \in K : \E d \in 0 .. m : h[d] = q
      BY DEF PrefixesOf
    <3> QED BY <3>1 DEF Surjection
  <2>2. IsFiniteSet(0 .. m)
    BY <1>1, FS_Interval
  <2> HIDE DEF K, h
  <2> QED BY <2>1, <2>2, FS_Surjection
<1>3. << >> \in K
  <2>1. SubSeq(w, 1, 0) = << >>
    BY SubSeqEmpty
  <2> QED BY <1>1, <2>1 DEF PrefixesOf
<1>4. ASSUME NEW q \in K
      PROVE  /\ q \in Seq(T) /\ Len(q) \in 0 .. m /\ q = SubSeq(w, 1, Len(q))
             /\ Len(q) > 0 => SubSeq(q, 1, Len(q) - 1) \in K
  <2>1. PICK d \in 0 .. m : q = SubSeq(w, 1, d)
    BY DEF PrefixesOf
  <2>2. q \in Seq(T) /\ Len(q) = d
    BY <1>1, <2>1, PrefixIs
  <2>3. ASSUME d > 0
        PROVE  SubSeq(q, 1, d - 1) \in K
    <3>1. d \in 0 .. Len(w) /\ d - 1 \in 0 .. d /\ d - 1 \in 0 .. m
      BY <1>1, <2>3
    <3>2. SubSeq(q, 1, d - 1) = SubSeq(w, 1, d - 1)
      BY <2>1, <3>1, PrefixOfPrefix
    <3> QED BY <3>1, <3>2 DEF PrefixesOf
  <2> QED BY <2>1, <2>2, <2>3
<1> QED BY <1>2, <1>3, <1>4
-----------------------------------------------------------------------------
(* Induction over the subsets of a finite set, for a set of subsets: if    *)
(* the empty one is in it, and each that is in it with one element more,   *)
(* then so is the whole.                                                   *)
LEMMA SetInduction ==
    ASSUME NEW S, IsFiniteSet(S), NEW Q \in SUBSET (SUBSET S), {} \in Q,
           \A T \in Q : \A x \in S \ T : T \cup {x} \in Q
    PROVE  S \in Q
<1> DEFINE n == Cardinality(S)
           G == {k \in 0 .. n : \A T \in SUBSET S : Cardinality(T) = k => T \in Q}
<1>1. n \in Nat
  BY FS_CardinalityType
<1>2. 0 \in G
  <2>1. \A T \in SUBSET S : Cardinality(T) = 0 => T = {}
    BY FS_Subset, FS_EmptySet
  <2> QED BY <1>1, <2>1
<1>3. ASSUME NEW k \in G, k < n
      PROVE  k + 1 \in G
  <2>1. k \in Nat /\ k + 1 \in 0 .. n
    BY <1>1, <1>3
  <2>2. ASSUME NEW T \in SUBSET S, Cardinality(T) = k + 1
        PROVE  T \in Q
    <3>1. IsFiniteSet(T)
      BY FS_Subset
    <3>2. T # {}
      BY <2>1, <2>2, <3>1, FS_EmptySet
    <3>3. PICK x \in T : TRUE
      BY <3>2
    <3> DEFINE R == T \ {x}
    <3>4. Cardinality(R) = Cardinality(T) - 1
      BY <3>1, FS_RemoveElement
    <3>5. R \in SUBSET S /\ x \in S \ R /\ R \cup {x} = T
      OBVIOUS
    <3> HIDE DEF R
    <3>6. R \in Q
      BY <2>1, <2>2, <3>4, <3>5
    <3>7. R \cup {x} \in Q
      BY <3>5, <3>6
    <3> QED BY <3>5, <3>7
  <2> QED BY <2>1, <2>2
<1>4. G \in SUBSET (0 .. n)
  OBVIOUS
<1> HIDE DEF G
<1>5. n \in G
  BY <1>1, <1>2, <1>3, <1>4, FiniteInduction
<1> QED BY <1>5 DEF G

(* A function can be applied again and again.                              *)
IsRun(f, S, a, h, n) == f \in [0 .. n -> S] /\ f[0] = a /\ \A k \in 1 .. n : f[k] = h[f[k - 1]]

(* From every element, as often as one likes.                              *)
LEMMA IterExists ==
    ASSUME NEW S, NEW a \in S, NEW h \in [S -> S], NEW n \in Nat
    PROVE  \E f : IsRun(f, S, a, h, n)
<1> DEFINE Runs(m) == \E f \in [0 .. m -> S] : f[0] = a /\ \A k \in 1 .. m : f[k] = h[f[k - 1]]
           G == {m \in 0 .. n : Runs(m)}
<1>1. 0 \in G
  <2> DEFINE f == [i \in 0 .. 0 |-> a]
  <2>1. f \in [0 .. 0 -> S] /\ f[0] = a /\ \A k \in 1 .. 0 : f[k] = h[f[k - 1]]
    OBVIOUS
  <2>2. Runs(0)
    BY <2>1
  <2> HIDE DEF Runs
  <2> QED BY <2>2
<1>2. ASSUME NEW m \in G, m < n
      PROVE  m + 1 \in G
  <2>1. m \in Nat /\ m + 1 \in 0 .. n /\ Runs(m)
    BY <1>2
  <2>2. PICK f \in [0 .. m -> S] : f[0] = a /\ \A k \in 1 .. m : f[k] = h[f[k - 1]]
    BY <2>1
  <2> DEFINE g == [i \in 0 .. m + 1 |-> IF i = m + 1 THEN h[f[m]] ELSE f[i]]
  <2>3. g \in [0 .. m + 1 -> S]
    <3>1. ASSUME NEW i \in 0 .. m + 1
          PROVE  (IF i = m + 1 THEN h[f[m]] ELSE f[i]) \in S
      <4>1. i = m + 1 \/ i \in 0 .. m
        BY <2>1
      <4>2. m \in 0 .. m
        BY <2>1
      <4> QED BY <4>1, <4>2
    <3> QED BY <3>1
  <2>4. \A i \in 0 .. m : g[i] = f[i] /\ i \in 0 .. m + 1
    BY <2>1
  <2>5. g[m + 1] = h[f[m]]
    BY <2>1
  <2> HIDE DEF g
  <2>6. g[0] = a
    BY <2>1, <2>2, <2>4
  <2>7. ASSUME NEW k \in 1 .. m + 1
        PROVE  g[k] = h[g[k - 1]]
    <3>1. k - 1 \in 0 .. m
      BY <2>1
    <3>2. CASE k = m + 1
      BY <2>1, <2>4, <2>5, <3>1, <3>2
    <3>3. CASE k \in 1 .. m
      BY <2>1, <2>2, <2>4, <3>1, <3>3
    <3> QED BY <2>1, <3>2, <3>3
  <2>8. Runs(m + 1)
    BY <2>3, <2>6, <2>7
  <2> HIDE DEF Runs
  <2> QED BY <2>1, <2>8
<1>3. G \in SUBSET (0 .. n)
  OBVIOUS
<1> HIDE DEF G
<1>4. n \in G
  BY <1>1, <1>2, <1>3, FiniteInduction
<1> QED BY <1>4 DEF G, IsRun

(* A finite set that is not empty has a first element.                     *)
LEMMA FirstExists ==
    ASSUME NEW S, IsFiniteSet(S), S # {}, NEW R, StrictOrder(R, S)
    PROVE  \E x \in S : \A y \in S \ {x} : <<x, y>> \in R
<1> DEFINE Has(T) == T # {} => \E x \in T : \A y \in T \ {x} : <<x, y>> \in R
           Q == {T \in SUBSET S : Has(T)}
<1>1. {} \in Q
  OBVIOUS
<1>2. ASSUME NEW T \in Q, NEW z \in S \ T
      PROVE  T \cup {z} \in Q
  <2>1. CASE T = {}
    <3>1. z \in T \cup {z} /\ \A y \in (T \cup {z}) \ {z} : <<z, y>> \in R
      BY <2>1
    <3> QED BY <3>1
  <2>2. CASE T # {}
    <3>1. PICK x \in T : \A y \in T \ {x} : <<x, y>> \in R
      BY <2>2
    <3>2. CASE <<x, z>> \in R
      <4>1. x \in T \cup {z} /\ \A y \in (T \cup {z}) \ {x} : <<x, y>> \in R
        BY <3>1, <3>2
      <4> QED BY <4>1
    <3>3. CASE <<z, x>> \in R
      <4>1. ASSUME NEW y \in T
            PROVE  <<z, y>> \in R
        <5>1. x \in S /\ y \in S /\ z \in S
          OBVIOUS
        <5> QED BY <3>1, <3>3, <5>1 DEF StrictOrder
      <4>2. z \in T \cup {z} /\ \A y \in (T \cup {z}) \ {z} : <<z, y>> \in R
        BY <4>1
      <4> QED BY <4>2
    <3> QED BY <3>2, <3>3 DEF StrictOrder
  <2> QED BY <2>1, <2>2
<1>3. Q \in SUBSET (SUBSET S)
  OBVIOUS
<1> HIDE DEF Q
<1>4. S \in Q
  BY <1>1, <1>2, <1>3, SetInduction
<1> QED BY <1>4 DEF Q

(* Functions that differ at one element, or at two.                        *)
LEMMA SumChange ==
    ASSUME NEW S, NEW f, NEW g, Numbers(f, S), Numbers(g, S), NEW y \in S, \A x \in S \ {y} : f[x] = g[x]
    PROVE  SumOver(g, S) + f[y] = SumOver(f, S) + g[y]
<1>1. SumOver(f, S \ {y}) = SumOver(g, S \ {y})
  BY SumSame
<1>2. /\ SumOver(f, S) = f[y] + SumOver(f, S \ {y}) /\ SumOver(f, S \ {y}) \in Nat
      /\ SumOver(g, S) = g[y] + SumOver(g, S \ {y}) /\ f[y] \in Nat /\ g[y] \in Nat
  BY SumTakeOut DEF Numbers
<1> QED BY <1>1, <1>2

(* At two of them.                                                         *)
LEMMA SumChanges ==
    ASSUME NEW S, NEW f, NEW g, Numbers(f, S), Numbers(g, S), NEW y \in S, NEW z \in S, y # z,
           \A x \in S \ {y, z} : f[x] = g[x]
    PROVE  SumOver(g, S) + f[y] + f[z] = SumOver(f, S) + g[y] + g[z]
<1> DEFINE R == S \ {y}
<1>1. SumOver(f, S) = f[y] + SumOver(f, R) /\ SumOver(f, R) \in Nat
  BY SumTakeOut
<1>2. SumOver(g, S) = g[y] + SumOver(g, R) /\ SumOver(g, R) \in Nat
  BY SumTakeOut
<1>3. f[y] \in Nat /\ g[y] \in Nat /\ f[z] \in Nat /\ g[z] \in Nat
  BY DEF Numbers
<1>4. R \subseteq S /\ z \in R /\ \A x \in R \ {z} : f[x] = g[x]
  OBVIOUS
<1> HIDE DEF R
<1>5. Numbers(f, R) /\ Numbers(g, R)
  BY <1>4, FS_Subset DEF Numbers
<1>6. SumOver(g, R) + f[z] = SumOver(f, R) + g[z]
  BY <1>4, <1>5, SumChange
<1> QED BY <1>1, <1>2, <1>3, <1>6

(* Sums of functions that add up to the same everywhere add up to the      *)
(* same.                                                                   *)
LEMMA SumsAddUp ==
    ASSUME NEW S, NEW a, NEW b, NEW c, NEW d,
           Numbers(a, S), Numbers(b, S), Numbers(c, S), Numbers(d, S), \A x \in S : a[x] + b[x] = c[x] + d[x]
    PROVE  SumOver(a, S) + SumOver(b, S) = SumOver(c, S) + SumOver(d, S)
<1> DEFINE Good(T) == SumOver(a, T) + SumOver(b, T) = SumOver(c, T) + SumOver(d, T)
           Q == {T \in SUBSET S : Good(T)}
<1>1. {} \in Q
  BY SumOfNone
<1>2. ASSUME NEW T \in Q, NEW x \in S \ T
      PROVE  T \cup {x} \in Q
  <2> DEFINE U == T \cup {x}
  <2>1. U \in SUBSET S /\ x \in U /\ U \ {x} = T
    OBVIOUS
  <2>2. IsFiniteSet(U)
    BY <2>1, FS_Subset DEF Numbers
  <2>3. Numbers(a, U) /\ Numbers(b, U) /\ Numbers(c, U) /\ Numbers(d, U)
    BY <2>1, <2>2 DEF Numbers
  <2> HIDE DEF U
  <2>4. /\ SumOver(a, U) = a[x] + SumOver(a, U \ {x}) /\ SumOver(a, U \ {x}) \in Nat
        /\ SumOver(b, U) = b[x] + SumOver(b, U \ {x}) /\ SumOver(b, U \ {x}) \in Nat
        /\ SumOver(c, U) = c[x] + SumOver(c, U \ {x}) /\ SumOver(c, U \ {x}) \in Nat
        /\ SumOver(d, U) = d[x] + SumOver(d, U \ {x}) /\ SumOver(d, U \ {x}) \in Nat
    BY <2>1, <2>3, SumTakeOut
  <2>5. /\ SumOver(a, U \ {x}) = SumOver(a, T) /\ SumOver(b, U \ {x}) = SumOver(b, T)
        /\ SumOver(c, U \ {x}) = SumOver(c, T) /\ SumOver(d, U \ {x}) = SumOver(d, T)
    BY <2>1, Zenon
  <2>6. a[x] \in Nat /\ b[x] \in Nat /\ c[x] \in Nat /\ d[x] \in Nat /\ a[x] + b[x] = c[x] + d[x]
    BY DEF Numbers
  <2>7. Good(T)
    OBVIOUS
  <2>8. Good(U)
    BY <2>4, <2>5, <2>6, <2>7
  <2> QED BY <2>1, <2>8 DEF U
<1>3. Q \in SUBSET (SUBSET S) /\ IsFiniteSet(S)
  BY DEF Numbers
<1> HIDE DEF Q
<1>4. S \in Q
  BY <1>1, <1>2, <1>3, SetInduction
<1> QED BY <1>4 DEF Q

(* A sum of no smaller values, or over more, is no smaller.                *)
LEMMA SumGrowsWith ==
    ASSUME NEW S, NEW R \in SUBSET S, NEW a, NEW b, Numbers(b, S),
           \A x \in R : a[x] \in Nat /\ a[x] <= b[x]
    PROVE  SumOver(a, R) <= SumOver(b, S)
<1>1. \A x \in R : b[x] \in Nat
  BY DEF Numbers
<1>2. \A x \in R : 1 .. a[x] \subseteq 1 .. b[x]
  BY <1>1
<1>3. Units(a, R) \subseteq Units(b, S)
  <2>1. ASSUME NEW u \in Units(a, R)
        PROVE  u \in Units(b, S)
    <3>1. PICK x \in R : u \in {x} \X (1 .. a[x])
      BY DEF Units
    <3>2. u \in {x} \X (1 .. b[x])
      BY <1>2, <3>1
    <3> QED BY <3>2 DEF Units
  <2> QED BY <2>1
<1> QED BY <1>3, UnitsFinite, FS_Subset DEF SumOver

(* A sum of values that are all at least v, and one of them more.          *)
LEMMA SumExceeds ==
    ASSUME NEW S, NEW a, Numbers(a, S), NEW v \in Nat, \A x \in S : a[x] >= v,
           NEW y \in S, a[y] > v
    PROVE  SumOver(a, S) > Cardinality(S) * v
<1> DEFINE P == S \X (1 .. v)
           A == Units(a, S)
<1>1. \A x \in S : a[x] \in Nat
  BY DEF Numbers
<1>2. P \subseteq A
  <2>1. ASSUME NEW x \in S, NEW i \in 1 .. v
        PROVE  <<x, i>> \in A
    <3>1. i \in 1 .. a[x]
      BY <1>1
    <3> QED BY <3>1 DEF Units
  <2> QED BY <2>1
<1>3. <<y, v + 1>> \in A /\ <<y, v + 1>> \notin P
  <2>1. v + 1 \in 1 .. a[y] /\ v + 1 \notin 1 .. v
    BY <1>1
  <2> QED BY <2>1 DEF Units
<1>4. IsFiniteSet(A)
  BY UnitsFinite
<1>5. Cardinality(P) = Cardinality(S) * v
  <2>1. IsFiniteSet(1 .. v) /\ Cardinality(1 .. v) = v
    <3>1. 1 \in Int /\ v \in Int
      OBVIOUS
    <3>2. IsFiniteSet(1 .. v) /\ Cardinality(1 .. v) = IF 1 > v THEN 0 ELSE v - 1 + 1
      BY <3>1, FS_Interval
    <3> QED BY <3>2
  <2>2. Cardinality(P) = Cardinality(S) * Cardinality(1 .. v)
    BY <2>1, FS_Product DEF Numbers
  <2> QED BY <2>1, <2>2
<1> HIDE DEF P, A
<1>6. IsFiniteSet(P) /\ Cardinality(P) <= Cardinality(A) /\ P # A
      /\ Cardinality(P) \in Nat /\ Cardinality(A) \in Nat
  BY <1>2, <1>3, <1>4, FS_Subset, FS_CardinalityType
<1>7. Cardinality(A) # Cardinality(P)
  BY <1>2, <1>4, <1>6, FS_Subset
<1>8. Cardinality(P) < Cardinality(A)
  BY <1>6, <1>7
<1> QED BY <1>5, <1>8 DEF SumOver, A

(* The elements of sets that have none in common are as many as the sum of *)
(* their numbers.                                                          *)
AddsUpTo(a, S, X) ==
    /\ Numbers(a, S)
    /\ IsFiniteSet(UNION {X[x] : x \in S}) /\ SumOver(a, S) = Cardinality(UNION {X[x] : x \in S})

(* Their union is as large.                                                *)
LEMMA SumOfSets ==
    ASSUME NEW S, IsFiniteSet(S), NEW X, \A x \in S : IsFiniteSet(X[x]),
           \A x, y \in S : x # y => X[x] \cap X[y] = {},
           NEW a, \A x \in S : a[x] = Cardinality(X[x])
    PROVE  AddsUpTo(a, S, X)
<1>1. Numbers(a, S)
  BY FS_CardinalityType DEF Numbers
<1> DEFINE All(T) == UNION {X[x] : x \in T}
           Good(T) == IsFiniteSet(All(T)) /\ SumOver(a, T) = Cardinality(All(T))
           Q == {T \in SUBSET S : Good(T)}
<1>2. {} \in Q
  <2>1. All({}) = {}
    OBVIOUS
  <2> HIDE DEF All
  <2> QED BY <2>1, SumOfNone, FS_EmptySet
<1>3. ASSUME NEW T \in Q, NEW x \in S \ T
      PROVE  T \cup {x} \in Q
  <2> DEFINE U == T \cup {x}
             A == All(T)
             B == X[x]
  <2>1. U \in SUBSET S /\ x \in U /\ U \ {x} = T
    OBVIOUS
  <2>2. All(U) = A \cup B /\ A \cap B = {}
    OBVIOUS
  <2>3. IsFiniteSet(A) /\ SumOver(a, T) = Cardinality(A) /\ IsFiniteSet(B) /\ a[x] = Cardinality(B)
    OBVIOUS
  <2>4. Numbers(a, U)
    BY <1>1, <2>1, FS_Subset DEF Numbers
  <2> HIDE DEF U, A, B, All
  <2>5. SumOver(a, U) = a[x] + SumOver(a, U \ {x})
    BY <2>1, <2>4, SumTakeOut
  <2>6. SumOver(a, U \ {x}) = SumOver(a, T)
    BY <2>1, Zenon
  <2>7. IsFiniteSet(A \cup B) /\ Cardinality(A \cup B) = Cardinality(A) + Cardinality(B) - Cardinality(A \cap B)
    BY <2>3, FS_Union
  <2>8. Cardinality(A \cap B) = 0 /\ Cardinality(A) \in Nat /\ Cardinality(B) \in Nat
    BY <2>2, <2>3, FS_EmptySet, FS_CardinalityType
  <2>9. Cardinality(All(U)) = Cardinality(A \cup B) /\ IsFiniteSet(All(U))
    BY <2>2, <2>7, Zenon
  <2>10. Good(U)
    BY <2>3, <2>5, <2>6, <2>7, <2>8, <2>9
  <2> QED BY <2>1, <2>10 DEF U
<1>4. Q \in SUBSET (SUBSET S)
  OBVIOUS
<1> HIDE DEF Q
<1>5. S \in Q
  BY <1>2, <1>3, <1>4, SetInduction
<1> QED BY <1>1, <1>5 DEF Q, AddsUpTo
-----------------------------------------------------------------------------
(* The places of the elements of a finite set in an order.                 *)
PlaceIn(s, D, R) == Cardinality({t \in D : t = s \/ <<t, s>> \in R})

(* The elements have the places from 1 to their number, each one.          *)
LEMMA PlacesFill ==
    ASSUME NEW D, IsFiniteSet(D), NEW R, StrictOrder(R, D)
    PROVE  /\ Cardinality(D) \in Nat
           /\ [s \in D |-> PlaceIn(s, D, R)] \in Bijection(D, 1 .. Cardinality(D))
<1> DEFINE n == Cardinality(D)
           f == [s \in D |-> PlaceIn(s, D, R)]
           Upto(s) == {t \in D : t = s \/ <<t, s>> \in R}
<1>1. n \in Nat
  BY FS_CardinalityType
<1>2. ASSUME NEW s \in D
      PROVE  /\ IsFiniteSet(Upto(s)) /\ f[s] = Cardinality(Upto(s)) /\ f[s] \in 1 .. n
  <2>1. IsFiniteSet(Upto(s)) /\ Cardinality(Upto(s)) <= n
    <3>1. Upto(s) \in SUBSET D
      OBVIOUS
    <3> HIDE DEF Upto
    <3> QED BY <3>1, FS_Subset
  <2>2. f[s] = Cardinality(Upto(s))
    BY DEF PlaceIn
  <2>3. Upto(s) # {}
    OBVIOUS
  <2> HIDE DEF Upto
  <2>4. Cardinality(Upto(s)) \in Nat /\ Cardinality(Upto(s)) # 0
    BY <2>1, <2>3, FS_CardinalityType, FS_EmptySet
  <2> QED BY <1>1, <2>1, <2>2, <2>4
<1>3. ASSUME NEW s \in D, NEW t \in D, <<s, t>> \in R
      PROVE  f[s] < f[t]
  <2>1. Upto(s) \in SUBSET Upto(t)
    BY <1>3 DEF StrictOrder
  <2>2. t \in Upto(t) /\ t \notin Upto(s)
    BY <1>3 DEF StrictOrder
  <2>3. Upto(s) # Upto(t)
    BY <2>2
  <2>4. /\ IsFiniteSet(Upto(t)) /\ f[t] = Cardinality(Upto(t)) /\ f[s] = Cardinality(Upto(s))
        /\ f[s] \in Nat /\ f[t] \in Nat
    BY <1>1, <1>2
  <2> HIDE DEF Upto, f
  <2>5. Cardinality(Upto(s)) <= Cardinality(Upto(t)) /\ Cardinality(Upto(t)) # Cardinality(Upto(s))
    BY <2>1, <2>3, <2>4, FS_Subset
  <2> QED BY <2>4, <2>5
<1>4. f \in Injection(D, 1 .. n)
  <2>1. f \in [D -> 1 .. n]
    BY <1>2
  <2>2. ASSUME NEW s \in D, NEW t \in D, f[s] = f[t]
        PROVE  s = t
    <3> HIDE DEF f
    <3>1. f[s] \in Nat /\ f[t] \in Nat
      BY <1>1, <2>1
    <3>2. <<s, t>> \notin R /\ <<t, s>> \notin R
      BY <1>3, <2>2, <3>1
    <3> QED BY <3>2 DEF StrictOrder
  <2> HIDE DEF f
  <2> QED BY <2>1, <2>2 DEF Injection, IsInjective
<1>5. IsFiniteSet(1 .. n) /\ Cardinality(1 .. n) = n
  <2>1. 1 \in Int /\ n \in Int
    BY <1>1
  <2>2. IsFiniteSet(1 .. n) /\ Cardinality(1 .. n) = IF 1 > n THEN 0 ELSE n - 1 + 1
    BY <2>1, FS_Interval
  <2> QED BY <1>1, <2>2
<1> HIDE DEF f
<1>6. f \in Surjection(D, 1 .. n)
  BY <1>4, <1>5, FS_Injection
<1>7. f \in Bijection(D, 1 .. n)
  BY <1>4, <1>6 DEF Bijection
<1> QED BY <1>1, <1>7 DEF f

(* As many elements have a place from a + 1 to b as there are such places. *)
LEMMA PlacesCount ==
    ASSUME NEW D, IsFiniteSet(D), NEW R, StrictOrder(R, D),
           NEW a \in Nat, NEW b \in Nat, a <= b, b <= Cardinality(D)
    PROVE  Cardinality({s \in D : PlaceIn(s, D, R) > a /\ PlaceIn(s, D, R) <= b}) = b - a
<1> DEFINE n == Cardinality(D)
           f == [s \in D |-> PlaceIn(s, D, R)]
           A == {s \in D : PlaceIn(s, D, R) > a /\ PlaceIn(s, D, R) <= b}
           I == a + 1 .. b
           g == [s \in A |-> f[s]]
<1>1. n \in Nat /\ f \in Bijection(D, 1 .. n)
  BY PlacesFill
<1>2. \A s \in D : f[s] = PlaceIn(s, D, R)
  OBVIOUS
<1>3. A = {s \in D : f[s] > a /\ f[s] <= b}
  BY <1>2
<1> HIDE DEF f, A
<1>4. /\ \A s \in D : f[s] \in 1 .. n
      /\ \A s, t \in D : f[s] = f[t] => s = t
      /\ \A i \in 1 .. n : \E s \in D : f[s] = i
  BY <1>1 DEF Bijection, Injection, IsInjective, Surjection
<1>5. A \subseteq D /\ \A s \in A : f[s] \in I
  BY <1>1, <1>3, <1>4
<1>6. \A i \in I : \E s \in A : f[s] = i
  <2>1. TAKE i \in I
  <2>2. i \in 1 .. n /\ i > a /\ i <= b
    BY <1>1
  <2>3. PICK s \in D : f[s] = i
    BY <1>4, <2>2
  <2> QED BY <1>3, <2>2, <2>3
<1>7. g \in [A -> I] /\ \A s \in A : g[s] = f[s]
  BY <1>5
<1> HIDE DEF g
<1>8. g \in Bijection(A, I)
  <2>1. \A s, t \in A : g[s] = g[t] => s = t
    BY <1>4, <1>5, <1>7
  <2>2. \A i \in I : \E s \in A : g[s] = i
    BY <1>6, <1>7
  <2> HIDE DEF I
  <2> QED BY <1>7, <2>1, <2>2 DEF Bijection, Injection, IsInjective, Surjection
<1>9. IsFiniteSet(A)
  BY <1>5, FS_Subset
<1>10. Cardinality(I) = Cardinality(A)
  <2>1. ExistsBijection(A, I)
    BY <1>8 DEF ExistsBijection
  <2> QED BY <1>9, <2>1, FS_Bijection
<1>11. Cardinality(I) = b - a
  <2>1. a + 1 \in Int /\ b \in Int
    OBVIOUS
  <2>2. Cardinality(I) = IF a + 1 > b THEN 0 ELSE b - (a + 1) + 1
    BY <2>1, FS_Interval
  <2> QED BY <2>2
<1>12. Cardinality(A) = b - a
  BY <1>10, <1>11
<1> QED BY <1>12 DEF A
=============================================================================
