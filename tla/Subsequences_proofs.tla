-------------------------- MODULE Subsequences_proofs --------------------------
EXTENDS Integers, Subsequences, SequencesExt, WellFoundedInduction, FiniteSetTheorems, TLAPS

(* A set of naturals that is not empty has a least member.                 *)
LEMMA LeastNat ==
  ASSUME NEW T \in SUBSET Nat, T # {}
  PROVE  \E n \in T : \A m \in T : n <= m
  <1>0. PICK R : R = OpToRel(<, Nat)
    OBVIOUS
  <1>1. IsWellFoundedOn(R, Nat)
    BY <1>0, NatLessThanWellFounded
  <1>2. \A x, y \in Nat : <<y, x>> \in R <=> y < x
    BY <1>0 DEF OpToRel
  <1>3. PICK x \in T : \A y \in T : ~(<<y, x>> \in R)
    BY <1>1, WFMin
  <1>4. \A y \in T : ~(y < x)
    BY <1>2, <1>3
  <1> QED BY <1>4

(* Induction over the naturals.                                            *)
LEMMA Induction ==
  ASSUME NEW T \in SUBSET Nat, 0 \in T, \A n \in T : n + 1 \in T
  PROVE  T = Nat
  <1> SUFFICES ASSUME Nat \ T # {} PROVE FALSE
    OBVIOUS
  <1>1. PICK n \in Nat \ T : \A m \in Nat \ T : n <= m
    BY LeastNat
  <1>2. n # 0 /\ n - 1 \in Nat /\ n - 1 \in T
    BY <1>1
  <1>3. (n - 1) + 1 = n
    BY <1>1
  <1> QED BY <1>1, <1>2, <1>3

(* One step of the recursion.                                              *)
Pick(g, s, K, n) == IF n \in K THEN Append(g[n - 1], s[n]) ELSE g[n - 1]
Upto(g, s, K, m) == [n \in 0..m |-> IF n = 0 THEN <<>> ELSE Pick(g, s, K, n)]

(* There is such a function up to every position.                          *)
LEMMA PickingExists ==
  ASSUME NEW s, NEW K, NEW m \in Nat
  PROVE  \E g : g = Upto(g, s, K, m)
  <1> PICK T : T = {i \in Nat : \E g : g = Upto(g, s, K, i)}
    OBVIOUS
  <1>1. 0 \in T
    <2> PICK g : g = [n \in 0..0 |-> <<>>]
      OBVIOUS
    <2>1. g = Upto(g, s, K, 0)
      BY DEF Upto
    <2> QED BY <2>1
  <1>2. ASSUME NEW i \in T PROVE i + 1 \in T
    <2>1. PICK h : h = Upto(h, s, K, i)
      OBVIOUS
    <2> PICK g : g = [n \in 0..(i + 1) |-> IF n <= i THEN h[n] ELSE Pick(h, s, K, n)]
      OBVIOUS
    <2>2. i \in Nat /\ 0..i \subseteq 0..(i + 1) /\ \A n \in 0..(i + 1) : n <= i => n \in 0..i
      OBVIOUS
    <2>3. \A n \in 0..i : g[n] = h[n]
      BY <2>2
    <2>4. \A n \in 0..(i + 1) : n # 0 => Pick(g, s, K, n) = Pick(h, s, K, n)
      <3> SUFFICES ASSUME NEW n \in 0..(i + 1), n # 0 PROVE g[n - 1] = h[n - 1]
        BY DEF Pick
      <3>1. n - 1 \in 0..i
        BY <2>2
      <3> QED BY <2>3, <3>1
    <2>5. \A n \in 0..i : h[n] = IF n = 0 THEN <<>> ELSE Pick(h, s, K, n)
      BY <2>1 DEF Upto
    <2>6. \A n \in 0..(i + 1) : g[n] = IF n = 0 THEN <<>> ELSE Pick(g, s, K, n)
      <3> SUFFICES ASSUME NEW n \in 0..(i + 1)
                   PROVE  g[n] = IF n = 0 THEN <<>> ELSE Pick(g, s, K, n)
        OBVIOUS
      <3>1. CASE n = 0
        BY <2>2, <2>3, <2>5, <3>1
      <3>2. CASE n # 0 /\ n <= i
        BY <2>2, <2>3, <2>4, <2>5, <3>2
      <3>3. CASE n > i
        BY <2>2, <2>4, <3>3
      <3> QED BY <2>2, <3>1, <3>2, <3>3
    <2>7. g = Upto(g, s, K, i + 1)
      BY <2>6 DEF Upto
    <2> QED BY <2>2, <2>7
  <1>3. T = Nat
    BY <1>1, <1>2, Induction
  <1> QED BY <1>3

(* So the recursion defines one.                                           *)
LEMMA PickingRec ==
  ASSUME NEW s, NEW K, Len(s) \in Nat
  PROVE  /\ Picking(s, K)[0] = <<>>
         /\ \A n \in 1..Len(s) : Picking(s, K)[n] = Pick(Picking(s, K), s, K, n)
  <1>1. PICK m \in Nat : m = Len(s)
    OBVIOUS
  <1>2. \E g : g = Upto(g, s, K, m)
    BY PickingExists
  <1>3. Picking(s, K) = CHOOSE g : g = Upto(g, s, K, m)
    BY <1>1 DEF Picking, Upto, Pick
  <1>4. Picking(s, K) = Upto(Picking(s, K), s, K, m)
    BY <1>2, <1>3
  <1> PICK p : p = Picking(s, K)
    OBVIOUS
  <1>5. p = [n \in 0..m |-> IF n = 0 THEN <<>> ELSE Pick(p, s, K, n)]
    BY <1>4 DEF Upto
  <1>6. p[0] = <<>> /\ \A n \in 1..m : p[n] = Pick(p, s, K, n)
    <2>1. 0 \in 0..m /\ \A n \in 1..m : n \in 0..m /\ n # 0
      OBVIOUS
    <2> QED BY <1>5, <2>1
  <1> QED BY <1>1, <1>6

(* What the recursion has made of the first n elements.                    *)
GoodPick(p, s, K, S, n) ==
  /\ p[n] \in Seq(S) /\ Len(p[n]) <= n
  /\ \A e : (\E j \in DOMAIN p[n] : p[n][j] = e) <=> (\E k \in 1..n : k \in K /\ s[k] = e)

(* What appending does.                                                    *)
LEMMA Appended ==
  ASSUME NEW S, NEW q \in Seq(S), NEW e \in S
  PROVE  /\ Append(q, e) \in Seq(S) /\ Len(q) \in Nat /\ Len(Append(q, e)) = Len(q) + 1
         /\ DOMAIN q = 1..Len(q) /\ DOMAIN Append(q, e) = 1..(Len(q) + 1)
         /\ Append(q, e)[Len(q) + 1] = e
         /\ \A j \in 1..Len(q) : Append(q, e)[j] = q[j]
  OBVIOUS

(* The next element is taken or left.                                      *)
LEMMA PickOneMore ==
  ASSUME NEW S, NEW s \in Seq(S), NEW K, NEW p, NEW n \in Nat, n + 1 \in 1..Len(s),
         GoodPick(p, s, K, S, n), p[n + 1] = Pick(p, s, K, n + 1)
  PROVE  GoodPick(p, s, K, S, n + 1)
  <1>1. /\ p[n] \in Seq(S) /\ Len(p[n]) <= n /\ (n + 1) - 1 = n
        /\ \A e : (\E j \in DOMAIN p[n] : p[n][j] = e) <=> (\E k \in 1..n : k \in K /\ s[k] = e)
    BY DEF GoodPick
  <1>2. p[n + 1] = IF n + 1 \in K THEN Append(p[n], s[n + 1]) ELSE p[n]
    BY <1>1 DEF Pick
  <1>3. \A k : k \in 1..(n + 1) <=> k \in 1..n \/ k = n + 1
    OBVIOUS
  <1>4. CASE n + 1 \notin K
    <2>1. p[n + 1] = p[n]
      BY <1>2, <1>4
    <2>2. p[n + 1] \in Seq(S) /\ Len(p[n + 1]) <= n + 1
      BY <1>1, <2>1
    <2>3. ASSUME NEW e
          PROVE  (\E j \in DOMAIN p[n + 1] : p[n + 1][j] = e)
                   <=> (\E k \in 1..(n + 1) : k \in K /\ s[k] = e)
      <3>1. (\E j \in DOMAIN p[n + 1] : p[n + 1][j] = e) <=> (\E j \in DOMAIN p[n] : p[n][j] = e)
        BY <2>1
      <3>2. (\E k \in 1..(n + 1) : k \in K /\ s[k] = e) <=> (\E k \in 1..n : k \in K /\ s[k] = e)
        BY <1>3, <1>4
      <3> QED BY <1>1, <3>1, <3>2
    <2> QED BY <2>2, <2>3 DEF GoodPick
  <1>5. CASE n + 1 \in K
    <2>1. p[n + 1] = Append(p[n], s[n + 1]) /\ s[n + 1] \in S /\ p[n] \in Seq(S)
      BY <1>1, <1>2, <1>5
    <2>2. /\ p[n + 1] \in Seq(S) /\ Len(p[n]) \in Nat /\ Len(p[n + 1]) = Len(p[n]) + 1
          /\ DOMAIN p[n] = 1..Len(p[n]) /\ DOMAIN p[n + 1] = 1..(Len(p[n]) + 1)
          /\ p[n + 1][Len(p[n]) + 1] = s[n + 1]
          /\ \A j \in 1..Len(p[n]) : p[n + 1][j] = p[n][j]
      <3> PICK q : q = p[n]
        OBVIOUS
      <3>1. q \in Seq(S) /\ p[n + 1] = Append(q, s[n + 1])
        BY <2>1
      <3> PICK e : e = s[n + 1]
        OBVIOUS
      <3> PICK r : r = Append(q, e)
        OBVIOUS
      <3>2. e \in S /\ q \in Seq(S) /\ r = p[n + 1]
        BY <2>1, <3>1
      <3>3. /\ Append(q, e) \in Seq(S) /\ Len(q) \in Nat /\ Len(Append(q, e)) = Len(q) + 1
            /\ DOMAIN q = 1..Len(q) /\ DOMAIN Append(q, e) = 1..(Len(q) + 1)
            /\ Append(q, e)[Len(q) + 1] = e
            /\ \A j \in 1..Len(q) : Append(q, e)[j] = q[j]
        <4>1. q \in Seq(S) /\ e \in S
          BY <3>2
        <4> QED BY <4>1, Appended
      <3>4. /\ r \in Seq(S) /\ Len(q) \in Nat /\ Len(r) = Len(q) + 1
            /\ DOMAIN q = 1..Len(q) /\ DOMAIN r = 1..(Len(q) + 1)
            /\ r[Len(q) + 1] = e
            /\ \A j \in 1..Len(q) : r[j] = q[j]
        BY <3>3
      <3> QED BY <3>2, <3>4
    <2>3. Len(p[n + 1]) <= n + 1
      BY <1>1, <2>2
    <2>4. \A j : j \in DOMAIN p[n + 1] <=> j \in DOMAIN p[n] \/ j = Len(p[n]) + 1
      BY <2>2
    <2>5. ASSUME NEW e
          PROVE  (\E j \in DOMAIN p[n + 1] : p[n + 1][j] = e)
                   <=> (\E k \in 1..(n + 1) : k \in K /\ s[k] = e)
      <3>1. (\E j \in DOMAIN p[n] : p[n][j] = e) <=> (\E k \in 1..n : k \in K /\ s[k] = e)
        BY <1>1
      <3>2. (\E j \in DOMAIN p[n + 1] : p[n + 1][j] = e)
              <=> (\E j \in DOMAIN p[n] : p[n][j] = e) \/ s[n + 1] = e
        BY <2>2, <2>4
      <3>3. (\E k \in 1..(n + 1) : k \in K /\ s[k] = e)
              <=> (\E k \in 1..n : k \in K /\ s[k] = e) \/ s[n + 1] = e
        BY <1>3, <1>5
      <3> QED BY <3>1, <3>2, <3>3
    <2> QED BY <2>2, <2>3, <2>5 DEF GoodPick
  <1> QED BY <1>4, <1>5

(* A comprehension gives a list of the elements at the positions asked for,*)
(* no longer than the one it is made of.                                   *)
LEMMA PickedElements ==
  ASSUME NEW S, NEW s \in Seq(S), NEW K
  PROVE  /\ Picked(s, K) \in Seq(S)
         /\ Len(Picked(s, K)) <= Len(s)
         /\ \A j \in DOMAIN Picked(s, K) : \E n \in DOMAIN s \cap K : Picked(s, K)[j] = s[n]
         /\ \A n \in DOMAIN s \cap K : \E j \in DOMAIN Picked(s, K) : Picked(s, K)[j] = s[n]
  <1> PICK p : p = Picking(s, K)
    OBVIOUS
  <1>1. /\ Len(s) \in Nat /\ DOMAIN s = 1..Len(s) /\ p[0] = <<>>
        /\ \A n \in 1..Len(s) : p[n] = Pick(p, s, K, n)
    BY PickingRec
  <1> PICK T : T = {n \in Nat : n <= Len(s) => GoodPick(p, s, K, S, n)}
    OBVIOUS
  <1>2. 0 \in T
    <2>1. p[0] \in Seq(S) /\ Len(p[0]) = 0 /\ DOMAIN p[0] = {} /\ 1..0 = {}
      BY <1>1
    <2>2. GoodPick(p, s, K, S, 0)
      BY <2>1 DEF GoodPick
    <2> QED BY <2>2
  <1>3. ASSUME NEW n \in T PROVE n + 1 \in T
    <2>1. n \in Nat /\ (n <= Len(s) => GoodPick(p, s, K, S, n))
      OBVIOUS
    <2>2. n + 1 <= Len(s) => n + 1 \in 1..Len(s) /\ n <= Len(s)
      BY <1>1, <2>1
    <2>3. n + 1 <= Len(s) => GoodPick(p, s, K, S, n + 1)
      BY <1>1, <2>1, <2>2, PickOneMore
    <2> QED BY <2>1, <2>3
  <1>4. T = Nat
    BY <1>2, <1>3, Induction
  <1>5. GoodPick(p, s, K, S, Len(s))
    BY <1>1, <1>4
  <1> PICK r : r = p[Len(s)]
    OBVIOUS
  <1>6. /\ r \in Seq(S) /\ Len(r) <= Len(s)
        /\ \A e : (\E j \in DOMAIN r : r[j] = e) <=> (\E k \in 1..Len(s) : k \in K /\ s[k] = e)
    BY <1>5 DEF GoodPick
  <1>7. \A j \in DOMAIN r : \E n \in DOMAIN s \cap K : r[j] = s[n]
    <2> SUFFICES ASSUME NEW j \in DOMAIN r PROVE \E n \in DOMAIN s \cap K : s[n] = r[j]
      OBVIOUS
    <2>1. \E k \in 1..Len(s) : k \in K /\ s[k] = r[j]
      BY <1>6
    <2> QED BY <1>1, <2>1
  <1>8. \A n \in DOMAIN s \cap K : \E j \in DOMAIN r : r[j] = s[n]
    <2> SUFFICES ASSUME NEW n \in DOMAIN s, n \in K PROVE \E j \in DOMAIN r : r[j] = s[n]
      OBVIOUS
    <2>1. \E k \in 1..Len(s) : k \in K /\ s[k] = s[n]
      BY <1>1
    <2> QED BY <1>6, <2>1
  <1>9. r = Picked(s, K)
    BY DEF Picked
  <1> QED BY <1>6, <1>7, <1>8, <1>9

------------------------------------------------------------------------------
(* Replacing an element.                                                   *)
LEMMA Rewritten ==
  ASSUME NEW S, NEW s \in Seq(S), NEW k \in DOMAIN s, NEW v \in S
  PROVE  /\ [s EXCEPT ![k] = v] \in Seq(S)
         /\ Len([s EXCEPT ![k] = v]) = Len(s) /\ DOMAIN [s EXCEPT ![k] = v] = DOMAIN s
         /\ [s EXCEPT ![k] = v][k] = v
         /\ \A j \in DOMAIN s \ {k} : [s EXCEPT ![k] = v][j] = s[j]
  OBVIOUS

(* What a queue gives and what it keeps.                                   *)
LEMMA HeadAndTail ==
  ASSUME NEW S, NEW s \in Seq(S), s # <<>>
  PROVE  /\ Head(s) \in S /\ Tail(s) \in Seq(S) /\ 1 \in DOMAIN s /\ Head(s) = s[1]
         /\ \A j \in DOMAIN Tail(s) : j + 1 \in DOMAIN s /\ Tail(s)[j] = s[j + 1]
  OBVIOUS

(* The elements of a list.                                                 *)
LEMMA Lists ==
  ASSUME NEW S, NEW s \in Seq(S)
  PROVE  /\ Len(s) \in Nat /\ DOMAIN s = 1..Len(s) /\ s \in [1..Len(s) -> S]
         /\ \A n \in DOMAIN s : s[n] \in S
  OBVIOUS

(* The first elements of a list.                                           *)
LEMMA Prefix ==
  ASSUME NEW S, NEW s \in Seq(S), NEW n \in 0..Len(s)
  PROVE  /\ SubSeq(s, 1, n) \in Seq(S) /\ Len(SubSeq(s, 1, n)) = n
         /\ \A k \in 1..n : SubSeq(s, 1, n)[k] = s[k]
  OBVIOUS

(* The elements from a position on.                                        *)
LEMMA Part ==
  ASSUME NEW S, NEW s \in Seq(S), NEW n \in DOMAIN s
  PROVE  /\ SubSeq(s, n, Len(s)) \in Seq(S)
         /\ \A k \in DOMAIN SubSeq(s, n, Len(s)) : \E m \in DOMAIN s : m >= n /\ SubSeq(s, n, Len(s))[k] = s[m]
         /\ \A m \in DOMAIN s : m >= n => \E k \in DOMAIN SubSeq(s, n, Len(s)) : SubSeq(s, n, Len(s))[k] = s[m]
<1>0. n \in Nat \ {0} /\ n <= Len(s)
  OBVIOUS
<1>1. /\ SubSeq(s, n, Len(s)) \in Seq(S) /\ Len(SubSeq(s, n, Len(s))) = Len(s) - n + 1
      /\ \A k \in 1..(Len(s) - n + 1) : SubSeq(s, n, Len(s))[k] = s[k + n - 1]
  BY <1>0
<1> PICK r : r = SubSeq(s, n, Len(s))
  OBVIOUS
<1>2. /\ r \in Seq(S) /\ DOMAIN r = 1..(Len(s) - n + 1) /\ DOMAIN s = 1..Len(s) /\ Len(s) \in Nat
      /\ \A k \in 1..(Len(s) - n + 1) : r[k] = s[k + n - 1]
  BY <1>1
<1>3. \A k \in 1..(Len(s) - n + 1) : k + n - 1 \in 1..Len(s) /\ k + n - 1 >= n
  BY <1>2
<1>4. \A m \in 1..Len(s) : m >= n => m - n + 1 \in 1..(Len(s) - n + 1) /\ (m - n + 1) + n - 1 = m
  BY <1>2
<1>5. \A m \in 1..Len(s) : m >= n => r[m - n + 1] = s[m]
  BY <1>2, <1>4
<1> QED BY <1>2, <1>3, <1>4, <1>5

(* A list that is not empty has an element as large as any.                *)
LEMMA Largest ==
  ASSUME NEW s \in Seq(Nat), s # <<>>
  PROVE  \E m \in DOMAIN s : \A i \in DOMAIN s : s[i] <= s[m]
<1>0. Len(s) \in Nat \ {0} /\ DOMAIN s = 1..Len(s) /\ \A n \in 1..Len(s) : s[n] \in Nat
  OBVIOUS
<1> PICK T : T = {n \in Nat : n + 1 <= Len(s) => \E m \in 1..(n + 1) : \A i \in 1..(n + 1) : s[i] <= s[m]}
  OBVIOUS
<1>1. 0 \in T
  <2>1. \A i \in 1..(0 + 1) : i = 1
    OBVIOUS
  <2>2. 1 \in 1..(0 + 1) /\ s[1] <= s[1]
    BY <1>0
  <2> QED BY <2>1, <2>2
<1>2. ASSUME NEW n \in T PROVE n + 1 \in T
  <2> SUFFICES ASSUME (n + 1) + 1 <= Len(s)
               PROVE  \E m \in 1..((n + 1) + 1) : \A i \in 1..((n + 1) + 1) : s[i] <= s[m]
    OBVIOUS
  <2>1. n \in Nat /\ n + 1 <= Len(s)
    BY <1>0
  <2>2. PICK m \in 1..(n + 1) : \A i \in 1..(n + 1) : s[i] <= s[m]
    BY <2>1
  <2>3. \A i : i \in 1..((n + 1) + 1) <=> i \in 1..(n + 1) \/ i = n + 2
    BY <2>1
  <2>4. s[m] \in Nat /\ s[n + 2] \in Nat /\ \A i \in 1..(n + 1) : s[i] \in Nat
    BY <1>0, <2>1
  <2>5. CASE s[m] <= s[n + 2]
    <3>1. \A i \in 1..(n + 1) : s[i] <= s[n + 2]
      BY <2>2, <2>4, <2>5
    <3> QED BY <2>3, <2>4, <3>1
  <2>6. CASE s[n + 2] <= s[m]
    BY <2>2, <2>3, <2>6
  <2>7. s[m] <= s[n + 2] \/ s[n + 2] <= s[m]
    BY <2>4
  <2> QED BY <2>5, <2>6, <2>7
<1>3. T = Nat
  BY <1>1, <1>2, Induction
<1> PICK n : n = Len(s) - 1
  OBVIOUS
<1>4. n \in Nat /\ n + 1 = Len(s)
  BY <1>0
<1>5. n \in T
  BY <1>3, <1>4
<1>6. \E m \in 1..(n + 1) : \A i \in 1..(n + 1) : s[i] <= s[m]
  BY <1>4, <1>5
<1> QED BY <1>0, <1>4, <1>6

(* Division with a remainder.                                              *)
LEMMA Division ==
  ASSUME NEW n \in Nat \ {0}, NEW k \in Int
  PROVE  \E q \in Int, r \in 0..(n - 1) : r = k % n /\ k = n * q + r
<1> DEFINE r == k % n
           q == k \div n
<1>1. r \in 0..(n - 1) /\ q \in Int /\ k = n * q + r
  OBVIOUS
<1> QED BY <1>1

(* The number before.                                                      *)
LEMMA Before ==
  ASSUME NEW n \in Nat, n # 0
  PROVE  n - 1 \in Nat /\ (n - 1) + 1 = n /\ n - 1 \in 0..n
  OBVIOUS

(* Among as many numbers in a row as the interval is long is a multiple.   *)
LEMMA MultipleAhead ==
  ASSUME NEW n \in Nat \ {0}, NEW b \in Nat
  PROVE  \E k \in (b + 1)..(b + n) : k % n = 0
<1>0. b \in Int
  OBVIOUS
<1>1. PICK q \in Int, r \in 0..(n - 1) : b = n * q + r
  BY <1>0, Division
<1>2. PICK k \in Int : k = n * (q + 1)
  OBVIOUS
<1>3. n * (q + 1) = n * q + n
  OBVIOUS
<1>4. k \in (b + 1)..(b + n)
  BY <1>1, <1>2, <1>3
<1>5. PICK d \in 0..(n - 1), h \in Int : d = k % n /\ k = n * h + d
  BY Division
<1>6. PICK e \in Int : e = q + 1 - h
  OBVIOUS
<1>7. n * e = d
  <2>1. n * e = n * (q + 1) - n * h
    BY <1>6
  <2> QED BY <1>2, <1>5, <2>1
<1>8. CASE e >= 1
  <2>1. n * e >= n
    BY <1>8
  <2> QED BY <1>5, <1>7, <2>1
<1>9. CASE e <= -1
  <2>1. n * e <= -n
    BY <1>9
  <2> QED BY <1>5, <1>7, <2>1
<1>10. CASE e = 0
  <2>1. d = 0
    BY <1>7, <1>10
  <2> QED BY <1>4, <1>5, <2>1
<1> QED BY <1>8, <1>9, <1>10

(* What is picked from a longer list.                                      *)
LEMMA PickedMore ==
  ASSUME NEW S, NEW s \in Seq(S), NEW e \in S, NEW K, NEW L, \A n \in 1..Len(s) : n \in K <=> n \in L
  PROVE  Picked(Append(s, e), L) = IF Len(s) + 1 \in L THEN Append(Picked(s, K), e) ELSE Picked(s, K)
<1>1. PICK m \in Nat : m = Len(s)
  OBVIOUS
<1>2. PICK t : t = Append(s, e)
  OBVIOUS
<1>3. t \in Seq(S) /\ Len(t) = m + 1 /\ t[m + 1] = e /\ \A n \in 1..m : t[n] = s[n]
  BY <1>1, <1>2, Appended
<1>4. PICK p, q : p = Picking(s, K) /\ q = Picking(t, L)
  OBVIOUS
<1>5. p[0] = <<>> /\ \A n \in 1..m : p[n] = Pick(p, s, K, n)
  BY <1>1, <1>4, PickingRec
<1>6. q[0] = <<>> /\ \A n \in 1..(m + 1) : q[n] = Pick(q, t, L, n)
  BY <1>3, <1>4, PickingRec
<1>7. PICK T : T = {n \in Nat : n <= m => q[n] = p[n]}
  OBVIOUS
<1>8. T = Nat
  <2>1. 0 \in T
    BY <1>5, <1>6, <1>7
  <2>2. ASSUME NEW n \in T PROVE n + 1 \in T
    <3>1. n \in Nat /\ n + 1 \in Nat
      BY <1>7, <2>2
    <3>2. CASE n + 1 <= m
      <4>1. n + 1 \in 1..m /\ n + 1 \in 1..(m + 1) /\ (n + 1) - 1 = n /\ q[n] = p[n]
        BY <1>7, <2>2, <3>1, <3>2
      <4>2. p[n + 1] = IF n + 1 \in K THEN Append(p[n], s[n + 1]) ELSE p[n]
        BY <1>5, <4>1 DEF Pick
      <4>3. q[n + 1] = IF n + 1 \in L THEN Append(q[n], t[n + 1]) ELSE q[n]
        BY <1>6, <4>1 DEF Pick
      <4>4. (n + 1 \in K <=> n + 1 \in L) /\ t[n + 1] = s[n + 1]
        BY <1>1, <1>3, <4>1
      <4> QED BY <1>7, <3>1, <4>1, <4>2, <4>3, <4>4
    <3>3. CASE ~(n + 1 <= m)
      BY <1>7, <3>1, <3>3
    <3> QED BY <3>2, <3>3
  <2> QED BY <1>7, <2>1, <2>2, Induction
<1>9. q[m] = p[m]
  BY <1>7, <1>8
<1>10. q[m + 1] = IF m + 1 \in L THEN Append(q[m], e) ELSE q[m]
  <2>1. m + 1 \in 1..(m + 1) /\ (m + 1) - 1 = m
    BY <1>1
  <2> QED BY <1>3, <1>6, <2>1 DEF Pick
<1> QED BY <1>1, <1>2, <1>3, <1>4, <1>9, <1>10 DEF Picked

(* The last w elements of a list, or all.                                  *)
Ending(s, w) == SubSeq(s, IF Len(s) > w THEN Len(s) - w + 1 ELSE 1, Len(s))

(* It is a list of the same elements, of w at most.                        *)
LEMMA EndingFits ==
  ASSUME NEW S, NEW s \in Seq(S), NEW w \in Nat
  PROVE  \E n \in 1..(Len(s) + 1) : Ending(s, w) = SubSeq(s, n, Len(s)) /\ Len(s) - n + 1 <= w
                                    /\ Ending(s, w) \in Seq(S) /\ Len(Ending(s, w)) <= w
<1>1. PICK n : n = IF Len(s) > w THEN Len(s) - w + 1 ELSE 1
  OBVIOUS
<1>2. n \in 1..(Len(s) + 1) /\ Len(s) - n + 1 <= w
  BY <1>1
<1>3. SubSeq(s, n, Len(s)) \in Seq(S) /\ Len(SubSeq(s, n, Len(s))) <= w
  BY <1>2
<1> QED BY <1>1, <1>2, <1>3 DEF Ending

(* Which of the two it is.                                                 *)
LEMMA EndingIs ==
  ASSUME NEW S, NEW s \in Seq(S), NEW w \in Nat
  PROVE  /\ Len(s) <= w => Ending(s, w) = s
         /\ Len(s) > w => Ending(s, w) = SubSeq(s, Len(s) - w + 1, Len(s))
<1>1. Len(s) \in Nat /\ SubSeq(s, 1, Len(s)) = s
  OBVIOUS
<1>2. ASSUME Len(s) <= w PROVE Ending(s, w) = s
  <2>1. ~(Len(s) > w)
    BY <1>1, <1>2
  <2> QED BY <1>1, <2>1 DEF Ending
<1>3. ASSUME Len(s) > w PROVE Ending(s, w) = SubSeq(s, Len(s) - w + 1, Len(s))
  BY <1>3 DEF Ending
<1> QED BY <1>2, <1>3

(* It does not matter what was dropped before.                             *)
LEMMA EndingMore ==
  ASSUME NEW S, NEW q \in Seq(S), NEW e \in S, NEW w \in Nat \ {0}
  PROVE  Ending(Append(Ending(q, w), e), w) = Ending(Append(q, e), w)
<1>1. PICK n \in Nat : n = Len(q)
  OBVIOUS
<1>2. PICK t : t = Append(q, e)
  OBVIOUS
<1>3. t \in Seq(S) /\ Len(t) = n + 1 /\ t[n + 1] = e /\ \A i \in 1..n : t[i] = q[i]
  BY <1>1, <1>2, Appended
<1>4. PICK r : r = Ending(q, w)
  OBVIOUS
<1>5. CASE n < w
  <2>1. r = q
    BY <1>1, <1>4, <1>5, EndingIs
  <2> QED BY <1>4, <2>1
<1>6. CASE n >= w
  <2>1. PICK d \in Nat : d = n - w
    BY <1>6
  <2>2. r = SubSeq(q, d + 1, n)
    <3>1. CASE n = w
      <4>1. Len(q) <= w /\ w \in Nat
        BY <1>1, <3>1
      <4>2. r = q
        BY <1>4, <4>1, EndingIs
      <4>3. d + 1 = 1
        BY <2>1, <3>1
      <4> QED BY <1>1, <4>2, <4>3
    <3>2. CASE n # w
      <4>1. n > w /\ n - w + 1 = d + 1
        BY <1>6, <2>1, <3>2
      <4> QED BY <1>1, <1>4, <4>1, EndingIs
    <3> QED BY <3>1, <3>2
  <2>3. r \in Seq(S) /\ Len(r) = w /\ \A i \in 1..w : r[i] = q[i + d]
    BY <1>1, <2>1, <2>2
  <2>4. PICK a : a = Append(r, e)
    OBVIOUS
  <2>5. a \in Seq(S) /\ Len(a) = w + 1 /\ a[w + 1] = e /\ \A i \in 1..w : a[i] = r[i]
    BY <2>3, <2>4, Appended
  <2>6. PICK b : b = SubSeq(a, 2, w + 1)
    OBVIOUS
  <2>7. Ending(a, w) = b
    <3>1. Len(a) > w /\ Len(a) - w + 1 = 2
      BY <2>5
    <3>2. Ending(a, w) = SubSeq(a, 2, Len(a))
      BY <2>5, <3>1, EndingIs
    <3> QED BY <2>5, <2>6, <3>2
  <2>8. b \in Seq(S) /\ Len(b) = w /\ \A i \in 1..w : b[i] = a[i + 1]
    BY <2>5, <2>6
  <2>9. PICK c : c = SubSeq(t, d + 2, n + 1)
    OBVIOUS
  <2>10. c \in Seq(S) /\ Len(c) = w /\ \A i \in 1..w : c[i] = t[i + d + 1]
    <3>1. d + 2 \in 1..Len(t) /\ n + 1 = Len(t) /\ (n + 1) - (d + 2) + 1 = w
      BY <1>3, <2>1
    <3>2. c \in Seq(S) /\ Len(c) = w /\ \A i \in 1..w : c[i] = t[(d + 2) + i - 1]
      BY <1>3, <2>9, <3>1
    <3>3. \A i \in 1..w : (d + 2) + i - 1 = i + d + 1
      OBVIOUS
    <3> QED BY <3>2, <3>3
  <2>11. \A i \in 1..w : b[i] = c[i]
    <3> SUFFICES ASSUME NEW i \in 1..w PROVE b[i] = c[i]
      OBVIOUS
    <3>1. CASE i = w
      <4>1. b[i] = e
        BY <2>5, <2>8, <3>1
      <4>2. i + d + 1 = n + 1
        BY <2>1, <3>1
      <4> QED BY <1>3, <2>10, <4>1, <4>2
    <3>2. CASE i # w
      <4>1. i + 1 \in 1..w /\ (i + 1) + d = i + d + 1 /\ (i + 1) + d \in 1..n
        BY <2>1, <3>2
      <4>2. b[i] = q[(i + 1) + d]
        BY <2>3, <2>5, <2>8, <4>1
      <4>3. c[i] = q[(i + 1) + d]
        BY <1>3, <2>10, <4>1
      <4> QED BY <4>2, <4>3
    <3> QED BY <3>1, <3>2
  <2>12. b = c
    BY <2>8, <2>10, <2>11
  <2>13. Ending(t, w) = c
    <3>1. n + 1 > w /\ (n + 1) - w + 1 = d + 2
      BY <1>6, <2>1
    <3> QED BY <1>3, <2>9, <3>1, EndingIs
  <2> QED BY <1>2, <1>4, <2>4, <2>7, <2>12, <2>13
<1> QED BY <1>5, <1>6

(* The first two times a list is gone through.                             *)
LEMMA FirstWalk ==
  ASSUME NEW n \in Nat \ {0}, NEW w \in 0..(n - 1)
  PROVE  w % n = w
  <1>0. w \in Int
    OBVIOUS
  <1>1. PICK q \in Int, r \in 0..(n - 1) : r = w % n /\ w = n * q + r
    BY <1>0, Division
  <1>2. CASE q >= 1
    <2>1. n * q >= n
      BY <1>2
    <2> QED BY <1>1, <2>1
  <1>3. CASE q <= -1
    <2>1. n * q <= -n
      BY <1>3
    <2> QED BY <1>1, <2>1
  <1>4. CASE q = 0
    BY <1>1, <1>4
  <1> QED BY <1>2, <1>3, <1>4

(* The second walk starts over.                                            *)
LEMMA SecondWalk ==
  ASSUME NEW n \in Nat \ {0}, NEW w \in n..(2 * n - 1)
  PROVE  w % n = w - n
  <1>0. w \in Int
    OBVIOUS
  <1>1. PICK q \in Int, r \in 0..(n - 1) : r = w % n /\ w = n * q + r
    BY <1>0, Division
  <1>2. CASE q >= 2
    <2>1. n * q >= 2 * n
      BY <1>2
    <2> QED BY <1>1, <2>1
  <1>3. CASE q <= 0
    <2>1. n * q <= 0
      BY <1>3
    <2> QED BY <1>1, <2>1
  <1>4. CASE q = 1
    BY <1>1, <1>4
  <1> QED BY <1>2, <1>3, <1>4

(* One step of the recursion of FlattenSeq.                                *)
Joining(g, s, n) == g[n - 1] \o s[n]
FlatUpto(g, s, m) == [n \in 1..m |-> IF n = 1 THEN s[n] ELSE Joining(g, s, n)]

(* There is such a function up to every position.                          *)
LEMMA FlatExists ==
  ASSUME NEW s, NEW m \in Nat
  PROVE  \E g : g = FlatUpto(g, s, m)
  <1> PICK T : T = {i \in Nat : \E g : g = FlatUpto(g, s, i)}
    OBVIOUS
  <1>1. 0 \in T
    <2> PICK g : g = [n \in 1..0 |-> IF n = 1 THEN s[n] ELSE <<>>]
      OBVIOUS
    <2>1. 1..0 = {}
      OBVIOUS
    <2>2. g = FlatUpto(g, s, 0)
      BY <2>1 DEF FlatUpto
    <2> QED BY <2>2
  <1>2. ASSUME NEW i \in T PROVE i + 1 \in T
    <2>1. PICK h : h = FlatUpto(h, s, i)
      OBVIOUS
    <2> PICK g : g = [n \in 1..(i + 1) |-> IF n <= i THEN h[n] ELSE IF n = 1 THEN s[n] ELSE Joining(h, s, n)]
      OBVIOUS
    <2>2. i \in Nat /\ 1..i \subseteq 1..(i + 1) /\ \A n \in 1..(i + 1) : n <= i => n \in 1..i
      OBVIOUS
    <2>3. \A n \in 1..i : g[n] = h[n]
      BY <2>2
    <2>4. \A n \in 1..(i + 1) : n # 1 => Joining(g, s, n) = Joining(h, s, n)
      <3> SUFFICES ASSUME NEW n \in 1..(i + 1), n # 1 PROVE g[n - 1] = h[n - 1]
        BY DEF Joining
      <3>1. n - 1 \in 1..i
        BY <2>2
      <3> QED BY <2>3, <3>1
    <2>5. \A n \in 1..i : h[n] = IF n = 1 THEN s[n] ELSE Joining(h, s, n)
      BY <2>1 DEF FlatUpto
    <2>6. \A n \in 1..(i + 1) : g[n] = IF n = 1 THEN s[n] ELSE Joining(g, s, n)
      <3> SUFFICES ASSUME NEW n \in 1..(i + 1)
                   PROVE  g[n] = IF n = 1 THEN s[n] ELSE Joining(g, s, n)
        OBVIOUS
      <3>1. CASE n <= i
        BY <2>2, <2>3, <2>4, <2>5, <3>1
      <3>2. CASE n > i
        BY <2>2, <2>4, <3>2
      <3> QED BY <2>2, <3>1, <3>2
    <2>7. g = FlatUpto(g, s, i + 1)
      BY <2>6 DEF FlatUpto
    <2> QED BY <2>2, <2>7
  <1>3. T = Nat
    BY <1>1, <1>2, Induction
  <1> QED BY <1>3

(* So the recursion defines one.                                           *)
LEMMA FlattenRec ==
  ASSUME NEW s, Len(s) \in Nat \ {0}
  PROVE  \E f : /\ f[1] = s[1] /\ \A n \in 2..Len(s) : f[n] = Joining(f, s, n)
                /\ FlattenSeq(s) = f[Len(s)]
  <1>1. PICK m \in Nat \ {0} : m = Len(s)
    OBVIOUS
  <1> DEFINE F == CHOOSE g : g = FlatUpto(g, s, m)
  <1>2. \E g : g = FlatUpto(g, s, m)
    BY FlatExists
  <1>3. FlattenSeq(s) = F[m]
    BY <1>1 DEF FlattenSeq, FlatUpto, Joining
  <1>4. F = FlatUpto(F, s, m)
    BY <1>2
  <1> PICK f : f = F
    OBVIOUS
  <1>5. f = [n \in 1..m |-> IF n = 1 THEN s[n] ELSE Joining(f, s, n)]
    BY <1>4 DEF FlatUpto
  <1>6. f[1] = s[1] /\ \A n \in 2..m : f[n] = Joining(f, s, n)
    <2>1. 1 \in 1..m /\ \A n \in 2..m : n \in 1..m /\ n # 1
      OBVIOUS
    <2> QED BY <1>5, <2>1
  <1>7. FlattenSeq(s) = f[m]
    BY <1>3
  <1> HIDE DEF F
  <1> QED BY <1>1, <1>6, <1>7

(* An element of a list.                                                   *)
Carries(q, e) == \E j \in DOMAIN q : q[j] = e

(* What the recursion has made of the first n lists.                       *)
GoodFlat(f, s, S, n) ==
  /\ f[n] \in Seq(S)
  /\ \A e : Carries(f[n], e) <=> \E k \in 1..n : Carries(s[k], e)

(* What is in two lists joined.                                            *)
CarriesBoth(S, q, r, t) == t \in Seq(S) /\ \A e : Carries(t, e) <=> Carries(q, e) \/ Carries(r, e)

(* Two lists joined.                                                       *)
LEMMA Joined2 ==
  ASSUME NEW S, NEW q \in Seq(S), NEW r \in Seq(S)
  PROVE  CarriesBoth(S, q, r, q \o r)
  <1> PICK t : t = q \o r
    OBVIOUS
  <1>1. /\ t \in Seq(S) /\ Len(t) = Len(q) + Len(r) /\ Len(q) \in Nat /\ Len(r) \in Nat
        /\ DOMAIN t = 1..(Len(q) + Len(r)) /\ DOMAIN q = 1..Len(q) /\ DOMAIN r = 1..Len(r)
        /\ \A j \in 1..Len(q) : t[j] = q[j]
        /\ \A j \in (Len(q) + 1)..(Len(q) + Len(r)) : t[j] = r[j - Len(q)]
    OBVIOUS
  <1>2. \A j \in 1..Len(r) : Len(q) + j \in (Len(q) + 1)..(Len(q) + Len(r)) /\ (Len(q) + j) - Len(q) = j
    BY <1>1
  <1>3. \A j \in 1..Len(r) : t[Len(q) + j] = r[j] /\ Len(q) + j \in DOMAIN t
    BY <1>1, <1>2
  <1>4. \A j \in DOMAIN t : j \in 1..Len(q) \/ (j \in (Len(q) + 1)..(Len(q) + Len(r)) /\ j - Len(q) \in 1..Len(r))
    BY <1>1
  <1>5. \A j \in 1..Len(q) : j \in DOMAIN t
    BY <1>1
  <1>6. ASSUME NEW e
        PROVE  (\E j \in DOMAIN t : t[j] = e)
                 <=> (\E j \in DOMAIN q : q[j] = e) \/ (\E j \in DOMAIN r : r[j] = e)
    <2>1. ASSUME NEW j \in DOMAIN t, t[j] = e
          PROVE  (\E i \in DOMAIN q : q[i] = e) \/ (\E i \in DOMAIN r : r[i] = e)
      BY <1>1, <1>4, <2>1
    <2>2. ASSUME NEW j \in DOMAIN q, q[j] = e PROVE \E i \in DOMAIN t : t[i] = e
      BY <1>1, <1>5, <2>2
    <2>3. ASSUME NEW j \in DOMAIN r, r[j] = e PROVE \E i \in DOMAIN t : t[i] = e
      BY <1>1, <1>3, <2>3
    <2> QED BY <2>1, <2>2, <2>3
  <1>7. \A e : Carries(t, e) <=> Carries(q, e) \/ Carries(r, e)
    BY <1>6 DEF Carries
  <1>8. CarriesBoth(S, q, r, t)
    BY <1>1, <1>7 DEF CarriesBoth
  <1> QED BY <1>8

(* The next list is put behind.                                            *)
LEMMA FlatOneMore ==
  ASSUME NEW S, NEW s \in Seq(Seq(S)), NEW f, NEW n \in Nat \ {0}, n + 1 \in 1..Len(s),
         GoodFlat(f, s, S, n), f[n + 1] = Joining(f, s, n + 1)
  PROVE  GoodFlat(f, s, S, n + 1)
  <1>1. f[n] \in Seq(S) /\ (n + 1) - 1 = n /\ \A e : Carries(f[n], e) <=> \E k \in 1..n : Carries(s[k], e)
    BY DEF GoodFlat
  <1>2. s[n + 1] \in Seq(S)
    OBVIOUS
  <1> PICK q : q = f[n]
    OBVIOUS
  <1> PICK r : r = s[n + 1]
    OBVIOUS
  <1> PICK t : t = f[n + 1]
    OBVIOUS
  <1>3. q \in Seq(S) /\ r \in Seq(S) /\ t = q \o r
    BY <1>1, <1>2 DEF Joining
  <1>4. t \in Seq(S) /\ \A e : Carries(t, e) <=> Carries(q, e) \/ Carries(r, e)
    <2>1. CarriesBoth(S, q, r, t)
      BY <1>3, Joined2
    <2> QED BY <2>1 DEF CarriesBoth
  <1>5. \A k : k \in 1..(n + 1) <=> k \in 1..n \/ k = n + 1
    OBVIOUS
  <1>6. \A e : (\E k \in 1..(n + 1) : Carries(s[k], e)) <=> (\E k \in 1..n : Carries(s[k], e)) \/ Carries(r, e)
    BY <1>5
  <1>7. \A e : Carries(t, e) <=> \E k \in 1..(n + 1) : Carries(s[k], e)
    BY <1>1, <1>4, <1>6
  <1> QED BY <1>4, <1>7 DEF GoodFlat

(* Flattening gives a list of just what is in the lists.                   *)
LEMMA FlattenedElements ==
  ASSUME NEW S, NEW s \in Seq(Seq(S))
  PROVE  /\ FlattenSeq(s) \in Seq(S)
         /\ \A e : Carries(FlattenSeq(s), e) <=> \E k \in DOMAIN s : Carries(s[k], e)
  <1>0. Len(s) \in Nat /\ DOMAIN s = 1..Len(s)
    OBVIOUS
  <1>1. CASE Len(s) = 0
    <2>1. FlattenSeq(s) = s
      BY <1>1 DEF FlattenSeq
    <2>2. s = <<>> /\ DOMAIN s = {} /\ s \in Seq(S)
      BY <1>1
    <2> QED BY <2>1, <2>2 DEF Carries
  <1>2. CASE Len(s) # 0
    <2>1. PICK f : /\ f[1] = s[1] /\ \A n \in 2..Len(s) : f[n] = Joining(f, s, n)
                   /\ FlattenSeq(s) = f[Len(s)]
      BY <1>0, <1>2, FlattenRec
    <2> PICK T : T = {n \in Nat : n + 1 <= Len(s) => GoodFlat(f, s, S, n + 1)}
      OBVIOUS
    <2>2. 0 \in T
      <3>1. s[1] \in Seq(S) /\ 0 + 1 = 1 /\ \A k : k \in 1..1 <=> k = 1
        BY <1>0, <1>2
      <3>2. GoodFlat(f, s, S, 1)
        BY <2>1, <3>1 DEF GoodFlat
      <3> QED BY <3>1, <3>2
    <2>3. ASSUME NEW n \in T PROVE n + 1 \in T
      <3>1. n \in Nat /\ n + 1 \in Nat \ {0} /\ (n + 1 <= Len(s) => GoodFlat(f, s, S, n + 1))
        OBVIOUS
      <3> PICK m : m = n + 1
        OBVIOUS
      <3>2. m + 1 <= Len(s) => m + 1 \in 1..Len(s) /\ m + 1 \in 2..Len(s) /\ n + 1 <= Len(s)
        BY <1>0, <3>1
      <3>3. m + 1 <= Len(s) => GoodFlat(f, s, S, m + 1)
        <4> SUFFICES ASSUME m + 1 <= Len(s) PROVE GoodFlat(f, s, S, m + 1)
          OBVIOUS
        <4>1. m \in Nat \ {0} /\ m + 1 \in 1..Len(s) /\ GoodFlat(f, s, S, m) /\ f[m + 1] = Joining(f, s, m + 1)
          BY <2>1, <3>1, <3>2
        <4> QED BY <4>1, FlatOneMore
      <3> QED BY <3>1, <3>3
    <2>4. T = Nat
      BY <2>2, <2>3, Induction
    <2>5. GoodFlat(f, s, S, Len(s))
      <3> PICK n : n = Len(s) - 1
        OBVIOUS
      <3>1. n \in Nat /\ n + 1 = Len(s)
        BY <1>0, <1>2
      <3>2. n \in T
        BY <2>4, <3>1
      <3> QED BY <3>1, <3>2
    <2> PICK r : r = f[Len(s)]
      OBVIOUS
    <2>6. r \in Seq(S) /\ \A e : Carries(r, e) <=> \E k \in 1..Len(s) : Carries(s[k], e)
      BY <2>5 DEF GoodFlat
    <2> QED BY <1>0, <2>1, <2>6
  <1> QED BY <1>1, <1>2

(* A list of one element.                                                  *)
LEMMA Single ==
  ASSUME NEW S, NEW r \in Seq(S), Len(r) = 1
  PROVE  r = <<r[1]>>
  OBVIOUS

(* Lists of one element each, joined.                                      *)
LEMMA FlattenSingles ==
  ASSUME NEW S, NEW s \in Seq(S), NEW q, q = [n \in DOMAIN s |-> <<s[n]>>]
  PROVE  FlattenSeq(q) = s
  <1>0. Len(s) \in Nat /\ DOMAIN s = 1..Len(s) /\ \A n \in DOMAIN s : s[n] \in S
    OBVIOUS
  <1>1. q = [n \in 1..Len(s) |-> <<s[n]>>]
    BY <1>0
  <1>2. Len(q) = Len(s) /\ \A n \in 1..Len(s) : q[n] = <<s[n]>>
    BY <1>0, <1>1
  <1>3. CASE Len(s) = 0
    <2>1. FlattenSeq(q) = q
      BY <1>2, <1>3 DEF FlattenSeq
    <2>2. 1..0 = {}
      OBVIOUS
    <2>3. s = <<>> /\ q = <<>>
      BY <1>0, <1>1, <1>3, <2>2
    <2> QED BY <2>1, <2>3
  <1>4. CASE Len(s) # 0
    <2> PICK m : m = Len(s)
      OBVIOUS
    <2>0. m \in Nat \ {0} /\ Len(q) = m
      BY <1>0, <1>2, <1>4
    <2>1. PICK f : /\ f[1] = q[1] /\ \A n \in 2..m : f[n] = Joining(f, q, n)
                   /\ FlattenSeq(q) = f[m]
      BY <2>0, FlattenRec
    <2> PICK T : T = {n \in Nat : n + 1 <= m => f[n + 1] = SubSeq(s, 1, n + 1)}
      OBVIOUS
    <2>2. 0 \in T
      <3>1. q[1] = <<s[1]>> /\ 1 \in 1..Len(s)
        BY <1>0, <1>2, <2>0
      <3>2. SubSeq(s, 1, 1) = <<s[1]>>
        <4> PICK r : r = SubSeq(s, 1, 1)
          OBVIOUS
        <4>1. r \in Seq(S) /\ Len(r) = 1 /\ r[1] = s[1]
          BY <1>0, <3>1
        <4>2. r = <<r[1]>>
          BY <4>1, Single
        <4> QED BY <4>1, <4>2
      <3>3. 0 + 1 = 1
        OBVIOUS
      <3> QED BY <2>1, <3>1, <3>2, <3>3
    <2>3. ASSUME NEW n \in T PROVE n + 1 \in T
      <3> PICK k : k = n + 1
        OBVIOUS
      <3>1. n \in Nat /\ k \in Nat \ {0} /\ (k <= m => f[k] = SubSeq(s, 1, k))
        OBVIOUS
      <3>2. ASSUME k + 1 <= m PROVE f[k + 1] = SubSeq(s, 1, k + 1)
        <4>1. k + 1 \in 2..m /\ (k + 1) - 1 = k /\ k + 1 \in 1..Len(s)
          BY <2>0, <3>1, <3>2
        <4>2. f[k] = SubSeq(s, 1, k) /\ q[k + 1] = <<s[k + 1]>>
          BY <1>2, <2>0, <3>1, <3>2, <4>1
        <4>3. f[k + 1] = SubSeq(s, 1, k) \o <<s[k + 1]>>
          BY <2>1, <4>1, <4>2 DEF Joining
        <4>4. SubSeq(s, 1, k + 1) = SubSeq(s, 1, k) \o <<s[k + 1]>>
          BY <1>0, <3>1, <4>1
        <4> QED BY <4>3, <4>4
      <3> QED BY <3>1, <3>2
    <2>4. T = Nat
      BY <2>2, <2>3, Induction
    <2> PICK n : n = m - 1
      OBVIOUS
    <2>5. n \in Nat /\ n + 1 = m /\ n + 1 <= m
      BY <2>0
    <2>6. f[m] = SubSeq(s, 1, m)
      BY <2>4, <2>5
    <2>7. SubSeq(s, 1, m) = s
      BY <1>0, <2>0
    <2> QED BY <2>1, <2>6, <2>7
  <1> QED BY <1>3, <1>4

(* No element occurs twice.                                                *)
Once(s) == \A k, m \in DOMAIN s : s[k] = s[m] => k = m

(* What a list has after one place, up to another.                         *)
Between(s, m, n, x) == \E k \in DOMAIN s : m < k /\ k <= n /\ s[k] = x
PieceOf(S, s, m, n, r) ==
  r \in Seq(S) /\ (\A x : Carries(r, x) <=> Between(s, m, n, x)) /\ (Once(s) => Once(r))

(* A piece of a list.                                                      *)
LEMMA PieceFits ==
  ASSUME NEW S, NEW s \in Seq(S), NEW m \in Nat, NEW n \in Nat, n <= Len(s)
  PROVE  PieceOf(S, s, m, n, SubSeq(s, m + 1, n))
  <1>0. Len(s) \in Nat /\ DOMAIN s = 1..Len(s) /\ \A k \in 1..Len(s) : s[k] \in S
    OBVIOUS
  <1> PICK r : r = SubSeq(s, m + 1, n)
    OBVIOUS
  <1>1. CASE n <= m
    <2>1. r = <<>> /\ r \in Seq(S) /\ DOMAIN r = {} /\ \A k \in Nat : ~(m < k /\ k <= n)
      BY <1>1
    <2>2. \A x : ~Carries(r, x) /\ ~Between(s, m, n, x)
      BY <1>0, <2>1 DEF Carries, Between
    <2>3. Once(r)
      BY <2>1 DEF Once
    <2> QED BY <2>1, <2>2, <2>3 DEF PieceOf
  <1>2. CASE m < n
    <2>1. r = [i \in 1..(n - m) |-> s[i + m]]
      BY <1>2
    <2>2. n - m \in Nat /\ \A i \in 1..(n - m) : i + m \in 1..Len(s) /\ i + m \in (m + 1)..n
      BY <1>0, <1>2
    <2>3. \A i \in 1..(n - m) : s[i + m] \in S
      BY <1>0, <2>2
    <2>4. r \in Seq(S) /\ DOMAIN r = 1..(n - m) /\ \A j \in 1..(n - m) : r[j] = s[j + m]
      BY <2>1, <2>2, <2>3
    <2>5. \A k \in (m + 1)..n : k - m \in 1..(n - m) /\ (k - m) + m = k
      OBVIOUS
    <2>6. \A x : Carries(r, x) <=> \E k \in (m + 1)..n : s[k] = x
      <3> SUFFICES ASSUME NEW x PROVE Carries(r, x) <=> \E k \in (m + 1)..n : s[k] = x
        OBVIOUS
      <3>1. ASSUME NEW j \in DOMAIN r, r[j] = x PROVE \E k \in (m + 1)..n : s[k] = x
        BY <2>2, <2>4, <3>1
      <3>2. ASSUME NEW k \in (m + 1)..n, s[k] = x PROVE \E j \in DOMAIN r : r[j] = x
        BY <2>4, <2>5, <3>2
      <3> QED BY <3>1, <3>2 DEF Carries
    <2>7. ASSUME Once(s) PROVE Once(r)
      <3> SUFFICES ASSUME NEW j \in 1..(n - m), NEW h \in 1..(n - m), r[j] = r[h] PROVE j = h
        BY <2>4 DEF Once
      <3>1. s[j + m] = s[h + m] /\ j + m \in DOMAIN s /\ h + m \in DOMAIN s
        BY <1>0, <2>2, <2>4
      <3>2. j + m = h + m
        BY <2>7, <3>1 DEF Once
      <3> QED BY <3>2
    <2>8. \A k : k \in (m + 1)..n <=> k \in DOMAIN s /\ m < k /\ k <= n
      BY <1>0
    <2>9. \A x : Carries(r, x) <=> Between(s, m, n, x)
      BY <2>6, <2>8 DEF Between
    <2> QED BY <2>4, <2>7, <2>9 DEF PieceOf
  <1> QED BY <1>1, <1>2

(* Lists with nothing in common, joined.                                   *)
LEMMA OnceJoined ==
  ASSUME NEW S, NEW q \in Seq(S), NEW r \in Seq(S), Once(q), Once(r),
         \A x : ~(Carries(q, x) /\ Carries(r, x))
  PROVE  Once(q \o r)
  <1> PICK t : t = q \o r
    OBVIOUS
  <1>1. /\ Len(q) \in Nat /\ Len(r) \in Nat
        /\ DOMAIN t = 1..(Len(q) + Len(r)) /\ DOMAIN q = 1..Len(q) /\ DOMAIN r = 1..Len(r)
        /\ \A j \in 1..Len(q) : t[j] = q[j]
        /\ \A j \in (Len(q) + 1)..(Len(q) + Len(r)) : t[j] = r[j - Len(q)]
    OBVIOUS
  <1>2. \A j \in DOMAIN t : \/ j \in 1..Len(q) /\ t[j] = q[j]
                            \/ j - Len(q) \in 1..Len(r) /\ t[j] = r[j - Len(q)]
    BY <1>1
  <1>3. \A i, j \in DOMAIN t : i - Len(q) = j - Len(q) => i = j
    BY <1>1
  <1>4. ASSUME NEW i \in DOMAIN t, NEW j \in DOMAIN t, t[i] = t[j] PROVE i = j
    <2>1. CASE i \in 1..Len(q) /\ t[i] = q[i] /\ j \in 1..Len(q) /\ t[j] = q[j]
      BY <1>1, <1>4, <2>1 DEF Once
    <2>2. CASE /\ i - Len(q) \in 1..Len(r) /\ t[i] = r[i - Len(q)]
               /\ j - Len(q) \in 1..Len(r) /\ t[j] = r[j - Len(q)]
      BY <1>1, <1>3, <1>4, <2>2 DEF Once
    <2>3. CASE i \in 1..Len(q) /\ t[i] = q[i] /\ j - Len(q) \in 1..Len(r) /\ t[j] = r[j - Len(q)]
      BY <1>1, <1>4, <2>3 DEF Carries
    <2>4. CASE j \in 1..Len(q) /\ t[j] = q[j] /\ i - Len(q) \in 1..Len(r) /\ t[i] = r[i - Len(q)]
      BY <1>1, <1>4, <2>4 DEF Carries
    <2> QED BY <1>2, <2>1, <2>2, <2>3, <2>4
  <1> QED BY <1>4 DEF Once

(* Pieces that follow each other.                                          *)
LEMMA PiecesJoin ==
  ASSUME NEW S, NEW s \in Seq(S), NEW m \in Nat, NEW n \in Nat, m <= n, n <= Len(s)
  PROVE  /\ SubSeq(s, 1, m) \o SubSeq(s, m + 1, n) = SubSeq(s, 1, n)
         /\ Len(SubSeq(s, m + 1, n)) = n - m
         /\ SubSeq(s, 1, Len(s)) = s
  <1>0. Len(s) \in Nat /\ DOMAIN s = 1..Len(s) /\ \A k \in 1..Len(s) : s[k] \in S
    OBVIOUS
  <1>1. Len(SubSeq(s, m + 1, n)) = n - m
    BY <1>0
  <1>2. SubSeq(s, 1, Len(s)) = s
    BY <1>0
  <1>3. SubSeq(s, 1, m) \o SubSeq(s, m + 1, n) = SubSeq(s, 1, n)
    BY <1>0
  <1> QED BY <1>1, <1>2, <1>3

(* The smaller of two numbers.                                             *)
LEMMA Smaller ==
  ASSUME NEW a \in Nat, NEW b \in Nat
  PROVE  /\ Min({a, b}) \in Nat /\ Min({a, b}) <= a /\ Min({a, b}) <= b
         /\ Min({a, b}) = a \/ Min({a, b}) = b
  <1>1. \E x \in {a, b} : \A y \in {a, b} : x <= y
    OBVIOUS
  <1> QED BY <1>1 DEF Min

(* A list without one of its elements.                                     *)
LessOne(S, s, i, r) == r \in Seq(S) /\ Once(r) /\ \A x : Carries(r, x) <=> Carries(s, x) /\ x # s[i]

(* The list that RemoveAt leaves.                                          *)
LEMMA RemovedAt ==
  ASSUME NEW S, NEW s \in Seq(S), Once(s), NEW i \in DOMAIN s
  PROVE  LessOne(S, s, i, RemoveAt(s, i))
  <1> PICK l : l = Len(s)
    OBVIOUS
  <1>0. l \in Nat /\ DOMAIN s = 1..l /\ i \in 1..l /\ i - 1 \in Nat /\ i - 1 <= l /\ i \in Nat /\ 0 + 1 = 1
    OBVIOUS
  <1> PICK a : a = SubSeq(s, 1, i - 1)
    OBVIOUS
  <1> PICK b : b = SubSeq(s, i + 1, l)
    OBVIOUS
  <1> PICK r : r = a \o b
    OBVIOUS
  <1>1. r = RemoveAt(s, i)
    BY DEF RemoveAt
  <1>2. PieceOf(S, s, 0, i - 1, a)
    <2> PICK h : h = i - 1
      OBVIOUS
    <2>1. PieceOf(S, s, 0, h, SubSeq(s, 0 + 1, h))
      BY <1>0, PieceFits
    <2> QED BY <1>0, <2>1
  <1>3. PieceOf(S, s, i, l, b)
    BY <1>0, PieceFits
  <1>4. a \in Seq(S) /\ Once(a) /\ \A x : Carries(a, x) <=> Between(s, 0, i - 1, x)
    BY <1>2 DEF PieceOf
  <1>5. b \in Seq(S) /\ Once(b) /\ \A x : Carries(b, x) <=> Between(s, i, l, x)
    BY <1>3 DEF PieceOf
  <1>6. ASSUME NEW x
        PROVE  /\ ~(Between(s, 0, i - 1, x) /\ Between(s, i, l, x))
               /\ Between(s, 0, i - 1, x) \/ Between(s, i, l, x) <=> Carries(s, x) /\ x # s[i]
    <2>1. \A k \in DOMAIN s : k < i \/ k = i \/ i < k
      BY <1>0
    <2>2. \A k \in DOMAIN s : (0 < k /\ k <= i - 1 <=> k < i) /\ (i < k /\ k <= l <=> i < k)
      BY <1>0
    <2>3. \A k, m \in DOMAIN s : s[k] = s[m] => k = m
      BY DEF Once
    <2>4. \A k \in DOMAIN s : ~(k < i /\ i < k) /\ ~(i < i)
      BY <1>0
    <2>5. (Between(s, 0, i - 1, x) <=> \E k \in DOMAIN s : k < i /\ s[k] = x)
      BY <2>2 DEF Between
    <2>6. (Between(s, i, l, x) <=> \E k \in DOMAIN s : i < k /\ s[k] = x)
      BY <2>2 DEF Between
    <2>7. Carries(s, x) <=> \E k \in DOMAIN s : s[k] = x
      BY DEF Carries
    <2> QED BY <2>1, <2>3, <2>4, <2>5, <2>6, <2>7
  <1>7. \A x : ~(Carries(a, x) /\ Carries(b, x))
    BY <1>4, <1>5, <1>6
  <1>8. Once(r)
    BY <1>4, <1>5, <1>7, OnceJoined
  <1>9. CarriesBoth(S, a, b, r)
    BY <1>4, <1>5, Joined2
  <1>10. r \in Seq(S) /\ \A x : Carries(r, x) <=> Carries(a, x) \/ Carries(b, x)
    BY <1>9 DEF CarriesBoth
  <1>11. \A x : Carries(r, x) <=> Carries(s, x) /\ x # s[i]
    BY <1>4, <1>5, <1>6, <1>10
  <1>12. LessOne(S, s, i, r)
    BY <1>8, <1>10, <1>11 DEF LessOne
  <1> QED BY <1>1, <1>12

(* A list with one element more.                                           *)
MoreOne(S, s, e, r) == r \in Seq(S) /\ Once(r) /\ \A x : Carries(r, x) <=> Carries(s, x) \/ x = e

(* The list that InsertAt makes.                                           *)
LEMMA InsertedAt ==
  ASSUME NEW S, NEW s \in Seq(S), Once(s), NEW i \in 1..(Len(s) + 1), NEW e \in S, ~Carries(s, e)
  PROVE  MoreOne(S, s, e, InsertAt(s, i, e))
  <1> PICK l : l = Len(s)
    OBVIOUS
  <1> PICK h : h = i - 1
    OBVIOUS
  <1>0. l \in Nat /\ DOMAIN s = 1..l /\ h \in Nat /\ h <= l /\ i = h + 1 /\ 0 + 1 = 1
    OBVIOUS
  <1> PICK a : a = SubSeq(s, 1, h)
    OBVIOUS
  <1> PICK b : b = SubSeq(s, h + 1, l)
    OBVIOUS
  <1> PICK m : m = <<e>>
    OBVIOUS
  <1> PICK am : am = a \o m
    OBVIOUS
  <1> PICK r : r = am \o b
    OBVIOUS
  <1>1. r = InsertAt(s, i, e)
    BY <1>0 DEF InsertAt
  <1>2. PieceOf(S, s, 0, h, a)
    <2>1. PieceOf(S, s, 0, h, SubSeq(s, 0 + 1, h))
      BY <1>0, PieceFits
    <2> QED BY <1>0, <2>1
  <1>3. PieceOf(S, s, h, l, b)
    BY <1>0, PieceFits
  <1>4. m \in Seq(S) /\ Once(m) /\ \A x : Carries(m, x) <=> x = e
    BY DEF Once, Carries
  <1>5. /\ a \in Seq(S) /\ Once(a) /\ \A x : Carries(a, x) <=> Between(s, 0, h, x)
        /\ b \in Seq(S) /\ Once(b) /\ \A x : Carries(b, x) <=> Between(s, h, l, x)
    BY <1>2, <1>3 DEF PieceOf
  <1>6. ASSUME NEW x
        PROVE  /\ ~(Between(s, 0, h, x) /\ Between(s, h, l, x))
               /\ Between(s, 0, h, x) \/ Between(s, h, l, x) <=> Carries(s, x)
    <2>2. \A k \in DOMAIN s : (0 < k /\ k <= h <=> k <= h) /\ (h < k /\ k <= l <=> ~(k <= h))
      BY <1>0
    <2>3. \A k, n \in DOMAIN s : s[k] = s[n] => k = n
      BY DEF Once
    <2>5. (Between(s, 0, h, x) <=> \E k \in DOMAIN s : k <= h /\ s[k] = x)
      BY <2>2 DEF Between
    <2>6. (Between(s, h, l, x) <=> \E k \in DOMAIN s : ~(k <= h) /\ s[k] = x)
      BY <2>2 DEF Between
    <2>7. Carries(s, x) <=> \E k \in DOMAIN s : s[k] = x
      BY DEF Carries
    <2> QED BY <2>3, <2>5, <2>6, <2>7
  <1>7. \A x : (Carries(s, x) <=> Carries(a, x) \/ Carries(b, x)) /\ ~(Carries(a, x) /\ Carries(b, x))
    BY <1>5, <1>6
  <1>8. CarriesBoth(S, a, m, am)
    BY <1>4, <1>5, Joined2
  <1>9. am \in Seq(S) /\ \A x : Carries(am, x) <=> Carries(a, x) \/ x = e
    BY <1>4, <1>8 DEF CarriesBoth
  <1>10. CarriesBoth(S, am, b, r)
    BY <1>5, <1>9, Joined2
  <1>11. r \in Seq(S) /\ \A x : Carries(r, x) <=> Carries(s, x) \/ x = e
    BY <1>7, <1>9, <1>10 DEF CarriesBoth
  <1>12. Once(am)
    BY <1>4, <1>5, <1>7, OnceJoined
  <1>14. \A x : ~(Carries(am, x) /\ Carries(b, x))
    BY <1>7, <1>9
  <1>15. Once(r)
    BY <1>5, <1>9, <1>12, <1>14, OnceJoined
  <1>16. MoreOne(S, s, e, r)
    BY <1>11, <1>15 DEF MoreOne
  <1> QED BY <1>1, <1>16

(* The next piece of a list, of a size or what is left.                    *)
NextPiece(S, s, a, size, u) ==
  /\ u \in Seq(S) /\ \A x : Carries(u, x) => Carries(s, x)
  /\ a <= Len(s) =>
       \E hi \in Nat :
         /\ a <= hi /\ hi <= Len(s) /\ hi <= a + size /\ (hi = Len(s) \/ hi = a + size)
         /\ u = SubSeq(s, a + 1, hi) /\ Len(u) = hi - a
         /\ SubSeq(s, 1, a) \o u = SubSeq(s, 1, hi)
         /\ hi = a => hi = Len(s)

(* Pieces of a given size, one after the other, up to the end.             *)
LEMMA NextPieceFits ==
  ASSUME NEW S, NEW s \in Seq(S), NEW a \in Nat, NEW size \in Nat \ {0}
  PROVE  NextPiece(S, s, a, size, SubSeq(s, a + 1, Min({a + size, Len(s)})))
  <1> PICK hi : hi = Min({a + size, Len(s)})
    OBVIOUS
  <1>0. Len(s) \in Nat /\ a + size \in Nat
    OBVIOUS
  <1>1. hi \in Nat /\ hi <= a + size /\ hi <= Len(s) /\ (hi = a + size \/ hi = Len(s))
    BY <1>0, Smaller
  <1>2. PieceOf(S, s, a, hi, SubSeq(s, a + 1, hi))
    BY <1>1, PieceFits
  <1>3. ASSUME a <= Len(s)
        PROVE  /\ a <= hi /\ (hi = a => hi = Len(s))
               /\ Len(SubSeq(s, a + 1, hi)) = hi - a
               /\ SubSeq(s, 1, a) \o SubSeq(s, a + 1, hi) = SubSeq(s, 1, hi)
    <2>1. a <= hi /\ (hi = a => hi = Len(s))
      BY <1>0, <1>1, <1>3
    <2> QED BY <1>1, <2>1, PiecesJoin
  <1> PICK u : u = SubSeq(s, a + 1, hi)
    OBVIOUS
  <1>4. u \in Seq(S) /\ \A x : Carries(u, x) => Carries(s, x)
    BY <1>2 DEF PieceOf, Between, Carries
  <1>5. NextPiece(S, s, a, size, u)
    BY <1>1, <1>3, <1>4 DEF NextPiece
  <1> QED BY <1>5

(* Records whose keys are those of a list.                                 *)
KeyedBy(q, s) == \A n \in DOMAIN q : n \in DOMAIN s /\ q[n].key = s[n]

(* Such a list, and one for the piece of keys that comes next.             *)
NextKeyed(S, T, s, q, hi, c, u) ==
  /\ s \in Seq(S) /\ q \in Seq(T) /\ c \in Seq(T) /\ hi \in Nat /\ Len(q) <= hi /\ hi <= Len(s)
  /\ u = SubSeq(s, Len(q) + 1, hi) /\ Len(c) = Len(u)
  /\ KeyedBy(q, s) /\ KeyedBy(c, u)

(* The keys of a list and of the piece that goes on from it.               *)
LEMMA KeyedOn ==
  ASSUME NEW S, NEW T, NEW s, NEW q, NEW hi, NEW c, NEW u, NextKeyed(S, T, s, q, hi, c, u)
  PROVE  KeyedBy(q \o c, s) /\ Len(q \o c) = hi
  <1>0. /\ s \in Seq(S) /\ q \in Seq(T) /\ c \in Seq(T) /\ hi \in Nat /\ Len(q) <= hi /\ hi <= Len(s)
        /\ u = SubSeq(s, Len(q) + 1, hi) /\ Len(c) = Len(u)
        /\ KeyedBy(q, s) /\ KeyedBy(c, u)
    BY DEF NextKeyed
  <1> PICK a : a = Len(q)
    OBVIOUS
  <1> PICK l : l = Len(s)
    OBVIOUS
  <1>1. a \in Nat /\ l \in Nat /\ hi \in Nat /\ a <= hi /\ hi <= l /\ DOMAIN q = 1..a /\ DOMAIN s = 1..l
    BY <1>0
  <1>2. Len(u) = hi - a /\ \A j \in 1..(hi - a) : u[j] = s[j + a]
    BY <1>0, <1>1
  <1>3. DOMAIN c = 1..(hi - a) /\ Len(c) = hi - a
    BY <1>0, <1>1, <1>2
  <1> PICK r : r = q \o c
    OBVIOUS
  <1>4. /\ r \in Seq(T) /\ Len(r) = hi /\ DOMAIN r = 1..hi
        /\ \A n \in 1..a : r[n] = q[n]
        /\ \A n \in (a + 1)..hi : r[n] = c[n - a]
    BY <1>0, <1>1, <1>3
  <1>5. ASSUME NEW n \in 1..hi PROVE n \in DOMAIN s /\ r[n].key = s[n]
    <2>1. n \in DOMAIN s
      BY <1>1
    <2>2. CASE n \in 1..a
      BY <1>0, <1>1, <1>4, <2>1, <2>2 DEF KeyedBy
    <2>3. CASE n \in (a + 1)..hi
      <3> PICK j : j = n - a
        OBVIOUS
      <3>1. j \in 1..(hi - a) /\ j + a = n
        BY <1>1, <2>3
      <3>2. c[j].key = u[j]
        BY <1>0, <1>3, <3>1 DEF KeyedBy
      <3>3. u[j] = s[n]
        BY <1>2, <3>1
      <3>4. r[n] = c[j]
        BY <1>4, <2>3, <3>1
      <3> PICK x, y : x = r[n] /\ y = s[n]
        OBVIOUS
      <3>5. c[j] = x /\ u[j] = y
        BY <3>3, <3>4
      <3>6. x.key = y
        BY <3>2, <3>5
      <3> QED BY <2>1, <3>6
    <2>4. n \in 1..a \/ n \in (a + 1)..hi
      BY <1>1
    <2> QED BY <2>2, <2>3, <2>4
  <1> QED BY <1>4, <1>5 DEF KeyedBy

------------------------------------------------------------------------------
(* Sums over finite sets: SumFunctionOnSet chooses an element and adds the *)
(* sum of the others; for any choice the sum over one element more is the  *)
(* sum and the value of that element.                                      *)

(* One step of the sum over a set, and the sum over all subsets of a set.  *)
One(s) == CHOOSE x \in s : TRUE
More(g, f, s) == f[One(s)] + g[s \ {One(s)}]
SumsOver(g, f, P) == [s \in P |-> IF s = {} THEN 0 ELSE More(g, f, s)]
UpToSize(U, n) == {s \in SUBSET U : Cardinality(s) <= n}

(* The sum over a set is the value there of a function like that.          *)
LEMMA SumDef ==
  ASSUME NEW f, NEW U
  PROVE  SumFunctionOnSet(f, U) = (CHOOSE g : g = SumsOver(g, f, SUBSET U))[U]
  BY DEF SumFunctionOnSet, FoldFunctionOnSet, MapThenFoldSet, SumsOver, More, One

(* A set that is not empty, without the element the sum starts with.       *)
LEMMA WithoutOne ==
  ASSUME NEW s, IsFiniteSet(s), s # {}
  PROVE  /\ One(s) \in s /\ IsFiniteSet(s \ {One(s)})
         /\ Cardinality(s) \in Nat \ {0} /\ Cardinality(s \ {One(s)}) = Cardinality(s) - 1
<1>1. One(s) \in s
  BY DEF One
<1>2. IsFiniteSet(s \ {One(s)}) /\ Cardinality(s \ {One(s)}) = Cardinality(s) - 1
  BY <1>1, FS_RemoveElement
<1>3. Cardinality(s) \in Nat /\ Cardinality(s) # 0
  BY FS_CardinalityType, FS_EmptySet
<1> QED BY <1>1, <1>2, <1>3

(* There is such a function on the subsets of every size.                  *)
LEMMA SumsExist ==
  ASSUME NEW f, NEW U, IsFiniteSet(U)
  PROVE  \E g : g = SumsOver(g, f, SUBSET U)
<1> PICK T : T = {n \in Nat : \E g : g = SumsOver(g, f, UpToSize(U, n))}
  OBVIOUS
<1>0. \A s \in SUBSET U : IsFiniteSet(s) /\ Cardinality(s) \in Nat /\ Cardinality(s) <= Cardinality(U)
  BY FS_Subset, FS_CardinalityType
<1>1. 0 \in T
  <2>1. PICK g : g = [s \in UpToSize(U, 0) |-> 0]
    OBVIOUS
  <2>2. \A s \in UpToSize(U, 0) : s = {}
    BY <1>0, FS_EmptySet DEF UpToSize
  <2>3. g = SumsOver(g, f, UpToSize(U, 0))
    BY <2>1, <2>2 DEF SumsOver
  <2> QED BY <2>3
<1>2. ASSUME NEW n \in T PROVE n + 1 \in T
  <2>0. n \in Nat
    OBVIOUS
  <2>1. PICK h : h = SumsOver(h, f, UpToSize(U, n))
    OBVIOUS
  <2>2. PICK g : g = [s \in UpToSize(U, n + 1) |-> IF s \in UpToSize(U, n) THEN h[s] ELSE More(h, f, s)]
    OBVIOUS
  <2>3. UpToSize(U, n) \subseteq UpToSize(U, n + 1)
    BY <1>0, <2>0 DEF UpToSize
  <2>4. \A s \in UpToSize(U, n) : g[s] = h[s]
    BY <2>2, <2>3
  <2>5. \A s \in UpToSize(U, n + 1) : s # {} => More(g, f, s) = More(h, f, s)
    <3> SUFFICES ASSUME NEW s \in UpToSize(U, n + 1), s # {} PROVE s \ {One(s)} \in UpToSize(U, n)
      BY <2>4 DEF More
    <3>1. s \in SUBSET U /\ Cardinality(s) <= n + 1 /\ IsFiniteSet(s)
      BY <1>0 DEF UpToSize
    <3>2. Cardinality(s) \in Nat /\ Cardinality(s \ {One(s)}) = Cardinality(s) - 1
      BY <3>1, WithoutOne
    <3>3. s \ {One(s)} \in SUBSET U /\ Cardinality(s \ {One(s)}) <= n
      BY <2>0, <3>1, <3>2
    <3> QED BY <3>3 DEF UpToSize
  <2>6. ASSUME NEW s \in UpToSize(U, n + 1) PROVE g[s] = IF s = {} THEN 0 ELSE More(g, f, s)
    <3>1. CASE s \in UpToSize(U, n)
      <4>1. h[s] = IF s = {} THEN 0 ELSE More(h, f, s)
        BY <2>1, <3>1 DEF SumsOver
      <4> QED BY <2>4, <2>5, <3>1, <4>1
    <3>2. CASE s \notin UpToSize(U, n)
      <4>0. Cardinality({}) = 0 /\ 0 <= n
        BY <2>0, FS_EmptySet
      <4>1. s # {}
        BY <3>2, <4>0 DEF UpToSize
      <4>2. g[s] = More(h, f, s)
        BY <2>2, <3>2
      <4> QED BY <2>5, <4>1, <4>2
    <3> QED BY <3>1, <3>2
  <2>7. g = [s \in UpToSize(U, n + 1) |-> IF s = {} THEN 0 ELSE More(g, f, s)]
    BY <2>2, <2>6
  <2>8. g = SumsOver(g, f, UpToSize(U, n + 1))
    BY <2>7 DEF SumsOver
  <2> QED BY <2>0, <2>8
<1>3. T = Nat
  BY <1>1, <1>2, Induction
<1>4. PICK m : m = Cardinality(U)
  OBVIOUS
<1>5. m \in T
  BY <1>3, <1>4, FS_CardinalityType
<1>6. UpToSize(U, m) = SUBSET U
  BY <1>0, <1>4 DEF UpToSize
<1> QED BY <1>5, <1>6

(* Such a function adds element by element.                                *)
AddsUp(g, f, U) == g[{}] = 0 /\ \A s \in SUBSET U : s # {} => g[s] = f[One(s)] + g[s \ {One(s)}]

(* Such a function is nothing for nothing, and one element more for a set. *)
LEMMA SumsRec ==
  ASSUME NEW g, NEW f, NEW U, g = SumsOver(g, f, SUBSET U)
  PROVE  AddsUp(g, f, U)
<1>1. g = [s \in SUBSET U |-> IF s = {} THEN 0 ELSE More(g, f, s)]
  BY DEF SumsOver
<1>2. \A s \in SUBSET U : g[s] = IF s = {} THEN 0 ELSE More(g, f, s)
  BY <1>1
<1> QED BY <1>2 DEF More, AddsUp

(* The sum over a set depends on the set and its values alone.             *)
LEMMA SumLocal ==
  ASSUME NEW f, NEW e, NEW U, NEW V, NEW g, NEW h, g = SumsOver(g, f, SUBSET U), h = SumsOver(h, e, SUBSET V),
         NEW S, S \subseteq U, S \subseteq V, IsFiniteSet(S), \A x \in S : f[x] = e[x]
  PROVE  g[S] = h[S]
<1> PICK T : T = {n \in Nat : \A s \in SUBSET S : Cardinality(s) = n => g[s] = h[s]}
  OBVIOUS
<1>0. \A s \in SUBSET S : IsFiniteSet(s) /\ Cardinality(s) \in Nat
  BY FS_Subset, FS_CardinalityType
<1>1. 0 \in T
  <2>1. \A s \in SUBSET S : Cardinality(s) = 0 => s = {}
    BY <1>0, FS_EmptySet
  <2>2. g[{}] = 0 /\ h[{}] = 0
    BY SumsRec DEF AddsUp
  <2> QED BY <2>1, <2>2
<1>2. ASSUME NEW n \in T PROVE n + 1 \in T
  <2> SUFFICES ASSUME NEW s \in SUBSET S, Cardinality(s) = n + 1 PROVE g[s] = h[s]
    OBVIOUS
  <2>7. Cardinality({}) = 0
    BY FS_EmptySet
  <2>0. n \in Nat /\ s # {}
    BY <2>7
  <2>1. PICK o : o = One(s)
    OBVIOUS
  <2>2. o \in S /\ s \ {o} \in SUBSET S /\ Cardinality(s \ {o}) = (n + 1) - 1
    BY <1>0, <2>0, <2>1, WithoutOne
  <2>3. Cardinality(s \ {o}) = n
    BY <2>0, <2>2
  <2>4. g[s \ {o}] = h[s \ {o}]
    BY <2>2, <2>3
  <2>5. g[s] = f[o] + g[s \ {o}] /\ h[s] = e[o] + h[s \ {o}]
    <3>1. s \in SUBSET U /\ s \in SUBSET V
      OBVIOUS
    <3>2. AddsUp(g, f, U) /\ AddsUp(h, e, V)
      BY SumsRec
    <3> QED BY <2>0, <2>1, <2>2, <3>1, <3>2 DEF AddsUp
  <2> QED BY <2>2, <2>4, <2>5
<1>3. T = Nat
  BY <1>1, <1>2, Induction
<1>4. S \in SUBSET S /\ Cardinality(S) \in T
  BY <1>0, <1>3
<1> QED BY <1>4

(* The sums of all subsets.                                                *)
HasSums(f, U) == \E g : g = SumsOver(g, f, SUBSET U) /\ \A S \in SUBSET U : SumFunctionOnSet(f, S) = g[S]

(* A sum is the value of such a function.                                  *)
LEMMA SumValue ==
  ASSUME NEW f, NEW U, IsFiniteSet(U)
  PROVE  HasSums(f, U)
<1>1. PICK g : g = SumsOver(g, f, SUBSET U)
  BY SumsExist
<1>2. ASSUME NEW S \in SUBSET U PROVE SumFunctionOnSet(f, S) = g[S]
  <2>1. IsFiniteSet(S)
    BY FS_Subset
  <2>2. PICK h : h = (CHOOSE k : k = SumsOver(k, f, SUBSET S))
    OBVIOUS
  <2>3. h = SumsOver(h, f, SUBSET S)
    BY <2>1, <2>2, SumsExist
  <2>4. h[S] = g[S]
    BY <1>1, <2>1, <2>3, SumLocal
  <2> QED BY <2>2, <2>4, SumDef
<1> QED BY <1>1, <1>2 DEF HasSums

(* The same values have the same sum.                                      *)
LEMMA SumSame ==
  ASSUME NEW f, NEW e, NEW S, IsFiniteSet(S), \A x \in S : f[x] = e[x]
  PROVE  SumFunctionOnSet(f, S) = SumFunctionOnSet(e, S)
<1>0. HasSums(f, S) /\ HasSums(e, S)
  BY SumValue
<1>1. PICK g : g = SumsOver(g, f, SUBSET S) /\ \A R \in SUBSET S : SumFunctionOnSet(f, R) = g[R]
  BY <1>0 DEF HasSums
<1>2. PICK h : h = SumsOver(h, e, SUBSET S) /\ \A R \in SUBSET S : SumFunctionOnSet(e, R) = h[R]
  BY <1>0 DEF HasSums
<1>3. g[S] = h[S]
  BY <1>1, <1>2, SumLocal
<1> QED BY <1>1, <1>2, <1>3

(* One more, whichever it is: the order of the additions does not matter.  *)
LEMMA SumMore ==
  ASSUME NEW f, NEW S, IsFiniteSet(S), NEW x, x \notin S, \A y \in S \cup {x} : f[y] \in Nat
  PROVE  /\ SumFunctionOnSet(f, S) \in Nat
         /\ SumFunctionOnSet(f, S \cup {x}) = SumFunctionOnSet(f, S) + f[x]
<1>0. PICK U : U = S \cup {x}
  OBVIOUS
<1>1. IsFiniteSet(U)
  BY <1>0, FS_AddElement
<1>2. PICK g : g = SumsOver(g, f, SUBSET U) /\ \A R \in SUBSET U : SumFunctionOnSet(f, R) = g[R]
  <2>1. HasSums(f, U)
    BY <1>1, SumValue
  <2> QED BY <2>1 DEF HasSums
<1>3. g[{}] = 0 /\ \A s \in SUBSET U : s # {} => g[s] = f[One(s)] + g[s \ {One(s)}]
  <2>1. AddsUp(g, f, U)
    BY <1>2, SumsRec
  <2> QED BY <2>1 DEF AddsUp
<1>4. \A s \in SUBSET U : IsFiniteSet(s) /\ Cardinality(s) \in Nat
  BY <1>1, FS_Subset, FS_CardinalityType
<1> PICK T : T = {n \in Nat : \A s \in SUBSET U : \A y \in U \ s :
                    Cardinality(s) = n => g[s] \in Nat /\ g[s \cup {y}] = g[s] + f[y]}
  OBVIOUS
<1>5. ASSUME NEW s \in SUBSET U, NEW y \in U \ s, g[s] \in Nat, One(s \cup {y}) = y
      PROVE  g[s \cup {y}] = g[s] + f[y]
  <2>1. s \cup {y} \in SUBSET U /\ s \cup {y} # {} /\ (s \cup {y}) \ {y} = s
    OBVIOUS
  <2>2. g[s \cup {y}] = f[y] + g[s]
    BY <1>3, <1>5, <2>1
  <2>3. f[y] \in Nat
    BY <1>0
  <2> QED BY <1>5, <2>2, <2>3
<1>6. 0 \in T
  <2> SUFFICES ASSUME NEW s \in SUBSET U, NEW y \in U \ s, Cardinality(s) = 0
               PROVE  g[s] \in Nat /\ g[s \cup {y}] = g[s] + f[y]
    OBVIOUS
  <2>1. s = {} /\ g[s] = 0
    BY <1>3, <1>4, FS_EmptySet
  <2>2. One(s \cup {y}) = y
    BY <2>1 DEF One
  <2> QED BY <1>5, <2>1, <2>2
<1>7. ASSUME NEW n \in T PROVE n + 1 \in T
  <2> SUFFICES ASSUME NEW s \in SUBSET U, NEW y \in U \ s, Cardinality(s) = n + 1
               PROVE  g[s] \in Nat /\ g[s \cup {y}] = g[s] + f[y]
    OBVIOUS
  <2>0. n \in Nat
    OBVIOUS
  <2>1. \A r \in SUBSET U : \A z \in U \ r : Cardinality(r) = n => g[r] \in Nat /\ g[r \cup {z}] = g[r] + f[z]
    OBVIOUS
  <2>2. \A c \in s : c \in U /\ s \ {c} \in SUBSET U /\ Cardinality(s \ {c}) = n /\ (s \ {c}) \cup {c} = s
    <3> SUFFICES ASSUME NEW c \in s PROVE Cardinality(s \ {c}) = n
      OBVIOUS
    <3>1. Cardinality(s \ {c}) = (n + 1) - 1
      BY <1>4, FS_RemoveElement
    <3> QED BY <2>0, <3>1
  <2>3. \A c \in s : g[s \ {c}] \in Nat /\ g[s] = g[s \ {c}] + f[c]
    <3> SUFFICES ASSUME NEW c \in s PROVE g[s \ {c}] \in Nat /\ g[s] = g[s \ {c}] + f[c]
      OBVIOUS
    <3>1. c \in U \ (s \ {c}) /\ s \ {c} \in SUBSET U /\ Cardinality(s \ {c}) = n
      BY <2>2
    <3>2. g[s \ {c}] \in Nat /\ g[(s \ {c}) \cup {c}] = g[s \ {c}] + f[c]
      BY <2>1, <3>1
    <3> QED BY <2>2, <3>2
  <2>9. Cardinality({}) = 0
    BY FS_EmptySet
  <2>10. Cardinality(s) # 0
    BY <2>0
  <2>4. s # {}
    BY <2>9, <2>10
  <2>5. PICK c \in s : TRUE
    BY <2>4
  <2>6. g[s] \in Nat
    <3>1. f[c] \in Nat /\ g[s \ {c}] \in Nat /\ g[s] = g[s \ {c}] + f[c]
      BY <1>0, <2>2, <2>3, <2>5
    <3>2. PICK i \in Nat, j \in Nat : i = g[s \ {c}] /\ j = f[c]
      BY <3>1
    <3> QED BY <3>1, <3>2
  <2>7. CASE One(s \cup {y}) = y
    BY <1>5, <2>6, <2>7
  <2>8. CASE One(s \cup {y}) # y
    <3>1. PICK o : o = One(s \cup {y})
      OBVIOUS
    <3>2. o \in s
      BY <2>8, <3>1 DEF One
    <3>3. /\ s \cup {y} \in SUBSET U /\ s \cup {y} # {} /\ (s \cup {y}) \ {o} = (s \ {o}) \cup {y}
          /\ y \in U \ (s \ {o})
      BY <3>2
    <3>4. g[s \cup {y}] = f[o] + g[(s \ {o}) \cup {y}]
      BY <1>3, <3>1, <3>3
    <3>5. g[(s \ {o}) \cup {y}] = g[s \ {o}] + f[y]
      BY <2>1, <2>2, <3>2, <3>3
    <3>6. g[s \ {o}] \in Nat /\ g[s] = g[s \ {o}] + f[o]
      BY <2>3, <3>2
    <3>7. f[o] \in Nat /\ f[y] \in Nat
      BY <1>0, <3>2
    <3> QED BY <2>6, <3>4, <3>5, <3>6, <3>7
  <2> QED BY <2>6, <2>7, <2>8
<1>8. T = Nat
  BY <1>6, <1>7, Induction
<1>9. S \in SUBSET U /\ x \in U \ S /\ Cardinality(S) \in T /\ S \cup {x} \in SUBSET U
  BY <1>0, <1>4, <1>8
<1>10. g[S] \in Nat /\ g[S \cup {x}] = g[S] + f[x]
  BY <1>9
<1> QED BY <1>2, <1>9, <1>10

(* The sum over nothing.                                                   *)
LEMMA SumNone ==
  ASSUME NEW f
  PROVE  SumFunctionOnSet(f, {}) = 0
<1>1. IsFiniteSet({})
  BY FS_EmptySet
<1>2. PICK g : g = SumsOver(g, f, SUBSET {}) /\ \A S \in SUBSET {} : SumFunctionOnSet(f, S) = g[S]
  <2>1. HasSums(f, {})
    BY <1>1, SumValue
  <2> QED BY <2>1 DEF HasSums
<1>3. AddsUp(g, f, {})
  BY <1>2, SumsRec
<1>4. g[{}] = 0
  BY <1>3 DEF AddsUp
<1> QED BY <1>2, <1>4

(* A set of numbers up to a bound has a largest.                           *)
LEMMA MaxOfNats ==
  ASSUME NEW n \in Nat, NEW ids, ids \subseteq 0..n, ids # {}
  PROVE  \E x \in ids : \A y \in ids : x >= y
<1>1. PICK T : T = {k \in Nat : \E x \in ids : k = n - x}
  OBVIOUS
<1>2. T # {}
  <2>1. PICK x \in ids : TRUE
    OBVIOUS
  <2>2. n - x \in T
    BY <1>1, <2>1
  <2> QED BY <2>2
<1>3. PICK k \in T : \A m \in T : k <= m
  <2>1. T \in SUBSET Nat
    BY <1>1
  <2> QED BY <1>2, <2>1, LeastNat
<1>4. PICK x \in ids : k = n - x
  BY <1>1
<1>5. ASSUME NEW y \in ids PROVE x >= y
  <2>1. n - y \in T
    BY <1>1
  <2>2. n - x <= n - y
    BY <1>3, <1>4, <2>1
  <2> QED BY <2>2
<1> QED BY <1>5

(* As many places, as long.                                                *)
LEMMA SameLength ==
  ASSUME NEW S, NEW r \in Seq(S), NEW t \in Seq(S), DOMAIN r = DOMAIN t
  PROVE  Len(r) = Len(t)
<1>1. PICK m \in Nat, n \in Nat : m = Len(r) /\ n = Len(t)
  OBVIOUS
<1>2. 1..m = 1..n
  BY <1>1
<1>3. m = n
  <2>1. m # 0 => m \in 1..m
    BY <1>1
  <2>2. n # 0 => n \in 1..n
    BY <1>1
  <2> QED BY <1>2, <2>1, <2>2
<1> QED BY <1>1, <1>3

(* A list whose elements, or some field of them, are of a set.             *)
LEMMA Narrower ==
  ASSUME NEW S, NEW T, NEW s \in Seq(S), \A n \in DOMAIN s : s[n] \in T
  PROVE  s \in Seq(T)
  OBVIOUS

(* The ids of a list of lines.                                             *)
LEMMA EachOf ==
  ASSUME NEW S, NEW T, NEW s \in Seq(S), \A n \in DOMAIN s : s[n].id \in T,
         NEW ids, ids = [n \in DOMAIN s |-> s[n].id]
  PROVE  ids \in Seq(T)
<1> PICK m : m = Len(s)
  OBVIOUS
<1>1. m \in Nat /\ DOMAIN s = 1..m
  OBVIOUS
<1>2. ids = [n \in 1..m |-> s[n].id] /\ \A n \in 1..m : s[n].id \in T
  BY <1>1
<1> QED BY <1>1, <1>2

(* A set of positions that is not empty has a last one.                    *)
LEMMA Greatest ==
  ASSUME NEW n \in Nat, NEW T \in SUBSET (1..n), T # {}
  PROVE  \E m \in T : \A j \in T : j <= m
<1> PICK U : U = {k \in Nat : k <= n /\ n - k \in T}
  OBVIOUS
<1>1. U \in SUBSET Nat /\ U # {}
  <2>1. PICK j \in T : TRUE
    OBVIOUS
  <2>2. n - j \in Nat /\ n - j <= n /\ n - (n - j) = j
    BY <2>1
  <2> QED BY <2>2
<1>2. PICK k \in U : \A l \in U : k <= l
  BY <1>1, LeastNat
<1>3. n - k \in T /\ k \in Nat
  BY <1>2
<1>4. ASSUME NEW j \in T PROVE j <= n - k
  <2>1. n - j \in Nat /\ n - j <= n /\ n - (n - j) = j
    OBVIOUS
  <2>2. k <= n - j
    BY <1>2, <2>1
  <2> QED BY <1>3, <2>1, <2>2
<1> QED BY <1>3, <1>4

(* A sum over more elements with greater values is not smaller.            *)
LEMMA SumLess ==
  ASSUME NEW f, NEW e, NEW S, IsFiniteSet(S), NEW R, R \subseteq S,
         \A x \in R : f[x] \in Nat, \A x \in S : e[x] \in Nat, \A x \in R : f[x] <= e[x]
  PROVE  /\ SumFunctionOnSet(f, R) \in Nat /\ SumFunctionOnSet(e, S) \in Nat
         /\ SumFunctionOnSet(f, R) <= SumFunctionOnSet(e, S)
<1> DEFINE Less(Q) == /\ SumFunctionOnSet(f, Q \cap R) \in Nat /\ SumFunctionOnSet(e, Q) \in Nat
                      /\ SumFunctionOnSet(f, Q \cap R) <= SumFunctionOnSet(e, Q)
<1> PICK T : T = {n \in Nat : \A Q \in SUBSET S : Cardinality(Q) = n => Less(Q)}
  OBVIOUS
<1>0. \A Q \in SUBSET S : IsFiniteSet(Q) /\ Cardinality(Q) \in Nat
  BY FS_Subset, FS_CardinalityType
<1>1. 0 \in T
  <2>1. \A Q \in SUBSET S : Cardinality(Q) = 0 => Q = {}
    BY <1>0, FS_EmptySet
  <2>2. Less({})
    <3>1. {} \cap R = {}
      OBVIOUS
    <3> QED BY <3>1, SumNone
  <2> QED BY <2>1, <2>2
<1>2. ASSUME NEW n \in T PROVE n + 1 \in T
  <2> SUFFICES ASSUME NEW Q \in SUBSET S, Cardinality(Q) = n + 1 PROVE Less(Q)
    OBVIOUS
  <2>0. n \in Nat /\ Cardinality({}) = 0
    BY FS_EmptySet
  <2>1. PICK x \in Q : TRUE
    BY <2>0
  <2>2. PICK P : P = Q \ {x}
    OBVIOUS
  <2>3. P \in SUBSET S /\ Q = P \cup {x} /\ x \notin P
    BY <2>2
  <2>4. Cardinality(P) = n
    <3>1. Cardinality(P) = Cardinality(Q) - 1
      BY <1>0, <2>2, FS_RemoveElement
    <3> QED BY <2>0, <3>1
  <2>5. Less(P)
    BY <2>3, <2>4
  <2>6. SumFunctionOnSet(e, Q) = SumFunctionOnSet(e, P) + e[x] /\ e[x] \in Nat
    <3>1. IsFiniteSet(P) /\ x \notin P /\ \A y \in P \cup {x} : e[y] \in Nat
      BY <1>0, <2>3
    <3>2. SumFunctionOnSet(e, P \cup {x}) = SumFunctionOnSet(e, P) + e[x]
      BY <3>1, SumMore
    <3> QED BY <2>3, <3>1, <3>2
  <2>7. CASE x \in R
    <3>1. PICK O : O = P \cap R
      OBVIOUS
    <3>2. Q \cap R = O \cup {x} /\ x \notin O /\ O \subseteq S
      BY <2>3, <2>7, <3>1
    <3>3. IsFiniteSet(O) /\ \A y \in O \cup {x} : f[y] \in Nat
      BY <1>0, <2>7, <3>1, <3>2
    <3>4. SumFunctionOnSet(f, O \cup {x}) = SumFunctionOnSet(f, O) + f[x]
      BY <3>2, <3>3, SumMore
    <3>5. f[x] \in Nat /\ f[x] <= e[x]
      BY <2>7
    <3>6. PICK s, t, u, v : /\ s = SumFunctionOnSet(f, O) /\ t = SumFunctionOnSet(e, P)
                            /\ u = SumFunctionOnSet(f, O \cup {x}) /\ v = SumFunctionOnSet(e, Q)
      OBVIOUS
    <3>7. s \in Nat /\ t \in Nat /\ s <= t /\ u = s + f[x] /\ v = t + e[x]
      BY <2>5, <2>6, <3>1, <3>4, <3>6
    <3>8. u \in Nat /\ v \in Nat /\ u <= v
      BY <2>6, <3>5, <3>7
    <3> QED BY <3>2, <3>6, <3>8
  <2>8. CASE x \notin R
    <3>1. Q \cap R = P \cap R
      BY <2>3, <2>8
    <3>2. PICK s, t, v : s = SumFunctionOnSet(f, P \cap R) /\ t = SumFunctionOnSet(e, P) /\ v = SumFunctionOnSet(e, Q)
      OBVIOUS
    <3>3. s \in Nat /\ t \in Nat /\ s <= t /\ v = t + e[x]
      BY <2>5, <2>6, <3>2
    <3>4. v \in Nat /\ s <= v
      BY <2>6, <3>3
    <3> QED BY <3>1, <3>2, <3>3, <3>4
  <2> QED BY <2>7, <2>8
<1>3. T = Nat
  BY <1>1, <1>2, Induction
<1>4. S \in SUBSET S /\ Cardinality(S) \in T /\ S \cap R = R
  BY <1>0, <1>3
<1>5. Less(S)
  BY <1>4
<1> QED BY <1>4, <1>5

(* Six elements are finitely many.                                         *)
LEMMA SixFinite ==
  ASSUME NEW a, NEW b, NEW c, NEW d, NEW e, NEW f
  PROVE  IsFiniteSet({a, b, c, d, e, f})
<1>1. IsFiniteSet({a}) /\ IsFiniteSet({a} \cup {b})
  BY FS_Singleton, FS_AddElement
<1>2. IsFiniteSet(({a} \cup {b}) \cup {c})
  BY <1>1, FS_AddElement
<1>3. IsFiniteSet((({a} \cup {b}) \cup {c}) \cup {d})
  BY <1>2, FS_AddElement
<1>4. IsFiniteSet(((({a} \cup {b}) \cup {c}) \cup {d}) \cup {e})
  BY <1>3, FS_AddElement
<1>5. IsFiniteSet((((({a} \cup {b}) \cup {c}) \cup {d}) \cup {e}) \cup {f})
  BY <1>4, FS_AddElement
<1>6. {a, b, c, d, e, f} = (((({a} \cup {b}) \cup {c}) \cup {d}) \cup {e}) \cup {f}
  OBVIOUS
<1> QED BY <1>5, <1>6

(* A list with lines is one line more than its beginning.                  *)
LEMMA LastLine ==
  ASSUME NEW S, NEW s \in Seq(S), NEW n \in Nat, Len(s) = n + 1
  PROVE  /\ SubSeq(s, 1, n) \in Seq(S) /\ Len(SubSeq(s, 1, n)) = n /\ s[n + 1] \in S
         /\ s = Append(SubSeq(s, 1, n), s[n + 1])
<1>1. n \in 0..Len(s)
  OBVIOUS
<1>2. /\ SubSeq(s, 1, n) \in Seq(S) /\ Len(SubSeq(s, 1, n)) = n
      /\ \A k \in 1..n : SubSeq(s, 1, n)[k] = s[k]
  BY <1>1, Prefix
<1>3. PICK r : r = SubSeq(s, 1, n)
  OBVIOUS
<1>4. s[n + 1] \in S
  OBVIOUS
<1>5. PICK t : t = Append(r, s[n + 1])
  OBVIOUS
<1>6. t \in Seq(S) /\ Len(t) = n + 1 /\ t[n + 1] = s[n + 1] /\ \A k \in 1..n : t[k] = s[k]
  BY <1>2, <1>3, <1>4, <1>5, Appended
<1>7. s \in [1..n + 1 -> S] /\ t \in [1..n + 1 -> S]
  BY <1>6
<1>8. \A k \in 1..n + 1 : t[k] = s[k]
  BY <1>6
<1>9. t = s
  BY <1>7, <1>8
<1> QED BY <1>2, <1>3, <1>4, <1>5, <1>9

(* Nothing, or one line, at the end of a list.                             *)
LEMMA WithGap ==
  ASSUME NEW S, NEW s \in Seq(S)
  PROVE  s \o <<>> = s /\ \A b \in S : s \o <<b>> = Append(s, b)
OBVIOUS
================================================================================
