---------------------------- MODULE DecodeProofs ----------------------------
(***************************************************************************)
(* What the operators of Alu and Decode return, for every width of a       *)
(* register: words and their bits, the data paths, the fields.             *)
(***************************************************************************)
EXTENDS Decode, TLAPS, WellFoundedInduction

(***************************************************************************)
(* Induction on numbers, in the form the provers can use: over a set.      *)
(***************************************************************************)
LEMMA LeastOf ==
    ASSUME NEW S \in SUBSET Nat, NEW k \in S
    PROVE  \E m \in S : \A n \in Nat : n < m => n \notin S
  <1> DEFINE Less == {p \in Nat \X Nat : p[1] < p[2]}
  <1>1. IsWellFoundedOn(Less, Nat)
    BY NatLessThanWellFounded DEF OpToRel
  <1>2. PICK m \in S : \A n \in S : <<n, m>> \notin Less
    BY <1>1, WFMin
  <1>3. ASSUME NEW n \in Nat, n < m PROVE n \notin S
    BY <1>2, <1>3
  <1> QED BY <1>3

LEMMA Induct ==
    ASSUME NEW S, 0 \in S, \A n \in Nat : n \in S => n + 1 \in S
    PROVE  \A n \in Nat : n \in S
  <1> DEFINE rest == Nat \ S
  <1>1. ASSUME NEW m \in rest, \A n \in Nat : n < m => n \notin rest PROVE FALSE
    <2>1. m # 0 /\ m \in Nat
      OBVIOUS
    <2>2. m - 1 \in Nat /\ m - 1 < m /\ (m - 1) + 1 = m
      BY <2>1
    <2>3. m - 1 \in S
      BY <1>1, <2>2
    <2> QED BY <2>2, <2>3
  <1>2. rest \in SUBSET Nat
    OBVIOUS
  <1> HIDE DEF rest
  <1>3. rest = {}
    BY <1>1, <1>2, LeastOf
  <1> QED BY <1>3 DEF rest

\* The beginnings of a function given by its first value and its next one.
Beginnings(b, g, n) ==
    {f \in [0 .. n -> Nat] :
        f[0] = b /\ \A i \in 0 .. n - 1 : f[i + 1] = g[<<i, f[i]>>]}

LEMMA BeginningsExist ==
    ASSUME NEW b \in Nat, NEW g \in [Nat \X Nat -> Nat], NEW n \in Nat
    PROVE  Beginnings(b, g, n) # {}
  <1> DEFINE S == {k \in Nat : Beginnings(b, g, k) # {}}
  <1>1. 0 \in S
    <2>1. [i \in 0 .. 0 |-> b] \in Beginnings(b, g, 0)
      BY DEF Beginnings
    <2> QED BY <2>1
  <1>2. ASSUME NEW k \in Nat, k \in S PROVE k + 1 \in S
    <2>1. PICK f : f \in Beginnings(b, g, k)
      BY <1>2
    <2> DEFINE h == [i \in 0 .. k + 1 |-> IF i = k + 1 THEN g[<<k, f[k]>>] ELSE f[i]]
    <2>2. f \in [0 .. k -> Nat] /\ f[0] = b /\ \A i \in 0 .. k - 1 : f[i + 1] = g[<<i, f[i]>>]
      BY <2>1 DEF Beginnings
    <2>3. g[<<k, f[k]>>] \in Nat
      <3>1. <<k, f[k]>> \in Nat \X Nat
        BY <2>2
      <3> QED BY <3>1
    <2>4. h \in [0 .. k + 1 -> Nat]
      BY <2>2, <2>3
    <2>5. h[0] = b
      BY <2>2
    <2>6. ASSUME NEW i \in 0 .. (k + 1) - 1 PROVE h[i + 1] = g[<<i, h[i]>>]
      <3>1. CASE i = k
        <4>1. h[k + 1] = g[<<k, f[k]>>] /\ h[k] = f[k]
          OBVIOUS
        <4> HIDE DEF h
        <4> QED BY <3>1, <4>1
      <3>2. CASE i # k
        <4>1. i \in 0 .. k - 1 /\ i + 1 \in 0 .. k /\ i + 1 # k + 1 /\ i # k + 1
          BY <3>2
        <4> QED BY <2>2, <4>1
      <3> QED BY <3>1, <3>2
    <2> HIDE DEF h
    <2>7. h \in Beginnings(b, g, k + 1)
      BY <2>4, <2>5, <2>6 DEF Beginnings
    <2> QED BY <2>7
  <1> HIDE DEF S
  <1>3. n \in S
    BY <1>1, <1>2, Induct
  <1> QED BY <1>3 DEF S

LEMMA BeginningsAgree ==
    ASSUME NEW b \in Nat, NEW g \in [Nat \X Nat -> Nat], NEW n \in Nat, NEW m \in Nat,
           NEW f \in Beginnings(b, g, n), NEW h \in Beginnings(b, g, m)
    PROVE  \A i \in Nat : i <= n /\ i <= m => f[i] = h[i]
  <1> DEFINE S == {i \in Nat : i <= n /\ i <= m => f[i] = h[i]}
  <1>1. 0 \in S
    BY DEF Beginnings
  <1>2. ASSUME NEW i \in Nat, i \in S PROVE i + 1 \in S
    <2> SUFFICES ASSUME i + 1 <= n, i + 1 <= m PROVE f[i + 1] = h[i + 1]
      OBVIOUS
    <2>1. f[i] = h[i] /\ i \in 0 .. n - 1 /\ i \in 0 .. m - 1
      BY <1>2
    <2> QED BY <2>1 DEF Beginnings
  <1> HIDE DEF S
  <1>3. \A i \in Nat : i \in S
    BY <1>1, <1>2, Induct
  <1> QED BY <1>3 DEF S

LEMMA Recursion ==
    ASSUME NEW b \in Nat, NEW g \in [Nat \X Nat -> Nat]
    PROVE  \E f \in [Nat -> Nat] : f[0] = b /\ \A i \in Nat : f[i + 1] = g[<<i, f[i]>>]
  <1> DEFINE B(n) == CHOOSE f : f \in Beginnings(b, g, n)
             f == [n \in Nat |-> B(n)[n]]
  <1>1. ASSUME NEW n \in Nat PROVE B(n) \in Beginnings(b, g, n)
    BY BeginningsExist
  <1> HIDE DEF B
  <1>2. f \in [Nat -> Nat]
    BY <1>1 DEF Beginnings
  <1>3. f[0] = b
    <2>1. B(0) \in Beginnings(b, g, 0)
      BY <1>1
    <2> QED BY <2>1 DEF Beginnings
  <1>4. ASSUME NEW i \in Nat PROVE f[i + 1] = g[<<i, f[i]>>]
    <2>1. B(i) \in Beginnings(b, g, i) /\ B(i + 1) \in Beginnings(b, g, i + 1)
      BY <1>1
    <2>2. B(i)[i] = B(i + 1)[i]
      <3> DEFINE p == B(i)  q == B(i + 1)
      <3>1. p \in Beginnings(b, g, i) /\ q \in Beginnings(b, g, i + 1) /\ i + 1 \in Nat
        BY <2>1
      <3> HIDE DEF p, q
      <3>2. \A j \in Nat : j <= i /\ j <= i + 1 => p[j] = q[j]
        BY <3>1, BeginningsAgree
      <3>3. p[i] = q[i]
        BY <3>2
      <3> QED BY <3>3 DEF p, q
    <2>3. B(i + 1)[i + 1] = g[<<i, B(i + 1)[i]>>]
      BY <2>1 DEF Beginnings
    <2> QED BY <2>2, <2>3
  <1> HIDE DEF f
  <1> QED BY <1>2, <1>3, <1>4
------------------------------------------------------------------------------
(***************************************************************************)
(* The weights of the bits.                                                *)
(***************************************************************************)
LEMMA Weights ==
    /\ Weight \in [Nat -> Nat]
    /\ Weight[0] = 1
    /\ \A i \in Nat : Weight[i + 1] = 2 * Weight[i]
  <1> DEFINE g == [p \in Nat \X Nat |-> 2 * p[2]]
             IsWeight(f) == f = [i \in Nat |-> IF i = 0 THEN 1 ELSE 2 * f[i - 1]]
  <1>1. g \in [Nat \X Nat -> Nat] /\ 1 \in Nat
    OBVIOUS
  <1>2. \A i, v \in Nat : g[<<i, v>>] = 2 * v
    OBVIOUS
  <1> HIDE DEF g
  <1>3. PICK f \in [Nat -> Nat] : f[0] = 1 /\ \A i \in Nat : f[i + 1] = g[<<i, f[i]>>]
    BY <1>1, Recursion
  <1>4. \A i \in Nat : f[i + 1] = 2 * f[i]
    BY <1>2, <1>3
  <1>5. IsWeight(f)
    <2>1. \A i \in Nat : f[i] = IF i = 0 THEN 1 ELSE 2 * f[i - 1]
      <3> SUFFICES ASSUME NEW i \in Nat, i # 0 PROVE f[i] = 2 * f[i - 1]
        BY <1>3
      <3>1. i - 1 \in Nat /\ (i - 1) + 1 = i
        OBVIOUS
      <3> QED BY <1>4, <3>1
    <2>2. f = [i \in Nat |-> f[i]]
      OBVIOUS
    <2> QED BY <2>1, <2>2
  <1>6. IsWeight(Weight)
    <2>1. Weight = CHOOSE h : IsWeight(h)
      BY DEF Weight
    <2> HIDE DEF IsWeight
    <2> QED BY <1>5, <2>1
  <1> DEFINE w == Weight
  <1>7. w = [i \in Nat |-> IF i = 0 THEN 1 ELSE 2 * w[i - 1]]
    BY <1>6
  <1> HIDE DEF w, IsWeight
  <1>8. w[0] = 1 /\ \A i \in Nat : w[i + 1] = 2 * w[i]
    <2>1. \A i \in Nat : w[i] = IF i = 0 THEN 1 ELSE 2 * w[i - 1]
      BY <1>7
    <2> SUFFICES ASSUME NEW i \in Nat PROVE w[i + 1] = 2 * w[i]
      BY <2>1
    <2>2. i + 1 \in Nat /\ i + 1 # 0 /\ (i + 1) - 1 = i
      OBVIOUS
    <2> QED BY <2>1, <2>2
  <1>9. \A i \in Nat : w[i] \in Nat
    <2> DEFINE S == {i \in Nat : w[i] \in Nat}
    <2>1. 0 \in S /\ \A i \in Nat : i \in S => i + 1 \in S
      BY <1>8
    <2> HIDE DEF S
    <2>2. \A i \in Nat : i \in S
      BY <2>1, Induct
    <2> QED BY <2>2 DEF S
  <1>10. w \in [Nat -> Nat]
    BY <1>7, <1>9
  <1> QED BY <1>8, <1>10 DEF w

LEMMA WeightPositive == \A i \in Nat : Weight[i] \in Nat \ {0}
  <1> DEFINE S == {i \in Nat : Weight[i] # 0}
  <1>1. 0 \in S /\ \A i \in Nat : i \in S => i + 1 \in S
    BY Weights
  <1> HIDE DEF S
  <1>2. \A i \in Nat : i \in S
    BY <1>1, Induct
  <1> QED BY <1>2, Weights DEF S

LEMMA WeightSum ==
    ASSUME NEW a \in Nat, NEW b \in Nat
    PROVE  Weight[a + b] = Weight[a] * Weight[b]
  <1> DEFINE S == {k \in Nat : Weight[a + k] = Weight[a] * Weight[k]}
  <1>1. 0 \in S
    BY Weights
  <1>2. ASSUME NEW k \in Nat, k \in S PROVE k + 1 \in S
    <2>1. Weight[a + k] = Weight[a] * Weight[k] /\ a + k \in Nat /\ (a + k) + 1 = a + (k + 1)
      BY <1>2
    <2>2. Weight[(a + k) + 1] = 2 * Weight[a + k] /\ Weight[k + 1] = 2 * Weight[k]
      BY <2>1, Weights
    <2>3. {Weight[a], Weight[k], Weight[a + k]} \subseteq Int
      BY <2>1, Weights
    <2>4. 2 * (Weight[a] * Weight[k]) = Weight[a] * (2 * Weight[k])
      BY <2>3
    <2> QED BY <2>1, <2>2, <2>4
  <1> HIDE DEF S
  <1>3. b \in S
    BY <1>1, <1>2, Induct
  <1> QED BY <1>3 DEF S

LEMMA WeightSplits ==
    ASSUME NEW a \in Nat, NEW b \in Nat, a <= b
    PROVE  Weight[b] = Weight[a] * Weight[b - a]
  <1>1. b - a \in Nat /\ a + (b - a) = b
    OBVIOUS
  <1> QED BY <1>1, WeightSum

LEMMA WeightGrows ==
    ASSUME NEW a \in Nat, NEW b \in Nat, a < b
    PROVE  2 * Weight[a] <= Weight[b]
  <1> DEFINE S == {k \in Nat : 2 * Weight[a] <= Weight[(a + k) + 1]}
  <1>1. 0 \in S
    BY Weights
  <1>2. ASSUME NEW k \in Nat, k \in S PROVE k + 1 \in S
    <2>1. (a + k) + 1 \in Nat /\ ((a + k) + 1) + 1 = (a + (k + 1)) + 1
      OBVIOUS
    <2>2. Weight[((a + k) + 1) + 1] = 2 * Weight[(a + k) + 1] /\ Weight[(a + k) + 1] \in Nat
      BY <2>1, Weights
    <2>3. 2 * Weight[a] <= Weight[((a + k) + 1) + 1]
      BY <1>2, <2>2, Weights
    <2> QED BY <2>1, <2>3
  <1> HIDE DEF S
  <1>3. (b - a) - 1 \in Nat /\ (a + ((b - a) - 1)) + 1 = b
    OBVIOUS
  <1>4. (b - a) - 1 \in S
    BY <1>1, <1>2, <1>3, Induct
  <1> QED BY <1>3, <1>4 DEF S

LEMMA WeightMonotone ==
    ASSUME NEW a \in Nat, NEW b \in Nat, a <= b
    PROVE  Weight[a] <= Weight[b]
  <1>1. CASE a = b
    BY <1>1, Weights
  <1>2. CASE a < b
    BY <1>2, WeightGrows, Weights
  <1> QED BY <1>1, <1>2
------------------------------------------------------------------------------
(***************************************************************************)
(* Number adds up the weights in an order the fold chooses; this adds them *)
(* up from bit 0 on.                                                       *)
(***************************************************************************)
IsTotal(S, f) ==
    /\ f \in [Nat -> Nat]
    /\ f[0] = 0
    /\ \A i \in Nat : f[i + 1] = f[i] + (IF i \in S THEN Weight[i] ELSE 0)

Total(S) == CHOOSE f : IsTotal(S, f)

LEMMA TotalIs == ASSUME NEW S PROVE IsTotal(S, Total(S))
  <1> DEFINE g == [p \in Nat \X Nat |-> p[2] + (IF p[1] \in S THEN Weight[p[1]] ELSE 0)]
  <1>1. g \in [Nat \X Nat -> Nat] /\ 0 \in Nat
    BY Weights
  <1>2. \A i, v \in Nat : g[<<i, v>>] = v + (IF i \in S THEN Weight[i] ELSE 0)
    OBVIOUS
  <1> HIDE DEF g
  <1>3. PICK f \in [Nat -> Nat] : f[0] = 0 /\ \A i \in Nat : f[i + 1] = g[<<i, f[i]>>]
    BY <1>1, Recursion
  <1>4. \A i \in Nat : f[i + 1] = f[i] + (IF i \in S THEN Weight[i] ELSE 0)
    BY <1>2, <1>3
  <1>5. IsTotal(S, f)
    BY <1>3, <1>4 DEF IsTotal
  <1> QED BY <1>5 DEF Total

LEMMA TotalAgrees ==
    ASSUME NEW S, NEW T, NEW n \in Nat, \A i \in 0 .. n - 1 : i \in S <=> i \in T
    PROVE  Total(S)[n] = Total(T)[n]
  <1> DEFINE s == Total(S)  t == Total(T)  A == {i \in Nat : i <= n => s[i] = t[i]}
  <1>1. IsTotal(S, s) /\ IsTotal(T, t)
    BY TotalIs
  <1> HIDE DEF s, t
  <1>2. 0 \in A
    BY <1>1 DEF IsTotal
  <1>3. ASSUME NEW i \in Nat, i \in A PROVE i + 1 \in A
    <2> SUFFICES ASSUME i + 1 <= n PROVE s[i + 1] = t[i + 1]
      OBVIOUS
    <2>1. i \in 0 .. n - 1 /\ s[i] = t[i]
      BY <1>3
    <2> QED BY <1>1, <2>1 DEF IsTotal
  <1> HIDE DEF A
  <1>4. n \in A
    BY <1>2, <1>3, Induct
  <1> QED BY <1>4 DEF A, s, t

LEMMA TotalRemoves ==
    ASSUME NEW S, NEW n \in Nat, NEW x \in Nat, x < n, x \in S
    PROVE  Total(S)[n] = Weight[x] + Total(S \ {x})[n]
  <1> DEFINE T == S \ {x}
             s == Total(S)  t == Total(T)
             A == {i \in Nat : s[(x + i) + 1] = Weight[x] + t[(x + i) + 1]}
  <1>1. IsTotal(S, s) /\ IsTotal(T, t)
    BY TotalIs
  <1>2. s[x] = t[x]
    <2>1. \A i \in 0 .. x - 1 : i \in S <=> i \in T
      OBVIOUS
    <2> HIDE DEF T
    <2> QED BY <2>1, TotalAgrees
  <1>3. x \notin T /\ \A i \in Nat : i # x => (i \in S <=> i \in T)
    OBVIOUS
  <1> HIDE DEF s, t, T
  <1>4. 0 \in A
    <2>1. s[x + 1] = s[x] + Weight[x] /\ t[x + 1] = t[x] /\ s[x] \in Nat /\ Weight[x] \in Nat
      BY <1>1, <1>3, Weights DEF IsTotal
    <2> QED BY <1>2, <2>1
  <1>5. ASSUME NEW i \in Nat, i \in A PROVE i + 1 \in A
    <2>1. (x + i) + 1 \in Nat /\ (x + i) + 1 # x /\ (x + (i + 1)) + 1 = ((x + i) + 1) + 1
      OBVIOUS
    <2> DEFINE j == (x + i) + 1
    <2>2. j \in Nat /\ j # x /\ s[j] = Weight[x] + t[j]
      BY <1>5, <2>1
    <2>3. (x + (i + 1)) + 1 = j + 1
      BY <2>1
    <2> HIDE DEF j
    <2> DEFINE d == IF j \in S THEN Weight[j] ELSE 0
    <2>4. s[j + 1] = s[j] + d /\ t[j + 1] = t[j] + d
      BY <1>1, <1>3, <2>2 DEF IsTotal
    <2>5. d \in Nat /\ s[j] \in Nat /\ t[j] \in Nat /\ Weight[x] \in Nat
      BY <1>1, <2>2, Weights DEF IsTotal
    <2> HIDE DEF d
    <2>6. s[j + 1] = Weight[x] + t[j + 1]
      BY <2>2, <2>4, <2>5
    <2> QED BY <2>3, <2>6
  <1> HIDE DEF A
  <1>6. (n - x) - 1 \in Nat /\ (x + ((n - x) - 1)) + 1 = n
    OBVIOUS
  <1>7. (n - x) - 1 \in A
    BY <1>4, <1>5, <1>6, Induct
  <1> QED BY <1>6, <1>7 DEF A, s, t, T

LEMMA NumberIsTotal ==
    ASSUME NEW n \in Nat, NEW S \in SUBSET (0 .. n - 1)
    PROVE  Number(S) = Total(S)[n]
  <1> DEFINE x(s) == CHOOSE y \in s : TRUE
             IsFold(f) == f = [s \in SUBSET S |->
                                  IF s = {} THEN 0 ELSE Weight[x(s)] + f[s \ {x(s)}]]
             iter == CHOOSE f : IsFold(f)
             f == [s \in SUBSET S |-> Total(s)[n]]
  <1>1. Number(S) = iter[S]
    BY DEF Number, MapThenSumSet, MapThenFoldSet
  <1>2. ASSUME NEW s \in SUBSET S, s # {}
        PROVE  x(s) \in s /\ x(s) \in 0 .. n - 1 /\ s \ {x(s)} \in SUBSET S
    <2>1. x(s) \in s
      BY <1>2
    <2> HIDE DEF x
    <2> QED BY <2>1
  <1> HIDE DEF x
  <1>3. Total({})[n] = 0
    <2> DEFINE t == Total({})  A == {i \in Nat : t[i] = 0}
    <2>1. IsTotal({}, t)
      BY TotalIs
    <2> HIDE DEF t
    <2>2. 0 \in A /\ \A i \in Nat : i \in A => i + 1 \in A
      BY <2>1 DEF IsTotal
    <2> HIDE DEF A
    <2>3. n \in A
      BY <2>2, Induct
    <2> QED BY <2>3 DEF A, t
  <1>4. ASSUME NEW s \in SUBSET S, s # {}
        PROVE  Total(s)[n] = Weight[x(s)] + Total(s \ {x(s)})[n]
    <2>1. x(s) \in s /\ x(s) \in Nat /\ x(s) < n
      BY <1>2, <1>4
    <2> QED BY <2>1, TotalRemoves
  <1>5. IsFold(f)
    <2>1. ASSUME NEW s \in SUBSET S
          PROVE  f[s] = IF s = {} THEN 0 ELSE Weight[x(s)] + f[s \ {x(s)}]
      <3>1. CASE s = {}
        BY <1>3, <3>1
      <3>2. CASE s # {}
        <4>1. s \ {x(s)} \in SUBSET S
          BY <1>2, <3>2
        <4>2. f[s] = Total(s)[n] /\ f[s \ {x(s)}] = Total(s \ {x(s)})[n]
          BY <4>1
        <4> HIDE DEF f
        <4> QED BY <1>4, <3>2, <4>2
      <3> QED BY <3>1, <3>2
    <2>2. f = [s \in SUBSET S |-> f[s]]
      OBVIOUS
    <2> HIDE DEF f
    <2> QED BY <2>1, <2>2
  <1>6. IsFold(iter)
    <2> HIDE DEF IsFold, f
    <2> QED BY <1>5
  <1> HIDE DEF iter
  <1>7. \A s \in SUBSET S : iter[s] = IF s = {} THEN 0 ELSE Weight[x(s)] + iter[s \ {x(s)}]
    BY <1>6
  <1> DEFINE bad == {s \in SUBSET S : iter[s] # Total(s)[n]}
             sizes == {Total(s)[n] : s \in bad}
  <1>8. ASSUME NEW s \in SUBSET S PROVE Total(s)[n] \in Nat
    BY TotalIs DEF IsTotal
  <1>9. ASSUME NEW m \in sizes, \A k \in Nat : k < m => k \notin sizes PROVE FALSE
    <2>1. PICK s \in SUBSET S : s \in bad /\ m = Total(s)[n]
      BY <1>9
    <2>2. s # {}
      BY <1>3, <1>7, <2>1
    <2> DEFINE r == s \ {x(s)}
    <2>3. r \in SUBSET S /\ Total(r)[n] \in Nat
      BY <1>2, <1>8, <2>2
    <2>4. Weight[x(s)] \in Nat \ {0}
      BY <1>2, <2>2, WeightPositive
    <2>5. Total(s)[n] = Weight[x(s)] + Total(r)[n] /\ iter[s] = Weight[x(s)] + iter[r]
      BY <1>4, <1>7, <2>2
    <2> HIDE DEF r
    <2>6. Total(r)[n] < m
      BY <2>1, <2>3, <2>4, <2>5
    <2>7. r \notin bad
      BY <1>9, <2>3, <2>6
    <2> QED BY <2>1, <2>3, <2>5, <2>7
  <1>10. sizes \in SUBSET Nat
    BY <1>8
  <1> HIDE DEF sizes
  <1>11. sizes = {}
    BY <1>9, <1>10, LeastOf
  <1>12. bad = {}
    BY <1>11 DEF sizes
  <1>13. S \in SUBSET S
    OBVIOUS
  <1>14. iter[S] = Total(S)[n]
    BY <1>12, <1>13
  <1> QED BY <1>1, <1>14
------------------------------------------------------------------------------
(***************************************************************************)
(* Words and their bits determine each other.                              *)
(***************************************************************************)
LEMMA Quotient ==
    ASSUME NEW m \in Nat \ {0}, NEW q \in Int, NEW r \in 0 .. m - 1, NEW n, n = m * q + r
    PROVE  n \div m = q /\ n % m = r
  <1>1. n \in Int
    OBVIOUS
  <1>2. n = m * (n \div m) + (n % m) /\ n % m \in 0 .. m - 1 /\ n \div m \in Int
    BY <1>1
  <1>3. n \div m = q
    <2> DEFINE k == n \div m
    <2>1. m * (q - k) = (n % m) - r /\ q - k \in Int
      BY <1>2
    <2>2. ~(q - k >= 1)
      <3> SUFFICES ASSUME q - k >= 1 PROVE FALSE
        OBVIOUS
      <3>1. m * (q - k) >= m
        BY <1>2
      <3> QED BY <2>1, <3>1, <1>2
    <2>3. ~(q - k <= -1)
      <3> SUFFICES ASSUME q - k <= -1 PROVE FALSE
        OBVIOUS
      <3>1. m * (q - k) <= -m
        BY <1>2
      <3> QED BY <2>1, <3>1, <1>2
    <2> QED BY <1>2, <2>1, <2>2, <2>3
  <1> QED BY <1>2, <1>3

LEMMA Divided ==
    ASSUME NEW m \in Nat \ {0}, NEW n \in Int
    PROVE  n = m * (n \div m) + (n % m) /\ n % m \in 0 .. m - 1 /\ n \div m \in Int
  OBVIOUS

\* Whole multiples pass a division unchanged.
LEMMA QuotientAdds ==
    ASSUME NEW m \in Nat \ {0}, NEW n \in Int, NEW k \in Int
    PROVE  (n + m * k) \div m = (n \div m) + k
  <1> DEFINE q == n \div m  r == n % m
  <1>1. n = m * q + r /\ r \in 0 .. m - 1 /\ q \in Int
    BY Divided
  <1> HIDE DEF q, r
  <1>2. n + m * k = m * (q + k) + r /\ q + k \in Int
    BY <1>1
  <1>3. (n + m * k) \div m = q + k
    BY <1>1, <1>2, Quotient
  <1> QED BY <1>3 DEF q

LEMMA NumberRange ==
    ASSUME NEW n \in Nat, NEW S \in SUBSET (0 .. n - 1)
    PROVE  Number(S) \in 0 .. Weight[n] - 1
  <1> DEFINE t == Total(S)  A == {i \in Nat : t[i] < Weight[i]}
  <1>1. IsTotal(S, t)
    BY TotalIs
  <1>2. Number(S) = t[n]
    BY NumberIsTotal
  <1> HIDE DEF t
  <1>3. 0 \in A
    BY <1>1, Weights DEF IsTotal
  <1>4. ASSUME NEW i \in Nat, i \in A PROVE i + 1 \in A
    <2>1. t[i + 1] <= t[i] + Weight[i]
      BY <1>1, Weights DEF IsTotal
    <2>2. t[i] < Weight[i] /\ Weight[i + 1] = 2 * Weight[i]
      BY <1>4, Weights
    <2>3. {t[i], t[i + 1], Weight[i], Weight[i + 1]} \subseteq Nat
      BY <1>1, Weights DEF IsTotal
    <2> QED BY <2>1, <2>2, <2>3
  <1> HIDE DEF A
  <1>5. n \in A
    BY <1>3, <1>4, Induct
  <1>6. t[n] \in Nat /\ Weight[n] \in Nat /\ t[n] < Weight[n]
    BY <1>1, <1>5, Weights DEF A, IsTotal
  <1> QED BY <1>2, <1>6

LEMMA NumberBits ==
    ASSUME NEW n \in Nat, NEW S \in SUBSET (0 .. n - 1), NEW i \in 0 .. n - 1
    PROVE  (Number(S) \div Weight[i]) % 2 = IF i \in S THEN 1 ELSE 0
  <1> DEFINE t == Total(S)  bit == IF i \in S THEN 1 ELSE 0
             A == {k \in Nat : (t[(i + k) + 1] \div Weight[i]) % 2 = bit}
  <1>1. IsTotal(S, t)
    BY TotalIs
  <1>2. Number(S) = t[n]
    BY NumberIsTotal
  <1>3. i \in Nat /\ Weight[i] \in Nat \ {0} /\ bit \in {0, 1}
    BY WeightPositive
  <1>4. t[i] \in 0 .. Weight[i] - 1
    <2>1. S \cap (0 .. i - 1) \in SUBSET (0 .. i - 1)
      OBVIOUS
    <2>2. Number(S \cap (0 .. i - 1)) = Total(S \cap (0 .. i - 1))[i]
      BY <1>3, <2>1, NumberIsTotal
    <2>3. Total(S \cap (0 .. i - 1))[i] = t[i]
      <3>1. \A j \in 0 .. i - 1 : j \in S \cap (0 .. i - 1) <=> j \in S
        OBVIOUS
      <3> QED BY <1>3, <3>1, TotalAgrees
    <2>4. Number(S \cap (0 .. i - 1)) \in 0 .. Weight[i] - 1
      BY <1>3, <2>1, NumberRange
    <2> QED BY <2>2, <2>3, <2>4
  <1> HIDE DEF t
  <1>5. 0 \in A
    <2>1. t[i + 1] = Weight[i] * bit + t[i]
      BY <1>1, <1>3, <1>4 DEF IsTotal
    <2> HIDE DEF bit
    <2>2. t[i + 1] \div Weight[i] = bit
      <3>1. bit \in Int
        BY <1>3
      <3> DEFINE w == Weight[i]  r == t[i]  s == t[i + 1]
      <3>2. w \in Nat \ {0} /\ r \in 0 .. w - 1 /\ s = w * bit + r
        BY <1>3, <1>4, <2>1
      <3> HIDE DEF w, r, s
      <3>3. s \div w = bit
        BY <3>1, <3>2, Quotient
      <3> QED BY <3>3 DEF w, s
    <2>3. i + 0 = i /\ bit % 2 = bit
      BY <1>3
    <2> QED BY <2>2, <2>3
  <1>6. ASSUME NEW k \in Nat, k \in A PROVE k + 1 \in A
    <2> DEFINE j == (i + k) + 1  d == IF j \in S THEN 1 ELSE 0
    <2>1. j \in Nat /\ (i + (k + 1)) + 1 = j + 1 /\ i <= j /\ j - i = k + 1 /\ d \in {0, 1}
      BY <1>3
    <2>2. (t[j] \div Weight[i]) % 2 = bit
      BY <1>6
    <2>3. t[j + 1] = t[j] + d * Weight[j] /\ t[j] \in Nat
      BY <1>1, <2>1, Weights DEF IsTotal
    <2> HIDE DEF j, d, bit
    <2>4. Weight[j] = Weight[i] * (2 * Weight[k]) /\ Weight[k] \in Nat
      <3>1. Weight[j] = Weight[i] * Weight[k + 1]
        BY <1>3, <2>1, WeightSplits
      <3> QED BY <3>1, Weights
    <2>5. PICK w \in Nat : w = Weight[k]
      BY <2>4
    <2>6. t[j + 1] = t[j] + Weight[i] * (2 * (d * w))
      <3>1. d * (Weight[i] * (2 * w)) = Weight[i] * (2 * (d * w))
        BY <1>3, <2>1
      <3> QED BY <2>3, <2>4, <2>5, <3>1
    <2>7. 2 * (d * w) \in Int /\ d * w \in Int
      BY <2>1
    <2>8. t[j + 1] \div Weight[i] = (t[j] \div Weight[i]) + 2 * (d * w)
      BY <1>3, <2>3, <2>6, <2>7, QuotientAdds
    <2>9. \A x, y \in Int : (x + 2 * y) % 2 = x % 2
      OBVIOUS
    <2>10. t[j] \div Weight[i] \in Int
      BY <1>3, <2>3
    <2>11. (t[j + 1] \div Weight[i]) % 2 = bit
      BY <2>2, <2>7, <2>8, <2>9, <2>10
    <2> QED BY <2>1, <2>11
  <1> HIDE DEF A
  <1>7. (n - i) - 1 \in Nat /\ (i + ((n - i) - 1)) + 1 = n
    OBVIOUS
  <1>8. (n - i) - 1 \in A
    BY <1>5, <1>6, <1>7, Induct
  <1> QED BY <1>2, <1>7, <1>8 DEF A

\* The number of a word's bits is the word.
LEMMA NumberOfBits ==
    ASSUME NEW n \in Nat, NEW v \in 0 .. Weight[n] - 1
    PROVE  Number({i \in 0 .. n - 1 : (v \div Weight[i]) % 2 = 1}) = v
  <1> DEFINE S == {i \in 0 .. n - 1 : (v \div Weight[i]) % 2 = 1}
             t == Total(S)
             A == {k \in Nat : k <= n => t[k] = v % Weight[k]}
  <1>1. IsTotal(S, t)
    BY TotalIs
  <1>2. Number(S) = t[n]
    <2>1. S \in SUBSET (0 .. n - 1)
      OBVIOUS
    <2> HIDE DEF S
    <2> QED BY <2>1, NumberIsTotal
  <1>3. v \in Nat /\ v < Weight[n] /\ Weight[n] \in Nat
    BY Weights
  <1> HIDE DEF t
  <1>4. 0 \in A
    BY <1>1, <1>3, Weights DEF IsTotal
  <1>5. ASSUME NEW k \in Nat, k \in A PROVE k + 1 \in A
    <2> SUFFICES ASSUME k + 1 <= n PROVE t[k + 1] = v % Weight[k + 1]
      OBVIOUS
    <2> DEFINE w == Weight[k]  q == v \div w  r == v % w  b == q % 2  p == q \div 2
    <2>1. w \in Nat \ {0} /\ Weight[k + 1] = 2 * w
      BY WeightPositive, Weights
    <2>2. v = w * q + r /\ r \in 0 .. w - 1 /\ q \in Nat
      <3> HIDE DEF w
      <3>1. v = w * q + r /\ r \in 0 .. w - 1 /\ q \in Int
        <4>1. \A m \in Nat \ {0} :
                 v = m * (v \div m) + (v % m) /\ v % m \in 0 .. m - 1 /\ v \div m \in Int
          BY <1>3, Divided
        <4> QED BY <2>1, <4>1
      <3>2. q >= 0
        BY <1>3, <2>1
      <3> QED BY <3>1, <3>2
    <2>3. q = 2 * p + b /\ b \in {0, 1} /\ p \in Nat
      BY <2>2
    <2>4. k \in S <=> b = 1
      OBVIOUS
    <2>5. t[k] = r
      BY <1>5
    <2> HIDE DEF w, q, r, b, p, S
    <2>6. t[k + 1] = w * b + r
      <3>1. t[k + 1] = t[k] + (IF k \in S THEN w ELSE 0)
        BY <1>1 DEF IsTotal, w
      <3>2. w * 0 = 0 /\ w * 1 = w
        BY <2>1
      <3>3. CASE b = 0
        BY <2>2, <2>4, <2>5, <3>1, <3>2, <3>3
      <3>4. CASE b = 1
        BY <2>1, <2>2, <2>4, <2>5, <3>1, <3>2, <3>4
      <3> QED BY <2>3, <3>3, <3>4
    <2>7. w * b + r \in 0 .. 2 * w - 1
      <3>1. CASE b = 0
        BY <2>1, <2>2, <3>1
      <3>2. CASE b = 1
        BY <2>1, <2>2, <3>2
      <3> QED BY <2>3, <3>1, <3>2
    <2>8. v = (2 * w) * p + (w * b + r)
      <3>1. w * (2 * p + b) = (2 * w) * p + w * b
        BY <2>1, <2>3
      <3> QED BY <2>1, <2>2, <2>3, <3>1
    <2>9. v % (2 * w) = w * b + r
      <3> DEFINE m == 2 * w  s == w * b + r
      <3>1. m \in Nat \ {0} /\ p \in Int /\ s \in 0 .. m - 1 /\ v = m * p + s
        BY <2>1, <2>3, <2>7, <2>8
      <3> HIDE DEF m, s
      <3>2. v % m = s
        BY <3>1, Quotient
      <3> QED BY <3>2 DEF m, s
    <2> QED BY <2>1, <2>6, <2>9
  <1> HIDE DEF A, S
  <1>6. n \in A
    BY <1>4, <1>5, Induct
  <1>7. v % Weight[n] = v
    BY <1>3
  <1> QED BY <1>2, <1>6, <1>7 DEF A, S

LEMMA NumberEmpty == Number({}) = 0
  <1>1. Number({}) \in 0 .. Weight[0] - 1
    BY NumberRange
  <1> QED BY <1>1, Weights

\* Disjoint sets of bits add up.
LEMMA NumberAdds ==
    ASSUME NEW n \in Nat, NEW S \in SUBSET (0 .. n - 1), NEW T \in SUBSET (0 .. n - 1),
           S \cap T = {}
    PROVE  Number(S \cup T) = Number(S) + Number(T)
  <1> DEFINE U == S \cup T
             s == Total(S)  t == Total(T)  u == Total(U)
             A == {k \in Nat : u[k] = s[k] + t[k]}
  <1>1. IsTotal(S, s) /\ IsTotal(T, t) /\ IsTotal(U, u)
    BY TotalIs
  <1>2. Number(S) = s[n] /\ Number(T) = t[n] /\ Number(U) = u[n]
    <2>1. U \in SUBSET (0 .. n - 1)
      OBVIOUS
    <2> HIDE DEF U
    <2> QED BY <2>1, NumberIsTotal
  <1> HIDE DEF s, t, u
  <1>3. 0 \in A
    BY <1>1 DEF IsTotal
  <1>4. ASSUME NEW k \in Nat, k \in A PROVE k + 1 \in A
    <2>1. u[k] = s[k] + t[k] /\ {u[k], s[k], t[k], Weight[k]} \subseteq Nat
      BY <1>1, <1>4, Weights DEF IsTotal
    <2>2. /\ u[k + 1] = u[k] + (IF k \in U THEN Weight[k] ELSE 0)
          /\ s[k + 1] = s[k] + (IF k \in S THEN Weight[k] ELSE 0)
          /\ t[k + 1] = t[k] + (IF k \in T THEN Weight[k] ELSE 0)
      BY <1>1 DEF IsTotal
    <2>3. CASE k \in S /\ k \notin T
      BY <2>1, <2>2, <2>3
    <2>4. CASE k \notin S
      BY <2>1, <2>2, <2>4
    <2> QED BY <2>3, <2>4
  <1> HIDE DEF A
  <1>5. n \in A
    BY <1>3, <1>4, Induct
  <1> QED BY <1>2, <1>5 DEF A

\* All bits up to a: one less than the weight of the next.
LEMMA NumberFull ==
    ASSUME NEW n \in Nat PROVE Number(0 .. n - 1) = Weight[n] - 1
  <1> DEFINE S == 0 .. n - 1
             t == Total(S)
             A == {k \in Nat : k <= n => t[k] = Weight[k] - 1}
  <1>1. IsTotal(S, t) /\ Number(S) = t[n]
    BY TotalIs, NumberIsTotal
  <1> HIDE DEF t
  <1>2. 0 \in A
    BY <1>1, Weights DEF IsTotal
  <1>3. ASSUME NEW k \in Nat, k \in A PROVE k + 1 \in A
    <2> SUFFICES ASSUME k + 1 <= n PROVE t[k + 1] = Weight[k + 1] - 1
      OBVIOUS
    <2>1. k \in S /\ t[k] = Weight[k] - 1
      BY <1>3
    <2>2. t[k + 1] = t[k] + Weight[k] /\ Weight[k + 1] = 2 * Weight[k] /\ Weight[k] \in Nat
      BY <1>1, <2>1, Weights DEF IsTotal
    <2> QED BY <2>1, <2>2
  <1> HIDE DEF A
  <1>4. n \in A
    BY <1>2, <1>3, Induct
  <1> QED BY <1>1, <1>4 DEF A
------------------------------------------------------------------------------
(***************************************************************************)
(* The words of a register.                                                *)
(***************************************************************************)
LEMMA Widths ==
    /\ WordBits \in Nat \ {0} /\ HalfBits \in Nat \ {0} /\ ByteBits \in Nat \ {0}
    /\ ByteBits < WordBits /\ HalfBits < WordBits
    /\ W = Weight[WordBits] /\ W \in Nat \ {0}
    /\ Word = 0 .. Weight[WordBits] - 1
  <1>1. W = Weight[WordBits] /\ WordBits \in Nat \ {0}
    BY BitsAssumption
  <1>2. W \in Nat \ {0}
    BY <1>1, WeightPositive
  <1>3. Word = 0 .. Weight[WordBits] - 1
    BY <1>1 DEF Word
  <1> QED BY <1>1, <1>2, <1>3, BitsAssumption

LEMMA NumberType == ASSUME NEW S \in SUBSET BitNumber PROVE Number(S) \in Word
  <1>1. S \in SUBSET (0 .. WordBits - 1)
    BY DEF BitNumber
  <1> QED BY <1>1, NumberRange, Widths

LEMMA BitsType == ASSUME NEW v PROVE BitsOf(v) \in SUBSET BitNumber
  BY DEF BitsOf

LEMMA BitsOfNumber == ASSUME NEW S \in SUBSET BitNumber PROVE BitsOf(Number(S)) = S
  <1>1. S \in SUBSET (0 .. WordBits - 1) /\ WordBits \in Nat
    BY Widths DEF BitNumber
  <1>2. \A i \in 0 .. WordBits - 1 : (Number(S) \div Weight[i]) % 2 = IF i \in S THEN 1 ELSE 0
    BY <1>1, NumberBits
  <1>3. \A i \in BitNumber : (Number(S) \div Weight[i]) % 2 = 1 <=> i \in S
    BY <1>2 DEF BitNumber
  <1>4. BitsOf(Number(S)) = {i \in BitNumber : i \in S}
    BY <1>3 DEF BitsOf
  <1> QED BY <1>4

LEMMA NumberOfBitsOf == ASSUME NEW v \in Word PROVE Number(BitsOf(v)) = v
  BY Widths, NumberOfBits DEF BitsOf, BitNumber

\* Dividing twice.
LEMMA QuotientTwice ==
    ASSUME NEW v \in Int, NEW a \in Nat \ {0}, NEW b \in Nat \ {0}
    PROVE  (v \div a) \div b = v \div (a * b)
  <1> DEFINE q == v \div a  r == v % a  p == q \div b  s == q % b
  <1>1. v = a * q + r /\ r \in 0 .. a - 1 /\ q \in Int
    BY Divided
  <1> HIDE DEF q, r
  <1>2. q = b * p + s /\ s \in 0 .. b - 1 /\ p \in Int
    BY <1>1, Divided
  <1> HIDE DEF p, s
  <1> DEFINE m == a * b  t == a * s + r
  <1>3. m \in Nat \ {0}
    OBVIOUS
  <1>4. t \in 0 .. m - 1
    <2>1. a * (s + 1) <= a * b
      <3>1. s + 1 <= b /\ s + 1 \in Nat
        BY <1>2
      <3>2. \A x, y, z \in Nat : x <= y => z * x <= z * y
        OBVIOUS
      <3> QED BY <3>1, <3>2
    <2>2. a * (s + 1) = a * s + a /\ a * s \in Nat
      BY <1>2
    <2> QED BY <1>1, <2>1, <2>2
  <1>5. v = m * p + t
    <2>1. a * (b * p + s) = (a * b) * p + a * s
      BY <1>2
    <2> QED BY <1>1, <1>2, <2>1
  <1> HIDE DEF m, t
  <1>6. v \div m = p
    BY <1>2, <1>3, <1>4, <1>5, Quotient
  <1> QED BY <1>6 DEF m, p, q

LEMMA Below ==
    ASSUME NEW v \in Nat, NEW a \in Nat \ {0}, NEW b \in Nat \ {0}, v < a * b
    PROVE  v \div a \in 0 .. b - 1
  <1> DEFINE q == v \div a
  <1>1. v = a * q + (v % a) /\ v % a \in 0 .. a - 1 /\ q \in Int
    BY Divided
  <1> HIDE DEF q
  <1>2. q >= 0
    BY DEF q
  <1>3. q < b
    <2> SUFFICES ASSUME q >= b PROVE FALSE
      BY <1>1
    <2>1. a * q >= a * b
      BY <1>1
    <2> QED BY <1>1, <2>1
  <1> QED BY <1>1, <1>2, <1>3 DEF q

\* A word shifted to the right by n is below the weight of the bits that stay.
LEMMA Remaining ==
    ASSUME NEW v \in Word, NEW n \in 0 .. WordBits
    PROVE  v \div Weight[n] \in 0 .. Weight[WordBits - n] - 1
  <1>1. WordBits - n \in Nat /\ n \in Nat /\ n <= WordBits /\ WordBits \in Nat
    BY Widths
  <1>2. Weight[WordBits] = Weight[n] * Weight[WordBits - n]
    BY <1>1, WeightSplits
  <1>3. Weight[n] \in Nat \ {0} /\ Weight[WordBits - n] \in Nat \ {0}
    BY <1>1, WeightPositive
  <1>4. v \in Nat /\ v < Weight[n] * Weight[WordBits - n]
    BY <1>2, Widths, Weights
  <1> HIDE DEF Weight
  <1> QED BY <1>3, <1>4, Below

\* ... and its bits are those of v, n places lower.
LEMMA BitsShifted ==
    ASSUME NEW v \in Word, NEW n \in Nat, n <= WordBits
    PROVE  BitsOf(v \div Weight[n]) = {i \in BitNumber : i + n \in BitsOf(v)}
  <1> SUFFICES ASSUME NEW i \in BitNumber
               PROVE  ((v \div Weight[n]) \div Weight[i]) % 2 = 1 <=> i + n \in BitsOf(v)
    BY DEF BitsOf
  <1>1. i \in Nat /\ i + n \in Nat /\ n + i = i + n /\ v \in Int
    BY Widths DEF BitNumber, Word
  <1>2. (v \div Weight[n]) \div Weight[i] = v \div (Weight[n] * Weight[i])
    BY <1>1, WeightPositive, QuotientTwice
  <1>3. Weight[n] * Weight[i] = Weight[i + n]
    BY <1>1, WeightSum
  <1>4. CASE i + n \in BitNumber
    BY <1>2, <1>3, <1>4 DEF BitsOf
  <1>5. CASE i + n \notin BitNumber
    <2>1. WordBits <= i + n /\ WordBits \in Nat
      BY <1>1, <1>5, Widths DEF BitNumber
    <2>2. Weight[WordBits] <= Weight[i + n] /\ Weight[i + n] \in Nat /\ Weight[WordBits] \in Nat
      BY <1>1, <2>1, WeightMonotone, Weights
    <2>3. v \in 0 .. Weight[i + n] - 1
      BY <2>2, Widths
    <2>4. v \div Weight[i + n] = 0
      BY <2>2, <2>3
    <2> QED BY <1>2, <1>3, <1>5, <2>4 DEF BitsOf
  <1> QED BY <1>4, <1>5
------------------------------------------------------------------------------
(***************************************************************************)
(* The data paths return words.                                            *)
(***************************************************************************)
LEMMA Count == ASSUME NEW s \in Nat PROVE s % WordBits \in 0 .. WordBits - 1
  BY Widths

LEMMA Smaller == ASSUME NEW v \in Word, NEW w \in 0 .. v PROVE w \in Word
  BY Widths, Weights

LEMMA QuotientType == ASSUME NEW v \in Word, NEW m \in Nat \ {0} PROVE v \div m \in Word
  <1>1. v \in Nat
    BY DEF Word
  <1> DEFINE q == v \div m
  <1>2. v = m * q + (v % m) /\ v % m \in 0 .. m - 1 /\ q \in Int
    BY <1>1, Divided
  <1> HIDE DEF q
  <1>3. q \in 0 .. v
    <2>1. q >= 0
      BY <1>1 DEF q
    <2>2. q <= m * q
      BY <1>2, <2>1
    <2>3. m * q <= v
      <3> DEFINE p == m * q
      <3>1. p \in Int
        BY <1>2
      <3> HIDE DEF p
      <3>2. p <= v
        BY <1>1, <1>2, <3>1 DEF p
      <3> QED BY <3>2 DEF p
    <2>4. m * q \in Int
      BY <1>2
    <2> QED BY <1>1, <1>2, <2>1, <2>2, <2>3, <2>4
  <1>4. q \in Word
    BY <1>3, Smaller
  <1> QED BY <1>4 DEF q

LEMMA ShiftLeftType == ASSUME NEW v, NEW s PROVE ShiftLeft(v, s) \in Word
  BY NumberType DEF ShiftLeft

LEMMA ShiftRightType == ASSUME NEW v \in Word, NEW s \in Nat PROVE ShiftRight(v, s) \in Word
  <1>1. s % WordBits \in Nat
    BY Count
  <1> QED BY <1>1, WeightPositive, QuotientType DEF ShiftRight

LEMMA AsrType == ASSUME NEW v \in Word, NEW s \in Nat PROVE Asr(v, s) \in Word
  <1> DEFINE B == BitsOf(ShiftRight(v, s)) \cup Complement(BitsOf(ShiftRight(W - 1, s)))
  <1>1. B \in SUBSET BitNumber
    BY BitsType DEF Complement
  <1> HIDE DEF B
  <1>2. Number(B) \in Word
    BY <1>1, NumberType
  <1> QED BY <1>2, ShiftRightType DEF Asr, B

LEMMA RotatedType == ASSUME NEW v, NEW r PROVE Rol(v, r) \in Word /\ Ror(v, r) \in Word
  <1>1. \A a, b : BitsOf(a) \cup BitsOf(b) \in SUBSET BitNumber
    BY BitsType
  <1>2. \A a, b : Number(BitsOf(a) \cup BitsOf(b)) \in Word
    BY <1>1, NumberType
  <1> QED BY <1>2 DEF Rol, Ror

LEMMA LowBits ==
    ASSUME NEW v \in Int, NEW n \in 0 .. WordBits PROVE v % Weight[n] \in Word
  <1>1. n \in Nat /\ WordBits \in Nat /\ n <= WordBits
    BY Widths
  <1>2. Weight[n] \in Nat \ {0} /\ Weight[n] <= Weight[WordBits] /\ Weight[WordBits] \in Nat
    BY <1>1, WeightPositive, WeightMonotone
  <1>3. v % Weight[n] \in 0 .. Weight[n] - 1
    BY <1>2
  <1> QED BY <1>2, <1>3, Widths

LEMMA SignExtendType ==
    ASSUME NEW v \in Int, NEW n \in 1 .. WordBits PROVE SignExtend(v, n) \in Word
  <1> DEFINE low == v % Weight[n]
  <1>1. n \in Nat /\ WordBits \in Nat /\ n <= WordBits
    BY Widths
  <1>2. Weight[n] \in Nat \ {0} /\ Weight[n] <= Weight[WordBits] /\ Weight[WordBits] \in Nat
    BY <1>1, WeightPositive, WeightMonotone
  <1>3. low \in 0 .. Weight[n] - 1
    BY <1>2
  <1>4. SignExtend(v, n) = IF low >= Weight[n - 1] THEN W - Weight[n] + low ELSE low
    BY DEF SignExtend
  <1> HIDE DEF low
  <1>5. W - Weight[n] + low \in Word /\ low \in Word
    BY <1>2, <1>3, Widths
  <1> QED BY <1>4, <1>5

LEMMA AluResultType ==
    ASSUME NEW i \in DOMAIN AluTable, NEW d \in Word, NEW s0 \in Word, NEW s1 \in Word,
           ~DividesByZero(AluTable[i], s1)
    PROVE  AluResult(AluTable[i], d, s0, s1) \in Word
  <1>1. {d, s0, s1} \subseteq Nat /\ s0 * s1 \in Int /\ W \in Nat \ {0}
    BY Widths DEF Word
  <1>2. \A x \in Int : x % W \in Word
    BY <1>1 DEF Word
  <1>3. i \in 1 .. 16
    BY DEF AluTable
  <1>4. CASE i \in 1 .. 4
    <2>1. {s0 + s1, s0 - s1, s0 * s1, d + s0 * s1} \subseteq Int
      BY <1>1
    <2>2. {Plus(s0, s1), Minus(s0, s1), (s0 * s1) % W, Plus(d, s0 * s1)} \subseteq Word
      BY <1>2, <2>1 DEF Plus, Minus
    <2> QED BY <1>4, <2>2 DEF AluResult, AluTable
  <1>5. CASE i \in {5, 6}
    <2>1. s1 \in Nat \ {0}
      BY <1>1, <1>5 DEF DividesByZero, AluTable
    <2>2. s0 \div s1 \in Word
      BY <2>1, QuotientType
    <2>3. s0 % s1 \in Word
      <3>1. s0 % s1 \in 0 .. s1 - 1
        BY <1>1, <2>1
      <3> QED BY <3>1, Widths
    <2> QED BY <1>5, <2>2, <2>3 DEF AluResult, AluTable
  <1>6. CASE i \in 7 .. 9
    <2>1. {BitsOf(s0) \cap BitsOf(s1), BitsOf(s0) \cup BitsOf(s1),
           SymDiff(BitsOf(s0), BitsOf(s1))} \subseteq SUBSET BitNumber
      BY BitsType DEF SymDiff
    <2>2. \A S \in SUBSET BitNumber : Number(S) \in Word
      BY NumberType
    <2> QED BY <1>6, <2>1, <2>2 DEF AluResult, AluTable
  <1>7. CASE i \in 10 .. 12
    <2>1. {ShiftLeft(s0, s1), ShiftRight(s0, s1), Asr(s0, s1)} \subseteq Word
      BY <1>1, ShiftLeftType, ShiftRightType, AsrType
    <2> QED BY <1>7, <2>1 DEF AluResult, AluTable
  <1>8. CASE i \in {13, 14}
    <2>1. ByteBits \in 1 .. WordBits /\ HalfBits \in 1 .. WordBits
      BY Widths
    <2>2. SignExtend(s0, ByteBits) \in Word /\ SignExtend(s0, HalfBits) \in Word
      BY <1>1, <2>1, SignExtendType
    <2> QED BY <1>8, <2>2 DEF AluResult, AluTable
  <1>9. CASE i \in {15, 16}
    <2>1. Rol(s0, s1) \in Word /\ Ror(s0, s1) \in Word
      BY RotatedType
    <2> QED BY <1>9, <2>1 DEF AluResult, AluTable
  <1> QED BY <1>3, <1>4, <1>5, <1>6, <1>7, <1>8, <1>9
------------------------------------------------------------------------------
(***************************************************************************)
(* What asr and the rotations compute.                                     *)
(***************************************************************************)
SignedValue(v) == IF IsNegative(v) THEN v - W ELSE v

\* The filled-in bits count as a difference of weights.
LEMMA AsrNegative ==
    ASSUME NEW v \in Word, IsNegative(v), NEW s \in Nat
    PROVE  Asr(v, s) = (v \div Weight[s % WordBits])
                          + (Weight[WordBits] - Weight[WordBits - (s % WordBits)])
  <1> DEFINE n == s % WordBits  m == WordBits - n  x == v \div Weight[n]
             kept == 0 .. m - 1  filled == m .. WordBits - 1
  <1>1. n \in 0 .. WordBits - 1 /\ n \in Nat /\ m \in 1 .. WordBits /\ WordBits - n = m
    <2>1. n \in 0 .. WordBits - 1
      BY Count
    <2> HIDE DEF n
    <2> QED BY <2>1, Widths
  <1> HIDE DEF n, m
  <1>2. {Weight[n], Weight[m], Weight[WordBits]} \subseteq Nat \ {0}
    BY <1>1, Widths, WeightPositive
  <1>3. x \in 0 .. Weight[m] - 1
    <2>1. n \in 0 .. WordBits
      BY <1>1, Widths
    <2>2. v \div Weight[n] \in 0 .. Weight[WordBits - n] - 1
      BY <2>1, Remaining
    <2> QED BY <1>1, <2>2
  <1>4. BitsOf(x) \in SUBSET kept
    <2>1. BitsOf(x) = {i \in BitNumber : i + n \in BitsOf(v)}
      BY <1>1, Widths, BitsShifted
    <2> SUFFICES ASSUME NEW i \in BitNumber, i + n \in BitNumber PROVE i \in kept
      BY <2>1, BitsType
    <2> QED BY <1>1, Widths DEF BitNumber
  <1>5. (W - 1) \div Weight[n] = Weight[m] - 1
    <2>1. W = Weight[n] * Weight[m]
      BY <1>1, Widths, WeightSplits
    <2> DEFINE a == Weight[n]  b == Weight[m]
    <2>2. a \in Nat \ {0} /\ b \in Nat \ {0}
      BY <1>2
    <2>3. a * b - 1 = a * (b - 1) + (a - 1) /\ a - 1 \in 0 .. a - 1 /\ b - 1 \in Int
      BY <2>2
    <2> DEFINE c == a * b - 1  d == b - 1  e == a - 1
    <2>4. c = a * d + e /\ e \in 0 .. a - 1 /\ d \in Int
      BY <2>3
    <2> HIDE DEF a, b, c, d, e
    <2>5. c \div a = d
      BY <2>2, <2>4, Quotient
    <2> QED BY <2>1, <2>5 DEF a, b, c, d
  <1>6. BitsOf(Weight[m] - 1) = kept
    <2>1. kept \in SUBSET BitNumber
      BY <1>1, Widths DEF BitNumber
    <2>2. Number(kept) = Weight[m] - 1
      BY <1>1, NumberFull
    <2> HIDE DEF kept
    <2> QED BY <2>1, <2>2, BitsOfNumber
  <1>7. Complement(kept) = filled
    BY <1>1, Widths DEF Complement, BitNumber
  <1>8. Asr(v, s) = Number(BitsOf(x) \cup filled)
    <2>1. ShiftRight(v, s) = x /\ ShiftRight(W - 1, s) = (W - 1) \div Weight[n]
      BY DEF ShiftRight, n
    <2>2. Asr(v, s) = Number(BitsOf(x) \cup Complement(BitsOf(Weight[m] - 1)))
      BY <1>5, <2>1 DEF Asr
    <2> HIDE DEF x, kept, filled
    <2> QED BY <1>6, <1>7, <2>2
  <1>9. Number(BitsOf(x) \cup filled) = x + Number(filled)
    <2>1. x \in Word
      <3>1. Weight[m] <= Weight[WordBits]
        BY <1>1, Widths, WeightMonotone
      <3> QED BY <1>2, <1>3, <3>1, Widths
    <2>2. BitsOf(x) \in SUBSET (0 .. WordBits - 1) /\ filled \in SUBSET (0 .. WordBits - 1)
      BY <1>1, <1>4, Widths
    <2>3. BitsOf(x) \cap filled = {}
      BY <1>1, <1>4, Widths
    <2>4. Number(BitsOf(x)) = x
      BY <2>1, NumberOfBitsOf
    <2>5. \A S, T \in SUBSET (0 .. WordBits - 1) :
             S \cap T = {} => Number(S \cup T) = Number(S) + Number(T)
      BY Widths, NumberAdds
    <2> HIDE DEF x, filled
    <2>6. Number(BitsOf(x) \cup filled) = Number(BitsOf(x)) + Number(filled)
      BY <2>2, <2>3, <2>5
    <2> QED BY <2>4, <2>6
  <1>10. Number(filled) = Weight[WordBits] - Weight[m]
    <2>1. kept \in SUBSET (0 .. WordBits - 1) /\ filled \in SUBSET (0 .. WordBits - 1)
          /\ kept \cap filled = {} /\ kept \cup filled = 0 .. WordBits - 1
      BY <1>1, Widths
    <2>2. Number(kept) = Weight[m] - 1
      BY <1>1, NumberFull
    <2>3. Number(0 .. WordBits - 1) = Weight[WordBits] - 1
      BY Widths, NumberFull
    <2>4. \A S, T \in SUBSET (0 .. WordBits - 1) :
             S \cap T = {} => Number(S \cup T) = Number(S) + Number(T)
      BY Widths, NumberAdds
    <2> HIDE DEF kept, filled
    <2>5. Number(kept \cup filled) = Number(kept) + Number(filled)
      BY <2>1, <2>4
    <2>6. Number(filled) \in Int
      BY <2>1, Widths, NumberRange
    <2>7. Number(kept \cup filled) = Weight[WordBits] - 1
      BY <2>1, <2>3
    <2> DEFINE y == Number(filled)
    <2>8. Weight[WordBits] - 1 = (Weight[m] - 1) + y
      BY <2>2, <2>5, <2>7
    <2> HIDE DEF y
    <2>9. y = Weight[WordBits] - Weight[m]
      BY <1>2, <2>6, <2>8 DEF y
    <2> QED BY <2>9 DEF y
  <1> QED BY <1>1, <1>8, <1>9, <1>10 DEF n

\* An arithmetic shift divides by the power of two, rounding down.
LEMMA AsrDivides ==
    ASSUME NEW v \in Word, NEW s \in Nat
    PROVE  SignedValue(Asr(v, s)) = SignedValue(v) \div Weight[s % WordBits]
  <1> DEFINE n == s % WordBits  m == WordBits - n  p == Weight[n]  q == Weight[m]
             h == Weight[WordBits - 1]  x == v \div p
  <1>1. n \in 0 .. WordBits - 1 /\ n \in Nat /\ m \in 1 .. WordBits /\ WordBits - n = m
    <2>1. n \in 0 .. WordBits - 1
      BY Count
    <2> HIDE DEF n
    <2> QED BY <2>1, Widths
  <1>2. W = p * q /\ W = 2 * h /\ q <= W /\ {p, q, h} \subseteq Nat \ {0}
    <2> HIDE DEF n, m
    <2>1. W = p * q
      BY <1>1, Widths, WeightSplits
    <2>2. WordBits - 1 \in Nat /\ (WordBits - 1) + 1 = WordBits
      BY Widths
    <2>3. W = 2 * h
      BY <2>2, Widths, Weights
    <2>4. q <= W
      BY <1>1, Widths, WeightMonotone
    <2>5. {p, q, h} \subseteq Nat \ {0}
      BY <1>1, <2>2, WeightPositive
    <2> QED BY <2>1, <2>3, <2>4, <2>5
  <1>3. W \div 2 = h /\ v \in Nat /\ v < W
    BY <1>2, Widths DEF Word
  <1>4. CASE ~IsNegative(v)
    <2>1. Asr(v, s) = x
      BY <1>4 DEF Asr, ShiftRight
    <2>2. x <= v
      <3>1. v = p * x + (v % p) /\ v % p \in 0 .. p - 1 /\ x \in Int
        <4>1. \A d \in Nat \ {0} :
                 v = d * (v \div d) + (v % d) /\ v % d \in 0 .. d - 1 /\ v \div d \in Int
          BY <1>3, Divided
        <4> HIDE DEF p
        <4> QED BY <1>2, <4>1
      <3>2. x >= 0
        BY <1>2, <1>3
      <3> HIDE DEF p, x
      <3>3. x <= p * x
        BY <1>2, <3>1, <3>2
      <3> DEFINE t == p * x
      <3>4. t \in Int
        BY <1>2, <3>1
      <3> HIDE DEF t
      <3>5. t <= v
        BY <1>3, <3>1, <3>4 DEF t
      <3> QED BY <1>3, <3>1, <3>3, <3>4, <3>5 DEF t
    <2>3. x \in Int
      BY <1>2, <1>3
    <2> HIDE DEF x, p, h
    <2>4. ~IsNegative(x)
      BY <1>2, <1>3, <1>4, <2>2, <2>3 DEF IsNegative
    <2> QED BY <1>4, <2>1, <2>4 DEF SignedValue, x, p
  <1>5. CASE IsNegative(v)
    <2>1. Asr(v, s) = x + (W - q)
      BY <1>5, AsrNegative, Widths
    <2> HIDE DEF n, m
    <2>2. x \in 0 .. q - 1
      <3>1. n \in 0 .. WordBits
        BY <1>1, Widths
      <3>2. v \div Weight[n] \in 0 .. Weight[WordBits - n] - 1
        BY <3>1, Remaining
      <3> QED BY <1>1, <3>2
    <2>3. (v - W) \div p = x - q
      <3>1. v - W = v + p * (-q) /\ v \in Int /\ -q \in Int
        BY <1>2, <1>3
      <3> HIDE DEF x, p, q
      <3>2. (v + p * (-q)) \div p = (v \div p) + (-q)
        BY <1>2, <3>1, QuotientAdds
      <3> QED BY <1>2, <2>2, <3>1, <3>2 DEF x
    <2>4. 2 * x >= q
      <3>1. q = 2 * Weight[m - 1] /\ Weight[m - 1] \in Nat /\ h = p * Weight[m - 1]
        <4>1. m - 1 \in Nat /\ (m - 1) + 1 = m
          BY <1>1
        <4>2. q = 2 * Weight[m - 1] /\ Weight[m - 1] \in Nat
          BY <4>1, Weights
        <4>3. n \in Nat /\ WordBits - 1 \in Nat /\ n <= WordBits - 1 /\ (WordBits - 1) - n = m - 1
          BY <1>1, Widths
        <4>4. h = p * Weight[m - 1]
          BY <4>3, WeightSplits
        <4> QED BY <4>2, <4>4
      <3> DEFINE k == Weight[m - 1]
      <3> HIDE DEF h, p, q, k
      <3>2. v >= p * k
        BY <1>3, <1>5, <3>1 DEF IsNegative, k
      <3>3. x >= k
        <4>1. v = p * x + (v % p) /\ v % p \in 0 .. p - 1 /\ x \in Int
          <5>1. v \in Int
            BY <1>3
          <5> QED BY <1>2, <5>1, Divided DEF x
        <4> HIDE DEF x
        <4>2. k \in Int
          BY <3>1 DEF k
        <4> SUFFICES ASSUME x <= k - 1 PROVE FALSE
          BY <4>1, <4>2
        <4>3. p * x <= p * (k - 1)
          <5>1. \A a \in Nat, b, c \in Int : b <= c => a * b <= a * c
            OBVIOUS
          <5> QED BY <1>2, <4>1, <4>2, <5>1
        <4>4. p * (k - 1) = p * k - p
          BY <1>2, <4>2
        <4>5. {p * x, p * k} \subseteq Int
          BY <1>2, <4>1, <4>2
        <4> QED BY <1>2, <1>3, <3>2, <4>1, <4>3, <4>4, <4>5
      <3> QED BY <2>2, <3>1, <3>3 DEF k
    <2> HIDE DEF x, p, q, h
    <2>5. IsNegative(x + (W - q))
      BY <1>2, <1>3, <2>2, <2>4 DEF IsNegative
    <2>6. (x + (W - q)) - W = x - q
      BY <1>2, <1>3, <2>2, Widths
    <2>7. SignedValue(Asr(v, s)) = x - q
      BY <2>1, <2>5, <2>6 DEF SignedValue
    <2>8. SignedValue(v) = v - W
      BY <1>5 DEF SignedValue
    <2> QED BY <2>3, <2>7, <2>8 DEF p, n
  <1> QED BY <1>4, <1>5

\* Where bit i goes when a word is turned by r places to the left.
LEMMA Turned ==
    ASSUME NEW i \in BitNumber, NEW r \in Int
    PROVE  LET n == r % WordBits
           IN  (i + r) % WordBits = IF i + n < WordBits THEN i + n ELSE (i + n) - WordBits
  <1> DEFINE w == WordBits  n == r % w  k == r \div w
  <1>1. w \in Nat \ {0} /\ i \in 0 .. w - 1
    BY Widths DEF BitNumber
  <1>2. r = w * k + n /\ n \in 0 .. w - 1 /\ k \in Int
    <2>1. \A m \in Nat \ {0} :
             r = m * (r \div m) + (r % m) /\ r % m \in 0 .. m - 1 /\ r \div m \in Int
      BY Divided
    <2> HIDE DEF w
    <2> QED BY <1>1, <2>1
  <1> HIDE DEF w, n, k
  <1> DEFINE a == i + r
  <1>3. CASE i + n < w
    <2> DEFINE b == i + n
    <2>1. a = w * k + b /\ b \in 0 .. w - 1
      BY <1>1, <1>2, <1>3
    <2> HIDE DEF a, b
    <2>2. a % w = b
      BY <1>1, <1>2, <2>1, Quotient
    <2> QED BY <1>3, <2>2 DEF a, b, w, n
  <1>4. CASE ~(i + n < w)
    <2> DEFINE b == (i + n) - w  c == k + 1
    <2>1. a = w * c + b /\ b \in 0 .. w - 1 /\ c \in Int
      <3>1. w * (k + 1) = w * k + w
        BY <1>1, <1>2
      <3> QED BY <1>1, <1>2, <1>4, <3>1
    <2> HIDE DEF a, b, c
    <2>2. a % w = b
      BY <1>1, <2>1, Quotient
    <2> QED BY <1>4, <2>2 DEF a, b, w, n
  <1> QED BY <1>3, <1>4

LEMMA OppositeTurn ==
    ASSUME NEW r \in Nat
    PROVE  LET n == r % WordBits
           IN  /\ (-r) % WordBits = IF n = 0 THEN 0 ELSE WordBits - n
               /\ (WordBits - n) % WordBits = IF n = 0 THEN 0 ELSE WordBits - n
               /\ n % WordBits = n
  <1> DEFINE w == WordBits  n == r % w  k == r \div w
  <1>1. w \in Nat \ {0}
    BY Widths
  <1>2. r = w * k + n /\ n \in 0 .. w - 1 /\ k \in Int
    <2>1. \A m \in Nat \ {0} :
             r = m * (r \div m) + (r % m) /\ r % m \in 0 .. m - 1 /\ r \div m \in Int
      BY Divided
    <2> HIDE DEF w
    <2> QED BY <1>1, <2>1
  <1> HIDE DEF w, n, k
  <1> DEFINE o == -r  j == -k  l == (-k) - 1  e == w - n
  <1>3. n % w = n
    BY <1>1, <1>2
  <1>4. CASE n = 0
    <2>1. o = w * j + 0 /\ j \in Int /\ 0 \in 0 .. w - 1 /\ w = w * 1 + 0
      BY <1>1, <1>2, <1>4
    <2> HIDE DEF o, j
    <2>2. o % w = 0 /\ w % w = 0
      BY <1>1, <2>1, Quotient
    <2>3. e = w
      BY <1>1, <1>4
    <2> QED BY <1>3, <1>4, <2>2, <2>3 DEF o, w, n
  <1>5. CASE n # 0
    <2>1. o = w * l + e /\ l \in Int /\ e \in 0 .. w - 1
      <3>1. w * ((-k) - 1) = -(w * k) - w
        BY <1>1, <1>2
      <3> QED BY <1>1, <1>2, <1>5, <3>1
    <2> HIDE DEF o, l, e
    <2>2. o % w = e
      BY <1>1, <2>1, Quotient
    <2>3. e % w = e
      BY <1>1, <2>1
    <2> QED BY <1>3, <1>5, <2>2, <2>3 DEF o, w, n, e
  <1> QED BY <1>4, <1>5

\* The bits of a rotated word: both halves together.
LEMMA RotatedBits ==
    ASSUME NEW v \in Word, NEW up \in Nat, NEW down \in Nat
    PROVE  BitsOf(Number(BitsOf(ShiftLeft(v, up)) \cup BitsOf(ShiftRight(v, down)))) =
              {i \in BitNumber : \/ i - (up % WordBits) \in BitsOf(v)
                                 \/ i + (down % WordBits) \in BitsOf(v)}
  <1> DEFINE L == {i \in BitNumber : i - (up % WordBits) \in BitsOf(v)}
             R0 == {i \in BitNumber : i + (down % WordBits) \in BitsOf(v)}
  <1>1. BitsOf(ShiftLeft(v, up)) = L
    <2>1. L \in SUBSET BitNumber
      OBVIOUS
    <2>2. ShiftLeft(v, up) = Number(L)
      BY DEF ShiftLeft
    <2> HIDE DEF L
    <2> QED BY <2>1, <2>2, BitsOfNumber
  <1>2. BitsOf(ShiftRight(v, down)) = R0
    <2>1. down % WordBits \in Nat /\ down % WordBits <= WordBits
      <3>1. down % WordBits \in 0 .. WordBits - 1
        BY Count
      <3> QED BY <3>1, Widths
    <2> QED BY <2>1, BitsShifted DEF ShiftRight
  <1>3. L \cup R0 \in SUBSET BitNumber
    OBVIOUS
  <1>4. L \cup R0 = {i \in BitNumber : \/ i - (up % WordBits) \in BitsOf(v)
                                       \/ i + (down % WordBits) \in BitsOf(v)}
    OBVIOUS
  <1> HIDE DEF L, R0
  <1>5. BitsOf(Number(L \cup R0)) = L \cup R0
    BY <1>3, BitsOfNumber
  <1> QED BY <1>1, <1>2, <1>4, <1>5

\* A rotation takes each bit to its new place, and no other comes there.
LEMMA RolMovesBits ==
    ASSUME NEW v \in Word, NEW r \in Nat, NEW i \in BitNumber
    PROVE  i \in BitsOf(v) <=> ((i + r) % WordBits) \in BitsOf(Rol(v, r))
  <1> DEFINE w == WordBits  n == r % w  B == BitsOf(v)  j == (i + r) % w
             up == n % w  down == (w - n) % w
  <1>1. w \in Nat \ {0} /\ BitNumber = 0 .. w - 1 /\ B \in SUBSET BitNumber
    BY Widths, BitsType DEF BitNumber
  <1>2. n \in 0 .. w - 1
    BY Count
  <1>3. up = n /\ down = IF n = 0 THEN 0 ELSE w - n
    BY OppositeTurn
  <1>4. j = IF i + n < w THEN i + n ELSE (i + n) - w
    BY Turned
  <1>5. BitsOf(Rol(v, r)) = {k \in BitNumber : k - up \in B \/ k + down \in B}
    <2>1. n \in Nat /\ w - n \in Nat
      BY <1>1, <1>2
    <2>2. \A a, b \in Nat :
             BitsOf(Number(BitsOf(ShiftLeft(v, a)) \cup BitsOf(ShiftRight(v, b)))) =
                {k \in BitNumber : k - (a % w) \in B \/ k + (b % w) \in B}
      BY RotatedBits
    <2>3. Rol(v, r) = Number(BitsOf(ShiftLeft(v, n)) \cup BitsOf(ShiftRight(v, w - n)))
      BY DEF Rol
    <2> HIDE DEF n, w, B
    <2> QED BY <2>1, <2>2, <2>3
  <1> SUFFICES i \in B <=> j \in BitsOf(Rol(v, r))
    OBVIOUS
  <1> HIDE DEF w, n, B, j, up, down
  <1>6. j \in BitNumber
    BY <1>1, <1>2, <1>4
  <1>7. CASE i + n < w
    <2>1. j - up = i /\ (n = 0 => j + down = i) /\ (n # 0 => j + down \notin BitNumber)
      BY <1>1, <1>2, <1>3, <1>4, <1>7
    <2> QED BY <1>1, <1>5, <1>6, <2>1
  <1>8. CASE ~(i + n < w)
    <2>1. j + down = i /\ j - up \notin BitNumber
      BY <1>1, <1>2, <1>3, <1>4, <1>8
    <2> QED BY <1>1, <1>5, <1>6, <2>1
  <1> QED BY <1>7, <1>8

LEMMA RorMovesBits ==
    ASSUME NEW v \in Word, NEW r \in Nat, NEW i \in BitNumber
    PROVE  i \in BitsOf(v) <=> ((i + (-r)) % WordBits) \in BitsOf(Ror(v, r))
  <1> DEFINE w == WordBits  n == r % w  B == BitsOf(v)  o == -r  m == o % w  j == (i + o) % w
             up == (w - n) % w  down == n % w
  <1>1. w \in Nat \ {0} /\ BitNumber = 0 .. w - 1 /\ B \in SUBSET BitNumber
    BY Widths, BitsType DEF BitNumber
  <1>2. n \in 0 .. w - 1
    BY Count
  <1>3. /\ down = n
        /\ up = IF n = 0 THEN 0 ELSE w - n
        /\ m = IF n = 0 THEN 0 ELSE w - n
    BY OppositeTurn
  <1>4. j = IF i + m < w THEN i + m ELSE (i + m) - w
    <2>1. o \in Int
      OBVIOUS
    <2> HIDE DEF o
    <2> QED BY <2>1, Turned
  <1>5. BitsOf(Ror(v, r)) = {k \in BitNumber : k - up \in B \/ k + down \in B}
    <2>1. n \in Nat /\ w - n \in Nat
      BY <1>1, <1>2
    <2>2. \A a, b \in Nat :
             BitsOf(Number(BitsOf(ShiftLeft(v, a)) \cup BitsOf(ShiftRight(v, b)))) =
                {k \in BitNumber : k - (a % w) \in B \/ k + (b % w) \in B}
      BY RotatedBits
    <2>3. Ror(v, r) = Number(BitsOf(ShiftLeft(v, w - n)) \cup BitsOf(ShiftRight(v, n)))
      <3>1. \A S, T : S \cup T = T \cup S
        OBVIOUS
      <3> QED BY <3>1 DEF Ror
    <2> HIDE DEF n, w, B
    <2> QED BY <2>1, <2>2, <2>3
  <1> SUFFICES i \in B <=> j \in BitsOf(Ror(v, r))
    OBVIOUS
  <1> HIDE DEF w, n, B, o, m, j, up, down
  <1>6. j \in BitNumber
    BY <1>1, <1>2, <1>3, <1>4
  <1>7. CASE i + m < w
    <2>1. j - up = i /\ (n = 0 => j + down = i) /\ (n # 0 => j + down \notin BitNumber)
      BY <1>1, <1>2, <1>3, <1>4, <1>7
    <2> QED BY <1>1, <1>5, <1>6, <2>1
  <1>8. CASE ~(i + m < w)
    <2>1. j + down = i /\ j - up \notin BitNumber
      BY <1>1, <1>2, <1>3, <1>4, <1>8
    <2> QED BY <1>1, <1>5, <1>6, <2>1
  <1> QED BY <1>7, <1>8
------------------------------------------------------------------------------
(***************************************************************************)
(* The fields of an instruction word, and what a word decodes to.          *)
(***************************************************************************)
LEMMA SmallWeights ==
    /\ Weight[1] = 2 /\ Weight[2] = 4 /\ Weight[3] = 8 /\ Weight[4] = 16 /\ Weight[5] = 32
    /\ Weight[10] = 1024
  <1>1. Weight[1] = 2 /\ Weight[2] = 4 /\ Weight[3] = 8 /\ Weight[4] = 16 /\ Weight[5] = 32
    <2>1. Weight[0 + 1] = 2 * Weight[0] /\ Weight[1 + 1] = 2 * Weight[1]
          /\ Weight[2 + 1] = 2 * Weight[2] /\ Weight[3 + 1] = 2 * Weight[3]
          /\ Weight[4 + 1] = 2 * Weight[4] /\ Weight[0] = 1
      BY Weights
    <2> QED BY <2>1
  <1>2. Weight[5 + 5] = Weight[5] * Weight[5]
    BY WeightSum
  <1> QED BY <1>1, <1>2

LEMMA FieldRange ==
    ASSUME NEW w, NEW a \in Nat, NEW b \in Nat
    PROVE  Field(w, <<a, b>>) \in 0 .. Weight[b] - 1
  <1> DEFINE S == {i \in 0 .. b - 1 : a + i \in w}
  <1>1. S \in SUBSET (0 .. b - 1)
    OBVIOUS
  <1>2. Field(w, <<a, b>>) = Number(S)
    BY DEF Field
  <1> HIDE DEF S
  <1> QED BY <1>1, <1>2, NumberRange

RegisterNumber == 0 .. 31

LEMMA FieldTypes ==
    ASSUME NEW w
    PROVE  /\ {Get(w, "instr"), Get(w, "d"), Get(w, "s0"), Get(w, "s1"), Get(w, "s2"),
               Get(w, "cpe_copn"), Get(w, "cpe_op")} \subseteq RegisterNumber
           /\ Get(w, "alu_op") \in 0 .. 15 /\ Get(w, "scr_op") \in 0 .. 15
           /\ Get(w, "lsl_op") \in 0 .. 3 /\ Get(w, "lsl_size") \in 0 .. 3
           /\ Get(w, "lsl_mode") \in 0 .. 7 /\ Get(w, "sys_op") \in 0 .. 7
           /\ Get(w, "lsl_imm10") \in 0 .. 1023
           /\ {Get(w, "alu_imm"), Get(w, "brn_imm16"), Get(w, "li_imm16"), Get(w, "sci_imm16"),
               Get(w, "cpe_copr"), Get(w, "sys_imm24"), Get(w, "li_shift")} \subseteq Nat
  <1> DEFINE F(a, b) == Field(w, <<a, b>>)
  <1>1. \A a, b \in Nat : F(a, b) \in 0 .. Weight[b] - 1
    BY FieldRange
  <1>2. /\ Get(w, "instr") = F(27, 5) /\ Get(w, "d") = F(22, 5) /\ Get(w, "s0") = F(17, 5)
        /\ Get(w, "s1") = F(12, 5) /\ Get(w, "s2") = F(7, 5)
        /\ Get(w, "cpe_copn") = F(8, 5) /\ Get(w, "cpe_op") = F(0, 5)
        /\ Get(w, "alu_op") = F(2, 4) /\ Get(w, "scr_op") = F(2, 4)
        /\ Get(w, "lsl_op") = F(3, 2) /\ Get(w, "lsl_size") = F(5, 2)
        /\ Get(w, "lsl_mode") = F(0, 3) /\ Get(w, "sys_op") = F(24, 3)
        /\ Get(w, "lsl_imm10") = F(7, 10)
    BY DEF Get, Place
  <1>3. /\ Get(w, "alu_imm") = F(6, 16) /\ Get(w, "brn_imm16") = F(1, 16)
        /\ Get(w, "li_imm16") = F(6, 16) /\ Get(w, "sci_imm16") = F(1, 16)
        /\ Get(w, "cpe_copr") = F(12, 10) /\ Get(w, "sys_imm24") = F(0, 24)
        /\ Get(w, "li_shift") = F(0, 5)
    BY DEF Get, Place
  <1> HIDE DEF F
  <1> DEFINE G(b) == Weight[b] - 1
  <1>9. \A a, b \in Nat : F(a, b) \in 0 .. G(b)
    BY <1>1
  <1>10. G(5) = 31 /\ G(4) = 15 /\ G(3) = 7 /\ G(2) = 3 /\ G(10) = 1023
    BY SmallWeights
  <1> HIDE DEF G
  <1>4. ASSUME NEW a \in Nat
        PROVE  /\ F(a, 5) \in RegisterNumber /\ F(a, 4) \in 0 .. 15
               /\ F(a, 3) \in 0 .. 7 /\ F(a, 2) \in 0 .. 3 /\ F(a, 10) \in 0 .. 1023
    <2>1. F(a, 5) \in 0 .. G(5) /\ F(a, 4) \in 0 .. G(4) /\ F(a, 3) \in 0 .. G(3)
          /\ F(a, 2) \in 0 .. G(2) /\ F(a, 10) \in 0 .. G(10)
      BY <1>9
    <2> QED BY <2>1, <1>10 DEF RegisterNumber
  <1>5. ASSUME NEW a \in Nat, NEW b \in Nat PROVE F(a, b) \in Nat
    <2>1. F(a, b) \in 0 .. G(b)
      BY <1>9
    <2> QED BY <2>1
  <1>6. {Get(w, "instr"), Get(w, "d"), Get(w, "s0"), Get(w, "s1"), Get(w, "s2"),
         Get(w, "cpe_copn"), Get(w, "cpe_op")} \subseteq RegisterNumber
    BY <1>2, <1>4
  <1>7. /\ Get(w, "alu_op") \in 0 .. 15 /\ Get(w, "scr_op") \in 0 .. 15
        /\ Get(w, "lsl_op") \in 0 .. 3 /\ Get(w, "lsl_size") \in 0 .. 3
        /\ Get(w, "lsl_mode") \in 0 .. 7 /\ Get(w, "sys_op") \in 0 .. 7
        /\ Get(w, "lsl_imm10") \in 0 .. 1023
    BY <1>2, <1>4
  <1>8. {Get(w, "alu_imm"), Get(w, "brn_imm16"), Get(w, "li_imm16"), Get(w, "sci_imm16"),
         Get(w, "cpe_copr"), Get(w, "sys_imm24"), Get(w, "li_shift")} \subseteq Nat
    BY <1>3, <1>5
  <1> QED BY <1>6, <1>7, <1>8

OperandType == [kind : {"register"}, n : RegisterNumber] \cup [kind : {"value"}, n : Word]

LEMMA OperandTypes ==
    /\ \A n \in RegisterNumber : R(n) \in OperandType
    /\ \A v \in Word : V(v) \in OperandType
  BY DEF R, V, OperandType

LEMMA ImmediateType ==
    ASSUME NEW v \in Nat, NEW sx \in BOOLEAN PROVE Immediate(v, sx) \in Word
  <1>1. HalfBits \in 1 .. WordBits /\ HalfBits \in 0 .. WordBits /\ v \in Int
    BY Widths
  <1>2. SignExtend(v, HalfBits) \in Word /\ v % Weight[HalfBits] \in Word
    BY <1>1, SignExtendType, LowBits
  <1> QED BY <1>2 DEF Immediate

LEMMA BranchOffsetType ==
    ASSUME NEW w, NEW instr \in Nat PROVE BranchOffset(w, instr) \in Word
  <1>1. Get(w, "brn_imm16") \in Nat /\ Weight[HalfBits] \in Nat \ {0}
    BY FieldTypes, Widths, WeightPositive
  <1>2. (Get(w, "brn_imm16") % Weight[HalfBits])
            + (IF instr >= 16 THEN Weight[HalfBits] ELSE 0) \in Int
    BY <1>1
  <1>3. HalfBits + 1 \in 1 .. WordBits
    BY Widths
  <1> QED BY <1>2, <1>3, SignExtendType DEF BranchOffset
------------------------------------------------------------------------------
(***************************************************************************)
(* The forms of a decoded instruction.                                     *)
(***************************************************************************)
TransferSize == {"BYTE", "SHORT", "LONG", "EXEC"}

AluForm ==
    [case : {"alu"}, fn : {AluTable[k] : k \in DOMAIN AluTable}, d : RegisterNumber,
     s0 : OperandType, s1 : OperandType]

BranchForm(i) ==
    i.case = "branch" /\ {i.d, i.s0} \subseteq RegisterNumber /\ i.offset \in Word

JumpForm(i) == i.case = "jump" /\ {i.d, i.s0, i.s1} \subseteq RegisterNumber

MemoryForm(i) ==
    /\ i.case \in {"load", "store", "lea"}
    /\ i.size \in TransferSize /\ {i.d, i.s0} \subseteq RegisterNumber
    /\ i.mode \in 0 .. 5 /\ i.index \in OperandType /\ i.imm \in Nat

ExchangeForm(i) == i.case \in {"mtcr", "mfcr"} /\ i.d \in RegisterNumber

LoadImmediateForm(i) == i.case = "li" /\ i.d \in RegisterNumber /\ i.value \in Word

SetCondForm(i) == i.case = "setcond" /\ i.d \in RegisterNumber

BareForm(i) ==
    i.case \in {"outside", "cop", "none", "illegal", "syscall", "excep", "debug", "exit",
                "tpl", "sysret"}

LEMMA AluDecoded == ASSUME NEW w PROVE AluInstruction(w) \in AluForm
  <1>1. Get(w, "alu_op") + 1 \in DOMAIN AluTable
    BY FieldTypes DEF AluTable
  <1>2. {Get(w, "d"), Get(w, "s0"), Get(w, "s1")} \subseteq RegisterNumber
    BY FieldTypes
  <1>3. Immediate(Get(w, "alu_imm"), Flag(w, "alu_sx")) \in Word
    <2>1. Get(w, "alu_imm") \in Nat /\ Flag(w, "alu_sx") \in BOOLEAN
      BY FieldTypes DEF Flag
    <2> QED BY <2>1, ImmediateType
  <1>4. /\ R(Get(w, "d")) \in OperandType /\ R(Get(w, "s0")) \in OperandType
        /\ R(Get(w, "s1")) \in OperandType
        /\ V(Immediate(Get(w, "alu_imm"), Flag(w, "alu_sx"))) \in OperandType
    BY <1>2, <1>3, OperandTypes
  <1>5. AluTable[Get(w, "alu_op") + 1] \in {AluTable[k] : k \in DOMAIN AluTable}
    BY <1>1
  <1> QED BY <1>2, <1>4, <1>5 DEF AluInstruction, AluForm

LEMMA BranchDecoded ==
    ASSUME NEW w, NEW instr \in Nat PROVE BranchForm(Branch(w, instr))
  BY FieldTypes, BranchOffsetType DEF Branch, BranchForm

LEMMA LoadStoreDecoded ==
    ASSUME NEW w PROVE MemoryForm(LoadStore(w)) \/ BareForm(LoadStore(w))
  <1> DEFINE i == LoadStore(w)  mode == Get(w, "lsl_mode")
  <1>1. /\ Get(w, "lsl_op") \in 0 .. 3 /\ Get(w, "lsl_size") \in 0 .. 3 /\ mode \in 0 .. 7
        /\ Get(w, "lsl_imm10") \in 0 .. 1023
        /\ {Get(w, "d"), Get(w, "s0"), Get(w, "s1"), Get(w, "s2")} \subseteq RegisterNumber
    BY FieldTypes
  <1>2. i.case = LoadStoreTable[Get(w, "lsl_op") + 1] /\ i.size = SizeTable[Get(w, "lsl_size") + 1]
        /\ i.d = Get(w, "d") /\ i.s0 = Get(w, "s0")
        /\ i.mode = (IF mode \in {6, 7} THEN mode - 2 ELSE mode)
        /\ i.index = (IF mode \in 4 .. 7 THEN V(0) ELSE R(Get(w, "s1")))
        /\ i.imm = (IF mode \in 4 .. 7 THEN FixedOffset(w, mode) ELSE Get(w, "s2"))
    BY DEF LoadStore
  <1>3. i.case \in {"load", "store", "lea", "none"} /\ i.size \in TransferSize
    BY <1>1, <1>2 DEF LoadStoreTable, SizeTable, TransferSize
  <1>4. i.mode \in 0 .. 5
    BY <1>1, <1>2
  <1>5. i.index \in OperandType
    <2>1. 0 \in Word
      BY Widths
    <2> QED BY <1>1, <1>2, <2>1, OperandTypes
  <1>6. i.imm \in Nat
    BY <1>1, <1>2 DEF FixedOffset, RegisterNumber
  <1>7. {i.d, i.s0} \subseteq RegisterNumber
    BY <1>1, <1>2
  <1> SUFFICES MemoryForm(i) \/ BareForm(i)
    OBVIOUS
  <1> HIDE DEF i
  <1> QED BY <1>3, <1>4, <1>5, <1>6, <1>7 DEF MemoryForm, BareForm

LEMMA SystemDecoded == ASSUME NEW w PROVE BareForm(System(w))
  <1>1. SystemTable[Get(w, "sys_op") + 1] \in
           {"syscall", "tpl", "debug", "excep", "sysret"}
    BY FieldTypes DEF SystemTable
  <1> QED BY <1>1 DEF System, BareForm

LEMMA ExchangeDecoded ==
    ASSUME NEW w PROVE ExchangeForm(Exchange(w)) \/ BareForm(Exchange(w))
  BY FieldTypes DEF Exchange, ExchangeForm, BareForm

LEMMA SetCondDecoded ==
    ASSUME NEW cond, NEW w, NEW a, NEW b
    PROVE  SetCondForm(SetCond(cond, w, a, b)) \/ BareForm(SetCond(cond, w, a, b))
  BY FieldTypes DEF SetCond, SetCondForm, BareForm

LEMMA RegisterBranchDecoded ==
    ASSUME NEW w PROVE JumpForm(RegisterBranch(w)) \/ BareForm(RegisterBranch(w))
  BY FieldTypes DEF RegisterBranch, JumpForm, BareForm

\* hv2_execute knows what to do with every word of 32 bits, whatever the memory
\* holds, and the operands it takes are registers that exist and values that
\* fit one.
LEMMA EveryWordDecodes ==
    ASSUME NEW w
    PROVE  LET i == Decoded(w)
           IN  \/ i \in AluForm \/ BranchForm(i) \/ JumpForm(i) \/ MemoryForm(i)
               \/ ExchangeForm(i) \/ LoadImmediateForm(i) \/ SetCondForm(i) \/ BareForm(i)
  <1> DEFINE n == Get(w, "instr")
             li == [case |-> "li", d |-> Get(w, "d"),
                    value |-> ShiftLeft(Immediate(Get(w, "li_imm16"), Flag(w, "li_sx")),
                                        Get(w, "li_shift"))]
             immediate == SetCond(Cond((n \div 2) % 8), w, V(Get(w, "s0")),
                                  V(Immediate(Get(w, "sci_imm16"), Flag(w, "sci_sx"))))
             register == SetCond(Cond(Get(w, "scr_op")), w, R(Get(w, "s0")), R(Get(w, "s1")))
  <1>1. n \in RegisterNumber
    BY FieldTypes
  <1>2. LoadImmediateForm(li)
    BY FieldTypes, ShiftLeftType DEF LoadImmediateForm
  <1>3. BareForm([case |-> "cop"]) /\ BareForm([case |-> "illegal"])
    BY DEF BareForm
  <1>4. \/ Decoded(w) = AluInstruction(w) \/ Decoded(w) = Branch(w, n)
        \/ Decoded(w) = RegisterBranch(w) \/ Decoded(w) = Exchange(w)
        \/ Decoded(w) = [case |-> "cop"] \/ Decoded(w) = System(w)
        \/ Decoded(w) = LoadStore(w) \/ Decoded(w) = li
        \/ Decoded(w) = immediate \/ Decoded(w) = register
        \/ Decoded(w) = [case |-> "illegal"]
    <2>1. Decoded(w) = CASE n = 0 -> AluInstruction(w)
                         [] n \in BranchImmediateInstr -> Branch(w, n)
                         [] n = 13 -> RegisterBranch(w)
                         [] n = 14 -> Exchange(w)
                         [] n \in {30, 31} -> [case |-> "cop"]
                         [] n = 15 -> System(w)
                         [] n = 16 -> LoadStore(w)
                         [] n = 17 -> li
                         [] n \in SetCondImmediateInstr -> immediate
                         [] n = 11 -> register
                         [] OTHER -> [case |-> "illegal"]
      BY DEF Decoded
    <2> HIDE DEF n, li, immediate, register
    <2> QED BY <2>1
  <1>5. CASE Decoded(w) = immediate \/ Decoded(w) = register
    BY <1>5, SetCondDecoded
  <1> HIDE DEF li, immediate, register
  <1>6. CASE Decoded(w) = Branch(w, n)
    <2>1. n \in Nat
      BY <1>1 DEF RegisterNumber
    <2> QED BY <1>6, <2>1, BranchDecoded
  <1>7. CASE Decoded(w) = AluInstruction(w)
    BY <1>7, AluDecoded
  <1>8. CASE Decoded(w) = RegisterBranch(w) \/ Decoded(w) = Exchange(w)
    BY <1>8, RegisterBranchDecoded, ExchangeDecoded
  <1>9. CASE Decoded(w) = System(w) \/ Decoded(w) = LoadStore(w)
    BY <1>9, SystemDecoded, LoadStoreDecoded
  <1>10. CASE Decoded(w) = li \/ Decoded(w) = [case |-> "cop"] \/ Decoded(w) = [case |-> "illegal"]
    BY <1>2, <1>3, <1>10
  <1> QED BY <1>4, <1>5, <1>6, <1>7, <1>8, <1>9, <1>10

LEMMA EmptyFields == \A f : Get({}, f) = 0
  <1>1. \A place : Field({}, place) = 0
    <2> SUFFICES ASSUME NEW place PROVE Field({}, place) = 0
      OBVIOUS
    <2>1. {i \in 0 .. place[2] - 1 : place[1] + i \in {}} = {}
      OBVIOUS
    <2> QED BY <2>1, NumberEmpty DEF Field
  <1> QED BY <1>1 DEF Get

\* The word 0, which a reset, a flush and a fetch from nowhere leave in the
\* pipeline, is an addition to register 0.
LEMMA NothingDecodes ==
    LET i == Decoded({}) IN i \in AluForm /\ i.fn = "add" /\ i.d = 0 /\ i.case = "alu"
  <1>1. \A f : Get({}, f) = 0
    BY EmptyFields
  <1>2. Decoded({}) = AluInstruction({})
    <2>1. Get({}, "instr") = 0
      BY <1>1
    <2>2. 0 \notin BranchImmediateInstr /\ 0 \notin SetCondImmediateInstr
      BY DEF BranchImmediateInstr, SetCondImmediateInstr
    <2> QED BY <2>1, <2>2 DEF Decoded
  <1>3. AluInstruction({}).fn = AluTable[0 + 1] /\ AluInstruction({}).d = 0
        /\ AluInstruction({}).case = "alu"
    BY <1>1 DEF AluInstruction
  <1> QED BY <1>2, <1>3, AluDecoded DEF AluTable
=============================================================================
