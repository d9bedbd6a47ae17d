--------------------------- MODULE ContractProofs ---------------------------
(***************************************************************************)
(* Proofs about ZK contracts, for every source the compiler accepts and    *)
(* every prime field: what is loaded is what the source says, the circuit  *)
(* has one constraint for every equation of the source with the same three *)
(* sums, the public values reach the verifier in the prover's order, and   *)
(* the machine leaves what the lines of the source mean.                   *)
(* The facts about folds are those of CodecProofs, section Folds.          *)
(***************************************************************************)
EXTENDS ZKContract, CodecProofs

----------------------------------------------------------------------------
(* The field: numbers modulo P.                                            *)

LEMMA FieldIs ==
  /\ P \in Nat /\ P \in Int /\ P > 1 /\ Scalars \subseteq Int /\ 0 \in Scalars /\ 1 \in Scalars
  /\ \A x \in Scalars : x >= 0 /\ x < P
BY FieldAssumption DEF Scalars

LEMMA Reduced ==
  ASSUME NEW a \in Int
  PROVE  \E q \in Int : a = (P * q) + (a % P) /\ a % P \in Scalars
<1>1. a \div P \in Int /\ a = (P * (a \div P)) + (a % P)
  BY FieldIs, SMT
<1>2. a % P \in Scalars
  BY FieldIs, SMT DEF Scalars
<1> QED BY <1>1, <1>2

LEMMA ReducedIs ==
  ASSUME NEW q \in Int, NEW r \in Scalars
  PROVE  ((P * q) + r) % P = r
BY FieldIs, SMT DEF Scalars

LEMMA ScalarIs == \A x \in Scalars : x % P = x
BY FieldIs, SMT DEF Scalars

\* Equal in the field.
Same(a, b) == \E k \in Int : a = b + (P * k)

LEMMA SameIs ==
  ASSUME NEW a \in Int, NEW b \in Int
  PROVE  Same(a, b) <=> a % P = b % P
<1>1. PICK q \in Int : b = (P * q) + (b % P) /\ b % P \in Scalars
  BY Reduced
<1>2. PICK r : r = b % P
  OBVIOUS
<1>3. b = (P * q) + r /\ r \in Scalars /\ r \in Int
  BY <1>1, <1>2, FieldIs
<1>4. ASSUME Same(a, b) PROVE a % P = b % P
  <2>1. PICK k \in Int : a = b + (P * k)
    BY <1>4 DEF Same
  <2>2. P * (q + k) = (P * q) + (P * k)
    BY FieldIs, SMT
  <2>3. PICK x, y : x = P * q /\ y = P * k
    OBVIOUS
  <2>4. x \in Int /\ y \in Int
    BY <2>3, FieldIs, SMT
  <2>5. a = (P * (q + k)) + r
    BY ONLY <1>3, <2>1, <2>2, <2>3, <2>4
  <2>6. q + k \in Int
    OBVIOUS
  <2> QED BY <1>2, <1>3, <2>5, <2>6, ReducedIs
<1>5. ASSUME a % P = b % P PROVE Same(a, b)
  <2>1. PICK p \in Int : a = (P * p) + r
    BY <1>2, <1>5, Reduced
  <2>2. P * (p - q) = (P * p) - (P * q)
    BY FieldIs, SMT
  <2>3. PICK x, y : x = P * p /\ y = P * q
    OBVIOUS
  <2>4. x \in Int /\ y \in Int
    BY <2>3, FieldIs, SMT
  <2>5. a = b + (P * (p - q))
    BY ONLY <1>3, <2>1, <2>2, <2>3, <2>4
  <2> QED BY <2>5 DEF Same
<1> QED BY <1>4, <1>5

LEMMA SameReduced ==
  ASSUME NEW a \in Int
  PROVE  Same(a % P, a) /\ a % P \in Int /\ Same(a, a)
<1>1. a % P \in Scalars
  BY Reduced
<1>2. a % P \in Int /\ (a % P) % P = a % P
  BY <1>1, ScalarIs, FieldIs
<1> QED BY <1>2, SameIs

LEMMA SameTrans ==
  ASSUME NEW a \in Int, NEW b \in Int, NEW c \in Int, Same(a, b)
  PROVE  Same(b, a) /\ (Same(b, c) => Same(a, c))
BY SameIs

LEMMA SameSums ==
  ASSUME NEW a \in Int, NEW b \in Int, NEW c \in Int, NEW d \in Int, Same(a, b), Same(c, d)
  PROVE  Same(a + c, b + d) /\ Same(a - c, b - d) /\ Same(-c, -d)
<1>1. PICK k \in Int : a = b + (P * k)
  BY DEF Same
<1>2. PICK l \in Int : c = d + (P * l)
  BY DEF Same
<1>3. P * (k + l) = (P * k) + (P * l) /\ P * (k - l) = (P * k) - (P * l) /\ P * (-l) = -(P * l)
  BY FieldIs, SMT
<1>4. PICK x, y : x = P * k /\ y = P * l
  OBVIOUS
<1>5. x \in Int /\ y \in Int
  BY <1>4, FieldIs, SMT
<1>6. /\ a + c = (b + d) + (x + y) /\ a - c = (b - d) + (x - y) /\ -c = -d + (-y)
  BY ONLY <1>1, <1>2, <1>4, <1>5, b \in Int, d \in Int
<1>7. k + l \in Int /\ k - l \in Int /\ -l \in Int
  OBVIOUS
<1> QED BY <1>3, <1>4, <1>6, <1>7 DEF Same

LEMMA SameProduct ==
  ASSUME NEW a \in Int, NEW b \in Int, NEW c \in Int, Same(a, b)
  PROVE  Same(a * c, b * c) /\ Same(c * a, c * b)
<1>1. PICK k \in Int : a = b + (P * k)
  BY DEF Same
<1>2. PICK x : x = P * k
  OBVIOUS
<1>3. x \in Int
  BY <1>2, FieldIs, SMT
<1>4. (b + x) * c = (b * c) + (x * c)
  BY ONLY <1>3, b \in Int, c \in Int, SMT
<1>5. x * c = P * (k * c)
  BY ONLY <1>2, k \in Int, c \in Int, FieldIs, SMT
<1>6. k * c \in Int /\ c * a = a * c /\ c * b = b * c
  BY SMT
<1> QED BY <1>1, <1>2, <1>4, <1>5, <1>6 DEF Same

LEMMA SameProducts ==
  ASSUME NEW a \in Int, NEW b \in Int, NEW c \in Int, NEW d \in Int, Same(a, b), Same(c, d)
  PROVE  Same(a * c, b * d)
<1>1. Same(a * c, b * c) /\ Same(b * c, b * d)
  BY SameProduct
<1>2. a * c \in Int /\ b * c \in Int /\ b * d \in Int
  BY SMT
<1> QED BY <1>1, <1>2, SameTrans

LEMMA SameZero ==
  ASSUME NEW a \in Int, NEW b \in Int
  PROVE  (a - b) % P = 0 <=> a % P = b % P
<1>1. 0 % P = 0
  BY FieldIs, ScalarIs
<1>2. PICK d : d = a - b
  OBVIOUS
<1>3. d \in Int /\ a = b + d
  BY <1>2
<1>4. Same(d, 0) <=> d % P = 0
  BY <1>1, <1>3, SameIs
<1>5. Same(d, 0) => Same(a, b)
  <2>1. SUFFICES ASSUME NEW k \in Int, d = 0 + (P * k) PROVE Same(a, b)
    BY DEF Same
  <2>2. P * k = d
    BY <1>3, <2>1, FieldIs, SMT
  <2> QED BY <1>3, <2>2 DEF Same
<1>6. Same(a, b) => Same(d, 0)
  <2>1. SUFFICES ASSUME NEW k \in Int, a = b + (P * k) PROVE Same(d, 0)
    BY DEF Same
  <2>3. PICK x : x = P * k
    OBVIOUS
  <2>4. x \in Int
    BY <2>3, FieldIs, SMT
  <2>2. d = 0 + x
    BY ONLY <1>2, <2>1, <2>3, <2>4, b \in Int
  <2> QED BY <2>2, <2>3 DEF Same
<1> QED BY <1>2, <1>4, <1>5, <1>6, SameIs

----------------------------------------------------------------------------
(* Sums.                                                                   *)

Sums(s, f) ==
  f[0] = 0 /\ \A i \in 1..Len(s) : f[i] = f[i - 1] + s[i]

LEMMA TotalIs ==
  ASSUME NEW s \in Seq(Int)
  PROVE  \E f \in [0..Len(s) -> Int] : Sums(s, f) /\ Total(s) = f[Len(s)]
<1> DEFINE n == Len(s)
           step == [i \in 1..n |-> [x \in Int |-> x + s[i]]]
           D == DOMAIN s
           Eqn(g) == g = [t \in SUBSET D |->
                            IF t = {} THEN 0 ELSE g[t \ {Max(t)}] + s[Max(t)]]
<1>1. Total(s) = (CHOOSE g : Eqn(g))[D]
  BY DEF Total, FoldLeft, MapThenFoldSet
<1>13. D = 1..n /\ 0 \in Int
  OBVIOUS
<1>2. n \in Nat /\ \A i \in 1..n : s[i] \in Int
  OBVIOUS
<1>3. step \in [1..n -> [Int -> Int]]
  BY <1>2
<1>4. \A i \in 1..n, x \in Int : step[i][x] = x + s[i]
  OBVIOUS
<1> HIDE DEF n, step, D
<1>5. PICK e \in [SUBSET (1..n) -> Int] : Table(step, 0, n, e)
  BY <1>2, <1>3, <1>13, TableExists
<1>6. Eqn(e)
  <2>1. ASSUME NEW t \in SUBSET (1..n), t # {} PROVE e[t] = e[t \ {Max(t)}] + s[Max(t)]
    <3>1. Max(t) \in 1..n
      BY <1>2, <2>1, Greatest
    <3>2. t \ {Max(t)} \in SUBSET (1..n)
      OBVIOUS
    <3>3. e[t \ {Max(t)}] \in Int
      BY <1>5, <3>2
    <3> QED BY <1>4, <1>5, <2>1, <3>1, <3>3 DEF Table
  <2>2. e[{}] = 0
    BY <1>5 DEF Table
  <2> QED BY <1>5, <1>13, <2>1, <2>2
<1>7. PICK g : g = (CHOOSE h : Eqn(h))
  OBVIOUS
<1>8. Eqn(g)
  BY <1>6, <1>7, Zenon
<1>9. g[{}] = 0
  BY <1>8, <1>13
<1>10. ASSUME NEW i \in 1..n, g[1..(i - 1)] \in Int PROVE g[1..i] = step[i][g[1..(i - 1)]]
  <2>1. g[1..i] = g[1..(i - 1)] + s[i]
    <3>1. PICK t : t = 1..i
      OBVIOUS
    <3>2. t \in SUBSET D /\ t # {} /\ Max(t) = i /\ t \ {i} = 1..(i - 1)
      BY <1>2, <1>13, <3>1, FirstPlaces
    <3>3. g[t] = g[t \ {Max(t)}] + s[Max(t)]
      BY <1>8, <3>2
    <3> QED BY <3>1, <3>2, <3>3
  <2> QED BY <1>4, <1>10, <2>1
<1>11. PICK f \in [0..n -> Int] : Iter(step, 0, n, f) /\ g[1..n] = f[n]
  <2>1. Follows(Int, step, 0, n, g)
    BY <1>9, <1>10 DEF Follows
  <2>2. PICK S, b : S = Int /\ b = 0
    OBVIOUS
  <2>3. Follows(S, step, b, n, g)
    BY <2>1, <2>2
  <2>4. b \in S /\ n \in Nat /\ step \in [1..n -> [S -> S]]
    BY <1>2, <1>3, <1>13, <2>2
  <2>5. \E f \in [0..n -> S] : Iter(step, b, n, f) /\ g[1..n] = f[n]
    BY ONLY <2>3, <2>4, FoldResult
  <2> QED BY <2>2, <2>5
<1>12. Sums(s, f)
  <2>1. ASSUME NEW i \in 1..n PROVE f[i] = f[i - 1] + s[i]
    <3>1. f[i - 1] \in Int
      BY <1>2, <1>11
    <3> QED BY <1>4, <1>11, <3>1 DEF Iter
  <2> QED BY <1>11, <2>1 DEF Iter, Sums, n
<1> QED BY <1>1, <1>7, <1>11, <1>12, <1>13 DEF n

\* A change at one place changes the sum by as much.
LEMMA TotalChange ==
  ASSUME NEW s \in Seq(Int), NEW t \in Seq(Int), Len(s) = Len(t), NEW d \in Int,
         NEW p \in 1..Len(s), Same(t[p], s[p] + d),
         \A i \in 1..Len(s) : i # p => t[i] = s[i]
  PROVE  Same(Total(t), Total(s) + d) /\ Total(t) \in Int /\ Total(s) \in Int
<1>1. PICK n : n = Len(s)
  OBVIOUS
<1>2. n \in Nat /\ Len(t) = n /\ \A i \in 1..n : s[i] \in Int /\ t[i] \in Int
  BY <1>1
<1>3. PICK f \in [0..Len(s) -> Int] : Sums(s, f) /\ Total(s) = f[Len(s)]
  BY TotalIs
<1>4. PICK g \in [0..Len(t) -> Int] : Sums(t, g) /\ Total(t) = g[Len(t)]
  BY TotalIs
<1>5. /\ f \in [0..n -> Int] /\ f[0] = 0 /\ \A i \in 1..n : f[i] = f[i - 1] + s[i]
      /\ g \in [0..n -> Int] /\ g[0] = 0 /\ \A i \in 1..n : g[i] = g[i - 1] + t[i]
  BY <1>1, <1>2, <1>3, <1>4 DEF Sums
<1> DEFINE E(i) == (i < p => g[i] = f[i]) /\ (i >= p => Same(g[i], f[i] + d))
           T == {i \in Nat : i <= n => E(i)}
<1>6. E(0)
  BY <1>1, <1>2, <1>5
<1>7. ASSUME NEW i \in Nat, i + 1 <= n, E(i) PROVE E(i + 1)
  <2>1. i + 1 \in 1..n /\ (i + 1) - 1 = i /\ i \in 0..n
    BY ONLY <1>2, <1>7
  <2>2. PICK j : j = i + 1
    OBVIOUS
  <2>3. PICK x, y, u, w : x = f[i] /\ y = g[i] /\ u = s[j] /\ w = t[j]
    OBVIOUS
  <2>4. x \in Int /\ y \in Int /\ u \in Int /\ w \in Int /\ f[j] = x + u /\ g[j] = y + w
    BY <1>2, <1>5, <2>1, <2>2, <2>3
  <2>5. CASE j < p
    <3>1. w = u /\ y = x
      BY <1>1, <1>7, <2>1, <2>2, <2>3, <2>5
    <3> QED BY <1>2, <2>2, <2>4, <2>5, <3>1
  <2>6. CASE j = p
    <3>1. y = x /\ Same(w, u + d)
      BY <1>7, <2>2, <2>3, <2>6
    <3>2. Same(y, x)
      BY <2>4, <3>1, SameReduced
    <3>3. Same(y + w, x + (u + d))
      BY <2>4, <3>1, <3>2, SameSums
    <3>4. x + (u + d) = (x + u) + d
      BY <2>4
    <3> QED BY <2>2, <2>4, <2>6, <3>3, <3>4
  <2>7. CASE j > p
    <3>1. w = u /\ Same(y, x + d)
      BY <1>1, <1>7, <2>1, <2>2, <2>3, <2>7
    <3>2. Same(w, u)
      BY <2>4, <3>1, SameReduced
    <3>3. Same(y + w, (x + d) + u)
      BY <2>4, <3>1, <3>2, SameSums
    <3>4. (x + d) + u = (x + u) + d
      BY <2>4
    <3> QED BY <2>2, <2>4, <2>7, <3>3, <3>4
  <2>8. p \in Nat /\ j \in Nat
    BY <2>2
  <2> QED BY <2>5, <2>6, <2>7, <2>8
<1> HIDE DEF E
<1>8. 0 \in T /\ \A i \in Nat : i \in T => i + 1 \in T
  BY <1>2, <1>6, <1>7
<1>9. n \in T
  <2> HIDE DEF T
  <2> QED BY <1>2, <1>8, Induct
<1>10. E(n) /\ n >= p
  BY <1>1, <1>2, <1>9
<1>11. n \in 0..n
  BY <1>2
<1> QED BY <1>1, <1>2, <1>3, <1>4, <1>5, <1>10, <1>11 DEF E

LEMMA TotalZero ==
  ASSUME NEW s \in Seq(Int), \A i \in 1..Len(s) : s[i] = 0
  PROVE  Total(s) = 0
<1>1. PICK f \in [0..Len(s) -> Int] : Sums(s, f) /\ Total(s) = f[Len(s)]
  BY TotalIs
<1>2. PICK n : n = Len(s)
  OBVIOUS
<1>3. n \in Nat /\ f[0] = 0 /\ \A i \in 1..n : f[i] = f[i - 1] + 0
  BY <1>1, <1>2 DEF Sums
<1> DEFINE T == {i \in Nat : i <= n => f[i] = 0}
<1>4. 0 \in T
  BY <1>3
<1>5. ASSUME NEW i \in Nat, i \in T PROVE i + 1 \in T
  <2>1. CASE i + 1 <= n
    <3>1. i + 1 \in 1..n /\ (i + 1) - 1 = i /\ i <= n
      BY <1>3, <2>1
    <3> QED BY <1>3, <1>5, <3>1
  <2>2. CASE ~(i + 1 <= n)
    BY <2>2
  <2> QED BY <2>1, <2>2
<1>6. n \in T
  <2> HIDE DEF T
  <2> QED BY <1>3, <1>4, <1>5, Induct
<1> QED BY <1>1, <1>2, <1>3, <1>6

----------------------------------------------------------------------------
(* Coefficients: doublings since the last reset.                           *)

LastReset(lines, i, r) ==
  /\ r = 0 \/ lines[r].cmd = "lc_coeff_reset"
  /\ \A k \in r + 1 .. i - 1 : lines[k].cmd # "lc_coeff_reset"
Since(lines, i) == CHOOSE r \in 0 .. i - 1 : LastReset(lines, i, r)
Doublings(lines, r, i) == {k \in r + 1 .. i - 1 : lines[k].cmd = "lc_coeff_double"}

LEMMA CoefficientIs ==
  ASSUME NEW lines, NEW i
  PROVE  Coefficient(lines, i) = 2 ^ Cardinality(Doublings(lines, Since(lines, i), i))
BY DEF Coefficient, Doublings, Since, LastReset

LEMMA SinceIs ==
  ASSUME NEW lines, NEW i \in Nat, i > 0
  PROVE  Since(lines, i) \in 0 .. i - 1 /\ LastReset(lines, i, Since(lines, i))
<1>1. \E r \in 0 .. i - 1 : LastReset(lines, i, r)
  <2>1. PICK n : n = i - 1
    OBVIOUS
  <2>2. n \in Nat
    BY <2>1
  <2>3. PICK R : R = {r \in 1..n : lines[r].cmd = "lc_coeff_reset"}
    OBVIOUS
  <2>4. CASE R = {}
    <3>1. \A k \in 1..n : lines[k].cmd # "lc_coeff_reset"
      BY <2>3, <2>4
    <3>2. LastReset(lines, i, 0)
      BY <2>1, <3>1 DEF LastReset
    <3> QED BY <2>1, <2>2, <3>2
  <2>5. CASE R # {}
    <3>1. PICK r : r = Max(R)
      OBVIOUS
    <3>2. R \in SUBSET (1..n)
      BY <2>3
    <3>3. r \in R /\ \A y \in R : r >= y
      BY <2>2, <2>5, <3>1, <3>2, Greatest
    <3>4. r \in 1..n /\ lines[r].cmd = "lc_coeff_reset"
      BY <2>3, <3>3
    <3>5. ASSUME NEW k \in r + 1 .. n PROVE lines[k].cmd # "lc_coeff_reset"
      <4>1. k \in 1..n /\ ~(r >= k)
        BY <3>4
      <4> QED BY <2>3, <3>3, <4>1
    <3>6. LastReset(lines, i, r)
      BY <2>1, <3>4, <3>5 DEF LastReset
    <3> QED BY <2>1, <3>4, <3>6
  <2> QED BY <2>4, <2>5
<1> QED BY <1>1 DEF Since

LEMMA SinceOnly ==
  ASSUME NEW lines, NEW i \in Nat, i > 0, NEW r \in 0 .. i - 1, LastReset(lines, i, r)
  PROVE  Since(lines, i) = r
<1>1. PICK q : q = Since(lines, i)
  OBVIOUS
<1>2. q \in 0 .. i - 1 /\ LastReset(lines, i, q)
  BY <1>1, SinceIs
<1>3. ~(q < r)
  <2>1. SUFFICES ASSUME q < r PROVE FALSE
    OBVIOUS
  <2>2. r \in q + 1 .. i - 1 /\ r # 0
    BY <1>2, <2>1
  <2> QED BY <1>2, <2>2 DEF LastReset
<1>4. ~(r < q)
  <2>1. SUFFICES ASSUME r < q PROVE FALSE
    OBVIOUS
  <2>2. q \in r + 1 .. i - 1 /\ q # 0
    BY <1>2, <2>1
  <2> QED BY <1>2, <2>2 DEF LastReset
<1> QED BY <1>1, <1>2, <1>3, <1>4

\* What a line does to the coefficient of the lines that follow it.
LEMMA CoefficientSteps ==
  ASSUME NEW lines
  PROVE  /\ Coefficient(lines, 1) = 1
         /\ \A i \in Nat \ {0} :
              /\ Coefficient(lines, i) \in Nat
              /\ Coefficient(lines, i + 1) =
                   IF lines[i].cmd = "lc_coeff_reset" THEN 1
                   ELSE IF lines[i].cmd = "lc_coeff_double" THEN 2 * Coefficient(lines, i)
                   ELSE Coefficient(lines, i)
<1>1. Cardinality({}) = 0
  BY FS_EmptySet
<1>2. Coefficient(lines, 1) = 1
  <2>1. Doublings(lines, Since(lines, 1), 1) = {}
    <3>1. Since(lines, 1) \in 0 .. 1 - 1
      BY SinceIs
    <3> QED BY <3>1 DEF Doublings
  <2> QED BY <1>1, <2>1, CoefficientIs, Powers
<1>3. ASSUME NEW i \in Nat \ {0}
      PROVE  /\ Coefficient(lines, i) \in Nat
             /\ Coefficient(lines, i + 1) =
                   IF lines[i].cmd = "lc_coeff_reset" THEN 1
                   ELSE IF lines[i].cmd = "lc_coeff_double" THEN 2 * Coefficient(lines, i)
                   ELSE Coefficient(lines, i)
  <2>1. PICK j, r, D : j = i + 1 /\ r = Since(lines, i) /\ D = Doublings(lines, r, i)
    OBVIOUS
  <2>2. r \in 0 .. i - 1 /\ LastReset(lines, i, r)
    BY <2>1, SinceIs
  <2>3. IsFiniteSet(D) /\ Cardinality(D) \in Nat
    <3>1. IsFiniteSet(1..i)
      BY FS_Interval
    <3>2. D \subseteq 1..i
      BY <2>1, <2>2 DEF Doublings
    <3> QED BY <3>1, <3>2, FS_Subset, FS_CardinalityType
  <2>4. PICK c : c = Cardinality(D)
    OBVIOUS
  <2>5. Coefficient(lines, i) = 2 ^ c /\ 2 ^ c \in Nat /\ 2 ^ (c + 1) = 2 * (2 ^ c)
    BY <2>1, <2>3, <2>4, CoefficientIs, Powers
  <2>6. j \in Nat /\ j > 0 /\ j - 1 = i
    BY <2>1
  <2>7. CASE lines[i].cmd = "lc_coeff_reset"
    <3>1. i + 1 .. j - 1 = {} /\ i \in 0 .. j - 1
      BY <2>6
    <3>2. LastReset(lines, j, i)
      BY <2>7, <3>1 DEF LastReset
    <3>3. Since(lines, j) = i
      BY <2>6, <3>1, <3>2, SinceOnly
    <3>4. Doublings(lines, i, j) = {}
      BY <3>1 DEF Doublings
    <3>5. Coefficient(lines, j) = 1
      BY <1>1, <3>3, <3>4, CoefficientIs, Powers
    <3> QED BY <2>1, <2>5, <2>7, <3>5
  <2>8. CASE lines[i].cmd # "lc_coeff_reset"
    <3>1. r + 1 .. j - 1 = (r + 1 .. i - 1) \cup {i} /\ i \notin r + 1 .. i - 1 /\ r \in 0 .. j - 1
      BY <2>2, <2>6
    <3>2. LastReset(lines, j, r)
      BY <2>2, <2>8, <3>1 DEF LastReset
    <3>3. Since(lines, j) = r
      BY <2>6, <3>1, <3>2, SinceOnly
    <3>4. CASE lines[i].cmd = "lc_coeff_double"
      <4>1. Doublings(lines, r, j) = D \cup {i} /\ i \notin D
        BY <2>1, <3>1, <3>4 DEF Doublings
      <4>2. Cardinality(D \cup {i}) = c + 1
        BY <2>3, <2>4, <4>1, FS_AddElement
      <4>3. Coefficient(lines, j) = 2 ^ (c + 1)
        BY <3>3, <4>1, <4>2, CoefficientIs
      <4> QED BY <2>1, <2>5, <2>8, <3>4, <4>3
    <3>5. CASE lines[i].cmd # "lc_coeff_double"
      <4>1. Doublings(lines, r, j) = D
        BY <2>1, <3>1, <3>5 DEF Doublings
      <4>2. Coefficient(lines, j) = 2 ^ c
        BY <2>4, <3>3, <4>1, CoefficientIs
      <4> QED BY <2>1, <2>5, <2>8, <3>5, <4>2
    <3> QED BY <3>4, <3>5
  <2> QED BY <2>7, <2>8
<1> QED BY <1>2, <1>3

----------------------------------------------------------------------------
(* Lines picked out of a source.                                           *)

Picking(s, T, f) ==
  /\ f[0] = <<>>
  /\ \A i \in 1..Len(s) : f[i] = IF i \in T THEN Append(f[i - 1], s[i]) ELSE f[i - 1]

\* The same is picked out of the first n lines.
Alike(s, T, t, U, n) ==
  /\ n \in Nat /\ Len(s) \in Nat /\ Len(t) \in Nat /\ n <= Len(s) /\ n <= Len(t)
  /\ \A i \in 1..n : s[i] = t[i] /\ (i \in T <=> i \in U)

LEMMA PickingOnly ==
  ASSUME NEW s, NEW T, NEW f, NEW t, NEW U, NEW g, NEW n,
         Picking(s, T, f), Picking(t, U, g), Alike(s, T, t, U, n)
  PROVE  f[n] = g[n]
<1>0. /\ n \in Nat /\ Len(s) \in Nat /\ Len(t) \in Nat /\ n <= Len(s) /\ n <= Len(t)
      /\ \A i \in 1..n : s[i] = t[i] /\ (i \in T <=> i \in U)
  BY DEF Alike
<1> DEFINE W == {i \in Nat : i <= n => f[i] = g[i]}
<1>1. 0 \in W
  BY DEF Picking
<1>2. ASSUME NEW i \in Nat, i \in W PROVE i + 1 \in W
  <2>1. SUFFICES ASSUME i + 1 <= n PROVE f[i + 1] = g[i + 1]
    OBVIOUS
  <2>2. PICK j : j = i + 1
    OBVIOUS
  <2>3. j \in 1..Len(s) /\ j \in 1..Len(t) /\ j \in 1..n /\ j - 1 = i /\ f[i] = g[i]
    BY <1>0, <1>2, <2>1, <2>2
  <2>4. f[j] = IF j \in T THEN Append(f[i], s[j]) ELSE f[i]
    BY <2>3 DEF Picking
  <2>5. g[j] = IF j \in U THEN Append(g[i], t[j]) ELSE g[i]
    BY <2>3 DEF Picking
  <2>6. s[j] = t[j] /\ (j \in T <=> j \in U)
    BY <1>0, <2>3
  <2> QED BY <2>2, <2>3, <2>4, <2>5, <2>6
<1>3. n \in W
  <2> HIDE DEF W
  <2> QED BY <1>0, <1>1, <1>2, Induct
<1> QED BY <1>0, <1>3

LEMMA PickingSame ==
  ASSUME NEW s, NEW T, NEW f, NEW g, NEW m, Picking(s, T, f), Picking(s, T, g), Alike(s, T, s, T, m)
  PROVE  g[m] = f[m]
BY PickingOnly

LEMMA SelectedIs ==
  ASSUME NEW S, NEW s \in Seq(S), NEW T
  PROVE  \E f \in [0..Len(s) -> Seq(S)] : Picking(s, T, f) /\ Selected(s, T) = f[Len(s)]
<1> DEFINE n == Len(s)
           step == [i \in 1..n |-> [x \in Seq(S) |-> IF i \in T THEN Append(x, s[i]) ELSE x]]
           Eqn(g) == g = [i \in 0..n |-> IF i = 0 THEN <<>>
                                         ELSE IF i \in T THEN Append(g[i - 1], s[i]) ELSE g[i - 1]]
<1>1. Selected(s, T) = (CHOOSE g : Eqn(g))[n]
  BY DEF Selected
<1>2. n \in Nat /\ \A i \in 1..n : s[i] \in S
  OBVIOUS
<1>3. step \in [1..n -> [Seq(S) -> Seq(S)]]
  <2>1. \A i \in 1..n, x \in Seq(S) : Append(x, s[i]) \in Seq(S)
    BY <1>2
  <2> QED BY <2>1
<1>4. \A i \in 1..n, x \in Seq(S) : step[i][x] = IF i \in T THEN Append(x, s[i]) ELSE x
  OBVIOUS
<1>5. <<>> \in Seq(S)
  OBVIOUS
<1> HIDE DEF n, step
<1>6. PICK f \in [0..n -> Seq(S)] : Iter(step, <<>>, n, f)
  BY <1>2, <1>3, <1>5, IterExists
<1>7. f[0] = <<>> /\ \A i \in 1..n : f[i] = IF i \in T THEN Append(f[i - 1], s[i]) ELSE f[i - 1]
  <2>1. ASSUME NEW i \in 1..n PROVE f[i] = IF i \in T THEN Append(f[i - 1], s[i]) ELSE f[i - 1]
    <3>1. f[i] = step[i][f[i - 1]]
      BY <1>6, <2>1 DEF Iter
    <3>2. i - 1 \in 0..n
      BY <1>2
    <3>3. f[i - 1] \in Seq(S)
      BY <1>6, <3>2
    <3> QED BY <1>4, <3>1, <3>3
  <2>2. f[0] = <<>>
    BY <1>6 DEF Iter
  <2> QED BY <2>1, <2>2
<1>8. Eqn(f)
  <2>1. \A i \in 0..n : i # 0 => i \in 1..n
    BY <1>2
  <2> QED BY <1>6, <1>7, <2>1
<1>9. PICK g : g = (CHOOSE h : Eqn(h))
  OBVIOUS
<1>10. Eqn(g)
  BY <1>8, <1>9, Zenon
<1>11. Picking(s, T, g)
  <2>1. g[0] = <<>>
    BY <1>2, <1>10
  <2>2. ASSUME NEW i \in 1..n PROVE g[i] = IF i \in T THEN Append(g[i - 1], s[i]) ELSE g[i - 1]
    <3>1. i \in 0..n /\ i # 0
      BY <1>2
    <3> QED BY <1>10, <3>1
  <2> QED BY <2>1, <2>2 DEF Picking, n
<1>12. Picking(s, T, f)
  BY <1>7 DEF Picking, n
<1>13. PICK m : m = Len(s)
  OBVIOUS
<1>14. g[m] = f[m]
  <2>1. PICK h, t : h = f /\ t = s
    OBVIOUS
  <2>2. Alike(t, T, t, T, m)
    BY <1>13, <2>1 DEF Alike
  <2>3. Picking(t, T, g) /\ Picking(t, T, h)
    BY ONLY <1>11, <1>12, <2>1
  <2>4. g[m] = h[m]
    BY ONLY <2>2, <2>3, PickingSame
  <2> QED BY <2>1, <2>4
<1> QED BY <1>1, <1>6, <1>9, <1>12, <1>13, <1>14 DEF n

\* A set of numbers in increasing order.
Listing(e, U, m) ==
  /\ e \in [1..m -> U]
  /\ \A j, k \in 1..m : j < k => e[j] < e[k]
  /\ \A x \in U : \E k \in 1..m : e[k] = x

\* What is selected, at the selected places in their order.
Picks(s, T, n, q) ==
  \E e : Listing(e, {i \in 1..n : i \in T}, Len(q)) /\ \A k \in 1..Len(q) : q[k] = s[e[k]]

LEMMA PickNext ==
  ASSUME NEW S, NEW s \in Seq(S), NEW T, NEW n \in Nat, n + 1 <= Len(s), NEW q \in Seq(S), Picks(s, T, n, q)
  PROVE  Picks(s, T, n + 1, IF n + 1 \in T THEN Append(q, s[n + 1]) ELSE q)
<1>1. PICK e : /\ Listing(e, {i \in 1..n : i \in T}, Len(q))
               /\ \A k \in 1..Len(q) : q[k] = s[e[k]]
  BY DEF Picks
<1>2. PICK p, m, U, V : p = n + 1 /\ m = Len(q) /\ U = {i \in 1..n : i \in T} /\ V = {i \in 1..p : i \in T}
  OBVIOUS
<1>3. /\ e \in [1..m -> U] /\ \A j, k \in 1..m : j < k => e[j] < e[k]
      /\ \A x \in U : \E k \in 1..m : e[k] = x
  BY <1>1, <1>2 DEF Listing
<1>4. m \in Nat /\ p \in Nat /\ p \in 1..Len(s)
  BY <1>2
<1>5. CASE p \in T
  <2>1. V = U \cup {p} /\ \A x \in U : x \in Nat /\ x < p
    BY <1>2, <1>5
  <2>2. PICK r : r = Append(q, s[p])
    OBVIOUS
  <2>3. Len(r) = m + 1 /\ r[m + 1] = s[p] /\ \A k \in 1..m : r[k] = q[k]
    BY <1>2, <1>4, <2>2
  <2>4. PICK l : l = m + 1
    OBVIOUS
  <2>5. l \in Nat /\ l \notin 1..m /\ \A k \in 1..l : k # l => k \in 1..m
    BY <1>4, <2>4
  <2>6. PICK d : d = [k \in 1..l |-> IF k = l THEN p ELSE e[k]]
    OBVIOUS
  <2>7. l \in 1..l /\ \A k \in 1..m : k \in 1..l /\ k < l
    BY <1>4, <2>4
  <2>8. d[l] = p /\ \A k \in 1..m : d[k] = e[k] /\ d[k] \in U
    BY <1>3, <2>5, <2>6, <2>7
  <2>9. Listing(d, V, l)
    <3>1. d \in [1..l -> V]
      BY <1>3, <2>1, <2>5, <2>6
    <3>2. ASSUME NEW j \in 1..l, NEW k \in 1..l, j < k PROVE d[j] < d[k]
      <4>1. j \in 1..m
        BY <2>4, <2>5, <3>2
      <4>2. CASE k = l
        BY <2>1, <2>8, <4>1, <4>2
      <4>3. CASE k # l
        BY <1>3, <2>5, <2>8, <3>2, <4>1, <4>3
      <4> QED BY <4>2, <4>3
    <3>3. ASSUME NEW x \in V PROVE \E k \in 1..l : d[k] = x
      <4>1. CASE x = p
        BY <2>7, <2>8, <4>1
      <4>2. CASE x \in U
        BY <1>3, <2>7, <2>8, <4>2
      <4> QED BY <2>1, <4>1, <4>2
    <3> QED BY <3>1, <3>2, <3>3 DEF Listing
  <2>10. ASSUME NEW k \in 1..l PROVE r[k] = s[d[k]]
    <3>1. CASE k = l
      BY <2>3, <2>4, <2>8, <3>1
    <3>2. CASE k # l
      BY <1>1, <1>2, <2>3, <2>5, <2>8, <3>2
    <3> QED BY <3>1, <3>2
  <2>11. Picks(s, T, p, r)
    BY <1>2, <2>3, <2>4, <2>9, <2>10 DEF Picks
  <2> QED BY <1>2, <1>5, <2>2, <2>11
<1>6. CASE p \notin T
  <2>1. V = U
    BY <1>2, <1>6
  <2>2. Picks(s, T, p, q)
    BY <1>1, <1>2, <2>1 DEF Picks
  <2> QED BY <1>2, <1>6, <2>2
<1> QED BY <1>5, <1>6

LEMMA SelectedPlaces ==
  ASSUME NEW S, NEW s \in Seq(S), NEW T
  PROVE  Selected(s, T) \in Seq(S) /\ Picks(s, T, Len(s), Selected(s, T))
<1>1. PICK f \in [0..Len(s) -> Seq(S)] : Picking(s, T, f) /\ Selected(s, T) = f[Len(s)]
  BY SelectedIs
<1>2. PICK n : n = Len(s)
  OBVIOUS
<1>3. /\ n \in Nat /\ f \in [0..n -> Seq(S)] /\ f[0] = <<>>
      /\ \A i \in 1..n : f[i] = IF i \in T THEN Append(f[i - 1], s[i]) ELSE f[i - 1]
  BY <1>1, <1>2 DEF Picking
<1> DEFINE W == {i \in Nat : i <= n => Picks(s, T, i, f[i])}
<1>4. 0 \in W
  <2>1. PICK q, e : q = <<>> /\ e = [k \in 1..0 |-> 0]
    OBVIOUS
  <2>2. Len(q) = 0 /\ 1..0 = {}
    BY <2>1
  <2>3. Listing(e, {i \in 1..0 : i \in T}, 0)
    BY <2>1 DEF Listing
  <2>4. Picks(s, T, 0, q)
    BY <2>2, <2>3 DEF Picks
  <2> QED BY <1>3, <2>1, <2>4
<1>5. ASSUME NEW i \in Nat, i \in W PROVE i + 1 \in W
  <2>1. SUFFICES ASSUME i + 1 <= n PROVE Picks(s, T, i + 1, f[i + 1])
    OBVIOUS
  <2>2. i + 1 \in 1..n /\ (i + 1) - 1 = i /\ i \in 0..n /\ i <= n
    BY <1>3, <2>1
  <2>3. f[i] \in Seq(S) /\ Picks(s, T, i, f[i])
    BY <1>3, <1>5, <2>2
  <2>4. f[i + 1] = IF i + 1 \in T THEN Append(f[i], s[i + 1]) ELSE f[i]
    BY <1>3, <2>2
  <2>5. PICK q : q = f[i]
    OBVIOUS
  <2>6. Picks(s, T, i + 1, IF i + 1 \in T THEN Append(q, s[i + 1]) ELSE q)
    BY <1>2, <2>1, <2>3, <2>5, PickNext
  <2> QED BY <2>4, <2>5, <2>6
<1>6. n \in W
  <2> HIDE DEF W
  <2> QED BY <1>3, <1>4, <1>5, Induct
<1>7. n \in 0..n
  BY <1>3
<1> QED BY <1>1, <1>2, <1>3, <1>6, <1>7

----------------------------------------------------------------------------
(* What a source that compiles is made of, and the contract loaded from it. *)

LEMMA RelevantLines ==
  ASSUME NEW s, IsList(s), NEW C
  PROVE  /\ Relevant(s, C) \in Seq(Range(s))
         /\ \A k \in DOMAIN Relevant(s, C) :
              \E i \in DOMAIN s : Relevant(s, C)[k] = s[i] /\ s[i].cmd \in C
<1>1. PICK S, T, q : S = Range(s) /\ T = {i \in DOMAIN s : s[i].cmd \in C} /\ q = Selected(s, T)
  OBVIOUS
<1>2. s \in Seq(S)
  BY <1>1 DEF IsList
<1>3. q \in Seq(S) /\ Picks(s, T, Len(s), q)
  BY <1>1, <1>2, SelectedPlaces
<1>4. PICK e : /\ Listing(e, {i \in 1..Len(s) : i \in T}, Len(q))
               /\ \A k \in 1..Len(q) : q[k] = s[e[k]]
  BY <1>3 DEF Picks
<1>5. \A k \in 1..Len(q) : e[k] \in T
  BY <1>4 DEF Listing
<1>6. DOMAIN q = 1..Len(q)
  BY <1>3
<1>7. q = Relevant(s, C)
  BY <1>1 DEF Relevant
<1>8. ASSUME NEW k \in DOMAIN q PROVE \E i \in DOMAIN s : q[k] = s[i] /\ s[i].cmd \in C
  <2>1. q[k] = s[e[k]] /\ e[k] \in DOMAIN s /\ s[e[k]].cmd \in C
    BY <1>1, <1>4, <1>5, <1>6, <1>8
  <2> QED BY <2>1
<1>9. q \in Seq(Range(s))
  BY <1>1, <1>3
<1> QED BY ONLY <1>7, <1>8, <1>9

Loaded == DistinctConstants /\ source \in Sources /\ Compiles(source) /\ contract = Decode(Export(Compile(source)))

\* Line i of some lines has a command out of C and as many arguments as that takes.
IsLineOf(line, C) == line.cmd \in C /\ IsLine(line) /\ line.args \in Seq(Range(line.args)) /\ Len(line.args) = Arity(line)
AreLines(q, C) == q \in Seq(Range(source)) /\ \A k \in 1..Len(q) : IsLineOf(q[k], C)

LEMMA LinesAre ==
  ASSUME Loaded
  PROVE  /\ AreLines(AllocLines(source), alloc_commands)
         /\ AreLines(OpLines(source), DOMAIN op_commands)
         /\ AreLines(ConstraintLines(source), DOMAIN constraint_commands)
<1>1. IsList(source) /\ \A i \in DOMAIN source : IsLine(source[i]) /\ Len(source[i].args) = Arity(source[i])
  <2>1. IsSource(source)
    BY SourcesAssumption DEF Loaded
  <2>2. \A i \in DOMAIN source : Len(source[i].args) = Arity(source[i])
    BY DEF Loaded, Compiles
  <2> QED BY <2>1, <2>2 DEF IsSource
<1>2. ASSUME NEW C PROVE AreLines(Relevant(source, C), C)
  <2>1. PICK q : q = Relevant(source, C)
    OBVIOUS
  <2>2. /\ q \in Seq(Range(source))
        /\ \A k \in DOMAIN q : \E i \in DOMAIN source : q[k] = source[i] /\ source[i].cmd \in C
    BY <1>1, <2>1, RelevantLines
  <2>3. ASSUME NEW k \in 1..Len(q) PROVE IsLineOf(q[k], C)
    <3>1. k \in DOMAIN q
      BY <2>2
    <3>2. PICK i \in DOMAIN source : q[k] = source[i] /\ source[i].cmd \in C
      BY <2>2, <3>1
    <3>3. IsLine(q[k]) /\ Len(q[k].args) = Arity(q[k]) /\ q[k].cmd \in C
      BY <1>1, <3>2
    <3>4. q[k].args \in Seq(Range(q[k].args))
      BY <3>3 DEF IsLine, IsList
    <3> QED BY <3>3, <3>4 DEF IsLineOf
  <2> QED BY <2>1, <2>2, <2>3 DEF AreLines
<1> QED BY <1>2 DEF AllocLines, OpLines, ConstraintLines

Size == Len(AllocLines(source))
Name(i) == AllocLines(source)[i].args[1]

LEMMA AllocIs ==
  ASSUME Loaded
  PROVE  /\ Size \in Nat /\ DOMAIN AllocLines(source) = 1..Size
         /\ \A i \in 1..Size : AllocLines(source)[i].args = <<Name(i)>>
         /\ \A i, j \in 1..Size : Name(i) = Name(j) => i = j
<1>1. PICK A : A = AllocLines(source)
  OBVIOUS
<1>2. A \in Seq(Range(source)) /\ \A k \in 1..Len(A) : IsLineOf(A[k], alloc_commands)
  BY <1>1, LinesAre DEF AreLines
<1>3. \A i, j \in DOMAIN A : A[i].args = A[j].args => i = j
  BY <1>1 DEF Loaded, Compiles, Compile
<1>4. Len(A) \in Nat /\ DOMAIN A = 1..Len(A)
  BY <1>2
<1>5. ASSUME NEW i \in 1..Len(A) PROVE A[i].args = <<A[i].args[1]>>
  <2>1. PICK a, R : a = A[i].args /\ R = Range(a)
    OBVIOUS
  <2>2. a \in Seq(R) /\ Len(a) = 1
    BY <1>2, <2>1 DEF IsLineOf, Arity
  <2>3. a = <<a[1]>>
    BY <2>2
  <2> QED BY <2>1, <2>3
<1> QED BY <1>1, <1>3, <1>4, <1>5 DEF Size, Name

\* The place of a name in the table of allocations.
Place(symbol) == Index(AllocLines(source), symbol)
IsAllocated(symbol) == symbol \in Allocated(AllocLines(source))

LEMMA PlaceIs ==
  ASSUME Loaded
  PROVE  /\ \A i \in 1..Size : IsAllocated(Name(i)) /\ Place(Name(i)) = i
         /\ \A symbol : IsAllocated(symbol) => Place(symbol) \in 1..Size /\ Name(Place(symbol)) = symbol
<1>1. PICK A, n : A = AllocLines(source) /\ n = Size
  OBVIOUS
<1>2. DOMAIN A = 1..n /\ \A i \in 1..n : Name(i) = A[i].args[1]
  BY <1>1, AllocIs DEF Name
<1>3. \A i, j \in 1..n : Name(i) = Name(j) => i = j
  BY <1>1, AllocIs
<1>4. \A symbol : IsAllocated(symbol) <=> \E i \in 1..n : Name(i) = symbol
  BY <1>1, <1>2 DEF IsAllocated, Allocated
<1>5. \A symbol : Place(symbol) = CHOOSE i \in 1..n : A[i].args[1] = symbol
  BY <1>1, <1>2 DEF Place, Index
<1>6. ASSUME NEW symbol, IsAllocated(symbol)
      PROVE  Place(symbol) \in 1..n /\ Name(Place(symbol)) = symbol
  <2>1. \E i \in 1..n : A[i].args[1] = symbol
    BY <1>2, <1>4, <1>6
  <2>2. Place(symbol) \in 1..n /\ A[Place(symbol)].args[1] = symbol
    BY <1>5, <2>1
  <2> QED BY <1>2, <2>2
<1>7. ASSUME NEW i \in 1..n PROVE IsAllocated(Name(i)) /\ Place(Name(i)) = i
  BY <1>3, <1>4, <1>6
<1> QED BY <1>1, <1>6, <1>7

LEMMA SeqsAre ==
  ASSUME NEW S, IsFiniteSet(S), NEW s \in SetToSeqs(S)
  PROVE  /\ Cardinality(S) \in Nat /\ s \in [1..Cardinality(S) -> S] /\ DOMAIN s = 1..Cardinality(S)
         /\ \A i, j \in DOMAIN s : i # j => s[i] # s[j]
         /\ \A x \in S : \E i \in DOMAIN s : s[i] = x
<1>1. PICK n : n = Cardinality(S)
  OBVIOUS
<1>2. n \in Nat
  BY <1>1, FS_CardinalityType
<1>3. s \in [1..n -> S] /\ \A i, j \in 1..n : i # j => s[i] # s[j]
  BY <1>1 DEF SetToSeqs
<1>4. s \in Injection(1..n, S)
  BY <1>3 DEF Injection, IsInjective
<1>5. Cardinality(1..n) = n
  <2>1. 1 \in Int /\ n \in Int
    BY <1>2
  <2>2. Cardinality(1..n) = IF 1 > n THEN 0 ELSE n - 1 + 1
    BY ONLY <2>1, FS_Interval
  <2> QED BY <1>2, <2>2
<1>6. s \in Surjection(1..n, S)
  BY <1>1, <1>4, <1>5, FS_Injection
<1>7. \A x \in S : \E i \in 1..n : s[i] = x
  BY <1>6 DEF Surjection
<1> QED BY <1>1, <1>2, <1>3, <1>7

LEMMA ListingSize ==
  ASSUME NEW m \in Nat, NEW U, NEW e \in [1..m -> U], \A j, k \in 1..m : j # k => e[j] # e[k],
         \A x \in U : \E k \in 1..m : e[k] = x
  PROVE  IsFiniteSet(U) /\ Cardinality(U) = m
<1>1. e \in Bijection(1..m, U)
  BY DEF Bijection, Injection, IsInjective, Surjection
<1>2. ExistsBijection(1..m, U)
  BY <1>1 DEF ExistsBijection
<1>3. 1 \in Int /\ m \in Int
  OBVIOUS
<1>4. IsFiniteSet(1..m) /\ Cardinality(1..m) = IF 1 > m THEN 0 ELSE m - 1 + 1
  BY ONLY <1>3, FS_Interval
<1>5. Cardinality(1..m) = m
  BY <1>4
<1> QED BY <1>2, <1>4, <1>5, FS_Bijection

\* Two listings that agree up to a place: the next of one is no more than that of the other.
LEMMA ListingNext ==
  ASSUME NEW m \in Nat, NEW U \in SUBSET Nat, NEW e, NEW d, Listing(e, U, m), Listing(d, U, m), NEW i \in 1..m,
         \A j \in 1..m : j < i => e[j] = d[j]
  PROVE  d[i] <= e[i] /\ d[i] \in Nat /\ e[i] \in Nat
<1>1. /\ e \in [1..m -> U] /\ \A j, k \in 1..m : j < k => e[j] < e[k]
      /\ d \in [1..m -> U] /\ \A j, k \in 1..m : j < k => d[j] < d[k]
      /\ \A x \in U : \E k \in 1..m : d[k] = x
  BY DEF Listing
<1>2. e[i] \in U /\ d[i] \in U
  BY <1>1
<1>3. PICK k \in 1..m : d[k] = e[i]
  BY <1>1, <1>2
<1>4. ~(k < i)
  <2>1. SUFFICES ASSUME k < i PROVE FALSE
    OBVIOUS
  <2>2. e[k] = d[k] /\ e[k] < e[i] /\ e[k] \in Nat /\ e[i] \in Nat
    BY <1>1, <1>2, <2>1
  <2> QED BY <1>3, <2>2
<1>5. k = i \/ i < k
  BY <1>4
<1>6. d[i] \in Nat /\ d[k] \in Nat /\ (i < k => d[i] < d[k])
  BY <1>1
<1> QED BY <1>2, <1>3, <1>5, <1>6

LEMMA ListingOnly ==
  ASSUME NEW m \in Nat, NEW U \in SUBSET Nat, NEW e, NEW d, Listing(e, U, m), Listing(d, U, m)
  PROVE  \A i \in 1..m : e[i] = d[i]
<1> DEFINE T == {i \in Nat : \A j \in 1..m : j <= i => e[j] = d[j]}
<1>1. 0 \in T
  OBVIOUS
<1>2. ASSUME NEW i \in Nat, i \in T PROVE i + 1 \in T
  <2>1. ASSUME NEW j \in 1..m, j <= i + 1 PROVE e[j] = d[j]
    <3>1. CASE j <= i
      BY <1>2, <3>1
    <3>2. CASE ~(j <= i)
      <4>1. \A k \in 1..m : k < j => k <= i
        BY <2>1, <3>2
      <4>2. \A k \in 1..m : k < j => e[k] = d[k] /\ d[k] = e[k]
        BY <1>2, <4>1
      <4>3. d[j] <= e[j] /\ d[j] \in Nat /\ e[j] \in Nat
        BY <4>2, ListingNext
      <4>4. e[j] <= d[j]
        BY <4>2, ListingNext
      <4> QED BY <4>3, <4>4
    <3> QED BY <3>1, <3>2
  <2> QED BY <2>1
<1>3. \A i \in Nat : i \in T
  <2> HIDE DEF T
  <2> QED BY <1>1, <1>2, Induct
<1> QED BY <1>3

----------------------------------------------------------------------------
(* Constants that are declared once: each has the index of its line.       *)

LEMMA ConstantLines ==
  /\ Len(Constants) \in Nat /\ DOMAIN Constants = 1..Len(Constants)
  /\ \A i \in 1..Len(Constants) : Constants[i].value \in Scalars
<1>1. PICK R, q : R = Range(Constants) /\ q = Constants
  OBVIOUS
<1>2. q \in Seq(R)
  BY <1>1, ConstantsAssumption DEF IsList
<1>3. Len(q) \in Nat /\ DOMAIN q = 1..Len(q)
  BY <1>2
<1> QED BY <1>1, <1>3, ConstantsAssumption DEF Scalars

\* The first k symbols are k symbols.
LEMMA FirstSymbols ==
  ASSUME DistinctConstants, NEW k \in 0..Len(Constants)
  PROVE  /\ IsFiniteSet({Constants[i].symbol : i \in 1..k})
         /\ Cardinality({Constants[i].symbol : i \in 1..k}) = k
<1>1. PICK U, e : U = {Constants[i].symbol : i \in 1..k} /\ e = [i \in 1..k |-> Constants[i].symbol]
  OBVIOUS
<1>2. k \in Nat /\ \A i \in 1..k : i \in DOMAIN Constants
  BY ConstantLines
<1>3. e \in [1..k -> U] /\ \A x \in U : \E i \in 1..k : e[i] = x
  BY <1>1
<1>4. \A i, j \in 1..k : i # j => e[i] # e[j]
  BY <1>1, <1>2 DEF DistinctConstants
<1>5. IsFiniteSet(U) /\ Cardinality(U) = k
  <2>1. k \in Nat
    BY <1>2
  <2> QED BY ONLY <2>1, <1>3, <1>4, ListingSize
<1> QED BY <1>1, <1>5

LEMMA ConstantIs ==
  ASSUME DistinctConstants, NEW n \in 1..Len(Constants)
  PROVE  /\ ConstantIndex(Constants[n].symbol) = n /\ Min(DeclaredAt(Constants[n].symbol)) = n
         /\ ValueOf(Constants[n].symbol) = Constants[n].value
<1>1. PICK D, x : D = DeclaredAt(x) /\ x = Constants[n].symbol
  OBVIOUS
<1>2. D = {n} /\ n \in Nat
  BY <1>1, ConstantLines DEF DeclaredAt, DistinctConstants
<1>3. Max(D) = n /\ Min(D) = n
  <2>1. PICK y : y = Max(D)
    OBVIOUS
  <2>2. \E z \in D : \A w \in D : z >= w
    BY <1>2
  <2>3. y \in D
    BY <2>1, <2>2 DEF Max
  <2>4. PICK z : z = Min(D)
    OBVIOUS
  <2>5. \E v \in D : \A w \in D : v <= w
    BY <1>2
  <2>6. z \in D
    BY <2>4, <2>5 DEF Min
  <2> QED BY <1>2, <2>1, <2>3, <2>4, <2>6
<1>4. ValueOf(x) = Constants[n].value
  BY <1>1, <1>3 DEF ValueOf
<1>5. ConstantIndex(x) = Cardinality({Constants[i].symbol : i \in 1..n - 1}) + 1
  BY <1>1, <1>3 DEF ConstantIndex
<1>6. n - 1 \in 0..Len(Constants) /\ (n - 1) + 1 = n
  BY <1>2, ConstantLines
<1>7. Cardinality({Constants[i].symbol : i \in 1..n - 1}) = n - 1
  BY <1>6, FirstSymbols
<1>8. ConstantIndex(x) = n
  BY ONLY <1>5, <1>6, <1>7
<1> QED BY <1>1, <1>3, <1>4, <1>8

LEMMA ConstantsWritten ==
  ASSUME DistinctConstants
  PROVE  /\ DOMAIN ConstantList = 1..Len(Constants)
         /\ \A k \in 1..Len(Constants) : ConstantList[k] = Constants[k].symbol
<1>1. PICK m, S, e : /\ m = Len(Constants) /\ S = ConstantSymbols /\ e = [k \in 1..m |-> Constants[k].symbol]
  OBVIOUS
<1>2. m \in Nat /\ DOMAIN Constants = 1..m /\ m \in 0..m
  BY <1>1, ConstantLines
<1>3. S = {Constants[i].symbol : i \in 1..m}
  BY <1>1, <1>2 DEF ConstantSymbols
<1>4. IsFiniteSet(S) /\ Cardinality(S) = m
  BY <1>1, <1>2, <1>3, FirstSymbols
<1>5. /\ e \in [1..m -> S] /\ \A i, j \in 1..m : i # j => e[i] # e[j]
      /\ \A k \in 1..m : e[k] = Constants[k].symbol
  BY <1>1, <1>2, <1>3 DEF DistinctConstants
<1>6. \A k \in 1..m : ConstantIndex(e[k]) = k
  BY <1>1, <1>5, ConstantIs
<1> DEFINE Ordered(s) == \A i, j \in DOMAIN s : i < j => WrittenBefore(s[i], s[j])
<1>7. e \in SetToSeqs(S) /\ Ordered(e)
  <2>1. e \in SetToSeqs(S)
    BY <1>4, <1>5 DEF SetToSeqs
  <2>2. ASSUME NEW i \in 1..m, NEW j \in 1..m, i < j PROVE WrittenBefore(e[i], e[j])
    BY <1>6, <2>2 DEF WrittenBefore
  <2> QED BY <1>5, <2>1, <2>2
<1>8. ConstantList = CHOOSE s \in SetToSeqs(S) : Ordered(s)
  BY <1>1 DEF ConstantList
<1> HIDE DEF Ordered
<1>9. ConstantList \in SetToSeqs(S) /\ Ordered(ConstantList)
  BY <1>7, <1>8
<1>10. PICK l : l = ConstantList
  OBVIOUS
<1>11. l \in [1..m -> S] /\ DOMAIN l = 1..m /\ \A x \in S : \E i \in 1..m : l[i] = x
  BY <1>4, <1>9, <1>10, SeqsAre
<1>12. PICK d, u : d = [k \in 1..m |-> ConstantIndex(l[k])] /\ u = [k \in 1..m |-> k]
  OBVIOUS
<1>13. \A k \in 1..m : d[k] \in 1..m /\ l[k] = e[d[k]]
  <2>1. ASSUME NEW k \in 1..m PROVE d[k] \in 1..m /\ l[k] = e[d[k]]
    <3>1. PICK i \in 1..m : l[k] = e[i]
      BY <1>1, <1>3, <1>11
    <3>2. d[k] = i
      BY <1>6, <1>12, <3>1
    <3> QED BY <3>1, <3>2
  <2> QED BY <2>1
<1>14. Listing(d, 1..m, m)
  <2>1. d \in [1..m -> 1..m]
    BY <1>12, <1>13
  <2>2. ASSUME NEW i \in 1..m, NEW j \in 1..m, i < j PROVE d[i] < d[j]
    <3>1. WrittenBefore(l[i], l[j])
      BY <1>9, <1>10, <1>11, <2>2 DEF Ordered
    <3>2. Min(DeclaredAt(l[i])) = d[i] /\ Min(DeclaredAt(l[j])) = d[j]
      BY <1>1, <1>5, <1>13, ConstantIs
    <3>3. ConstantIndex(l[i]) = d[i] /\ ConstantIndex(l[j]) = d[j]
      BY <1>12
    <3> QED BY <3>1, <3>2, <3>3 DEF WrittenBefore
  <2>3. ASSUME NEW x \in 1..m PROVE \E k \in 1..m : d[k] = x
    <3>1. e[x] \in S
      BY <1>5
    <3>2. PICK k \in 1..m : l[k] = e[x]
      BY <1>11, <3>1
    <3>3. d[k] = x
      BY <1>6, <1>12, <3>2
    <3> QED BY <3>3
  <2> QED BY <2>1, <2>2, <2>3 DEF Listing
<1>15. Listing(u, 1..m, m)
  BY <1>2, <1>12 DEF Listing
<1>16. \A k \in 1..m : d[k] = k
  <2>1. 1..m \in SUBSET Nat
    OBVIOUS
  <2>2. \A k \in 1..m : u[k] = k
    BY <1>12
  <2>3. \A k \in 1..m : u[k] = d[k]
    BY ONLY <1>2, <1>14, <1>15, <2>1, ListingOnly
  <2> QED BY <2>2, <2>3
<1> QED BY <1>1, <1>5, <1>10, <1>11, <1>13, <1>16

----------------------------------------------------------------------------
(* What is loaded.                                                         *)

DecodedAlloc(c) == [i \in DOMAIN c.alloc |-> [public |-> c.alloc[i].cmd = "public", index |-> i]]
DecodedConstraints(c) ==
  [i \in DOMAIN c.constraints |->
     DecodeConstraint([ident |-> constraint_ident_map[c.constraints[i].cmd] + c.constraints[i].lc,
                       args |-> [k \in DOMAIN c.constraints[i].args |-> c.constraints[i].args[k].index]])]
DecodedOps(c) ==
  [i \in DOMAIN c.ops |->
     [op |-> CryptoOperations[ops_table[c.ops[i].cmd] + 1],
      args |-> [k \in DOMAIN c.ops[i].args |->
                  [mem |-> IF ArgMem(c.ops, i, k) = "local" THEN "local" ELSE "aux",
                   index |-> c.ops[i].args[k].index]]]]

LEMMA ContractIs ==
  ASSUME Loaded, NEW c, c = Compile(source)
  PROVE  /\ contract.constants = [i \in DOMAIN ConstantList |-> ValueOf(ConstantList[i])]
         /\ contract.alloc = DecodedAlloc(c)
         /\ contract.ops = DecodedOps(c) /\ contract.constraints = DecodedConstraints(c)
         /\ contract.params_map = Map(Named(c.alloc, {"param"}))
         /\ contract.public_map = Map(Named(c.alloc, {"public"}))
<1>1. PICK file : file = Export(c)
  OBVIOUS
<1>2. contract = Decode(file)
  BY <1>1 DEF Loaded
<1>3. /\ file.constants = [i \in DOMAIN ConstantList |-> ValueOf(ConstantList[i])]
      /\ file.params = Named(c.alloc, {"param"}) /\ file.publics = Named(c.alloc, {"public"})
  BY <1>1 DEF Export
<1>4. file.alloc = [i \in DOMAIN c.alloc |-> [type |-> IF c.alloc[i].cmd = "public" THEN 1 ELSE 0, index |-> i]]
  BY <1>1 DEF Export
<1>5. file.constraints = [i \in DOMAIN c.constraints |->
              [ident |-> constraint_ident_map[c.constraints[i].cmd] + c.constraints[i].lc,
               args |-> [k \in DOMAIN c.constraints[i].args |-> c.constraints[i].args[k].index]]]
  BY <1>1 DEF Export
<1>6. file.ops = [i \in DOMAIN c.ops |->
         [ident |-> ops_table[c.ops[i].cmd],
          args |-> [k \in DOMAIN c.ops[i].args |->
                      [type |-> IF ArgMem(c.ops, i, k) = "local" THEN 1 ELSE 0,
                       index |-> c.ops[i].args[k].index]]]]
  BY <1>1 DEF Export
<1>7. /\ contract.constants = file.constants
      /\ contract.params_map = Map(file.params) /\ contract.public_map = Map(file.publics)
  BY <1>2 DEF Decode
<1>8. contract.alloc = [i \in DOMAIN file.alloc |-> [public |-> file.alloc[i].type = 1, index |-> file.alloc[i].index]]
  BY <1>2 DEF Decode
<1>9. contract.constraints = [i \in DOMAIN file.constraints |-> DecodeConstraint(file.constraints[i])]
  BY <1>2 DEF Decode
<1>10. contract.ops = [i \in DOMAIN file.ops |->
              [op |-> CryptoOperations[file.ops[i].ident + 1],
               args |-> [k \in DOMAIN file.ops[i].args |-> DecodeRef(file.ops[i].args[k])]]]
  BY <1>2 DEF Decode
<1>11. contract.alloc = [i \in DOMAIN c.alloc |-> [public |-> c.alloc[i].cmd = "public", index |-> i]]
  <2>1. DOMAIN file.alloc = DOMAIN c.alloc
    BY <1>4
  <2>2. ASSUME NEW i \in DOMAIN c.alloc
        PROVE  /\ (file.alloc[i].type = 1) = (c.alloc[i].cmd = "public")
               /\ file.alloc[i].index = i
    BY <1>4
  <2>3. ASSUME NEW i \in DOMAIN c.alloc
        PROVE  [public |-> file.alloc[i].type = 1, index |-> file.alloc[i].index]
                 = [public |-> c.alloc[i].cmd = "public", index |-> i]
    BY <2>2, Zenon
  <2> QED BY <1>8, <2>1, <2>3, Zenon
<1>12. contract.constraints = [i \in DOMAIN c.constraints |->
              DecodeConstraint([ident |-> constraint_ident_map[c.constraints[i].cmd] + c.constraints[i].lc,
                                args |-> [k \in DOMAIN c.constraints[i].args |-> c.constraints[i].args[k].index]])]
  BY <1>5, <1>9, Zenon
<1>13. contract.ops = [i \in DOMAIN c.ops |->
              [op |-> CryptoOperations[ops_table[c.ops[i].cmd] + 1],
               args |-> [k \in DOMAIN c.ops[i].args |->
                           [mem |-> IF ArgMem(c.ops, i, k) = "local" THEN "local" ELSE "aux",
                            index |-> c.ops[i].args[k].index]]]]
  <2>1. DOMAIN file.ops = DOMAIN c.ops
    BY <1>6
  <2>2. ASSUME NEW i \in DOMAIN c.ops
        PROVE  [k \in DOMAIN file.ops[i].args |-> DecodeRef(file.ops[i].args[k])]
                 = [k \in DOMAIN c.ops[i].args |->
                           [mem |-> IF ArgMem(c.ops, i, k) = "local" THEN "local" ELSE "aux",
                            index |-> c.ops[i].args[k].index]]
    <3>1. PICK a, b, w : a = file.ops[i].args /\ b = c.ops[i].args /\ w = [k \in DOMAIN b |-> ArgMem(c.ops, i, k)]
      OBVIOUS
    <3>2. a = [k \in DOMAIN b |-> [type |-> IF w[k] = "local" THEN 1 ELSE 0, index |-> b[k].index]]
      <4>1. PICK t, r : /\ t = ops_table[c.ops[i].cmd]
                        /\ r = [k \in DOMAIN b |-> [type |-> IF w[k] = "local" THEN 1 ELSE 0, index |-> b[k].index]]
        OBVIOUS
      <4>2. file.ops[i] = [ident |-> t, args |-> r]
        <5>1. file.ops[i] =
                [ident |-> ops_table[c.ops[i].cmd],
                 args |-> [k \in DOMAIN c.ops[i].args |->
                             [type |-> IF ArgMem(c.ops, i, k) = "local" THEN 1 ELSE 0,
                              index |-> c.ops[i].args[k].index]]]
          BY <1>6
        <5>2. \A k \in DOMAIN b : w[k] = ArgMem(c.ops, i, k)
          BY <3>1
        <5> QED BY <3>1, <4>1, <5>1, <5>2
      <4> QED BY <3>1, <4>1, <4>2
    <3>3. ASSUME NEW k \in DOMAIN b
          PROVE  DecodeRef(a[k]) = [mem |-> IF w[k] = "local" THEN "local" ELSE "aux", index |-> b[k].index]
      <4>1. a[k].type = (IF w[k] = "local" THEN 1 ELSE 0) /\ a[k].index = b[k].index
        BY <3>2
      <4>2. (a[k].type = 0) <=> w[k] # "local"
        BY <4>1
      <4> QED BY <4>1, <4>2 DEF DecodeRef
    <3>4. DOMAIN a = DOMAIN b
      BY <3>2
    <3>5. \A k \in DOMAIN b : w[k] = ArgMem(c.ops, i, k)
      BY <3>1
    <3> QED BY <3>1, <3>3, <3>4, <3>5, Zenon
  <2>3. ASSUME NEW i \in DOMAIN c.ops PROVE file.ops[i].ident = ops_table[c.ops[i].cmd]
    BY <1>6
  <2> QED BY <1>10, <2>1, <2>2, <2>3, Zenon
<1> QED BY <1>3, <1>7, <1>11, <1>12, <1>13, Zenon DEF DecodedAlloc, DecodedConstraints, DecodedOps

\* The instruction for a line of a constraint.
LEMMA Instructions ==
  ASSUME NEW a
  PROVE  /\ \A n \in 0..2 :
              /\ DecodeConstraint([ident |-> 0 + n, args |-> a]) = [op |-> "Add", lc |-> n, args |-> a]
              /\ DecodeConstraint([ident |-> 3 + n, args |-> a]) = [op |-> "Sub", lc |-> n, args |-> a]
              /\ DecodeConstraint([ident |-> 6 + n, args |-> a]) = [op |-> "AddOne", lc |-> n, args |-> a]
              /\ DecodeConstraint([ident |-> 9 + n, args |-> a]) = [op |-> "SubOne", lc |-> n, args |-> a]
              /\ DecodeConstraint([ident |-> 12 + n, args |-> a]) = [op |-> "AddCoeff", lc |-> n, args |-> a]
              /\ DecodeConstraint([ident |-> 15 + n, args |-> a]) = [op |-> "AddConstant", lc |-> n, args |-> a]
         /\ DecodeConstraint([ident |-> 18 + 0, args |-> a]).op = "Enforce"
         /\ DecodeConstraint([ident |-> 19 + 0, args |-> a]).op = "LcCoeffReset"
         /\ DecodeConstraint([ident |-> 20 + 0, args |-> a]).op = "LcCoeffDouble"
<1>1. ASSUME NEW j \in 0..5, NEW n \in 0..2
      PROVE  DecodeConstraint([ident |-> 3 * j + n, args |-> a])
               = [op |-> ConstraintInstructions[j + 1], lc |-> n, args |-> a]
  <2>1. PICK x : x = 3 * j + n
    OBVIOUS
  <2>2. x < 18 /\ x \div 3 = j /\ x % 3 = n
    BY <2>1
  <2> QED BY <2>1, <2>2 DEF DecodeConstraint
<1>2. /\ ConstraintInstructions[1] = "Add" /\ ConstraintInstructions[2] = "Sub"
      /\ ConstraintInstructions[3] = "AddOne" /\ ConstraintInstructions[4] = "SubOne"
      /\ ConstraintInstructions[5] = "AddCoeff" /\ ConstraintInstructions[6] = "AddConstant"
  BY DEF ConstraintInstructions
<1>3. ASSUME NEW n \in 0..2
      PROVE  /\ DecodeConstraint([ident |-> 0 + n, args |-> a]) = [op |-> "Add", lc |-> n, args |-> a]
             /\ DecodeConstraint([ident |-> 3 + n, args |-> a]) = [op |-> "Sub", lc |-> n, args |-> a]
             /\ DecodeConstraint([ident |-> 6 + n, args |-> a]) = [op |-> "AddOne", lc |-> n, args |-> a]
             /\ DecodeConstraint([ident |-> 9 + n, args |-> a]) = [op |-> "SubOne", lc |-> n, args |-> a]
             /\ DecodeConstraint([ident |-> 12 + n, args |-> a]) = [op |-> "AddCoeff", lc |-> n, args |-> a]
             /\ DecodeConstraint([ident |-> 15 + n, args |-> a]) = [op |-> "AddConstant", lc |-> n, args |-> a]
  <2>1. /\ 3 * 0 + n = 0 + n /\ 3 * 1 + n = 3 + n /\ 3 * 2 + n = 6 + n /\ 3 * 3 + n = 9 + n
        /\ 3 * 4 + n = 12 + n /\ 3 * 5 + n = 15 + n
        /\ 0 \in 0..5 /\ 1 \in 0..5 /\ 2 \in 0..5 /\ 3 \in 0..5 /\ 4 \in 0..5 /\ 5 \in 0..5
        /\ 0 + 1 = 1 /\ 1 + 1 = 2 /\ 2 + 1 = 3 /\ 3 + 1 = 4 /\ 4 + 1 = 5 /\ 5 + 1 = 6
    OBVIOUS
  <2>2. /\ DecodeConstraint([ident |-> 0 + n, args |-> a]) = [op |-> ConstraintInstructions[0 + 1], lc |-> n, args |-> a]
        /\ DecodeConstraint([ident |-> 3 + n, args |-> a]) = [op |-> ConstraintInstructions[1 + 1], lc |-> n, args |-> a]
        /\ DecodeConstraint([ident |-> 6 + n, args |-> a]) = [op |-> ConstraintInstructions[2 + 1], lc |-> n, args |-> a]
    BY <1>1, <2>1, Zenon
  <2>3. /\ DecodeConstraint([ident |-> 9 + n, args |-> a]) = [op |-> ConstraintInstructions[3 + 1], lc |-> n, args |-> a]
        /\ DecodeConstraint([ident |-> 12 + n, args |-> a]) = [op |-> ConstraintInstructions[4 + 1], lc |-> n, args |-> a]
        /\ DecodeConstraint([ident |-> 15 + n, args |-> a]) = [op |-> ConstraintInstructions[5 + 1], lc |-> n, args |-> a]
    BY <1>1, <2>1, Zenon
  <2> QED BY <1>2, <2>1, <2>2, <2>3, Zenon
<1>4. /\ DecodeConstraint([ident |-> 18 + 0, args |-> a]).op = "Enforce"
      /\ DecodeConstraint([ident |-> 19 + 0, args |-> a]).op = "LcCoeffReset"
      /\ DecodeConstraint([ident |-> 20 + 0, args |-> a]).op = "LcCoeffDouble"
  BY DEF DecodeConstraint
<1> QED BY <1>3, <1>4

\* What the instruction d has to be for the line l.
Translates(l, d) ==
  /\ l.lc \in 0..2
  /\ l.cmd = "lc_add" => d.op = "Add" /\ d.lc = l.lc /\ d.args[1] = Place(l.args[1]) /\ IsAllocated(l.args[1])
  /\ l.cmd = "lc_sub" => d.op = "Sub" /\ d.lc = l.lc /\ d.args[1] = Place(l.args[1]) /\ IsAllocated(l.args[1])
  /\ l.cmd = "lc_add_one" => d.op = "AddOne" /\ d.lc = l.lc
  /\ l.cmd = "lc_sub_one" => d.op = "SubOne" /\ d.lc = l.lc
  /\ l.cmd = "lc_add_coeff" =>
       /\ d.op = "AddCoeff" /\ d.lc = l.lc
       /\ d.args[1] = ConstantIndex(l.args[1]) /\ l.args[1] \in ConstantSymbols
       /\ d.args[2] = Place(l.args[2]) /\ IsAllocated(l.args[2])
  /\ l.cmd = "lc_add_constant" =>
       /\ d.op = "AddConstant" /\ d.lc = l.lc
       /\ d.args[1] = ConstantIndex(l.args[1]) /\ l.args[1] \in ConstantSymbols
  /\ l.cmd = "enforce" => d.op = "Enforce"
  /\ l.cmd = "lc_coeff_reset" => d.op = "LcCoeffReset"
  /\ l.cmd = "lc_coeff_double" => d.op = "LcCoeffDouble"
  /\ l.cmd \in DOMAIN constraint_commands

LEMMA ConstantRefs ==
  ASSUME NEW symbol, NEW ref, ref = VariableRef(symbol, AllocLines(source), <<>>)
  PROVE  /\ ref.mem = "aux" => IsAllocated(symbol) /\ ref.index = Place(symbol)
         /\ ref.mem = "const" => symbol \in ConstantSymbols /\ ref.index = ConstantIndex(symbol)
<1>1. DOMAIN <<>> = {}
  OBVIOUS
<1> QED BY <1>1 DEF VariableRef, IsAllocated, Place

LEMMA ConstraintsAre ==
  ASSUME Loaded
  PROVE  /\ Len(ConstraintLines(source)) \in Nat
         /\ DOMAIN ConstraintLines(source) = 1..Len(ConstraintLines(source))
         /\ DOMAIN contract.constraints = 1..Len(ConstraintLines(source))
         /\ \A i \in 1..Len(ConstraintLines(source)) :
              Translates(ConstraintLines(source)[i], contract.constraints[i])
<1>1. PICK A, C, c : A = AllocLines(source) /\ C = ConstraintLines(source) /\ c = Compile(source)
  OBVIOUS
<1>2. C \in Seq(Range(source)) /\ \A k \in 1..Len(C) : IsLineOf(C[k], DOMAIN constraint_commands)
  BY <1>1, LinesAre DEF AreLines
<1>3. Len(C) \in Nat /\ DOMAIN C = 1..Len(C)
  BY <1>2
<1>4. c.constraints = [i \in 1..Len(C) |-> CompileConstraint(C[i], A)]
  BY <1>1, <1>3 DEF Compile
<1>5. \A i \in 1..Len(C) : ConstraintCompiles(c.constraints[i])
  BY <1>1, <1>4 DEF Loaded, Compiles
<1>6. contract.constraints = DecodedConstraints(c)
  BY <1>1, ContractIs
<1>7. DOMAIN c.constraints = 1..Len(C) /\ DOMAIN contract.constraints = 1..Len(C)
  BY <1>4, <1>6 DEF DecodedConstraints
<1>8. ASSUME NEW i \in 1..Len(C) PROVE Translates(C[i], contract.constraints[i])
  <2>1. PICK l, d, r : l = C[i] /\ d = contract.constraints[i] /\ r = c.constraints[i]
    OBVIOUS
  <2>2. r = CompileConstraint(l, A) /\ ConstraintCompiles(r) /\ IsLineOf(l, DOMAIN constraint_commands)
    BY <1>2, <1>4, <1>5, <2>1
  <2>3. PICK a : a = [k \in DOMAIN r.args |-> r.args[k].index]
    OBVIOUS
  <2>4. d = DecodeConstraint([ident |-> constraint_ident_map[r.cmd] + r.lc, args |-> a])
    BY <1>6, <1>7, <2>1, <2>3 DEF DecodedConstraints
  <2>5. r.cmd = l.cmd /\ r.lc = l.lc /\ r.args = Refs(l, A, <<>>)
    BY <2>2 DEF CompileConstraint
  <2>6. DOMAIN r.args = DOMAIN l.args /\ \A k \in DOMAIN l.args : r.args[k] = VariableRef(l.args[k], A, <<>>)
    BY <2>5 DEF Refs
  <2>7. \A k \in DOMAIN l.args :
          r.args[k].mem = IF k = 1 /\ l.cmd \in {"lc_add_coeff", "lc_add_constant"} THEN "const" ELSE "aux"
    BY <2>2, <2>5, <2>6 DEF ConstraintCompiles
  <2>8. DOMAIN l.args = 1..Arity(l)
    BY <2>2 DEF IsLineOf
  <2>9. \A k \in 1..Arity(l) :
          IF k = 1 /\ l.cmd \in {"lc_add_coeff", "lc_add_constant"}
          THEN a[k] = ConstantIndex(l.args[k]) /\ l.args[k] \in ConstantSymbols
          ELSE a[k] = Place(l.args[k]) /\ IsAllocated(l.args[k])
    <3>1. ASSUME NEW k \in 1..Arity(l)
          PROVE  IF k = 1 /\ l.cmd \in {"lc_add_coeff", "lc_add_constant"}
                 THEN a[k] = ConstantIndex(l.args[k]) /\ l.args[k] \in ConstantSymbols
                 ELSE a[k] = Place(l.args[k]) /\ IsAllocated(l.args[k])
      <4>1. PICK s, f : s = l.args[k] /\ f = r.args[k]
        OBVIOUS
      <4>2. f = VariableRef(s, A, <<>>) /\ a[k] = f.index
        BY <2>3, <2>6, <2>8, <4>1
      <4>3. f.mem = IF k = 1 /\ l.cmd \in {"lc_add_coeff", "lc_add_constant"} THEN "const" ELSE "aux"
        BY <2>7, <2>8, <4>1
      <4>4. /\ f.mem = "aux" => IsAllocated(s) /\ f.index = Place(s)
            /\ f.mem = "const" => s \in ConstantSymbols /\ f.index = ConstantIndex(s)
        BY <1>1, <4>2, ConstantRefs
      <4> QED BY <4>1, <4>2, <4>3, <4>4
    <3> QED BY <3>1
  <2>10. l.cmd \in DOMAIN constraint_commands /\ IsLine(l)
    BY <2>2 DEF IsLineOf
  <2>11. /\ l.cmd \in {"lc_add", "lc_sub", "lc_add_one", "lc_sub_one", "lc_add_coeff", "lc_add_constant",
                       "enforce", "lc_coeff_reset", "lc_coeff_double"}
         /\ l.lc \in 0..2 /\ (l.cmd \in {"enforce", "lc_coeff_reset", "lc_coeff_double"} => l.lc = 0)
    BY <2>10 DEF IsLine, constraint_commands
  <2>12. Arity(l) = constraint_commands[l.cmd]
    BY <2>11 DEF Arity, alloc_commands, op_commands
  <2>13. /\ l.cmd \in {"lc_add", "lc_sub", "lc_add_constant"} => Arity(l) = 1
         /\ l.cmd = "lc_add_coeff" => Arity(l) = 2
    BY <2>12 DEF constraint_commands
  <2>14. /\ l.cmd \in {"lc_add", "lc_sub"} => a[1] = Place(l.args[1]) /\ IsAllocated(l.args[1])
         /\ l.cmd \in {"lc_add_coeff", "lc_add_constant"} => a[1] = ConstantIndex(l.args[1]) /\ l.args[1] \in ConstantSymbols
         /\ l.cmd = "lc_add_coeff" => a[2] = Place(l.args[2]) /\ IsAllocated(l.args[2])
    BY <2>9, <2>13
  <2>15. PICK n : n = l.lc
    OBVIOUS
  <2>16. d = DecodeConstraint([ident |-> constraint_ident_map[l.cmd] + n, args |-> a]) /\ n \in 0..2
    BY <2>4, <2>5, <2>11, <2>15
  <2>17. /\ l.cmd = "lc_add" => d = [op |-> "Add", lc |-> n, args |-> a]
         /\ l.cmd = "lc_sub" => d = [op |-> "Sub", lc |-> n, args |-> a]
         /\ l.cmd = "lc_add_one" => d = [op |-> "AddOne", lc |-> n, args |-> a]
         /\ l.cmd = "lc_sub_one" => d = [op |-> "SubOne", lc |-> n, args |-> a]
         /\ l.cmd = "lc_add_coeff" => d = [op |-> "AddCoeff", lc |-> n, args |-> a]
         /\ l.cmd = "lc_add_constant" => d = [op |-> "AddConstant", lc |-> n, args |-> a]
         /\ l.cmd = "enforce" => d.op = "Enforce"
         /\ l.cmd = "lc_coeff_reset" => d.op = "LcCoeffReset"
         /\ l.cmd = "lc_coeff_double" => d.op = "LcCoeffDouble"
    <3>1. /\ constraint_ident_map["lc_add"] = 0 /\ constraint_ident_map["lc_sub"] = 3
          /\ constraint_ident_map["lc_add_one"] = 6 /\ constraint_ident_map["lc_sub_one"] = 9
          /\ constraint_ident_map["lc_add_coeff"] = 12 /\ constraint_ident_map["lc_add_constant"] = 15
          /\ constraint_ident_map["enforce"] = 18 /\ constraint_ident_map["lc_coeff_reset"] = 19
          /\ constraint_ident_map["lc_coeff_double"] = 20
      BY DEF constraint_ident_map
    <3>2. l.cmd \in {"enforce", "lc_coeff_reset", "lc_coeff_double"} => n = 0
      BY <2>11, <2>15
    <3>3. /\ l.cmd = "lc_add" => d = DecodeConstraint([ident |-> 0 + n, args |-> a])
          /\ l.cmd = "lc_sub" => d = DecodeConstraint([ident |-> 3 + n, args |-> a])
          /\ l.cmd = "lc_add_one" => d = DecodeConstraint([ident |-> 6 + n, args |-> a])
          /\ l.cmd = "lc_sub_one" => d = DecodeConstraint([ident |-> 9 + n, args |-> a])
          /\ l.cmd = "lc_add_coeff" => d = DecodeConstraint([ident |-> 12 + n, args |-> a])
          /\ l.cmd = "lc_add_constant" => d = DecodeConstraint([ident |-> 15 + n, args |-> a])
          /\ l.cmd = "enforce" => d = DecodeConstraint([ident |-> 18 + 0, args |-> a])
          /\ l.cmd = "lc_coeff_reset" => d = DecodeConstraint([ident |-> 19 + 0, args |-> a])
          /\ l.cmd = "lc_coeff_double" => d = DecodeConstraint([ident |-> 20 + 0, args |-> a])
      BY <2>16, <3>1, <3>2, Zenon
    <3>4. /\ DecodeConstraint([ident |-> 0 + n, args |-> a]) = [op |-> "Add", lc |-> n, args |-> a]
          /\ DecodeConstraint([ident |-> 3 + n, args |-> a]) = [op |-> "Sub", lc |-> n, args |-> a]
          /\ DecodeConstraint([ident |-> 6 + n, args |-> a]) = [op |-> "AddOne", lc |-> n, args |-> a]
          /\ DecodeConstraint([ident |-> 9 + n, args |-> a]) = [op |-> "SubOne", lc |-> n, args |-> a]
          /\ DecodeConstraint([ident |-> 12 + n, args |-> a]) = [op |-> "AddCoeff", lc |-> n, args |-> a]
          /\ DecodeConstraint([ident |-> 15 + n, args |-> a]) = [op |-> "AddConstant", lc |-> n, args |-> a]
      BY ONLY <2>16, Instructions, Zenon
    <3>5. /\ DecodeConstraint([ident |-> 18 + 0, args |-> a]).op = "Enforce"
          /\ DecodeConstraint([ident |-> 19 + 0, args |-> a]).op = "LcCoeffReset"
          /\ DecodeConstraint([ident |-> 20 + 0, args |-> a]).op = "LcCoeffDouble"
      BY ONLY Instructions, Zenon
    <3> QED BY <3>3, <3>4, <3>5, Zenon
  <2>18. Translates(l, d)
    BY <2>10, <2>11, <2>14, <2>15, <2>17 DEF Translates
  <2> QED BY <2>1, <2>18
<1> QED BY <1>1, <1>3, <1>7, <1>8

----------------------------------------------------------------------------
(* The instructions of the circuit, and what they add.                     *)

LEMMA AllocRead ==
  ASSUME Loaded
  PROVE  /\ DOMAIN contract.alloc = 1..Size /\ Len(contract.alloc) = Size
         /\ \A v \in 1..Size : /\ contract.alloc[v].index = v
                               /\ contract.alloc[v].public <=> AllocLines(source)[v].cmd = "public"
<1>1. PICK A, c, n, R : A = AllocLines(source) /\ c = Compile(source) /\ n = Size /\ R = {contract.alloc[v] : v \in 1..n}
  OBVIOUS
<1>2. c.alloc = A /\ DOMAIN A = 1..n /\ n \in Nat
  BY <1>1, AllocIs DEF Compile
<1>3. contract.alloc = DecodedAlloc(c)
  BY <1>1, ContractIs
<1>4. DOMAIN contract.alloc = 1..n /\ contract.alloc = [i \in 1..n |-> contract.alloc[i]]
  BY <1>2, <1>3 DEF DecodedAlloc
<1>5. contract.alloc \in [1..n -> R]
  BY <1>1, <1>4
<1>6. Len(contract.alloc) = n
  BY <1>2, <1>5, FunctionIsSeq
<1>7. ASSUME NEW v \in 1..n
      PROVE  contract.alloc[v].index = v /\ (contract.alloc[v].public <=> A[v].cmd = "public")
  <2>1. PICK x, r : x = (A[v].cmd = "public") /\ r = contract.alloc[v]
    OBVIOUS
  <2>2. r = [public |-> A[v].cmd = "public", index |-> v]
    BY <1>2, <1>3, <2>1 DEF DecodedAlloc
  <2>3. r = [public |-> x, index |-> v]
    BY <2>1, <2>2, Zenon
  <2>4. r.public = x /\ r.index = v
    BY ONLY <2>3
  <2> QED BY <2>1, <2>4, Zenon
<1> QED BY <1>1, <1>4, <1>6, <1>7

LEMMA ConstantsRead ==
  ASSUME Loaded, NEW symbol \in ConstantSymbols
  PROVE  /\ contract.constants[ConstantIndex(symbol)] = ValueOf(symbol) /\ ValueOf(symbol) \in Scalars
         /\ ConstantIndex(symbol) \in DOMAIN contract.constants
<1>1. contract.constants = [i \in DOMAIN ConstantList |-> ValueOf(ConstantList[i])] /\ DistinctConstants
  BY ContractIs DEF Loaded
<1>2. PICK n \in 1..Len(Constants) : symbol = Constants[n].symbol
  BY ConstantLines DEF ConstantSymbols
<1>3. ConstantIndex(symbol) = n /\ ValueOf(symbol) = Constants[n].value
  BY <1>1, <1>2, ConstantIs
<1>4. n \in DOMAIN ConstantList /\ ConstantList[n] = symbol
  BY <1>1, <1>2, ConstantsWritten
<1>5. n \in DOMAIN contract.constants /\ contract.constants[n] = ValueOf(symbol)
  BY <1>1, <1>4
<1> QED BY <1>2, <1>3, <1>5, ConstantLines

Combination == [0..Size -> Scalars]
States == [coeff : Scalars, lc : [0..2 -> Combination]]

LEMMA FreshIs ==
  ASSUME Loaded
  PROVE  Fresh \in States /\ Fresh.coeff = 1 /\ \A k \in 0..2, v \in 0..Size : Fresh.lc[k][v] = 0
<1>1. Zero = [v \in 0..Size |-> 0]
  BY AllocRead DEF Zero
<1>2. Zero \in Combination
  BY <1>1, FieldIs DEF Combination
<1> QED BY <1>1, <1>2, FieldIs DEF Fresh, States

\* r is st with c more of variable v in combination n.
Added(r, st, n, v, c) ==
  /\ r \in States /\ r.coeff = st.coeff
  /\ r.lc[n][v] = (st.lc[n][v] + c) % P
  /\ \A u \in 0..Size : u # v => r.lc[n][u] = st.lc[n][u]
  /\ \A k \in 0..2 : k # n => r.lc[k] = st.lc[k]

LEMMA PlusIs ==
  ASSUME NEW st \in States, NEW n \in 0..2, NEW v \in 0..Size, NEW c \in Int
  PROVE  Added(Plus(st, n, v, c), st, n, v, c)
<1>0. PICK r : r = Plus(st, n, v, c)
  OBVIOUS
<1>1. PICK l, f, x, g : l = st.lc /\ f = l[n] /\ x = (f[v] + c) % P /\ g = [f EXCEPT ![v] = x]
  OBVIOUS
<1>2. l \in [0..2 -> Combination] /\ f \in Combination /\ st.coeff \in Scalars
  BY <1>1 DEF States
<1>3. f[v] \in Int
  BY <1>2, FieldIs DEF Combination
<1>4. x \in Scalars
  <2>1. f[v] + c \in Int
    BY <1>3
  <2> QED BY <1>1, <2>1, Reduced
<1>5. g \in Combination /\ g[v] = x /\ \A u \in 0..Size : u # v => g[u] = f[u]
  BY <1>1, <1>2, <1>4 DEF Combination
<1>6. r = [st EXCEPT !.lc = [l EXCEPT ![n] = g]]
  BY <1>0, <1>1 DEF Plus
<1>7. PICK m : m = [l EXCEPT ![n] = g]
  OBVIOUS
<1>8. m \in [0..2 -> Combination] /\ m[n] = g /\ \A k \in 0..2 : k # n => m[k] = l[k]
  BY <1>2, <1>5, <1>7
<1>9. r = [st EXCEPT !.lc = m]
  BY <1>6, <1>7
<1>10. r.lc = m /\ r.coeff = st.coeff /\ r \in States
  BY <1>8, <1>9 DEF States
<1> QED BY <1>0, <1>1, <1>5, <1>8, <1>10 DEF Added

\* The variables have the values the machine left.
Filled == aux \in [1..Size -> Scalars]
W(v) == IF v = 0 THEN 1 ELSE aux[v]
Terms(lc) == [v \in 1..Size |-> lc[v] * aux[v]]
Value(lc) == lc[0] + Total(Terms(lc))

LEMMA TermsAre ==
  ASSUME Loaded, Filled, NEW lc \in Combination
  PROVE  /\ Terms(lc) \in Seq(Int) /\ Len(Terms(lc)) = Size /\ Size \in Nat
         /\ \A v \in 1..Size : Terms(lc)[v] = lc[v] * aux[v] /\ lc[v] \in Int /\ aux[v] \in Int
         /\ lc[0] \in Int
<1>1. Size \in Nat
  BY AllocIs
<1>2. ASSUME NEW v \in 1..Size PROVE lc[v] \in Int /\ aux[v] \in Int
  <2>1. v \in 0..Size
    BY <1>1
  <2>2. lc[v] \in Scalars /\ aux[v] \in Scalars
    BY <2>1 DEF Combination, Filled
  <2> QED BY <2>2, FieldIs
<1>3. \A v \in 1..Size : lc[v] * aux[v] \in Int
  BY <1>2, SMT
<1>4. Terms(lc) \in [1..Size -> Int]
  BY <1>3 DEF Terms
<1>5. lc[0] \in Int
  <2>1. 0 \in 0..Size
    BY <1>1
  <2>2. lc[0] \in Scalars
    BY <2>1 DEF Combination
  <2> QED BY <2>2, FieldIs
<1> QED BY <1>1, <1>2, <1>4, <1>5, FunctionIsSeq DEF Terms

LEMMA ValueType ==
  ASSUME Loaded, Filled, NEW lc \in Combination
  PROVE  Value(lc) \in Int
<1>1. PICK s : s = Terms(lc)
  OBVIOUS
<1>2. s \in Seq(Int) /\ lc[0] \in Int
  BY <1>1, TermsAre
<1>3. PICK f \in [0..Len(s) -> Int] : Total(s) = f[Len(s)]
  BY <1>2, TotalIs
<1>4. Len(s) \in 0..Len(s)
  BY <1>2
<1>5. Total(s) \in Int
  BY <1>3, <1>4
<1> QED BY <1>1, <1>2, <1>5 DEF Value

LEMMA PlusValue ==
  ASSUME Loaded, Filled, NEW lc \in Combination, NEW g \in Combination, NEW v \in 0..Size, NEW c \in Int,
         g[v] = (lc[v] + c) % P, \A u \in 0..Size : u # v => g[u] = lc[u]
  PROVE  Same(Value(g), Value(lc) + (c * W(v)))
<1>1. PICK n, s, t : n = Size /\ s = Terms(lc) /\ t = Terms(g)
  OBVIOUS
<1>2. /\ n \in Nat /\ s \in Seq(Int) /\ t \in Seq(Int) /\ Len(s) = n /\ Len(t) = n
      /\ \A u \in 1..n : s[u] = lc[u] * aux[u] /\ t[u] = g[u] * aux[u]
      /\ lc[0] \in Int /\ g[0] \in Int
  BY <1>1, TermsAre
<1>3. lc[v] \in Int
  BY FieldIs DEF Combination
<1>4. PICK x, y : x = lc[v] /\ y = g[v]
  OBVIOUS
<1>5. x \in Int /\ x + c \in Int /\ y = (x + c) % P
  BY <1>3, <1>4
<1>6. y \in Int /\ Same(y, x + c)
  BY <1>5, SameReduced
<1>7. PICK a, b : a = Total(s) /\ b = Total(t)
  OBVIOUS
<1>8. CASE v = 0
  <2>1. \A u \in 1..n : g[u] = lc[u]
    BY <1>1, <1>2, <1>8
  <2>2. s = t
    BY <1>1, <2>1 DEF Terms
  <2>3. a \in Int /\ b = a
    <3>1. PICK f \in [0..Len(s) -> Int] : Total(s) = f[Len(s)]
      BY <1>2, TotalIs
    <3>2. Len(s) \in 0..Len(s)
      BY <1>2
    <3> QED BY <1>7, <2>2, <3>1, <3>2
  <2>4. Same(y + a, (x + c) + a)
    <3>1. Same(a, a)
      BY <2>3, SameReduced
    <3> QED BY <1>5, <1>6, <2>3, <3>1, SameSums
  <2>5. (x + c) + a = (x + a) + (c * W(v))
    <3>1. W(v) = 1 /\ c * 1 = c
      BY <1>8 DEF W
    <3>2. (x + c) + a = (x + a) + c
      BY <1>5, <2>3
    <3> QED BY <3>1, <3>2
  <2> QED BY <1>1, <1>4, <1>7, <1>8, <2>3, <2>4, <2>5 DEF Value
<1>9. CASE v # 0
  <2>1. v \in 1..n /\ W(v) = aux[v] /\ g[0] = lc[0]
    BY <1>1, <1>2, <1>9 DEF W
  <2>2. PICK w, d, z : w = aux[v] /\ d = c * w /\ z = lc[0]
    OBVIOUS
  <2>3. w \in Int /\ z \in Int
    BY <1>1, <1>2, <2>1, <2>2, FieldIs DEF Filled
  <2>4. d \in Int
    BY <2>2, <2>3, SMT
  <2>5. Same(y * w, (x + c) * w)
    BY <1>5, <1>6, <2>3, SameProduct
  <2>6. (x + c) * w = (x * w) + d
    BY <1>5, <2>2, <2>3, SMT
  <2>7. Same(t[v], s[v] + d)
    BY <1>2, <1>4, <2>1, <2>2, <2>5, <2>6
  <2>8. \A u \in 1..n : u # v => t[u] = s[u]
    <3>1. ASSUME NEW u \in 1..n, u # v PROVE t[u] = s[u]
      <4>1. u \in 0..n
        BY <1>2
      <4>2. g[u] = lc[u]
        BY <1>1, <3>1, <4>1
      <4> QED BY <1>2, <4>2
    <3> QED BY <3>1
  <2>9. Same(b, a + d) /\ a \in Int /\ b \in Int
    <3>1. Len(s) = Len(t) /\ v \in 1..Len(s) /\ \A i \in 1..Len(s) : i # v => t[i] = s[i]
      BY <1>2, <2>1, <2>8
    <3>2. PICK p : p = v
      OBVIOUS
    <3>3. p \in 1..Len(s) /\ Same(t[p], s[p] + d) /\ \A i \in 1..Len(s) : i # p => t[i] = s[i]
      BY <2>7, <3>1, <3>2
    <3>4. Same(Total(t), Total(s) + d) /\ Total(t) \in Int /\ Total(s) \in Int
      BY ONLY <1>2, <2>4, <3>1, <3>3, TotalChange
    <3> QED BY <1>7, <3>4
  <2>10. Same(z + b, z + (a + d))
    <3>1. Same(z, z) /\ a + d \in Int
      BY <2>3, <2>4, <2>9, SameReduced
    <3> QED BY <2>3, <2>9, <3>1, SameSums
  <2>11. z + (a + d) = (z + a) + d
    BY <2>3, <2>4, <2>9
  <2> QED BY <1>1, <1>7, <2>1, <2>2, <2>10, <2>11 DEF Value
<1> QED BY <1>8, <1>9

\* Names are found at their place.
LEMMA PositionIs ==
  ASSUME NEW n \in Nat, NEW names, DOMAIN names = 1..n, Len(names) = n,
         \A i, j \in 1..n : names[i] = names[j] => i = j
  PROVE  \A i \in 1..n : Position(names, names[i]) = i
<1>1. SUFFICES ASSUME NEW i \in 1..n PROVE Position(names, names[i]) = i
  OBVIOUS
<1>2. PICK I : I = {k \in 1..Len(names) : names[k] = names[i]}
  OBVIOUS
<1>3. I = {i}
  BY <1>2
<1>4. Min(I) = i
  BY <1>3 DEF Min
<1>5. Position(names, names[i]) = IF I # {} THEN Min(I) ELSE 0
  BY <1>2 DEF Position, SelectInSeq
<1> QED BY <1>3, <1>4, <1>5

LEMMA AllocNamesAre ==
  ASSUME Loaded
  PROVE  /\ Size \in Nat /\ DOMAIN AllocNames = 1..Size /\ Len(AllocNames) = Size
         /\ \A i \in 1..Size : AllocNames[i] = Name(i) /\ Position(AllocNames, Name(i)) = i
         /\ Range(AllocNames) = {Name(i) : i \in 1..Size}
<1>1. PICK n, N, R : n = Size /\ N = AllocNames /\ R = {Name(i) : i \in 1..n}
  OBVIOUS
<1>2. n \in Nat /\ DOMAIN AllocLines(source) = 1..n /\ \A i, j \in 1..n : Name(i) = Name(j) => i = j
  BY <1>1, AllocIs
<1>3. N = [i \in 1..n |-> Name(i)]
  BY <1>1, <1>2 DEF AllocNames, NamesOf, Name
<1>4. N \in [1..n -> R]
  BY <1>1, <1>3
<1>5. DOMAIN N = 1..n /\ Len(N) = n /\ \A i \in 1..n : N[i] = Name(i)
  BY <1>2, <1>3, <1>4, FunctionIsSeq
<1>6. \A i, j \in 1..n : N[i] = N[j] => i = j
  BY <1>2, <1>5
<1>7. \A i \in 1..n : Position(N, N[i]) = i
  BY ONLY <1>2, <1>5, <1>6, PositionIs
<1>8. Range(N) = R
  BY <1>1, <1>5 DEF Range
<1> QED BY <1>1, <1>2, <1>5, <1>7, <1>8

LEMMA ValuesAre ==
  ASSUME Loaded, NEW symbol, IsAllocated(symbol)
  PROVE  Values[symbol] = aux[Place(symbol)] /\ Place(symbol) \in 1..Size
<1>1. PICK v : v = Place(symbol)
  OBVIOUS
<1>2. v \in 1..Size /\ Name(v) = symbol
  BY <1>1, PlaceIs
<1>3. symbol \in Range(AllocNames) /\ Position(AllocNames, symbol) = v
  BY <1>2, AllocNamesAre
<1> QED BY <1>1, <1>2, <1>3 DEF Values

\* One summand more.
Grows(r, st, n, x) ==
  /\ r \in States /\ r.coeff = st.coeff
  /\ \A k \in 0..2 : Same(Value(r.lc[k]), Value(st.lc[k]) + (IF n = k THEN x ELSE 0))

LEMMA AddStep ==
  ASSUME Loaded, Filled, NEW st \in States, NEW n \in 0..2, NEW v \in 0..Size, NEW c \in Int,
         NEW x \in Int, Same(c * W(v), x)
  PROVE  Grows(Plus(st, n, v, c), st, n, x)
<1>0. PICK r : r = Plus(st, n, v, c)
  OBVIOUS
<1>1. /\ r \in States /\ r.coeff = st.coeff
      /\ r.lc[n][v] = (st.lc[n][v] + c) % P
      /\ \A u \in 0..Size : u # v => r.lc[n][u] = st.lc[n][u]
      /\ \A k \in 0..2 : k # n => r.lc[k] = st.lc[k]
  <2>1. Added(r, st, n, v, c)
    BY <1>0, PlusIs
  <2> QED BY <2>1 DEF Added
<1>2. \A k \in 0..2 : r.lc[k] \in Combination /\ st.lc[k] \in Combination
  BY <1>1 DEF States
<1>3. PICK f, g : f = st.lc[n] /\ g = r.lc[n]
  OBVIOUS
<1>4. f \in Combination /\ g \in Combination /\ g[v] = (f[v] + c) % P /\ \A u \in 0..Size : u # v => g[u] = f[u]
  BY <1>1, <1>2, <1>3
<1>5. Same(Value(g), Value(f) + (c * W(v)))
  BY <1>4, PlusValue
<1>6. W(v) \in Int
  <2>1. v # 0 => v \in 1..Size
    BY AllocIs
  <2>2. v # 0 => aux[v] \in Int
    BY <2>1, FieldIs DEF Filled
  <2> QED BY <2>2 DEF W
<1>7. PICK a, b, w : a = Value(f) /\ b = Value(g) /\ w = c * W(v)
  OBVIOUS
<1>8. a \in Int /\ b \in Int /\ w \in Int
  <2>1. w \in Int
    BY <1>6, <1>7, SMT
  <2> QED BY <1>4, <1>7, <2>1, ValueType
<1>9. Same(b, a + x)
  <2>1. Same(a, a) /\ Same(w, x) /\ Same(b, a + w)
    BY <1>5, <1>7, <1>8, SameReduced
  <2>2. Same(a + w, a + x)
    BY <1>8, <2>1, SameSums
  <2>3. a + w \in Int /\ a + x \in Int
    BY <1>8
  <2> QED BY <1>8, <2>1, <2>2, <2>3, SameTrans
<1>10. ASSUME NEW k \in 0..2 PROVE Same(Value(r.lc[k]), Value(st.lc[k]) + (IF n = k THEN x ELSE 0))
  <2>1. CASE n = k
    BY <1>3, <1>7, <1>9, <2>1
  <2>2. CASE n # k
    <3>1. r.lc[k] = st.lc[k]
      BY <1>1, <2>2
    <3>2. PICK z : z = Value(st.lc[k])
      OBVIOUS
    <3>3. z \in Int
      BY <1>2, <3>2, ValueType
    <3>4. Same(z, z) /\ z + 0 = z
      BY <3>3, SameReduced
    <3> QED BY <2>2, <3>1, <3>2, <3>4
  <2> QED BY <2>1, <2>2
<1> QED BY <1>0, <1>1, <1>10 DEF Grows

\* What line j adds to combination k.
Part(lines, j, k) == IF lines[j].lc = k THEN Share(lines, j, Values) ELSE 0
\* What an instruction makes of a state, for line j.
Performs(r, st, lines, j) ==
  /\ r \in States /\ Same(r.coeff, Coefficient(lines, j + 1))
  /\ \A k \in 0..2 : Part(lines, j, k) \in Int /\ Same(Value(r.lc[k]), Value(st.lc[k]) + Part(lines, j, k))

\* A line that adds, and leaves the coefficient.
LEMMA Adds ==
  ASSUME Loaded, Filled, NEW st \in States, NEW lines, NEW j, NEW v \in 0..Size, NEW c \in Int,
         lines[j].lc \in 0..2, NEW x \in Int, Same(c * W(v), x), Share(lines, j, Values) = x,
         Same(st.coeff, Coefficient(lines, j + 1))
  PROVE  Performs(Plus(st, lines[j].lc, v, c), st, lines, j)
<1>1. PICK n, r : n = lines[j].lc /\ r = Plus(st, lines[j].lc, v, c)
  OBVIOUS
<1>2. n \in 0..2 /\ r = Plus(st, n, v, c)
  BY <1>1
<1>3. /\ r \in States /\ r.coeff = st.coeff
      /\ \A k \in 0..2 : Same(Value(r.lc[k]), Value(st.lc[k]) + (IF n = k THEN x ELSE 0))
  <2>1. Grows(r, st, n, x)
    BY <1>2, AddStep
  <2> QED BY <2>1 DEF Grows
<1>4. \A k \in 0..2 : Part(lines, j, k) = IF n = k THEN x ELSE 0
  BY <1>1 DEF Part
<1>5. Performs(r, st, lines, j)
  BY <1>3, <1>4 DEF Performs
<1> QED BY <1>1, <1>5

\* A line that is no summand.
LEMMA Keeps ==
  ASSUME Loaded, Filled, NEW st \in States, NEW r \in States, r.lc = st.lc, NEW lines, NEW j,
         Share(lines, j, Values) = 0, Same(r.coeff, Coefficient(lines, j + 1))
  PROVE  Performs(r, st, lines, j)
<1>1. \A k \in 0..2 : Part(lines, j, k) = 0
  BY DEF Part
<1>2. ASSUME NEW k \in 0..2 PROVE Same(Value(r.lc[k]), Value(st.lc[k]) + 0)
  <2>1. PICK z : z = Value(st.lc[k])
    OBVIOUS
  <2>2. st.lc[k] \in Combination
    BY DEF States
  <2>3. z \in Int
    BY <2>1, <2>2, ValueType
  <2>4. Same(z, z) /\ z + 0 = z
    BY <2>3, SameReduced
  <2> QED BY <2>1, <2>4
<1> QED BY <1>1, <1>2 DEF Performs

LEMMA StepIs ==
  ASSUME Loaded, Filled, NEW st \in States, NEW lines, NEW j \in Nat \ {0}, NEW d, Translates(lines[j], d),
         lines[j].cmd # "enforce", Same(st.coeff, Coefficient(lines, j))
  PROVE  Performs(Instruct(st, d), st, lines, j)
<1>1. PICK l, C, r, x : l = lines[j] /\ C = Coefficient(lines, j) /\ r = Instruct(st, d) /\ x = Share(lines, j, Values)
  OBVIOUS
<1>2. /\ C \in Nat
      /\ Coefficient(lines, j + 1) =
           IF l.cmd = "lc_coeff_reset" THEN 1 ELSE IF l.cmd = "lc_coeff_double" THEN 2 * C ELSE C
  BY <1>1, CoefficientSteps
<1>3. l.lc \in 0..2 /\ st.coeff \in Int /\ Same(st.coeff, C) /\ st.coeff \in Scalars
  BY <1>1, FieldIs DEF Translates, States
<1>4. W(0) = 1 /\ 0 \in 0..Size
  BY AllocIs DEF W
<1>5. \A symbol : IsAllocated(symbol) =>
        /\ Place(symbol) \in 0..Size /\ W(Place(symbol)) = Values[symbol] /\ Values[symbol] \in Int
  <2>1. SUFFICES ASSUME NEW symbol, IsAllocated(symbol)
                 PROVE  /\ Place(symbol) \in 0..Size /\ W(Place(symbol)) = Values[symbol] /\ Values[symbol] \in Int
    OBVIOUS
  <2>2. PICK v : v = Place(symbol)
    OBVIOUS
  <2>3. v \in 1..Size /\ Values[symbol] = aux[v]
    BY <2>1, <2>2, ValuesAre
  <2>4. aux[v] \in Scalars /\ v \in 0..Size /\ v # 0
    BY <2>3, AllocIs DEF Filled
  <2> QED BY <2>2, <2>3, <2>4, FieldIs DEF W
<1>6. CASE l.cmd = "lc_add"
  <2>1. PICK s, v, w : s = l.args[1] /\ v = Place(s) /\ w = Values[s]
    OBVIOUS
  <2>2. d.op = "Add" /\ d.lc = l.lc /\ d.args[1] = v /\ IsAllocated(s)
    BY <1>1, <1>6, <2>1 DEF Translates
  <2>3. v \in 0..Size /\ W(v) = w /\ w \in Int
    BY <1>5, <2>1, <2>2
  <2>4. r = Plus(st, l.lc, v, st.coeff)
    BY <1>1, <2>2 DEF Instruct
  <2>5. x = C * w /\ x \in Int
    <3>1. x = C * w
      BY <1>1, <1>6, <2>1 DEF Share
    <3> QED BY <1>2, <2>3, <3>1, SMT
  <2>6. Same(st.coeff * W(v), x)
    BY <1>2, <1>3, <2>3, <2>5, SameProduct
  <2>7. Same(st.coeff, Coefficient(lines, j + 1))
    BY <1>2, <1>3, <1>6
  <2>8. Performs(Plus(st, lines[j].lc, v, st.coeff), st, lines, j)
    BY <1>1, <1>3, <2>3, <2>5, <2>6, <2>7, Adds
  <2> QED BY <1>1, <2>4, <2>8
<1>7. CASE l.cmd = "lc_sub"
  <2>1. PICK s, v, w, c : s = l.args[1] /\ v = Place(s) /\ w = Values[s] /\ c = -st.coeff
    OBVIOUS
  <2>2. d.op = "Sub" /\ d.lc = l.lc /\ d.args[1] = v /\ IsAllocated(s)
    BY <1>1, <1>7, <2>1 DEF Translates
  <2>3. v \in 0..Size /\ W(v) = w /\ w \in Int /\ c \in Int
    BY <1>3, <1>5, <2>1, <2>2
  <2>4. r = Plus(st, l.lc, v, c)
    BY <1>1, <2>1, <2>2 DEF Instruct
  <2>5. x = (-C) * w /\ x \in Int /\ -C \in Int
    <3>1. x = -C * w
      BY <1>1, <1>7, <2>1 DEF Share
    <3> QED BY <1>2, <2>3, <3>1, SMT
  <2>6. Same(c, -C)
    <3>1. C \in Int /\ 0 \in Int
      BY <1>2
    <3> QED BY <1>3, <2>1, <3>1, SameSums
  <2>9. Same(c * W(v), x)
    BY <2>3, <2>5, <2>6, SameProduct
  <2>7. Same(st.coeff, Coefficient(lines, j + 1))
    BY <1>2, <1>3, <1>7
  <2>8. Performs(Plus(st, lines[j].lc, v, c), st, lines, j)
    BY <1>1, <1>3, <2>3, <2>5, <2>9, <2>7, Adds
  <2> QED BY <1>1, <2>4, <2>8
<1>8. CASE l.cmd \in {"lc_add_one", "lc_sub_one"}
  <2>1. PICK c : c = IF l.cmd = "lc_add_one" THEN 1 ELSE -1
    OBVIOUS
  <2>2. r = Plus(st, l.lc, 0, c)
    BY <1>1, <1>8, <2>1 DEF Translates, Instruct
  <2>3. x = c
    BY <1>1, <1>8, <2>1 DEF Share
  <2>4. c \in Int /\ c * W(0) = x
    BY <1>4, <2>1, <2>3
  <2>5. Same(c * W(0), x)
    BY <2>3, <2>4, SameReduced
  <2>6. Same(st.coeff, Coefficient(lines, j + 1))
    BY <1>2, <1>3, <1>8
  <2>7. Performs(Plus(st, lines[j].lc, 0, c), st, lines, j)
    BY <1>1, <1>3, <1>4, <2>3, <2>4, <2>5, <2>6, Adds
  <2> QED BY <1>1, <2>2, <2>7
<1>9. CASE l.cmd = "lc_add_coeff"
  <2>1. PICK q, s, v, w, c : q = l.args[1] /\ s = l.args[2] /\ v = Place(s) /\ w = Values[s] /\ c = ValueOf(q)
    OBVIOUS
  <2>2. /\ d.op = "AddCoeff" /\ d.lc = l.lc /\ d.args[1] = ConstantIndex(q) /\ d.args[2] = v
        /\ q \in ConstantSymbols /\ IsAllocated(s)
    BY <1>1, <1>9, <2>1 DEF Translates
  <2>3. v \in 0..Size /\ W(v) = w /\ w \in Int
    BY <1>5, <2>1, <2>2
  <2>4. contract.constants[d.args[1]] = c /\ c \in Int
    BY <2>1, <2>2, ConstantsRead, FieldIs
  <2>5. r = Plus(st, l.lc, v, c)
    BY <1>1, <2>2, <2>4 DEF Instruct
  <2>6. x = c * w /\ x \in Int
    <3>1. x = c * w
      BY <1>1, <1>9, <2>1 DEF Share
    <3> QED BY <2>3, <2>4, <3>1, SMT
  <2>7. Same(c * W(v), x)
    BY <2>3, <2>6, SameReduced
  <2>8. Same(st.coeff, Coefficient(lines, j + 1))
    BY <1>2, <1>3, <1>9
  <2>9. Performs(Plus(st, lines[j].lc, v, c), st, lines, j)
    BY <1>1, <1>3, <2>3, <2>4, <2>6, <2>7, <2>8, Adds
  <2> QED BY <1>1, <2>5, <2>9
<1>10. CASE l.cmd = "lc_add_constant"
  <2>1. PICK q, c : q = l.args[1] /\ c = ValueOf(q)
    OBVIOUS
  <2>2. d.op = "AddConstant" /\ d.lc = l.lc /\ d.args[1] = ConstantIndex(q) /\ q \in ConstantSymbols
    BY <1>1, <1>10, <2>1 DEF Translates
  <2>3. contract.constants[d.args[1]] = c /\ c \in Int
    BY <2>1, <2>2, ConstantsRead, FieldIs
  <2>4. r = Plus(st, l.lc, 0, c)
    BY <1>1, <2>2, <2>3 DEF Instruct
  <2>5. x = c
    BY <1>1, <1>10, <2>1 DEF Share
  <2>6. Same(c * W(0), x)
    <3>1. c * W(0) = c
      BY <1>4, <2>3
    <3> QED BY <2>3, <2>5, <3>1, SameReduced
  <2>7. Same(st.coeff, Coefficient(lines, j + 1))
    BY <1>2, <1>3, <1>10
  <2>8. Performs(Plus(st, lines[j].lc, 0, c), st, lines, j)
    BY <1>1, <1>3, <1>4, <2>3, <2>5, <2>6, <2>7, Adds
  <2> QED BY <1>1, <2>4, <2>8
<1>11. CASE l.cmd = "lc_coeff_reset"
  <2>1. d.op = "LcCoeffReset"
    BY <1>1, <1>11 DEF Translates
  <2>2. r = [st EXCEPT !.coeff = 1]
    BY <1>1, <2>1 DEF Instruct
  <2>3. r \in States /\ r.lc = st.lc /\ r.coeff = 1
    BY <2>2, FieldIs DEF States
  <2>4. x = 0
    BY <1>1, <1>11 DEF Share
  <2>5. Same(r.coeff, Coefficient(lines, j + 1))
    BY <1>2, <1>11, <2>3, SameReduced
  <2> QED BY <1>1, <2>3, <2>4, <2>5, Keeps
<1>12. CASE l.cmd = "lc_coeff_double"
  <2>1. d.op = "LcCoeffDouble"
    BY <1>1, <1>12 DEF Translates
  <2>2. PICK y, z : y = 2 * st.coeff /\ z = y % P
    OBVIOUS
  <2>3. r = [st EXCEPT !.coeff = z]
    BY <1>1, <2>1, <2>2 DEF Instruct
  <2>4. y \in Int /\ z \in Scalars
    <3>1. y \in Int
      BY <1>3, <2>2
    <3> QED BY <2>2, <3>1, Reduced
  <2>5. r \in States /\ r.lc = st.lc /\ r.coeff = z
    BY <2>3, <2>4 DEF States
  <2>6. x = 0
    BY <1>1, <1>12 DEF Share
  <2>7. Same(z, 2 * C)
    <3>1. Same(z, y) /\ z \in Int
      BY <2>2, <2>4, SameReduced
    <3>2. C \in Int /\ 2 \in Int
      BY <1>2
    <3>3. Same(2 * st.coeff, 2 * C)
      BY <1>3, <3>2, SameProduct
    <3>4. 2 * C \in Int
      BY <3>2
    <3> QED BY <2>2, <2>4, <3>1, <3>3, <3>4, SameTrans
  <2>8. Same(r.coeff, Coefficient(lines, j + 1))
    BY <1>2, <1>12, <2>5, <2>7
  <2> QED BY <1>1, <2>5, <2>6, <2>8, Keeps
<1>13. l.cmd \in {"lc_add", "lc_sub", "lc_add_one", "lc_sub_one", "lc_add_coeff", "lc_add_constant",
                 "lc_coeff_reset", "lc_coeff_double"}
  BY <1>1 DEF Translates, constraint_commands
<1> QED BY <1>6, <1>7, <1>8, <1>9, <1>10, <1>11, <1>12, <1>13

LEMMA FreshValue ==
  ASSUME Loaded, Filled, NEW k \in 0..2
  PROVE  Value(Fresh.lc[k]) = 0
<1>1. PICK f, s, n : f = Fresh.lc[k] /\ s = Terms(f) /\ n = Size
  OBVIOUS
<1>2. f \in Combination /\ \A v \in 0..n : f[v] = 0
  BY <1>1, FreshIs DEF States
<1>3. /\ s \in Seq(Int) /\ Len(s) = n /\ n \in Nat
      /\ \A v \in 1..n : s[v] = f[v] * aux[v] /\ aux[v] \in Int
  BY <1>1, <1>2, TermsAre
<1>4. ASSUME NEW v \in 1..n PROVE s[v] = 0
  <2>1. f[v] = 0
    BY <1>2, <1>3
  <2>2. s[v] = 0 * aux[v] /\ aux[v] \in Int
    BY <1>3, <2>1
  <2>3. \A x \in Int : 0 * x = 0
    OBVIOUS
  <2> QED BY <2>2, <2>3, Zenon
<1>5. Total(s) = 0
  BY <1>3, <1>4, TotalZero
<1>6. f[0] = 0 /\ 0 + 0 = 0
  BY <1>2, <1>3
<1> QED BY <1>1, <1>5, <1>6 DEF Value

\* The run of the instructions between two enforces.
Run(lines, n, f) ==
  /\ n \in Nat /\ DOMAIN lines = 1..n /\ f[0] = Fresh
  /\ \A j \in 1..n : /\ lines[j].cmd # "enforce"
                     /\ \E d : Translates(lines[j], d) /\ f[j] = Instruct(f[j - 1], d)

LEMMA RunStep ==
  ASSUME Loaded, Filled, NEW lines, NEW n, NEW f, Run(lines, n, f), NEW j \in 1..n,
         f[j - 1] \in States, Same(f[j - 1].coeff, Coefficient(lines, j))
  PROVE  Performs(f[j], f[j - 1], lines, j)
<1>1. n \in Nat /\ lines[j].cmd # "enforce"
  BY DEF Run
<1>2. PICK d : Translates(lines[j], d) /\ f[j] = Instruct(f[j - 1], d)
  BY DEF Run
<1>3. PICK st : st = f[j - 1]
  OBVIOUS
<1>4. j \in Nat \ {0}
  BY <1>1
<1>5. Performs(Instruct(st, d), st, lines, j)
  BY <1>1, <1>2, <1>3, <1>4, StepIs
<1> QED BY <1>2, <1>3, <1>5

LEMMA RunSteps ==
  ASSUME Loaded, Filled, NEW lines, NEW n, NEW f, Run(lines, n, f)
  PROVE  \A j \in 1..n : Performs(f[j], f[j - 1], lines, j)
<1>1. n \in Nat /\ f[0] = Fresh
  BY DEF Run
<1> DEFINE E(i) == f[i] \in States /\ Same(f[i].coeff, Coefficient(lines, i + 1))
           T == {i \in Nat : i <= n => E(i)}
<1>2. E(0)
  <2>1. Fresh \in States /\ Fresh.coeff = 1
    BY FreshIs
  <2>2. Coefficient(lines, 1) = 1 /\ 0 + 1 = 1
    BY CoefficientSteps
  <2>3. Same(1, 1)
    BY SameReduced
  <2> QED BY <1>1, <2>1, <2>2, <2>3
<1>3. ASSUME NEW i \in Nat, i + 1 <= n, E(i) PROVE E(i + 1)
  <2>1. PICK j : j = i + 1
    OBVIOUS
  <2>2. j \in 1..n /\ j - 1 = i
    BY <1>1, <1>3, <2>1
  <2>3. f[j - 1] \in States /\ Same(f[j - 1].coeff, Coefficient(lines, j))
    BY <1>3, <2>1, <2>2
  <2>4. Performs(f[j], f[j - 1], lines, j)
    BY <2>2, <2>3, RunStep
  <2> QED BY <2>1, <2>4 DEF Performs
<1> HIDE DEF E
<1>4. 0 \in T /\ \A i \in Nat : i \in T => i + 1 \in T
  <2>1. ASSUME NEW i \in Nat, i \in T PROVE i + 1 \in T
    <3>1. SUFFICES ASSUME i + 1 <= n PROVE E(i + 1)
      OBVIOUS
    <3>2. E(i)
      BY <1>1, <2>1, <3>1
    <3> QED BY <1>3, <3>1, <3>2
  <2> QED BY <1>1, <1>2, <2>1
<1>5. \A i \in Nat : i \in T
  <2> HIDE DEF T
  <2> QED BY <1>4, Induct
<1>6. ASSUME NEW j \in 1..n PROVE Performs(f[j], f[j - 1], lines, j)
  <2>1. PICK i : i = j - 1
    OBVIOUS
  <2>2. i \in Nat /\ i <= n /\ i + 1 = j
    BY <1>1, <2>1
  <2>3. E(i)
    BY <1>5, <2>2
  <2>4. f[j - 1] \in States /\ Same(f[j - 1].coeff, Coefficient(lines, j))
    BY <2>1, <2>2, <2>3 DEF E
  <2> QED BY <2>4, RunStep
<1> QED BY <1>6

\* A combination comes to what the lines add up to.
LEMMA RunValue ==
  ASSUME Loaded, Filled, NEW lines, NEW n, NEW f, Run(lines, n, f), NEW k \in 0..2
  PROVE  /\ SumOf(lines, k, Values) \in Int /\ Same(Value(f[n].lc[k]), SumOf(lines, k, Values))
         /\ f[n] \in States
<1>1. n \in Nat /\ f[0] = Fresh /\ DOMAIN lines = 1..n
  BY DEF Run
<1>2. \A j \in 1..n : Performs(f[j], f[j - 1], lines, j)
  BY RunSteps
<1>3. PICK s : s = [j \in 1..n |-> Part(lines, j, k)]
  OBVIOUS
<1>4. \A j \in 1..n : Part(lines, j, k) \in Int /\ f[j] \in States
                      /\ Same(Value(f[j].lc[k]), Value(f[j - 1].lc[k]) + Part(lines, j, k))
  BY <1>2 DEF Performs
<1>5. s \in [1..n -> Int]
  BY <1>3, <1>4
<1>6. s \in Seq(Int) /\ Len(s) = n
  BY <1>1, <1>5, FunctionIsSeq
<1>7. PICK g \in [0..Len(s) -> Int] : Sums(s, g) /\ Total(s) = g[Len(s)]
  BY <1>6, TotalIs
<1>8. g \in [0..n -> Int] /\ g[0] = 0 /\ \A j \in 1..n : g[j] = g[j - 1] + s[j]
  BY <1>6, <1>7 DEF Sums
<1>9. f[0] \in States
  BY <1>1, FreshIs
<1>10. \A j \in 0..n : f[j] \in States
  <2>1. \A j \in 0..n : j = 0 \/ j \in 1..n
    BY <1>1
  <2> QED BY <1>4, <1>9, <2>1
<1>11. \A j \in 0..n : Value(f[j].lc[k]) \in Int
  <2>1. \A j \in 0..n : f[j].lc[k] \in Combination
    BY <1>10 DEF States
  <2> QED BY <2>1, ValueType
<1> DEFINE T == {j \in Nat : j <= n => Same(Value(f[j].lc[k]), g[j])}
<1>12. 0 \in T
  <2>1. Value(f[0].lc[k]) = 0
    BY <1>1, FreshValue
  <2>2. Same(0, 0)
    BY SameReduced
  <2> QED BY <1>8, <2>1, <2>2
<1>13. ASSUME NEW i \in Nat, i \in T PROVE i + 1 \in T
  <2>1. SUFFICES ASSUME i + 1 <= n PROVE Same(Value(f[i + 1].lc[k]), g[i + 1])
    OBVIOUS
  <2>2. PICK j, x, y, p, u, w : /\ j = i + 1 /\ x = Value(f[i].lc[k]) /\ y = Value(f[j].lc[k])
                                /\ p = Part(lines, j, k) /\ u = g[i] /\ w = g[j]
    OBVIOUS
  <2>3. j \in 1..n /\ j - 1 = i /\ i \in 0..n /\ j \in 0..n
    BY <1>1, <2>1, <2>2
  <2>4. x \in Int /\ y \in Int /\ p \in Int /\ u \in Int /\ w = u + p
    BY <1>3, <1>4, <1>8, <1>11, <2>2, <2>3
  <2>5. Same(x, u)
    BY <1>13, <2>2, <2>3
  <2>6. Same(y, x + p)
    BY <1>4, <2>2, <2>3
  <2>7. Same(p, p)
    BY <2>4, SameReduced
  <2>8. Same(x + p, u + p) /\ x + p \in Int /\ u + p \in Int
    BY <2>4, <2>5, <2>7, SameSums
  <2>9. Same(y, u + p)
    BY <2>4, <2>6, <2>8, SameTrans
  <2> QED BY <2>2, <2>4, <2>9
<1>14. n \in T
  <2> HIDE DEF T
  <2> QED BY <1>1, <1>12, <1>13, Induct
<1>15. SumOf(lines, k, Values) = Total(s)
  BY <1>1, <1>3 DEF SumOf, Part
<1>16. n \in 0..n
  BY <1>1
<1>17. Total(s) \in Int /\ Same(Value(f[n].lc[k]), Total(s))
  BY <1>1, <1>6, <1>7, <1>8, <1>14, <1>16
<1> QED BY <1>10, <1>15, <1>16, <1>17

----------------------------------------------------------------------------
(* The constraint system and the equations of the source.                  *)

LEMMA InstructType ==
  ASSUME Loaded, NEW st \in States, NEW l, NEW d, Translates(l, d)
  PROVE  Instruct(st, d) \in States
<1>1. /\ l.lc \in 0..2 /\ st.coeff \in Scalars
      /\ l.cmd \in {"lc_add", "lc_sub", "lc_add_one", "lc_sub_one", "lc_add_coeff", "lc_add_constant",
                    "enforce", "lc_coeff_reset", "lc_coeff_double"}
  BY DEF Translates, States, constraint_commands
<1>2. st.coeff \in Int /\ -st.coeff \in Int /\ 1 \in Int /\ -1 \in Int
  <2>1. PICK c : c = st.coeff
    OBVIOUS
  <2>2. c \in Int
    BY <1>1, <2>1, FieldIs
  <2> QED BY <2>1, <2>2
<1>3. ASSUME NEW v \in 0..Size, NEW c \in Int PROVE Plus(st, l.lc, v, c) \in States
  BY <1>1, PlusIs DEF Added
<1>4. 0 \in 0..Size /\ \A symbol : IsAllocated(symbol) => Place(symbol) \in 0..Size
  BY AllocIs, PlaceIs
<1>5. \A symbol \in ConstantSymbols : contract.constants[ConstantIndex(symbol)] \in Int
  BY ConstantsRead, FieldIs
<1>6. CASE l.cmd \in {"lc_add", "lc_sub"}
  <2>1. d.lc = l.lc /\ d.args[1] \in 0..Size
    BY <1>4, <1>6 DEF Translates
  <2>2. CASE l.cmd = "lc_add"
    <3>1. Instruct(st, d) = Plus(st, l.lc, d.args[1], st.coeff)
      BY <2>1, <2>2 DEF Translates, Instruct
    <3> QED BY <1>2, <1>3, <2>1, <3>1
  <2>3. CASE l.cmd = "lc_sub"
    <3>1. Instruct(st, d) = Plus(st, l.lc, d.args[1], -st.coeff)
      BY <2>1, <2>3 DEF Translates, Instruct
    <3> QED BY <1>2, <1>3, <2>1, <3>1
  <2> QED BY <1>6, <2>2, <2>3
<1>7. CASE l.cmd \in {"lc_add_one", "lc_sub_one"}
  <2>1. Instruct(st, d) = Plus(st, l.lc, 0, 1) \/ Instruct(st, d) = Plus(st, l.lc, 0, -1)
    BY <1>7 DEF Translates, Instruct
  <2> QED BY <1>2, <1>3, <1>4, <2>1
<1>8. CASE l.cmd = "lc_add_coeff"
  <2>1. d.lc = l.lc /\ d.args[2] \in 0..Size /\ contract.constants[d.args[1]] \in Int
    BY <1>4, <1>5, <1>8 DEF Translates
  <2>2. Instruct(st, d) = Plus(st, l.lc, d.args[2], contract.constants[d.args[1]])
    BY <1>8, <2>1 DEF Translates, Instruct
  <2> QED BY <1>3, <2>1, <2>2
<1>9. CASE l.cmd = "lc_add_constant"
  <2>1. d.lc = l.lc /\ contract.constants[d.args[1]] \in Int
    BY <1>5, <1>9 DEF Translates
  <2>2. Instruct(st, d) = Plus(st, l.lc, 0, contract.constants[d.args[1]])
    BY <1>9, <2>1 DEF Translates, Instruct
  <2> QED BY <1>3, <1>4, <2>1, <2>2
<1>10. CASE l.cmd = "enforce"
  BY <1>10, FreshIs DEF Translates, Instruct
<1>11. CASE l.cmd = "lc_coeff_reset"
  <2>1. Instruct(st, d) = [st EXCEPT !.coeff = 1]
    BY <1>11 DEF Translates, Instruct
  <2> QED BY <2>1, FieldIs DEF States
<1>12. CASE l.cmd = "lc_coeff_double"
  <2>1. PICK y, z : y = 2 * st.coeff /\ z = y % P
    OBVIOUS
  <2>2. Instruct(st, d) = [st EXCEPT !.coeff = z]
    BY <1>12, <2>1 DEF Translates, Instruct
  <2>3. z \in Scalars
    <3>1. y \in Int
      BY <1>2, <2>1
    <3> QED BY <2>1, <3>1, Reduced
  <2> QED BY <2>2, <2>3 DEF States
<1> QED BY <1>1, <1>6, <1>7, <1>8, <1>9, <1>10, <1>11, <1>12

LEMMA FoldInstruct ==
  ASSUME NEW n \in Nat, NEW s, DOMAIN s = 1..n, Fresh \in States,
         \A i \in 1..n, st \in States : Instruct(st, s[i]) \in States
  PROVE  \E f \in [0..n -> States] :
           /\ f[0] = Fresh /\ \A i \in 1..n : f[i] = Instruct(f[i - 1], s[i])
           /\ FoldLeft(Instruct, Fresh, s) = f[n]
<1> DEFINE step == [i \in 1..n |-> [x \in States |-> Instruct(x, s[i])]]
           D == DOMAIN s
           Eqn(g) == g = [t \in SUBSET D |->
                            IF t = {} THEN Fresh ELSE Instruct(g[t \ {Max(t)}], s[Max(t)])]
<1>1. FoldLeft(Instruct, Fresh, s) = (CHOOSE g : Eqn(g))[D]
  BY DEF FoldLeft, MapThenFoldSet
<1>2. D = 1..n
  OBVIOUS
<1>3. step \in [1..n -> [States -> States]]
  OBVIOUS
<1>4. \A i \in 1..n, x \in States : step[i][x] = Instruct(x, s[i])
  OBVIOUS
<1> HIDE DEF step, D
<1>5. PICK e \in [SUBSET (1..n) -> States] : Table(step, Fresh, n, e)
  BY <1>2, <1>3, TableExists
<1>6. Eqn(e)
  <2>1. ASSUME NEW t \in SUBSET (1..n), t # {} PROVE e[t] = Instruct(e[t \ {Max(t)}], s[Max(t)])
    <3>1. Max(t) \in 1..n
      BY <1>2, <2>1, Greatest
    <3>2. t \ {Max(t)} \in SUBSET (1..n)
      OBVIOUS
    <3>3. e[t \ {Max(t)}] \in States
      BY <1>5, <3>2
    <3> QED BY <1>4, <1>5, <2>1, <3>1, <3>3 DEF Table
  <2>2. e[{}] = Fresh
    BY <1>5 DEF Table
  <2> QED BY <1>2, <1>5, <2>1, <2>2
<1>7. PICK g : g = (CHOOSE h : Eqn(h))
  OBVIOUS
<1>8. Eqn(g)
  BY <1>6, <1>7, Zenon
<1>9. g[{}] = Fresh
  BY <1>2, <1>8
<1>10. ASSUME NEW i \in 1..n, g[1..(i - 1)] \in States PROVE g[1..i] = step[i][g[1..(i - 1)]]
  <2>1. PICK t : t = 1..i
    OBVIOUS
  <2>2. t \in SUBSET D /\ t # {} /\ Max(t) = i /\ t \ {i} = 1..(i - 1)
    BY <1>2, <2>1, FirstPlaces
  <2>3. g[t] = Instruct(g[t \ {Max(t)}], s[Max(t)])
    BY <1>8, <2>2
  <2>4. g[1..i] = Instruct(g[1..(i - 1)], s[i])
    BY <2>1, <2>2, <2>3
  <2> QED BY <1>4, <1>10, <2>4
<1>11. PICK f \in [0..n -> States] : Iter(step, Fresh, n, f) /\ g[1..n] = f[n]
  <2>1. Follows(States, step, Fresh, n, g)
    BY <1>9, <1>10 DEF Follows
  <2>2. n \in Nat
    BY <1>2
  <2> QED BY ONLY <1>3, <2>1, <2>2, Fresh \in States, FoldResult
<1>12. ASSUME NEW i \in 1..n PROVE f[i] = Instruct(f[i - 1], s[i])
  <2>1. f[i - 1] \in States
    BY <1>2, <1>11
  <2> QED BY <1>4, <1>11, <2>1 DEF Iter
<1>13. f[0] = Fresh
  BY <1>11 DEF Iter
<1> QED BY <1>1, <1>2, <1>7, <1>11, <1>12, <1>13


LEMMA SubSeqIs ==
  ASSUME NEW s, NEW m \in Nat, NEW n \in Nat, m <= n + 1
  PROVE  /\ DOMAIN SubSeq(s, m, n) = 1..(n + 1 - m)
         /\ \A i \in 1..(n + 1 - m) : SubSeq(s, m, n)[i] = s[m + i - 1]
<1>1. PICK S, q : S = {s[i] : i \in m .. n} /\ q = SubSeq(s, m, n)
  OBVIOUS
<1>2. \A i \in m .. n : s[i] \in S
  BY <1>1
<1>3. /\ q \in Seq(S) /\ Len(q) = (IF m <= n THEN n - m + 1 ELSE 0)
      /\ \A i \in 1 .. n - m + 1 : q[i] = s[m + i - 1]
  BY <1>1, <1>2, SubSeqProperties
<1>4. n - m + 1 = n + 1 - m /\ Len(q) = n + 1 - m
  BY <1>3
<1>5. DOMAIN q = 1..(n + 1 - m)
  BY <1>3, <1>4
<1> QED BY <1>1, <1>3, <1>4, <1>5

\* The enforces, and the lines before each back to the one before it.
Ends == {i \in DOMAIN ConstraintLines(source) : ConstraintLines(source)[i].cmd = "enforce"}
IsStart(e, b) == b < e /\ \A d \in Ends : d < e => d <= b
Start(e) == CHOOSE b \in {0} \cup Ends : IsStart(e, b)
BlockOf(e) == SubSeq(ConstraintLines(source), 1 + Start(e), e - 1)

LEMMA Equations ==
  ASSUME NEW v
  PROVE  EquationsHold(v) <=>
           \A e \in Ends : (SumOf(BlockOf(e), 0, v) * SumOf(BlockOf(e), 1, v) - SumOf(BlockOf(e), 2, v)) % P = 0
BY DEF EquationsHold, Ends, BlockOf, Start, IsStart

LEMMA StartIs ==
  ASSUME Loaded, NEW e \in Ends
  PROVE  /\ e \in Nat \ {0} /\ e \in 1..Len(ConstraintLines(source)) /\ Start(e) \in Nat
         /\ Start(e) < e /\ Start(e) \in {0} \cup Ends
         /\ \A d \in Ends : d < e => d <= Start(e)
<1>1. PICK m : m = Len(ConstraintLines(source))
  OBVIOUS
<1>2. m \in Nat /\ Ends \subseteq 1..m /\ e \in 1..m
  BY <1>1, ConstraintsAre DEF Ends
<1>3. PICK R : R = {d \in Ends : d < e}
  OBVIOUS
<1>4. \E b \in {0} \cup Ends : IsStart(e, b)
  <2>1. CASE R = {}
    <3>1. IsStart(e, 0)
      BY <1>2, <1>3, <2>1 DEF IsStart
    <3> QED BY <3>1
  <2>2. CASE R # {}
    <3>1. PICK b : b = Max(R)
      OBVIOUS
    <3>2. R \in SUBSET (1..m)
      BY <1>2, <1>3
    <3>3. b \in R /\ \A y \in R : b >= y
      BY <1>2, <2>2, <3>1, <3>2, Greatest
    <3>4. b \in Ends /\ b < e /\ b \in Nat
      BY <1>2, <1>3, <3>3
    <3>5. ASSUME NEW d \in Ends, d < e PROVE d <= b
      <4>1. d \in R /\ d \in Nat
        BY <1>2, <1>3, <3>5
      <4> QED BY <3>3, <3>4, <4>1
    <3> QED BY <3>4, <3>5 DEF IsStart
  <2> QED BY <2>1, <2>2
<1>5. Start(e) \in {0} \cup Ends /\ IsStart(e, Start(e))
  BY <1>4 DEF Start
<1>6. Start(e) \in Nat
  <2>1. PICK b : b = Start(e)
    OBVIOUS
  <2>2. b = 0 \/ b \in 1..m
    BY <1>2, <1>5, <2>1
  <2> QED BY <2>1, <2>2
<1> QED BY <1>1, <1>2, <1>5, <1>6 DEF IsStart

\* The instructions before an enforce.
Before(e) == FoldLeft(Instruct, Fresh, SubSeq(contract.constraints, 1, e - 1))

LEMMA SystemIs ==
  ASSUME Loaded, Filled, NEW e \in Ends, NEW k \in 0..2
  PROVE  /\ SumOf(BlockOf(e), k, Values) \in Int
         /\ Same(Value(Before(e).lc[k]), SumOf(BlockOf(e), k, Values)) /\ Before(e) \in States
<1>1. PICK C, D, m, b, n, lines, s : /\ C = ConstraintLines(source) /\ D = contract.constraints /\ m = Len(C)
                                     /\ b = Start(e) /\ n = (e - 1) - b /\ lines = BlockOf(e)
                                     /\ s = SubSeq(D, 1, e - 1)
  OBVIOUS
<1>2. /\ m \in Nat /\ DOMAIN C = 1..m /\ DOMAIN D = 1..m /\ \A i \in 1..m : Translates(C[i], D[i])
  BY <1>1, ConstraintsAre
<1>3. /\ e \in Nat \ {0} /\ e \in 1..m /\ b \in Nat /\ b < e /\ b \in {0} \cup Ends
      /\ \A d \in Ends : d < e => d <= b
  BY <1>1, StartIs
<1>4. PICK l : l = e - 1
  OBVIOUS
<1>5. l \in Nat /\ l + 1 = e /\ b <= l /\ n \in Nat /\ b + n = l /\ l <= m
  BY <1>1, <1>3, <1>4
<1>6. DOMAIN s = 1..l /\ \A i \in 1..l : s[i] = D[i]
  <2>1. s = SubSeq(D, 1, l) /\ 1 <= l + 1 /\ l + 1 - 1 = l /\ 1 \in Nat
    BY <1>1, <1>4, <1>5
  <2>2. DOMAIN s = 1..(l + 1 - 1) /\ \A i \in 1..(l + 1 - 1) : s[i] = D[1 + i - 1]
    BY ONLY <1>5, <2>1, SubSeqIs
  <2>3. \A i \in 1..l : 1 + i - 1 = i
    BY <1>5
  <2> QED BY <2>1, <2>2, <2>3
<1>7. Fresh \in States /\ \A i \in 1..l, st \in States : Instruct(st, s[i]) \in States
  <2>1. ASSUME NEW i \in 1..l, NEW st \in States PROVE Instruct(st, s[i]) \in States
    <3>1. i \in 1..m
      BY <1>2, <1>5
    <3>2. Translates(C[i], s[i])
      BY <1>2, <1>6, <3>1
    <3> QED BY <3>2, InstructType
  <2> QED BY <2>1, FreshIs
<1>8. PICK f \in [0..l -> States] :
        /\ f[0] = Fresh /\ \A i \in 1..l : f[i] = Instruct(f[i - 1], s[i])
        /\ FoldLeft(Instruct, Fresh, s) = f[l]
  BY <1>5, <1>6, <1>7, FoldInstruct
<1>9. f[b] = Fresh
  <2>1. CASE b = 0
    BY <1>8, <2>1
  <2>2. CASE b # 0
    <3>1. b \in Ends /\ b \in 1..l /\ b \in 1..m
      <4>1. b \in Ends
        BY <1>3, <2>2
      <4>2. b \in Nat /\ b <= l /\ l <= m /\ l \in Nat /\ m \in Nat /\ b # 0
        BY <1>2, <1>3, <1>5, <2>2
      <4> QED BY ONLY <4>1, <4>2
    <3>2. C[b].cmd = "enforce"
      BY <1>1, <3>1 DEF Ends
    <3>3. s[b].op = "Enforce"
      BY <1>2, <1>6, <3>1, <3>2 DEF Translates
    <3>4. f[b] = Instruct(f[b - 1], s[b])
      BY <1>8, <3>1
    <3> QED BY <3>3, <3>4 DEF Instruct
  <2> QED BY <2>1, <2>2
<1>10. DOMAIN lines = 1..n /\ \A j \in 1..n : lines[j] = C[b + j]
  <2>1. PICK a : a = 1 + b
    OBVIOUS
  <2>2. a \in Nat /\ a <= l + 1 /\ l + 1 - a = n
    <3>1. b \in Nat /\ l \in Nat /\ b <= l /\ b + n = l /\ n \in Nat
      BY <1>3, <1>5
    <3> QED BY ONLY <2>1, <3>1
  <2>3. lines = SubSeq(C, a, l)
    BY <1>1, <1>4, <2>1 DEF BlockOf
  <2>4. DOMAIN lines = 1..(l + 1 - a) /\ \A i \in 1..(l + 1 - a) : lines[i] = C[a + i - 1]
    BY ONLY <1>5, <2>2, <2>3, SubSeqIs
  <2>5. \A i \in 1..n : a + i - 1 = b + i
    BY <1>3, <1>5, <2>1
  <2> QED BY <2>2, <2>4, <2>5
<1>11. PICK h : h = [j \in 0..n |-> f[b + j]]
  OBVIOUS
<1>12. Run(lines, n, h)
  <2>1. h[0] = Fresh
    <3>1. 0 \in 0..n /\ b + 0 = b
      BY <1>3, <1>5
    <3> QED BY <1>9, <1>11, <3>1
  <2>2. ASSUME NEW j \in 1..n
        PROVE  lines[j].cmd # "enforce" /\ \E d : Translates(lines[j], d) /\ h[j] = Instruct(h[j - 1], d)
    <3>1. PICK i : i = b + j
      OBVIOUS
    <3>2. /\ i \in 1..l /\ i \in 1..m /\ i - 1 = b + (j - 1) /\ j \in 0..n /\ j - 1 \in 0..n
          /\ i < e /\ ~(i <= b) /\ i \in Nat
      <4>1. /\ b \in Nat /\ l \in Nat /\ m \in Nat /\ n \in Nat /\ b + n = l /\ l + 1 = e /\ l <= m
            /\ j \in 1..n
        BY <1>2, <1>3, <1>5
      <4> QED BY ONLY <3>1, <4>1
    <3>3. lines[j] = C[i] /\ i \notin Ends
      BY <1>3, <1>10, <3>1, <3>2
    <3>4. C[i].cmd # "enforce"
      BY <1>1, <1>2, <3>2, <3>3 DEF Ends
    <3>5. Translates(C[i], s[i])
      BY <1>2, <1>6, <3>2
    <3>6. h[j] = f[i] /\ h[j - 1] = f[i - 1]
      BY <1>11, <3>1, <3>2
    <3>7. f[i] = Instruct(f[i - 1], s[i])
      BY <1>8, <3>2
    <3> QED BY <3>3, <3>4, <3>5, <3>6, <3>7
  <2> QED BY <1>5, <1>10, <2>1, <2>2 DEF Run
<1>13. h[n] = Before(e)
  <2>1. n \in 0..n
    BY <1>5
  <2> QED BY <1>1, <1>5, <1>8, <1>11, <2>1 DEF Before
<1>14. /\ SumOf(lines, k, Values) \in Int /\ Same(Value(h[n].lc[k]), SumOf(lines, k, Values))
       /\ h[n] \in States
  BY <1>12, RunValue
<1> QED BY <1>1, <1>13, <1>14

LEMMA EvalIs ==
  ASSUME Loaded, NEW lc
  PROVE  Eval(lc) = Value(lc) % P
<1>1. DOMAIN contract.alloc = 1..Size /\ \A v \in 1..Size : contract.alloc[v].index = v
  BY AllocRead
<1>2. \A v \in 1..Size : Witness(v) = aux[v]
  BY <1>1 DEF Witness
<1>3. [v \in DOMAIN contract.alloc |-> lc[v] * Witness(v)] = Terms(lc)
  BY <1>1, <1>2 DEF Terms
<1> QED BY <1>3 DEF Eval, Value

\* One constraint of the system and one equation of the source.
LEMMA ConstraintIs ==
  ASSUME Loaded, Filled, NEW e \in Ends
  PROVE  (Eval(Before(e).lc[0]) * Eval(Before(e).lc[1])) % P = Eval(Before(e).lc[2])
           <=> (SumOf(BlockOf(e), 0, Values) * SumOf(BlockOf(e), 1, Values) - SumOf(BlockOf(e), 2, Values)) % P = 0
<1>1. PICK st : st = Before(e)
  OBVIOUS
<1>2. PICK x, y, z : x = Value(st.lc[0]) /\ y = Value(st.lc[1]) /\ z = Value(st.lc[2])
  OBVIOUS
<1>3. PICK a, b, c : a = SumOf(BlockOf(e), 0, Values) /\ b = SumOf(BlockOf(e), 1, Values) /\ c = SumOf(BlockOf(e), 2, Values)
  OBVIOUS
<1>4. \A k \in 0..2 : /\ SumOf(BlockOf(e), k, Values) \in Int
                      /\ Same(Value(st.lc[k]), SumOf(BlockOf(e), k, Values)) /\ st \in States
  BY <1>1, SystemIs
<1>5. 0 \in 0..2 /\ 1 \in 0..2 /\ 2 \in 0..2
  OBVIOUS
<1>6. a \in Int /\ b \in Int /\ c \in Int /\ Same(x, a) /\ Same(y, b) /\ Same(z, c) /\ st \in States
  BY <1>2, <1>3, <1>4, <1>5
<1>7. \A k \in 0..2 : st.lc[k] \in Combination
  BY <1>6 DEF States
<1>8. x \in Int /\ y \in Int /\ z \in Int
  BY <1>2, <1>5, <1>7, ValueType
<1>9. PICK u, v : u = x % P /\ v = y % P
  OBVIOUS
<1>10. u \in Int /\ v \in Int /\ Same(u, x) /\ Same(v, y)
  BY <1>8, <1>9, SameReduced
<1>11. Same(u, a) /\ Same(v, b)
  BY <1>6, <1>8, <1>10, SameTrans
<1>12. Same(u * v, a * b)
  BY <1>6, <1>10, <1>11, SameProducts
<1>13. u * v \in Int /\ a * b \in Int
  BY <1>6, <1>10, SMT
<1>14. (u * v) % P = (a * b) % P /\ z % P = c % P
  BY <1>6, <1>8, <1>12, <1>13, SameIs
<1>15. PICK p : p = a * b
  OBVIOUS
<1>16. (p - c) % P = 0 <=> p % P = c % P
  BY <1>6, <1>13, <1>15, SameZero
<1>17. Eval(st.lc[0]) = u /\ Eval(st.lc[1]) = v /\ Eval(st.lc[2]) = z % P
  BY <1>2, <1>9, EvalIs
<1> QED BY <1>1, <1>3, <1>14, <1>15, <1>16, <1>17

LEMMA SatisfiedIs ==
  ASSUME Loaded, Filled
  PROVE  Satisfied <=> EquationsHold(Values)
<1>1. PICK C, D, m : C = ConstraintLines(source) /\ D = contract.constraints /\ m = Len(C)
  OBVIOUS
<1>2. DOMAIN C = 1..m /\ DOMAIN D = 1..m /\ \A i \in 1..m : Translates(C[i], D[i])
  BY <1>1, ConstraintsAre
<1>3. ASSUME NEW i \in 1..m PROVE D[i].op = "Enforce" <=> C[i].cmd = "enforce"
  <2>1. PICK l, d : l = C[i] /\ d = D[i]
    OBVIOUS
  <2>2. Translates(l, d)
    BY <1>2, <2>1
  <2>3. l.cmd \in {"lc_add", "lc_sub", "lc_add_one", "lc_sub_one", "lc_add_coeff", "lc_add_constant",
                   "enforce", "lc_coeff_reset", "lc_coeff_double"}
    BY <2>2 DEF Translates, constraint_commands
  <2> QED BY <2>1, <2>2, <2>3 DEF Translates
<1>4. {j \in DOMAIN D : D[j].op = "Enforce"} = Ends
  BY <1>1, <1>2, <1>3 DEF Ends
<1>5. Synthesize = {Before(e).lc : e \in Ends}
  BY <1>1, <1>4 DEF Synthesize, Before
<1>6. Satisfied <=> \A e \in Ends : (Eval(Before(e).lc[0]) * Eval(Before(e).lc[1])) % P = Eval(Before(e).lc[2])
  BY <1>5 DEF Satisfied
<1> QED BY <1>6, ConstraintIs, Equations

----------------------------------------------------------------------------
(* The public values: in the order of the prover, of the table of names,   *)
(* and sorted.                                                             *)

PublicPlaces == {v \in 1..Size : AllocLines(source)[v].cmd = "public"}

LEMMA PublicsAre ==
  ASSUME Loaded
  PROVE  \E m \in Nat : \E e : /\ Listing(e, PublicPlaces, m) /\ DOMAIN Publics = 1..m
                               /\ \A k \in 1..m : Publics[k].index = e[k]
<1>1. PICK s, n, T, q : /\ s = contract.alloc /\ n = Size /\ T = {i \in DOMAIN s : s[i].public} /\ q = Publics
  OBVIOUS
<1>2. /\ DOMAIN s = 1..n /\ Len(s) = n /\ n \in Nat
      /\ \A v \in 1..n : s[v].index = v /\ (s[v].public <=> AllocLines(source)[v].cmd = "public")
  BY <1>1, AllocRead, AllocIs
<1>3. PICK R : R = {s[v] : v \in 1..n}
  OBVIOUS
<1>4. s \in Seq(R)
  <2>1. s = [v \in 1..n |-> s[v]]
    <3>1. contract.alloc = DecodedAlloc(Compile(source))
      BY ContractIs
    <3> QED BY <1>1, <1>2, <3>1 DEF DecodedAlloc
  <2>2. s \in [1..n -> R]
    BY <1>3, <2>1
  <2> QED BY <1>2, <2>2, FunctionIsSeq
<1>5. q = Selected(s, T)
  BY <1>1 DEF Publics
<1>6. q \in Seq(R) /\ Picks(s, T, n, q)
  BY <1>2, <1>4, <1>5, SelectedPlaces
<1>7. PICK m : m = Len(q)
  OBVIOUS
<1>8. m \in Nat /\ DOMAIN q = 1..m
  BY <1>6, <1>7
<1>9. {i \in 1..n : i \in T} = PublicPlaces
  BY <1>1, <1>2 DEF PublicPlaces
<1>10. PICK e : Listing(e, PublicPlaces, m) /\ \A k \in 1..m : q[k] = s[e[k]]
  BY <1>6, <1>7, <1>9 DEF Picks
<1>11. \A k \in 1..m : e[k] \in 1..n
  BY <1>1, <1>10 DEF Listing, PublicPlaces
<1>12. \A k \in 1..m : q[k].index = e[k]
  BY <1>2, <1>10, <1>11
<1> QED BY <1>1, <1>8, <1>10, <1>12

LEMMA MapIs ==
  ASSUME Loaded, NEW C, NEW T, T = {v \in 1..Size : AllocLines(source)[v].cmd \in C},
         NEW f, f = Map(Named(AllocLines(source), C))
  PROVE  DOMAIN f = {Name(v) : v \in T} /\ \A v \in T : f[Name(v)] = v
<1>1. PICK n, R : n = Size /\ R = {[symbol |-> Name(v), index |-> v] : v \in T}
  OBVIOUS
<1>2. DOMAIN AllocLines(source) = 1..n /\ \A i, j \in 1..n : Name(i) = Name(j) => i = j
  BY <1>1, AllocIs
<1>3. Named(AllocLines(source), C) = R
  BY <1>1, <1>2 DEF Named, Name
<1>4. f = [s \in {p.symbol : p \in R} |-> (CHOOSE p \in R : p.symbol = s).index]
  BY <1>3 DEF Map
<1>5. {p.symbol : p \in R} = {Name(v) : v \in T}
  <2>1. ASSUME NEW p \in R PROVE \E v \in T : p.symbol = Name(v)
    BY <1>1
  <2>2. ASSUME NEW v \in T PROVE \E p \in R : p.symbol = Name(v)
    <3>1. PICK p : p = [symbol |-> Name(v), index |-> v]
      OBVIOUS
    <3>2. p \in R /\ p.symbol = Name(v)
      BY <1>1, <3>1
    <3> QED BY <3>2
  <2> QED BY <2>1, <2>2
<1>6. ASSUME NEW v \in T PROVE f[Name(v)] = v
  <2>1. PICK p : p = (CHOOSE r \in R : r.symbol = Name(v))
    OBVIOUS
  <2>2. \E r \in R : r.symbol = Name(v)
    <3>1. PICK r : r = [symbol |-> Name(v), index |-> v]
      OBVIOUS
    <3>2. r \in R /\ r.symbol = Name(v)
      BY <1>1, <3>1
    <3> QED BY <3>2
  <2>3. p \in R /\ p.symbol = Name(v)
    BY <2>1, <2>2
  <2>4. PICK u \in T : p = [symbol |-> Name(u), index |-> u]
    BY <1>1, <2>3
  <2>5. Name(u) = Name(v) /\ p.index = u
    BY <2>3, <2>4
  <2>6. u = v
    BY <1>1, <1>2, <2>5
  <2> QED BY <1>4, <1>5, <2>1, <2>5, <2>6
<1> QED BY <1>4, <1>5, <1>6

LEMMA PublicMapIs ==
  ASSUME Loaded
  PROVE  /\ DOMAIN contract.public_map = {Name(v) : v \in PublicPlaces}
         /\ \A v \in PublicPlaces : contract.public_map[Name(v)] = v
<1>1. PICK c, f, C : c = Compile(source) /\ f = contract.public_map /\ C = {"public"}
  OBVIOUS
<1>2. c.alloc = AllocLines(source)
  BY <1>1 DEF Compile
<1>3. f = Map(Named(AllocLines(source), C))
  BY <1>1, <1>2, ContractIs
<1>4. PICK U : U = PublicPlaces
  OBVIOUS
<1>5. U = {v \in 1..Size : AllocLines(source)[v].cmd \in C}
  BY <1>1, <1>4 DEF PublicPlaces
<1>6. DOMAIN f = {Name(v) : v \in U} /\ \A v \in U : f[Name(v)] = v
  BY ONLY Loaded, <1>3, <1>5, MapIs
<1> QED BY <1>1, <1>4, <1>6

\* What a finished proof says of the public values.
Public(v) == [index |-> v, value |-> aux[v]]
Published(public) ==
  /\ DOMAIN public = {Name(v) : v \in PublicPlaces}
  /\ \A v \in PublicPlaces : public[Name(v)] = aux[v]

LEMMA SortedIs ==
  ASSUME Loaded, NEW public, Published(public), NEW names \in SetToSeqs(DOMAIN public), NEW pairs,
         pairs = [i \in DOMAIN names |-> [index |-> contract.public_map[names[i]], value |-> public[names[i]]]]
  PROVE  /\ \A i \in DOMAIN names : names[i] \in DOMAIN contract.public_map
         /\ [i \in DOMAIN InOrder(pairs) |-> InOrder(pairs)[i].value]
              = [i \in DOMAIN Publics |-> aux[Publics[i].index]]
<1>1. PICK U, S, R, sorted : /\ U = PublicPlaces /\ S = {Name(v) : v \in U} /\ R = {Public(v) : v \in U}
                             /\ sorted = InOrder(pairs)
  OBVIOUS
<1>2. /\ DOMAIN public = S /\ \A v \in U : public[Name(v)] = aux[v]
      /\ DOMAIN contract.public_map = S /\ \A v \in U : contract.public_map[Name(v)] = v
  BY <1>1, PublicMapIs DEF Published
<1>3. \A v \in U : v \in Nat
  BY <1>1, AllocIs DEF PublicPlaces
<1>30. PICK m \in Nat : \E e : Listing(e, U, m) /\ DOMAIN Publics = 1..m /\ \A k \in 1..m : Publics[k].index = e[k]
  BY <1>1, PublicsAre
<1>4. PICK e : Listing(e, U, m) /\ DOMAIN Publics = 1..m /\ \A k \in 1..m : Publics[k].index = e[k]
  BY <1>30
<1>5. /\ e \in [1..m -> U] /\ \A j, k \in 1..m : j < k => e[j] < e[k]
      /\ \A x \in U : \E k \in 1..m : e[k] = x
  BY <1>4 DEF Listing
<1>6. \A j, k \in 1..m : j # k => e[j] # e[k]
  <2>1. ASSUME NEW j \in 1..m, NEW k \in 1..m, j < k PROVE e[j] # e[k]
    <3>1. e[j] < e[k] /\ e[j] \in Nat /\ e[k] \in Nat
      BY <1>3, <1>5, <2>1
    <3> QED BY <3>1
  <2>2. \A j, k \in 1..m : j # k => j < k \/ k < j
    OBVIOUS
  <2> QED BY <2>1, <2>2
<1>7. \A u, v \in U : Name(u) = Name(v) => u = v
  BY <1>1, AllocIs DEF PublicPlaces
<1>8. IsFiniteSet(S)
  <2>1. PICK g : g = [k \in 1..m |-> Name(e[k])]
    OBVIOUS
  <2>2. g \in [1..m -> S] /\ \A k \in 1..m : g[k] = Name(e[k])
    BY <1>1, <1>5, <2>1
  <2>3. \A j, k \in 1..m : j # k => g[j] # g[k]
    BY <1>5, <1>6, <1>7, <2>2
  <2>4. \A x \in S : \E k \in 1..m : g[k] = x
    BY <1>1, <1>5, <2>2
  <2> QED BY <2>2, <2>3, <2>4, ListingSize
<1>9. /\ \A i \in DOMAIN names : names[i] \in S
      /\ \A x \in S : \E i \in DOMAIN names : names[i] = x
  <2>1. names \in SetToSeqs(S)
    BY <1>2
  <2> QED BY <1>8, <2>1, SeqsAre
<1>10. \A v \in U : Public(v).index = v /\ Public(v).value = aux[v]
  BY DEF Public
<1>11. Range(pairs) = R
  <2>1. ASSUME NEW i \in DOMAIN names PROVE \E v \in U : names[i] = Name(v) /\ pairs[i] = Public(v)
    <3>1. PICK v \in U : names[i] = Name(v)
      BY <1>1, <1>9
    <3>2. contract.public_map[names[i]] = v /\ public[names[i]] = aux[v]
      BY <1>2, <3>1
    <3> QED BY <3>1, <3>2 DEF Public
  <2>2. DOMAIN pairs = DOMAIN names
    OBVIOUS
  <2>3. ASSUME NEW v \in U PROVE \E i \in DOMAIN pairs : pairs[i] = Public(v)
    <3>1. PICK i \in DOMAIN names : names[i] = Name(v)
      BY <1>1, <1>9
    <3> QED BY <1>7, <2>1, <2>2, <3>1
  <2> QED BY ONLY <1>1, <2>1, <2>2, <2>3 DEF Range
<1>12. PICK g : g = [k \in 1..m |-> Public(e[k])]
  OBVIOUS
<1>13. g \in [1..m -> R] /\ \A k \in 1..m : g[k] = Public(e[k]) /\ g[k].index = e[k]
  BY <1>1, <1>5, <1>10, <1>12
<1>14. \A j, k \in 1..m : j # k => g[j] # g[k]
  BY <1>6, <1>13
<1>15. \A x \in R : \E k \in 1..m : g[k] = x
  BY <1>1, <1>5, <1>13
<1>16. IsFiniteSet(R) /\ Cardinality(R) = m
  BY <1>13, <1>14, <1>15, ListingSize
<1> DEFINE Increasing(s) == \A i, j \in DOMAIN s : i < j => s[i].index < s[j].index
<1>17. g \in SetToSeqs(R) /\ Increasing(g)
  BY <1>5, <1>13, <1>14, <1>16 DEF SetToSeqs
<1>18. sorted = CHOOSE s \in SetToSeqs(R) : Increasing(s)
  BY <1>1, <1>11 DEF InOrder
<1> HIDE DEF Increasing
<1>19. sorted \in SetToSeqs(R) /\ Increasing(sorted)
  BY <1>17, <1>18
<1>20. /\ sorted \in [1..m -> R] /\ DOMAIN sorted = 1..m
       /\ \A x \in R : \E i \in 1..m : sorted[i] = x
  BY <1>16, <1>19, SeqsAre
<1>21. PICK d : d = [k \in 1..m |-> sorted[k].index]
  OBVIOUS
<1>22. \A k \in 1..m : d[k] \in U /\ sorted[k] = Public(d[k])
  BY <1>1, <1>10, <1>20, <1>21
<1>23. Listing(d, U, m)
  <2>1. d \in [1..m -> U]
    BY <1>21, <1>22
  <2>2. \A j, k \in 1..m : j < k => d[j] < d[k]
    BY <1>19, <1>20, <1>21 DEF Increasing
  <2>3. ASSUME NEW x \in U PROVE \E k \in 1..m : d[k] = x
    <3>1. PICK k \in 1..m : sorted[k] = Public(x)
      BY <1>1, <1>20
    <3> QED BY <1>10, <1>21, <3>1
  <2> QED BY <2>1, <2>2, <2>3 DEF Listing
<1>24. \A k \in 1..m : d[k] = e[k]
  <2>1. U \in SUBSET Nat /\ m \in Nat
    BY <1>3
  <2>2. Listing(e, U, m)
    BY <1>4
  <2> QED BY ONLY <1>23, <2>1, <2>2, ListingOnly
<1>25. \A k \in 1..m : sorted[k].value = aux[Publics[k].index]
  BY <1>4, <1>5, <1>10, <1>22, <1>24
<1>26. [i \in DOMAIN sorted |-> sorted[i].value] = [i \in DOMAIN Publics |-> aux[Publics[i].index]]
  BY <1>4, <1>20, <1>25
<1> QED BY <1>1, <1>2, <1>9, <1>26

----------------------------------------------------------------------------
(* The local names: LocalVars of the compiler, line by line.               *)

VarStep(table, line) == IF line.cmd = "local" THEN Declare(table, line.args[1]) ELSE table
Tables(N) == UNION {[D -> Nat] : D \in SUBSET N}

LEMMA DeclareIs ==
  ASSUME NEW N, IsFiniteSet(N), NEW table \in Tables(N), NEW symbol \in N
  PROVE  /\ Declare(table, symbol) \in Tables(N) /\ Cardinality(DOMAIN table) \in Nat
         /\ DOMAIN Declare(table, symbol) = DOMAIN table \cup {symbol}
         /\ Declare(table, symbol)[symbol] = Cardinality(DOMAIN table) + 1
         /\ \A s \in DOMAIN table : s # symbol => Declare(table, symbol)[s] = table[s]
<1>1. PICK D \in SUBSET N : table \in [D -> Nat]
  BY DEF Tables
<1>2. Cardinality(D) \in Nat
  <2>1. IsFiniteSet(D)
    BY <1>1, FS_Subset
  <2> QED BY <2>1, FS_CardinalityType
<1>3. PICK n, E, d : n = Cardinality(D) + 1 /\ E = D \cup {symbol} /\ d = Declare(table, symbol)
  OBVIOUS
<1>4. d = [s \in E |-> IF s = symbol THEN n ELSE table[s]]
  BY <1>1, <1>3 DEF Declare
<1>5. d \in [E -> Nat] /\ E \in SUBSET N
  BY <1>1, <1>2, <1>3, <1>4
<1> QED BY <1>1, <1>2, <1>3, <1>4, <1>5 DEF Tables

LEMMA FoldVars ==
  ASSUME NEW n \in Nat, NEW s, DOMAIN s = 1..n, NEW N, IsFiniteSet(N),
         \A i \in 1..n : s[i].cmd = "local" => s[i].args[1] \in N
  PROVE  \E f \in [0..n -> Tables(N)] :
           /\ f[0] = <<>> /\ \A i \in 1..n : f[i] = VarStep(f[i - 1], s[i])
           /\ LocalVars(s) = f[n]
<1> DEFINE D == DOMAIN s
           S == Tables(N)
           step == [i \in 1..n |-> [x \in S |-> VarStep(x, s[i])]]
           Eqn(g) == g = [t \in SUBSET D |->
                            IF t = {} THEN <<>> ELSE VarStep(g[t \ {Max(t)}], s[Max(t)])]
<1>1. LocalVars(s) = (CHOOSE g : Eqn(g))[D]
  BY DEF LocalVars, VarStep, FoldLeft, MapThenFoldSet
<1>2. D = 1..n
  OBVIOUS
<1>3. \A i \in 1..n, x \in S : VarStep(x, s[i]) \in S
  BY DeclareIs DEF VarStep
<1>4. step \in [1..n -> [S -> S]]
  BY <1>3
<1>5. \A i \in 1..n, x \in S : step[i][x] = VarStep(x, s[i])
  OBVIOUS
<1>6. <<>> \in S
  <2>1. <<>> \in [{} -> Nat] /\ {} \in SUBSET N
    OBVIOUS
  <2> QED BY <2>1 DEF Tables
<1> HIDE DEF step, D, S
<1>7. PICK e \in [SUBSET (1..n) -> S] : Table(step, <<>>, n, e)
  BY <1>2, <1>4, <1>6, TableExists
<1>8. Eqn(e)
  <2>1. ASSUME NEW t \in SUBSET (1..n), t # {} PROVE e[t] = VarStep(e[t \ {Max(t)}], s[Max(t)])
    <3>1. Max(t) \in 1..n
      BY <1>2, <2>1, Greatest
    <3>2. t \ {Max(t)} \in SUBSET (1..n)
      OBVIOUS
    <3>3. e[t \ {Max(t)}] \in S
      BY <1>7, <3>2
    <3> QED BY <1>5, <1>7, <2>1, <3>1, <3>3 DEF Table
  <2>2. e[{}] = <<>>
    BY <1>7 DEF Table
  <2> QED BY <1>2, <1>7, <2>1, <2>2
<1>9. PICK g : g = (CHOOSE h : Eqn(h))
  OBVIOUS
<1>10. Eqn(g)
  BY <1>8, <1>9, Zenon
<1>11. g[{}] = <<>>
  BY <1>2, <1>10
<1>12. ASSUME NEW i \in 1..n, g[1..(i - 1)] \in S PROVE g[1..i] = step[i][g[1..(i - 1)]]
  <2>1. PICK t : t = 1..i
    OBVIOUS
  <2>2. t \in SUBSET D /\ t # {} /\ Max(t) = i /\ t \ {i} = 1..(i - 1)
    BY <1>2, <2>1, FirstPlaces
  <2>3. g[t] = VarStep(g[t \ {Max(t)}], s[Max(t)])
    BY <1>10, <2>2
  <2>4. g[1..i] = VarStep(g[1..(i - 1)], s[i])
    BY <2>1, <2>2, <2>3
  <2> QED BY <1>5, <1>12, <2>4
<1>13. PICK f \in [0..n -> S] : Iter(step, <<>>, n, f) /\ g[1..n] = f[n]
  <2>1. Follows(S, step, <<>>, n, g)
    BY <1>11, <1>12 DEF Follows
  <2>2. n \in Nat
    BY <1>2
  <2> QED BY ONLY <1>4, <2>1, <2>2, <1>6, FoldResult
<1>14. ASSUME NEW i \in 1..n PROVE f[i] = VarStep(f[i - 1], s[i])
  <2>1. f[i - 1] \in S
    BY <1>2, <1>13
  <2> QED BY <1>5, <1>13, <2>1 DEF Iter
<1>15. f[0] = <<>>
  BY <1>13 DEF Iter
<1> QED BY <1>1, <1>2, <1>9, <1>13, <1>14, <1>15 DEF S

\* A run of the compiler over the first n lines.
Declaring(s, n, f) == f[0] = <<>> /\ \A i \in 1..n : f[i] = VarStep(f[i - 1], s[i])

LEMMA DeclaringOnly ==
  ASSUME NEW n \in Nat, NEW s, NEW t, NEW f, NEW g, Declaring(s, n, f), Declaring(t, n, g),
         \A i \in 1..n : s[i] = t[i]
  PROVE  f[n] = g[n]
<1> DEFINE T == {i \in Nat : i <= n => f[i] = g[i]}
<1>1. 0 \in T
  BY DEF Declaring
<1>2. ASSUME NEW i \in Nat, i \in T PROVE i + 1 \in T
  <2>1. SUFFICES ASSUME i + 1 <= n PROVE f[i + 1] = g[i + 1]
    OBVIOUS
  <2>2. PICK j : j = i + 1
    OBVIOUS
  <2>3. j \in 1..n /\ j - 1 = i /\ f[i] = g[i]
    BY <1>2, <2>1, <2>2
  <2>4. f[j] = VarStep(f[i], s[j]) /\ g[j] = VarStep(g[i], t[j])
    BY <2>3 DEF Declaring
  <2> QED BY <2>2, <2>3, <2>4
<1>3. n \in T
  <2> HIDE DEF T
  <2> QED BY <1>1, <1>2, Induct
<1> QED BY <1>3

\* The first operations of the source, and how many there are.
Count == Len(OpLines(source))
First(i) == SubSeq(OpLines(source), 1, i)
VarsAt(i) == LocalVars(First(i))

LEMMA FirstIs ==
  ASSUME Loaded
  PROVE  /\ Count \in Nat /\ DOMAIN OpLines(source) = 1..Count
         /\ \A i \in 0..Count : DOMAIN First(i) = 1..i /\ \A k \in 1..i : First(i)[k] = OpLines(source)[k]
         /\ \A k \in 1..Count : IsLineOf(OpLines(source)[k], DOMAIN op_commands)
<1>1. PICK s, n : s = OpLines(source) /\ n = Count
  OBVIOUS
<1>2. s \in Seq(Range(source)) /\ \A k \in 1..Len(s) : IsLineOf(s[k], DOMAIN op_commands)
  BY <1>1, LinesAre DEF AreLines
<1>3. n \in Nat /\ DOMAIN s = 1..n /\ n = Len(s)
  BY <1>1, <1>2 DEF Count
<1>4. ASSUME NEW i \in 0..n
      PROVE  DOMAIN First(i) = 1..i /\ \A k \in 1..i : First(i)[k] = s[k]
  <2>1. 1 \in Nat /\ i \in Nat /\ 1 <= i + 1 /\ i + 1 - 1 = i
    BY <1>3
  <2>2. PICK q : q = SubSeq(s, 1, i)
    OBVIOUS
  <2>3. DOMAIN q = 1..(i + 1 - 1) /\ \A k \in 1..(i + 1 - 1) : q[k] = s[1 + k - 1]
    BY ONLY <2>1, <2>2, SubSeqIs
  <2>4. \A k \in 1..i : 1 + k - 1 = k
    BY <2>1
  <2> QED BY <1>1, <2>1, <2>2, <2>3, <2>4 DEF First
<1> QED BY <1>1, <1>2, <1>3, <1>4

Symbols == {OpLines(source)[i].args[1] : i \in 1..Count}

LEMMA VarsAre ==
  ASSUME Loaded
  PROVE  /\ VarsAt(0) = <<>>
         /\ \A i \in 1..Count : VarsAt(i) = VarStep(VarsAt(i - 1), OpLines(source)[i])
         /\ \A i \in 0..Count : VarsAt(i) \in Tables(Symbols)
         /\ IsFiniteSet(Symbols)
<1>1. PICK s, n, N : s = OpLines(source) /\ n = Count /\ N = Symbols
  OBVIOUS
<1>2. /\ n \in Nat /\ DOMAIN s = 1..n
      /\ \A i \in 0..n : DOMAIN First(i) = 1..i /\ \A k \in 1..i : First(i)[k] = s[k]
  BY <1>1, FirstIs
<1>3. N = {s[i].args[1] : i \in 1..n}
  BY <1>1 DEF Symbols
<1>4. IsFiniteSet(N)
  <2>1. PICK g : g = [i \in 1..n |-> s[i].args[1]]
    OBVIOUS
  <2>2. g \in Surjection(1..n, N)
    BY <1>3, <2>1 DEF Surjection
  <2>3. IsFiniteSet(1..n)
    <3>1. 1 \in Int /\ n \in Int
      BY <1>2
    <3> QED BY <3>1, FS_Interval
  <2> QED BY <2>2, <2>3, FS_Surjection
<1>5. ASSUME NEW i \in 0..n
      PROVE  \E f \in [0..i -> Tables(N)] : Declaring(s, i, f) /\ VarsAt(i) = f[i]
  <2>1. PICK q : q = First(i)
    OBVIOUS
  <2>2. i \in Nat /\ DOMAIN q = 1..i /\ \A k \in 1..i : q[k] = s[k] /\ k \in 1..n
    BY <1>2, <2>1
  <2>3. \A k \in 1..i : q[k].cmd = "local" => q[k].args[1] \in N
    BY <1>3, <2>2
  <2>4. PICK f \in [0..i -> Tables(N)] :
          /\ f[0] = <<>> /\ \A k \in 1..i : f[k] = VarStep(f[k - 1], q[k])
          /\ LocalVars(q) = f[i]
    BY ONLY <1>4, <2>2, <2>3, FoldVars
  <2>5. Declaring(s, i, f)
    BY <2>2, <2>4 DEF Declaring
  <2> QED BY <2>1, <2>4, <2>5 DEF VarsAt
<1>6. VarsAt(0) = <<>>
  <2>1. 0 \in 0..n
    BY <1>2
  <2> QED BY <1>5, <2>1 DEF Declaring
<1>7. ASSUME NEW i \in 0..n PROVE VarsAt(i) \in Tables(N)
  <2>1. i \in 0..i
    BY <1>2
  <2> QED BY <1>5, <2>1
<1>8. ASSUME NEW i \in 1..n PROVE VarsAt(i) = VarStep(VarsAt(i - 1), s[i])
  <2>1. PICK j : j = i - 1
    OBVIOUS
  <2>2. j \in Nat /\ j \in 0..n /\ i \in 0..n /\ i \in 1..i /\ \A k \in 1..j : k \in 1..i
    BY <1>2, <2>1
  <2>3. PICK f : Declaring(s, i, f) /\ VarsAt(i) = f[i]
    BY <1>5, <2>2
  <2>4. PICK g : Declaring(s, j, g) /\ VarsAt(j) = g[j]
    BY <1>5, <2>2
  <2>5. f[i] = VarStep(f[i - 1], s[i]) /\ Declaring(s, j, f)
    BY <2>2, <2>3 DEF Declaring
  <2>6. f[j] = g[j]
    BY <2>2, <2>4, <2>5, DeclaringOnly
  <2> QED BY <2>1, <2>3, <2>4, <2>5, <2>6
<1> QED BY <1>1, <1>4, <1>6, <1>7, <1>8

----------------------------------------------------------------------------
(* The operations that the machine runs.                                   *)

Op(cmd) == CryptoOperations[ops_table[cmd] + 1]

LEMMA OpNames ==
  /\ Op("set") = "Set" /\ Op("mul") = "Mul" /\ Op("add") = "Add" /\ Op("sub") = "Sub"
  /\ Op("divide") = "Divide" /\ Op("double") = "Double" /\ Op("square") = "Square"
  /\ Op("invert") = "Invert" /\ Op("unpack_bits") = "UnpackBits" /\ Op("local") = "Local"
  /\ Op("load") = "Load" /\ Op("debug") = "Debug" /\ Op("dump_alloc") = "DumpAlloc"
  /\ Op("dump_local") = "DumpLocal"
<1>1. /\ ops_table["set"] = 0 /\ ops_table["mul"] = 1 /\ ops_table["add"] = 2 /\ ops_table["sub"] = 3
      /\ ops_table["divide"] = 4 /\ ops_table["double"] = 5 /\ ops_table["square"] = 6
      /\ ops_table["invert"] = 7 /\ ops_table["unpack_bits"] = 8 /\ ops_table["local"] = 9
      /\ ops_table["load"] = 10 /\ ops_table["debug"] = 11 /\ ops_table["dump_alloc"] = 12
      /\ ops_table["dump_local"] = 13
  BY DEF ops_table
<1>2. PICK c : c = CryptoOperations
  OBVIOUS
<1>3. /\ c[0 + 1] = "Set" /\ c[1 + 1] = "Mul" /\ c[2 + 1] = "Add" /\ c[3 + 1] = "Sub" /\ c[4 + 1] = "Divide"
      /\ c[5 + 1] = "Double" /\ c[6 + 1] = "Square" /\ c[7 + 1] = "Invert" /\ c[8 + 1] = "UnpackBits"
      /\ c[9 + 1] = "Local" /\ c[10 + 1] = "Load" /\ c[11 + 1] = "Debug" /\ c[12 + 1] = "DumpAlloc"
      /\ c[13 + 1] = "DumpLocal"
  BY <1>2 DEF CryptoOperations
<1>4. PICK t : t = ops_table
  OBVIOUS
<1>5. /\ c[t["set"] + 1] = "Set" /\ c[t["mul"] + 1] = "Mul" /\ c[t["add"] + 1] = "Add"
      /\ c[t["sub"] + 1] = "Sub" /\ c[t["divide"] + 1] = "Divide" /\ c[t["double"] + 1] = "Double"
      /\ c[t["square"] + 1] = "Square" /\ c[t["invert"] + 1] = "Invert"
      /\ c[t["unpack_bits"] + 1] = "UnpackBits" /\ c[t["local"] + 1] = "Local"
      /\ c[t["load"] + 1] = "Load" /\ c[t["debug"] + 1] = "Debug"
      /\ c[t["dump_alloc"] + 1] = "DumpAlloc" /\ c[t["dump_local"] + 1] = "DumpLocal"
  BY ONLY <1>1, <1>3, <1>4
<1> QED BY ONLY <1>2, <1>4, <1>5 DEF Op

\* A reference to a variable where table are the local names.
IsRef(ref) == ref.mem \in {"aux", "local"} /\ ref.index \in Nat
RefIs(s, ref, table) ==
  \/ IsAllocated(s) /\ ref.mem = "aux" /\ ref.index = Place(s)
  \/ ~IsAllocated(s) /\ s \in DOMAIN table /\ ref.mem = "local" /\ ref.index = table[s]

IsVariable(s, table) == IsAllocated(s) \/ s \in DOMAIN table

\* What the operation has to be for the line l.
OpIs(l, op, table) ==
  /\ l.cmd \in DOMAIN op_commands /\ op.op = Op(l.cmd)
  /\ l.cmd = "local" => op.args = <<>>
  /\ l.cmd # "local" =>
       /\ DOMAIN op.args = 1..op_commands[l.cmd]
       /\ \A k \in 1..op_commands[l.cmd] : IsRef(op.args[k])
       /\ \A k \in 1..op_commands[l.cmd] :
            IF l.cmd = "load" /\ k = 2
            THEN l.args[k] \in ConstantSymbols /\ op.args[k].index = ConstantIndex(l.args[k])
            ELSE (l.cmd = "load" => IsVariable(l.args[k], table)) => RefIs(l.args[k], op.args[k], table)

\* A symbol of an operation, and what the compiler makes of it.
LEMMA RefsAre ==
  ASSUME Loaded, NEW N, NEW table \in Tables(N), NEW symbol, NEW ref,
         ref = VariableRef(symbol, AllocLines(source), table), ref.mem # "missing"
  PROVE  /\ ref.index \in Nat
         /\ ref.mem \in {"aux", "local", "const"}
         /\ ref.mem = "const" => symbol \in ConstantSymbols /\ ref.index = ConstantIndex(symbol) /\ ~IsVariable(symbol, table)
         /\ ref.mem # "const" => RefIs(symbol, ref, table)
<1>1. PICK n, c : n = Place(symbol) /\ c = ConstantIndex(symbol)
  OBVIOUS
<1>2. IsAllocated(symbol) => n \in Nat
  BY <1>1, PlaceIs, AllocIs
<1>3. symbol \in DOMAIN table => table[symbol] \in Nat
  BY DEF Tables
<1>4. symbol \in ConstantSymbols => c \in Nat
  <2>1. SUFFICES ASSUME symbol \in ConstantSymbols PROVE c \in Nat
    OBVIOUS
  <2>2. PICK i \in 1..Len(Constants) : symbol = Constants[i].symbol
    BY <2>1, ConstantLines DEF ConstantSymbols
  <2>3. c = i
    BY <1>1, <2>2, ConstantIs DEF Loaded
  <2> QED BY <2>3
<1>5. ref = IF IsAllocated(symbol) THEN [mem |-> "aux", index |-> n]
            ELSE IF symbol \in DOMAIN table THEN [mem |-> "local", index |-> table[symbol]]
            ELSE IF symbol \in ConstantSymbols THEN [mem |-> "const", index |-> c]
            ELSE [mem |-> "missing", index |-> 0]
  BY <1>1 DEF VariableRef, IsAllocated, Place
<1> QED BY <1>1, <1>2, <1>3, <1>4, <1>5 DEF RefIs, IsVariable

LEMMA OpsAre ==
  ASSUME Loaded
  PROVE  /\ DOMAIN contract.ops = 1..Count /\ Len(contract.ops) = Count
         /\ \A i \in 1..Count : OpIs(OpLines(source)[i], contract.ops[i], VarsAt(i - 1))
<1>1. PICK A, s, c, n, o, D : /\ A = AllocLines(source) /\ s = OpLines(source) /\ c = Compile(source) /\ n = Count
                              /\ o = c.ops /\ D = contract.ops
  OBVIOUS
<1>2. n \in Nat /\ DOMAIN s = 1..n /\ \A k \in 1..n : IsLineOf(s[k], DOMAIN op_commands)
  BY <1>1, FirstIs
<1>3. o = [i \in 1..n |-> CompileOp(s, i, A)]
  BY <1>1, <1>2 DEF Compile
<1>4. \A i \in 1..n : OpCompiles(o[i])
  BY <1>1, <1>3 DEF Loaded, Compiles
<1>5. D = DecodedOps(c)
  BY <1>1, ContractIs
<1>6. DOMAIN D = 1..n
  BY <1>1, <1>3, <1>5 DEF DecodedOps
<1>7. Len(D) = n
  <2>1. PICK R : R = {D[i] : i \in 1..n}
    OBVIOUS
  <2>2. D = [i \in 1..n |-> D[i]]
    BY <1>1, <1>3, <1>5 DEF DecodedOps
  <2>3. D \in [1..n -> R]
    BY <2>1, <2>2
  <2> QED BY <1>2, <2>3, FunctionIsSeq
<1>8. ASSUME NEW i \in 1..n PROVE OpIs(s[i], D[i], VarsAt(i - 1))
  <2>1. PICK l, d, r, table, a, C : /\ l = s[i] /\ d = D[i] /\ r = o[i] /\ table = VarsAt(i - 1)
                                    /\ a = r.args /\ C = op_commands[l.cmd]
    OBVIOUS
  <2>2. /\ l.cmd \in DOMAIN op_commands /\ Len(l.args) = Arity(l) /\ l.args \in Seq(Range(l.args))
    BY <1>2, <2>1 DEF IsLineOf
  <2>3. /\ l.cmd \in {"set", "mul", "add", "sub", "divide", "double", "square", "invert", "unpack_bits", "load",
                      "local", "debug", "dump_alloc", "dump_local"}
    BY <2>2 DEF op_commands
  <2>4. Arity(l) = C
    BY <2>1, <2>3 DEF Arity, alloc_commands, op_commands
  <2>5. DOMAIN l.args = 1..C
    BY <2>2, <2>4
  <2>6. r = [cmd |-> l.cmd, args |-> IF l.cmd = "local" THEN <<>> ELSE Refs(l, A, table)]
    BY <1>1, <1>3, <2>1 DEF CompileOp, VarsAt, First
  <2>7. r.cmd = l.cmd /\ a = IF l.cmd = "local" THEN <<>> ELSE Refs(l, A, table)
    BY <2>1, <2>6
  <2>8. d.op = Op(l.cmd)
    <3>1. DOMAIN o = 1..n
      BY <1>3
    <3>2. d.op = CryptoOperations[ops_table[o[i].cmd] + 1]
      BY <1>1, <1>5, <2>1, <3>1 DEF DecodedOps
    <3> QED BY <2>1, <2>7, <3>2 DEF Op
  <2>9. d.args = [k \in DOMAIN a |-> [mem |-> IF ArgMem(o, i, k) = "local" THEN "local" ELSE "aux", index |-> a[k].index]]
    <3>1. DOMAIN o = 1..n
      BY <1>3
    <3> QED BY <1>1, <1>5, <2>1, <3>1 DEF DecodedOps
  <2>10. ASSUME l.cmd = "local" PROVE d.args = <<>>
    <3>1. DOMAIN a = {}
      BY <2>7, <2>10
    <3> QED BY <2>9, <3>1
  <2>11. ASSUME l.cmd # "local"
         PROVE  /\ DOMAIN d.args = 1..C
                /\ \A k \in 1..C : IsRef(d.args[k])
                /\ \A k \in 1..C :
                     IF l.cmd = "load" /\ k = 2
                     THEN l.args[k] \in ConstantSymbols /\ d.args[k].index = ConstantIndex(l.args[k])
                     ELSE (l.cmd = "load" => IsVariable(l.args[k], table)) => RefIs(l.args[k], d.args[k], table)
    <3>1. DOMAIN a = 1..C /\ \A k \in 1..C : a[k] = VariableRef(l.args[k], A, table)
      BY <2>5, <2>7, <2>11 DEF Refs
    <3>2. DOMAIN d.args = 1..C
      BY <2>9, <3>1
    <3>3. OpCompiles(r)
      BY <1>4, <2>1
    <3>4. \A k \in 1..C : a[k].mem # "missing"
      BY <2>1, <3>1, <3>3 DEF OpCompiles, Mems
    <3>5. /\ l.cmd = "load" => a[2].mem = "const"
          /\ l.cmd # "load" => \A k \in 1..C : a[k].mem # "const"
      <4>1. l.cmd = "load" => a[2].mem = "const"
        BY <2>1, <2>7, <3>3 DEF OpCompiles
      <4>2. ASSUME l.cmd # "load", NEW k \in 1..C PROVE a[k].mem # "const"
        <5>1. "const" \notin Mems(a)
          BY <2>1, <2>7, <3>3, <4>2 DEF OpCompiles
        <5> QED BY <3>1, <5>1 DEF Mems
      <4> QED BY <4>1, <4>2
    <3>6. \A k \in 1..C : ~(k = 1 /\ l.cmd = "load" /\ a[1].mem = "const") => ArgMem(o, i, k) = a[k].mem
      BY <2>1, <2>7 DEF ArgMem, LoadsConstant
    <3>7. l.cmd = "load" => C = 2
      BY <2>1 DEF op_commands
    <3>8. ASSUME NEW k \in 1..C
          PROVE  /\ IsRef(d.args[k])
                 /\ IF l.cmd = "load" /\ k = 2
                    THEN l.args[k] \in ConstantSymbols /\ d.args[k].index = ConstantIndex(l.args[k])
                    ELSE (l.cmd = "load" => IsVariable(l.args[k], table)) => RefIs(l.args[k], d.args[k], table)
      <4>1. PICK x, ref, m : x = l.args[k] /\ ref = a[k] /\ m = d.args[k]
        OBVIOUS
      <4>2. ref = VariableRef(x, A, table) /\ ref.mem # "missing"
        BY <3>1, <3>4, <4>1
      <4>3. table \in Tables(Symbols)
        <5>1. i - 1 \in 0..Count
          BY <1>1, <1>2
        <5> QED BY <2>1, <5>1, VarsAre
      <4>4. /\ ref.index \in Nat
            /\ ref.mem \in {"aux", "local", "const"}
            /\ ref.mem = "const" => x \in ConstantSymbols /\ ref.index = ConstantIndex(x) /\ ~IsVariable(x, table)
            /\ ref.mem # "const" => RefIs(x, ref, table)
        BY <1>1, <4>2, <4>3, RefsAre
      <4>5. m = [mem |-> IF ArgMem(o, i, k) = "local" THEN "local" ELSE "aux", index |-> ref.index]
        BY <2>9, <3>1, <4>1
      <4>6. m.index = ref.index /\ m.mem = (IF ArgMem(o, i, k) = "local" THEN "local" ELSE "aux")
        BY <4>5
      <4>7. IsRef(m)
        BY <4>4, <4>6 DEF IsRef
      <4>8. CASE l.cmd = "load" /\ k = 2
        BY <3>5, <4>1, <4>4, <4>6, <4>7, <4>8
      <4>9. CASE ~(l.cmd = "load" /\ k = 2)
        <5>1. SUFFICES ASSUME l.cmd = "load" => IsVariable(x, table) PROVE RefIs(x, m, table)
          BY <4>1, <4>7, <4>9
        <5>2. l.cmd = "load" => k = 1
          BY <3>7, <4>9
        <5>3. ref.mem # "const"
          BY <3>5, <4>1, <4>4, <5>1
        <5>4. ArgMem(o, i, k) = ref.mem
          BY <3>6, <4>1, <5>3
        <5>5. m.mem = ref.mem
          BY <4>4, <4>6, <5>3, <5>4
        <5> QED BY <4>4, <4>6, <5>3, <5>5 DEF RefIs
      <4> QED BY <4>8, <4>9
    <3> QED BY <3>2, <3>8
  <2> QED BY <2>1, <2>2, <2>8, <2>10, <2>11 DEF OpIs
<1> QED BY <1>1, <1>6, <1>7, <1>8

----------------------------------------------------------------------------
(* The machine stays in its memories, and they hold scalars.               *)

MachineType == Filled /\ local \in Seq(Scalars)
InRange(ref) == IsRef(ref) /\ ref.index \in DOMAIN Memory(ref)

LEMMA GetIs ==
  ASSUME MachineType, NEW ref, InRange(ref)
  PROVE  Get(ref) \in Scalars
<1>1. \A i \in DOMAIN aux : aux[i] \in Scalars
  BY DEF MachineType, Filled
<1>2. \A i \in DOMAIN local : local[i] \in Scalars
  BY DEF MachineType
<1> QED BY <1>1, <1>2 DEF InRange, Get, Memory

LEMMA PutIs ==
  ASSUME MachineType, NEW ref, InRange(ref), NEW value \in Scalars, Put(ref, value), UNCHANGED source
  PROVE  MachineType'
<1>1. Size' = Size
  BY DEF Size
<1>2. CASE ref.mem = "aux"
  <2>1. aux' = [aux EXCEPT ![ref.index] = value] /\ local' = local
    BY <1>2 DEF Put
  <2> QED BY <1>1, <2>1 DEF MachineType, Filled
<1>3. CASE ref.mem # "aux"
  <2>1. local' = [local EXCEPT ![ref.index] = value] /\ aux' = aux /\ ref.index \in DOMAIN local
    BY <1>3 DEF Put, InRange, Memory
  <2>2. local' \in Seq(Scalars)
    BY <2>1 DEF MachineType
  <2> QED BY <1>1, <2>1, <2>2 DEF MachineType, Filled
<1> QED BY <1>2, <1>3

LEMMA InverseIs ==
  ASSUME NEW x \in Scalars, x # 0
  PROVE  InverseOf(x) \in Scalars /\ (x * InverseOf(x)) % P = 1
<1>1. x \in 1..P - 1
  BY FieldIs DEF Scalars
<1>2. PICK y \in 1..P - 1 : (x * y) % P = 1
  BY <1>1, FieldAssumption
<1>3. y \in Scalars
  BY FieldIs DEF Scalars
<1>4. \E z \in Scalars : (x * z) % P = 1
  BY <1>2, <1>3
<1> QED BY <1>4 DEF InverseOf

\* The number of arguments.
LEMMA Arities ==
  /\ op_commands["set"] = 2 /\ op_commands["mul"] = 2 /\ op_commands["add"] = 2 /\ op_commands["sub"] = 2
  /\ op_commands["divide"] = 2 /\ op_commands["double"] = 1 /\ op_commands["square"] = 1
  /\ op_commands["invert"] = 1 /\ op_commands["unpack_bits"] = 3 /\ op_commands["load"] = 2
  /\ op_commands["debug"] = 1 /\ op_commands["dump_alloc"] = 0 /\ op_commands["dump_local"] = 0
  /\ op_commands["local"] = 1
  /\ DOMAIN op_commands = {"set", "mul", "add", "sub", "divide", "double", "square", "invert", "unpack_bits", "load",
                           "local", "debug", "dump_alloc", "dump_local"}
BY DEF op_commands

LEMMA AssigningAre ==
  ASSUME NEW l, NEW op, NEW table, OpIs(l, op, table)
  PROVE  /\ op.op \in Assigning <=> l.cmd \in {"set", "mul", "add", "sub", "divide", "double", "square", "invert", "load"}
         /\ op.op = "UnpackBits" <=> l.cmd = "unpack_bits"
         /\ op.op = "Local" <=> l.cmd = "local"
         /\ op.op \in {"Debug", "DumpAlloc", "DumpLocal"} <=> l.cmd \in {"debug", "dump_alloc", "dump_local"}
<1>1. l.cmd \in {"set", "mul", "add", "sub", "divide", "double", "square", "invert", "unpack_bits", "load",
                 "local", "debug", "dump_alloc", "dump_local"}
  BY Arities DEF OpIs
<1>2. op.op = Op(l.cmd)
  BY DEF OpIs
<1> QED BY <1>1, <1>2, OpNames DEF Assigning

\* No reference leads out of the memories.
LEMMA FollowedAre ==
  ASSUME NEW l, NEW op, NEW table, OpIs(l, op, table), ~OutOfRange(op), l.cmd # "local"
  PROVE  /\ \A k \in 1..op_commands[l.cmd] : ~(l.cmd = "load" /\ k = 2) /\ ~(l.cmd = "unpack_bits" /\ k # 1) => InRange(op.args[k])
         /\ l.cmd = "load" => op.args[2].index \in DOMAIN contract.constants
<1>1. l.cmd \in {"set", "mul", "add", "sub", "divide", "double", "square", "invert", "unpack_bits", "load",
                 "debug", "dump_alloc", "dump_local"}
  BY Arities DEF OpIs
<1>2. op.op = Op(l.cmd) /\ DOMAIN op.args = 1..op_commands[l.cmd] /\ \A k \in 1..op_commands[l.cmd] : IsRef(op.args[k])
  BY DEF OpIs
<1>3. \A ref \in Followed(op) : ref.index \in DOMAIN Memory(ref)
  BY DEF OutOfRange
<1>4. op.op = "Load" => op.args[2].index \in DOMAIN contract.constants
  BY DEF OutOfRange
<1>5. ASSUME NEW k \in 1..op_commands[l.cmd], ~(l.cmd = "load" /\ k = 2), ~(l.cmd = "unpack_bits" /\ k # 1)
      PROVE  InRange(op.args[k])
  <2>1. op.args[k] \in Followed(op)
    <3>1. CASE l.cmd \in {"dump_alloc", "dump_local"}
      <4>1. op_commands[l.cmd] = 0
        BY <3>1, Arities
      <4> QED BY <4>1
    <3>2. CASE l.cmd = "load"
      <4>1. op.op = "Load" /\ k = 1
        BY <1>2, <1>5, <3>2, OpNames, Arities
      <4> QED BY <4>1 DEF Followed
    <3>3. CASE l.cmd = "unpack_bits"
      <4>1. op.op = "UnpackBits" /\ k = 1
        BY <1>2, <1>5, <3>3, OpNames, Arities
      <4> QED BY <4>1 DEF Followed
    <3>4. CASE l.cmd \in {"set", "mul", "add", "sub", "divide", "double", "square", "invert", "debug"}
      <4>1. op.op \notin {"Local", "DumpAlloc", "DumpLocal", "UnpackBits", "Load"}
        BY <1>2, <3>4, OpNames
      <4>2. Followed(op) = {op.args[i] : i \in DOMAIN op.args}
        BY <4>1 DEF Followed
      <4> QED BY <1>2, <4>2
    <3> QED BY <1>1, <3>1, <3>2, <3>3, <3>4
  <2> QED BY <1>2, <1>3, <2>1 DEF InRange
<1>6. l.cmd = "load" => op.op = "Load"
  BY <1>2, OpNames
<1> QED BY <1>4, <1>5, <1>6

LEMMA ResultIs ==
  ASSUME Loaded, MachineType, NEW l, NEW op, NEW table, OpIs(l, op, table), op.op \in Assigning,
         ~OutOfRange(op), ~DividesByZero(op)
  PROVE  InRange(op.args[1]) /\ Result(op) \in Scalars
<1>1. l.cmd \in {"set", "mul", "add", "sub", "divide", "double", "square", "invert", "load"} /\ op.op = Op(l.cmd)
  BY AssigningAre DEF OpIs
<1>2. PICK n : n = op_commands[l.cmd]
  OBVIOUS
<1>3. n \in {1, 2} /\ (l.cmd \in {"set", "mul", "add", "sub", "divide", "load"} => n = 2)
  BY <1>1, <1>2, Arities
<1>4. /\ \A k \in 1..n : ~(l.cmd = "load" /\ k = 2) => InRange(op.args[k])
      /\ l.cmd = "load" => op.args[2].index \in DOMAIN contract.constants
  BY <1>1, <1>2, FollowedAre
<1>5. InRange(op.args[1])
  BY <1>3, <1>4
<1>6. l.cmd \in {"set", "mul", "add", "sub", "divide"} => InRange(op.args[2])
  BY <1>3, <1>4
<1>7. PICK x, y : x = Get(op.args[1]) /\ y = Get(op.args[2])
  OBVIOUS
<1>8. x \in Scalars /\ (l.cmd \in {"set", "mul", "add", "sub", "divide"} => y \in Scalars)
  BY <1>5, <1>6, <1>7, GetIs
<1>9. \A a \in Scalars, b \in Scalars :
        (a * b) % P \in Scalars /\ (a + b) % P \in Scalars /\ (a - b) % P \in Scalars /\ (2 * a) % P \in Scalars
  <2>1. SUFFICES ASSUME NEW a \in Scalars, NEW b \in Scalars
                 PROVE  (a * b) % P \in Scalars /\ (a + b) % P \in Scalars /\ (a - b) % P \in Scalars /\ (2 * a) % P \in Scalars
    OBVIOUS
  <2>2. a * b \in Int /\ a + b \in Int /\ a - b \in Int /\ 2 * a \in Int
    BY FieldIs, SMT
  <2> QED BY <2>2, Reduced
<1>10. l.cmd = "divide" => y # 0
  <2>1. l.cmd = "divide" => op.op = "Divide"
    BY <1>1, OpNames
  <2> QED BY <1>7, <2>1 DEF DividesByZero
<1>11. l.cmd = "invert" => x # 0
  <2>1. l.cmd = "invert" => op.op = "Invert"
    BY <1>1, OpNames
  <2> QED BY <1>7, <2>1 DEF DividesByZero
<1>12. l.cmd = "load" => contract.constants[op.args[2].index] \in Scalars
  <2>1. SUFFICES ASSUME l.cmd = "load" PROVE contract.constants[op.args[2].index] \in Scalars
    OBVIOUS
  <2>2. l.args[2] \in ConstantSymbols /\ op.args[2].index = ConstantIndex(l.args[2])
    BY <1>2, <1>3, <2>1 DEF OpIs
  <2>3. PICK s : s = l.args[2]
    OBVIOUS
  <2> QED BY <2>2, <2>3, ConstantsRead
<1>13. Result(op) \in Scalars
  <2>1. CASE l.cmd = "set"
    <3>1. op.op = "Set"
      BY <1>1, <2>1, OpNames
    <3> QED BY <1>7, <1>8, <2>1, <3>1 DEF Result
  <2>2. CASE l.cmd = "mul"
    <3>1. op.op = "Mul"
      BY <1>1, <2>2, OpNames
    <3> QED BY <1>7, <1>8, <1>9, <2>2, <3>1 DEF Result
  <2>3. CASE l.cmd = "add"
    <3>1. op.op = "Add"
      BY <1>1, <2>3, OpNames
    <3> QED BY <1>7, <1>8, <1>9, <2>3, <3>1 DEF Result
  <2>4. CASE l.cmd = "sub"
    <3>1. op.op = "Sub"
      BY <1>1, <2>4, OpNames
    <3> QED BY <1>7, <1>8, <1>9, <2>4, <3>1 DEF Result
  <2>5. CASE l.cmd = "divide"
    <3>1. op.op = "Divide" /\ InverseOf(y) \in Scalars
      BY <1>1, <1>8, <1>10, <2>5, OpNames, InverseIs
    <3> QED BY <1>7, <1>8, <1>9, <3>1 DEF Result
  <2>6. CASE l.cmd = "double"
    <3>1. op.op = "Double"
      BY <1>1, <2>6, OpNames
    <3> QED BY <1>7, <1>8, <1>9, <3>1 DEF Result
  <2>7. CASE l.cmd = "square"
    <3>1. op.op = "Square"
      BY <1>1, <2>7, OpNames
    <3> QED BY <1>7, <1>8, <1>9, <3>1 DEF Result
  <2>8. CASE l.cmd = "invert"
    <3>1. op.op = "Invert" /\ InverseOf(x) \in Scalars
      BY <1>1, <1>8, <1>11, <2>8, OpNames, InverseIs
    <3> QED BY <1>7, <3>1 DEF Result
  <2>9. CASE l.cmd = "load"
    <3>1. op.op = "Load"
      BY <1>1, <2>9, OpNames
    <3> QED BY <1>12, <2>9, <3>1 DEF Result
  <2> QED BY <1>1, <2>1, <2>2, <2>3, <2>4, <2>5, <2>6, <2>7, <2>8, <2>9
<1> QED BY <1>5, <1>13

LEMMA PowerIs == \A n \in Nat : 2 ^ n \in Nat /\ 2 ^ n > 0
<1> DEFINE T == {n \in Nat : 2 ^ n \in Nat /\ 2 ^ n > 0}
<1>1. 0 \in T
  <2>1. 2 ^ 0 = 1
    BY Powers
  <2> QED BY <2>1
<1>2. ASSUME NEW n \in Nat, n \in T PROVE n + 1 \in T
  <2>1. PICK x, y : x = 2 ^ n /\ y = 2 ^ (n + 1)
    OBVIOUS
  <2>2. y = 2 * x /\ x \in Nat /\ x > 0
    BY <1>2, <2>1, Powers
  <2>3. y \in Nat /\ y > 0
    BY <2>2
  <2>4. 2 ^ (n + 1) \in Nat /\ 2 ^ (n + 1) > 0
    BY ONLY <2>1, <2>3
  <2>5. n + 1 \in Nat
    OBVIOUS
  <2> QED BY <2>4, <2>5
<1>3. \A n \in Nat : n \in T
  <2> HIDE DEF T
  <2> QED BY <1>1, <1>2, Induct
<1> QED BY <1>3

LEMMA BitIs ==
  ASSUME NEW value \in Scalars, NEW i \in Nat
  PROVE  Bit(value, i) \in Scalars
<1>1. PICK p, q, r : p = 2 ^ i /\ q = value \div p /\ r = q % 2
  OBVIOUS
<1>2. p \in Nat /\ p > 0 /\ value \in Int
  BY <1>1, PowerIs, FieldIs
<1>3. q \in Int
  BY <1>1, <1>2
<1>4. r \in {0, 1}
  BY <1>1, <1>3
<1>5. Bit(value, i) = r
  BY <1>1 DEF Bit
<1> QED BY <1>4, <1>5, FieldIs

LEMMA UnpackedIs ==
  ASSUME NEW n \in Nat, NEW memory \in [1..n -> Scalars], NEW start \in Nat, NEW value \in Scalars
  PROVE  Unpacked(memory, start, value) \in [1..n -> Scalars]
<1>1. ASSUME NEW i \in 1..n, i \in start .. start + Bits - 1 PROVE Bit(value, i - start) \in Scalars
  <2>1. i - start \in Nat
    <3>1. Bits \in Nat
      BY FieldAssumption
    <3> QED BY <1>1, <3>1
  <2> QED BY <2>1, BitIs
<1> QED BY <1>1 DEF Unpacked

\* The parameters that are set.
Stored == \E D \in SUBSET (1..Size) : params \in [D -> Scalars]

\* The proof is the one of the values that the machine left.
Proven ==
  /\ Published(proof.public)
  /\ proof.groth.inputs = [i \in DOMAIN Publics |-> aux[Publics[i].index]]
  /\ proof.groth.satisfied <=> EquationsHold(Values)

Checked == status \in {"verified", "rejected"} => (status = "verified" <=> EquationsHold(Values))
Sound ==
  /\ Loaded
  /\ Stored
  /\ pc \in 1..Count + 1
  /\ status = "running" \/ Finished => MachineType
  /\ Finished => Proven
  /\ Checked

LEMMA InitSound == Init /\ DistinctConstants => Sound
<1> SUFFICES ASSUME Init, DistinctConstants PROVE Sound
  OBVIOUS
<1>1. Loaded
  BY DEF Init, Loaded
<1>2. Stored
  <2>1. params \in [{} -> Scalars] /\ {} \in SUBSET (1..Size)
    BY DEF Init, Empty, Without
  <2> QED BY <2>1 DEF Stored
<1>3. pc \in 1..Count + 1
  <2>1. Count \in Nat
    BY <1>1, FirstIs
  <2> QED BY <2>1 DEF Init
<1>4. status = "idle"
  BY DEF Init
<1> QED BY <1>1, <1>2, <1>3, <1>4 DEF Sound, Finished, Checked

\* What a step that leaves these alone leaves alone.
LEMMA Same1 ==
  ASSUME UNCHANGED <<source, contract>>
  PROVE  /\ Loaded' <=> Loaded
         /\ Size' = Size /\ Count' = Count
         /\ PublicPlaces' = PublicPlaces /\ Publics' = Publics
<1>1. Loaded' <=> Loaded
  BY DEF Loaded, DistinctConstants
<1>2. Size' = Size /\ Count' = Count
  BY DEF Size, Count
<1>3. PublicPlaces' = PublicPlaces /\ Publics' = Publics
  BY <1>2 DEF PublicPlaces, Publics
<1> QED BY <1>1, <1>2, <1>3

LEMMA Same2 ==
  ASSUME UNCHANGED <<source, contract, aux, local>>
  PROVE  /\ MachineType' <=> MachineType
         /\ EquationsHold(Values)' <=> EquationsHold(Values)
         /\ \A public : Published(public)' <=> Published(public)
<1>1. MachineType' <=> MachineType
  BY Same1 DEF MachineType, Filled
<1>2. Values' = Values
  BY DEF Values, AllocNames
<1>3. EquationsHold(Values)' <=> EquationsHold(Values)
  BY <1>2 DEF EquationsHold
<1>4. ASSUME NEW public PROVE Published(public)' <=> Published(public)
  BY Same1 DEF Published, Name
<1> QED BY <1>1, <1>3, <1>4

LEMMA Same3 ==
  ASSUME UNCHANGED <<source, contract, aux, local, proof>>
  PROVE  Proven' <=> Proven
<1>1. Publics' = Publics
  BY Same1
<1>2. Published(proof.public)' <=> Published(proof.public)
  <2>1. PICK p : p = proof.public
    OBVIOUS
  <2>2. proof.public' = p
    BY <2>1
  <2>3. Published(p)' <=> Published(p)
    BY Same2
  <2> QED BY <2>1, <2>2, <2>3 DEF Published
<1>3. proof.groth' = proof.groth
  OBVIOUS
<1> QED BY <1>1, <1>2, <1>3, Same2 DEF Proven

\* The places that the names of the parameters stand for.
LEMMA ParamsMapIs ==
  ASSUME Loaded
  PROVE  /\ \A s, t \in DOMAIN contract.params_map : contract.params_map[s] = contract.params_map[t] => s = t
         /\ \A s \in DOMAIN contract.params_map : /\ contract.params_map[s] \in 1..Size
                                                 /\ Name(contract.params_map[s]) = s
<1>1. PICK c, f, C, T : /\ c = Compile(source) /\ f = contract.params_map /\ C = {"param"}
                        /\ T = {v \in 1..Size : AllocLines(source)[v].cmd \in C}
  OBVIOUS
<1>2. c.alloc = AllocLines(source)
  BY <1>1 DEF Compile
<1>3. f = Map(Named(AllocLines(source), C))
  BY <1>1, <1>2, ContractIs
<1>4. T = {v \in 1..Size : AllocLines(source)[v].cmd \in C}
  BY <1>1
<1>5. DOMAIN f = {Name(v) : v \in T} /\ \A v \in T : f[Name(v)] = v
  BY ONLY Loaded, <1>3, <1>4, MapIs
<1>6. \A s \in DOMAIN f : f[s] \in 1..Size /\ Name(f[s]) = s
  BY <1>4, <1>5
<1> QED BY <1>1, <1>6

LEMMA StoredNext ==
  ASSUME Loaded, Stored, UNCHANGED <<source, contract>>,
         UNCHANGED params \/ params' = Empty
           \/ \E name \in DOMAIN contract.params_map, value \in Scalars :
                params' = [i \in DOMAIN params \cup {contract.params_map[name]} |->
                             IF i = contract.params_map[name] THEN value ELSE params[i]]
  PROVE  Stored'
<1>1. Size' = Size
  BY Same1
<1>2. PICK D \in SUBSET (1..Size) : params \in [D -> Scalars]
  BY DEF Stored
<1>3. \E E \in SUBSET (1..Size) : params' \in [E -> Scalars]
  <2>1. CASE UNCHANGED params
    BY <1>2, <2>1
  <2>2. CASE params' = Empty
    <3>1. params' \in [{} -> Scalars] /\ {} \in SUBSET (1..Size)
      BY <2>2 DEF Empty, Without
    <3> QED BY <3>1
  <2>3. ASSUME NEW name \in DOMAIN contract.params_map, NEW value \in Scalars,
               params' = [i \in DOMAIN params \cup {contract.params_map[name]} |->
                             IF i = contract.params_map[name] THEN value ELSE params[i]]
        PROVE  \E E \in SUBSET (1..Size) : params' \in [E -> Scalars]
    <3>1. PICK p : p = contract.params_map[name]
      OBVIOUS
    <3>2. p \in 1..Size
      BY <3>1, ParamsMapIs
    <3>3. params' \in [D \cup {p} -> Scalars] /\ D \cup {p} \in SUBSET (1..Size)
      BY <1>2, <2>3, <3>1, <3>2
    <3> QED BY <3>3
  <2> QED BY <2>1, <2>2, <2>3
<1> QED BY <1>1, <1>3 DEF Stored

\* Steps that are no part of a run of the machine.
LEMMA CallSteps ==
  ASSUME Sound, SetParam \/ MissingParams
  PROVE  Sound'
<1>1. UNCHANGED <<source, contract, machine, proof>> /\ status # "running"
  BY DEF SetParam, MissingParams, Calling
<1>2. UNCHANGED <<source, contract, pc, aux, local, proof>>
  BY <1>1 DEF machine
<1>3. Loaded /\ Stored /\ pc \in 1..Count + 1 /\ (Finished => MachineType /\ Proven) /\ Checked
  BY DEF Sound
<1>4. Loaded' /\ Count' = Count /\ (MachineType' <=> MachineType) /\ (Proven' <=> Proven)
      /\ (EquationsHold(Values)' <=> EquationsHold(Values))
  BY <1>2, <1>3, Same1, Same2, Same3
<1>5. Stored'
  <2>1. UNCHANGED params \/ params' = Empty
           \/ \E name \in DOMAIN contract.params_map, value \in Scalars :
                params' = [i \in DOMAIN params \cup {contract.params_map[name]} |->
                             IF i = contract.params_map[name] THEN value ELSE params[i]]
    BY DEF SetParam, MissingParams
  <2> QED BY <1>2, <1>3, <2>1, StoredNext
<1>6. status' = status \/ status' = "MissingParams"
  BY DEF SetParam, MissingParams
<1>7. (status' = "running" \/ Finished' => MachineType') /\ (Finished' => Proven')
  BY <1>1, <1>3, <1>4, <1>6 DEF Finished
<1>8. Checked'
  BY <1>3, <1>4, <1>6 DEF Checked
<1> QED BY <1>2, <1>3, <1>4, <1>5, <1>7, <1>8 DEF Sound

LEMMA ProveStep ==
  ASSUME Sound, Prove
  PROVE  Sound'
<1>1. /\ UNCHANGED <<source, contract, proof>> /\ params' = Empty /\ status' = "running" /\ pc' = 1
      /\ aux' = [i \in DOMAIN contract.alloc |-> IF i \in DOMAIN params THEN params[i] ELSE 0] /\ local' = <<>>
  BY DEF Prove, TakeParams
<1>2. Loaded /\ Stored
  BY DEF Sound
<1>3. Loaded' /\ Count' = Count /\ Size' = Size /\ Count \in Nat
  BY <1>1, <1>2, Same1, FirstIs
<1>4. Stored'
  BY <1>1, <1>2, StoredNext
<1>5. MachineType'
  <2>1. PICK D \in SUBSET (1..Size) : params \in [D -> Scalars]
    BY <1>2 DEF Stored
  <2>2. DOMAIN contract.alloc = 1..Size
    BY <1>2, AllocRead
  <2>3. aux' \in [1..Size -> Scalars]
    BY <1>1, <2>1, <2>2, FieldIs
  <2> QED BY <1>1, <1>3, <2>3 DEF MachineType, Filled
<1>6. ~Finished' /\ pc' \in 1..Count' + 1 /\ Checked'
  BY <1>1, <1>3 DEF Finished, Checked
<1> QED BY <1>3, <1>4, <1>5, <1>6 DEF Sound

\* What an operation of the machine does, whichever it is.
Runs ==
  /\ Running /\ UNCHANGED <<source, contract, params, proof>>
  /\ \/ status' \in {"panic", "DivisionByZero", "MalformedRange"} /\ UNCHANGED <<pc, aux, local>>
     \/ status' = status /\ pc' = pc + 1 /\ MachineType'

LEMMA RunsSteps ==
  ASSUME Sound, Runs
  PROVE  Sound'
<1>1. UNCHANGED <<source, contract>> /\ UNCHANGED params /\ status = "running" /\ pc <= Len(contract.ops)
  BY DEF Runs, Running
<1>2. Loaded /\ Stored /\ pc \in 1..Count + 1 /\ MachineType
  BY <1>1 DEF Sound
<1>3. Loaded' /\ Count' = Count /\ Stored' /\ Count \in Nat /\ Len(contract.ops) = Count
  BY <1>1, <1>2, Same1, StoredNext, FirstIs, OpsAre
<1>4. pc' \in 1..Count' + 1
  BY <1>1, <1>2, <1>3 DEF Runs
<1>5. ~Finished' /\ Checked' /\ (status' = "running" => MachineType')
  BY <1>1 DEF Runs, Finished, Checked
<1> QED BY <1>3, <1>4, <1>5 DEF Sound

\* The operation that is next, and its line.
LEMMA CurrentIs ==
  ASSUME Sound, Running
  PROVE  /\ Loaded /\ MachineType /\ pc \in 1..Count /\ Current = contract.ops[pc]
         /\ OpIs(OpLines(source)[pc], Current, VarsAt(pc - 1))
<1>1. Loaded /\ MachineType /\ pc \in 1..Count + 1 /\ pc <= Len(contract.ops)
  BY DEF Sound, Running
<1>2. Count \in Nat /\ Len(contract.ops) = Count
  BY <1>1, FirstIs, OpsAre
<1>3. pc \in 1..Count
  BY <1>1, <1>2
<1> QED BY <1>1, <1>3, OpsAre DEF Current

LEMMA AssignRuns ==
  ASSUME Sound, Assign
  PROVE  Runs
<1>1. PICK op : op = Current
  OBVIOUS
<1>2. Running /\ op.op \in Assigning
  BY <1>1 DEF Assign
<1>3. PICK l, table : l = OpLines(source)[pc] /\ table = VarsAt(pc - 1)
  OBVIOUS
<1>4. Loaded /\ MachineType /\ OpIs(l, op, table)
  BY <1>1, <1>2, <1>3, CurrentIs
<1>5. CASE OutOfRange(op)
  BY <1>1, <1>2, <1>5 DEF Assign, Abort, Runs, machine
<1>6. CASE ~OutOfRange(op) /\ DividesByZero(op)
  BY <1>1, <1>2, <1>6 DEF Assign, Abort, Runs, machine
<1>7. CASE ~OutOfRange(op) /\ ~DividesByZero(op)
  <2>1. PICK ref, value : ref = op.args[1] /\ value = Result(op)
    OBVIOUS
  <2>2. InRange(ref) /\ value \in Scalars
    BY <1>2, <1>4, <1>7, <2>1, ResultIs
  <2>3. Put(ref, value) /\ Advance
    BY <1>1, <1>7, <2>1 DEF Assign
  <2>4. MachineType'
    BY <1>4, <2>2, <2>3, PutIs DEF Advance
  <2> QED BY <1>2, <2>3, <2>4 DEF Advance, Runs
<1> QED BY <1>5, <1>6, <1>7

LEMMA UnpackRuns ==
  ASSUME Sound, UnpackBits
  PROVE  Runs
<1>1. PICK op : op = Current
  OBVIOUS
<1>2. Running /\ op.op = "UnpackBits"
  BY <1>1 DEF UnpackBits
<1>3. PICK l, table : l = OpLines(source)[pc] /\ table = VarsAt(pc - 1)
  OBVIOUS
<1>4. Loaded /\ MachineType /\ OpIs(l, op, table)
  BY <1>1, <1>2, <1>3, CurrentIs
<1>5. CASE OutOfRange(op)
  BY <1>1, <1>2, <1>5 DEF UnpackBits, Abort, Runs, machine
<1>6. CASE ~OutOfRange(op) /\ Malformed(op)
  BY <1>1, <1>2, <1>6 DEF UnpackBits, Abort, Runs, machine
<1>7. CASE ~OutOfRange(op) /\ ~Malformed(op)
  <2>1. PICK start, value, bits : /\ start = op.args[2] /\ value = Get(op.args[1])
                                  /\ bits = Unpacked(Memory(start), start.index, value)
    OBVIOUS
  <2>2. /\ IF start.mem = "aux" THEN aux' = bits /\ UNCHANGED local
                                ELSE local' = bits /\ UNCHANGED aux
        /\ Advance
    BY <1>1, <1>7, <2>1 DEF UnpackBits
  <2>3. l.cmd = "unpack_bits"
    BY <1>2, <1>4, AssigningAre
  <2>4. op_commands[l.cmd] = 3 /\ l.cmd # "local"
    BY <2>3, Arities
  <2>5. IsRef(start)
    BY <1>4, <2>1, <2>4 DEF OpIs
  <2>6. InRange(op.args[1])
    BY <1>4, <1>7, <2>3, <2>4, FollowedAre
  <2>7. value \in Scalars
    BY <1>4, <2>1, <2>6, GetIs
  <2>8. Size' = Size /\ Size \in Nat
    BY <1>4, <2>2, AllocIs DEF Advance, Size
  <2>9. start.index \in Nat
    BY <2>5 DEF IsRef
  <2>10. MachineType'
    <3>1. CASE start.mem = "aux"
      <4>1. bits = Unpacked(aux, start.index, value)
        BY <2>1, <3>1 DEF Memory
      <4>2. aux \in [1..Size -> Scalars]
        BY <1>4 DEF MachineType, Filled
      <4>3. bits \in [1..Size -> Scalars]
        BY <2>7, <2>8, <2>9, <4>1, <4>2, UnpackedIs
      <4> QED BY <1>4, <2>2, <2>8, <3>1, <4>3 DEF MachineType, Filled
    <3>2. CASE start.mem # "aux"
      <4>1. bits = Unpacked(local, start.index, value)
        BY <2>1, <3>2 DEF Memory
      <4>2. PICK n, q : n = Len(local) /\ q = local
        OBVIOUS
      <4>3. n \in Nat /\ q \in [1..n -> Scalars]
        BY <1>4, <4>2 DEF MachineType
      <4>4. bits \in [1..n -> Scalars]
        BY <2>7, <2>9, <4>1, <4>2, <4>3, UnpackedIs
      <4>5. bits \in Seq(Scalars)
        BY <4>3, <4>4, FunctionIsSeq
      <4> QED BY <1>4, <2>2, <2>8, <3>2, <4>5 DEF MachineType, Filled
    <3> QED BY <3>1, <3>2
  <2> QED BY <1>2, <2>2, <2>10 DEF Advance, Runs
<1> QED BY <1>5, <1>6, <1>7

LEMMA OtherRuns ==
  ASSUME Sound, PushLocal \/ Display
  PROVE  Runs
<1>1. Running
  BY DEF PushLocal, Display
<1>2. MachineType
  BY <1>1, CurrentIs
<1>3. CASE PushLocal
  <2>1. local' = Append(local, 0) /\ aux' = aux /\ Advance
    BY <1>3 DEF PushLocal
  <2>2. local' \in Seq(Scalars)
    BY <1>2, <2>1, FieldIs DEF MachineType
  <2>3. Size' = Size
    BY <2>1 DEF Advance, Size
  <2> QED BY <1>1, <1>2, <2>1, <2>2, <2>3 DEF Advance, Runs, MachineType, Filled
<1>4. CASE Display
  <2>1. CASE OutOfRange(Current)
    BY <1>1, <1>4, <2>1 DEF Display, Abort, Runs, machine
  <2>2. CASE ~OutOfRange(Current)
    <3>1. UNCHANGED <<aux, local>> /\ Advance
      BY <1>4, <2>2 DEF Display
    <3>2. Size' = Size
      BY <3>1 DEF Advance, Size
    <3> QED BY <1>1, <1>2, <3>1, <3>2 DEF Advance, Runs, MachineType, Filled
  <2> QED BY <2>1, <2>2
<1> QED BY <1>3, <1>4

LEMMA FinishStep ==
  ASSUME Sound, FinishProof
  PROVE  Sound'
<1>1. UNCHANGED <<source, contract, params, pc, aux, local>> /\ status = "running"
  BY DEF FinishProof, machine
<1>2. Loaded /\ Stored /\ pc \in 1..Count + 1 /\ MachineType
  BY <1>1 DEF Sound
<1>3. Loaded' /\ Count' = Count /\ Stored' /\ (MachineType' <=> MachineType)
  BY <1>1, <1>2, Same1, Same2, StoredNext
<1>4. status' \in {"proved", "BadContract"}
  BY DEF FinishProof
<1>5. ASSUME status' = "proved" PROVE Proven'
  <2>1. PICK public, groth, q : /\ public = [s \in {NameOf(Publics[i].index) : i \in DOMAIN Publics} |-> aux[contract.public_map[s]]]
                                /\ groth = CreateProof /\ q = [public |-> public, groth |-> groth]
    OBVIOUS
  <2>2. proof' = q
    BY <1>5, <2>1 DEF FinishProof
  <2>3. proof'.public = public /\ proof'.groth = groth
    BY <2>1, <2>2
  <2>4. Published(public)
    <3>9. PICK m \in Nat : \E e : Listing(e, PublicPlaces, m) /\ DOMAIN Publics = 1..m /\ \A k \in 1..m : Publics[k].index = e[k]
      BY <1>2, PublicsAre
    <3>1. PICK e : Listing(e, PublicPlaces, m) /\ DOMAIN Publics = 1..m /\ \A k \in 1..m : Publics[k].index = e[k]
      BY <3>9
    <3>2. /\ \A k \in 1..m : e[k] \in PublicPlaces
          /\ \A x \in PublicPlaces : \E k \in 1..m : e[k] = x
      BY <3>1 DEF Listing
    <3>3. PICK f : f = contract.public_map
      OBVIOUS
    <3>4. DOMAIN f = {Name(v) : v \in PublicPlaces} /\ \A v \in PublicPlaces : f[Name(v)] = v
      BY <1>2, <3>3, PublicMapIs
    <3>5. ASSUME NEW v \in PublicPlaces PROVE NameOf(v) = Name(v)
      <4>1. \E s \in DOMAIN f : f[s] = v
        BY <3>4
      <4>2. NameOf(v) \in DOMAIN f /\ f[NameOf(v)] = v
        BY <3>3, <4>1 DEF NameOf
      <4>3. PICK u \in PublicPlaces : NameOf(v) = Name(u)
        BY <3>4, <4>2
      <4> QED BY <3>4, <4>2, <4>3
    <3>6. {NameOf(Publics[i].index) : i \in DOMAIN Publics} = {Name(v) : v \in PublicPlaces}
      <4>1. \A i \in 1..m : NameOf(Publics[i].index) = Name(e[i])
        BY <3>1, <3>2, <3>5
      <4>2. {NameOf(Publics[i].index) : i \in 1..m} = {Name(v) : v \in PublicPlaces}
        BY <3>2, <4>1
      <4> QED BY <3>1, <4>2
    <3>7. public = [s \in {Name(v) : v \in PublicPlaces} |-> aux[f[s]]]
      BY <2>1, <3>3, <3>6
    <3> QED BY <3>4, <3>7 DEF Published
  <2>5. PICK y, inputs : y = Satisfied /\ inputs = [i \in DOMAIN Publics |-> aux[Publics[i].index]]
    OBVIOUS
  <2>6. groth = [inputs |-> inputs, satisfied |-> y]
    BY <2>1, <2>5, Zenon DEF CreateProof
  <2>7. groth.inputs = inputs /\ groth.satisfied = y
    BY ONLY <2>6
  <2>8. y <=> EquationsHold(Values)
    <3>1. Satisfied <=> EquationsHold(Values)
      BY <1>2, SatisfiedIs DEF MachineType
    <3> QED BY <2>5, <3>1, Zenon
  <2>9. EquationsHold(Values)' <=> EquationsHold(Values)
    BY <1>1, Same2
  <2>10. Published(public)' <=> Published(public)
    BY <1>1, Same2
  <2>11. Published(proof.public)'
    BY <2>3, <2>4, <2>10 DEF Published
  <2>12. [i \in DOMAIN Publics |-> aux[Publics[i].index]]' = inputs
    BY <1>1, <2>5, Same1
  <2>13. (proof.groth.inputs = [i \in DOMAIN Publics |-> aux[Publics[i].index]])'
    BY <2>3, <2>7, <2>12
  <2>14. proof'.groth.satisfied = y
    BY <2>3, <2>7
  <2>15. (proof.groth.satisfied <=> EquationsHold(Values))'
    BY <2>8, <2>9, <2>14, Zenon
  <2> QED BY <2>11, <2>13, <2>15, Zenon DEF Proven
<1>6. Finished' => Proven'
  BY <1>4, <1>5 DEF Finished
<1>7. Checked'
  BY <1>4 DEF Checked
<1> QED BY <1>1, <1>2, <1>3, <1>6, <1>7 DEF Sound

LEMMA VerifyStep ==
  ASSUME Sound, Verify
  PROVE  Sound'
<1>1. UNCHANGED <<source, contract, params, pc, aux, local, proof>> /\ status = "proved"
  BY DEF Verify, machine
<1>2. Loaded /\ Stored /\ pc \in 1..Count + 1 /\ MachineType /\ Proven
  BY <1>1 DEF Sound, Finished
<1>3. Loaded' /\ Count' = Count /\ Stored' /\ MachineType' /\ Proven'
      /\ (EquationsHold(Values)' <=> EquationsHold(Values))
  BY <1>1, <1>2, Same1, Same2, Same3, StoredNext
<1>4. PICK names \in SetToSeqs(DOMAIN proof.public) :
        LET known == \A i \in DOMAIN names : names[i] \in DOMAIN contract.public_map
            pairs == [i \in DOMAIN names |-> [index |-> contract.public_map[names[i]],
                                              value |-> proof.public[names[i]]]]
            sorted == InOrder(pairs)
        IN  status' = IF known /\ VerifyProof(proof.groth, [i \in DOMAIN sorted |-> sorted[i].value])
                      THEN "verified" ELSE "rejected"
  BY DEF Verify
<1>5. PICK public, pairs : /\ public = proof.public
                           /\ pairs = [i \in DOMAIN names |-> [index |-> contract.public_map[names[i]], value |-> public[names[i]]]]
  OBVIOUS
<1>6. Published(public) /\ names \in SetToSeqs(DOMAIN public)
  BY <1>2, <1>5 DEF Proven
<1>7. /\ \A i \in DOMAIN names : names[i] \in DOMAIN contract.public_map
      /\ [i \in DOMAIN InOrder(pairs) |-> InOrder(pairs)[i].value] = [i \in DOMAIN Publics |-> aux[Publics[i].index]]
  BY ONLY <1>2, <1>5, <1>6, SortedIs
<1>8. proof.groth.inputs = [i \in DOMAIN Publics |-> aux[Publics[i].index]]
  BY <1>2 DEF Proven
<1>9. VerifyProof(proof.groth, [i \in DOMAIN InOrder(pairs) |-> InOrder(pairs)[i].value]) <=> proof.groth.satisfied
  BY <1>7, <1>8, Zenon DEF VerifyProof
<1>10. status' = IF proof.groth.satisfied THEN "verified" ELSE "rejected"
  BY <1>4, <1>5, <1>7, <1>9, Zenon
<1>11. proof.groth.satisfied <=> EquationsHold(Values)
  BY <1>2 DEF Proven
<1>12. Checked'
  BY <1>3, <1>10, <1>11 DEF Checked
<1> QED BY <1>1, <1>2, <1>3, <1>12 DEF Sound

LEMMA NextSound == Sound /\ [Next]_vars => Sound'
<1> SUFFICES ASSUME Sound, [Next]_vars PROVE Sound'
  OBVIOUS
<1>1. CASE SetParam \/ MissingParams
  BY <1>1, CallSteps
<1>2. CASE Prove
  BY <1>2, ProveStep
<1>3. CASE Assign
  BY <1>3, AssignRuns, RunsSteps
<1>4. CASE UnpackBits
  BY <1>4, UnpackRuns, RunsSteps
<1>5. CASE PushLocal \/ Display
  BY <1>5, OtherRuns, RunsSteps
<1>6. CASE FinishProof
  BY <1>6, FinishStep
<1>7. CASE Verify
  BY <1>7, VerifyStep
<1>8. CASE UNCHANGED vars
  <2>1. UNCHANGED <<source, contract, params, status, pc, aux, local, proof>>
    BY <1>8 DEF vars, machine
  <2>2. Loaded' /\ Count' = Count /\ Stored'
    BY <2>1, Same1, StoredNext DEF Sound
  <2>3. (MachineType' <=> MachineType) /\ (Proven' <=> Proven) /\ (EquationsHold(Values)' <=> EquationsHold(Values))
    BY <2>1, Same2, Same3
  <2> QED BY <2>1, <2>2, <2>3 DEF Sound, Finished, Checked
<1> QED BY <1>1, <1>2, <1>3, <1>4, <1>5, <1>6, <1>7, <1>8 DEF Next

ContractInv == DistinctConstants => Sound

\* The inductive invariant.
THEOREM ContractInductive == Spec => []ContractInv
<1>1. Init => ContractInv
  BY InitSound DEF ContractInv
<1>2. ContractInv /\ [Next]_vars => ContractInv'
  <2>1. DistinctConstants' <=> DistinctConstants
    BY DEF DistinctConstants
  <2> QED BY <2>1, NextSound DEF ContractInv
<1> QED BY <1>1, <1>2, PTL DEF Spec

(* A proof verifies exactly if the equations of the source hold            *)
(* (ZKContract::verify); no constant of the source is declared twice.      *)
THEOREM ContractsVerify == Spec => []VerifiesIffEquationsHold
<1>1. ContractInv => VerifiesIffEquationsHold
  BY DEF ContractInv, Sound, Checked, VerifiesIffEquationsHold
<1> QED BY <1>1, ContractInductive, PTL

----------------------------------------------------------------------------
(* What the source means, line by line.                                    *)

\* The meanings of the first lines, one after the other.
Meant(b, s, n, f) == f[0] = b /\ \A i \in 1..n : f[i] = MeaningStep(f[i - 1], s[i])

\* The table that a fold is read from.
Meanings(b, s, n, e) ==
  e = [t \in SUBSET (1..n) |-> IF t = {} THEN b ELSE MeaningStep(e[t \ {Max(t)}], s[Max(t)])]

LEMMA MeaningTable ==
  ASSUME NEW s, NEW b, NEW n \in Nat
  PROVE  \E e : Meanings(b, s, n, e)
<1> DEFINE Eqn(k, e) == Meanings(b, s, k, e)
           Some(k) == \E e : Eqn(k, e)
           T == {k \in Nat : Some(k)}
<1>1. Some(0)
  <2>1. PICK e : e = [t \in SUBSET (1..0) |-> b]
    OBVIOUS
  <2>2. \A t \in SUBSET (1..0) : t = {}
    OBVIOUS
  <2>3. Eqn(0, e)
    BY <2>1, <2>2 DEF Meanings
  <2> QED BY <2>3
<1>2. ASSUME NEW k \in Nat, Some(k) PROVE Some(k + 1)
  <2>1. PICK e : Eqn(k, e)
    BY <1>2
  <2>2. PICK m : m = k + 1
    OBVIOUS
  <2>3. m \in Nat /\ \A t \in SUBSET (1..m) : m \notin t => t \in SUBSET (1..k)
    BY <2>2
  <2>4. PICK d : d = [t \in SUBSET (1..m) |-> IF m \in t THEN MeaningStep(e[t \ {m}], s[m]) ELSE e[t]]
    OBVIOUS
  <2>5. ASSUME NEW t \in SUBSET (1..m)
        PROVE  d[t] = IF t = {} THEN b ELSE MeaningStep(d[t \ {Max(t)}], s[Max(t)])
    <3>1. CASE m \in t
      <4>1. Max(t) = m /\ t # {}
        BY <2>3, <3>1, MaxIs
      <4>2. t \ {m} \in SUBSET (1..m) /\ m \notin t \ {m}
        OBVIOUS
      <4>3. d[t \ {m}] = e[t \ {m}]
        BY <2>4, <4>2
      <4> QED BY <2>4, <3>1, <4>1, <4>3
    <3>2. CASE m \notin t
      <4>1. t \in SUBSET (1..k)
        BY <2>3, <3>2
      <4>2. PICK x : x = Max(t)
        OBVIOUS
      <4>3. t \ {x} \in SUBSET (1..m) /\ m \notin t \ {x}
        BY <3>2
      <4>4. d[t \ {x}] = e[t \ {x}] /\ d[t] = e[t]
        BY <2>4, <3>2, <4>3
      <4>5. e[t] = IF t = {} THEN b ELSE MeaningStep(e[t \ {x}], s[x])
        BY <2>1, <4>1, <4>2 DEF Meanings
      <4> QED BY <4>2, <4>4, <4>5
    <3> QED BY <3>1, <3>2
  <2>6. DOMAIN d = SUBSET (1..m) /\ d = [t \in SUBSET (1..m) |-> d[t]]
    BY <2>4
  <2>7. Eqn(m, d)
    BY <2>5, <2>6 DEF Meanings
  <2> QED BY <2>2, <2>7
<1> HIDE DEF Some
<1>3. 0 \in T /\ \A k \in Nat : k \in T => k + 1 \in T
  BY <1>1, <1>2
<1>4. n \in T
  <2> HIDE DEF T
  <2> QED BY <1>3, Induct
<1>5. Some(n)
  BY <1>4
<1> QED BY <1>5 DEF Some

LEMMA MeaningFold ==
  ASSUME NEW n \in Nat, NEW s, DOMAIN s = 1..n, NEW b
  PROVE  \E f : Meant(b, s, n, f) /\ FoldLeft(MeaningStep, b, s) = f[n]
<1> DEFINE D == DOMAIN s
           Eqn(g) == g = [t \in SUBSET D |-> IF t = {} THEN b ELSE MeaningStep(g[t \ {Max(t)}], s[Max(t)])]
<1>1. FoldLeft(MeaningStep, b, s) = (CHOOSE g : Eqn(g))[D]
  BY DEF FoldLeft, MapThenFoldSet
<1>2. D = 1..n
  OBVIOUS
<1> HIDE DEF D
<1>3. PICK e : Meanings(b, s, n, e)
  BY MeaningTable
<1>10. Eqn(e)
  BY <1>2, <1>3 DEF Meanings
<1>4. PICK g : g = (CHOOSE h : Eqn(h))
  OBVIOUS
<1>5. Eqn(g)
  BY <1>10, <1>4, Zenon
<1>6. PICK f : f = [i \in 0..n |-> g[1..i]]
  OBVIOUS
<1>7. f[0] = b
  <2>1. 1..0 = {} /\ {} \in SUBSET D /\ 0 \in 0..n
    OBVIOUS
  <2> QED BY <1>5, <1>6, <2>1
<1>8. ASSUME NEW i \in 1..n PROVE f[i] = MeaningStep(f[i - 1], s[i])
  <2>1. PICK t : t = 1..i
    OBVIOUS
  <2>2. t \in SUBSET D /\ t # {} /\ Max(t) = i /\ t \ {i} = 1..(i - 1)
    BY <1>2, <2>1, FirstPlaces
  <2>3. g[t] = MeaningStep(g[t \ {Max(t)}], s[Max(t)])
    BY <1>5, <2>2
  <2>4. f[i] = g[1..i] /\ f[i - 1] = g[1..(i - 1)]
    BY <1>6
  <2> QED BY <2>1, <2>2, <2>3, <2>4
<1>9. f[n] = g[D]
  BY <1>2, <1>6
<1> QED BY <1>1, <1>4, <1>7, <1>8, <1>9 DEF Meant

LEMMA MeantOnly ==
  ASSUME NEW n \in Nat, NEW s, NEW t, NEW b, NEW f, NEW g, Meant(b, s, n, f), Meant(b, t, n, g),
         \A i \in 1..n : s[i] = t[i]
  PROVE  f[n] = g[n]
<1> DEFINE T == {i \in Nat : i <= n => f[i] = g[i]}
<1>1. 0 \in T
  BY DEF Meant
<1>2. ASSUME NEW i \in Nat, i \in T PROVE i + 1 \in T
  <2>1. SUFFICES ASSUME i + 1 <= n PROVE f[i + 1] = g[i + 1]
    OBVIOUS
  <2>2. PICK j : j = i + 1
    OBVIOUS
  <2>3. j \in 1..n /\ j - 1 = i /\ f[i] = g[i]
    BY <1>2, <2>1, <2>2
  <2>4. f[j] = MeaningStep(f[i], s[j]) /\ g[j] = MeaningStep(g[i], t[j])
    BY <2>3 DEF Meant
  <2> QED BY <2>2, <2>3, <2>4
<1>3. n \in T
  <2> HIDE DEF T
  <2> QED BY <1>1, <1>2, Induct
<1> QED BY <1>3

\* What the first i operations make of the parameters.
Begun == [env |-> [n \in Names |-> IF n \in DOMAIN input THEN input[n] ELSE 0], error |-> None, done |-> <<>>]
MeaningAt(i) == FoldLeft(MeaningStep, Begun, First(i))

LEMMA MeaningsAre ==
  ASSUME Loaded
  PROVE  /\ MeaningAt(0) = Begun
         /\ \A i \in 1..Count : MeaningAt(i) = MeaningStep(MeaningAt(i - 1), OpLines(source)[i])
         /\ Outcome = MeaningAt(Count)
<1>1. PICK s, n, b : s = OpLines(source) /\ n = Count /\ b = Begun
  OBVIOUS
<1>2. /\ n \in Nat /\ DOMAIN s = 1..n
      /\ \A i \in 0..n : DOMAIN First(i) = 1..i /\ \A k \in 1..i : First(i)[k] = s[k]
  BY <1>1, FirstIs
<1>3. ASSUME NEW i \in 0..n
      PROVE  \E f : Meant(b, s, i, f) /\ MeaningAt(i) = f[i]
  <2>1. PICK q : q = First(i)
    OBVIOUS
  <2>2. i \in Nat /\ DOMAIN q = 1..i /\ \A k \in 1..i : q[k] = s[k]
    BY <1>2, <2>1
  <2>3. PICK f : Meant(b, q, i, f) /\ FoldLeft(MeaningStep, b, q) = f[i]
    BY <2>2, MeaningFold
  <2>4. Meant(b, s, i, f)
    BY <2>2, <2>3 DEF Meant
  <2> QED BY <1>1, <2>1, <2>3, <2>4 DEF MeaningAt
<1>4. MeaningAt(0) = b
  <2>1. 0 \in 0..n
    BY <1>2
  <2> QED BY <1>3, <2>1 DEF Meant
<1>5. ASSUME NEW i \in 1..n PROVE MeaningAt(i) = MeaningStep(MeaningAt(i - 1), s[i])
  <2>1. PICK j : j = i - 1
    OBVIOUS
  <2>2. j \in Nat /\ j \in 0..n /\ i \in 0..n /\ i \in 1..i /\ \A k \in 1..j : k \in 1..i
    BY <1>2, <2>1
  <2>3. PICK f : Meant(b, s, i, f) /\ MeaningAt(i) = f[i]
    BY <1>3, <2>2
  <2>4. PICK g : Meant(b, s, j, g) /\ MeaningAt(j) = g[j]
    BY <1>3, <2>2
  <2>5. f[i] = MeaningStep(f[i - 1], s[i]) /\ Meant(b, s, j, f)
    BY <2>2, <2>3 DEF Meant
  <2>6. f[j] = g[j]
    BY <2>2, <2>4, <2>5, MeantOnly
  <2> QED BY <2>1, <2>3, <2>4, <2>5, <2>6
<1>6. Outcome = MeaningAt(n)
  <2>1. n \in 0..n
    BY <1>2
  <2>2. PICK g : Meant(b, s, n, g) /\ MeaningAt(n) = g[n]
    BY <1>3, <2>1
  <2>3. PICK f : Meant(b, s, n, f) /\ FoldLeft(MeaningStep, b, s) = f[n]
    BY <1>2, MeaningFold
  <2>4. f[n] = g[n]
    BY <1>2, <2>2, <2>3, MeantOnly
  <2>5. Outcome = FoldLeft(MeaningStep, b, s)
    BY <1>1 DEF Outcome, Begun
  <2> QED BY <2>2, <2>3, <2>4, <2>5
<1> QED BY <1>1, <1>4, <1>5, <1>6

\* A line that cannot be carried out is the last.
LEMMA ErrorStays ==
  ASSUME Loaded, NEW i \in 0..Count, MeaningAt(i).error # None
  PROVE  Outcome = MeaningAt(i)
<1> DEFINE T == {j \in Nat : i <= j /\ j <= Count => MeaningAt(j) = MeaningAt(i)}
<1>1. PICK n : n = Count
  OBVIOUS
<1>2. n \in Nat /\ i \in Nat /\ i <= n
  BY <1>1, FirstIs
<1>3. 0 \in T
  BY <1>2
<1>4. ASSUME NEW j \in Nat, j \in T PROVE j + 1 \in T
  <2>1. SUFFICES ASSUME i <= j + 1, j + 1 <= n PROVE MeaningAt(j + 1) = MeaningAt(i)
    BY <1>1
  <2>2. CASE j + 1 = i
    BY <2>2
  <2>3. CASE j + 1 # i
    <3>1. MeaningAt(j) = MeaningAt(i) /\ j + 1 \in 1..Count /\ (j + 1) - 1 = j
      BY <1>1, <1>2, <1>4, <2>1, <2>3
    <3>2. MeaningAt(j + 1) = MeaningStep(MeaningAt(j), OpLines(source)[j + 1])
      BY <3>1, MeaningsAre
    <3> QED BY <3>1, <3>2 DEF MeaningStep
  <2> QED BY <2>2, <2>3
<1>5. n \in T
  <2> HIDE DEF T
  <2> QED BY <1>2, <1>3, <1>4, Induct
<1> QED BY <1>1, <1>2, <1>5, MeaningsAre

----------------------------------------------------------------------------
(* The local names, in the order they were introduced: the machine's stack. *)

LocalsAt(i) == LocalNames(First(i))
Depth(i) == Len(LocalsAt(i))

LEMMA NamesAppended ==
  ASSUME NEW S, NEW q \in Seq(S), NEW line
  PROVE  NamesOf(Append(q, line)) = Append(NamesOf(q), line.args[1])
<1>1. PICK n : n = Len(q)
  OBVIOUS
<1>2. n \in Nat /\ DOMAIN q = 1..n /\ n + 1 \in Nat
  BY <1>1
<1>3. PICK r : r = Append(q, line)
  OBVIOUS
<1>4. DOMAIN r = 1..(n + 1) /\ \A i \in 1..n : r[i] = q[i]
  BY <1>1, <1>2, <1>3
<1>5. r[n + 1] = line
  BY <1>1, <1>2, <1>3
<1>6. PICK T : T = {q[i].args[1] : i \in 1..n}
  OBVIOUS
<1>7. PICK p : p = NamesOf(q)
  OBVIOUS
<1>8. p \in [1..n -> T] /\ \A i \in 1..n : p[i] = q[i].args[1]
  BY <1>2, <1>6, <1>7 DEF NamesOf
<1>9. p \in Seq(T) /\ Len(p) = n
  BY <1>2, <1>8, FunctionIsSeq
<1>10. PICK z, x : x = line.args[1] /\ z = Append(p, x)
  OBVIOUS
<1>11. DOMAIN z = 1..(n + 1) /\ (\A i \in 1..n : z[i] = p[i]) /\ z[n + 1] = x /\ z = [i \in 1..(n + 1) |-> z[i]]
  BY <1>2, <1>9, <1>10
<1>12. \A i \in 1..(n + 1) : z[i] = r[i].args[1]
  <2>1. ASSUME NEW i \in 1..(n + 1), i \in 1..n PROVE z[i] = r[i].args[1]
    BY <1>4, <1>8, <1>11, <2>1
  <2>2. z[n + 1] = r[n + 1].args[1]
    BY <1>5, <1>10, <1>11
  <2>3. \A i \in 1..(n + 1) : i \in 1..n \/ i = n + 1
    BY <1>2
  <2> QED BY <2>1, <2>2, <2>3
<1>13. NamesOf(r) = [i \in 1..(n + 1) |-> r[i].args[1]]
  BY <1>4 DEF NamesOf
<1> QED BY <1>3, <1>7, <1>10, <1>11, <1>12, <1>13

LEMMA LocalsPicked ==
  ASSUME Loaded
  PROVE  /\ \A i \in 0..Count : Relevant(First(i), {"local"}) \in Seq(Range(source))
         /\ Relevant(First(0), {"local"}) = <<>>
         /\ \A i \in 1..Count :
              Relevant(First(i), {"local"}) =
                IF OpLines(source)[i].cmd = "local" THEN Append(Relevant(First(i - 1), {"local"}), OpLines(source)[i])
                ELSE Relevant(First(i - 1), {"local"})
<1>1. PICK s, n, S : s = OpLines(source) /\ n = Count /\ S = Range(source)
  OBVIOUS
<1>2. /\ n \in Nat /\ DOMAIN s = 1..n /\ s \in Seq(S)
      /\ \A i \in 0..n : DOMAIN First(i) = 1..i /\ \A k \in 1..i : First(i)[k] = s[k]
  BY <1>1, FirstIs, LinesAre DEF AreLines
<1> DEFINE T(i) == {k \in DOMAIN First(i) : First(i)[k].cmd \in {"local"}}
           R(i) == Relevant(First(i), {"local"})
<1>3. ASSUME NEW i \in 0..n
      PROVE  /\ First(i) \in Seq(S) /\ Len(First(i)) = i /\ i \in Nat
             /\ \A k \in 1..i : First(i)[k] = s[k] /\ (k \in T(i) <=> s[k].cmd = "local")
  <2>1. PICK q : q = First(i)
    OBVIOUS
  <2>2. i \in Nat /\ DOMAIN q = 1..i /\ \A k \in 1..i : q[k] = s[k] /\ k \in 1..n
    BY <1>2, <2>1
  <2>3. q = SubSeq(s, 1, i)
    BY <1>1, <2>1 DEF First
  <2>4. q \in Seq(S) /\ Len(q) = i
    BY <1>2, <2>2, <2>3
  <2> QED BY <2>1, <2>2, <2>4
<1>4. ASSUME NEW i \in 0..n
      PROVE  \E f \in [0..i -> Seq(S)] : Picking(First(i), T(i), f) /\ R(i) = f[i]
  <2>1. PICK q, U : q = First(i) /\ U = T(i)
    OBVIOUS
  <2>2. q \in Seq(S) /\ Len(q) = i
    BY <1>3, <2>1
  <2>3. PICK f \in [0..Len(q) -> Seq(S)] : Picking(q, U, f) /\ Selected(q, U) = f[Len(q)]
    BY <2>2, SelectedIs
  <2> QED BY <2>1, <2>2, <2>3 DEF Relevant
<1> HIDE DEF T
<1>5. ASSUME NEW i \in 0..n PROVE R(i) \in Seq(S)
  <2>1. i \in 0..i
    BY <1>2
  <2> QED BY <1>4, <2>1
<1>6. R(0) = <<>>
  <2>1. 0 \in 0..n
    BY <1>2
  <2> QED BY <1>4, <2>1 DEF Picking
<1>7. ASSUME NEW i \in 1..n
      PROVE  R(i) = IF s[i].cmd = "local" THEN Append(R(i - 1), s[i]) ELSE R(i - 1)
  <2>1. PICK j : j = i - 1
    OBVIOUS
  <2>2. j \in Nat /\ j \in 0..n /\ i \in 0..n /\ i \in 1..i /\ j <= i /\ \A k \in 1..j : k \in 1..i
    BY <1>2, <2>1
  <2>3. PICK f : Picking(First(i), T(i), f) /\ R(i) = f[i]
    BY <1>4, <2>2
  <2>4. PICK g : Picking(First(j), T(j), g) /\ R(j) = g[j]
    BY <1>4, <2>2
  <2>5. /\ Len(First(i)) = i /\ Len(First(j)) = j
        /\ \A k \in 1..i : First(i)[k] = s[k] /\ (k \in T(i) <=> s[k].cmd = "local")
        /\ \A k \in 1..j : First(j)[k] = s[k] /\ (k \in T(j) <=> s[k].cmd = "local")
    BY <1>3, <2>2
  <2>6. Alike(First(i), T(i), First(j), T(j), j)
    BY <2>2, <2>5 DEF Alike
  <2>7. f[j] = g[j]
    BY <2>3, <2>4, <2>6, PickingOnly
  <2>8. f[i] = IF i \in T(i) THEN Append(f[i - 1], First(i)[i]) ELSE f[i - 1]
    BY <2>2, <2>3, <2>5 DEF Picking
  <2> QED BY <2>1, <2>2, <2>3, <2>4, <2>5, <2>7, <2>8
<1> QED BY <1>1, <1>5, <1>6, <1>7

LEMMA LocalsAre ==
  ASSUME Loaded
  PROVE  /\ LocalsAt(0) = <<>>
         /\ \A i \in 1..Count :
              LocalsAt(i) = IF OpLines(source)[i].cmd = "local" THEN Append(LocalsAt(i - 1), OpLines(source)[i].args[1])
                            ELSE LocalsAt(i - 1)
         /\ \A i \in 0..Count : LocalsAt(i) \in Seq({OpLines(source)[k].args[1] : k \in 1..Count})
         /\ LocalsAt(Count) = LocalNames(OpLines(source))
<1>1. PICK s, n, S : s = OpLines(source) /\ n = Count /\ S = Range(source)
  OBVIOUS
<1>2. n \in Nat /\ DOMAIN s = 1..n /\ s \in Seq(S) /\ Len(s) = n
  BY <1>1, FirstIs, LinesAre DEF AreLines, Count
<1> DEFINE R(i) == Relevant(First(i), {"local"})
           N == {s[k].args[1] : k \in 1..n}
<1>3. \A i \in 0..n : LocalsAt(i) = NamesOf(R(i)) /\ R(i) \in Seq(S)
  BY <1>1, LocalsPicked DEF LocalsAt, LocalNames
<1>4. R(0) = <<>> /\ \A i \in 1..n : R(i) = IF s[i].cmd = "local" THEN Append(R(i - 1), s[i]) ELSE R(i - 1)
  BY <1>1, LocalsPicked
<1>5. LocalsAt(0) = <<>>
  <2>1. 0 \in 0..n /\ DOMAIN <<>> = {}
    BY <1>2
  <2>2. NamesOf(<<>>) = <<>>
    BY <2>1 DEF NamesOf
  <2> QED BY <1>3, <1>4, <2>1, <2>2
<1> HIDE DEF R
<1>6. ASSUME NEW i \in 1..n
      PROVE  LocalsAt(i) = IF s[i].cmd = "local" THEN Append(LocalsAt(i - 1), s[i].args[1]) ELSE LocalsAt(i - 1)
  <2>1. PICK j : j = i - 1
    OBVIOUS
  <2>2. j \in 0..n /\ i \in 0..n
    BY <1>2, <2>1
  <2>3. LocalsAt(j) = NamesOf(R(j)) /\ LocalsAt(i) = NamesOf(R(i)) /\ R(j) \in Seq(S)
    BY <1>3, <2>2
  <2>4. NamesOf(Append(R(j), s[i])) = Append(NamesOf(R(j)), s[i].args[1])
    BY <2>3, NamesAppended
  <2>5. R(i) = IF s[i].cmd = "local" THEN Append(R(j), s[i]) ELSE R(j)
    BY <1>4, <2>1
  <2> QED BY <2>1, <2>3, <2>4, <2>5
<1>7. \A i \in 0..n : LocalsAt(i) \in Seq(N)
  <2> DEFINE T == {i \in Nat : i <= n => LocalsAt(i) \in Seq(N)}
  <2>1. 0 \in T
    <3>1. <<>> \in Seq(N)
      OBVIOUS
    <3> HIDE DEF N
    <3> QED BY <1>5, <3>1
  <2>2. ASSUME NEW i \in Nat, i \in T PROVE i + 1 \in T
    <3>1. SUFFICES ASSUME i + 1 <= n PROVE LocalsAt(i + 1) \in Seq(N)
      OBVIOUS
    <3>2. PICK j : j = i + 1
      OBVIOUS
    <3>3. j \in 1..n /\ j - 1 = i /\ LocalsAt(i) \in Seq(N) /\ s[j].args[1] \in N
      BY <1>2, <2>2, <3>1, <3>2
    <3>4. LocalsAt(j) = IF s[j].cmd = "local" THEN Append(LocalsAt(i), s[j].args[1]) ELSE LocalsAt(i)
      BY <1>6, <3>3
    <3>5. Append(LocalsAt(i), s[j].args[1]) \in Seq(N)
      BY <3>3
    <3> QED BY <3>2, <3>3, <3>4, <3>5
  <2>3. \A i \in Nat : i \in T
    <3> HIDE DEF T
    <3> QED BY <2>1, <2>2, Induct
  <2> QED BY <1>2, <2>3
<1>8. LocalsAt(n) = LocalNames(s)
  <2>1. PICK q : q = First(n)
    OBVIOUS
  <2>2. q = SubSeq(s, 1, n)
    BY <1>1, <2>1 DEF First
  <2>3. q \in Seq(S) /\ Len(q) = n /\ \A k \in 1..n : q[k] = s[k]
    BY <1>2, <2>2
  <2>4. q = s
    BY <1>2, <2>3, SeqEqual
  <2> QED BY <2>1, <2>4 DEF LocalsAt
<1> QED BY <1>1, <1>5, <1>6, <1>7, <1>8

LEMMA LocalsGrow ==
  ASSUME Loaded, NEW i \in 0..Count, NEW j \in 0..Count, j <= i
  PROVE  /\ Depth(i) \in Nat /\ DOMAIN LocalsAt(i) = 1..Depth(i) /\ Depth(j) \in Nat
         /\ Depth(j) <= Depth(i) /\ \A k \in 1..Depth(j) : LocalsAt(i)[k] = LocalsAt(j)[k]
<1>1. PICK n, s, N : n = Count /\ s = OpLines(source) /\ N = {s[k].args[1] : k \in 1..n}
  OBVIOUS
<1>2. /\ n \in Nat /\ \A h \in 0..n : LocalsAt(h) \in Seq(N)
      /\ \A h \in 1..n : LocalsAt(h) = IF s[h].cmd = "local" THEN Append(LocalsAt(h - 1), s[h].args[1])
                                    ELSE LocalsAt(h - 1)
  BY <1>1, LocalsAre, FirstIs
<1> DEFINE Within(h) == Depth(j) <= Depth(h) /\ \A k \in 1..Depth(j) : LocalsAt(h)[k] = LocalsAt(j)[k]
           T == {h \in Nat : j <= h /\ h <= n => Within(h)}
<1>3. \A h \in 0..n : Depth(h) \in Nat /\ DOMAIN LocalsAt(h) = 1..Depth(h)
  BY <1>2 DEF Depth
<1>4. j \in Nat /\ j \in 0..n
  BY <1>1, <1>2
<1>5. Within(j)
  BY <1>3, <1>4
<1>6. 0 \in T
  <2>1. j <= 0 => j = 0
    BY <1>4
  <2> QED BY <1>5, <2>1
<1>7. ASSUME NEW h \in Nat, h \in T PROVE h + 1 \in T
  <2>1. SUFFICES ASSUME j <= h + 1, h + 1 <= n PROVE Within(h + 1)
    OBVIOUS
  <2>2. PICK m : m = h + 1
    OBVIOUS
  <2>3. CASE j = m
    BY <1>5, <2>2, <2>3
  <2>4. CASE j # m
    <3>1. m \in 1..n /\ m - 1 = h /\ h \in 0..n /\ m \in 0..n
      BY <1>2, <2>1, <2>2
    <3>2. j <= h /\ h <= n
      BY <1>4, <2>1, <2>2, <2>4, <3>1
    <3>3. Within(h)
      BY <1>7, <3>2
    <3>4. PICK q, p, x : q = LocalsAt(h) /\ p = LocalsAt(m) /\ x = s[m].args[1]
      OBVIOUS
    <3>5. x \in N /\ q \in Seq(N) /\ (p = Append(q, x) \/ p = q)
      BY <1>1, <1>2, <3>1, <3>4
    <3>6. Len(q) <= Len(p) /\ \A k \in 1..Len(q) : p[k] = q[k]
      BY <3>5
    <3>7. \A k \in 1..Depth(j) : k \in 1..Depth(h)
      BY <1>3, <1>4, <3>1, <3>3
    <3>8. Depth(j) <= Depth(h) /\ Depth(h) <= Depth(m) /\ Depth(j) \in Nat /\ Depth(h) \in Nat /\ Depth(m) \in Nat
      BY <1>3, <1>4, <3>1, <3>3, <3>4, <3>6 DEF Depth
    <3>9. Depth(j) <= Depth(m)
      BY <3>8
    <3>10. \A k \in 1..Depth(h) : LocalsAt(m)[k] = LocalsAt(h)[k]
      BY <3>4, <3>6 DEF Depth
    <3> QED BY <2>2, <3>3, <3>7, <3>9, <3>10
  <2> QED BY <2>2, <2>3, <2>4
<1>8. i \in T
  <2>1. i \in Nat
    BY <1>1, <1>2
  <2> HIDE DEF T
  <2> QED BY <1>6, <1>7, <2>1, Induct
<1>9. Within(i)
  BY <1>1, <1>2, <1>8
<1> QED BY <1>1, <1>3, <1>9

\* No local has the name of another, or of a variable of the table.
Apart(q) ==
  /\ Len(q) \in Nat /\ DOMAIN q = 1..Len(q)
  /\ \A j, k \in 1..Len(q) : q[j] = q[k] => j = k
  /\ \A k \in 1..Len(q) : ~IsAllocated(q[k]) /\ q[k] \in Names

LEMMA LocalsApart ==
  ASSUME Loaded, DistinctNames, NEW i \in 0..Count
  PROVE  Apart(LocalsAt(i))
<1>1. PICK n, m, a, q, p, z : n = Size /\ a = AllocNames /\ q = LocalsAt(i) /\ p = LocalsAt(Count) /\ m = Len(p) /\ z = a \o p
  OBVIOUS
<1>2. Count \in 0..Count /\ i <= Count /\ Count \in Nat
  BY FirstIs
<1>3. /\ Len(q) \in Nat /\ DOMAIN q = 1..Len(q) /\ m \in Nat /\ DOMAIN p = 1..m
      /\ Len(q) <= m /\ \A k \in 1..Len(q) : p[k] = q[k]
  BY <1>1, <1>2, LocalsGrow DEF Depth
<1>4. n \in Nat /\ DOMAIN a = 1..n /\ Len(a) = n /\ \A v \in 1..n : a[v] = Name(v)
  BY <1>1, AllocNamesAre
<1>5. p = LocalNames(OpLines(source))
  BY <1>1, LocalsAre
<1>6. \A j, k \in DOMAIN z : z[j] = z[k] => j = k
  BY <1>1, <1>5 DEF DistinctNames, IsInjective
<1>7. DOMAIN z = 1..(n + m) /\ (\A v \in 1..n : z[v] = a[v]) /\ \A k \in 1..m : z[n + k] = p[k]
  <2>1. PICK S : S = {a[v] : v \in 1..n} \cup {p[k] : k \in 1..m}
    OBVIOUS
  <2>2. p \in Seq({OpLines(source)[k].args[1] : k \in 1..Count})
    BY <1>1, <1>2, LocalsAre
  <2>3. p = [k \in 1..m |-> p[k]] /\ a = [v \in 1..n |-> a[v]]
    <3>1. a = [v \in DOMAIN AllocLines(source) |-> AllocLines(source)[v].args[1]]
      BY <1>1 DEF AllocNames, NamesOf
    <3>2. a = [v \in 1..n |-> a[v]]
      BY <1>4, <3>1
    <3>3. p = [k \in 1..m |-> p[k]]
      BY <1>1, <1>3, <2>2
    <3> QED BY <3>2, <3>3
  <2>4. p \in [1..m -> S] /\ a \in [1..n -> S]
    BY <2>1, <2>3
  <2>5. p \in Seq(S) /\ a \in Seq(S) /\ Len(p) = m /\ Len(a) = n
    BY ONLY <1>3, <1>4, <2>4, FunctionIsSeq, m \in Nat, n \in Nat
  <2>6. z = a \o p
    BY <1>1
  <2>7. z \in Seq(S) /\ Len(z) = Len(a) + Len(p) /\ \A k \in 1..Len(a) : z[k] = a[k]
    <3>1. a \in Seq(S) /\ p \in Seq(S)
      BY <2>5
    <3>2. z \in Seq(S) 
      BY ONLY <3>1, <2>6
    <3>3. Len(z) = Len(a) + Len(p)
      BY ONLY <3>1, <2>6
    <3>4. \A k \in 1..Len(a) : z[k] = a[k]
      BY ONLY <3>1, <2>6
    <3> QED BY <3>2, <3>3, <3>4
  <2>8. \A k \in 1..Len(p) : z[Len(a) + k] = p[k]
    BY ONLY <2>5, <2>6
  <2> QED BY <2>5, <2>7, <2>8
<1>8. \A k \in 1..Len(q) : k \in 1..m /\ n + k \in 1..(n + m) /\ z[n + k] = q[k]
  <2>1. ASSUME NEW k \in 1..Len(q) PROVE k \in 1..m /\ n + k \in 1..(n + m)
    BY <1>3, <1>4
  <2> QED BY <1>3, <1>7, <2>1
<1>9. ASSUME NEW j \in 1..Len(q), NEW k \in 1..Len(q), q[j] = q[k] PROVE j = k
  <2>1. n + j = n + k
    BY <1>6, <1>7, <1>8, <1>9
  <2> QED BY <1>3, <1>4, <2>1
<1>10. ASSUME NEW k \in 1..Len(q), IsAllocated(q[k]) PROVE FALSE
  <2>1. PICK v : v = Place(q[k])
    OBVIOUS
  <2>2. v \in 1..n /\ a[v] = q[k]
    BY <1>1, <1>4, <1>10, <2>1, PlaceIs
  <2>3. v \in 1..(n + m) /\ z[v] = z[n + k]
    BY <1>3, <1>4, <1>7, <1>8, <2>2
  <2>4. v = n + k
    BY <1>6, <1>7, <1>8, <2>3
  <2> QED BY <1>3, <1>4, <2>2, <2>4
<1>11. ASSUME NEW k \in 1..Len(q) PROVE q[k] \in Names
  <2>1. k \in DOMAIN p /\ p[k] = q[k]
    BY <1>3, <1>8
  <2> QED BY <1>5, <2>1 DEF Names, Range
<1> QED BY <1>1, <1>3, <1>9, <1>10, <1>11 DEF Apart

\* The compiler's table gives a local its place on the stack.
Tabled(table, q) == DOMAIN table = {q[k] : k \in 1..Len(q)} /\ \A k \in 1..Len(q) : table[q[k]] = k

LEMMA LocalsTabled ==
  ASSUME Loaded, DistinctNames
  PROVE  \A i \in 0..Count : Tabled(VarsAt(i), LocalsAt(i))
<1>1. PICK n, s : n = Count /\ s = OpLines(source)
  OBVIOUS
<1>2. n \in Nat
  BY <1>1, FirstIs
<1> DEFINE T == {i \in Nat : i <= n => Tabled(VarsAt(i), LocalsAt(i))}
<1>3. 0 \in T
  <2>1. VarsAt(0) = <<>> /\ LocalsAt(0) = <<>>
    BY VarsAre, LocalsAre
  <2>2. Tabled(<<>>, <<>>)
    <3>1. Len(<<>>) = 0 /\ DOMAIN <<>> = {} /\ 1..0 = {}
      OBVIOUS
    <3> QED BY <3>1 DEF Tabled
  <2> QED BY <2>1, <2>2
<1>4. ASSUME NEW i \in Nat, i \in T PROVE i + 1 \in T
  <2>1. SUFFICES ASSUME i + 1 <= n PROVE Tabled(VarsAt(i + 1), LocalsAt(i + 1))
    OBVIOUS
  <2>2. PICK j : j = i + 1
    OBVIOUS
  <2>3. j \in 1..n /\ j - 1 = i /\ i \in 0..n /\ j \in 0..n
    BY <1>2, <2>1, <2>2
  <2>4. PICK table, q, d, p, x : table = VarsAt(i) /\ q = LocalsAt(i) /\ d = VarsAt(j) /\ p = LocalsAt(j) /\ x = s[j].args[1]
    OBVIOUS
  <2>5. Tabled(table, q)
    BY <1>4, <2>3, <2>4
  <2>6. Apart(q) /\ Apart(p) /\ q \in Seq({s[k].args[1] : k \in 1..n})
    BY <1>1, <2>3, <2>4, LocalsApart, LocalsAre
  <2>7. d = IF s[j].cmd = "local" THEN Declare(table, x) ELSE table
    BY <1>1, <2>3, <2>4, VarsAre DEF VarStep
  <2>8. p = IF s[j].cmd = "local" THEN Append(q, x) ELSE q
    BY <1>1, <2>3, <2>4, LocalsAre
  <2>9. CASE s[j].cmd # "local"
    BY <2>2, <2>4, <2>5, <2>7, <2>8, <2>9
  <2>10. CASE s[j].cmd = "local"
    <3>1. PICK m : m = Len(q)
      OBVIOUS
    <3>2. m \in Nat /\ DOMAIN q = 1..m /\ m + 1 \in Nat
      BY <2>6, <3>1 DEF Apart
    <3>3. Len(p) = m + 1 /\ (\A k \in 1..m : p[k] = q[k]) /\ p[m + 1] = x
      BY <2>6, <2>8, <2>10, <3>1, <3>2
    <3>4. \A k \in 1..m : q[k] # x
      <4>1. ASSUME NEW k \in 1..m, q[k] = x PROVE FALSE
        <5>1. k \in 1..(m + 1) /\ m + 1 \in 1..(m + 1) /\ p[k] = p[m + 1]
          BY <3>2, <3>3, <4>1
        <5>2. k = m + 1
          BY <2>6, <3>3, <5>1 DEF Apart
        <5> QED BY <3>2, <5>2
      <4> QED BY <4>1
    <3>5. PICK U : U = DOMAIN table
      OBVIOUS
    <3>6. U = {q[k] : k \in 1..m} /\ \A k \in 1..m : table[q[k]] = k
      BY <2>5, <3>1, <3>5 DEF Tabled
    <3>7. Cardinality(U) = m
      <4>1. q \in [1..m -> U]
        <5>1. q = [k \in 1..m |-> q[k]]
          BY <2>6, <3>1, <3>2
        <5> QED BY <3>6, <5>1
      <4>2. \A j1, k1 \in 1..m : j1 # k1 => q[j1] # q[k1]
        BY <2>6, <3>1 DEF Apart
      <4>3. \A y \in U : \E k \in 1..m : q[k] = y
        BY <3>6
      <4> QED BY <3>2, <4>1, <4>2, <4>3, ListingSize
    <3>8. table \in Tables(Symbols) /\ x \in Symbols /\ IsFiniteSet(Symbols)
      BY <1>1, <2>3, <2>4, VarsAre DEF Symbols
    <3>9. /\ DOMAIN d = U \cup {x} /\ d[x] = m + 1
          /\ \A y \in U : y # x => d[y] = table[y]
      <4>1. PICK N, g : N = Symbols /\ g = Declare(table, x)
        OBVIOUS
      <4>2. IsFiniteSet(N) /\ table \in Tables(N) /\ x \in N
        BY <3>8, <4>1
      <4>3. /\ DOMAIN g = DOMAIN table \cup {x} /\ g[x] = Cardinality(DOMAIN table) + 1
            /\ \A y \in DOMAIN table : y # x => g[y] = table[y]
        BY ONLY <4>1, <4>2, DeclareIs
      <4>4. d = g
        BY <2>7, <2>10, <4>1
      <4> QED BY <3>5, <3>7, <4>3, <4>4
    <3>10. \A k \in 1..(m + 1) : k \in 1..m \/ k = m + 1
      BY <3>2
    <3>11. \A k \in 1..(m + 1) : d[p[k]] = k
      <4>1. ASSUME NEW k \in 1..m PROVE d[p[k]] = k
        BY <3>3, <3>4, <3>6, <3>9
      <4> QED BY <3>3, <3>9, <3>10, <4>1
    <3>12. DOMAIN d = {p[k] : k \in 1..(m + 1)}
      <4>1. \A k \in 1..m : k \in 1..(m + 1)
        BY <3>2
      <4>2. m + 1 \in 1..(m + 1)
        BY <3>2
      <4> QED BY <3>3, <3>6, <3>9, <3>10, <4>1, <4>2
    <3> QED BY <2>2, <2>4, <3>3, <3>11, <3>12 DEF Tabled
  <2> QED BY <2>9, <2>10
<1>5. \A i \in Nat : i \in T
  <2> HIDE DEF T
  <2> QED BY <1>3, <1>4, Induct
<1> QED BY <1>1, <1>2, <1>5

----------------------------------------------------------------------------
(* The memories show what the source means.                                *)

State(e, d) == [env |-> e, error |-> None, done |-> d]

\* The variables are in aux, and the locals q in the local stack.
Shows(e, q, a, m) ==
  /\ e \in [Names -> Scalars]
  /\ \A v \in 1..Size : a[v] = e[Name(v)]
  /\ Len(m) = Len(q) /\ \A k \in 1..Len(q) : m[k] = e[q[k]]

\* The first i lines have been carried out.
Mirrors(i, a, m) == \E e : MeaningAt(i) = State(e, First(i)) /\ Shows(e, LocalsAt(i), a, m)

LEMMA SameOutcome ==
  ASSUME UNCHANGED <<source, input>>
  PROVE  Outcome' = Outcome
BY DEF Outcome, FoldLeft, MapThenFoldSet, MeaningStep, Meaning, Names, AllocNames, NameRange, Position

LEMMA SameMirrors ==
  ASSUME UNCHANGED <<source, input>>
  PROVE  \A i, a, m : Mirrors(i, a, m)' <=> Mirrors(i, a, m)
<1>1. Size' = Size /\ Names' = Names /\ AllocLines(source)' = AllocLines(source)
  BY DEF Names, AllocNames, Size
<1>2. \A i : MeaningAt(i)' = MeaningAt(i)
  BY DEF MeaningAt, Begun, First, FoldLeft, MapThenFoldSet, MeaningStep, Meaning, Names, AllocNames, NameRange, Position
<1> QED BY <1>1, <1>2 DEF Mirrors, Shows, LocalsAt, First, Name


LEMMA AllocatedNames ==
  ASSUME Loaded
  PROVE  \A v \in 1..Size : Name(v) \in Names
<1>1. Range(AllocNames) = {Name(v) : v \in 1..Size}
  BY AllocNamesAre
<1> QED BY <1>1 DEF Names

\* A reference leads to the value of its variable.
LEMMA ShowsGet ==
  ASSUME Loaded, NEW q, NEW table, Apart(q), Tabled(table, q), NEW e, Shows(e, q, aux, local), MachineType,
         NEW s, NEW ref, IsRef(ref), RefIs(s, ref, table)
  PROVE  InRange(ref) /\ Get(ref) = e[s] /\ s \in Names
<1>1. Size \in Nat /\ DOMAIN aux = 1..Size
  BY AllocIs DEF MachineType, Filled
<1>2. Len(local) = Len(q) /\ DOMAIN local = 1..Len(q)
  BY DEF Shows, MachineType
<1>3. CASE IsAllocated(s)
  <2>1. PICK v : v = Place(s)
    OBVIOUS
  <2>2. v \in 1..Size /\ Name(v) = s
    BY <1>3, <2>1, PlaceIs
  <2>3. ref.mem = "aux" /\ ref.index = v
    BY <1>3, <2>1 DEF RefIs
  <2>4. Memory(ref) = aux
    BY <2>3 DEF Memory
  <2>5. s \in Names
    BY <2>2, AllocatedNames
  <2> QED BY <1>1, <2>2, <2>3, <2>4, <2>5 DEF InRange, Get, Shows
<1>4. CASE ~IsAllocated(s)
  <2>1. s \in DOMAIN table /\ ref.mem = "local" /\ ref.index = table[s]
    BY <1>4 DEF RefIs
  <2>2. PICK k \in 1..Len(q) : s = q[k] /\ table[s] = k
    BY <2>1 DEF Tabled
  <2>3. Memory(ref) = local
    BY <2>1 DEF Memory
  <2>4. s \in Names
    BY <2>2 DEF Apart
  <2> QED BY <1>2, <2>1, <2>2, <2>3, <2>4 DEF InRange, Get, Shows
<1> QED BY <1>3, <1>4

\* Writing to it changes that variable and no other.
LEMMA ShowsPut ==
  ASSUME Loaded, NEW q, NEW table, Apart(q), Tabled(table, q), NEW e, Shows(e, q, aux, local), MachineType,
         NEW s, NEW ref, IsRef(ref), RefIs(s, ref, table), NEW value \in Scalars, Put(ref, value),
         NEW a, NEW m, a = aux', m = local'
  PROVE  Shows([e EXCEPT ![s] = value], q, a, m)
<1>1. Size \in Nat /\ DOMAIN aux = 1..Size
  BY AllocIs DEF MachineType, Filled
<1>2. Len(local) = Len(q) /\ DOMAIN local = 1..Len(q) /\ local \in Seq(Scalars) /\ Len(q) \in Nat
  BY DEF Shows, MachineType, Apart
<1>3. PICK d : d = [e EXCEPT ![s] = value]
  OBVIOUS
<1>4. s \in Names /\ InRange(ref)
  BY ShowsGet
<1>5. e \in [Names -> Scalars]
  BY DEF Shows
<1>6. d \in [Names -> Scalars] /\ d[s] = value /\ \A y \in Names : y # s => d[y] = e[y]
  BY <1>3, <1>4, <1>5
<1>7. \A v \in 1..Size : Name(v) \in Names
  BY AllocatedNames
<1>8. \A k \in 1..Len(q) : q[k] \in Names /\ ~IsAllocated(q[k])
  BY DEF Apart
<1>9. \A v \in 1..Size : IsAllocated(Name(v)) /\ Place(Name(v)) = v
  BY PlaceIs
<1>10. CASE IsAllocated(s)
  <2>1. PICK w : w = Place(s)
    OBVIOUS
  <2>2. w \in 1..Size /\ Name(w) = s
    BY <1>10, <2>1, PlaceIs
  <2>3. ref.mem = "aux" /\ ref.index = w
    BY <1>10, <2>1 DEF RefIs
  <2>4. a = [aux EXCEPT ![w] = value] /\ m = local
    BY <2>3 DEF Put
  <2>5. ASSUME NEW v \in 1..Size PROVE a[v] = d[Name(v)]
    <3>1. v # w => Name(v) # s
      BY <1>9, <2>2
    <3> QED BY <1>1, <1>6, <1>7, <2>2, <2>4, <3>1 DEF Shows
  <2>6. ASSUME NEW k \in 1..Len(q) PROVE m[k] = d[q[k]]
    <3>1. q[k] # s /\ q[k] \in Names
      BY <1>8, <1>10
    <3> QED BY <1>6, <2>4, <3>1 DEF Shows
  <2> QED BY <1>2, <1>3, <1>6, <2>4, <2>5, <2>6 DEF Shows
<1>11. CASE ~IsAllocated(s)
  <2>1. s \in DOMAIN table /\ ref.mem = "local" /\ ref.index = table[s]
    BY <1>11 DEF RefIs
  <2>2. PICK j \in 1..Len(q) : s = q[j] /\ table[s] = j
    BY <2>1 DEF Tabled
  <2>3. m = [local EXCEPT ![j] = value] /\ a = aux
    BY <2>1, <2>2 DEF Put
  <2>4. m \in Seq(Scalars) /\ Len(m) = Len(q) /\ m[j] = value /\ \A k \in 1..Len(q) : k # j => m[k] = local[k]
    BY <1>2, <2>2, <2>3
  <2>5. ASSUME NEW v \in 1..Size PROVE a[v] = d[Name(v)]
    <3>1. Name(v) # s /\ Name(v) \in Names
      BY <1>7, <1>9, <1>11
    <3> QED BY <1>6, <2>3, <3>1 DEF Shows
  <2>6. ASSUME NEW k \in 1..Len(q) PROVE m[k] = d[q[k]]
    <3>1. q[k] = q[j] => k = j
      BY DEF Apart
    <3>2. q[k] \in Names
      BY <1>8
    <3> QED BY <1>6, <2>2, <2>4, <3>1, <3>2 DEF Shows
  <2> QED BY <1>3, <1>6, <2>4, <2>5, <2>6 DEF Shows
<1> QED BY <1>10, <1>11

\* A new local is the last and zero.
LEMMA ShowsLocal ==
  ASSUME Loaded, NEW q, NEW N, q \in Seq(N), NEW x \in N, NEW p, p = Append(q, x), Apart(p), NEW e,
         Shows(e, q, aux, local), MachineType, NEW m, m = Append(local, 0)
  PROVE  Shows([e EXCEPT ![x] = 0], p, aux, m)
<1>1. PICK n : n = Len(q)
  OBVIOUS
<1>2. n \in Nat /\ Len(p) = n + 1 /\ p[n + 1] = x /\ \A k \in 1..n : p[k] = q[k]
  BY <1>1
<1>3. Len(local) = n /\ local \in Seq(Scalars) /\ 0 \in Scalars
  BY <1>1, FieldIs DEF Shows, MachineType
<1>4. Len(m) = n + 1 /\ m[n + 1] = 0 /\ \A k \in 1..n : m[k] = local[k]
  BY <1>2, <1>3
<1>5. n + 1 \in 1..(n + 1) /\ \A k \in 1..(n + 1) : k \in 1..n \/ k = n + 1
  BY <1>2
<1>6. x \in Names /\ ~IsAllocated(x) /\ \A k \in 1..n : p[k] # x /\ p[k] \in Names
  <2>1. x \in Names /\ ~IsAllocated(x)
    BY <1>2, <1>5 DEF Apart
  <2>2. ASSUME NEW k \in 1..n PROVE p[k] # x /\ p[k] \in Names
    <3>1. k \in 1..(n + 1) /\ k # n + 1
      BY <1>2
    <3> QED BY <1>2, <1>5, <3>1 DEF Apart
  <2> QED BY <2>1, <2>2
<1>7. PICK d : d = [e EXCEPT ![x] = 0]
  OBVIOUS
<1>8. e \in [Names -> Scalars]
  BY DEF Shows
<1>9. d \in [Names -> Scalars] /\ d[x] = 0 /\ \A y \in Names : y # x => d[y] = e[y]
  BY <1>3, <1>6, <1>7, <1>8
<1>10. ASSUME NEW v \in 1..Size PROVE aux[v] = d[Name(v)]
  <2>1. Name(v) \in Names /\ Name(v) # x
    BY <1>6, AllocatedNames, PlaceIs
  <2> QED BY <1>9, <2>1 DEF Shows
<1>11. ASSUME NEW k \in 1..n PROVE m[k] = d[p[k]]
  <2>1. m[k] = e[q[k]]
    BY <1>1, <1>4 DEF Shows
  <2> QED BY <1>2, <1>6, <1>9, <2>1
<1>12. \A k \in 1..(n + 1) : m[k] = d[p[k]]
  BY <1>2, <1>4, <1>5, <1>9, <1>11
<1> QED BY <1>2, <1>4, <1>7, <1>9, <1>10, <1>12 DEF Shows


\* Between two operations: the names of the locals, and where they are.
Ready(e, q, table) == Apart(q) /\ Tabled(table, q) /\ Shows(e, q, aux, local) /\ MachineType

\* Every reference of an operation is to the variable that the line names.
LEMMA OperandsAre ==
  ASSUME Loaded, NEW e, NEW q, NEW table, Ready(e, q, table), NEW l, NEW op, OpIs(l, op, table),
         l.cmd # "local", l.cmd = "load" => IsVariable(l.args[1], table)
  PROVE  \A k \in 1..op_commands[l.cmd] :
           ~(l.cmd = "load" /\ k = 2) =>
              /\ IsRef(op.args[k]) /\ RefIs(l.args[k], op.args[k], table)
              /\ InRange(op.args[k]) /\ Get(op.args[k]) = e[l.args[k]] /\ l.args[k] \in Names
<1> SUFFICES ASSUME NEW k \in 1..op_commands[l.cmd], ~(l.cmd = "load" /\ k = 2)
             PROVE  /\ IsRef(op.args[k]) /\ RefIs(l.args[k], op.args[k], table)
                    /\ InRange(op.args[k]) /\ Get(op.args[k]) = e[l.args[k]] /\ l.args[k] \in Names
  OBVIOUS
<1>1. l.cmd = "load" => k = 1
  <2>1. l.cmd = "load" => op_commands[l.cmd] = 2
    BY Arities
  <2> QED BY <2>1
<1>2. l.cmd = "load" => IsVariable(l.args[k], table)
  BY <1>1
<1>3. IsRef(op.args[k]) /\ RefIs(l.args[k], op.args[k], table)
  BY <1>2 DEF OpIs
<1>4. PICK s, ref : s = l.args[k] /\ ref = op.args[k]
  OBVIOUS
<1>5. Apart(q) /\ Tabled(table, q) /\ Shows(e, q, aux, local) /\ MachineType
  BY DEF Ready
<1>6. IsRef(ref) /\ RefIs(s, ref, table)
  BY <1>3, <1>4
<1>7. InRange(ref) /\ Get(ref) = e[s] /\ s \in Names
  BY ONLY Loaded, <1>5, <1>6, ShowsGet
<1> QED BY <1>3, <1>4, <1>7

LEMMA NoneOutOfRange ==
  ASSUME Loaded, NEW e, NEW q, NEW table, Ready(e, q, table), NEW l, NEW op, OpIs(l, op, table),
         l.cmd # "local", l.cmd = "load" => IsVariable(l.args[1], table)
  PROVE  ~OutOfRange(op)
<1>1. PICK n : n = op_commands[l.cmd]
  OBVIOUS
<1>2. \A k \in 1..n : ~(l.cmd = "load" /\ k = 2) => InRange(op.args[k])
  BY <1>1, OperandsAre
<1>3. op.op = Op(l.cmd) /\ DOMAIN op.args = 1..n
  BY <1>1 DEF OpIs
<1>4. l.cmd \in {"set", "mul", "add", "sub", "divide", "double", "square", "invert", "unpack_bits", "load",
                 "debug", "dump_alloc", "dump_local"}
  BY Arities DEF OpIs
<1>5. op.op = "Load" => l.cmd = "load" /\ n = 2
  BY <1>1, <1>3, <1>4, OpNames, Arities
<1>6. op.op = "Load" => op.args[2].index \in DOMAIN contract.constants
  <2>1. SUFFICES ASSUME op.op = "Load" PROVE op.args[2].index \in DOMAIN contract.constants
    OBVIOUS
  <2>2. l.args[2] \in ConstantSymbols /\ op.args[2].index = ConstantIndex(l.args[2])
    BY <1>1, <1>5, <2>1 DEF OpIs
  <2>3. PICK s : s = l.args[2]
    OBVIOUS
  <2> QED BY <2>2, <2>3, ConstantsRead
<1>7. ASSUME NEW ref \in Followed(op) PROVE InRange(ref)
  <2>1. CASE l.cmd \in {"dump_alloc", "dump_local"}
    <3>1. op.op \in {"DumpAlloc", "DumpLocal"}
      BY <1>3, <2>1, OpNames
    <3>2. Followed(op) = {}
      BY <3>1 DEF Followed
    <3> QED BY <3>2
  <2>2. CASE l.cmd \in {"load", "unpack_bits"}
    <3>1. op.op \in {"UnpackBits", "Load"} /\ 1 \in 1..n
      BY <1>1, <1>3, <2>2, OpNames, Arities
    <3>2. Followed(op) = {op.args[1]}
      BY <3>1 DEF Followed
    <3> QED BY <1>2, <3>1, <3>2
  <2>3. CASE l.cmd \in {"set", "mul", "add", "sub", "divide", "double", "square", "invert", "debug"}
    <3>1. op.op \notin {"Local", "DumpAlloc", "DumpLocal", "UnpackBits", "Load"}
      BY <1>3, <2>3, OpNames
    <3>2. Followed(op) = {op.args[i] : i \in DOMAIN op.args}
      BY <3>1 DEF Followed
    <3>3. PICK k \in 1..n : ref = op.args[k]
      BY <1>3, <3>2
    <3> QED BY <1>2, <2>3, <3>3
  <2> QED BY <1>4, <2>1, <2>2, <2>3
<1> QED BY <1>6, <1>7 DEF OutOfRange, InRange

----------------------------------------------------------------------------
(* One operation and its line.                                             *)

Binds(e, d, l, value) == Meaning(State(e, d), l) = [State(e, d) EXCEPT !.env[l.args[1]] = value]
Stops(e, d, l, error) == Meaning(State(e, d), l) = [State(e, d) EXCEPT !.error = error]

LEMMA BindsStep ==
  ASSUME NEW e, NEW d, NEW l, NEW value, Binds(e, d, l, value)
  PROVE  MeaningStep(State(e, d), l) = State([e EXCEPT ![l.args[1]] = value], Append(d, l))
<1>1. State(e, d).error = None
  BY DEF State
<1>2. MeaningStep(State(e, d), l) = [[State(e, d) EXCEPT !.env[l.args[1]] = value] EXCEPT !.done = Append(@, l)]
  BY <1>1 DEF Binds, MeaningStep
<1> QED BY <1>2 DEF State

LEMMA StopsStep ==
  ASSUME NEW e, NEW d, NEW l, NEW error, Stops(e, d, l, error)
  PROVE  MeaningStep(State(e, d), l).error = error
<1>1. State(e, d).error = None
  BY DEF State
<1>2. MeaningStep(State(e, d), l) = [[State(e, d) EXCEPT !.error = error] EXCEPT !.done = Append(@, l)]
  BY <1>1 DEF Stops, MeaningStep
<1> QED BY <1>2 DEF State

LEMMA AssignMeans ==
  ASSUME Loaded, NEW e, NEW q, NEW table, Ready(e, q, table), NEW l, NEW op, OpIs(l, op, table),
         op.op \in Assigning, l.cmd = "load" => IsVariable(l.args[1], table), NEW d
  PROVE  /\ DividesByZero(op) => Stops(e, d, l, "DivisionByZero")
         /\ ~DividesByZero(op) => Binds(e, d, l, Result(op))
<1>1. l.cmd \in {"set", "mul", "add", "sub", "divide", "double", "square", "invert", "load"} /\ op.op = Op(l.cmd)
  BY AssigningAre DEF OpIs
<1>2. PICK n : n = op_commands[l.cmd]
  OBVIOUS
<1>3. 1 \in 1..n /\ (l.cmd \in {"set", "mul", "add", "sub", "divide", "load"} => 2 \in 1..n)
  BY <1>1, <1>2, Arities
<1>4. \A k \in 1..n : ~(l.cmd = "load" /\ k = 2) => Get(op.args[k]) = e[l.args[k]] /\ InRange(op.args[k])
  BY <1>1, <1>2, OperandsAre
<1>5. PICK x, y, v, w : x = l.args[1] /\ y = l.args[2] /\ v = Get(op.args[1]) /\ w = Get(op.args[2])
  OBVIOUS
<1>6. v = e[x] /\ v \in Scalars
  <2>1. MachineType /\ InRange(op.args[1])
    BY <1>3, <1>4 DEF Ready
  <2> QED BY <1>3, <1>4, <1>5, <2>1, GetIs
<1>7. l.cmd \in {"set", "mul", "add", "sub", "divide"} => w = e[y]
  BY <1>3, <1>4, <1>5
<1>8. PICK st : st = State(e, d)
  OBVIOUS
<1>9. st.env = e
  BY <1>8 DEF State
<1>10. CASE l.cmd = "set"
  <2>1. op.op = "Set"
    BY <1>1, <1>10, OpNames
  <2>2. ~DividesByZero(op) /\ Result(op) = w
    BY <1>5, <2>1 DEF DividesByZero, Result
  <2>3. Meaning(st, l) = [st EXCEPT !.env[x] = e[y]]
    BY <1>5, <1>9, <1>10 DEF Meaning
  <2> QED BY <1>5, <1>7, <1>8, <1>10, <2>2, <2>3 DEF Binds
<1>11. CASE l.cmd = "mul"
  <2>1. op.op = "Mul"
    BY <1>1, <1>11, OpNames
  <2>2. ~DividesByZero(op) /\ Result(op) = (v * w) % P
    BY <1>5, <2>1 DEF DividesByZero, Result
  <2>3. Meaning(st, l) = [st EXCEPT !.env[x] = (e[x] * e[y]) % P]
    BY <1>5, <1>9, <1>11 DEF Meaning
  <2> QED BY <1>5, <1>6, <1>7, <1>8, <1>11, <2>2, <2>3 DEF Binds
<1>12. CASE l.cmd = "add"
  <2>1. op.op = "Add"
    BY <1>1, <1>12, OpNames
  <2>2. ~DividesByZero(op) /\ Result(op) = (v + w) % P
    BY <1>5, <2>1 DEF DividesByZero, Result
  <2>3. Meaning(st, l) = [st EXCEPT !.env[x] = (e[x] + e[y]) % P]
    BY <1>5, <1>9, <1>12 DEF Meaning
  <2> QED BY <1>5, <1>6, <1>7, <1>8, <1>12, <2>2, <2>3 DEF Binds
<1>13. CASE l.cmd = "sub"
  <2>1. op.op = "Sub"
    BY <1>1, <1>13, OpNames
  <2>2. ~DividesByZero(op) /\ Result(op) = (v - w) % P
    BY <1>5, <2>1 DEF DividesByZero, Result
  <2>3. Meaning(st, l) = [st EXCEPT !.env[x] = (e[x] - e[y]) % P]
    BY <1>5, <1>9, <1>13 DEF Meaning
  <2> QED BY <1>5, <1>6, <1>7, <1>8, <1>13, <2>2, <2>3 DEF Binds
<1>14. CASE l.cmd = "divide"
  <2>1. op.op = "Divide"
    BY <1>1, <1>14, OpNames
  <2>2. (DividesByZero(op) <=> w = 0) /\ Result(op) = (v * InverseOf(w)) % P
    BY <1>5, <2>1 DEF DividesByZero, Result
  <2>3. Meaning(st, l) = IF e[y] = 0 THEN [st EXCEPT !.error = "DivisionByZero"]
                         ELSE [st EXCEPT !.env[x] = (e[x] * InverseOf(e[y])) % P]
    BY <1>5, <1>9, <1>14 DEF Meaning
  <2> QED BY <1>5, <1>6, <1>7, <1>8, <1>14, <2>2, <2>3 DEF Binds, Stops
<1>15. CASE l.cmd = "double"
  <2>1. op.op = "Double"
    BY <1>1, <1>15, OpNames
  <2>2. ~DividesByZero(op) /\ Result(op) = (2 * v) % P
    BY <1>5, <2>1 DEF DividesByZero, Result
  <2>3. Meaning(st, l) = [st EXCEPT !.env[x] = (e[x] + e[x]) % P]
    BY <1>5, <1>9, <1>15 DEF Meaning
  <2>4. 2 * v = v + v
    BY <1>6, FieldIs
  <2> QED BY <1>5, <1>6, <1>8, <2>2, <2>3, <2>4 DEF Binds
<1>16. CASE l.cmd = "square"
  <2>1. op.op = "Square"
    BY <1>1, <1>16, OpNames
  <2>2. ~DividesByZero(op) /\ Result(op) = (v * v) % P
    BY <1>5, <2>1 DEF DividesByZero, Result
  <2>3. Meaning(st, l) = [st EXCEPT !.env[x] = (e[x] * e[x]) % P]
    BY <1>5, <1>9, <1>16 DEF Meaning
  <2> QED BY <1>5, <1>6, <1>8, <2>2, <2>3 DEF Binds
<1>17. CASE l.cmd = "invert"
  <2>1. op.op = "Invert"
    BY <1>1, <1>17, OpNames
  <2>2. (DividesByZero(op) <=> v = 0) /\ Result(op) = InverseOf(v)
    BY <1>5, <2>1 DEF DividesByZero, Result
  <2>3. Meaning(st, l) = IF e[x] = 0 THEN [st EXCEPT !.error = "DivisionByZero"]
                         ELSE [st EXCEPT !.env[x] = InverseOf(e[x])]
    BY <1>5, <1>9, <1>17 DEF Meaning
  <2> QED BY <1>5, <1>6, <1>8, <2>2, <2>3 DEF Binds, Stops
<1>18. CASE l.cmd = "load"
  <2>1. op.op = "Load"
    BY <1>1, <1>18, OpNames
  <2>2. y \in ConstantSymbols /\ op.args[2].index = ConstantIndex(y)
    BY <1>2, <1>3, <1>5, <1>18 DEF OpIs
  <2>3. ~DividesByZero(op) /\ Result(op) = contract.constants[ConstantIndex(y)]
    BY <2>1, <2>2 DEF DividesByZero, Result
  <2>4. contract.constants[ConstantIndex(y)] = ValueOf(y)
    BY <2>2, ConstantsRead
  <2>5. Meaning(st, l) = [st EXCEPT !.env[x] = ValueOf(y)]
    BY <1>5, <1>18 DEF Meaning
  <2> QED BY <1>5, <1>8, <2>3, <2>4, <2>5 DEF Binds
<1> QED BY <1>1, <1>10, <1>11, <1>12, <1>13, <1>14, <1>15, <1>16, <1>17, <1>18


----------------------------------------------------------------------------
(* Unpacking into a range of names.                                        *)

Distinct(names, n) ==
  n \in Nat /\ DOMAIN names = 1..n /\ Len(names) = n /\ \A i, j \in 1..n : names[i] = names[j] => i = j

LEMMA BitsIs == Bits \in Nat /\ Bits > 0
<1>1. Bits \in Nat /\ P \in Nat \ {0, 1} /\ 2 ^ Bits >= P
  BY FieldAssumption
<1>2. Bits = 0 => 2 ^ Bits = 1
  BY SMT
<1> QED BY <1>1, <1>2

LEMMA NameRangeIs ==
  ASSUME NEW n, NEW names, Distinct(names, n)
  PROVE  /\ \A i, j \in 1..n : NameRange(names, names[i], names[j]) = SubSeq(names, i, j)
         /\ \A first, last : ~({first, last} \subseteq Range(names)) => NameRange(names, first, last) = <<>>
<1>1. n \in Nat /\ DOMAIN names = 1..n /\ Len(names) = n /\ \A i, j \in 1..n : names[i] = names[j] => i = j
  BY DEF Distinct
<1>2. \A i \in 1..n : Position(names, names[i]) = i
  BY <1>1, PositionIs
<1>3. \A i \in 1..n : names[i] \in Range(names)
  BY <1>1 DEF Range
<1>4. ASSUME NEW i \in 1..n, NEW j \in 1..n PROVE NameRange(names, names[i], names[j]) = SubSeq(names, i, j)
  <2>1. {names[i], names[j]} \subseteq Range(names)
    BY <1>3
  <2> QED BY <1>2, <2>1 DEF NameRange
<1>5. ASSUME NEW first, NEW last, ~({first, last} \subseteq Range(names)) PROVE NameRange(names, first, last) = <<>>
  BY <1>5 DEF NameRange
<1> QED BY <1>4, <1>5

\* w is the part of names that begins at start and has the length of a scalar.
Section(w, names, n, start) ==
  /\ DOMAIN w = 1..Bits /\ Len(w) = Bits
  /\ start \in 1..n /\ start + Bits - 1 \in 1..n
  /\ \A k \in 1..Bits : w[k] = names[start + k - 1]

LEMMA RangeLength ==
  ASSUME NEW n, NEW names, Distinct(names, n), NEW i \in 1..n, NEW j \in 1..n,
         NEW w, w = NameRange(names, names[i], names[j])
  PROVE  /\ Len(w) = Bits <=> j + 1 - i = Bits
         /\ Len(w) = Bits => Section(w, names, n, i)
<1>1. n \in Nat /\ DOMAIN names = 1..n /\ Len(names) = n
  BY DEF Distinct
<1>2. w = SubSeq(names, i, j)
  BY NameRangeIs
<1>3. Bits \in Nat /\ Bits > 0
  BY BitsIs
<1>4. Len(w) = (IF i <= j THEN j + 1 - i ELSE 0) /\ DOMAIN w = 1..Len(w)
  BY <1>1, <1>2
<1>5. Len(w) = Bits <=> j + 1 - i = Bits
  BY <1>1, <1>3, <1>4
<1>6. ASSUME Len(w) = Bits PROVE Section(w, names, n, i)
  <2>1. j + 1 - i = Bits /\ i \in Nat /\ j \in Nat /\ i <= j + 1 /\ i + Bits - 1 = j
    BY <1>1, <1>3, <1>5, <1>6
  <2>2. \A k \in 1..(j + 1 - i) : SubSeq(names, i, j)[k] = names[i + k - 1]
    BY <2>1, SubSeqIs
  <2> QED BY <1>2, <1>4, <1>6, <2>1, <2>2 DEF Section
<1> QED BY <1>5, <1>6

LEMMA SectionIs ==
  ASSUME NEW n, NEW names, Distinct(names, n), NEW start, NEW w, Section(w, names, n, start)
  PROVE  /\ \A u \in 1..n : /\ names[u] \in Range(w) <=> u \in start .. start + Bits - 1
                            /\ u \in start .. start + Bits - 1 => Position(w, names[u]) - 1 = u - start
         /\ \A x \in Range(w) : \E u \in 1..n : x = names[u]
<1>1. n \in Nat /\ DOMAIN names = 1..n /\ Len(names) = n /\ \A i, j \in 1..n : names[i] = names[j] => i = j
  BY DEF Distinct
<1>2. Bits \in Nat /\ Bits > 0
  BY BitsIs
<1>3. /\ DOMAIN w = 1..Bits /\ Len(w) = Bits /\ start \in 1..n /\ start + Bits - 1 \in 1..n
      /\ \A k \in 1..Bits : w[k] = names[start + k - 1]
  BY DEF Section
<1>4. \A k \in 1..Bits : start + k - 1 \in 1..n
  BY <1>1, <1>2, <1>3
<1>5. ASSUME NEW k1 \in 1..Bits, NEW k2 \in 1..Bits, w[k1] = w[k2] PROVE k1 = k2
  <2>1. PICK u1, u2 : u1 = start + k1 - 1 /\ u2 = start + k2 - 1
    OBVIOUS
  <2>2. u1 \in 1..n /\ u2 \in 1..n /\ names[u1] = names[u2]
    BY <1>3, <1>4, <1>5, <2>1
  <2>3. u1 = u2
    BY <1>1, <2>2
  <2> QED BY <1>1, <1>2, <1>3, <2>1, <2>3
<1>6. \A k \in 1..Bits : Position(w, w[k]) = k
  BY <1>2, <1>3, <1>5, PositionIs
<1>7. Range(w) = {w[k] : k \in 1..Bits}
  BY <1>3 DEF Range
<1>8. ASSUME NEW u \in 1..n, u \in start .. start + Bits - 1
      PROVE  names[u] \in Range(w) /\ Position(w, names[u]) - 1 = u - start
  <2>1. PICK k : k = u - start + 1
    OBVIOUS
  <2>2. k \in 1..Bits /\ start + k - 1 = u /\ k - 1 = u - start
    BY <1>1, <1>2, <1>3, <1>8, <2>1
  <2>3. w[k] = names[u]
    BY <1>3, <2>2
  <2>4. Position(w, names[u]) = k
    BY <1>6, <2>2, <2>3
  <2> QED BY <1>7, <2>2, <2>3, <2>4
<1>9. ASSUME NEW u \in 1..n, names[u] \in Range(w) PROVE u \in start .. start + Bits - 1
  <2>1. PICK k \in 1..Bits : names[u] = w[k]
    BY <1>7, <1>9
  <2>2. PICK t : t = start + k - 1
    OBVIOUS
  <2>3. t \in 1..n /\ names[t] = names[u]
    BY <1>3, <1>4, <2>1, <2>2
  <2>4. t = u
    BY <1>1, <2>3
  <2> QED BY <1>1, <1>2, <1>3, <2>2, <2>4
<1>10. ASSUME NEW x \in Range(w) PROVE \E u \in 1..n : x = names[u]
  <2>1. PICK k \in 1..Bits : x = w[k]
    BY <1>7
  <2> QED BY <1>3, <1>4, <2>1
<1> QED BY <1>8, <1>9, <1>10


\* The value of a variable, bit by bit, into the names of a section.
Spelled(e, w, value) == [x \in DOMAIN e |-> IF x \in Range(w) THEN Bit(value, Position(w, x) - 1) ELSE e[x]]

\* g is e but for the names, and z shows it.
SpelledOut(e, n, names, g, z) ==
  /\ g \in [Names -> Scalars]
  /\ DOMAIN z = 1..n /\ \A u \in 1..n : z[u] = g[names[u]]
  /\ \A x \in Names : (\A u \in 1..n : names[u] # x) => g[x] = e[x]

LEMMA SpelledIs ==
  ASSUME Loaded, NEW e \in [Names -> Scalars], NEW n, NEW names, Distinct(names, n), NEW start, NEW w,
         Section(w, names, n, start), NEW value \in Scalars, \A u \in 1..n : names[u] \in Names,
         NEW memory, \A u \in 1..n : memory[u] = e[names[u]], DOMAIN memory = 1..n,
         NEW z, z = Unpacked(memory, start, value), NEW g, g = Spelled(e, w, value)
  PROVE  SpelledOut(e, n, names, g, z)
<1>1. /\ \A u \in 1..n : /\ names[u] \in Range(w) <=> u \in start .. start + Bits - 1
                         /\ u \in start .. start + Bits - 1 => Position(w, names[u]) - 1 = u - start
      /\ \A x \in Range(w) : \E u \in 1..n : x = names[u]
  BY SectionIs
<1>2. start \in Int /\ Bits \in Nat /\ n \in Nat
  <2>1. n \in Nat
    BY DEF Distinct
  <2>2. start \in 1..n
    BY DEF Section
  <2> QED BY <2>1, <2>2, BitsIs
<1>3. DOMAIN e = Names
  OBVIOUS
<1>4. DOMAIN g = Names /\ \A x \in Names : g[x] = IF x \in Range(w) THEN Bit(value, Position(w, x) - 1) ELSE e[x]
  BY <1>3 DEF Spelled
<1>5. ASSUME NEW u \in 1..n, u \in start .. start + Bits - 1 PROVE Bit(value, u - start) \in Scalars
  <2>1. u - start \in Nat
    BY <1>2, <1>5
  <2> QED BY <2>1, BitIs
<1>6. ASSUME NEW x \in Names, x \in Range(w) PROVE g[x] \in Scalars
  <2>1. PICK u \in 1..n : x = names[u]
    BY <1>1, <1>6
  <2>2. u \in start .. start + Bits - 1 /\ Position(w, x) - 1 = u - start
    BY <1>1, <1>6, <2>1
  <2>3. g[x] = Bit(value, u - start)
    BY <1>4, <1>6, <2>2
  <2> QED BY <1>5, <2>2, <2>3
<1>7. g \in [Names -> Scalars]
  <2>1. \A x \in Names : g[x] \in Scalars
    BY <1>4, <1>6
  <2>2. g = [x \in Names |-> g[x]]
    BY <1>3 DEF Spelled
  <2> QED BY <2>1, <2>2
<1>8. DOMAIN z = 1..n /\ \A u \in 1..n : z[u] = IF u \in start .. start + Bits - 1 THEN Bit(value, u - start) ELSE memory[u]
  BY DEF Unpacked
<1>9. ASSUME NEW u \in 1..n PROVE z[u] = g[names[u]]
  <2>1. CASE u \in start .. start + Bits - 1
    <3>1. z[u] = Bit(value, u - start)
      BY <1>8, <2>1
    <3>2. names[u] \in Names /\ names[u] \in Range(w) /\ Position(w, names[u]) - 1 = u - start
      BY <1>1, <2>1
    <3> QED BY <1>4, <3>1, <3>2
  <2>2. CASE u \notin start .. start + Bits - 1
    <3>1. z[u] = memory[u]
      BY <1>8, <2>2
    <3>2. names[u] \in Names /\ names[u] \notin Range(w)
      BY <1>1, <2>2
    <3> QED BY <1>4, <3>1, <3>2
  <2> QED BY <2>1, <2>2
<1>10. ASSUME NEW x \in Names, \A u \in 1..n : names[u] # x PROVE g[x] = e[x]
  <2>1. x \notin Range(w)
    BY <1>1, <1>10
  <2> QED BY <1>4, <2>1
<1> QED BY <1>7, <1>8, <1>9, <1>10 DEF SpelledOut

LEMMA AllocDistinct ==
  ASSUME Loaded
  PROVE  /\ Distinct(AllocNames, Size) /\ \A u \in 1..Size : AllocNames[u] = Name(u) /\ AllocNames[u] \in Names
         /\ \A s : s \in Range(AllocNames) <=> IsAllocated(s)
<1>1. /\ Size \in Nat /\ DOMAIN AllocNames = 1..Size /\ Len(AllocNames) = Size
      /\ \A i \in 1..Size : AllocNames[i] = Name(i)
      /\ Range(AllocNames) = {Name(i) : i \in 1..Size}
  BY AllocNamesAre
<1>2. \A i, j \in 1..Size : Name(i) = Name(j) => i = j
  BY AllocIs
<1>3. Distinct(AllocNames, Size)
  BY <1>1, <1>2 DEF Distinct
<1>4. ASSUME NEW s PROVE s \in Range(AllocNames) <=> IsAllocated(s)
  <2>1. s \in Range(AllocNames) => IsAllocated(s)
    BY <1>1, PlaceIs
  <2>2. IsAllocated(s) => s \in Range(AllocNames)
    BY <1>1, PlaceIs
  <2> QED BY <2>1, <2>2
<1> QED BY <1>1, <1>3, <1>4, AllocatedNames

\* The names of the operands of an unpacking, and what they range over.
LEMMA OperandRange ==
  ASSUME Loaded, NEW e, NEW q, NEW table, Ready(e, q, table), NEW y, NEW z, NEW start, NEW end,
         IsRef(start), IsRef(end), RefIs(y, start, table), RefIs(z, end, table), InRange(start), InRange(end),
         NEW a, NEW b, a = NameRange(AllocNames, y, z), b = NameRange(q, y, z)
  PROVE  LET w == IF Len(a) = Bits THEN a ELSE b
             bad == \/ start.mem # end.mem
                    \/ start.index > end.index
                    \/ end.index + 1 - start.index # Bits
                    \/ end.index > Len(Memory(end))
         IN  /\ bad <=> Len(w) # Bits
             /\ ~bad /\ start.mem = "aux" => Section(w, AllocNames, Size, start.index)
             /\ ~bad /\ start.mem # "aux" => Section(w, q, Len(q), start.index)
<1> DEFINE w == IF Len(a) = Bits THEN a ELSE b
           bad == \/ start.mem # end.mem
                  \/ start.index > end.index
                  \/ end.index + 1 - start.index # Bits
                  \/ end.index > Len(Memory(end))
<1>1. Bits \in Nat /\ Bits > 0
  BY BitsIs
<1>2. Distinct(AllocNames, Size) /\ \A s : s \in Range(AllocNames) <=> IsAllocated(s)
  BY AllocDistinct
<1>3. Apart(q) /\ Tabled(table, q) /\ Shows(e, q, aux, local) /\ MachineType
  BY DEF Ready
<1>4. Distinct(q, Len(q)) /\ \A k \in 1..Len(q) : ~IsAllocated(q[k])
  BY <1>3 DEF Apart, Distinct
<1>5. Range(q) = {q[k] : k \in 1..Len(q)}
  BY <1>4 DEF Distinct, Range
<1>6. Len(<<>>) = 0
  OBVIOUS
<1>7. start.index \in Nat /\ end.index \in Nat /\ start.mem \in {"aux", "local"} /\ end.mem \in {"aux", "local"}
  BY DEF IsRef
<1>8. end.index <= Len(Memory(end))
  <2>1. end.index \in DOMAIN Memory(end)
    BY DEF InRange
  <2>2. Memory(end) \in Seq(Scalars)
    <3>1. aux \in [1..Size -> Scalars] /\ Size \in Nat
      BY <1>3, AllocIs DEF MachineType, Filled
    <3>2. aux \in Seq(Scalars)
      BY <3>1, FunctionIsSeq
    <3> QED BY <1>3, <3>2 DEF Memory, MachineType
  <2>3. PICK m : m = Memory(end)
    OBVIOUS
  <2> QED BY <2>1, <2>2, <2>3
<1>9. CASE IsAllocated(y) /\ IsAllocated(z)
  <2>1. PICK i, j : i = Place(y) /\ j = Place(z)
    OBVIOUS
  <2>2. i \in 1..Size /\ j \in 1..Size /\ AllocNames[i] = y /\ AllocNames[j] = z
    BY <1>9, <2>1, PlaceIs, AllocNamesAre
  <2>3. start.mem = "aux" /\ start.index = i /\ end.mem = "aux" /\ end.index = j
    BY <1>9, <2>1 DEF RefIs
  <2>4. (Len(a) = Bits <=> j + 1 - i = Bits) /\ (Len(a) = Bits => Section(a, AllocNames, Size, i))
    BY <1>2, <2>2, RangeLength
  <2>5. y \notin Range(q)
    BY <1>4, <1>5, <1>9
  <2>6. b = <<>>
    BY <1>4, <2>5, NameRangeIs
  <2>7. bad <=> j + 1 - i # Bits
    BY <1>1, <1>7, <1>8, <2>3
  <2> QED BY <1>1, <1>6, <2>3, <2>4, <2>6, <2>7
<1>10. CASE ~IsAllocated(y) /\ ~IsAllocated(z)
  <2>1. y \in DOMAIN table /\ z \in DOMAIN table
    BY <1>10 DEF RefIs
  <2>2. PICK i \in 1..Len(q), j \in 1..Len(q) : y = q[i] /\ z = q[j] /\ table[y] = i /\ table[z] = j
    BY <1>3, <2>1 DEF Tabled
  <2>3. start.mem = "local" /\ start.index = i /\ end.mem = "local" /\ end.index = j
    BY <1>10, <2>2 DEF RefIs
  <2>4. (Len(b) = Bits <=> j + 1 - i = Bits) /\ (Len(b) = Bits => Section(b, q, Len(q), i))
    BY <1>4, <2>2, RangeLength
  <2>5. a = <<>>
    BY <1>2, <1>10, NameRangeIs
  <2>6. bad <=> j + 1 - i # Bits
    BY <1>1, <1>7, <1>8, <2>3
  <2> QED BY <1>1, <1>6, <2>3, <2>4, <2>5, <2>6
<1>11. CASE ~(IsAllocated(y) <=> IsAllocated(z))
  <2>1. start.mem # end.mem
    BY <1>11 DEF RefIs
  <2>2. a = <<>>
    BY <1>2, <1>11, NameRangeIs
  <2>3. ~({y, z} \subseteq Range(q))
    BY <1>4, <1>5, <1>11
  <2>4. b = <<>>
    BY <1>4, <2>3, NameRangeIs
  <2> QED BY <1>1, <1>6, <2>1, <2>2, <2>4
<1> QED BY <1>9, <1>10, <1>11


LEMMA UnpackMeans ==
  ASSUME Loaded, NEW e, NEW q, NEW table, Ready(e, q, table), NEW l, NEW op, OpIs(l, op, table),
         l.cmd = "unpack_bits", NEW d, LocalNames(d) = q,
         NEW start, NEW value, start = op.args[2], value = Get(op.args[1])
  PROVE  /\ Malformed(op) => Stops(e, d, l, "MalformedRange")
         /\ ~Malformed(op) =>
              \E g : /\ Meaning(State(e, d), l) = [State(e, d) EXCEPT !.env = g]
                     /\ IF start.mem = "aux" THEN Shows(g, q, Unpacked(aux, start.index, value), local)
                                             ELSE Shows(g, q, aux, Unpacked(local, start.index, value))
<1>1. op_commands[l.cmd] = 3 /\ l.cmd # "local" /\ l.cmd # "load"
  BY Arities
<1>2. \A k \in 1..3 : /\ IsRef(op.args[k]) /\ RefIs(l.args[k], op.args[k], table)
                      /\ InRange(op.args[k]) /\ Get(op.args[k]) = e[l.args[k]] /\ l.args[k] \in Names
  <2>1. PICK n : n = op_commands[l.cmd]
    OBVIOUS
  <2>2. \A k \in 1..n : /\ IsRef(op.args[k]) /\ RefIs(l.args[k], op.args[k], table)
                        /\ InRange(op.args[k]) /\ Get(op.args[k]) = e[l.args[k]] /\ l.args[k] \in Names
    BY <1>1, <2>1, OperandsAre
  <2> QED BY <1>1, <2>1, <2>2
<1>3. PICK end, x, y, z, a, b : /\ end = op.args[3] /\ x = l.args[1] /\ y = l.args[2] /\ z = l.args[3]
                                /\ a = NameRange(AllocNames, y, z) /\ b = NameRange(q, y, z)
  OBVIOUS
<1>4. /\ IsRef(start) /\ IsRef(end) /\ RefIs(y, start, table) /\ RefIs(z, end, table)
      /\ InRange(start) /\ InRange(end) /\ InRange(op.args[1]) /\ value = e[x]
  BY <1>2, <1>3
<1>5. PICK w : w = IF Len(a) = Bits THEN a ELSE b
  OBVIOUS
<1>6. PICK bad : bad = (\/ start.mem # end.mem
                        \/ start.index > end.index
                        \/ end.index + 1 - start.index # Bits
                        \/ end.index > Len(Memory(end)))
  OBVIOUS
<1>7. /\ bad <=> Len(w) # Bits
      /\ ~bad /\ start.mem = "aux" => Section(w, AllocNames, Size, start.index)
      /\ ~bad /\ start.mem # "aux" => Section(w, q, Len(q), start.index)
  <2>1. a = NameRange(AllocNames, y, z) /\ b = NameRange(q, y, z)
    BY <1>3
  <2> QED BY <1>4, <1>5, <1>6, <2>1, OperandRange
<1>8. Malformed(op) <=> bad
  BY <1>3, <1>6 DEF Malformed
<1>9. PICK st, g : st = State(e, d) /\ g = Spelled(e, w, value)
  OBVIOUS
<1>10. st.env = e /\ st.done = d
  BY <1>9 DEF State
<1>11. Meaning(st, l) = IF Len(w) # Bits THEN [st EXCEPT !.error = "MalformedRange"] ELSE [st EXCEPT !.env = g]
  <2>1. w = LET r == NameRange(AllocNames, y, l.args[3])
                t == NameRange(LocalNames(st.done), y, l.args[3])
            IN  IF Len(r) = Bits THEN r ELSE t
    BY <1>3, <1>5, <1>10
  <2>2. g = [n \in DOMAIN st.env |-> IF n \in Range(w) THEN Bit(st.env[x], Position(w, n) - 1) ELSE st.env[n]]
    BY <1>4, <1>9, <1>10 DEF Spelled
  <2> QED BY <1>3, <2>1, <2>2 DEF Meaning
<1>12. Malformed(op) => Stops(e, d, l, "MalformedRange")
  BY <1>7, <1>8, <1>9, <1>11 DEF Stops
<1>13. ASSUME ~Malformed(op)
       PROVE  IF start.mem = "aux" THEN Shows(g, q, Unpacked(aux, start.index, value), local)
                                   ELSE Shows(g, q, aux, Unpacked(local, start.index, value))
  <2>1. Apart(q) /\ Shows(e, q, aux, local) /\ MachineType
    BY DEF Ready
  <2>2. e \in [Names -> Scalars]
    BY <2>1 DEF Shows
  <2>3. value \in Scalars
    BY <1>4, <2>1, GetIs
  <2>4. Distinct(AllocNames, Size) /\ \A u \in 1..Size : AllocNames[u] = Name(u) /\ AllocNames[u] \in Names
    BY AllocDistinct
  <2>5. Distinct(q, Len(q)) /\ \A k \in 1..Len(q) : q[k] \in Names /\ ~IsAllocated(q[k])
    BY <2>1 DEF Apart, Distinct
  <2>6. \A u \in 1..Size : aux[u] = e[Name(u)]
    BY <2>1 DEF Shows
  <2>7. Len(local) = Len(q) /\ (\A k \in 1..Len(q) : local[k] = e[q[k]]) /\ local \in Seq(Scalars) /\ Len(q) \in Nat
    BY <2>1 DEF Shows, Apart, MachineType
  <2>8. \A u \in 1..Size, k \in 1..Len(q) : Name(u) # q[k]
    BY <2>5, PlaceIs
  <2>9. CASE start.mem = "aux"
    <3>1. PICK t, p, m : t = Unpacked(aux, start.index, value) /\ p = AllocNames /\ m = Size
      OBVIOUS
    <3>2. Section(w, p, m, start.index) /\ Distinct(p, m) /\ \A u \in 1..m : p[u] \in Names
      BY <1>7, <1>8, <1>13, <2>4, <2>9, <3>1
    <3>3. DOMAIN aux = 1..m /\ \A u \in 1..m : aux[u] = e[p[u]]
      BY <2>1, <2>4, <2>6, <3>1 DEF MachineType, Filled
    <3>4. /\ g \in [Names -> Scalars] /\ DOMAIN t = 1..m
          /\ \A u \in 1..m : t[u] = g[p[u]]
          /\ \A n \in Names : (\A u \in 1..m : p[u] # n) => g[n] = e[n]
      <4>1. PICK memory, i : memory = aux /\ i = start.index
        OBVIOUS
      <4>2. t = Unpacked(memory, i, value) /\ g = Spelled(e, w, value)
        BY <1>9, <3>1, <4>1
      <4>3. \A u \in 1..m : memory[u] = e[p[u]]
        BY <3>3, <4>1
      <4>4. DOMAIN memory = 1..m
        BY <3>3, <4>1
      <4>5. \A u \in 1..m : p[u] \in Names
        BY <3>2
      <4>6. Section(w, p, m, i) /\ Distinct(p, m)
        BY <3>2, <4>1
      <4>7. SpelledOut(e, m, p, g, t)
        BY ONLY Loaded, <2>2, <2>3, <4>2, <4>3, <4>4, <4>5, <4>6, SpelledIs
      <4> QED BY <4>7 DEF SpelledOut
    <3>5. \A u \in 1..Size : t[u] = g[Name(u)]
      BY <2>4, <3>1, <3>4
    <3>6. \A k \in 1..Len(q) : local[k] = g[q[k]]
      <4>1. ASSUME NEW k \in 1..Len(q) PROVE g[q[k]] = e[q[k]]
        BY <2>4, <2>5, <2>8, <3>1, <3>4
      <4> QED BY <2>7, <4>1
    <3>7. Shows(g, q, t, local)
      BY <2>7, <3>4, <3>5, <3>6 DEF Shows
    <3> QED BY <2>9, <3>1, <3>7
  <2>10. CASE start.mem # "aux"
    <3>1. PICK t, m : t = Unpacked(local, start.index, value) /\ m = Len(q)
      OBVIOUS
    <3>2. Section(w, q, m, start.index) /\ Distinct(q, m) /\ \A u \in 1..m : q[u] \in Names
      BY <1>7, <1>8, <1>13, <2>5, <2>10, <3>1
    <3>3. DOMAIN local = 1..m /\ (\A u \in 1..m : local[u] = e[q[u]]) /\ m \in Nat
      BY <2>7, <3>1
    <3>4. /\ g \in [Names -> Scalars] /\ DOMAIN t = 1..m
          /\ \A u \in 1..m : t[u] = g[q[u]]
          /\ \A n \in Names : (\A u \in 1..m : q[u] # n) => g[n] = e[n]
      <4>1. SpelledOut(e, m, q, g, t)
        BY <1>9, <2>2, <2>3, <3>1, <3>2, <3>3, SpelledIs
      <4> QED BY <4>1 DEF SpelledOut
    <3>5. \A u \in 1..Size : aux[u] = g[Name(u)]
      <4>1. ASSUME NEW u \in 1..Size PROVE g[Name(u)] = e[Name(u)]
        <5>1. Name(u) \in Names /\ \A k \in 1..m : q[k] # Name(u)
          BY <2>4, <2>8, <3>1
        <5> QED BY <3>4, <5>1
      <4> QED BY <2>6, <4>1
    <3>6. Len(t) = Len(q)
      <4>1. local \in [1..m -> Scalars] /\ start.index \in Nat
        BY <1>4, <2>7, <3>3 DEF IsRef
      <4>2. t \in [1..m -> Scalars]
        BY <2>3, <3>1, <3>3, <4>1, UnpackedIs
      <4> QED BY <3>1, <3>3, <4>2, FunctionIsSeq
    <3>7. Shows(g, q, aux, t)
      BY <3>1, <3>4, <3>5, <3>6 DEF Shows
    <3> QED BY <2>10, <3>1, <3>7
  <2> QED BY <2>9, <2>10
<1>14. ~Malformed(op) => Meaning(State(e, d), l) = [State(e, d) EXCEPT !.env = g]
  BY <1>7, <1>8, <1>9, <1>11
<1> QED BY <1>12, <1>13, <1>14


----------------------------------------------------------------------------
(* The invariant of a contract's runs.                                     *)

\* The parameters are those set last, at the places of their names.
Remembered ==
  /\ DOMAIN latest \subseteq DOMAIN contract.params_map
  /\ DOMAIN params = {contract.params_map[s] : s \in DOMAIN latest}
  /\ \A s \in DOMAIN latest : params[contract.params_map[s]] = latest[s]

RunInv ==
  /\ Remembered
  /\ status # "panic"
  /\ status = "running" => \E i, a, m : i = pc - 1 /\ a = aux /\ m = local /\ Mirrors(i, a, m)
  /\ Finished => \E i, a, m : i = Count /\ a = aux /\ m = local /\ Mirrors(i, a, m)
  /\ status \in {"DivisionByZero", "MalformedRange"} => Outcome.error = status

\* What RunsAsWritten supposes of the source.
Written == DistinctNames /\ LoadsVariables

\* The operation that is next: its line, the lines before it and what they mean.
IsNext(e, q, table, d, l) ==
  /\ Ready(e, q, table) /\ OpIs(l, Current, table) /\ LocalNames(d) = q
  /\ l.cmd = "load" => IsVariable(l.args[1], table)
  /\ MeaningAt(pc) = MeaningStep(State(e, d), l) /\ First(pc) = Append(d, l)
  /\ LocalsAt(pc) = IF l.cmd = "local" THEN Append(q, l.args[1]) ELSE q
  /\ \E N : q \in Seq(N) /\ l.args[1] \in N
  /\ Apart(LocalsAt(pc)) /\ pc \in 1..Count

LEMMA FirstNext ==
  ASSUME Loaded, NEW i \in 1..Count
  PROVE  First(i) = Append(First(i - 1), OpLines(source)[i])
<1>1. PICK s, S, n : s = OpLines(source) /\ S = Range(source) /\ n = Count
  OBVIOUS
<1>2. s \in Seq(S) /\ Len(s) = n /\ n \in Nat
  BY <1>1, LinesAre, FirstIs DEF AreLines, Count
<1>3. PICK j, q, p : j = i - 1 /\ q = SubSeq(s, 1, j) /\ p = SubSeq(s, 1, i)
  OBVIOUS
<1>4. j \in Nat /\ i \in Nat /\ i = j + 1 /\ i <= n
  BY <1>1, <1>2, <1>3
<1>5. /\ q \in Seq(S) /\ Len(q) = j /\ (\A k \in 1..j : q[k] = s[k])
      /\ p \in Seq(S) /\ Len(p) = i /\ \A k \in 1..i : p[k] = s[k]
  BY <1>2, <1>3, <1>4
<1>6. PICK x, z : x = s[i] /\ z = Append(q, x)
  OBVIOUS
<1>7. x \in S
  BY <1>2, <1>4, <1>6
<1>8. z \in Seq(S) /\ Len(z) = j + 1 /\ (\A k \in 1..j : z[k] = q[k]) /\ z[j + 1] = x
  BY <1>5, <1>6, <1>7
<1>9. \A k \in 1..i : z[k] = p[k]
  <2>1. \A k \in 1..i : k \in 1..j \/ k = i
    BY <1>4
  <2>2. p[i] = x /\ z[i] = x
    BY <1>4, <1>5, <1>6, <1>8
  <2>3. \A k \in 1..j : z[k] = p[k]
    BY <1>4, <1>5, <1>8
  <2> QED BY <2>1, <2>2, <2>3
<1>10. z = p
  BY <1>4, <1>5, <1>8, <1>9, SeqEqual
<1> QED BY <1>1, <1>3, <1>6, <1>10 DEF First

LEMMA NextIs ==
  ASSUME Sound, Written, RunInv, Running
  PROVE  \E e, q, table, d, l : IsNext(e, q, table, d, l)
<1>1. PICK i, j, l : i = pc - 1 /\ j = pc /\ l = OpLines(source)[pc]
  OBVIOUS
<1>2. Loaded /\ MachineType /\ pc \in 1..Count /\ OpIs(l, Current, VarsAt(i))
  BY <1>1, CurrentIs
<1>3. Count \in Nat
  BY <1>2, FirstIs
<1>4. i \in 0..Count /\ j \in 1..Count /\ j \in 0..Count /\ j - 1 = i
  BY <1>1, <1>2, <1>3
<1>5. Mirrors(i, aux, local)
  <2>1. status = "running"
    BY DEF Running
  <2> QED BY <1>1, <2>1 DEF RunInv
<1>6. PICK e : MeaningAt(i) = State(e, First(i)) /\ Shows(e, LocalsAt(i), aux, local)
  BY <1>5 DEF Mirrors
<1>7. PICK q, table, d : q = LocalsAt(i) /\ table = VarsAt(i) /\ d = First(i)
  OBVIOUS
<1>8. Apart(q) /\ Apart(LocalsAt(j)) /\ Tabled(table, q)
  BY <1>2, <1>4, <1>7, LocalsApart, LocalsTabled DEF Written
<1>9. Ready(e, q, table)
  BY <1>2, <1>6, <1>7, <1>8 DEF Ready
<1>10. LocalNames(d) = q
  BY <1>7 DEF LocalsAt
<1>11. MeaningAt(j) = MeaningStep(State(e, d), l)
  BY <1>1, <1>2, <1>4, <1>6, <1>7, MeaningsAre
<1>12. First(j) = Append(d, l)
  BY <1>1, <1>2, <1>4, <1>7, FirstNext
<1>13. LocalsAt(j) = IF l.cmd = "local" THEN Append(q, l.args[1]) ELSE q
  BY <1>1, <1>2, <1>4, <1>7, LocalsAre
<1>14. \E N : q \in Seq(N) /\ l.args[1] \in N
  <2>1. PICK N : N = {OpLines(source)[k].args[1] : k \in 1..Count}
    OBVIOUS
  <2>2. q \in Seq(N)
    BY <1>2, <1>4, <1>7, <2>1, LocalsAre
  <2>3. l.args[1] \in N
    BY <1>1, <1>4, <2>1
  <2> QED BY <2>2, <2>3
<1>15. ASSUME l.cmd = "load" PROVE IsVariable(l.args[1], table)
  <2>1. l.args[1] \in Range(AllocNames) \cup Range(LocalNames(SubSeq(OpLines(source), 1, j - 1)))
    <3>1. DOMAIN OpLines(source) = 1..Count
      BY <1>2, FirstIs
    <3> QED BY <1>1, <1>4, <1>15, <3>1 DEF Written, LoadsVariables
  <2>2. LocalNames(SubSeq(OpLines(source), 1, j - 1)) = q
    BY <1>4, <1>7 DEF LocalsAt, First
  <2>3. l.args[1] \in Range(AllocNames) => IsAllocated(l.args[1])
    BY <1>2, AllocDistinct
  <2>4. Range(q) = DOMAIN table
    BY <1>8 DEF Apart, Tabled, Range
  <2> QED BY <2>1, <2>2, <2>3, <2>4 DEF IsVariable
<1>16. IsNext(e, q, table, d, l)
  <2>1. MeaningAt(pc) = MeaningStep(State(e, d), l) /\ First(pc) = Append(d, l)
    BY <1>1, <1>11, <1>12
  <2>2. (LocalsAt(pc) = IF l.cmd = "local" THEN Append(q, l.args[1]) ELSE q) /\ Apart(LocalsAt(pc))
    BY <1>1, <1>8, <1>13
  <2>3. OpIs(l, Current, table)
    BY <1>2, <1>7
  <2> QED BY <1>2, <1>9, <1>10, <1>14, <1>15, <2>1, <2>2, <2>3 DEF IsNext
<1> QED BY <1>16

\* An operation has done what its line says, or stopped where the line cannot be done.
LineDone ==
  /\ Running /\ UNCHANGED <<source, contract, params, proof, input, latest>>
  /\ \/ status' \in {"DivisionByZero", "MalformedRange"} /\ Outcome.error = status'
     \/ status' = status /\ pc' = pc + 1 /\ \E i, a, m : i = pc /\ a = aux' /\ m = local' /\ Mirrors(i, a, m)

\* What it takes for a line to be done, or not.
LEMMA Done ==
  ASSUME NEW e, NEW q, NEW table, NEW d, NEW l, IsNext(e, q, table, d, l), Loaded, Running,
         UNCHANGED <<source, contract, params, proof, input, latest>>, status' = status, pc' = pc + 1,
         NEW g, NEW a, NEW m, a = aux', m = local', MeaningStep(State(e, d), l) = State(g, Append(d, l)),
         Shows(g, LocalsAt(pc), a, m)
  PROVE  LineDone
<1>1. PICK i : i = pc
  OBVIOUS
<1>2. MeaningAt(i) = State(g, First(i))
  BY <1>1 DEF IsNext
<1>3. Mirrors(i, a, m)
  BY <1>1, <1>2 DEF Mirrors
<1> QED BY <1>1, <1>3 DEF LineDone

LEMMA Stopped ==
  ASSUME NEW e, NEW q, NEW table, NEW d, NEW l, IsNext(e, q, table, d, l), Loaded, Running,
         NEW error \in {"DivisionByZero", "MalformedRange"}, Stops(e, d, l, error), Abort(error)
  PROVE  LineDone
<1>1. PICK i : i = pc
  OBVIOUS
<1>2. MeaningAt(i).error = error /\ i \in 1..Count
  BY <1>1, StopsStep DEF IsNext
<1>3. i \in 0..Count /\ error # None
  BY <1>2 DEF None
<1>4. Outcome.error = error
  BY <1>2, <1>3, ErrorStays
<1> QED BY <1>4 DEF LineDone, Abort


LEMMA AssignFollows ==
  ASSUME Sound, Written, RunInv, Assign
  PROVE  LineDone
<1>1. PICK op : op = Current
  OBVIOUS
<1>2. Running /\ op.op \in Assigning
  BY <1>1 DEF Assign
<1>3. PICK e, q, table, d, l : IsNext(e, q, table, d, l)
  BY <1>2, NextIs
<1>4. Loaded /\ Ready(e, q, table) /\ OpIs(l, op, table) /\ (l.cmd = "load" => IsVariable(l.args[1], table))
  BY <1>1, <1>3 DEF IsNext, Sound
<1>5. l.cmd \in {"set", "mul", "add", "sub", "divide", "double", "square", "invert", "load"} /\ l.cmd # "local"
  BY <1>2, <1>4, AssigningAre
<1>6. ~OutOfRange(op)
  BY <1>4, <1>5, NoneOutOfRange
<1>7. /\ DividesByZero(op) => Stops(e, d, l, "DivisionByZero")
      /\ ~DividesByZero(op) => Binds(e, d, l, Result(op))
  BY <1>2, <1>4, AssignMeans
<1>8. CASE DividesByZero(op)
  <2>1. Abort("DivisionByZero")
    BY <1>1, <1>6, <1>8 DEF Assign
  <2> QED BY <1>2, <1>3, <1>4, <1>7, <1>8, <2>1, Stopped
<1>9. CASE ~DividesByZero(op)
  <2>1. PICK ref, value, s : ref = op.args[1] /\ value = Result(op) /\ s = l.args[1]
    OBVIOUS
  <2>2. Put(ref, value) /\ Advance
    BY <1>1, <1>6, <1>9, <2>1 DEF Assign
  <2>3. 1 \in 1..op_commands[l.cmd]
    BY <1>5, Arities
  <2>4. IsRef(ref) /\ RefIs(s, ref, table)
    BY <1>4, <1>5, <2>1, <2>3, OperandsAre
  <2>5. Apart(q) /\ Tabled(table, q) /\ Shows(e, q, aux, local) /\ MachineType
    BY <1>4 DEF Ready
  <2>6. value \in Scalars
    BY <1>2, <1>4, <1>6, <1>9, <2>1, <2>5, ResultIs
  <2>7. PICK g, a, m : g = [e EXCEPT ![s] = value] /\ a = aux' /\ m = local'
    OBVIOUS
  <2>8. Shows(g, q, a, m)
    <3>1. Shows([e EXCEPT ![s] = value], q, a, m)
      BY ONLY <1>4, <2>2, <2>4, <2>5, <2>6, <2>7, ShowsPut
    <3> QED BY <2>7, <3>1
  <2>9. LocalsAt(pc) = q
    BY <1>3, <1>5 DEF IsNext
  <2>10. MeaningStep(State(e, d), l) = State(g, Append(d, l))
    <3>1. Binds(e, d, l, value)
      BY <1>7, <1>9, <2>1
    <3>2. MeaningStep(State(e, d), l) = State([e EXCEPT ![l.args[1]] = value], Append(d, l))
      BY ONLY <3>1, BindsStep
    <3> QED BY <2>1, <2>7, <3>2
  <2>11. UNCHANGED <<source, contract, params, proof, input, latest>> /\ status' = status /\ pc' = pc + 1
    BY <2>2 DEF Advance
  <2> QED BY <1>2, <1>3, <1>4, <2>7, <2>8, <2>9, <2>10, <2>11, Done
<1> QED BY <1>8, <1>9

LEMMA UnpackFollows ==
  ASSUME Sound, Written, RunInv, UnpackBits
  PROVE  LineDone
<1>1. PICK op : op = Current
  OBVIOUS
<1>2. Running /\ op.op = "UnpackBits"
  BY <1>1 DEF UnpackBits
<1>3. PICK e, q, table, d, l : IsNext(e, q, table, d, l)
  BY <1>2, NextIs
<1>4. Loaded /\ Ready(e, q, table) /\ OpIs(l, op, table) /\ LocalNames(d) = q
  BY <1>1, <1>3 DEF IsNext, Sound
<1>5. l.cmd = "unpack_bits" /\ l.cmd # "local" /\ l.cmd # "load"
  BY <1>2, <1>4, AssigningAre
<1>6. ~OutOfRange(op)
  BY <1>4, <1>5, NoneOutOfRange
<1>7. PICK start, value, bits : /\ start = op.args[2] /\ value = Get(op.args[1])
                                /\ bits = Unpacked(Memory(start), start.index, value)
  OBVIOUS
<1>8. /\ Malformed(op) => Stops(e, d, l, "MalformedRange")
      /\ ~Malformed(op) =>
           \E g : /\ Meaning(State(e, d), l) = [State(e, d) EXCEPT !.env = g]
                  /\ IF start.mem = "aux" THEN Shows(g, q, Unpacked(aux, start.index, value), local)
                                          ELSE Shows(g, q, aux, Unpacked(local, start.index, value))
  <2>1. start = op.args[2] /\ value = Get(op.args[1])
    BY <1>7
  <2> QED BY ONLY <1>4, <1>5, <2>1, UnpackMeans
<1>9. CASE Malformed(op)
  <2>1. Abort("MalformedRange")
    BY <1>1, <1>6, <1>9 DEF UnpackBits
  <2> QED BY <1>2, <1>3, <1>4, <1>8, <1>9, <2>1, Stopped
<1>10. CASE ~Malformed(op)
  <2>1. PICK g : /\ Meaning(State(e, d), l) = [State(e, d) EXCEPT !.env = g]
                 /\ IF start.mem = "aux" THEN Shows(g, q, Unpacked(aux, start.index, value), local)
                                         ELSE Shows(g, q, aux, Unpacked(local, start.index, value))
    BY <1>8, <1>10
  <2>2. /\ IF start.mem = "aux" THEN aux' = bits /\ UNCHANGED local
                                ELSE local' = bits /\ UNCHANGED aux
        /\ Advance
    BY <1>1, <1>6, <1>7, <1>10 DEF UnpackBits
  <2>3. PICK a, m : a = aux' /\ m = local'
    OBVIOUS
  <2>4. Shows(g, q, a, m)
    BY <1>7, <2>1, <2>2, <2>3 DEF Memory
  <2>5. LocalsAt(pc) = q
    BY <1>3, <1>5 DEF IsNext
  <2>6. MeaningStep(State(e, d), l) = State(g, Append(d, l))
    <3>1. State(e, d).error = None
      BY DEF State
    <3>2. MeaningStep(State(e, d), l) = [[State(e, d) EXCEPT !.env = g] EXCEPT !.done = Append(@, l)]
      BY <2>1, <3>1 DEF MeaningStep
    <3> QED BY <3>2 DEF State
  <2>7. UNCHANGED <<source, contract, params, proof, input, latest>> /\ status' = status /\ pc' = pc + 1
    BY <2>2 DEF Advance
  <2> QED BY <1>2, <1>3, <1>4, <2>3, <2>4, <2>5, <2>6, <2>7, Done
<1> QED BY <1>9, <1>10

LEMMA PushFollows ==
  ASSUME Sound, Written, RunInv, PushLocal
  PROVE  LineDone
<1>1. Running /\ local' = Append(local, 0) /\ aux' = aux /\ Advance
  BY DEF PushLocal
<1>2. PICK e, q, table, d, l : IsNext(e, q, table, d, l)
  BY <1>1, NextIs
<1>3. Loaded /\ Ready(e, q, table) /\ OpIs(l, Current, table)
  BY <1>2 DEF IsNext, Sound
<1>4. l.cmd = "local"
  BY <1>3, AssigningAre DEF PushLocal
<1>5. PICK x, p, a, m : x = l.args[1] /\ p = Append(q, x) /\ a = aux' /\ m = local'
  OBVIOUS
<1>6. PICK N : q \in Seq(N) /\ x \in N
  BY <1>2, <1>5 DEF IsNext
<1>7. LocalsAt(pc) = p /\ Apart(p)
  BY <1>2, <1>4, <1>5 DEF IsNext
<1>8. PICK g : g = [e EXCEPT ![x] = 0]
  OBVIOUS
<1>9. Shows(g, p, a, m)
  <2>1. Shows(e, q, aux, local) /\ MachineType
    BY <1>3 DEF Ready
  <2>2. m = Append(local, 0) /\ p = Append(q, x)
    BY <1>1, <1>5
  <2>3. Shows([e EXCEPT ![x] = 0], p, aux, m)
    BY ONLY <1>3, <1>6, <1>7, <2>1, <2>2, ShowsLocal
  <2> QED BY <1>1, <1>5, <1>8, <2>3
<1>10. Binds(e, d, l, 0)
  BY <1>4 DEF Binds, Meaning, State
<1>11. MeaningStep(State(e, d), l) = State(g, Append(d, l))
  <2>1. MeaningStep(State(e, d), l) = State([e EXCEPT ![l.args[1]] = 0], Append(d, l))
    BY ONLY <1>10, BindsStep
  <2> QED BY <1>5, <1>8, <2>1
<1>12. UNCHANGED <<source, contract, params, proof, input, latest>> /\ status' = status /\ pc' = pc + 1
  BY <1>1 DEF Advance
<1> QED BY <1>1, <1>2, <1>3, <1>5, <1>7, <1>9, <1>11, <1>12, Done

LEMMA DisplayFollows ==
  ASSUME Sound, Written, RunInv, Display
  PROVE  LineDone
<1>1. Running /\ Current.op \in {"Debug", "DumpAlloc", "DumpLocal"}
  BY DEF Display
<1>2. PICK e, q, table, d, l : IsNext(e, q, table, d, l)
  BY <1>1, NextIs
<1>3. Loaded /\ Ready(e, q, table) /\ OpIs(l, Current, table)
  BY <1>2 DEF IsNext, Sound
<1>4. l.cmd \in {"debug", "dump_alloc", "dump_local"}
  BY <1>1, <1>3, AssigningAre
<1>5. ~OutOfRange(Current)
  <2>1. PICK op : op = Current
    OBVIOUS
  <2>2. ~OutOfRange(op)
    BY <1>3, <1>4, <2>1, NoneOutOfRange
  <2> QED BY <2>1, <2>2
<1>6. UNCHANGED <<aux, local>> /\ Advance
  BY <1>5 DEF Display
<1>7. PICK a, m : a = aux' /\ m = local'
  OBVIOUS
<1>8. Shows(e, LocalsAt(pc), a, m)
  <2>1. LocalsAt(pc) = q
    BY <1>2, <1>4 DEF IsNext
  <2> QED BY <1>3, <1>6, <1>7, <2>1 DEF Ready
<1>9. Meaning(State(e, d), l) = State(e, d)
  BY <1>4 DEF Meaning
<1>10. MeaningStep(State(e, d), l) = State(e, Append(d, l))
  <2>1. State(e, d).error = None
    BY DEF State
  <2>2. MeaningStep(State(e, d), l) = [State(e, d) EXCEPT !.done = Append(@, l)]
    BY <1>9, <2>1 DEF MeaningStep
  <2> QED BY <2>2 DEF State
<1>11. UNCHANGED <<source, contract, params, proof, input, latest>> /\ status' = status /\ pc' = pc + 1
  BY <1>6 DEF Advance
<1> QED BY <1>1, <1>2, <1>3, <1>7, <1>8, <1>10, <1>11, Done


----------------------------------------------------------------------------
(* Every step keeps the invariant of the runs.                             *)

LEMMA SameSource ==
  ASSUME UNCHANGED source
  PROVE  /\ Written' <=> Written
         /\ \A e, q, a, m : Shows(e, q, a, m)' <=> Shows(e, q, a, m)
         /\ \A i : LocalsAt(i)' = LocalsAt(i) /\ First(i)' = First(i)
         /\ Names' = Names /\ Count' = Count
<1>1. Size' = Size /\ Names' = Names /\ AllocLines(source)' = AllocLines(source) /\ Count' = Count
  BY DEF Names, AllocNames, Size, Count
<1>2. \A i : LocalsAt(i)' = LocalsAt(i) /\ First(i)' = First(i)
  BY DEF LocalsAt, First
<1>3. \A e, q, a, m : Shows(e, q, a, m)' <=> Shows(e, q, a, m)
  BY <1>1 DEF Shows, Name
<1>4. (DistinctNames' <=> DistinctNames) /\ (LoadsVariables' <=> LoadsVariables)
  BY DEF DistinctNames, LoadsVariables, AllocNames
<1> QED BY <1>1, <1>2, <1>3, <1>4 DEF Written

LEMMA SetRemembers ==
  ASSUME Loaded, Remembered, SetParam
  PROVE  Remembered'
<1>1. PICK f : f = contract.params_map
  OBVIOUS
<1>2. PICK name \in DOMAIN f, value \in Scalars :
        /\ params' = [i \in DOMAIN params \cup {f[name]} |-> IF i = f[name] THEN value ELSE params[i]]
        /\ latest' = [s \in DOMAIN latest \cup {name} |-> IF s = name THEN value ELSE latest[s]]
  BY <1>1 DEF SetParam
<1>3. contract' = contract
  BY DEF SetParam
<1>4. \A s, t \in DOMAIN f : f[s] = f[t] => s = t
  BY <1>1, ParamsMapIs
<1>5. /\ DOMAIN latest \subseteq DOMAIN f
      /\ DOMAIN params = {f[s] : s \in DOMAIN latest}
      /\ \A s \in DOMAIN latest : params[f[s]] = latest[s]
  BY <1>1 DEF Remembered
<1>6. PICK p, h : p = params' /\ h = latest'
  OBVIOUS
<1>7. DOMAIN h = DOMAIN latest \cup {name} /\ h[name] = value /\ \A s \in DOMAIN latest : s # name => h[s] = latest[s]
  BY <1>2, <1>6
<1>8. DOMAIN p = DOMAIN params \cup {f[name]} /\ p[f[name]] = value /\ \A i \in DOMAIN params : i # f[name] => p[i] = params[i]
  BY <1>2, <1>6
<1>9. DOMAIN h \subseteq DOMAIN f
  BY <1>5, <1>7
<1>10. DOMAIN p = {f[s] : s \in DOMAIN h}
  BY <1>5, <1>7, <1>8
<1>11. ASSUME NEW s \in DOMAIN h PROVE p[f[s]] = h[s]
  <2>1. CASE s = name
    BY <1>7, <1>8, <2>1
  <2>2. CASE s # name
    <3>1. s \in DOMAIN latest /\ f[s] # f[name] /\ f[s] \in DOMAIN params
      BY <1>4, <1>5, <1>7, <1>9, <2>2
    <3> QED BY <1>5, <1>7, <1>8, <2>2, <3>1
  <2> QED BY <2>1, <2>2
<1> QED BY <1>1, <1>3, <1>6, <1>9, <1>10, <1>11 DEF Remembered

LEMMA BegunIs == Loaded => MeaningAt(0) = Begun
BY MeaningsAre

LEMMA BegunNext == (Loaded => MeaningAt(0) = Begun)'
BY BegunIs, PTL

LEMMA ProveMirrors ==
  ASSUME Loaded, Stored, Remembered, Prove
  PROVE  \E i, a, m : i = pc' - 1 /\ a = aux' /\ m = local' /\ Mirrors(i, a, m)'
<1>1. UNCHANGED <<source, contract>> /\ pc' = 1 /\ local' = <<>> /\ input' = latest
  BY DEF Prove
<1>2. aux' = [i \in DOMAIN contract.alloc |-> IF i \in DOMAIN params THEN params[i] ELSE 0]
  BY DEF Prove
<1>3. PICK a, m : a = aux' /\ m = local'
  OBVIOUS
<1>4. PICK f, D : f = contract.params_map /\ D = DOMAIN latest
  OBVIOUS
<1>5. /\ D \subseteq DOMAIN f /\ DOMAIN params = {f[s] : s \in D}
      /\ \A s \in D : params[f[s]] = latest[s]
  BY <1>4 DEF Remembered
<1>6. \A s \in DOMAIN f : f[s] \in 1..Size /\ Name(f[s]) = s
  BY <1>4, ParamsMapIs
<1>7. \A s \in D : latest[s] \in Scalars
  BY <1>5 DEF Stored
<1>8. PICK g : g = [n \in Names |-> IF n \in D THEN latest[n] ELSE 0]
  OBVIOUS
<1>9. g \in [Names -> Scalars]
  BY <1>7, <1>8, FieldIs
<1>10. ASSUME NEW v \in 1..Size PROVE a[v] = g[Name(v)]
  <2>1. a[v] = IF v \in DOMAIN params THEN params[v] ELSE 0
    BY <1>2, <1>3, AllocRead
  <2>2. Name(v) \in Names
    BY AllocatedNames
  <2>3. \A i, j \in 1..Size : Name(i) = Name(j) => i = j
    BY AllocIs
  <2>4. CASE Name(v) \in D
    <3>1. Name(v) \in DOMAIN f /\ f[Name(v)] \in 1..Size /\ Name(f[Name(v)]) = Name(v)
      BY <1>5, <1>6, <2>4
    <3>2. f[Name(v)] = v
      BY <2>3, <3>1
    <3>3. v \in DOMAIN params /\ params[v] = latest[Name(v)]
      BY <1>5, <2>4, <3>2
    <3> QED BY <1>8, <2>1, <2>2, <2>4, <3>3
  <2>5. CASE Name(v) \notin D
    <3>1. v \notin DOMAIN params
      BY <1>5, <1>6, <2>5
    <3> QED BY <1>8, <2>1, <2>2, <2>5, <3>1
  <2> QED BY <2>4, <2>5
<1>11. LocalsAt(0) = <<>> /\ m = <<>> /\ First(0) = <<>>
  <2>1. DOMAIN First(0) = {} /\ First(0) = SubSeq(OpLines(source), 1, 0)
    <3>1. 0 \in 0..Count /\ 1..0 = {}
      BY FirstIs
    <3> QED BY <3>1, FirstIs DEF First
  <2>2. First(0) = <<>>
    BY <2>1
  <2> QED BY <1>1, <1>3, <2>2, LocalsAre
<1>12. Shows(g, <<>>, a, m)
  <2>1. Len(<<>>) = 0 /\ 1..0 = {}
    OBVIOUS
  <2> QED BY <1>9, <1>10, <1>11, <2>1 DEF Shows
<1>13. Loaded'
  BY <1>1, Same1
<1>14. MeaningAt(0)' = Begun'
  BY <1>13, BegunNext
<1>15. Begun' = State(g, <<>>)
  <2>1. Names' = Names /\ input' = latest
    BY <1>1, SameSource
  <2> QED BY <1>4, <1>8, <2>1 DEF Begun, State, None
<1>16. LocalsAt(0)' = <<>> /\ First(0)' = <<>> /\ Shows(g, <<>>, a, m)'
  BY <1>1, <1>11, <1>12, SameSource
<1>17. PICK i, q : i = 0 /\ q = <<>>
  OBVIOUS
<1>18. MeaningAt(i)' = State(g, q) /\ LocalsAt(i)' = q /\ First(i)' = q /\ Shows(g, q, a, m)'
  BY <1>14, <1>15, <1>16, <1>17
<1>19. Mirrors(i, a, m)'
  BY <1>18 DEF Mirrors
<1> QED BY <1>1, <1>3, <1>17, <1>19


\* Steps that leave the memories and the parameters taken alone.
LEMMA RestingSteps ==
  ASSUME Sound, RunInv, UNCHANGED <<source, contract, aux, local, input>>, Remembered', status' # "panic",
         status' = "running" => status = "running" /\ pc' = pc,
         Finished' => Finished \/ (status = "running" /\ pc > Len(contract.ops)),
         status' \in {"DivisionByZero", "MalformedRange"} => status' = status
  PROVE  RunInv'
<1>1. Loaded /\ pc \in 1..Count + 1
  BY DEF Sound
<1>2. Count \in Nat /\ Len(contract.ops) = Count /\ Count' = Count
  BY <1>1, FirstIs, OpsAre, SameSource
<1>3. \A i, a, m : Mirrors(i, a, m)' <=> Mirrors(i, a, m)
  BY SameMirrors
<1>4. Outcome' = Outcome
  BY SameOutcome
<1>5. ASSUME status' = "running" PROVE \E i, a, m : i = pc' - 1 /\ a = aux' /\ m = local' /\ Mirrors(i, a, m)'
  <2>1. PICK i, a, m : i = pc - 1 /\ a = aux /\ m = local /\ Mirrors(i, a, m)
    BY <1>5 DEF RunInv
  <2> QED BY <1>3, <1>5, <2>1
<1>6. ASSUME Finished' PROVE \E i, a, m : i = Count' /\ a = aux' /\ m = local' /\ Mirrors(i, a, m)'
  <2>1. PICK i, a, m : i = Count /\ a = aux /\ m = local /\ Mirrors(i, a, m)
    <3>1. CASE Finished
      BY <3>1 DEF RunInv
    <3>2. CASE status = "running" /\ pc > Len(contract.ops)
      <4>1. pc - 1 = Count
        BY <1>1, <1>2, <3>2
      <4> QED BY <3>2, <4>1 DEF RunInv
    <3> QED BY <1>6, <3>1, <3>2
  <2> QED BY <1>2, <1>3, <2>1
<1>7. status' \in {"DivisionByZero", "MalformedRange"} => Outcome'.error = status'
  BY <1>4 DEF RunInv
<1> QED BY <1>5, <1>6, <1>7 DEF RunInv

LEMMA LineSteps ==
  ASSUME Sound, RunInv, LineDone
  PROVE  RunInv'
<1>1. UNCHANGED <<source, contract, params, input, latest>> /\ status = "running"
  BY DEF LineDone, Running
<1>2. \A i, a, m : Mirrors(i, a, m)' <=> Mirrors(i, a, m)
  BY <1>1, SameMirrors
<1>3. Outcome' = Outcome
  BY <1>1, SameOutcome
<1>4. Remembered'
  BY <1>1 DEF RunInv, Remembered
<1>5. Loaded /\ pc \in Nat
  <2>1. Loaded /\ pc \in 1..Count + 1
    BY DEF Sound
  <2> QED BY <2>1, FirstIs
<1>6. CASE status' \in {"DivisionByZero", "MalformedRange"} /\ Outcome.error = status'
  BY <1>3, <1>4, <1>6 DEF RunInv, Finished
<1>7. CASE status' = status /\ pc' = pc + 1 /\ \E i, a, m : i = pc /\ a = aux' /\ m = local' /\ Mirrors(i, a, m)
  <2>1. PICK i, a, m : i = pc /\ a = aux' /\ m = local' /\ Mirrors(i, a, m)
    BY <1>7
  <2>2. i = pc' - 1 /\ Mirrors(i, a, m)'
    BY <1>2, <1>5, <1>7, <2>1
  <2>3. status' = "running"
    BY <1>1, <1>7
  <2> QED BY <1>4, <2>1, <2>2, <2>3 DEF RunInv, Finished
<1> QED BY <1>6, <1>7 DEF LineDone

SoundRuns == Sound /\ (Written => RunInv)

LEMMA NextSoundRuns == SoundRuns /\ [Next]_vars => SoundRuns'
<1> SUFFICES ASSUME SoundRuns, [Next]_vars PROVE SoundRuns'
  OBVIOUS
<1>1. Sound /\ Sound' /\ Loaded /\ Stored
  BY NextSound DEF SoundRuns, Sound
<1>2. UNCHANGED <<source, contract>>
  BY DEF Next, vars, SetParam, MissingParams, Prove, Assign, UnpackBits, PushLocal, Display, FinishProof, Verify,
         Advance, Abort
<1>3. Written' <=> Written
  BY <1>2, SameSource
<1>4. SUFFICES ASSUME Written PROVE RunInv'
  BY <1>1, <1>3 DEF SoundRuns
<1>5. RunInv /\ Remembered
  BY <1>4 DEF SoundRuns, RunInv
<1>6. CASE SetParam
  <2>1. Remembered'
    BY <1>1, <1>5, <1>6, SetRemembers
  <2>2. UNCHANGED <<source, contract, aux, local, input>> /\ status' = status /\ status # "running"
    BY <1>6 DEF SetParam, machine, Calling
  <2> QED BY <1>1, <1>5, <2>1, <2>2, RestingSteps DEF RunInv, Finished
<1>7. CASE MissingParams
  <2>1. UNCHANGED <<source, contract, aux, local, input, params, latest>> /\ status' = "MissingParams"
    BY <1>7 DEF MissingParams, machine
  <2>2. Remembered'
    BY <1>5, <2>1 DEF Remembered
  <2> QED BY <1>1, <1>5, <2>1, <2>2, RestingSteps DEF Finished
<1>8. CASE Prove
  <2>1. \E i, a, m : i = pc' - 1 /\ a = aux' /\ m = local' /\ Mirrors(i, a, m)'
    BY <1>1, <1>5, <1>8, ProveMirrors
  <2>2. params' = Empty /\ latest' = Empty /\ status' = "running"
    BY <1>8 DEF Prove, TakeParams
  <2>3. DOMAIN Empty = {}
    BY DEF Empty, Without
  <2>4. Remembered'
    BY <2>2, <2>3 DEF Remembered
  <2> QED BY <2>1, <2>2, <2>4 DEF RunInv, Finished
<1>9. CASE Assign
  BY <1>1, <1>4, <1>5, <1>9, AssignFollows, LineSteps
<1>10. CASE UnpackBits
  BY <1>1, <1>4, <1>5, <1>10, UnpackFollows, LineSteps
<1>11. CASE PushLocal
  BY <1>1, <1>4, <1>5, <1>11, PushFollows, LineSteps
<1>12. CASE Display
  BY <1>1, <1>4, <1>5, <1>12, DisplayFollows, LineSteps
<1>13. CASE FinishProof
  <2>1. UNCHANGED <<source, contract, aux, local, input, params, latest>> /\ status' \in {"proved", "BadContract"}
        /\ status = "running" /\ pc > Len(contract.ops)
    BY <1>13 DEF FinishProof, machine
  <2>2. Remembered'
    BY <1>5, <2>1 DEF Remembered
  <2> QED BY <1>1, <1>5, <2>1, <2>2, RestingSteps DEF Finished
<1>14. CASE Verify
  <2>1. UNCHANGED <<source, contract, aux, local, input, params, latest>> /\ status' \in {"verified", "rejected"}
        /\ status = "proved"
    BY <1>14 DEF Verify, machine
  <2>2. Remembered'
    BY <1>5, <2>1 DEF Remembered
  <2> QED BY <1>1, <1>5, <2>1, <2>2, RestingSteps DEF Finished
<1>15. CASE UNCHANGED vars
  <2>1. UNCHANGED <<source, contract, aux, local, input, params, latest, status, pc>>
    BY <1>15 DEF vars, machine
  <2>2. Remembered'
    BY <1>5, <2>1 DEF Remembered
  <2>3. (Finished' <=> Finished) /\ status # "panic"
    BY <1>5, <2>1 DEF Finished, RunInv
  <2> QED BY <1>1, <1>5, <2>1, <2>2, <2>3, RestingSteps
<1> QED BY <1>6, <1>7, <1>8, <1>9, <1>10, <1>11, <1>12, <1>13, <1>14, <1>15 DEF Next

LEMMA InitSoundRuns == Init /\ DistinctConstants => SoundRuns
<1> SUFFICES ASSUME Init, DistinctConstants PROVE SoundRuns
  OBVIOUS
<1>1. Sound
  BY InitSound
<1>2. params = Empty /\ latest = Empty /\ status = "idle"
  BY DEF Init
<1>3. DOMAIN Empty = {}
  BY DEF Empty, Without
<1>4. Remembered
  BY <1>2, <1>3 DEF Remembered
<1> QED BY <1>1, <1>2, <1>4 DEF SoundRuns, RunInv, Finished

LEMMA SoundRunsAgree == SoundRuns /\ Written => Agrees
<1> SUFFICES ASSUME Sound, RunInv PROVE Agrees
  BY DEF SoundRuns
<1>1. Loaded
  BY DEF Sound
<1>2. ASSUME Finished
      PROVE  /\ Outcome.error = None
             /\ \A i \in DOMAIN aux : aux[i] = Outcome.env[AllocLines(source)[i].args[1]]
             /\ \A i \in DOMAIN AllocLines(source) :
                  AllocLines(source)[i].cmd = "public" =>
                    proof.public[AllocLines(source)[i].args[1]] = Outcome.env[AllocLines(source)[i].args[1]]
  <2>1. Mirrors(Count, aux, local)
    BY <1>2 DEF RunInv
  <2>2. PICK e : MeaningAt(Count) = State(e, First(Count)) /\ Shows(e, LocalsAt(Count), aux, local)
    BY <2>1 DEF Mirrors
  <2>3. Outcome = State(e, First(Count))
    BY <1>1, <2>2, MeaningsAre
  <2>4. Outcome.error = None /\ Outcome.env = e
    BY <2>3 DEF State
  <2>5. DOMAIN aux = 1..Size /\ DOMAIN AllocLines(source) = 1..Size
    BY <1>1, <1>2, AllocIs DEF Sound, MachineType, Filled
  <2>6. \A v \in 1..Size : aux[v] = e[Name(v)] /\ Name(v) = AllocLines(source)[v].args[1]
    BY <2>2 DEF Shows, Name
  <2>7. \A v \in PublicPlaces : proof.public[Name(v)] = aux[v]
    BY <1>2 DEF Sound, Proven, Published
  <2>8. \A v \in 1..Size : AllocLines(source)[v].cmd = "public" => proof.public[Name(v)] = e[Name(v)]
    BY <2>6, <2>7 DEF PublicPlaces
  <2> QED BY <2>4, <2>5, <2>6, <2>8
<1>3. status # "panic" /\ (status \in {"DivisionByZero", "MalformedRange"} => Outcome.error = status)
  BY DEF RunInv
<1> QED BY <1>2, <1>3 DEF Agrees

RunsInv == DistinctConstants => SoundRuns

(* Between any two operations the memories show what the lines so far mean, *)
(* for the parameters that were set last before the proof was asked for.    *)
THEOREM RunsInductive == Spec => []RunsInv
<1>1. Init => RunsInv
  BY InitSoundRuns DEF RunsInv
<1>2. RunsInv /\ [Next]_vars => RunsInv'
  <2>1. DistinctConstants' <=> DistinctConstants
    BY DEF DistinctConstants
  <2> QED BY <2>1, NextSoundRuns DEF RunsInv
<1> QED BY <1>1, <1>2, PTL DEF Spec

(* What is loaded from the file runs as its source is written, no constant *)
(* and no name of which is declared twice: the values left, the errors and *)
(* the public values of every proof.                                       *)
THEOREM ContractsRun == Spec => []RunsAsWritten
<1>1. RunsInv => RunsAsWritten
  BY SoundRunsAgree DEF RunsInv, RunsAsWritten, Written
<1> QED BY <1>1, RunsInductive, PTL
=============================================================================
