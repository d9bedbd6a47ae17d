-------------------------- MODULE TransactionProofs --------------------------
(***************************************************************************)
(* A transaction that was built verifies exactly if its values balance,    *)
(* and an output opens for its owner and for nobody else.                  *)
(*                                                                         *)
(* Neither is inductive.  IInv says what each part of the payment is made  *)
(* from and keeps the sum of the blinds; the folds that add up values,     *)
(* blinds and commitments are tables of partial sums, compared entry by    *)
(* entry; and what is sent is tied to what was built by the round trip.    *)
(*                                                                         *)
(* The tree of coins is compared with the whole tree, whose rows are       *)
(* infinite and blank beyond the last coin.  A frontier holds the nodes    *)
(* beside the path of its last leaf (TreeInv), and a witness the frontier  *)
(* of its coin, the roots of the complete subtrees to the right of it and  *)
(* the one that is being filled (WitnessInv): from this follow the roots,  *)
(* and that a path proves its coin.                                        *)
(***************************************************************************)
EXTENDS Transaction, CodecProofs

----------------------------------------------------------------------------
(* Sums.                                                                   *)

\* f holds the sums of the first elements of s.
Sums(s, f) ==
  f[0] = 0 /\ \A i \in 1..Len(s) : f[i] = f[i - 1] + s[i]

LEMMA TotalIs ==
  ASSUME NEW s \in Seq(Int)
  PROVE  \E f \in [0..Len(s) -> Int] : Sums(s, f) /\ Total(s) = f[Len(s)]
<1> DEFINE n == Len(s)
           step == [i \in 1..n |-> [x \in Int |-> x + s[i]]]
           D == DOMAIN s
           Eqn(g) == g = [t \in SUBSET D |->
                            IF t = {} THEN 0 ELSE g[t \ {Max(t)}] + s[Max(t)]]
<1>1. Total(s) = (CHOOSE g : Eqn(g))[D]
  BY DEF Total, FoldLeft, MapThenFoldSet
<1>13. D = 1..n /\ 0 \in Int
  OBVIOUS
<1>2. n \in Nat /\ \A i \in 1..n : s[i] \in Int
  OBVIOUS
<1>3. step \in [1..n -> [Int -> Int]]
  BY <1>2
<1>4. \A i \in 1..n, x \in Int : step[i][x] = x + s[i]
  OBVIOUS
<1> HIDE DEF n, step, D
<1>5. PICK e \in [SUBSET (1..n) -> Int] : Table(step, 0, n, e)
  BY <1>2, <1>3, <1>13, TableExists
<1>6. Eqn(e)
  <2>1. ASSUME NEW t \in SUBSET (1..n), t # {} PROVE e[t] = e[t \ {Max(t)}] + s[Max(t)]
    <3>1. Max(t) \in 1..n
      BY <1>2, <2>1, Greatest
    <3>2. t \ {Max(t)} \in SUBSET (1..n)
      OBVIOUS
    <3>3. e[t \ {Max(t)}] \in Int
      BY <1>5, <3>2
    <3> QED BY <1>4, <1>5, <2>1, <3>1, <3>3 DEF Table
  <2>2. e[{}] = 0
    BY <1>5 DEF Table
  <2> QED BY <1>5, <1>13, <2>1, <2>2
<1>7. PICK g : g = (CHOOSE h : Eqn(h))
  OBVIOUS
<1>8. Eqn(g)
  BY <1>6, <1>7, Zenon
<1>9. g[{}] = 0
  BY <1>8, <1>13
<1>10. ASSUME NEW i \in 1..n, g[1..(i - 1)] \in Int PROVE g[1..i] = step[i][g[1..(i - 1)]]
  <2>1. g[1..i] = g[1..(i - 1)] + s[i]
    <3>1. PICK t : t = 1..i
      OBVIOUS
    <3>2. t \in SUBSET D /\ t # {} /\ Max(t) = i /\ t \ {i} = 1..(i - 1)
      BY <1>2, <1>13, <3>1, FirstPlaces
    <3>3. g[t] = g[t \ {Max(t)}] + s[Max(t)]
      BY <1>8, <3>2
    <3> QED BY <3>1, <3>2, <3>3
  <2> QED BY <1>4, <1>10, <2>1
<1>11. PICK f \in [0..n -> Int] : Iter(step, 0, n, f) /\ g[1..n] = f[n]
  <2>1. Follows(Int, step, 0, n, g)
    BY <1>9, <1>10 DEF Follows
  <2>2. PICK S, b : S = Int /\ b = 0
    OBVIOUS
  <2>3. Follows(S, step, b, n, g)
    BY <2>1, <2>2
  <2>4. b \in S /\ n \in Nat /\ step \in [1..n -> [S -> S]]
    BY <1>2, <1>3, <1>13, <2>2
  <2>5. \E f \in [0..n -> S] : Iter(step, b, n, f) /\ g[1..n] = f[n]
    BY ONLY <2>3, <2>4, FoldResult
  <2> QED BY <2>2, <2>5
<1>12. Sums(s, f)
  <2>1. ASSUME NEW i \in 1..n PROVE f[i] = f[i - 1] + s[i]
    <3>1. f[i - 1] \in Int
      BY <1>2, <1>11
    <3> QED BY <1>4, <1>11, <3>1 DEF Iter
  <2> QED BY <1>11, <2>1 DEF Iter, Sums, n
<1> QED BY <1>1, <1>7, <1>11, <1>12, <1>13 DEF n


\* What is needed of them.
LEMMA TotalType ==
  ASSUME NEW s \in Seq(Int)
  PROVE  Total(s) \in Int /\ Total(<<>>) = 0
<1>1. Total(s) \in Int
  <2>1. PICK f \in [0..Len(s) -> Int] : Total(s) = f[Len(s)]
    BY TotalIs
  <2>2. Len(s) \in 0..Len(s)
    OBVIOUS
  <2> QED BY <2>1, <2>2
<1>2. Total(<<>>) = 0
  <2>1. <<>> \in Seq(Int) /\ Len(<<>>) = 0
    OBVIOUS
  <2>2. PICK f \in [0..Len(<<>>) -> Int] : Sums(<<>>, f) /\ Total(<<>>) = f[Len(<<>>)]
    BY <2>1, TotalIs
  <2> QED BY <2>1, <2>2 DEF Sums
<1> QED BY <1>1, <1>2

LEMMA TotalAppend ==
  ASSUME NEW s \in Seq(Int), NEW x \in Int
  PROVE  Total(Append(s, x)) = Total(s) + x
<1>1. PICK q, n : q = Append(s, x) /\ n = Len(s)
  OBVIOUS
<1>2. /\ q \in Seq(Int) /\ Len(q) = n + 1 /\ q[n + 1] = x /\ n \in Nat
      /\ \A i \in 1..n : q[i] = s[i]
  BY <1>1, AppendProperties
<1>3. PICK f \in [0..Len(s) -> Int] : Sums(s, f) /\ Total(s) = f[Len(s)]
  BY TotalIs
<1>4. PICK g \in [0..Len(q) -> Int] : Sums(q, g) /\ Total(q) = g[Len(q)]
  BY <1>2, TotalIs
<1>5. \A i \in 1..n : f[i] = f[i - 1] + s[i]
  BY <1>1, <1>3 DEF Sums
<1>6. \A i \in 1..(n + 1) : g[i] = g[i - 1] + q[i]
  BY <1>2, <1>4 DEF Sums
<1>7. f[0] = 0 /\ g[0] = 0
  BY <1>3, <1>4 DEF Sums
<1> DEFINE T == {i \in Nat : i <= n => g[i] = f[i]}
<1>8. 0 \in T
  BY <1>7
<1>9. ASSUME NEW i \in Nat, i \in T PROVE i + 1 \in T
  <2> SUFFICES ASSUME i + 1 <= n PROVE g[i + 1] = f[i + 1]
    OBVIOUS
  <2>1. i + 1 \in 1..n /\ i + 1 \in 1..(n + 1) /\ (i + 1) - 1 = i
    BY <1>2
  <2>2. g[i] = f[i]
    BY <1>2, <1>9
  <2>3. g[i + 1] = g[i] + q[i + 1] /\ f[i + 1] = f[i] + s[i + 1] /\ q[i + 1] = s[i + 1]
    BY <1>2, <1>5, <1>6, <2>1
  <2> QED BY <2>2, <2>3, Zenon
<1>10. n \in T
  <2> HIDE DEF T
  <2> QED BY <1>2, <1>8, <1>9, Induct
<1>11. g[n] = f[n]
  BY <1>2, <1>10
<1>12. g[n + 1] = g[n] + x
  <2>1. n + 1 \in 1..(n + 1) /\ (n + 1) - 1 = n
    BY <1>2
  <2> QED BY <1>2, <1>6, <2>1
<1> QED BY <1>1, <1>2, <1>3, <1>4, <1>11, <1>12

----------------------------------------------------------------------------
(* Blinds are added modulo the order of the field.                         *)

LEMMA Modulo ==
  ASSUME NEW a \in Int
  PROVE  \E q \in Int : a = (Order * q) + (a % Order) /\ a % Order \in Scalars
<1>1. a \div Order \in Int /\ a = (Order * (a \div Order)) + (a % Order)
  BY OrderAssumption, SMT
<1>2. a % Order \in Scalars
  BY OrderAssumption, SMT DEF Scalars
<1> QED BY <1>1, <1>2

LEMMA ModuloIs ==
  ASSUME NEW q \in Int, NEW r \in Scalars
  PROVE  ((Order * q) + r) % Order = r
BY OrderAssumption, SMT DEF Scalars

\* It does not matter whether a summand is reduced first.
LEMMA ModuloPlus ==
  ASSUME NEW a \in Int, NEW b \in Int
  PROVE  ((a % Order) + b) % Order = (a + b) % Order
<1>1. PICK r : r = a % Order
  OBVIOUS
<1>2. PICK q \in Int : a = (Order * q) + r /\ r \in Scalars
  BY <1>1, Modulo
<1>3. r \in Int /\ Order \in Int
  BY <1>2, OrderAssumption DEF Scalars
<1>4. PICK c, t : c = r + b /\ t = c % Order
  OBVIOUS
<1>5. PICK p \in Int : c = (Order * p) + t /\ t \in Scalars
  <2>1. c \in Int
    BY <1>3, <1>4
  <2> QED BY <1>4, <2>1, Modulo
<1>6. a + b = (Order * (q + p)) + t
  <2>1. Order * (q + p) = (Order * q) + (Order * p)
    BY <1>3, SMT
  <2>2. PICK x, y : x = Order * q /\ y = Order * p
    OBVIOUS
  <2>3. x \in Int /\ y \in Int /\ t \in Int
    BY <1>3, <1>5, <2>2, OrderAssumption, SMT DEF Scalars
  <2> QED BY <1>2, <1>3, <1>4, <1>5, <2>1, <2>2, <2>3
<1>7. (a + b) % Order = t
  BY <1>5, <1>6, ModuloIs
<1> QED BY <1>1, <1>4, <1>7

----------------------------------------------------------------------------
(* Value commitments.                                                      *)

Points == [value : Int, blind : Scalars]

\* One field of each element.
Of(s, field) == [i \in DOMAIN s |-> s[i][field]]

LEMMA CommitType ==
  ASSUME NEW v \in Int, NEW w \in Int
  PROVE  Commit(v, w) \in Points /\ Commit(v, w).value = v /\ Commit(v, w).blind = w % Order
<1>1. w % Order \in Scalars
  BY Modulo
<1> QED BY <1>1 DEF Commit, Points

\* A scalar is reduced already.
LEMMA ScalarIs == \A w \in Scalars : w % Order = w
BY OrderAssumption, SMT DEF Scalars

\* A point is the commitment to its own value and blind.
LEMMA PointIs ==
  ASSUME NEW b \in Points
  PROVE  Commit(b.value, b.blind) = b
<1>1. b = [value |-> b.value, blind |-> b.blind] /\ b.blind \in Scalars
  BY DEF Points
<1>2. PICK w : w = b.blind
  OBVIOUS
<1>3. w % Order = w
  BY <1>1, <1>2, ScalarIs
<1> QED BY <1>1, <1>2, <1>3 DEF Commit

\* Adding and subtracting a point.
LEMMA CommitAdds ==
  ASSUME NEW v \in Int, NEW w \in Int, NEW d \in Points
  PROVE  /\ Plus(Commit(v, w), d) = Commit(v + d.value, w + d.blind)
         /\ Minus(Commit(v, w), d) = Commit(v - d.value, w - d.blind)
<1>1. PICK x, y, z : x = d.blind /\ y = w % Order /\ z = -x
  OBVIOUS
<1>2. x \in Int /\ z \in Int /\ y \in Int /\ d.value \in Int
  <2>1. w % Order \in Scalars
    BY Modulo
  <2> QED BY <1>1, <2>1 DEF Points, Scalars
<1>3. (y + x) % Order = (w + x) % Order /\ (y + z) % Order = (w + z) % Order
  BY <1>1, <1>2, ModuloPlus
<1>4. y + z = y - x /\ w + z = w - x
  BY <1>1, <1>2
<1>5. (y - x) % Order = (w - x) % Order
  BY <1>3, <1>4
<1>6. Commit(v, w).value = v /\ Commit(v, w).blind = y
  BY <1>1, CommitType
<1> QED BY <1>1, <1>3, <1>5, <1>6 DEF Plus, Minus, Commit

LEMMA PointFields ==
  ASSUME NEW c \in Points
  PROVE  c.value \in Int /\ c.blind \in Int
<1>1. c.value \in Int /\ c.blind \in Scalars
  BY DEF Points
<1>2. Scalars \subseteq Int
  BY OrderAssumption DEF Scalars
<1> QED BY <1>1, <1>2

LEMMA PointsAdd ==
  ASSUME NEW c \in Points, NEW d \in Points
  PROVE  Plus(c, d) \in Points /\ Minus(c, d) \in Points
<1>1. c.value \in Int /\ c.blind \in Int /\ d.value \in Int /\ d.blind \in Int
  BY PointFields
<1>2. c.value + d.value \in Int /\ c.blind + d.blind \in Int
  BY <1>1
<1>3. c.value - d.value \in Int /\ c.blind - d.blind \in Int
  BY <1>1
<1> QED BY <1>2, <1>3, CommitType DEF Plus, Minus

LEMMA OfType ==
  ASSUME NEW s \in Seq(Points)
  PROVE  \A field \in {"value", "blind"} :
           /\ Of(s, field) \in Seq(Int) /\ Len(Of(s, field)) = Len(s)
           /\ \A i \in 1..Len(s) : Of(s, field)[i] = s[i][field]
<1> TAKE field \in {"value", "blind"}
<1>1. PICK n, u : n = Len(s) /\ u = Of(s, field)
  OBVIOUS
<1>2. n \in Nat /\ u = [i \in 1..n |-> s[i][field]]
  BY <1>1 DEF Of
<1>3. ASSUME NEW i \in 1..n PROVE s[i][field] \in Int
  <2>1. s[i] \in Points
    BY <1>1
  <2>2. s[i]["value"] \in Int /\ s[i]["blind"] \in Int
    BY <2>1 DEF Points, Scalars
  <2> QED BY <2>2
<1>4. u \in [1..n -> Int]
  BY <1>2, <1>3
<1>5. u \in Seq(Int) /\ Len(u) = n
  BY <1>2, <1>4, FunctionIsSeq
<1> QED BY <1>1, <1>2, <1>5

\* Their folds.
LEMMA FoldPlus ==
  ASSUME NEW s \in Seq(Points), NEW b \in Points
  PROVE  \E f \in [0..Len(s) -> Points] :
           /\ f[0] = b /\ \A i \in 1..Len(s) : f[i] = Plus(f[i - 1], s[i])
           /\ FoldLeft(Plus, b, s) = f[Len(s)]
<1> DEFINE n == Len(s)
           step == [i \in 1..n |-> [x \in Points |-> Plus(x, s[i])]]
           D == DOMAIN s
           Eqn(g) == g = [t \in SUBSET D |->
                            IF t = {} THEN b ELSE Plus(g[t \ {Max(t)}], s[Max(t)])]
<1>1. FoldLeft(Plus, b, s) = (CHOOSE g : Eqn(g))[D]
  BY DEF FoldLeft, MapThenFoldSet
<1>2. D = 1..n /\ n \in Nat /\ \A i \in 1..n : s[i] \in Points
  OBVIOUS
<1>3. step \in [1..n -> [Points -> Points]]
  <2>1. \A i \in 1..n, x \in Points : Plus(x, s[i]) \in Points
    BY <1>2, PointsAdd
  <2> QED BY <2>1
<1>4. \A i \in 1..n, x \in Points : step[i][x] = Plus(x, s[i])
  OBVIOUS
<1> HIDE DEF n, step, D
<1>5. PICK e \in [SUBSET (1..n) -> Points] : Table(step, b, n, e)
  BY <1>2, <1>3, TableExists
<1>6. Eqn(e)
  <2>1. ASSUME NEW t \in SUBSET (1..n), t # {} PROVE e[t] = Plus(e[t \ {Max(t)}], s[Max(t)])
    <3>1. Max(t) \in 1..n
      BY <1>2, <2>1, Greatest
    <3>2. t \ {Max(t)} \in SUBSET (1..n)
      OBVIOUS
    <3>3. e[t \ {Max(t)}] \in Points
      BY <1>5, <3>2
    <3> QED BY <1>4, <1>5, <2>1, <3>1, <3>3 DEF Table
  <2>2. e[{}] = b
    BY <1>5 DEF Table
  <2> QED BY <1>2, <1>5, <2>1, <2>2
<1>7. PICK g : g = (CHOOSE h : Eqn(h))
  OBVIOUS
<1>8. Eqn(g)
  BY <1>6, <1>7, Zenon
<1>9. g[{}] = b
  BY <1>2, <1>8
<1>10. ASSUME NEW i \in 1..n, g[1..(i - 1)] \in Points PROVE g[1..i] = step[i][g[1..(i - 1)]]
  <2>1. PICK t : t = 1..i
    OBVIOUS
  <2>2. t \in SUBSET D /\ t # {} /\ Max(t) = i /\ t \ {i} = 1..(i - 1)
    BY <1>2, <2>1, FirstPlaces
  <2>3. g[t] = Plus(g[t \ {Max(t)}], s[Max(t)])
    BY <1>8, <2>2
  <2>4. g[1..i] = Plus(g[1..(i - 1)], s[i])
    BY <2>1, <2>2, <2>3
  <2> QED BY <1>4, <1>10, <2>4
<1>11. PICK f \in [0..n -> Points] : Iter(step, b, n, f) /\ g[1..n] = f[n]
  <2>1. Follows(Points, step, b, n, g)
    BY <1>9, <1>10 DEF Follows
  <2>2. n \in Nat
    BY <1>2
  <2> QED BY ONLY <1>3, <2>1, <2>2, b \in Points, FoldResult
<1>12. ASSUME NEW i \in 1..n PROVE f[i] = Plus(f[i - 1], s[i])
  <2>1. f[i - 1] \in Points
    BY <1>2, <1>11
  <2> QED BY <1>4, <1>11, <2>1 DEF Iter
<1>13. f[0] = b
  BY <1>11 DEF Iter
<1> QED BY <1>1, <1>2, <1>7, <1>11, <1>12, <1>13 DEF n

LEMMA FoldMinus ==
  ASSUME NEW s \in Seq(Points), NEW b \in Points
  PROVE  \E f \in [0..Len(s) -> Points] :
           /\ f[0] = b /\ \A i \in 1..Len(s) : f[i] = Minus(f[i - 1], s[i])
           /\ FoldLeft(Minus, b, s) = f[Len(s)]
<1> DEFINE n == Len(s)
           step == [i \in 1..n |-> [x \in Points |-> Minus(x, s[i])]]
           D == DOMAIN s
           Eqn(g) == g = [t \in SUBSET D |->
                            IF t = {} THEN b ELSE Minus(g[t \ {Max(t)}], s[Max(t)])]
<1>1. FoldLeft(Minus, b, s) = (CHOOSE g : Eqn(g))[D]
  BY DEF FoldLeft, MapThenFoldSet
<1>2. D = 1..n /\ n \in Nat /\ \A i \in 1..n : s[i] \in Points
  OBVIOUS
<1>3. step \in [1..n -> [Points -> Points]]
  <2>1. \A i \in 1..n, x \in Points : Minus(x, s[i]) \in Points
    BY <1>2, PointsAdd
  <2> QED BY <2>1
<1>4. \A i \in 1..n, x \in Points : step[i][x] = Minus(x, s[i])
  OBVIOUS
<1> HIDE DEF n, step, D
<1>5. PICK e \in [SUBSET (1..n) -> Points] : Table(step, b, n, e)
  BY <1>2, <1>3, TableExists
<1>6. Eqn(e)
  <2>1. ASSUME NEW t \in SUBSET (1..n), t # {} PROVE e[t] = Minus(e[t \ {Max(t)}], s[Max(t)])
    <3>1. Max(t) \in 1..n
      BY <1>2, <2>1, Greatest
    <3>2. t \ {Max(t)} \in SUBSET (1..n)
      OBVIOUS
    <3>3. e[t \ {Max(t)}] \in Points
      BY <1>5, <3>2
    <3> QED BY <1>4, <1>5, <2>1, <3>1, <3>3 DEF Table
  <2>2. e[{}] = b
    BY <1>5 DEF Table
  <2> QED BY <1>2, <1>5, <2>1, <2>2
<1>7. PICK g : g = (CHOOSE h : Eqn(h))
  OBVIOUS
<1>8. Eqn(g)
  BY <1>6, <1>7, Zenon
<1>9. g[{}] = b
  BY <1>2, <1>8
<1>10. ASSUME NEW i \in 1..n, g[1..(i - 1)] \in Points PROVE g[1..i] = step[i][g[1..(i - 1)]]
  <2>1. PICK t : t = 1..i
    OBVIOUS
  <2>2. t \in SUBSET D /\ t # {} /\ Max(t) = i /\ t \ {i} = 1..(i - 1)
    BY <1>2, <2>1, FirstPlaces
  <2>3. g[t] = Minus(g[t \ {Max(t)}], s[Max(t)])
    BY <1>8, <2>2
  <2>4. g[1..i] = Minus(g[1..(i - 1)], s[i])
    BY <2>1, <2>2, <2>3
  <2> QED BY <1>4, <1>10, <2>4
<1>11. PICK f \in [0..n -> Points] : Iter(step, b, n, f) /\ g[1..n] = f[n]
  <2>1. Follows(Points, step, b, n, g)
    BY <1>9, <1>10 DEF Follows
  <2>2. n \in Nat
    BY <1>2
  <2> QED BY ONLY <1>3, <2>1, <2>2, b \in Points, FoldResult
<1>12. ASSUME NEW i \in 1..n PROVE f[i] = Minus(f[i - 1], s[i])
  <2>1. f[i - 1] \in Points
    BY <1>2, <1>11
  <2> QED BY <1>4, <1>11, <2>1 DEF Iter
<1>13. f[0] = b
  BY <1>11 DEF Iter
<1> QED BY <1>1, <1>2, <1>7, <1>11, <1>12, <1>13 DEF n

\* A fold adds up the values and the blinds.
LEMMA PlusResult ==
  ASSUME NEW s \in Seq(Points), NEW b \in Points
  PROVE  /\ FoldLeft(Plus, b, s) = Commit(b.value + Total(Of(s, "value")), b.blind + Total(Of(s, "blind")))
         /\ FoldLeft(Plus, b, s) \in Points
<1>1. PICK n : n = Len(s)
  OBVIOUS
<1>2. PICK v, w : v = Of(s, "value") /\ w = Of(s, "blind")
  OBVIOUS
<1>3. /\ n \in Nat /\ v \in Seq(Int) /\ Len(v) = n /\ w \in Seq(Int) /\ Len(w) = n
      /\ \A i \in 1..n : s[i] \in Points /\ v[i] = s[i].value /\ w[i] = s[i].blind
  BY <1>1, <1>2, OfType
<1>4. PICK p \in [0..Len(v) -> Int] : Sums(v, p) /\ Total(v) = p[Len(v)]
  BY <1>3, TotalIs
<1>5. PICK q \in [0..Len(w) -> Int] : Sums(w, q) /\ Total(w) = q[Len(w)]
  BY <1>3, TotalIs
<1>6. PICK f \in [0..Len(s) -> Points] :
           /\ f[0] = b /\ \A i \in 1..Len(s) : f[i] = Plus(f[i - 1], s[i])
           /\ FoldLeft(Plus, b, s) = f[Len(s)]
  BY FoldPlus
<1>7. /\ p[0] = 0 /\ q[0] = 0 /\ \A i \in 1..n : p[i] = p[i - 1] + v[i] /\ q[i] = q[i - 1] + w[i]
      /\ p \in [0..n -> Int] /\ q \in [0..n -> Int]
  BY <1>3, <1>4, <1>5 DEF Sums
<1> DEFINE E(i) == f[i] = Commit(b.value + p[i], b.blind + q[i])
           T == {i \in Nat : i <= n => E(i)}
<1>8. E(0)
  <2>1. b.value + 0 = b.value /\ b.blind + 0 = b.blind
    BY DEF Points, Scalars
  <2>2. Commit(b.value, b.blind) = b
    BY PointIs
  <2> QED BY <1>6, <1>7, <2>1, <2>2
<1>9. ASSUME NEW i \in Nat, i + 1 <= n, E(i) PROVE E(i + 1)
  <2>8. n \in Nat /\ i + 1 <= n
    BY <1>3, <1>9
  <2>1. i + 1 \in 1..n /\ (i + 1) - 1 = i /\ i \in 0..n
    BY ONLY <2>8, i \in Nat
  <2>2. f[i + 1] = Plus(f[i], s[i + 1])
    BY <1>1, <1>6, <2>1
  <2>3. /\ p[i + 1] = p[i] + s[i + 1].value /\ q[i + 1] = q[i] + s[i + 1].blind
        /\ p[i] \in Int /\ q[i] \in Int /\ s[i + 1] \in Points
    BY <1>3, <1>7, <2>1
  <2>4. PICK x, y, d : x = b.value + p[i] /\ y = b.blind + q[i] /\ d = s[i + 1]
    OBVIOUS
  <2>9. d \in Points /\ d.value \in Int /\ d.blind \in Int /\ b.value \in Int /\ b.blind \in Int
    BY <2>3, <2>4, PointFields
  <2>5. x \in Int /\ y \in Int
    BY SMTT(30), <2>3, <2>4, <2>9
  <2>6. Plus(Commit(x, y), d) = Commit(x + d.value, y + d.blind)
    BY ONLY <2>5, <2>9, CommitAdds, ZenonT(30)
  <2>7. x + d.value = b.value + p[i + 1] /\ y + d.blind = b.blind + q[i + 1]
    <3>1. PICK pi, qi, dv, dw, bv, bw : /\ pi = p[i] /\ qi = q[i] /\ dv = d.value /\ dw = d.blind
                                        /\ bv = b.value /\ bw = b.blind
      OBVIOUS
    <3>2. /\ pi \in Int /\ qi \in Int /\ dv \in Int /\ dw \in Int /\ bv \in Int /\ bw \in Int
          /\ x = bv + pi /\ y = bw + qi /\ p[i + 1] = pi + dv /\ q[i + 1] = qi + dw
      BY <2>3, <2>4, <2>9, <3>1
    <3>3. x + dv = bv + (pi + dv) /\ y + dw = bw + (qi + dw)
      BY ONLY <3>2
    <3> QED BY <3>1, <3>2, <3>3
  <2> QED BY <1>9, <2>2, <2>4, <2>6, <2>7
<1> HIDE DEF E
<1>10. 0 \in T /\ \A i \in Nat : i \in T => i + 1 \in T
  BY <1>3, <1>8, <1>9
<1>11. n \in T
  <2> HIDE DEF T
  <2> QED BY <1>3, <1>10, Induct
<1>12. f[n] = Commit(b.value + p[n], b.blind + q[n])
  BY <1>11 DEF E
<1>13. f[n] \in Points
  BY SMTT(30), <1>1, <1>3, <1>6
<1> QED BY <1>1, <1>2, <1>3, <1>4, <1>5, <1>6, <1>12, <1>13

LEMMA MinusResult ==
  ASSUME NEW s \in Seq(Points), NEW b \in Points
  PROVE  /\ FoldLeft(Minus, b, s) = Commit(b.value - Total(Of(s, "value")), b.blind - Total(Of(s, "blind")))
         /\ FoldLeft(Minus, b, s) \in Points
<1>1. PICK n : n = Len(s)
  OBVIOUS
<1>2. PICK v, w : v = Of(s, "value") /\ w = Of(s, "blind")
  OBVIOUS
<1>3. /\ n \in Nat /\ v \in Seq(Int) /\ Len(v) = n /\ w \in Seq(Int) /\ Len(w) = n
      /\ \A i \in 1..n : s[i] \in Points /\ v[i] = s[i].value /\ w[i] = s[i].blind
  BY <1>1, <1>2, OfType
<1>4. PICK p \in [0..Len(v) -> Int] : Sums(v, p) /\ Total(v) = p[Len(v)]
  BY <1>3, TotalIs
<1>5. PICK q \in [0..Len(w) -> Int] : Sums(w, q) /\ Total(w) = q[Len(w)]
  BY <1>3, TotalIs
<1>6. PICK f \in [0..Len(s) -> Points] :
           /\ f[0] = b /\ \A i \in 1..Len(s) : f[i] = Minus(f[i - 1], s[i])
           /\ FoldLeft(Minus, b, s) = f[Len(s)]
  BY FoldMinus
<1>7. /\ p[0] = 0 /\ q[0] = 0 /\ \A i \in 1..n : p[i] = p[i - 1] + v[i] /\ q[i] = q[i - 1] + w[i]
      /\ p \in [0..n -> Int] /\ q \in [0..n -> Int]
  BY <1>3, <1>4, <1>5 DEF Sums
<1> DEFINE E(i) == f[i] = Commit(b.value - p[i], b.blind - q[i])
           T == {i \in Nat : i <= n => E(i)}
<1>8. E(0)
  <2>1. b.value - 0 = b.value /\ b.blind - 0 = b.blind
    BY DEF Points, Scalars
  <2>2. Commit(b.value, b.blind) = b
    BY PointIs
  <2> QED BY <1>6, <1>7, <2>1, <2>2
<1>9. ASSUME NEW i \in Nat, i + 1 <= n, E(i) PROVE E(i + 1)
  <2>8. n \in Nat /\ i + 1 <= n
    BY <1>3, <1>9
  <2>1. i + 1 \in 1..n /\ (i + 1) - 1 = i /\ i \in 0..n
    BY ONLY <2>8, i \in Nat
  <2>2. f[i + 1] = Minus(f[i], s[i + 1])
    BY <1>1, <1>6, <2>1
  <2>3. /\ p[i + 1] = p[i] + s[i + 1].value /\ q[i + 1] = q[i] + s[i + 1].blind
        /\ p[i] \in Int /\ q[i] \in Int /\ s[i + 1] \in Points
    BY <1>3, <1>7, <2>1
  <2>4. PICK x, y, d : x = b.value - p[i] /\ y = b.blind - q[i] /\ d = s[i + 1]
    OBVIOUS
  <2>9. d \in Points /\ d.value \in Int /\ d.blind \in Int /\ b.value \in Int /\ b.blind \in Int
    BY <2>3, <2>4, PointFields
  <2>5. x \in Int /\ y \in Int
    BY SMTT(30), <2>3, <2>4, <2>9
  <2>6. Minus(Commit(x, y), d) = Commit(x - d.value, y - d.blind)
    BY ONLY <2>5, <2>9, CommitAdds, ZenonT(30)
  <2>7. x - d.value = b.value - p[i + 1] /\ y - d.blind = b.blind - q[i + 1]
    <3>1. PICK pi, qi, dv, dw, bv, bw : /\ pi = p[i] /\ qi = q[i] /\ dv = d.value /\ dw = d.blind
                                        /\ bv = b.value /\ bw = b.blind
      OBVIOUS
    <3>2. /\ pi \in Int /\ qi \in Int /\ dv \in Int /\ dw \in Int /\ bv \in Int /\ bw \in Int
          /\ x = bv - pi /\ y = bw - qi /\ p[i + 1] = pi + dv /\ q[i + 1] = qi + dw
      BY <2>3, <2>4, <2>9, <3>1
    <3>3. x - dv = bv - (pi + dv) /\ y - dw = bw - (qi + dw)
      BY ONLY <3>2
    <3> QED BY <3>1, <3>2, <3>3
  <2> QED BY <1>9, <2>2, <2>4, <2>6, <2>7
<1> HIDE DEF E
<1>10. 0 \in T /\ \A i \in Nat : i \in T => i + 1 \in T
  BY <1>3, <1>8, <1>9
<1>11. n \in T
  <2> HIDE DEF T
  <2> QED BY <1>3, <1>10, Induct
<1>12. f[n] = Commit(b.value - p[n], b.blind - q[n])
  BY <1>11 DEF E
<1>13. f[n] \in Points
  BY SMTT(30), <1>1, <1>3, <1>6
<1> QED BY <1>1, <1>2, <1>3, <1>4, <1>5, <1>6, <1>12, <1>13

----------------------------------------------------------------------------
(* Vectors of elements with the same number of fields.                     *)

Tuples(S, k) == {t \in Seq(S) : Len(t) = k}
\* The numbers of fields there are.
Widths == {5, 7}

\* Where the j-th field of the i-th of n elements is.
LEMMA Places ==
  ASSUME NEW k \in Widths, NEW n \in Nat
  PROVE  /\ n * k \in Nat /\ (n + 1) * k = (n * k) + k /\ k \in Nat /\ 0 * k = 0
         /\ \A i \in 1..n, j \in 1..k :
              /\ ((i - 1) * k) + j \in 1..(n * k)
              /\ ((i - 1) * k) + j \in Nat
              /\ i * k = ((i - 1) * k) + k
<1>1. CASE k = 5
  BY <1>1
<1>2. CASE k = 7
  BY <1>2
<1> QED BY <1>1, <1>2 DEF Widths

LEMMA FlatPlaces ==
  ASSUME NEW S, NEW k \in Widths, NEW p \in Seq(Tuples(S, k))
  PROVE  /\ FlattenSeq(p) \in Seq(S) /\ Len(FlattenSeq(p)) = Len(p) * k
         /\ \A i \in 1..Len(p), j \in 1..k : FlattenSeq(p)[((i - 1) * k) + j] = p[i][j]
<1>1. PICK n : n = Len(p)
  OBVIOUS
<1>2. n \in Nat /\ \A i \in 1..n : p[i] \in Seq(S) /\ Len(p[i]) = k
  <2>1. \A i \in 1..n : p[i] \in Tuples(S, k)
    BY <1>1
  <2> QED BY <1>1, <2>1 DEF Tuples
<1>3. p \in Seq(Seq(S))
  <2>1. p = [i \in 1..n |-> p[i]]
    BY <1>1
  <2>2. p \in [1..n -> Seq(S)]
    BY <1>2, <2>1
  <2> QED BY <1>2, <2>2, FunctionIsSeq
<1> DEFINE L(i) == FlattenSeq(SubSeq(p, 1, i))
           E(i) == /\ L(i) \in Seq(S) /\ Len(L(i)) = i * k
                   /\ \A h \in 1..i, j \in 1..k : L(i)[((h - 1) * k) + j] = p[h][j]
           T == {i \in Nat : i <= n => E(i)}
<1>4. SubSeq(p, 1, n) = p /\ SubSeq(p, 1, 0) = <<>>
  BY <1>1
<1>5. E(0)
  <2>1. L(0) = <<>> /\ 0 * k = 0
    BY <1>2, <1>4, Places DEF FlattenSeq
  <2>2. <<>> \in Seq(S) /\ Len(<<>>) = 0 /\ 1..0 = {}
    OBVIOUS
  <2> HIDE DEF L
  <2> QED BY <2>1, <2>2
<1>6. ASSUME NEW i \in Nat, i + 1 <= n, E(i) PROVE E(i + 1)
  <2>1. PICK u, x : u = SubSeq(p, 1, i) /\ x = p[i + 1]
    OBVIOUS
  <2>2. u \in Seq(Seq(S)) /\ x \in Seq(S) /\ Len(x) = k /\ SubSeq(p, 1, i + 1) = Append(u, x)
    <3>1. i + 1 \in 1..Len(p)
      BY <1>1, <1>2, <1>6
    <3> QED BY <1>1, <1>2, <1>3, <2>1, <3>1
  <2>3. PICK a, m : a = L(i) /\ m = i * k
    OBVIOUS
  <2>4. a \in Seq(S) /\ Len(a) = m /\ \A h \in 1..i, j \in 1..k : a[((h - 1) * k) + j] = p[h][j]
    BY <1>6, <2>3
  <2>5. L(i + 1) = a \o x
    <3>1. FlattenSeq(Append(u, x)) = FlattenSeq(u) \o x
      BY <2>2, FlattenAppend
    <3> QED BY <2>1, <2>2, <2>3, <3>1
  <2>6. /\ a \o x \in Seq(S) /\ Len(a \o x) = m + k
        /\ \A h \in 1..m : (a \o x)[h] = a[h]
        /\ \A h \in 1..k : (a \o x)[m + h] = x[h]
    <3>1. /\ a \o x \in Seq(S) /\ Len(a \o x) = Len(a) + Len(x)
          /\ \A h \in 1..Len(a) : (a \o x)[h] = a[h]
          /\ \A h \in 1..Len(x) : (a \o x)[Len(a) + h] = x[h]
      <4>1. a \in Seq(S) /\ x \in Seq(S)
        BY <2>2, <2>4
      <4> QED BY ONLY <4>1, Concat
    <3> QED BY <2>2, <2>4, <3>1
  <2>7. (i + 1) * k = m + k
    BY <2>3, Places
  <2>8. ASSUME NEW h \in 1..(i + 1), NEW j \in 1..k PROVE (a \o x)[((h - 1) * k) + j] = p[h][j]
    <3>1. CASE h = i + 1
      <4>1. h - 1 = i
        BY <3>1
      <4>2. (a \o x)[m + j] = x[j]
        BY <2>6
      <4> QED BY <2>1, <2>3, <3>1, <4>1, <4>2
    <3>2. CASE h # i + 1
      <4>1. h \in 1..i
        BY <3>2
      <4>2. PICK y : y = ((h - 1) * k) + j
        OBVIOUS
      <4>3. y \in 1..m
        BY <2>3, <4>1, <4>2, Places
      <4>4. a[y] = p[h][j]
        BY <2>4, <4>1, <4>2
      <4> QED BY <2>6, <4>2, <4>3, <4>4
    <3> QED BY <3>1, <3>2
  <2> HIDE DEF L
  <2> QED BY <2>5, <2>6, <2>7, <2>8
<1> HIDE DEF E
<1>7. 0 \in T /\ \A i \in Nat : i \in T => i + 1 \in T
  BY <1>2, <1>5, <1>6
<1>8. n \in T
  <2> HIDE DEF T
  <2> QED BY <1>2, <1>7, Induct
<1>9. E(n)
  BY <1>2, <1>8
<1> QED BY <1>1, <1>4, <1>9 DEF E

\* A vector is read back, and what comes after it.
LEMMA VectorReads ==
  ASSUME NEW S, NEW k \in Widths, NEW p \in Seq(Tuples(S, k)), Len(p) \in S, NEW rest \in Seq(S)
  PROVE  /\ EncodeVec(p) \o rest \in Seq(S)
         /\ Items(EncodeVec(p) \o rest, k) = p
         /\ After(EncodeVec(p) \o rest, k) = rest
<1>1. PICK n, a, N : n = Len(p) /\ a = FlattenSeq(p) /\ N = n * k
  OBVIOUS
<1>2. n \in Nat /\ N \in Nat /\ k \in Nat /\ k > 0
  BY <1>1, Places DEF Widths
<1>3. a \in Seq(S) /\ Len(a) = N /\ \A i \in 1..n, j \in 1..k : a[((i - 1) * k) + j] = p[i][j]
  BY <1>1, FlatPlaces
<1>4. PICK o : o = <<n>>
  OBVIOUS
<1>5. o \in Seq(S) /\ Len(o) = 1 /\ o[1] = n
  BY <1>1, <1>4
<1>6. PICK c : c = o \o a
  OBVIOUS
<1>7. /\ c \in Seq(S) /\ Len(c) = 1 + N
      /\ c[1] = n /\ \A i \in 1..N : c[1 + i] = a[i]
  <2>1. /\ o \o a \in Seq(S) /\ Len(o \o a) = Len(o) + Len(a)
        /\ \A i \in 1..Len(o) : (o \o a)[i] = o[i]
        /\ \A i \in 1..Len(a) : (o \o a)[Len(o) + i] = a[i]
    <3>1. o \in Seq(S) /\ a \in Seq(S)
      BY <1>3, <1>5
    <3> QED BY ONLY <3>1, Concat
  <2>2. 1 \in 1..Len(o)
    BY <1>5
  <2> QED BY <1>3, <1>5, <1>6, <2>1, <2>2
<1>8. PICK f, r : f = c \o rest /\ r = Len(rest)
  OBVIOUS
<1>9. /\ f \in Seq(S) /\ Len(f) = 1 + N + r /\ r \in Nat
      /\ \A i \in 1..(1 + N) : f[i] = c[i]
      /\ \A i \in 1..r : f[1 + N + i] = rest[i]
  <2>1. /\ c \o rest \in Seq(S) /\ Len(c \o rest) = Len(c) + Len(rest)
        /\ \A i \in 1..Len(c) : (c \o rest)[i] = c[i]
        /\ \A i \in 1..Len(rest) : (c \o rest)[Len(c) + i] = rest[i]
    <3>1. c \in Seq(S) /\ rest \in Seq(S)
      BY <1>7
    <3> QED BY ONLY <3>1, Concat
  <2> QED BY <1>7, <1>8, <2>1
<1>10. EncodeVec(p) \o rest = f
  BY <1>1, <1>4, <1>6, <1>8 DEF EncodeVec
<1>11. f[1] = n /\ \A i \in 1..N : f[1 + i] = a[i]
  <2>1. 1 \in 1..(1 + N) /\ \A i \in 1..N : 1 + i \in 1..(1 + N)
    BY <1>2
  <2> QED BY <1>7, <1>9, <2>1
<1>12. ASSUME NEW i \in 1..n PROVE SubSeq(f, 2 + ((i - 1) * k), 1 + (i * k)) = p[i]
  <2>1. PICK m, q : m = (i - 1) * k /\ q = SubSeq(f, 2 + m, 1 + (m + k))
    OBVIOUS
  <2>2. /\ i * k = m + k /\ m \in Nat /\ \A j \in 1..k : m + j \in 1..N
    <3>1. i - 1 \in Nat
      OBVIOUS
    <3>2. m \in Nat
      BY <2>1, <3>1, Places
    <3>3. 1 \in 1..k
      BY <1>2
    <3> QED BY <1>1, <1>2, <2>1, <3>2, <3>3, Places
  <2>3. p[i] \in Seq(S) /\ Len(p[i]) = k
    <3>1. p[i] \in Tuples(S, k)
      BY <1>1
    <3> QED BY <3>1 DEF Tuples
  <2>4. 2 + m \in 1..(Len(f) + 1) /\ 1 + (m + k) \in 0..Len(f)
    <3>1. k \in 1..k
      BY <1>2
    <3>2. m + k \in 1..N
      BY <2>2, <3>1
    <3> QED BY <1>2, <1>9, <2>2, <3>2
  <2>5. q \in Seq(S) /\ Len(q) = k /\ \A j \in 1..k : q[j] = f[1 + (m + j)]
    <3>1. PICK lo, hi : lo = 2 + m /\ hi = 1 + (m + k)
      OBVIOUS
    <3>2. lo \in Int /\ hi \in Int /\ \A h \in lo..hi : f[h] \in S
      BY <1>2, <1>9, <2>2, <2>4, <3>1
    <3>3. /\ SubSeq(f, lo, hi) \in Seq(S)
          /\ Len(SubSeq(f, lo, hi)) = IF lo <= hi THEN hi - lo + 1 ELSE 0
          /\ \A j \in 1..(hi - lo + 1) : SubSeq(f, lo, hi)[j] = f[lo + j - 1]
      BY ONLY <3>2, SubSeqProperties
    <3>4. lo <= hi /\ hi - lo + 1 = k
      BY <1>2, <2>2, <3>1
    <3>5. \A j \in 1..k : lo + j - 1 = 1 + (m + j)
      BY <1>2, <2>2, <3>1
    <3>6. q = SubSeq(f, lo, hi)
      BY ONLY <2>1, <3>1
    <3>7. q \in Seq(S) /\ Len(q) = k /\ \A j \in 1..k : q[j] = f[lo + j - 1]
      BY ONLY <3>3, <3>4, <3>6, Zenon
    <3> QED BY ONLY <3>5, <3>7
  <2>6. \A j \in 1..k : q[j] = p[i][j]
    <3> TAKE j \in 1..k
    <3>1. m + j \in 1..N /\ a[m + j] = p[i][j]
      BY <1>3, <2>1, <2>2
    <3> QED BY <1>11, <2>5, <3>1
  <2>7. q = p[i]
    BY <2>3, <2>5, <2>6, SeqEqual
  <2> QED BY <2>1, <2>2, <2>7
<1>13. Items(f, k) = p
  <2>1. p = [i \in 1..n |-> p[i]]
    BY <1>1
  <2> QED BY <1>11, <1>12, <2>1 DEF Items
<1>14. After(f, k) = rest
  <2>1. After(f, k) = SubSeq(f, 2 + N, Len(f))
    BY <1>1, <1>11 DEF After
  <2>2. PICK q : q = SubSeq(f, 2 + N, Len(f))
    OBVIOUS
  <2>3. q \in Seq(S) /\ Len(q) = r /\ \A j \in 1..r : q[j] = f[1 + N + j]
    <3>1. 2 + N \in 1..(Len(f) + 1) /\ Len(f) \in 0..Len(f)
      BY <1>2, <1>9
    <3>2. /\ SubSeq(f, 2 + N, Len(f)) \in Seq(S)
          /\ Len(SubSeq(f, 2 + N, Len(f))) = IF 2 + N <= Len(f) THEN Len(f) - (2 + N) + 1 ELSE 0
          /\ \A j \in 1..(Len(f) - (2 + N) + 1) : SubSeq(f, 2 + N, Len(f))[j] = f[(2 + N) + j - 1]
      BY SMTT(30), <1>9, <3>1, SubSeqProperties
    <3>3. Len(f) - (2 + N) + 1 = r /\ (2 + N <= Len(f) <=> r # 0)
      BY <1>2, <1>9
    <3>4. \A j \in 1..r : (2 + N) + j - 1 = 1 + N + j
      BY <1>2
    <3> QED BY <1>9, <2>2, <3>2, <3>3, <3>4
  <2>4. q = rest
    BY <1>8, <1>9, <2>3, SeqEqual
  <2> QED BY <2>1, <2>2, <2>4
<1> QED BY <1>9, <1>10, <1>13, <1>14

----------------------------------------------------------------------------
(* The encoding of a transaction.                                          *)

\* Transactions with fields from A.
SignatureOf(A) == [commit : A, response : A]
ClearOf(A) == [value : A, valcom_blind : A, signature_public : A, signature : SignatureOf(A)]
InputOf(A) ==
  [spend_proof : A,
   revealed : [value_commit : A, nullifier : A, merkle_root : A, signature_public : A],
   signature : SignatureOf(A)]
OutputOf(A) ==
  [mint_proof : A, revealed : [value_commit : A, coin : A],
   enc_note : [ciphertext : A, ephem_public : A]]
TransactionOf(A) ==
  [clear_inputs : Seq(ClearOf(A)), inputs : Seq(InputOf(A)), outputs : Seq(OutputOf(A))]

\* Two tuples after one another.
LEMMA ThreeAndTwo ==
  ASSUME NEW A, NEW a \in A, NEW b \in A, NEW c \in A, NEW d \in A, NEW e \in A
  PROVE  LET t == <<a, b, c>> \o <<d, e>> IN
         /\ t \in Tuples(A, 5) /\ t[1] = a /\ t[2] = b /\ t[3] = c /\ t[4] = d /\ t[5] = e
         /\ SubSeq(t, 4, 5)[1] = d /\ SubSeq(t, 4, 5)[2] = e
<1>1. PICK x, y : x = <<a, b, c>> /\ y = <<d, e>>
  OBVIOUS
<1>2. /\ x \in Seq(A) /\ Len(x) = 3 /\ x[1] = a /\ x[2] = b /\ x[3] = c
      /\ y \in Seq(A) /\ Len(y) = 2 /\ y[1] = d /\ y[2] = e
  BY <1>1
<1>3. PICK t : t = x \o y
  OBVIOUS
<1>4. t \in Seq(A) /\ Len(t) = 5 /\ t[1] = a /\ t[2] = b /\ t[3] = c /\ t[4] = d /\ t[5] = e
  <2>1. /\ t \in Seq(A) /\ Len(t) = 3 + 2
        /\ \A i \in 1..3 : t[i] = x[i]
        /\ \A i \in 1..2 : t[3 + i] = y[i]
    <3>1. x \in Seq(A) /\ y \in Seq(A)
      BY <1>2
    <3>2. /\ x \o y \in Seq(A) /\ Len(x \o y) = Len(x) + Len(y)
          /\ \A i \in 1..Len(x) : (x \o y)[i] = x[i]
          /\ \A i \in 1..Len(y) : (x \o y)[Len(x) + i] = y[i]
      BY ONLY <3>1, Concat
    <3> QED BY <1>2, <1>3, <3>2
  <2>2. t[1] = x[1] /\ t[2] = x[2] /\ t[3] = x[3] /\ t[4] = y[1] /\ t[5] = y[2]
    BY ONLY <2>1
  <2> QED BY <1>2, <2>1, <2>2
<1>5. SubSeq(t, 4, 5)[1] = t[4] /\ SubSeq(t, 4, 5)[2] = t[5]
  BY <1>4
<1> QED BY <1>1, <1>3, <1>4, <1>5 DEF Tuples

LEMMA FiveAndTwo ==
  ASSUME NEW A, NEW a \in A, NEW b \in A, NEW c \in A, NEW d \in A, NEW e \in A,
         NEW f \in A, NEW g \in A
  PROVE  LET t == <<a, b, c, d, e>> \o <<f, g>> IN
         /\ t \in Tuples(A, 7) /\ t[1] = a /\ t[2] = b /\ t[3] = c /\ t[4] = d /\ t[5] = e
         /\ SubSeq(t, 6, 7)[1] = f /\ SubSeq(t, 6, 7)[2] = g
<1>1. PICK x, y : x = <<a, b, c, d, e>> /\ y = <<f, g>>
  OBVIOUS
<1>2. /\ x \in Seq(A) /\ Len(x) = 5 /\ x[1] = a /\ x[2] = b /\ x[3] = c /\ x[4] = d /\ x[5] = e
      /\ y \in Seq(A) /\ Len(y) = 2 /\ y[1] = f /\ y[2] = g
  BY <1>1
<1>3. PICK t : t = x \o y
  OBVIOUS
<1>4. /\ t \in Seq(A) /\ Len(t) = 7 /\ t[1] = a /\ t[2] = b /\ t[3] = c /\ t[4] = d /\ t[5] = e
      /\ t[6] = f /\ t[7] = g
  <2>1. /\ t \in Seq(A) /\ Len(t) = 5 + 2
        /\ \A i \in 1..5 : t[i] = x[i]
        /\ \A i \in 1..2 : t[5 + i] = y[i]
    <3>1. x \in Seq(A) /\ y \in Seq(A)
      BY <1>2
    <3>2. /\ x \o y \in Seq(A) /\ Len(x \o y) = Len(x) + Len(y)
          /\ \A i \in 1..Len(x) : (x \o y)[i] = x[i]
          /\ \A i \in 1..Len(y) : (x \o y)[Len(x) + i] = y[i]
      BY ONLY <3>1, Concat
    <3> QED BY <1>2, <1>3, <3>2
  <2>2. /\ t[1] = x[1] /\ t[2] = x[2] /\ t[3] = x[3] /\ t[4] = x[4] /\ t[5] = x[5]
        /\ t[6] = y[1] /\ t[7] = y[2]
    BY ONLY <2>1
  <2> QED BY <1>2, <2>1, <2>2
<1>5. SubSeq(t, 6, 7)[1] = t[6] /\ SubSeq(t, 6, 7)[2] = t[7]
  BY <1>4
<1> QED BY <1>1, <1>3, <1>4, <1>5 DEF Tuples

\* Each kind of element is read back from its fields.
LEMMA ClearReads ==
  ASSUME NEW A, NEW c \in ClearOf(A)
  PROVE  ClearFields(c) \in Tuples(A, 5) /\ ReadClear(ClearFields(c)) = c
<1>1. /\ c.value \in A /\ c.valcom_blind \in A /\ c.signature_public \in A
      /\ c.signature.commit \in A /\ c.signature.response \in A
  BY DEF ClearOf, SignatureOf
<1>2. PICK t : t = ClearFields(c)
  OBVIOUS
<1>3. /\ t \in Tuples(A, 5) /\ t[1] = c.value /\ t[2] = c.valcom_blind /\ t[3] = c.signature_public
      /\ SubSeq(t, 4, 5)[1] = c.signature.commit /\ SubSeq(t, 4, 5)[2] = c.signature.response
  BY <1>1, <1>2, ThreeAndTwo DEF ClearFields, UnsignedClearFields, SignatureFields
<1>4. /\ c = [value |-> c.value, valcom_blind |-> c.valcom_blind,
              signature_public |-> c.signature_public, signature |-> c.signature]
      /\ c.signature = [commit |-> c.signature.commit, response |-> c.signature.response]
  BY DEF ClearOf, SignatureOf
<1>5. ReadSignature(SubSeq(t, 4, 5)) = c.signature
  BY <1>3, <1>4 DEF ReadSignature
<1>6. ReadClear(t) = c
  BY <1>3, <1>4, <1>5 DEF ReadClear
<1> QED BY <1>2, <1>3, <1>6

LEMMA InputReads ==
  ASSUME NEW A, NEW c \in InputOf(A)
  PROVE  InputFields(c) \in Tuples(A, 7) /\ ReadInput(InputFields(c)) = c
<1> DEFINE r == c.revealed
<1>1. /\ c.spend_proof \in A /\ r.value_commit \in A /\ r.nullifier \in A
      /\ r.merkle_root \in A /\ r.signature_public \in A
      /\ c.signature.commit \in A /\ c.signature.response \in A
  BY DEF InputOf, SignatureOf
<1>2. PICK t : t = InputFields(c)
  OBVIOUS
<1>3. /\ t \in Tuples(A, 7) /\ t[1] = c.spend_proof /\ t[2] = r.value_commit /\ t[3] = r.nullifier
      /\ t[4] = r.merkle_root /\ t[5] = r.signature_public
      /\ SubSeq(t, 6, 7)[1] = c.signature.commit /\ SubSeq(t, 6, 7)[2] = c.signature.response
  <2>1. PICK a1, a2, a3, a4, a5, a6, a7 :
          /\ a1 = c.spend_proof /\ a2 = r.value_commit /\ a3 = r.nullifier /\ a4 = r.merkle_root
          /\ a5 = r.signature_public /\ a6 = c.signature.commit /\ a7 = c.signature.response
    OBVIOUS
  <2>2. t = <<a1, a2, a3, a4, a5>> \o <<a6, a7>>
    BY <1>2, <2>1 DEF InputFields, UnsignedInputFields, SignatureFields
  <2>3. a1 \in A /\ a2 \in A /\ a3 \in A /\ a4 \in A /\ a5 \in A /\ a6 \in A /\ a7 \in A
    BY <1>1, <2>1
  <2>4. /\ t \in Tuples(A, 7) /\ t[1] = a1 /\ t[2] = a2 /\ t[3] = a3 /\ t[4] = a4 /\ t[5] = a5
        /\ SubSeq(t, 6, 7)[1] = a6 /\ SubSeq(t, 6, 7)[2] = a7
    BY ONLY <2>2, <2>3, FiveAndTwo
  <2> QED BY <2>1, <2>4
<1>4. /\ c = [spend_proof |-> c.spend_proof, revealed |-> c.revealed, signature |-> c.signature]
      /\ r = [value_commit |-> r.value_commit, nullifier |-> r.nullifier,
              merkle_root |-> r.merkle_root, signature_public |-> r.signature_public]
      /\ c.signature = [commit |-> c.signature.commit, response |-> c.signature.response]
  BY DEF InputOf, SignatureOf
<1>5. ReadSignature(SubSeq(t, 6, 7)) = c.signature
  BY <1>3, <1>4 DEF ReadSignature
<1>6. ReadInput(t) = c
  BY <1>3, <1>4, <1>5 DEF ReadInput
<1> QED BY <1>2, <1>3, <1>6

LEMMA OutputReads ==
  ASSUME NEW A, NEW c \in OutputOf(A)
  PROVE  OutputFields(c) \in Tuples(A, 5) /\ ReadOutput(OutputFields(c)) = c
<1> DEFINE r == c.revealed  e == c.enc_note
<1>1. /\ c.mint_proof \in A /\ r.value_commit \in A /\ r.coin \in A
      /\ e.ciphertext \in A /\ e.ephem_public \in A
  BY DEF OutputOf
<1>2. PICK t : t = OutputFields(c)
  OBVIOUS
<1>3. /\ t \in Tuples(A, 5) /\ t[1] = c.mint_proof /\ t[2] = r.value_commit /\ t[3] = r.coin
      /\ t[4] = e.ciphertext /\ t[5] = e.ephem_public
  BY <1>1, <1>2 DEF OutputFields, Tuples
<1>4. /\ c = [mint_proof |-> c.mint_proof, revealed |-> c.revealed, enc_note |-> c.enc_note]
      /\ r = [value_commit |-> r.value_commit, coin |-> r.coin]
      /\ e = [ciphertext |-> e.ciphertext, ephem_public |-> e.ephem_public]
  BY DEF OutputOf
<1>6. ReadOutput(t) = c
  BY <1>3, <1>4 DEF ReadOutput
<1> QED BY <1>2, <1>3, <1>6

\* And so is each of the vectors.
LEMMA ClearsRead ==
  ASSUME NEW A, Nat \subseteq A, NEW v \in Seq(ClearOf(A)), NEW rest \in Seq(A)
  PROVE  /\ Clears(v) \o rest \in Seq(A)
         /\ [i \in DOMAIN Items(Clears(v) \o rest, 5) |-> ReadClear(Items(Clears(v) \o rest, 5)[i])] = v
         /\ After(Clears(v) \o rest, 5) = rest
<1>1. PICK n, p : n = Len(v) /\ p = [i \in DOMAIN v |-> ClearFields(v[i])]
  OBVIOUS
<1>2. n \in Nat /\ DOMAIN v = 1..n
  BY <1>1
<1>3. \A i \in 1..n : p[i] = ClearFields(v[i]) /\ p[i] \in Tuples(A, 5) /\ ReadClear(p[i]) = v[i]
  <2> TAKE i \in 1..n
  <2>1. v[i] \in ClearOf(A)
    BY <1>1
  <2> QED BY <1>1, <1>2, <2>1, ClearReads
<1>4. p \in Seq(Tuples(A, 5)) /\ Len(p) = n
  <2>1. p \in [1..n -> Tuples(A, 5)]
    BY <1>1, <1>2, <1>3
  <2> QED BY <1>2, <2>1, FunctionIsSeq
<1>5. Clears(v) = EncodeVec(p)
  BY <1>1 DEF Clears
<1>6. 5 \in Widths /\ Len(p) \in A
  BY <1>2, <1>4 DEF Widths
<1>7. PICK s : s = EncodeVec(p) \o rest
  OBVIOUS
<1>8. s \in Seq(A) /\ Items(s, 5) = p /\ After(s, 5) = rest
  BY <1>4, <1>6, <1>7, VectorReads
<1>9. [i \in DOMAIN p |-> ReadClear(p[i])] = v
  <2>1. DOMAIN p = 1..n /\ v = [i \in 1..n |-> v[i]]
    BY <1>2, <1>4
  <2> QED BY <1>3, <2>1
<1> QED BY <1>5, <1>7, <1>8, <1>9

LEMMA InputsRead ==
  ASSUME NEW A, Nat \subseteq A, NEW v \in Seq(InputOf(A)), NEW rest \in Seq(A)
  PROVE  /\ Inputs(v) \o rest \in Seq(A)
         /\ [i \in DOMAIN Items(Inputs(v) \o rest, 7) |-> ReadInput(Items(Inputs(v) \o rest, 7)[i])] = v
         /\ After(Inputs(v) \o rest, 7) = rest
<1>1. PICK n, p : n = Len(v) /\ p = [i \in DOMAIN v |-> InputFields(v[i])]
  OBVIOUS
<1>2. n \in Nat /\ DOMAIN v = 1..n
  BY <1>1
<1>3. \A i \in 1..n : p[i] = InputFields(v[i]) /\ p[i] \in Tuples(A, 7) /\ ReadInput(p[i]) = v[i]
  <2> TAKE i \in 1..n
  <2>1. v[i] \in InputOf(A)
    BY <1>1
  <2> QED BY <1>1, <1>2, <2>1, InputReads
<1>4. p \in Seq(Tuples(A, 7)) /\ Len(p) = n
  <2>1. p \in [1..n -> Tuples(A, 7)]
    BY <1>1, <1>2, <1>3
  <2> QED BY <1>2, <2>1, FunctionIsSeq
<1>5. Inputs(v) = EncodeVec(p)
  BY <1>1 DEF Inputs
<1>6. 7 \in Widths /\ Len(p) \in A
  BY <1>2, <1>4 DEF Widths
<1>7. PICK s : s = EncodeVec(p) \o rest
  OBVIOUS
<1>8. s \in Seq(A) /\ Items(s, 7) = p /\ After(s, 7) = rest
  BY <1>4, <1>6, <1>7, VectorReads
<1>9. [i \in DOMAIN p |-> ReadInput(p[i])] = v
  <2>1. DOMAIN p = 1..n /\ v = [i \in 1..n |-> v[i]]
    BY <1>2, <1>4
  <2> QED BY <1>3, <2>1
<1> QED BY <1>5, <1>7, <1>8, <1>9

LEMMA OutputsRead ==
  ASSUME NEW A, Nat \subseteq A, NEW v \in Seq(OutputOf(A)), NEW rest \in Seq(A)
  PROVE  /\ Outputs(v) \o rest \in Seq(A)
         /\ [i \in DOMAIN Items(Outputs(v) \o rest, 5) |-> ReadOutput(Items(Outputs(v) \o rest, 5)[i])] = v
         /\ After(Outputs(v) \o rest, 5) = rest
<1>1. PICK n, p : n = Len(v) /\ p = [i \in DOMAIN v |-> OutputFields(v[i])]
  OBVIOUS
<1>2. n \in Nat /\ DOMAIN v = 1..n
  BY <1>1
<1>3. \A i \in 1..n : p[i] = OutputFields(v[i]) /\ p[i] \in Tuples(A, 5) /\ ReadOutput(p[i]) = v[i]
  <2> TAKE i \in 1..n
  <2>1. v[i] \in OutputOf(A)
    BY <1>1
  <2> QED BY <1>1, <1>2, <2>1, OutputReads
<1>4. p \in Seq(Tuples(A, 5)) /\ Len(p) = n
  <2>1. p \in [1..n -> Tuples(A, 5)]
    BY <1>1, <1>2, <1>3
  <2> QED BY <1>2, <2>1, FunctionIsSeq
<1>5. Outputs(v) = EncodeVec(p)
  BY <1>1 DEF Outputs
<1>6. 5 \in Widths /\ Len(p) \in A
  BY <1>2, <1>4 DEF Widths
<1>7. PICK s : s = EncodeVec(p) \o rest
  OBVIOUS
<1>8. s \in Seq(A) /\ Items(s, 5) = p /\ After(s, 5) = rest
  BY <1>4, <1>6, <1>7, VectorReads
<1>9. [i \in DOMAIN p |-> ReadOutput(p[i])] = v
  <2>1. DOMAIN p = 1..n /\ v = [i \in 1..n |-> v[i]]
    BY <1>2, <1>4
  <2> QED BY <1>3, <2>1
<1> QED BY <1>5, <1>7, <1>8, <1>9

(* A transaction comes back from its encoding (Transaction, tx.rs:42-72    *)
(* and 246-414).                                                           *)
THEOREM TransactionRoundTrip ==
  ASSUME NEW A, Nat \subseteq A, NEW tx \in TransactionOf(A)
  PROVE  Decode(Encode(tx)) = tx
<1>1. PICK a, b, c : a = tx.clear_inputs /\ b = tx.inputs /\ c = tx.outputs
  OBVIOUS
<1>2. /\ a \in Seq(ClearOf(A)) /\ b \in Seq(InputOf(A)) /\ c \in Seq(OutputOf(A))
      /\ tx = [clear_inputs |-> a, inputs |-> b, outputs |-> c]
  BY <1>1 DEF TransactionOf
<1>3. PICK nil, z : nil = <<>> /\ z = Outputs(c) \o nil
  OBVIOUS
<1>4. nil \in Seq(A)
  BY <1>3
<1>5. z \in Seq(A) /\ [i \in DOMAIN Items(z, 5) |-> ReadOutput(Items(z, 5)[i])] = c
  <2>1. Nat \subseteq A /\ c \in Seq(OutputOf(A))
    BY <1>2
  <2>2. /\ Outputs(c) \o nil \in Seq(A)
        /\ [i \in DOMAIN Items(Outputs(c) \o nil, 5) |-> ReadOutput(Items(Outputs(c) \o nil, 5)[i])] = c
    BY ONLY <1>4, <2>1, OutputsRead
  <2> QED BY <1>3, <2>2
<1>6. PICK y : y = Inputs(b) \o z
  OBVIOUS
<1>7. y \in Seq(A) /\ [i \in DOMAIN Items(y, 7) |-> ReadInput(Items(y, 7)[i])] = b /\ After(y, 7) = z
  BY <1>2, <1>5, <1>6, InputsRead
<1>8. PICK x : x = Clears(a) \o y
  OBVIOUS
<1>9. x \in Seq(A) /\ [i \in DOMAIN Items(x, 5) |-> ReadClear(Items(x, 5)[i])] = a /\ After(x, 5) = y
  BY <1>2, <1>7, <1>8, ClearsRead
<1>10. Encode(tx) = x
  BY <1>1, <1>2, <1>3, <1>6, <1>8 DEF Encode
<1> QED BY <1>2, <1>5, <1>7, <1>9, <1>10 DEF Decode

----------------------------------------------------------------------------
(* Proofs, notes and signatures.                                           *)

Note == [serial : Nat, value : Amounts, coin_blind : Nat, valcom_blind : Scalars]

\* The circuit adds up the commitment to the value and that to the blind.
LEMMA CommitCircuitIs ==
  ASSUME NEW v \in Int, NEW b \in Int
  PROVE  CommitCircuit(v, b) = Commit(v, b)
<1>1. PICK d : d = Commit(0, b)
  OBVIOUS
<1>2. d \in Points /\ d.value = 0 /\ d.blind = b % Order /\ b % Order \in Int
  <2>1. b % Order \in Scalars
    BY Modulo
  <2>2. b % Order \in Int
    BY <2>1, OrderAssumption DEF Scalars
  <2> QED BY <1>1, <2>2, CommitType
<1>3. Plus(Commit(v, 0), d) = Commit(v + 0, 0 + (b % Order))
  BY <1>2, CommitAdds
<1>4. v + 0 = v /\ 0 + (b % Order) = b % Order
  BY <1>2
<1>5. Commit(v, b % Order) = Commit(v, b)
  <2>1. ((b % Order) + 0) % Order = (b + 0) % Order
    BY ModuloPlus
  <2>2. (b % Order) % Order = b % Order
    BY <1>2, <2>1
  <2> QED BY <2>2 DEF Commit
<1> QED BY <1>1, <1>3, <1>4, <1>5 DEF CommitCircuit

\* Swapping before hashing and hashing in the right order give the same root,
\* on every path.
LEMMA RootCircuit ==
  ASSUME NEW w, NEW leaf
  PROVE  FoldLeftDomain(LAMBDA current, i : Layer(w, current, i), leaf, w.path) = PathRoot(leaf, w.path)
<1> DEFINE ix == [i \in DOMAIN w.path |-> i]
           S == DOMAIN ix
           P(g) == g = [t \in SUBSET S |-> IF t = {} THEN leaf ELSE Layer(w, g[t \ {Max(t)}], ix[Max(t)])]
           Up(root, i) == IF w.path[i].is_right THEN merkle_hash(i - 1, w.path[i].node, root)
                          ELSE merkle_hash(i - 1, root, w.path[i].node)
           Q(g) == g = [t \in SUBSET S |-> IF t = {} THEN leaf ELSE Up(g[t \ {Max(t)}], ix[Max(t)])]
<1>1. \A x, i : Layer(w, x, i) = Up(x, i)
  <2> SUFFICES ASSUME NEW x, NEW i PROVE Layer(w, x, i) = Up(x, i)
    OBVIOUS
  <2>1. CASE w.path[i].is_right
    BY <2>1 DEF Layer
  <2>2. CASE ~w.path[i].is_right
    BY <2>2 DEF Layer
  <2> QED BY <2>1, <2>2
<1>2. FoldLeftDomain(LAMBDA current, i : Layer(w, current, i), leaf, w.path) = (CHOOSE g : P(g))[S]
  BY DEF FoldLeftDomain, FoldLeft, MapThenFoldSet
<1>3. PathRoot(leaf, w.path) = (CHOOSE g : Q(g))[S]
  BY DEF PathRoot, FoldLeftDomain, FoldLeft, MapThenFoldSet
<1>4. \A g : P(g) <=> Q(g)
  <2> HIDE DEF Up, S, ix
  <2> TAKE g
  <2>1. ASSUME NEW t \in SUBSET S
        PROVE  Layer(w, g[t \ {Max(t)}], ix[Max(t)]) = Up(g[t \ {Max(t)}], ix[Max(t)])
    BY <1>1, Zenon
  <2>2. [t \in SUBSET S |-> IF t = {} THEN leaf ELSE Layer(w, g[t \ {Max(t)}], ix[Max(t)])]
          = [t \in SUBSET S |-> IF t = {} THEN leaf ELSE Up(g[t \ {Max(t)}], ix[Max(t)])]
    BY <2>1, Zenon
  <2> QED BY <2>2
<1>5. (CHOOSE g : P(g)) = (CHOOSE g : Q(g))
  <2> HIDE DEF P, Q
  <2> QED BY <1>4, Zenon
<1> QED BY <1>2, <1>3, <1>5, Zenon

\* A proof that is made is good for what is revealed.
LEMMA SpendProves ==
  ASSUME NEW w, w.value \in Int, w.valcom_blind \in Int
  PROVE  SpendCircuit(w) = SpendOutputs(RevealSpend(w))
<1>1. CommitCircuit(w.value, w.valcom_blind) = Commit(w.value, w.valcom_blind)
  BY CommitCircuitIs
<1> QED BY <1>1, RootCircuit
        DEF SpendCircuit, SpendOutputs, RevealSpend, NullifierCircuit, Nullifier, CoinCircuit, CoinOf

LEMMA MintProves ==
  ASSUME NEW w, w.value \in Int, w.valcom_blind \in Int
  PROVE  MintCircuit(w) = MintOutputs(RevealMint(w))
BY CommitCircuitIs DEF MintCircuit, MintOutputs, RevealMint, CoinCircuit, CoinOf

\* The key of a note is the one its recipient computes, and nobody else.
LEMMA OnlyOwnerDecrypts ==
  ASSUME NEW note, NEW secret, NEW esk, NEW w
  PROVE  Decrypts(Encrypt(note, Public(secret), esk), w) <=> w = secret
<1>1. Public(secret)[2] = secret /\ Public(esk)[2] = esk
  BY DEF Public
<1>2. {esk, secret} = {w, esk} <=> w = secret
  OBVIOUS
<1>3. \A a, b, c : <<a, c>> = <<b, c>> <=> a = b
  OBVIOUS
<1> QED BY <1>1, <1>2, <1>3 DEF Decrypts, Encrypt, sapling_ka_agree, kdf_sapling

\* The numbers in it.
LEMMA NoteNumbers ==
  ASSUME NEW note \in Note
  PROVE  note.value \in Int /\ note.valcom_blind \in Scalars /\ note.valcom_blind \in Int
<1>1. note.value \in Amounts /\ note.valcom_blind \in Scalars
  BY DEF Note
<1>2. Amounts \subseteq Int /\ Scalars \subseteq Int
  BY AmountAssumption, OrderAssumption DEF Scalars
<1> QED BY <1>1, <1>2

LEMMA NoteReads ==
  ASSUME NEW note \in Note, NEW public, NEW esk
  PROVE  Decrypted(Encrypt(note, public, esk)) = note
<1>1. note = [serial |-> note.serial, value |-> note.value, coin_blind |-> note.coin_blind,
              valcom_blind |-> note.valcom_blind]
  BY DEF Note
<1> QED BY <1>1 DEF Decrypted, Encrypt, DecodeNote, EncodeNote

LEMMA SignatureVerifies ==
  ASSUME NEW secret, NEW message, NEW mask
  PROVE  VerifySignature(Public(secret), message, Sign(secret, message, mask))
BY DEF VerifySignature, Sign

----------------------------------------------------------------------------
(* The inductive invariant.                                                *)

\* A sequence, whatever its elements are.
IsList(s) == s \in Seq({s[i] : i \in DOMAIN s})

\* The types that are needed of the state.
TypeOK ==
  /\ drawn \in Nat
  /\ \A w \in Wallets : \A n \in notes[w] : n.note \in Note
  /\ builder.clear_inputs \in Seq(ClearInfos) /\ builder.outputs \in Seq(OutputInfos)
  /\ IsList(builder.inputs)
  /\ \A i \in DOMAIN builder.inputs : builder.inputs[i].note \in Note
  /\ partial.clear_inputs \in Seq([value : Amounts, valcom_blind : Scalars, signature_public : {Public(Cashier)}])
  /\ IsList(partial.inputs) /\ IsList(partial.outputs) /\ IsList(signature_secrets)
  /\ output_blinds \in Seq(Scalars)
  /\ partial = [clear_inputs |-> partial.clear_inputs, inputs |-> partial.inputs, outputs |-> partial.outputs]

\* What is built from each of the builder's inputs and outputs.
BuiltClear(i) ==
  LET c == partial.clear_inputs[i]  info == builder.clear_inputs[i] IN
  c.value = info.value /\ c.signature_public = Public(info.secret)

BuiltInput(i) ==
  LET c == partial.inputs[i]  r == c.revealed  note == builder.inputs[i].note IN
  /\ c = [spend_proof |-> CreateProof(SpendOutputs(r)), revealed |-> r]
  /\ r = [value_commit |-> Commit(note.value, note.valcom_blind), nullifier |-> r.nullifier,
          merkle_root |-> r.merkle_root, signature_public |-> Public(signature_secrets[i])]

BuiltOutput(i) ==
  LET o == partial.outputs[i]  r == o.revealed  note == Decrypted(o.enc_note)
      public == builder.outputs[i].public
  IN  /\ o = [mint_proof |-> CreateProof(MintOutputs(r)), revealed |-> r,
              enc_note |-> Encrypt(note, public, o.enc_note.ephem_public[2])]
      /\ note \in Note /\ note.value = builder.outputs[i].value /\ note.valcom_blind = output_blinds[i]
      /\ r = [value_commit |-> Commit(note.value, note.valcom_blind),
              coin |-> CoinOf(public, note.value, note.serial, note.coin_blind)]

Built ==
  /\ Len(partial.clear_inputs) <= Len(builder.clear_inputs)
  /\ Len(partial.inputs) <= Len(builder.inputs) /\ Len(signature_secrets) = Len(partial.inputs)
  /\ Len(partial.outputs) <= Len(builder.outputs) /\ Len(output_blinds) = Len(partial.outputs)
  /\ \A i \in DOMAIN partial.clear_inputs : BuiltClear(i)
  /\ \A i \in DOMAIN partial.inputs : BuiltInput(i)
  /\ \A i \in DOMAIN partial.outputs : BuiltOutput(i)

\* The blinds cancel out once the last output has its.
Remainder ==
  partial.outputs # <<>> =>
    /\ Len(partial.clear_inputs) = Len(builder.clear_inputs)
    /\ Len(partial.outputs) = Len(builder.outputs) => RemainderBlind = 0

\* A transaction with the signatures over what is built.
Signed(tx) ==
  LET message == EncodePartial(partial) IN
  /\ tx = [clear_inputs |-> tx.clear_inputs, inputs |-> tx.inputs, outputs |-> partial.outputs]
  /\ IsList(tx.clear_inputs) /\ Len(tx.clear_inputs) = Len(partial.clear_inputs)
  /\ IsList(tx.inputs) /\ Len(tx.inputs) = Len(partial.inputs)
  /\ \A i \in DOMAIN tx.clear_inputs :
       LET c == tx.clear_inputs[i]  p == partial.clear_inputs[i] IN
       c = [value |-> p.value, valcom_blind |-> p.valcom_blind, signature_public |-> p.signature_public,
            signature |-> Sign(builder.clear_inputs[i].secret, message, c.signature.response.mask)]
  /\ \A i \in DOMAIN tx.inputs :
       LET c == tx.inputs[i]  p == partial.inputs[i] IN
       c = [spend_proof |-> p.spend_proof, revealed |-> p.revealed,
            signature |-> Sign(signature_secrets[i], message, c.signature.response.mask)]

\* What is sent.
Complete ==
  stage = "sent" =>
    /\ Len(partial.clear_inputs) = Len(builder.clear_inputs)
    /\ Len(partial.inputs) = Len(builder.inputs)
    /\ Len(partial.outputs) = Len(builder.outputs)
    /\ Signed(Decode(data))

IInv == TypeOK /\ Built /\ Remainder /\ Complete

----------------------------------------------------------------------------
(* Sequences.                                                              *)

LEMMA ListAppend ==
  ASSUME NEW s, IsList(s), NEW x
  PROVE  /\ IsList(Append(s, x)) /\ Len(Append(s, x)) = Len(s) + 1 /\ Len(s) \in Nat
         /\ DOMAIN s = 1..Len(s) /\ DOMAIN Append(s, x) = 1..(Len(s) + 1)
         /\ Append(s, x)[Len(s) + 1] = x /\ \A i \in 1..Len(s) : Append(s, x)[i] = s[i]
<1>1. PICK S : S = {s[i] : i \in DOMAIN s}
  OBVIOUS
<1>2. PICK R : R = S \cup {x}
  OBVIOUS
<1>3. s \in Seq(R)
  <2>1. s \in Seq(S)
    BY <1>1 DEF IsList
  <2> QED BY <1>2, <2>1
<1>4. PICK t : t = Append(s, x)
  OBVIOUS
<1>5. /\ t \in Seq(R) /\ Len(t) = Len(s) + 1 /\ Len(s) \in Nat
      /\ t[Len(s) + 1] = x /\ \A i \in 1..Len(s) : t[i] = s[i]
      /\ DOMAIN s = 1..Len(s) /\ DOMAIN t = 1..Len(t)
  BY <1>2, <1>3, <1>4, AppendProperties
<1>6. IsList(t)
  <2>1. t \in [1..Len(t) -> {t[i] : i \in DOMAIN t}] /\ Len(t) \in Nat
    BY <1>5
  <2> QED BY <2>1, FunctionIsSeq DEF IsList
<1> QED BY <1>4, <1>5, <1>6

\* A function on the first numbers is a list.
LEMMA IsAList ==
  ASSUME NEW n \in Nat, NEW s, s = [i \in 1..n |-> s[i]]
  PROVE  IsList(s) /\ Len(s) = n
<1>1. s \in [1..n -> {s[i] : i \in DOMAIN s}]
  OBVIOUS
<1> QED BY <1>1, FunctionIsSeq DEF IsList

LEMMA SeqIsList ==
  ASSUME NEW S, NEW s \in Seq(S)
  PROVE  IsList(s) /\ DOMAIN s = 1..Len(s) /\ Len(s) \in Nat
<1>1. Len(s) \in Nat /\ s = [i \in 1..Len(s) |-> s[i]]
  OBVIOUS
<1> QED BY <1>1, IsAList

LEMMA ListIs ==
  ASSUME NEW s, IsList(s)
  PROVE  DOMAIN s = 1..Len(s) /\ Len(s) \in Nat /\ s = [i \in 1..Len(s) |-> s[i]]
BY DEF IsList

\* Lists up to a length.
LEMMA UpToLists ==
  ASSUME NEW n \in Nat, NEW S, NEW s \in UpTo(n, S)
  PROVE  s \in Seq(S) /\ IsList(s) /\ \A i \in DOMAIN s : s[i] \in S
<1>1. PICK k \in 0..n : s \in [1..k -> S]
  BY DEF UpTo
<1>2. s \in Seq(S)
  BY <1>1, FunctionIsSeq
<1> QED BY <1>1, <1>2, SeqIsList

LEMMA InitIInv == Init => IInv
<1> SUFFICES ASSUME Init PROVE IInv
  OBVIOUS
<1>1. IsList(<<>>) /\ Len(<<>>) = 0 /\ DOMAIN <<>> = {} /\ \A S : <<>> \in Seq(S)
  <2>1. <<>> \in Seq({<<>>[i] : i \in DOMAIN <<>>})
    OBVIOUS
  <2> QED BY <2>1 DEF IsList
<1>2. /\ builder.clear_inputs = <<>> /\ builder.inputs = <<>> /\ builder.outputs = <<>>
      /\ partial.clear_inputs = <<>> /\ partial.inputs = <<>> /\ partial.outputs = <<>>
      /\ output_blinds = <<>> /\ signature_secrets = <<>> /\ drawn = 9 /\ stage = "idle"
      /\ notes = [w \in Wallets |-> {}]
      /\ partial = [clear_inputs |-> partial.clear_inputs, inputs |-> partial.inputs, outputs |-> partial.outputs]
  BY DEF Init, Nothing
<1>3. TypeOK
  BY <1>1, <1>2 DEF TypeOK
<1>4. Built
  BY <1>1, <1>2 DEF Built
<1>5. Remainder /\ Complete
  BY <1>2 DEF Remainder, Complete
<1> QED BY <1>3, <1>4, <1>5 DEF IInv

----------------------------------------------------------------------------
(* Every action keeps it.                                                  *)

LEMMA BeginStep == IInv /\ Begin => IInv'
<1> SUFFICES ASSUME IInv, Begin PROVE IInv'
  OBVIOUS
<1>1. /\ builder'.clear_inputs \in UpTo(MaxClear, ClearInfos)
      /\ builder'.inputs \in UpTo(MaxInputs, InputInfos)
      /\ builder'.outputs \in UpTo(MaxOutputs, OutputInfos)
  BY DEF Begin
<1>2. MaxClear \in Nat /\ MaxInputs \in Nat /\ MaxOutputs \in Nat
  BY BoundAssumption
<1>3. /\ builder'.clear_inputs \in Seq(ClearInfos) /\ IsList(builder'.clear_inputs)
      /\ builder'.outputs \in Seq(OutputInfos) /\ IsList(builder'.outputs)
      /\ IsList(builder'.inputs) /\ \A i \in DOMAIN builder'.inputs : builder'.inputs[i] \in InputInfos
  BY <1>1, <1>2, UpToLists
<1>4. \A info \in InputInfos : info.note \in Note
  BY DEF IInv, TypeOK, InputInfos
<1>5. IsList(<<>>) /\ Len(<<>>) = 0 /\ DOMAIN <<>> = {} /\ \A S : <<>> \in Seq(S)
  <2>1. <<>> \in Seq({<<>>[i] : i \in DOMAIN <<>>})
    OBVIOUS
  <2> QED BY <2>1 DEF IsList
<1>6. /\ partial'.clear_inputs = <<>> /\ partial'.inputs = <<>> /\ partial'.outputs = <<>>
      /\ partial' = [clear_inputs |-> partial'.clear_inputs, inputs |-> partial'.inputs,
                     outputs |-> partial'.outputs]
      /\ output_blinds' = <<>> /\ signature_secrets' = <<>> /\ drawn' = drawn /\ notes' = notes
      /\ stage' = "building"
  BY DEF Begin, Nothing, ledger
<1>7. TypeOK'
  BY <1>3, <1>4, <1>5, <1>6 DEF IInv, TypeOK
<1>8. Built'
  <2>1. Len(builder'.clear_inputs) \in Nat /\ Len(builder'.inputs) \in Nat /\ Len(builder'.outputs) \in Nat
    BY <1>3, ListIs
  <2> QED BY <1>5, <1>6, <2>1 DEF Built
<1>9. Remainder' /\ Complete'
  BY <1>6 DEF Remainder, Complete
<1> QED BY <1>7, <1>8, <1>9 DEF IInv

LEMMA BuildClearInputStep == IInv /\ BuildClearInput => IInv'
<1> SUFFICES ASSUME IInv, BuildClearInput PROVE IInv'
  OBVIOUS
<1>1. PICK blind \in Scalars :
        partial' = [partial EXCEPT !.clear_inputs = Append(@,
          [value |-> builder.clear_inputs[Len(partial.clear_inputs) + 1].value, valcom_blind |-> blind,
           signature_public |-> Public(builder.clear_inputs[Len(partial.clear_inputs) + 1].secret)])]
  BY DEF BuildClearInput
<1>2. PICK s, n, c : /\ s = partial.clear_inputs /\ n = Len(s)
                     /\ c = [value |-> builder.clear_inputs[n + 1].value, valcom_blind |-> blind,
                             signature_public |-> Public(builder.clear_inputs[n + 1].secret)]
  OBVIOUS
<1>3. /\ partial' = [clear_inputs |-> Append(s, c), inputs |-> partial.inputs, outputs |-> partial.outputs]
      /\ n + 1 <= Len(builder.clear_inputs) /\ stage = "building"
      /\ UNCHANGED <<stage, builder, output_blinds, signature_secrets, drawn, notes>>
  <2>1. partial = [clear_inputs |-> partial.clear_inputs, inputs |-> partial.inputs, outputs |-> partial.outputs]
    BY DEF IInv, TypeOK
  <2> QED BY <1>1, <1>2, <2>1 DEF BuildClearInput, ledger
<1>4. PICK R : R = [value : Amounts, valcom_blind : Scalars, signature_public : {Public(Cashier)}]
  OBVIOUS
<1>5. s \in Seq(R) /\ n \in Nat /\ builder.clear_inputs \in Seq(ClearInfos)
  BY <1>2, <1>4, SeqIsList DEF IInv, TypeOK
<1>6. c \in R
  <2>1. builder.clear_inputs[n + 1] \in ClearInfos
    BY <1>3, <1>5
  <2> QED BY <1>2, <1>4, <2>1 DEF ClearInfos
<1>7. PICK t : t = Append(s, c)
  OBVIOUS
<1>8. /\ t \in Seq(R) /\ Len(t) = n + 1 /\ t[n + 1] = c /\ \A i \in 1..n : t[i] = s[i]
      /\ DOMAIN t = 1..(n + 1) /\ DOMAIN s = 1..n
  BY <1>2, <1>5, <1>6, <1>7, AppendProperties
<1>9. partial'.clear_inputs = t /\ partial'.inputs = partial.inputs /\ partial'.outputs = partial.outputs
  BY <1>3, <1>7
<1>10. TypeOK'
  BY <1>3, <1>4, <1>7, <1>8, <1>9 DEF IInv, TypeOK
<1>11. Built'
  <2>1. ASSUME NEW i \in DOMAIN t PROVE BuiltClear(i)'
    <3>1. CASE i = n + 1
      BY <1>2, <1>3, <1>8, <1>9, <3>1 DEF BuiltClear
    <3>2. CASE i # n + 1
      <4>1. i \in 1..n
        BY <1>5, <1>8, <3>2
      <4>2. BuiltClear(i)
        BY <1>2, <1>8, <4>1 DEF IInv, Built
      <4> QED BY <1>2, <1>3, <1>8, <1>9, <4>1, <4>2 DEF BuiltClear
    <3> QED BY <3>1, <3>2
  <2>2. \A i \in DOMAIN partial.inputs : BuiltInput(i)'
    BY <1>3, <1>9 DEF IInv, Built, BuiltInput
  <2>3. \A i \in DOMAIN partial.outputs : BuiltOutput(i)'
    BY <1>3, <1>9 DEF IInv, Built, BuiltOutput
  <2> QED BY <1>3, <1>8, <1>9, <2>1, <2>2, <2>3 DEF IInv, Built
<1>12. Remainder'
  <2>1. partial.outputs = <<>>
    BY <1>2, <1>3, <1>5 DEF IInv, Remainder
  <2> QED BY <1>9, <2>1 DEF Remainder
<1>13. Complete'
  BY <1>3 DEF Complete
<1> QED BY <1>10, <1>11, <1>12, <1>13 DEF IInv

LEMMA BuildInputStep == IInv /\ BuildInput => IInv'
<1> SUFFICES ASSUME IInv, BuildInput PROVE IInv'
  OBVIOUS
<1>1. PICK s, n, d, w : /\ s = partial.inputs /\ n = Len(s) /\ d = drawn + 1
                        /\ w = SpendWitness(n + 1, d)
  OBVIOUS
<1>2. PICK c : c = [spend_proof |-> CreateProof(SpendCircuit(w)), revealed |-> RevealSpend(w)]
  OBVIOUS
<1>3. /\ partial' = [clear_inputs |-> partial.clear_inputs, inputs |-> Append(s, c), outputs |-> partial.outputs]
      /\ signature_secrets' = Append(signature_secrets, d)
      /\ n + 1 <= Len(builder.inputs) /\ stage = "building" /\ drawn' = d
      /\ UNCHANGED <<stage, builder, output_blinds, notes>>
  <2>1. partial = [clear_inputs |-> partial.clear_inputs, inputs |-> partial.inputs, outputs |-> partial.outputs]
    BY DEF IInv, TypeOK
  <2> QED BY <1>1, <1>2, <2>1 DEF BuildInput, ledger
<1>4. IsList(s) /\ n \in Nat /\ IsList(builder.inputs) /\ IsList(signature_secrets) /\ Len(signature_secrets) = n
  BY <1>1, ListIs DEF IInv, TypeOK, Built
<1>5. PICK t : t = Append(s, c)
  OBVIOUS
<1>6. /\ IsList(t) /\ Len(t) = n + 1 /\ t[n + 1] = c /\ \A i \in 1..n : t[i] = s[i]
      /\ DOMAIN t = 1..(n + 1) /\ DOMAIN s = 1..n
  BY <1>1, <1>4, <1>5, ListAppend
<1>7. PICK z : z = Append(signature_secrets, d)
  OBVIOUS
<1>8. /\ IsList(z) /\ Len(z) = n + 1 /\ z[n + 1] = d /\ \A i \in 1..n : z[i] = signature_secrets[i]
  BY <1>4, <1>7, ListAppend
<1>9. /\ partial'.inputs = t /\ partial'.clear_inputs = partial.clear_inputs
      /\ partial'.outputs = partial.outputs /\ signature_secrets' = z
  BY <1>3, <1>5, <1>7
<1>10. TypeOK'
  <2>1. drawn' \in Nat
    BY <1>1, <1>3 DEF IInv, TypeOK
  <2> QED BY <1>3, <1>5, <1>6, <1>8, <1>9, <2>1 DEF IInv, TypeOK
<1>11. BuiltInput(n + 1)'
  <2>1. PICK note : note = builder.inputs[n + 1].note
    OBVIOUS
  <2>2. note.value \in Int /\ note.valcom_blind \in Int
    <3>1. n + 1 \in DOMAIN builder.inputs
      BY <1>3, <1>4, ListIs
    <3>2. note \in Note
      BY <2>1, <3>1 DEF IInv, TypeOK
    <3> QED BY <3>2, NoteNumbers
  <2>3. w.value = note.value /\ w.valcom_blind = note.valcom_blind /\ w.signature_secret = d
    BY <1>1, <2>1 DEF SpendWitness
  <2>4. SpendCircuit(w) = SpendOutputs(RevealSpend(w))
    BY <2>2, <2>3, SpendProves
  <2>5. PICK r : r = RevealSpend(w)
    OBVIOUS
  <2>6. r = [value_commit |-> Commit(note.value, note.valcom_blind), nullifier |-> r.nullifier,
             merkle_root |-> r.merkle_root, signature_public |-> Public(d)]
    BY <2>3, <2>5 DEF RevealSpend
  <2>7. c = [spend_proof |-> CreateProof(SpendOutputs(r)), revealed |-> r]
    BY <1>2, <2>4, <2>5
  <2> QED BY <1>3, <1>6, <1>8, <1>9, <2>1, <2>6, <2>7 DEF BuiltInput
<1>12. Built'
  <2>1. ASSUME NEW i \in DOMAIN t PROVE BuiltInput(i)'
    <3>1. CASE i = n + 1
      BY <1>11, <3>1
    <3>2. CASE i # n + 1
      <4>1. i \in 1..n
        BY <1>4, <1>6, <3>2
      <4>2. BuiltInput(i)
        BY <1>1, <1>6, <4>1 DEF IInv, Built
      <4> QED BY <1>1, <1>3, <1>6, <1>8, <1>9, <4>1, <4>2 DEF BuiltInput
    <3> QED BY <3>1, <3>2
  <2>2. \A i \in DOMAIN partial.clear_inputs : BuiltClear(i)'
    BY <1>3, <1>9 DEF IInv, Built, BuiltClear
  <2>3. \A i \in DOMAIN partial.outputs : BuiltOutput(i)'
    BY <1>3, <1>9 DEF IInv, Built, BuiltOutput
  <2> QED BY <1>3, <1>6, <1>8, <1>9, <2>1, <2>2, <2>3 DEF IInv, Built
<1>13. Remainder'
  BY <1>3, <1>9 DEF IInv, Remainder, RemainderBlind
<1>14. Complete'
  BY <1>3 DEF Complete
<1> QED BY <1>10, <1>12, <1>13, <1>14 DEF IInv

\* The blinds that are added up are numbers.
ClearBlinds == [i \in DOMAIN partial.clear_inputs |-> partial.clear_inputs[i].valcom_blind]
InputBlinds == [i \in DOMAIN builder.inputs |-> builder.inputs[i].note.valcom_blind]

LEMMA BlindsType ==
  ASSUME IInv
  PROVE  /\ ClearBlinds \in Seq(Int) /\ InputBlinds \in Seq(Int) /\ output_blinds \in Seq(Int)
         /\ Total(ClearBlinds) \in Int /\ Total(InputBlinds) \in Int /\ Total(output_blinds) \in Int
<1>1. Scalars \subseteq Int
  BY OrderAssumption DEF Scalars
<1>2. ClearBlinds \in Seq(Int)
  <2>1. PICK s, n : s = partial.clear_inputs /\ n = Len(s)
    OBVIOUS
  <2>2. PICK R : R = [value : Amounts, valcom_blind : Scalars, signature_public : {Public(Cashier)}]
    OBVIOUS
  <2>6. s \in Seq(R)
    BY <2>1, <2>2 DEF IInv, TypeOK
  <2>7. n \in Nat /\ DOMAIN s = 1..n
    BY <2>1, <2>6, SeqIsList
  <2>8. \A i \in 1..n : s[i] \in R
    BY ONLY <2>1, <2>6, <2>7
  <2>9. \A c \in R : c.valcom_blind \in Int
    BY <1>1, <2>2
  <2>3. n \in Nat /\ DOMAIN s = 1..n /\ \A i \in 1..n : s[i].valcom_blind \in Int
    BY <2>7, <2>8, <2>9
  <2>4. [i \in DOMAIN s |-> s[i].valcom_blind] \in [1..n -> Int]
    BY <2>3
  <2> QED BY <2>1, <2>3, <2>4, FunctionIsSeq DEF ClearBlinds
<1>3. InputBlinds \in Seq(Int)
  <2>1. PICK s, n : s = builder.inputs /\ n = Len(s)
    OBVIOUS
  <2>2. n \in Nat /\ DOMAIN s = 1..n
    BY <2>1, ListIs DEF IInv, TypeOK
  <2>3. \A i \in 1..n : s[i].note \in Note
    BY <2>1, <2>2 DEF IInv, TypeOK
  <2>4. \A i \in 1..n : s[i].note.valcom_blind \in Int
    BY <2>3, NoteNumbers
  <2>5. [i \in DOMAIN s |-> s[i].note.valcom_blind] \in [1..n -> Int]
    BY <2>2, <2>4
  <2> QED BY <2>1, <2>2, <2>5, FunctionIsSeq DEF InputBlinds
<1>4. output_blinds \in Seq(Int)
  <2>1. output_blinds \in Seq(Scalars)
    BY DEF IInv, TypeOK
  <2>2. Len(output_blinds) \in Nat /\ output_blinds \in [1..Len(output_blinds) -> Scalars]
    BY ONLY <2>1
  <2>3. output_blinds \in [1..Len(output_blinds) -> Int]
    BY ONLY <1>1, <2>2
  <2> QED BY <2>2, <2>3, FunctionIsSeq
<1> QED BY <1>2, <1>3, <1>4, TotalType

\* Taking away what is left leaves nothing.
LEMMA NothingLeft ==
  ASSUME NEW x \in Int, NEW o \in Int
  PROVE  (x - (o + ((x - o) % Order))) % Order = 0
<1>1. PICK d, r : d = x - o /\ r = d % Order
  OBVIOUS
<1>2. d \in Int
  BY <1>1
<1>3. PICK q \in Int : d = (Order * q) + r /\ r \in Scalars
  BY <1>1, <1>2, Modulo
<1>4. Order \in Nat \ {0} /\ r \in Int /\ 0 \in Scalars
  BY <1>3, OrderAssumption DEF Scalars
<1>5. ((Order * q) + 0) % Order = 0
  BY <1>4, ModuloIs
<1>6. PICK y : y = Order * q
  OBVIOUS
<1>7. y \in Int
  BY <1>4, <1>6, SMT
<1>8. x - (o + r) = y + 0
  <2>1. d = y + r
    BY <1>3, <1>6
  <2>2. d = x - o /\ x \in Int /\ o \in Int /\ r \in Int
    BY <1>1, <1>4
  <2> QED BY ONLY <1>7, <2>1, <2>2
<1> QED BY <1>1, <1>5, <1>6, <1>8

\* RemainderBlind adds those up.
LEMMA RemainderIs ==
  RemainderBlind = (Total(ClearBlinds) + (Total(InputBlinds) - Total(output_blinds))) % Order
BY DEF RemainderBlind, ClearBlinds, InputBlinds

LEMMA BuildOutputStep == IInv /\ BuildOutput => IInv'
<1> SUFFICES ASSUME IInv, BuildOutput PROVE IInv'
  OBVIOUS
<1>1. PICK s, n, public, value : /\ s = partial.outputs /\ n = Len(s)
                                 /\ public = builder.outputs[n + 1].public
                                 /\ value = builder.outputs[n + 1].value
  OBVIOUS
<1>2. PICK blind \in OutputBlinds(n + 1) :
        LET note == NewNote(value, blind)
            w == [serial |-> note.serial, value |-> note.value, coin_blind |-> note.coin_blind,
                  valcom_blind |-> blind, public |-> public]
        IN  /\ output_blinds' = Append(output_blinds, blind)
            /\ partial' = [partial EXCEPT !.outputs = Append(@,
                             [mint_proof |-> CreateProof(MintCircuit(w)), revealed |-> RevealMint(w),
                              enc_note |-> Encrypt(note, public, drawn + 3)])]
  BY <1>1, ZenonT(30) DEF BuildOutput
<1>3. PICK note, w : /\ note = NewNote(value, blind)
                     /\ w = [serial |-> note.serial, value |-> note.value, coin_blind |-> note.coin_blind,
                             valcom_blind |-> blind, public |-> public]
  OBVIOUS
<1>4. PICK c : c = [mint_proof |-> CreateProof(MintCircuit(w)), revealed |-> RevealMint(w),
                    enc_note |-> Encrypt(note, public, drawn + 3)]
  OBVIOUS
<1>5. /\ partial' = [clear_inputs |-> partial.clear_inputs, inputs |-> partial.inputs, outputs |-> Append(s, c)]
      /\ output_blinds' = Append(output_blinds, blind)
      /\ n + 1 <= Len(builder.outputs) /\ stage = "building" /\ drawn' = drawn + 3
      /\ Len(partial.clear_inputs) = Len(builder.clear_inputs)
      /\ UNCHANGED <<stage, builder, signature_secrets, notes>>
  <2>1. partial = [clear_inputs |-> partial.clear_inputs, inputs |-> partial.inputs, outputs |-> partial.outputs]
    BY DEF IInv, TypeOK
  <2> QED BY <1>1, <1>2, <1>3, <1>4, <2>1, ZenonT(40) DEF BuildOutput, ledger
<1>6. /\ IsList(s) /\ n \in Nat /\ builder.outputs \in Seq(OutputInfos) /\ drawn \in Nat
      /\ output_blinds \in Seq(Scalars) /\ Len(output_blinds) = n
  BY <1>1, ListIs DEF IInv, TypeOK, Built
<1>7. PICK t : t = Append(s, c)
  OBVIOUS
<1>8. /\ IsList(t) /\ Len(t) = n + 1 /\ t[n + 1] = c /\ \A i \in 1..n : t[i] = s[i]
      /\ DOMAIN t = 1..(n + 1) /\ DOMAIN s = 1..n
  BY <1>1, <1>6, <1>7, ListAppend
<1>9. blind \in Scalars
  <2>1. RemainderBlind \in Scalars
    <3>1. PICK x : x = Total(ClearBlinds) + Total(InputBlinds) - Total(output_blinds)
      OBVIOUS
    <3>2. x \in Int
      BY <3>1, BlindsType
    <3>3. RemainderBlind = x % Order
      BY <3>1 DEF RemainderBlind, ClearBlinds, InputBlinds
    <3> QED BY <3>2, <3>3, Modulo
  <2> QED BY <1>2, <2>1 DEF OutputBlinds
<1>10. PICK z : z = Append(output_blinds, blind)
  OBVIOUS
<1>11. z \in Seq(Scalars) /\ Len(z) = n + 1 /\ z[n + 1] = blind /\ \A i \in 1..n : z[i] = output_blinds[i]
  BY <1>6, <1>9, <1>10, AppendProperties
<1>12. /\ partial'.outputs = t /\ partial'.clear_inputs = partial.clear_inputs
       /\ partial'.inputs = partial.inputs /\ output_blinds' = z
  BY <1>5, <1>7, <1>10
<1>13. TypeOK'
  <2>1. drawn' \in Nat
    BY <1>5, <1>6
  <2> QED BY <1>5, <1>7, <1>8, <1>11, <1>12, <2>1 DEF IInv, TypeOK
<1>14. BuiltOutput(n + 1)'
  <2>1. value \in Amounts
    <3>1. builder.outputs[n + 1] \in OutputInfos
      BY <1>5, <1>6
    <3> QED BY <1>1, <3>1 DEF OutputInfos
  <2>2. note \in Note /\ note.value = value /\ note.valcom_blind = blind
    BY <1>3, <1>6, <1>9, <2>1 DEF NewNote, Note
  <2>3. w.value = note.value /\ w.valcom_blind = note.valcom_blind /\ w.serial = note.serial
        /\ w.coin_blind = note.coin_blind /\ w.public = public
    BY <1>3, <2>2
  <2>4. w.value \in Int /\ w.valcom_blind \in Int
    BY <2>2, <2>3, NoteNumbers
  <2>5. MintCircuit(w) = MintOutputs(RevealMint(w))
    BY <2>4, MintProves
  <2>6. PICK r, e : r = RevealMint(w) /\ e = Encrypt(note, public, drawn + 3)
    OBVIOUS
  <2>7. r = [value_commit |-> Commit(note.value, note.valcom_blind),
             coin |-> CoinOf(public, note.value, note.serial, note.coin_blind)]
    BY <2>3, <2>6 DEF RevealMint
  <2>8. Decrypted(e) = note /\ e.ephem_public[2] = drawn + 3
    BY <2>2, <2>6, NoteReads DEF Encrypt, Public
  <2>9. c = [mint_proof |-> CreateProof(MintOutputs(r)), revealed |-> r,
             enc_note |-> Encrypt(note, public, e.ephem_public[2])]
    BY <1>4, <2>5, <2>6, <2>8
  <2>10. c.enc_note = e /\ c.revealed = r
    BY <1>4, <2>6
  <2>11. /\ partial'.outputs[n + 1] = c /\ builder'.outputs[n + 1].public = public
         /\ builder'.outputs[n + 1].value = value /\ output_blinds'[n + 1] = blind
    BY <1>1, <1>5, <1>8, <1>11, <1>12
  <2> QED BY <2>2, <2>7, <2>8, <2>9, <2>10, <2>11 DEF BuiltOutput
<1>15. Built'
  <2>1. ASSUME NEW i \in DOMAIN t PROVE BuiltOutput(i)'
    <3>1. CASE i = n + 1
      BY <1>14, <3>1
    <3>2. CASE i # n + 1
      <4>1. i \in 1..n
        BY <1>6, <1>8, <3>2
      <4>2. BuiltOutput(i)
        BY <1>1, <1>8, <4>1 DEF IInv, Built
      <4>3. partial'.outputs[i] = partial.outputs[i] /\ output_blinds'[i] = output_blinds[i] /\ builder' = builder
        BY <1>1, <1>5, <1>8, <1>11, <1>12, <4>1
      <4> QED BY <4>2, <4>3 DEF BuiltOutput
    <3> QED BY <3>1, <3>2
  <2>2. \A i \in DOMAIN partial.clear_inputs : BuiltClear(i)'
    BY <1>5, <1>12 DEF IInv, Built, BuiltClear
  <2>3. \A i \in DOMAIN partial.inputs : BuiltInput(i)'
    BY <1>5, <1>12 DEF IInv, Built, BuiltInput
  <2> QED BY <1>5, <1>8, <1>11, <1>12, <2>1, <2>2, <2>3 DEF IInv, Built
<1>16. Remainder'
  <2>1. ASSUME n + 1 = Len(builder.outputs) PROVE RemainderBlind' = 0
    <3>1. blind = RemainderBlind
      BY <1>2, <2>1 DEF OutputBlinds
    <3>2. PICK c0, i0, o, x : /\ c0 = Total(ClearBlinds) /\ i0 = Total(InputBlinds)
                              /\ o = Total(output_blinds) /\ x = c0 + i0
      OBVIOUS
    <3>7. c0 \in Int /\ i0 \in Int /\ o \in Int
      BY <3>2, BlindsType
    <3>3. x \in Int /\ o \in Int
      BY <3>2, <3>7
    <3>4. blind = (x - o) % Order
      <4>1. c0 + (i0 - o) = x - o
        BY ONLY <3>2, <3>7
      <4> QED BY <3>1, <3>2, <4>1, RemainderIs
    <3>5. Total(output_blinds') = o + blind
      <4>1. blind \in Int
        BY <1>9, OrderAssumption DEF Scalars
      <4> QED BY <1>5, <3>2, <4>1, BlindsType, TotalAppend
    <3>6. RemainderBlind' = (x - (o + blind)) % Order
      <4>1. ClearBlinds' = ClearBlinds /\ InputBlinds' = InputBlinds
        BY <1>5, <1>12 DEF ClearBlinds, InputBlinds
      <4>2. RemainderBlind' = (Total(ClearBlinds') + (Total(InputBlinds') - Total(output_blinds'))) % Order
        BY DEF RemainderBlind, ClearBlinds, InputBlinds
      <4>3. c0 + (i0 - (o + blind)) = x - (o + blind)
        <5>1. blind \in Int
          BY <1>9, OrderAssumption DEF Scalars
        <5> QED BY ONLY <3>2, <3>7, <5>1
      <4> QED BY <3>2, <3>5, <4>1, <4>2, <4>3
    <3> QED BY <3>3, <3>4, <3>6, NothingLeft
  <2> QED BY <1>5, <1>8, <1>12, <2>1 DEF Remainder
<1>17. Complete'
  BY <1>5 DEF Complete
<1> QED BY <1>13, <1>15, <1>16, <1>17 DEF IInv

\* A transaction whose parts have their fields, whatever is in them.
IsClear(c) ==
  c = [value |-> c.value, valcom_blind |-> c.valcom_blind, signature_public |-> c.signature_public,
       signature |-> [commit |-> c.signature.commit, response |-> c.signature.response]]
IsInput(c) ==
  c = [spend_proof |-> c.spend_proof,
       revealed |-> [value_commit |-> c.revealed.value_commit, nullifier |-> c.revealed.nullifier,
                     merkle_root |-> c.revealed.merkle_root,
                     signature_public |-> c.revealed.signature_public],
       signature |-> [commit |-> c.signature.commit, response |-> c.signature.response]]
IsOutput(c) ==
  c = [mint_proof |-> c.mint_proof,
       revealed |-> [value_commit |-> c.revealed.value_commit, coin |-> c.revealed.coin],
       enc_note |-> [ciphertext |-> c.enc_note.ciphertext, ephem_public |-> c.enc_note.ephem_public]]

ClearParts(c) ==
  {c.value, c.valcom_blind, c.signature_public, c.signature.commit, c.signature.response}
InputParts(c) ==
  {c.spend_proof, c.revealed.value_commit, c.revealed.nullifier, c.revealed.merkle_root,
   c.revealed.signature_public, c.signature.commit, c.signature.response}
OutputParts(c) ==
  {c.mint_proof, c.revealed.value_commit, c.revealed.coin, c.enc_note.ciphertext, c.enc_note.ephem_public}

LEMMA SomeFields ==
  ASSUME NEW tx,
         tx = [clear_inputs |-> tx.clear_inputs, inputs |-> tx.inputs, outputs |-> tx.outputs],
         IsList(tx.clear_inputs), IsList(tx.inputs), IsList(tx.outputs),
         \A i \in DOMAIN tx.clear_inputs : IsClear(tx.clear_inputs[i]),
         \A i \in DOMAIN tx.inputs : IsInput(tx.inputs[i]),
         \A i \in DOMAIN tx.outputs : IsOutput(tx.outputs[i])
  PROVE  \E A : Nat \subseteq A /\ tx \in TransactionOf(A)
<1>1. PICK c, n, o : c = tx.clear_inputs /\ n = tx.inputs /\ o = tx.outputs
  OBVIOUS
<1>2. PICK A : A = Nat \cup (UNION {ClearParts(c[i]) : i \in DOMAIN c})
                       \cup (UNION {InputParts(n[i]) : i \in DOMAIN n})
                       \cup (UNION {OutputParts(o[i]) : i \in DOMAIN o})
  OBVIOUS
<1>3. /\ \A i \in DOMAIN c : ClearParts(c[i]) \subseteq A
      /\ \A i \in DOMAIN n : InputParts(n[i]) \subseteq A
      /\ \A i \in DOMAIN o : OutputParts(o[i]) \subseteq A
  BY ONLY <1>2
<1>4. c \in Seq(ClearOf(A))
  <2>1. \A x : IsClear(x) /\ ClearParts(x) \subseteq A => x \in ClearOf(A)
    BY DEF IsClear, ClearParts, ClearOf, SignatureOf
  <2>2. \A i \in DOMAIN c : c[i] \in ClearOf(A)
    BY <1>1, <1>3, <2>1
  <2>3. Len(c) \in Nat /\ c \in [1..Len(c) -> ClearOf(A)]
    BY <1>1, <2>2, ListIs
  <2> QED BY <2>3, FunctionIsSeq
<1>5. n \in Seq(InputOf(A))
  <2>1. \A x : IsInput(x) /\ InputParts(x) \subseteq A => x \in InputOf(A)
    BY DEF IsInput, InputParts, InputOf, SignatureOf
  <2>2. \A i \in DOMAIN n : n[i] \in InputOf(A)
    BY <1>1, <1>3, <2>1
  <2>3. Len(n) \in Nat /\ n \in [1..Len(n) -> InputOf(A)]
    BY <1>1, <2>2, ListIs
  <2> QED BY <2>3, FunctionIsSeq
<1>6. o \in Seq(OutputOf(A))
  <2>1. \A x : IsOutput(x) /\ OutputParts(x) \subseteq A => x \in OutputOf(A)
    BY DEF IsOutput, OutputParts, OutputOf
  <2>2. \A i \in DOMAIN o : o[i] \in OutputOf(A)
    BY <1>1, <1>3, <2>1
  <2>3. Len(o) \in Nat /\ o \in [1..Len(o) -> OutputOf(A)]
    BY <1>1, <2>2, ListIs
  <2> QED BY <2>3, FunctionIsSeq
<1>7. tx \in TransactionOf(A)
  BY <1>1, <1>4, <1>5, <1>6 DEF TransactionOf
<1>8. Nat \subseteq A
  BY ONLY <1>2
<1> QED BY <1>7, <1>8

\* What is built has its fields.
LEMMA OutputsAre ==
  ASSUME IInv
  PROVE  \A i \in DOMAIN partial.outputs : IsOutput(partial.outputs[i])
<1> TAKE i \in DOMAIN partial.outputs
<1>1. PICK o, r, e, note, public, k :
        /\ o = partial.outputs[i] /\ r = o.revealed /\ e = o.enc_note /\ note = Decrypted(e)
        /\ public = builder.outputs[i].public /\ k = e.ephem_public[2]
  OBVIOUS
<1>2. BuiltOutput(i)
  BY DEF IInv, Built
<1>3. /\ o = [mint_proof |-> CreateProof(MintOutputs(r)), revealed |-> r, enc_note |-> Encrypt(note, public, k)]
      /\ r = [value_commit |-> Commit(note.value, note.valcom_blind),
              coin |-> CoinOf(public, note.value, note.serial, note.coin_blind)]
  BY <1>1, <1>2 DEF BuiltOutput
<1>4. e = Encrypt(note, public, k)
  <2>1. PICK x : x = Encrypt(note, public, k)
    OBVIOUS
  <2>2. o = [mint_proof |-> CreateProof(MintOutputs(r)), revealed |-> r, enc_note |-> x]
    BY <1>3, <2>1, Zenon
  <2>3. o.enc_note = x
    BY ONLY <2>2
  <2> QED BY <1>1, <2>1, <2>3
<1>5. e = [ciphertext |-> e.ciphertext, ephem_public |-> e.ephem_public]
  BY <1>4 DEF Encrypt
<1>6. r = [value_commit |-> r.value_commit, coin |-> r.coin]
  BY <1>3
<1>7. o = [mint_proof |-> o.mint_proof, revealed |-> r, enc_note |-> e]
  BY <1>3, <1>4
<1> QED BY <1>1, <1>5, <1>6, <1>7 DEF IsOutput

LEMMA SignAndEncodeStep == IInv /\ SignAndEncode => IInv'
<1> SUFFICES ASSUME IInv, SignAndEncode PROVE IInv'
  OBVIOUS
<1>1. PICK message, clear, c, n :
        /\ message = EncodePartial(partial) /\ clear = Len(partial.clear_inputs)
        /\ c = [i \in DOMAIN partial.clear_inputs |->
                 [value |-> partial.clear_inputs[i].value,
                  valcom_blind |-> partial.clear_inputs[i].valcom_blind,
                  signature_public |-> partial.clear_inputs[i].signature_public,
                  signature |-> Sign(builder.clear_inputs[i].secret, message, drawn + i)]]
        /\ n = [i \in DOMAIN partial.inputs |->
                 [spend_proof |-> partial.inputs[i].spend_proof, revealed |-> partial.inputs[i].revealed,
                  signature |-> Sign(signature_secrets[i], message, drawn + clear + i)]]
  OBVIOUS
<1>2. PICK tx : tx = [clear_inputs |-> c, inputs |-> n, outputs |-> partial.outputs]
  OBVIOUS
<1>3. /\ data' = Encode(tx) /\ stage' = "sent" /\ drawn' = drawn + clear + Len(partial.inputs)
      /\ UNCHANGED <<builder, partial, output_blinds, signature_secrets, notes>>
      /\ Len(partial.clear_inputs) = Len(builder.clear_inputs)
      /\ Len(partial.inputs) = Len(builder.inputs) /\ Len(partial.outputs) = Len(builder.outputs)
  BY <1>1, <1>2 DEF SignAndEncode, ledger
<1>4. /\ clear \in Nat /\ DOMAIN c = 1..clear /\ IsList(c) /\ Len(c) = clear
      /\ Len(partial.inputs) \in Nat /\ DOMAIN n = 1..Len(partial.inputs) /\ IsList(n)
      /\ Len(n) = Len(partial.inputs) /\ IsList(partial.outputs)
      /\ DOMAIN partial.clear_inputs = 1..clear /\ DOMAIN partial.inputs = 1..Len(partial.inputs)
  <2>1. clear \in Nat /\ DOMAIN partial.clear_inputs = 1..clear
    BY <1>1, SeqIsList DEF IInv, TypeOK
  <2>2. Len(partial.inputs) \in Nat /\ DOMAIN partial.inputs = 1..Len(partial.inputs) /\ IsList(partial.outputs)
    BY ListIs DEF IInv, TypeOK
  <2>3. c = [i \in 1..clear |-> c[i]] /\ n = [i \in 1..Len(partial.inputs) |-> n[i]]
    BY <1>1, <2>1, <2>2
  <2> QED BY <2>1, <2>2, <2>3, IsAList
<1>5. \A s, m, k : /\ Sign(s, m, k) = [commit |-> Sign(s, m, k).commit, response |-> Sign(s, m, k).response]
                   /\ Sign(s, m, k).response.mask = k
  BY DEF Sign
<1>6. ASSUME NEW i \in DOMAIN c
      PROVE  /\ IsClear(c[i])
             /\ c[i] = [value |-> partial.clear_inputs[i].value,
                        valcom_blind |-> partial.clear_inputs[i].valcom_blind,
                        signature_public |-> partial.clear_inputs[i].signature_public,
                        signature |-> Sign(builder.clear_inputs[i].secret, message,
                                           c[i].signature.response.mask)]
  <2>1. PICK s : s = Sign(builder.clear_inputs[i].secret, message, drawn + i)
    OBVIOUS
  <2>2. c[i] = [value |-> partial.clear_inputs[i].value,
                valcom_blind |-> partial.clear_inputs[i].valcom_blind,
                signature_public |-> partial.clear_inputs[i].signature_public, signature |-> s]
    BY <1>1, <2>1
  <2>3. s = [commit |-> s.commit, response |-> s.response] /\ s.response.mask = drawn + i
    BY <1>5, <2>1
  <2>4. c[i].signature = s
    BY <2>2
  <2> QED BY <2>1, <2>2, <2>3, <2>4 DEF IsClear
<1>7. ASSUME NEW i \in DOMAIN n
      PROVE  /\ IsInput(n[i])
             /\ n[i] = [spend_proof |-> partial.inputs[i].spend_proof, revealed |-> partial.inputs[i].revealed,
                        signature |-> Sign(signature_secrets[i], message, n[i].signature.response.mask)]
  <2>1. PICK s, r : s = Sign(signature_secrets[i], message, drawn + clear + i) /\ r = partial.inputs[i].revealed
    OBVIOUS
  <2>2. n[i] = [spend_proof |-> partial.inputs[i].spend_proof, revealed |-> r, signature |-> s]
    BY <1>1, <2>1
  <2>3. s = [commit |-> s.commit, response |-> s.response] /\ s.response.mask = drawn + clear + i
    BY <1>5, <2>1
  <2>4. r = [value_commit |-> r.value_commit, nullifier |-> r.nullifier,
             merkle_root |-> r.merkle_root, signature_public |-> r.signature_public]
    <3>1. BuiltInput(i)
      BY <1>4 DEF IInv, Built
    <3> QED BY <2>1, <3>1 DEF BuiltInput
  <2>5. n[i].signature = s /\ n[i].revealed = r /\ n[i].spend_proof = partial.inputs[i].spend_proof
    BY <2>2
  <2> QED BY <2>1, <2>2, <2>3, <2>4, <2>5 DEF IsInput
<1>8. Decode(data') = tx
  <2>1. tx.clear_inputs = c /\ tx.inputs = n /\ tx.outputs = partial.outputs
    BY <1>2
  <2>2. \A i \in DOMAIN tx.outputs : IsOutput(tx.outputs[i])
    BY <2>1, OutputsAre
  <2>3. tx = [clear_inputs |-> tx.clear_inputs, inputs |-> tx.inputs, outputs |-> tx.outputs]
    BY <1>2, <2>1
  <2>4. \E A : Nat \subseteq A /\ tx \in TransactionOf(A)
    BY <1>4, <1>6, <1>7, <2>1, <2>2, <2>3, SomeFields
  <2> QED BY <1>3, <2>4, TransactionRoundTrip
<1>9. Complete'
  <2>1. Signed(tx)'
    <3>1. /\ tx.clear_inputs = c /\ tx.inputs = n
          /\ tx = [clear_inputs |-> tx.clear_inputs, inputs |-> tx.inputs, outputs |-> partial.outputs]
      BY <1>2
    <3>2. /\ IsList(tx.clear_inputs) /\ Len(tx.clear_inputs) = Len(partial.clear_inputs)
          /\ IsList(tx.inputs) /\ Len(tx.inputs) = Len(partial.inputs)
      BY <1>1, <1>4, <3>1
    <3>3. ASSUME NEW i \in DOMAIN tx.clear_inputs
          PROVE  tx.clear_inputs[i]
                   = [value |-> partial.clear_inputs[i].value,
                      valcom_blind |-> partial.clear_inputs[i].valcom_blind,
                      signature_public |-> partial.clear_inputs[i].signature_public,
                      signature |-> Sign(builder.clear_inputs[i].secret, EncodePartial(partial),
                                         tx.clear_inputs[i].signature.response.mask)]
      BY <1>1, <1>6, <3>1
    <3>4. ASSUME NEW i \in DOMAIN tx.inputs
          PROVE  tx.inputs[i]
                   = [spend_proof |-> partial.inputs[i].spend_proof, revealed |-> partial.inputs[i].revealed,
                      signature |-> Sign(signature_secrets[i], EncodePartial(partial),
                                         tx.inputs[i].signature.response.mask)]
      BY <1>1, <1>7, <3>1
    <3>5. Signed(tx)
      BY <3>1, <3>2, <3>3, <3>4, Zenon DEF Signed
    <3> QED BY <1>3, <3>5 DEF Signed
  <2> QED BY <1>3, <1>8, <2>1 DEF Complete
<1>10. TypeOK'
  <2>1. drawn' \in Nat
    BY <1>3, <1>4 DEF IInv, TypeOK
  <2> QED BY <1>3, <2>1 DEF IInv, TypeOK
<1>11. Built'
  BY <1>3 DEF IInv, Built, BuiltClear, BuiltInput, BuiltOutput
<1>12. Remainder'
  BY <1>3 DEF IInv, Remainder, RemainderBlind
<1> QED BY <1>9, <1>10, <1>11, <1>12 DEF IInv

LEMMA AcceptStep == IInv /\ Accept => IInv'
<1> SUFFICES ASSUME IInv, Accept PROVE IInv'
  OBVIOUS
<1>1. PICK tx : /\ tx = Decode(data)
                /\ notes' = [w \in Wallets |-> notes[w] \cup Found(tx, w)]
  BY DEF Accept
<1>2. /\ stage = "sent" /\ stage' = "idle"
      /\ UNCHANGED <<builder, partial, output_blinds, signature_secrets, drawn>>
  BY DEF Accept
<1>3. tx.outputs = partial.outputs
  <2>1. Signed(tx)
    BY <1>1, <1>2 DEF IInv, Complete
  <2> QED BY <2>1 DEF Signed
<1>4. \A i \in DOMAIN tx.outputs : Decrypted(tx.outputs[i].enc_note) \in Note
  BY <1>3 DEF IInv, Built, BuiltOutput
<1>5. \A w \in Wallets : \A n \in notes'[w] : n.note \in Note
  BY <1>1, <1>4 DEF IInv, TypeOK, Found
<1>6. TypeOK'
  BY <1>2, <1>5 DEF IInv, TypeOK
<1>7. Built'
  BY <1>2 DEF IInv, Built, BuiltClear, BuiltInput, BuiltOutput
<1>8. Remainder' /\ Complete'
  BY <1>2 DEF IInv, Remainder, RemainderBlind, Complete
<1> QED BY <1>6, <1>7, <1>8 DEF IInv

\* The payment is left as it is.
PaymentVars == <<builder, partial, output_blinds, signature_secrets, data, drawn, notes>>

LEMMA OtherSteps ==
  IInv /\ UNCHANGED PaymentVars /\ (stage' = stage \/ stage' = "stopped") => IInv'
<1> SUFFICES ASSUME IInv, UNCHANGED PaymentVars, stage' = stage \/ stage' = "stopped" PROVE IInv'
  OBVIOUS
<1>1. TypeOK'
  BY DEF IInv, TypeOK, PaymentVars
<1>2. Built'
  BY DEF IInv, Built, BuiltClear, BuiltInput, BuiltOutput, PaymentVars
<1>3. Remainder'
  BY DEF IInv, Remainder, RemainderBlind, PaymentVars
<1>4. Complete'
  BY DEF IInv, Complete, Signed, PaymentVars
<1> QED BY <1>1, <1>2, <1>3, <1>4 DEF IInv

(* Whatever is drawn, every proof and note of the payment is made for what *)
(* its output or input says, the blinds of a finished one cancel out, and  *)
(* what is sent decodes to it with its signatures.                         *)
THEOREM InductiveInvariant == Spec => []IInv
<1>1. ASSUME IInv, [Next]_vars PROVE IInv'
  <2>1. CASE Begin             BY <1>1, <2>1, BeginStep
  <2>2. CASE BuildClearInput   BY <1>1, <2>2, BuildClearInputStep
  <2>3. CASE BuildInput        BY <1>1, <2>3, BuildInputStep
  <2>4. CASE BuildOutput       BY <1>1, <2>4, BuildOutputStep
  <2>5. CASE SignAndEncode     BY <1>1, <2>5, SignAndEncodeStep
  <2>6. CASE Accept            BY <1>1, <2>6, AcceptStep
  <2>7. CASE Refuse            BY <1>1, <2>7, OtherSteps DEF Refuse, PaymentVars, ledger
  <2>8. CASE FakeCoin          BY <1>1, <2>8, OtherSteps DEF FakeCoin, PaymentVars
  <2>9. CASE FakeRefused       BY <1>1, <2>9, OtherSteps DEF FakeRefused, PaymentVars
  <2>10. CASE UNCHANGED vars   BY <1>1, <2>10, OtherSteps DEF vars, PaymentVars, ledger
  <2> QED BY <1>1, <2>1, <2>2, <2>3, <2>4, <2>5, <2>6, <2>7, <2>8, <2>9, <2>10 DEF Next
<1> QED BY <1>1, InitIInv, PTL DEF Spec

----------------------------------------------------------------------------
(* What verifies.                                                          *)

\* What is sent is what was built, with signatures.
LEMMA SentIs ==
  ASSUME IInv, stage = "sent", NEW tx, tx = Decode(data)
  PROVE  /\ Signed(tx)
         /\ DOMAIN tx.clear_inputs = 1..Len(builder.clear_inputs) /\ Len(builder.clear_inputs) \in Nat
         /\ DOMAIN builder.clear_inputs = 1..Len(builder.clear_inputs)
         /\ DOMAIN partial.clear_inputs = 1..Len(builder.clear_inputs)
         /\ DOMAIN tx.inputs = 1..Len(builder.inputs) /\ Len(builder.inputs) \in Nat
         /\ DOMAIN builder.inputs = 1..Len(builder.inputs)
         /\ DOMAIN partial.inputs = 1..Len(builder.inputs)
         /\ tx.outputs = partial.outputs
         /\ DOMAIN partial.outputs = 1..Len(builder.outputs) /\ Len(builder.outputs) \in Nat
         /\ DOMAIN builder.outputs = 1..Len(builder.outputs)
         /\ DOMAIN output_blinds = 1..Len(builder.outputs)
<1>1. /\ Signed(tx) /\ Len(partial.clear_inputs) = Len(builder.clear_inputs)
      /\ Len(partial.inputs) = Len(builder.inputs) /\ Len(partial.outputs) = Len(builder.outputs)
      /\ Len(output_blinds) = Len(partial.outputs)
  BY DEF IInv, Complete, Built
<1>2. /\ IsList(tx.clear_inputs) /\ IsList(tx.inputs) /\ tx.outputs = partial.outputs
      /\ Len(tx.clear_inputs) = Len(partial.clear_inputs) /\ Len(tx.inputs) = Len(partial.inputs)
  BY <1>1 DEF Signed
<1>3. /\ IsList(builder.clear_inputs) /\ IsList(builder.inputs) /\ IsList(builder.outputs)
      /\ IsList(partial.clear_inputs) /\ IsList(partial.inputs) /\ IsList(partial.outputs)
      /\ IsList(output_blinds)
  BY SeqIsList DEF IInv, TypeOK
<1> QED BY <1>1, <1>2, <1>3, ListIs

LEMMA SignedParts ==
  ASSUME NEW tx, Signed(tx)
  PROVE  /\ \A i \in DOMAIN tx.clear_inputs :
              /\ tx.clear_inputs[i].value = partial.clear_inputs[i].value
              /\ tx.clear_inputs[i].valcom_blind = partial.clear_inputs[i].valcom_blind
              /\ tx.clear_inputs[i].signature_public = partial.clear_inputs[i].signature_public
              /\ tx.clear_inputs[i].signature
                   = Sign(builder.clear_inputs[i].secret, EncodePartial(partial),
                          tx.clear_inputs[i].signature.response.mask)
         /\ \A i \in DOMAIN tx.inputs :
              /\ tx.inputs[i].spend_proof = partial.inputs[i].spend_proof
              /\ tx.inputs[i].revealed = partial.inputs[i].revealed
              /\ tx.inputs[i].signature = Sign(signature_secrets[i], EncodePartial(partial),
                                               tx.inputs[i].signature.response.mask)
<1>1. ASSUME NEW i \in DOMAIN tx.clear_inputs
      PROVE  /\ tx.clear_inputs[i].value = partial.clear_inputs[i].value
             /\ tx.clear_inputs[i].valcom_blind = partial.clear_inputs[i].valcom_blind
             /\ tx.clear_inputs[i].signature_public = partial.clear_inputs[i].signature_public
             /\ tx.clear_inputs[i].signature
                  = Sign(builder.clear_inputs[i].secret, EncodePartial(partial),
                         tx.clear_inputs[i].signature.response.mask)
  <2>1. PICK c, p, s : c = tx.clear_inputs[i] /\ p = partial.clear_inputs[i]
                       /\ s = Sign(builder.clear_inputs[i].secret, EncodePartial(partial), c.signature.response.mask)
    OBVIOUS
  <2>2. c = [value |-> p.value, valcom_blind |-> p.valcom_blind, signature_public |-> p.signature_public,
             signature |-> s]
    BY <2>1, Zenon DEF Signed
  <2>3. /\ c.value = p.value /\ c.valcom_blind = p.valcom_blind
        /\ c.signature_public = p.signature_public /\ c.signature = s
    BY ONLY <2>2
  <2> QED BY <2>1, <2>3, Zenon
<1>2. ASSUME NEW i \in DOMAIN tx.inputs
      PROVE  /\ tx.inputs[i].spend_proof = partial.inputs[i].spend_proof
             /\ tx.inputs[i].revealed = partial.inputs[i].revealed
             /\ tx.inputs[i].signature = Sign(signature_secrets[i], EncodePartial(partial),
                                              tx.inputs[i].signature.response.mask)
  <2>1. PICK c, p, s : c = tx.inputs[i] /\ p = partial.inputs[i]
                       /\ s = Sign(signature_secrets[i], EncodePartial(partial), c.signature.response.mask)
    OBVIOUS
  <2>2. c = [spend_proof |-> p.spend_proof, revealed |-> p.revealed, signature |-> s]
    BY <2>1, Zenon DEF Signed
  <2>3. c.spend_proof = p.spend_proof /\ c.revealed = p.revealed /\ c.signature = s
    BY ONLY <2>2
  <2> QED BY <2>1, <2>3, Zenon
<1> QED BY <1>1, <1>2, Zenon

\* The signatures are over what is sent without them.
LEMMA MessageIs ==
  ASSUME IInv, stage = "sent", NEW tx, tx = Decode(data)
  PROVE  EncodeWithoutSignature(tx) = EncodePartial(partial)
<1>1. PICK c, n, pc, pn : /\ c = tx.clear_inputs /\ n = tx.inputs
                          /\ pc = partial.clear_inputs /\ pn = partial.inputs
  OBVIOUS
<1>2. UnsignedClears(c) = UnsignedClears(pc)
  <2>1. DOMAIN c = DOMAIN pc
    BY <1>1, SentIs
  <2>2. \A i \in DOMAIN c : /\ c[i].value = pc[i].value /\ c[i].valcom_blind = pc[i].valcom_blind
                            /\ c[i].signature_public = pc[i].signature_public
    BY <1>1, SentIs, SignedParts
  <2>3. \A i \in DOMAIN c : UnsignedClearFields(c[i]) = UnsignedClearFields(pc[i])
    BY <2>2 DEF UnsignedClearFields
  <2>4. [i \in DOMAIN c |-> UnsignedClearFields(c[i])] = [i \in DOMAIN pc |-> UnsignedClearFields(pc[i])]
    BY <2>1, <2>3
  <2> QED BY <2>4 DEF UnsignedClears
<1>3. UnsignedInputs(n) = UnsignedInputs(pn)
  <2>1. DOMAIN n = DOMAIN pn
    BY <1>1, SentIs
  <2>2. \A i \in DOMAIN n : n[i].spend_proof = pn[i].spend_proof /\ n[i].revealed = pn[i].revealed
    BY <1>1, SentIs, SignedParts
  <2>3. \A i \in DOMAIN n : UnsignedInputFields(n[i]) = UnsignedInputFields(pn[i])
    BY <2>2 DEF UnsignedInputFields
  <2>4. [i \in DOMAIN n |-> UnsignedInputFields(n[i])] = [i \in DOMAIN pn |-> UnsignedInputFields(pn[i])]
    BY <2>1, <2>3
  <2> QED BY <2>4 DEF UnsignedInputs
<1>4. tx.outputs = partial.outputs
  BY SentIs
<1> QED BY <1>1, <1>2, <1>3, <1>4 DEF EncodeWithoutSignature, EncodePartial

\* All proofs and signatures of what is sent are good.
LEMMA PartsVerify ==
  ASSUME IInv, stage = "sent", NEW tx, tx = Decode(data)
  PROVE  /\ \A i \in DOMAIN tx.inputs :
              /\ SpendVerifies(tx.inputs[i])
              /\ VerifySignature(tx.inputs[i].revealed.signature_public, EncodePartial(partial),
                                 tx.inputs[i].signature)
         /\ \A i \in DOMAIN tx.outputs : MintVerifies(tx.outputs[i])
         /\ \A i \in DOMAIN tx.clear_inputs :
              VerifySignature(tx.clear_inputs[i].signature_public, EncodePartial(partial),
                              tx.clear_inputs[i].signature)
<1>1. ASSUME NEW i \in DOMAIN tx.inputs
      PROVE  /\ SpendVerifies(tx.inputs[i])
             /\ VerifySignature(tx.inputs[i].revealed.signature_public, EncodePartial(partial),
                                tx.inputs[i].signature)
  <2>1. PICK c, p, r, m : c = tx.inputs[i] /\ p = partial.inputs[i] /\ r = p.revealed
                          /\ m = c.signature.response.mask
    OBVIOUS
  <2>2. /\ c.spend_proof = p.spend_proof /\ c.revealed = r
        /\ c.signature = Sign(signature_secrets[i], EncodePartial(partial), m)
    BY <2>1, SentIs, SignedParts
  <2>3. BuiltInput(i)
    BY SentIs DEF IInv, Built
  <2>4. p.spend_proof = CreateProof(SpendOutputs(r)) /\ r.signature_public = Public(signature_secrets[i])
    <3>1. PICK pr, pub : pr = CreateProof(SpendOutputs(r)) /\ pub = Public(signature_secrets[i])
      OBVIOUS
    <3>2. /\ p = [spend_proof |-> pr, revealed |-> r]
          /\ r = [value_commit |-> Commit(builder.inputs[i].note.value, builder.inputs[i].note.valcom_blind),
                  nullifier |-> r.nullifier, merkle_root |-> r.merkle_root, signature_public |-> pub]
      BY <2>1, <2>3, <3>1 DEF BuiltInput
    <3> QED BY <3>1, <3>2
  <2> QED BY <2>1, <2>2, <2>4, SignatureVerifies DEF SpendVerifies, VerifyProof, CreateProof
<1>2. ASSUME NEW i \in DOMAIN tx.outputs PROVE MintVerifies(tx.outputs[i])
  <2>1. PICK o, r, pr : o = tx.outputs[i] /\ r = o.revealed /\ pr = CreateProof(MintOutputs(r))
    OBVIOUS
  <2>2. o = partial.outputs[i] /\ BuiltOutput(i)
    BY <2>1, SentIs DEF IInv, Built
  <2>3. o.mint_proof = pr
    BY <2>1, <2>2 DEF BuiltOutput
  <2> QED BY <2>1, <2>3 DEF MintVerifies, VerifyProof, CreateProof
<1>3. ASSUME NEW i \in DOMAIN tx.clear_inputs
      PROVE  VerifySignature(tx.clear_inputs[i].signature_public, EncodePartial(partial),
                             tx.clear_inputs[i].signature)
  <2>1. PICK c, m, s : c = tx.clear_inputs[i] /\ m = c.signature.response.mask
                       /\ s = builder.clear_inputs[i].secret
    OBVIOUS
  <2>2. /\ c.signature_public = partial.clear_inputs[i].signature_public
        /\ c.signature = Sign(s, EncodePartial(partial), m)
    BY <2>1, SentIs, SignedParts
  <2>3. BuiltClear(i)
    BY SentIs DEF IInv, Built
  <2> QED BY <2>1, <2>2, <2>3, SignatureVerifies DEF BuiltClear
<1> QED BY <1>1, <1>2, <1>3

\* A list of commitments, its values and its blinds.
Opens(n, s, v, w) ==
  /\ s = [i \in 1..n |-> s[i]] /\ v = [i \in 1..n |-> v[i]] /\ w = [i \in 1..n |-> w[i]]
  /\ \A i \in 1..n : v[i] \in Int /\ w[i] \in Scalars /\ s[i] = Commit(v[i], w[i])

LEMMA CommitsOf ==
  ASSUME NEW n \in Nat, NEW s, NEW v, NEW w, Opens(n, s, v, w)
  PROVE  /\ s \in Seq(Points) /\ Of(s, "value") = v /\ Of(s, "blind") = w
         /\ Total(v) \in Int /\ Total(w) \in Int
<1>0. /\ s = [i \in 1..n |-> s[i]] /\ v = [i \in 1..n |-> v[i]] /\ w = [i \in 1..n |-> w[i]]
      /\ \A i \in 1..n : v[i] \in Int /\ w[i] \in Scalars /\ s[i] = Commit(v[i], w[i])
  BY DEF Opens
<1>5. DOMAIN s = 1..n
  BY <1>0
<1>1. \A i \in 1..n : s[i] \in Points /\ s[i].value = v[i] /\ s[i].blind = w[i]
  <2> TAKE i \in 1..n
  <2>1. PICK a, b : a = v[i] /\ b = w[i]
    OBVIOUS
  <2>2. a \in Int /\ b \in Scalars /\ b \in Int /\ s[i] = Commit(a, b)
    BY <1>0, <2>1, OrderAssumption DEF Scalars
  <2>3. b % Order = b
    BY <2>2, ScalarIs
  <2> QED BY <2>1, <2>2, <2>3, CommitType
<1>2. s \in [1..n -> Points] /\ v \in [1..n -> Int] /\ w \in [1..n -> Int]
  <2>1. Scalars \subseteq Int
    BY OrderAssumption DEF Scalars
  <2> QED BY <1>0, <1>1, <2>1
<1>3. s \in Seq(Points) /\ v \in Seq(Int) /\ w \in Seq(Int)
  BY <1>2, FunctionIsSeq
<1>4. Of(s, "value") = v /\ Of(s, "blind") = w
  <2>1. Of(s, "value") = [i \in 1..n |-> s[i].value] /\ Of(s, "blind") = [i \in 1..n |-> s[i].blind]
    BY <1>5 DEF Of
  <2> QED BY <1>0, <1>1, <2>1
<1> QED BY <1>3, <1>4, TotalType

\* The three sums of values.
NoteValues == [i \in DOMAIN builder.inputs |-> builder.inputs[i].note.value]

LEMMA ClearTotals ==
  ASSUME IInv, stage = "sent", NEW tx, tx = Decode(data)
  PROVE  LET s == ClearCommits(tx.clear_inputs) IN
         /\ s \in Seq(Points) /\ Of(s, "value") = Values(builder.clear_inputs) /\ Of(s, "blind") = ClearBlinds
         /\ Total(Values(builder.clear_inputs)) \in Int
<1>1. PICK n, s, v, w, c : /\ n = Len(builder.clear_inputs) /\ s = ClearCommits(c) /\ c = tx.clear_inputs
                           /\ v = Values(builder.clear_inputs) /\ w = ClearBlinds
  OBVIOUS
<1>2. n \in Nat /\ DOMAIN c = 1..n /\ DOMAIN builder.clear_inputs = 1..n /\ DOMAIN partial.clear_inputs = 1..n
  BY <1>1, SentIs
<1>3. /\ s = [i \in 1..n |-> Commit(c[i].value, c[i].valcom_blind)]
      /\ v = [i \in 1..n |-> builder.clear_inputs[i].value]
      /\ w = [i \in 1..n |-> partial.clear_inputs[i].valcom_blind]
  BY <1>1, <1>2 DEF ClearCommits, Values, ClearBlinds
<1>4. ASSUME NEW i \in 1..n PROVE v[i] \in Int /\ w[i] \in Scalars /\ s[i] = Commit(v[i], w[i])
  <2>1. c[i].value = partial.clear_inputs[i].value /\ c[i].valcom_blind = partial.clear_inputs[i].valcom_blind
    BY <1>1, <1>2, SentIs, SignedParts
  <2>2. partial.clear_inputs[i].value = builder.clear_inputs[i].value
    BY <1>2 DEF IInv, Built, BuiltClear
  <2>3. PICK R : R = [value : Amounts, valcom_blind : Scalars, signature_public : {Public(Cashier)}]
    OBVIOUS
  <2>4. PICK p : p = partial.clear_inputs
    OBVIOUS
  <2>5. p \in Seq(R) /\ i \in DOMAIN p
    BY <1>2, <2>3, <2>4 DEF IInv, TypeOK
  <2>6. p[i] \in R
    <3>1. Len(p) \in Nat /\ DOMAIN p = 1..Len(p)
      BY <2>5, SeqIsList
    <3> QED BY ONLY <2>5, <3>1
  <2>7. p[i].value \in Int /\ p[i].valcom_blind \in Scalars
    <3>1. \A q \in R : q.value \in Amounts /\ q.valcom_blind \in Scalars
      BY ONLY <2>3
    <3>2. Amounts \subseteq Int
      BY AmountAssumption
    <3> QED BY <2>6, <3>1, <3>2
  <2> QED BY <1>3, <2>1, <2>2, <2>4, <2>7
<1>5. Opens(n, s, v, w)
  <2>1. s = [i \in 1..n |-> s[i]] /\ v = [i \in 1..n |-> v[i]] /\ w = [i \in 1..n |-> w[i]]
    BY <1>3
  <2> QED BY <1>4, <2>1 DEF Opens
<1>6. s \in Seq(Points) /\ Of(s, "value") = v /\ Of(s, "blind") = w /\ Total(v) \in Int
  BY <1>2, <1>5, CommitsOf
<1> QED BY <1>1, <1>6

LEMMA InputTotals ==
  ASSUME IInv, stage = "sent", NEW tx, tx = Decode(data)
  PROVE  LET s == Commits(tx.inputs) IN
         /\ s \in Seq(Points) /\ Of(s, "value") = NoteValues /\ Of(s, "blind") = InputBlinds
         /\ Total(NoteValues) \in Int
<1>1. PICK n, s, v, w, c : /\ n = Len(builder.inputs) /\ s = Commits(c) /\ c = tx.inputs
                           /\ v = NoteValues /\ w = InputBlinds
  OBVIOUS
<1>2. n \in Nat /\ DOMAIN c = 1..n /\ DOMAIN builder.inputs = 1..n /\ DOMAIN partial.inputs = 1..n
  BY <1>1, SentIs
<1>3. /\ s = [i \in 1..n |-> c[i].revealed.value_commit]
      /\ v = [i \in 1..n |-> builder.inputs[i].note.value]
      /\ w = [i \in 1..n |-> builder.inputs[i].note.valcom_blind]
  BY <1>1, <1>2 DEF Commits, NoteValues, InputBlinds
<1>4. ASSUME NEW i \in 1..n PROVE v[i] \in Int /\ w[i] \in Scalars /\ s[i] = Commit(v[i], w[i])
  <2>1. PICK r, note, m : /\ r = partial.inputs[i].revealed /\ note = builder.inputs[i].note
                          /\ m = Commit(note.value, note.valcom_blind)
    OBVIOUS
  <2>2. c[i].revealed = r
    BY <1>1, <1>2, <2>1, SentIs, SignedParts
  <2>3. BuiltInput(i)
    BY <1>2 DEF IInv, Built
  <2>4. r = [value_commit |-> m, nullifier |-> r.nullifier, merkle_root |-> r.merkle_root,
             signature_public |-> Public(signature_secrets[i])]
    BY <2>1, <2>3 DEF BuiltInput
  <2>5. r.value_commit = m
    BY ONLY <2>4
  <2>6. note \in Note
    BY <1>2, <2>1 DEF IInv, TypeOK
  <2>7. note.value \in Int /\ note.valcom_blind \in Scalars
    BY <2>6, NoteNumbers
  <2> QED BY <1>3, <2>1, <2>2, <2>5, <2>7
<1>5. Opens(n, s, v, w)
  <2>1. s = [i \in 1..n |-> s[i]] /\ v = [i \in 1..n |-> v[i]] /\ w = [i \in 1..n |-> w[i]]
    BY <1>3
  <2> QED BY <1>4, <2>1 DEF Opens
<1>6. s \in Seq(Points) /\ Of(s, "value") = v /\ Of(s, "blind") = w /\ Total(v) \in Int
  BY <1>2, <1>5, CommitsOf
<1> QED BY <1>1, <1>6

LEMMA OutputTotals ==
  ASSUME IInv, stage = "sent", NEW tx, tx = Decode(data)
  PROVE  LET s == Commits(tx.outputs) IN
         /\ s \in Seq(Points) /\ Of(s, "value") = Values(builder.outputs) /\ Of(s, "blind") = output_blinds
         /\ Total(Values(builder.outputs)) \in Int
<1>1. PICK n, s, v, w, c : /\ n = Len(builder.outputs) /\ s = Commits(c) /\ c = tx.outputs
                           /\ v = Values(builder.outputs) /\ w = output_blinds
  OBVIOUS
<1>2. /\ n \in Nat /\ c = partial.outputs /\ DOMAIN c = 1..n /\ DOMAIN builder.outputs = 1..n
      /\ DOMAIN output_blinds = 1..n
  BY <1>1, SentIs
<1>3. /\ s = [i \in 1..n |-> c[i].revealed.value_commit]
      /\ v = [i \in 1..n |-> builder.outputs[i].value]
      /\ w = [i \in 1..n |-> output_blinds[i]]
  <2>1. output_blinds = [i \in DOMAIN output_blinds |-> output_blinds[i]]
    BY SeqIsList, ListIs DEF IInv, TypeOK
  <2> QED BY <1>1, <1>2, <2>1 DEF Commits, Values
<1>4. ASSUME NEW i \in 1..n PROVE v[i] \in Int /\ w[i] \in Scalars /\ s[i] = Commit(v[i], w[i])
  <2>1. PICK r, note, m : /\ r = c[i].revealed /\ note = Decrypted(c[i].enc_note)
                          /\ m = Commit(note.value, note.valcom_blind)
    OBVIOUS
  <2>2. BuiltOutput(i)
    BY <1>2 DEF IInv, Built
  <2>3. /\ note \in Note /\ note.value = builder.outputs[i].value /\ note.valcom_blind = output_blinds[i]
        /\ r = [value_commit |-> m, coin |-> CoinOf(builder.outputs[i].public, note.value, note.serial, note.coin_blind)]
    BY <1>2, <2>1, <2>2 DEF BuiltOutput
  <2>4. r.value_commit = m
    BY ONLY <2>3
  <2>5. note.value \in Int /\ note.valcom_blind \in Scalars
    BY <2>3, NoteNumbers
  <2> QED BY <1>3, <2>1, <2>3, <2>4, <2>5
<1>5. Opens(n, s, v, w)
  <2>1. s = [i \in 1..n |-> s[i]] /\ v = [i \in 1..n |-> v[i]] /\ w = [i \in 1..n |-> w[i]]
    BY <1>3
  <2> QED BY <1>4, <2>1 DEF Opens
<1>6. s \in Seq(Points) /\ Of(s, "value") = v /\ Of(s, "blind") = w /\ Total(v) \in Int
  BY <1>2, <1>5, CommitsOf
<1> QED BY <1>1, <1>6

\* The commitments add up to the difference of the values, blinded by what is left.
LEMMA CommitTotalIs ==
  ASSUME IInv, stage = "sent", NEW tx, tx = Decode(data)
  PROVE  /\ CommitTotal(tx) = [value |-> ValueIn - ValueOut, blind |-> RemainderBlind]
         /\ ValueIn \in Int /\ ValueOut \in Int
<1>1. PICK v1, v2, v3, b1, b2, b3 :
        /\ v1 = Total(Values(builder.clear_inputs)) /\ v2 = Total(NoteValues)
        /\ v3 = Total(Values(builder.outputs))
        /\ b1 = Total(ClearBlinds) /\ b2 = Total(InputBlinds) /\ b3 = Total(output_blinds)
  OBVIOUS
<1>2. /\ v1 \in Int /\ v2 \in Int /\ v3 \in Int /\ b1 \in Int /\ b2 \in Int /\ b3 \in Int
  BY <1>1, ClearTotals, InputTotals, OutputTotals, BlindsType
<1>3. PICK s1, s2, s3, r1, r2, r3 :
        /\ s1 = ClearCommits(tx.clear_inputs) /\ s2 = Commits(tx.inputs) /\ s3 = Commits(tx.outputs)
        /\ r1 = FoldLeft(Plus, Identity, s1) /\ r2 = FoldLeft(Plus, r1, s2) /\ r3 = FoldLeft(Minus, r2, s3)
  OBVIOUS
<1>4. r3 = CommitTotal(tx)
  BY <1>3 DEF CommitTotal
<1>5. /\ s1 \in Seq(Points) /\ Total(Of(s1, "value")) = v1 /\ Total(Of(s1, "blind")) = b1
      /\ s2 \in Seq(Points) /\ Total(Of(s2, "value")) = v2 /\ Total(Of(s2, "blind")) = b2
      /\ s3 \in Seq(Points) /\ Total(Of(s3, "value")) = v3 /\ Total(Of(s3, "blind")) = b3
  BY <1>1, <1>3, ClearTotals, InputTotals, OutputTotals
<1>6. Identity \in Points /\ Identity.value = 0 /\ Identity.blind = 0
  <2>1. 0 \in Scalars
    BY OrderAssumption DEF Scalars
  <2> QED BY <2>1, ScalarIs, CommitType DEF Identity
<1>7. r1 \in Points /\ r1 = Commit(v1, b1)
  <2>1. r1 \in Points /\ r1 = Commit(Identity.value + v1, Identity.blind + b1)
    BY <1>3, <1>5, <1>6, PlusResult
  <2>2. Identity.value + v1 = v1 /\ Identity.blind + b1 = b1
    BY <1>2, <1>6
  <2> QED BY <2>1, <2>2
<1>8. PICK c1, c2 : c1 = b1 % Order /\ c2 = c1 + b2
  OBVIOUS
<1>9. c1 \in Int /\ c2 \in Int
  <2>1. c1 \in Scalars
    BY <1>2, <1>8, Modulo
  <2> QED BY <1>2, <1>8, <2>1, OrderAssumption DEF Scalars
<1>10. r1.value = v1 /\ r1.blind = c1
  BY <1>2, <1>7, <1>8, CommitType
<1>11. r2 \in Points /\ r2 = Commit(v1 + v2, c2)
  BY <1>3, <1>5, <1>7, <1>8, <1>10, PlusResult
<1>12. PICK x, c3 : x = v1 + v2 /\ c3 = c2 % Order
  OBVIOUS
<1>13. x \in Int /\ c3 \in Int
  <2>1. c3 \in Scalars
    BY <1>9, <1>12, Modulo
  <2> QED BY <1>2, <1>12, <2>1, OrderAssumption DEF Scalars
<1>14. r2.value = x /\ r2.blind = c3
  BY <1>9, <1>11, <1>12, <1>13, CommitType
<1>15. r3 = Commit(x - v3, c3 - b3)
  BY <1>3, <1>5, <1>11, <1>14, MinusResult
<1>16. (c3 - b3) % Order = RemainderBlind
  <2>1. PICK y, z : y = -b3 /\ z = b2 + y
    OBVIOUS
  <2>2. y \in Int /\ z \in Int
    BY <1>2, <2>1
  <2>3. (c3 + y) % Order = (c2 + y) % Order
    BY <1>9, <1>12, <2>2, ModuloPlus
  <2>4. (c1 + z) % Order = (b1 + z) % Order
    BY <1>2, <1>8, <2>2, ModuloPlus
  <2>5. c3 - b3 = c3 + y /\ c2 + y = c1 + z /\ b1 + (b2 - b3) = b1 + z
    BY ONLY <1>2, <1>8, <1>9, <1>13, <2>1, <2>2
  <2>6. RemainderBlind = (b1 + (b2 - b3)) % Order
    BY <1>1, RemainderIs
  <2> QED BY ONLY <2>3, <2>4, <2>5, <2>6
<1>17. ValueIn = x /\ ValueOut = v3
  BY <1>1, <1>12 DEF ValueIn, ValueOut, NoteValues
<1> QED BY <1>2, <1>4, <1>13, <1>15, <1>16, <1>17 DEF Commit

(* Whatever was drawn, built, signed, encoded and decoded verifies exactly *)
(* if the values balance, and without an output if the blinds happen to.   *)
THEOREM BalancedVerifies == Spec => []VerifiesIffBalanced
<1>1. IInv => VerifiesIffBalanced
  <2> SUFFICES ASSUME IInv, stage = "sent"
               PROVE  Verify(Decode(data)) <=>
                        ValueIn = ValueOut /\ (builder.outputs = <<>> => RemainderBlind = 0)
    BY DEF VerifiesIffBalanced
  <2>1. PICK tx : tx = Decode(data)
    OBVIOUS
  <2>2. Verify(tx) <=> CommitTotal(tx) = Identity
    BY <2>1, MessageIs, PartsVerify DEF Verify
  <2>3. Identity = [value |-> 0, blind |-> 0]
    <3>1. 0 \in Scalars
      BY OrderAssumption DEF Scalars
    <3> QED BY <3>1, ScalarIs DEF Identity, Commit
  <2>4. CommitTotal(tx) = Identity <=> ValueIn - ValueOut = 0 /\ RemainderBlind = 0
    <3>1. PICK d, r : d = ValueIn - ValueOut /\ r = RemainderBlind
      OBVIOUS
    <3>2. CommitTotal(tx) = [value |-> d, blind |-> r]
      BY <2>1, <3>1, CommitTotalIs
    <3>3. [value |-> d, blind |-> r] = [value |-> 0, blind |-> 0] <=> d = 0 /\ r = 0
      OBVIOUS
    <3> QED BY <2>3, <3>1, <3>2, <3>3
  <2>5. ValueIn - ValueOut = 0 <=> ValueIn = ValueOut
    BY <2>1, CommitTotalIs
  <2>6. builder.outputs # <<>> => RemainderBlind = 0
    <3> SUFFICES ASSUME builder.outputs # <<>> PROVE RemainderBlind = 0
      OBVIOUS
    <3>1. partial.outputs # <<>> /\ Len(partial.outputs) = Len(builder.outputs)
      <4>1. Len(partial.outputs) = Len(builder.outputs) /\ builder.outputs \in Seq(OutputInfos)
        BY DEF IInv, Complete, TypeOK
      <4>2. Len(builder.outputs) # 0
        BY <4>1
      <4> QED BY <4>1, <4>2
    <3> QED BY <3>1 DEF IInv, Remainder
  <2> QED BY <2>1, <2>2, <2>4, <2>5, <2>6
<1> QED BY <1>1, InductiveInvariant, PTL

(* For every wallet and every output that is sent: the wallet opens the    *)
(* note only if the output is addressed to it, and the note then opens the *)
(* coin and the value commitment.                                          *)
THEOREM NotesOpenOutputs == Spec => []NoteOpensOutput
<1>1. IInv => NoteOpensOutput
  <2> SUFFICES ASSUME IInv, stage = "sent", NEW i \in DOMAIN Decode(data).outputs, NEW w \in Wallets
               PROVE  LET out == Decode(data).outputs[i]  note == Decrypted(out.enc_note) IN
                      /\ Decrypts(out.enc_note, w) <=> builder.outputs[i].public = Public(w)
                      /\ Decrypts(out.enc_note, w) =>
                           /\ out.revealed.coin = CoinOf(Public(w), note.value, note.serial, note.coin_blind)
                           /\ out.revealed.value_commit = Commit(note.value, note.valcom_blind)
    BY DEF NoteOpensOutput
  <2>1. PICK o, r, e, note, public, k :
          /\ o = partial.outputs[i] /\ r = o.revealed /\ e = o.enc_note /\ note = Decrypted(e)
          /\ public = builder.outputs[i].public /\ k = e.ephem_public[2]
    OBVIOUS
  <2>2. Decode(data).outputs = partial.outputs /\ i \in 1..Len(builder.outputs)
    BY SentIs
  <2>3. BuiltOutput(i)
    BY <2>2 DEF IInv, Built
  <2>4. PICK secret \in Wallets : public = Public(secret)
    <3>1. PICK b : b = builder.outputs
      OBVIOUS
    <3>2. b \in Seq(OutputInfos)
      BY <3>1 DEF IInv, TypeOK
    <3>3. b[i] \in OutputInfos
      BY ONLY <2>2, <3>1, <3>2
    <3> QED BY <2>1, <3>1, <3>3 DEF OutputInfos
  <2>5. PICK x, m, c : /\ x = Encrypt(note, public, k) /\ m = Commit(note.value, note.valcom_blind)
                       /\ c = CoinOf(public, note.value, note.serial, note.coin_blind)
    OBVIOUS
  <2>6. /\ o = [mint_proof |-> CreateProof(MintOutputs(r)), revealed |-> r, enc_note |-> x]
        /\ r = [value_commit |-> m, coin |-> c]
    BY <2>1, <2>3, <2>5, Zenon DEF BuiltOutput
  <2>7. e = x /\ r.value_commit = m /\ r.coin = c
    BY <2>1, <2>6
  <2>8. Decrypts(e, w) <=> w = secret
    BY <2>4, <2>5, <2>7, OnlyOwnerDecrypts
  <2>9. public = Public(w) <=> w = secret
    <3>1. Public(w)[2] = w /\ Public(secret)[2] = secret
      BY DEF Public
    <3> QED BY <2>4, <3>1
  <2> QED BY <2>1, <2>2, <2>5, <2>7, <2>8, <2>9
<1> QED BY <1>1, InductiveInvariant, PTL

----------------------------------------------------------------------------
(* The whole tree.  Each node is at a height and a place in its row.       *)

\* The rows of a tree whose leaves are row 0.
Rows(W) ==
  \A h \in 1..Depth : \A i \in Nat : W[h][i] = combine(h - 1, W[h - 1][2 * i], W[h - 1][2 * i + 1])

\* q[h] is the place of the node at height h over leaf p.
Above(p, q) ==
  /\ q \in [0..Depth -> Nat] /\ q[0] = p
  /\ \A h \in 0..(Depth - 1) : q[h] = 2 * q[h + 1] \/ q[h] = 2 * q[h + 1] + 1

\* It is a right child.
Odd(q, h) == q[h] = 2 * q[h + 1] + 1

\* Induction over the heights up to n.
LEMMA InductUpTo ==
  ASSUME NEW n \in Nat, NEW T, 0 \in T, \A i \in 0..(n - 1) : i \in T => i + 1 \in T
  PROVE  \A i \in 0..n : i \in T
<1> DEFINE R == {i \in Nat : i <= n => i \in T}
<1>1. 0 \in R /\ \A i \in Nat : i \in R => i + 1 \in R
  OBVIOUS
<1>2. \A i \in Nat : i \in R
  <2> HIDE DEF R
  <2> QED BY <1>1, Induct
<1> QED BY <1>2

LEMMA AboveExists ==
  ASSUME NEW p \in Nat
  PROVE  \E q : Above(p, q)
<1> DEFINE step == [i \in 1..Depth |-> [x \in Nat |-> x \div 2]]
<1>1. Depth \in Nat /\ step \in [1..Depth -> [Nat -> Nat]]
  BY DepthAssumption
<1>2. \A i \in 1..Depth, x \in Nat : step[i][x] = x \div 2
  OBVIOUS
<1> HIDE DEF step
<1>3. PICK q \in [0..Depth -> Nat] : Iter(step, p, Depth, q)
  BY <1>1, IterExists
<1>4. ASSUME NEW h \in 0..(Depth - 1) PROVE q[h] = 2 * q[h + 1] \/ q[h] = 2 * q[h + 1] + 1
  <2>1. h + 1 \in 1..Depth /\ (h + 1) - 1 = h /\ h \in 0..Depth
    BY <1>1
  <2>2. q[h] \in Nat /\ q[h + 1] = q[h] \div 2
    <3>1. PICK i : i = h + 1
      OBVIOUS
    <3>2. i \in 1..Depth /\ i - 1 = h /\ q[h] \in Nat
      BY <1>3, <2>1, <3>1
    <3>3. q[i] = step[i][q[h]]
      BY <1>3, <3>2 DEF Iter
    <3> QED BY <1>2, <3>1, <3>2, <3>3
  <2> QED BY <2>2
<1>5. q[0] = p
  BY <1>3 DEF Iter
<1> QED BY <1>3, <1>4, <1>5 DEF Above

\* Leaf p + 1: right children are passed over, the others take it in.
LEMMA NextLeaf ==
  ASSUME NEW p \in Nat, NEW q, Above(p, q), NEW r, Above(p + 1, r),
         NEW k \in 0..Depth, \A j \in 0..(k - 1) : Odd(q, j)
  PROVE  /\ \A j \in 0..k : r[j] = q[j] + 1
         /\ k < Depth /\ ~Odd(q, k) => \A j \in (k + 1)..Depth : r[j] = q[j]
<1>1. k \in Nat /\ Depth \in Nat
  BY DepthAssumption
<1>2. \A j \in 0..Depth : q[j] \in Nat /\ r[j] \in Nat
  BY DEF Above
<1>3. \A j \in 0..k : r[j] = q[j] + 1
  <2> DEFINE T == {j \in Nat : r[j] = q[j] + 1}
  <2>1. 0 \in T
    BY DEF Above
  <2>2. ASSUME NEW j \in 0..(k - 1), j \in T PROVE j + 1 \in T
    <3>1. j \in 0..(Depth - 1) /\ j \in 0..Depth /\ j + 1 \in 0..Depth /\ j + 1 \in Nat
      BY <1>1
    <3>2. r[j] = q[j] + 1 /\ q[j] = 2 * q[j + 1] + 1
      BY <2>2 DEF Odd
    <3>3. r[j] = 2 * r[j + 1] \/ r[j] = 2 * r[j + 1] + 1
      BY <3>1 DEF Above
    <3>4. r[j + 1] = q[j + 1] + 1
      BY <1>2, <3>1, <3>2, <3>3
    <3> QED BY <3>1, <3>4
  <2> HIDE DEF T
  <2>3. \A j \in 0..k : j \in T
    BY <1>1, <2>1, <2>2, InductUpTo
  <2> QED BY <2>3 DEF T
<1>4. ASSUME k < Depth, ~Odd(q, k) PROVE \A j \in (k + 1)..Depth : r[j] = q[j]
  <2> DEFINE T == {j \in Nat : j > k => r[j] = q[j]}
  <2>1. 0 \in T
    BY <1>1
  <2>2. ASSUME NEW j \in 0..(Depth - 1), j \in T PROVE j + 1 \in T
    <3>1. j \in 0..Depth /\ j + 1 \in 0..Depth /\ j + 1 \in Nat
      BY <1>1
    <3>2. /\ r[j] = 2 * r[j + 1] \/ r[j] = 2 * r[j + 1] + 1
          /\ q[j] = 2 * q[j + 1] \/ q[j] = 2 * q[j + 1] + 1
      BY <3>1 DEF Above
    <3>3. CASE j > k
      <4>1. r[j] = q[j]
        BY <2>2, <3>3
      <4>2. r[j + 1] = q[j + 1]
        BY <1>2, <3>1, <3>2, <4>1
      <4> QED BY <3>1, <4>2
    <3>4. CASE j = k
      <4>1. r[j] = q[j] + 1 /\ q[j] # 2 * q[j + 1] + 1
        BY <1>1, <1>3, <1>4, <3>4 DEF Odd
      <4>2. r[j + 1] = q[j + 1]
        BY <1>2, <3>1, <3>2, <4>1
      <4> QED BY <3>1, <4>2
    <3>5. CASE j < k
      BY <1>1, <3>1, <3>5
    <3> QED BY <1>1, <3>3, <3>4, <3>5
  <2> HIDE DEF T
  <2>3. \A j \in 0..Depth : j \in T
    BY <1>1, <2>1, <2>2, InductUpTo
  <2> QED BY <1>1, <2>3 DEF T
<1> QED BY <1>3, <1>4

\* A row depends on no leaf beyond the place.
LEMMA SameBefore ==
  ASSUME NEW W, Rows(W), NEW V, Rows(V), NEW p \in Nat, NEW q, Above(p, q),
         \A i \in Nat : i < p => V[0][i] = W[0][i]
  PROVE  \A h \in 0..Depth : \A i \in Nat : i < q[h] => V[h][i] = W[h][i]
<1> DEFINE T == {h \in Nat : \A i \in Nat : i < q[h] => V[h][i] = W[h][i]}
<1>1. 0 \in T
  BY DEF Above
<1>2. ASSUME NEW h \in 0..(Depth - 1), h \in T PROVE h + 1 \in T
  <2>1. h + 1 \in 1..Depth /\ (h + 1) - 1 = h /\ h \in 0..Depth /\ h + 1 \in 0..Depth /\ h + 1 \in Nat
    BY DepthAssumption
  <2>2. q[h] \in Nat /\ q[h + 1] \in Nat /\ q[h] >= 2 * q[h + 1]
    BY <2>1 DEF Above
  <2>3. ASSUME NEW i \in Nat, i < q[h + 1] PROVE V[h + 1][i] = W[h + 1][i]
    <3>1. PICK a, b : a = 2 * i /\ b = 2 * i + 1
      OBVIOUS
    <3>2. a \in Nat /\ b \in Nat /\ a < q[h] /\ b < q[h]
      BY <2>2, <2>3, <3>1
    <3>3. V[h][a] = W[h][a] /\ V[h][b] = W[h][b]
      BY <1>2, <3>2
    <3>4. W[h + 1][i] = combine(h, W[h][a], W[h][b]) /\ V[h + 1][i] = combine(h, V[h][a], V[h][b])
      BY <2>1, <3>1 DEF Rows
    <3> QED BY <3>3, <3>4
  <2> QED BY <2>1, <2>3
<1> HIDE DEF T
<1>3. \A h \in 0..Depth : h \in T
  BY <1>1, <1>2, DepthAssumption, InductUpTo
<1> QED BY <1>3 DEF T

LEMMA EmptyRoots ==
  /\ empty_root[0] = blank
  /\ \A d \in 1..Depth : empty_root[d] = combine(d - 1, empty_root[d - 1], empty_root[d - 1])
<1> DEFINE Eqn(n, e) ==
      e = [d \in 0..n |-> IF d = 0 THEN blank ELSE combine(d - 1, e[d - 1], e[d - 1])]
           T == {n \in Nat : \E e : Eqn(n, e)}
<1>1. 0 \in T
  <2>1. PICK e : e = [d \in 0..0 |-> blank]
    OBVIOUS
  <2>2. Eqn(0, e)
    BY <2>1
  <2> QED BY <2>2
<1>2. ASSUME NEW n \in Nat, n \in T PROVE n + 1 \in T
  <2>1. PICK e : Eqn(n, e)
    BY <1>2
  <2>2. PICK x : x = combine(n, e[n], e[n])
    OBVIOUS
  <2>3. PICK f : f = [d \in 0..(n + 1) |-> IF d <= n THEN e[d] ELSE x]
    OBVIOUS
  <2>4. \A d \in 0..n : f[d] = e[d]
    BY <2>3
  <2>5. ASSUME NEW d \in 0..(n + 1)
        PROVE  f[d] = IF d = 0 THEN blank ELSE combine(d - 1, f[d - 1], f[d - 1])
    <3>1. CASE d = 0
      BY <2>1, <2>4, <3>1
    <3>2. CASE d \in 1..n
      <4>1. d - 1 \in 0..n /\ d \in 0..n /\ d # 0
        BY <3>2
      <4>2. e[d] = combine(d - 1, e[d - 1], e[d - 1])
        BY <2>1, <4>1
      <4> QED BY <2>4, <4>1, <4>2
    <3>3. CASE d = n + 1
      <4>1. d - 1 = n /\ n \in 0..n /\ d # 0 /\ ~(d <= n)
        BY <3>3
      <4>2. f[d] = x
        BY <2>3, <4>1
      <4> QED BY <2>2, <2>4, <4>1, <4>2
    <3> QED BY <3>1, <3>2, <3>3
  <2>6. Eqn(n + 1, f)
    BY <2>3, <2>5
  <2> QED BY <2>6
<1>3. Depth \in T
  <2> HIDE DEF T
  <2> QED BY <1>1, <1>2, DepthAssumption, Induct
<1>4. \E e : Eqn(Depth, e)
  BY <1>3
<1>5. empty_root = CHOOSE e : Eqn(Depth, e)
  BY DEF empty_root
<1>6. Eqn(Depth, empty_root)
  BY <1>4, <1>5, Zenon
<1> QED BY <1>6, DepthAssumption

\* Right of the last leaf everything is empty.
LEMMA EmptyBeyond ==
  ASSUME NEW W, Rows(W), NEW p \in Nat, NEW q, Above(p, q), \A i \in Nat : i > p => W[0][i] = blank
  PROVE  \A h \in 0..Depth : \A i \in Nat : i > q[h] => W[h][i] = empty_root[h]
<1> DEFINE T == {h \in Nat : \A i \in Nat : i > q[h] => W[h][i] = empty_root[h]}
<1>1. 0 \in T
  BY EmptyRoots DEF Above
<1>2. ASSUME NEW h \in 0..(Depth - 1), h \in T PROVE h + 1 \in T
  <2>1. h + 1 \in 1..Depth /\ (h + 1) - 1 = h /\ h \in 0..Depth /\ h + 1 \in 0..Depth /\ h + 1 \in Nat
    BY DepthAssumption
  <2>2. q[h] \in Nat /\ q[h + 1] \in Nat /\ q[h] <= 2 * q[h + 1] + 1
    BY <2>1 DEF Above
  <2>3. ASSUME NEW i \in Nat, i > q[h + 1] PROVE W[h + 1][i] = empty_root[h + 1]
    <3>1. PICK a, b : a = 2 * i /\ b = 2 * i + 1
      OBVIOUS
    <3>2. a \in Nat /\ b \in Nat /\ a > q[h] /\ b > q[h]
      BY <2>2, <2>3, <3>1
    <3>3. W[h][a] = empty_root[h] /\ W[h][b] = empty_root[h]
      BY <1>2, <3>2
    <3>4. W[h + 1][i] = combine(h, W[h][a], W[h][b])
      BY <2>1, <3>1 DEF Rows
    <3>5. empty_root[h + 1] = combine(h, empty_root[h], empty_root[h])
      BY <2>1, EmptyRoots
    <3> QED BY <3>3, <3>4, <3>5
  <2> QED BY <2>1, <2>3
<1> HIDE DEF T
<1>3. \A h \in 0..Depth : h \in T
  BY <1>1, <1>2, DepthAssumption, InductUpTo
<1> QED BY <1>3 DEF T

\* The leaves of the whole tree.
Leaves(W, coins) == \A i \in Nat : W[0][i] = IF i < Len(coins) THEN coins[i + 1] ELSE blank

LEMMA WholeTreeIs ==
  ASSUME NEW coins
  PROVE  Rows(WholeTree(coins)) /\ Leaves(WholeTree(coins), coins)
<1> DEFINE Row(w, h) ==
      [i \in Nat |-> IF h = 0 THEN IF i < Len(coins) THEN coins[i + 1] ELSE blank
                     ELSE combine(h - 1, w[h - 1][2 * i], w[h - 1][2 * i + 1])]
           Eqn(n, w) == w = [h \in 0..n |-> Row(w, h)]
           T == {n \in Nat : \E w : Eqn(n, w)}
<1>1. 0 \in T
  <2>1. PICK w : w = [h \in 0..0 |-> Row(<<>>, h)]
    OBVIOUS
  <2>2. ASSUME NEW h \in 0..0 PROVE w[h] = Row(w, h)
    BY <2>1
  <2>3. Eqn(0, w)
    BY <2>1, <2>2
  <2> QED BY <2>3
<1>2. ASSUME NEW n \in Nat, n \in T PROVE n + 1 \in T
  <2>1. PICK w : Eqn(n, w)
    BY <1>2
  <2>2. PICK x : x = Row(w, n + 1)
    OBVIOUS
  <2> HIDE DEF Row
  <2>3. PICK f : f = [h \in 0..(n + 1) |-> IF h <= n THEN w[h] ELSE x]
    OBVIOUS
  <2>4. \A h \in 0..n : f[h] = w[h]
    BY <2>3
  <2>5. \A h \in 0..(n + 1) : Row(f, h) = Row(w, h)
    <3>1. ASSUME NEW h \in 0..(n + 1) PROVE Row(f, h) = Row(w, h)
      <4>1. CASE h = 0
        BY <4>1 DEF Row
      <4>2. CASE h # 0
        <5>1. h - 1 \in 0..n
          BY <4>2
        <5>2. f[h - 1] = w[h - 1]
          BY <2>4, <5>1
        <5> QED BY <5>2 DEF Row
      <4> QED BY <4>1, <4>2
    <3> QED BY <3>1
  <2>6. ASSUME NEW h \in 0..(n + 1) PROVE f[h] = Row(f, h)
    <3>1. CASE h <= n
      <4>1. f[h] = w[h] /\ w[h] = Row(w, h)
        BY <2>1, <2>4, <3>1
      <4> QED BY <2>5, <4>1
    <3>2. CASE h = n + 1
      <4>1. f[h] = x
        BY <2>3, <3>2
      <4> QED BY <2>2, <2>5, <3>2, <4>1
    <3> QED BY <3>1, <3>2
  <2>7. Eqn(n + 1, f)
    BY <2>3, <2>6
  <2> QED BY <2>7
<1>3. Depth \in T
  <2> HIDE DEF T
  <2> QED BY <1>1, <1>2, DepthAssumption, Induct
<1>4. \E w : Eqn(Depth, w)
  BY <1>3
<1>5. PICK W : W = WholeTree(coins)
  OBVIOUS
<1>6. Eqn(Depth, W)
  <2>1. W = CHOOSE w : Eqn(Depth, w)
    BY <1>5 DEF WholeTree
  <2> QED BY <1>4, <2>1, Zenon
<1>7. \A h \in 0..Depth : W[h] = Row(W, h)
  <2> HIDE DEF Row
  <2> QED BY <1>6
<1>8. ASSUME NEW i \in Nat PROVE W[0][i] = IF i < Len(coins) THEN coins[i + 1] ELSE blank
  <2>1. W[0] = Row(W, 0)
    BY <1>7, DepthAssumption
  <2> QED BY <2>1
<1>9. ASSUME NEW h \in 1..Depth, NEW i \in Nat
      PROVE  W[h][i] = combine(h - 1, W[h - 1][2 * i], W[h - 1][2 * i + 1])
  <2>1. W[h] = Row(W, h) /\ h # 0
    BY <1>7, DepthAssumption
  <2> QED BY <2>1
<1> QED BY <1>5, <1>8, <1>9 DEF Rows, Leaves

----------------------------------------------------------------------------
(* What a frontier holds.                                                  *)

\* No node is None.
Nodes(W) == \A h \in 0..Depth : \A i \in Nat : W[h][i] # None

LEMMA NodesIs ==
  ASSUME NEW W, Rows(W), \A i \in Nat : W[0][i] # None
  PROVE  Nodes(W)
<1>1. ASSUME NEW h \in 0..Depth, NEW i \in Nat PROVE W[h][i] # None
  <2>1. CASE h = 0
    BY <2>1
  <2>2. CASE h # 0
    <3>1. h \in 1..Depth
      BY <2>2
    <3>2. W[h][i] = combine(h - 1, W[h - 1][2 * i], W[h - 1][2 * i + 1])
      BY <3>1 DEF Rows
    <3>3. PICK a, b, c : W[h][i] = <<"MerkleTree", a, b, c>>
      BY <3>2 DEF combine, merkle_hash
    <3> QED BY <3>3 DEF None
  <2> QED BY <2>1, <2>2
<1> QED BY <1>1 DEF Nodes

\* The frontier t at a leaf that has the nodes q above it in W: the left
\* siblings of those nodes that are right children.
Frontier(q, W, t) ==
  /\ t = [left |-> W[0][2 * q[1]], right |-> IF Odd(q, 0) THEN W[0][q[0]] ELSE None,
          parents |-> t.parents]
  /\ IsList(t.parents) /\ Len(t.parents) < Depth /\ q[Len(t.parents) + 1] = 0
  /\ \A d \in 1..Len(t.parents) : t.parents[d] = IF Odd(q, d) THEN W[d][q[d] - 1] ELSE None

\* Over a first node there are only first nodes.
LEMMA FirstAbove ==
  ASSUME NEW p \in Nat, NEW q, Above(p, q), NEW k \in 0..Depth, q[k] = 0
  PROVE  \A j \in k..Depth : q[j] = 0
<1>1. k \in Nat /\ Depth \in Nat
  BY DepthAssumption
<1> DEFINE T == {j \in Nat : j >= k => q[j] = 0}
<1>2. 0 \in T
  BY <1>1
<1>3. ASSUME NEW j \in 0..(Depth - 1), j \in T PROVE j + 1 \in T
  <2>1. j \in 0..Depth /\ j + 1 \in 0..Depth /\ j + 1 \in Nat
    BY <1>1
  <2>2. q[j + 1] \in Nat /\ (q[j] = 2 * q[j + 1] \/ q[j] = 2 * q[j + 1] + 1)
    BY <2>1 DEF Above
  <2>3. CASE j >= k
    <3>1. q[j] = 0
      BY <1>3, <2>3
    <3>2. q[j + 1] = 0
      BY <2>2, <3>1
    <3> QED BY <2>1, <3>2
  <2>4. CASE j + 1 = k
    BY <2>1, <2>4
  <2>5. CASE j + 1 < k
    BY <1>1, <2>1, <2>5
  <2> QED BY <1>1, <2>3, <2>4, <2>5
<1> HIDE DEF T
<1>4. \A j \in 0..Depth : j \in T
  BY <1>1, <1>2, <1>3, InductUpTo
<1> QED BY <1>1, <1>4 DEF T

LEMMA LacksIs ==
  ASSUME NEW p \in Nat, NEW q, Above(p, q), NEW W, Nodes(W), NEW t, Frontier(q, W, t)
  PROVE  /\ t.left # None /\ (t.right # None <=> Odd(q, 0))
         /\ \A d \in 0..(Depth - 1) : Lacks(t, d) = IF Odd(q, d) THEN 0 ELSE 1
         /\ \A d \in 1..(Depth - 1) : Odd(q, d) => d <= Len(t.parents)
<1>1. Depth \in Nat \ {0} /\ 0 \in 0..Depth /\ 1 \in 0..Depth
  BY DepthAssumption
<1>2. q[0] \in Nat /\ q[1] \in Nat /\ 2 * q[1] \in Nat
  BY <1>1 DEF Above
<1>3. W[0][2 * q[1]] # None /\ W[0][q[0]] # None
  BY <1>1, <1>2 DEF Nodes
<1>4. t.left # None /\ (t.right # None <=> Odd(q, 0))
  <2>1. t.left = W[0][2 * q[1]] /\ t.right = IF Odd(q, 0) THEN W[0][q[0]] ELSE None
    <3>1. PICK a, b, c : a = W[0][2 * q[1]] /\ b = (IF Odd(q, 0) THEN W[0][q[0]] ELSE None) /\ c = t.parents
      OBVIOUS
    <3>2. t = [left |-> a, right |-> b, parents |-> c]
      BY <3>1 DEF Frontier
    <3> QED BY <3>1, <3>2
  <2> QED BY <1>3, <2>1
<1>5. Lacks(t, 0) = IF Odd(q, 0) THEN 0 ELSE 1
  <2>1. PICK N : N = {s \in {"left", "right"} : t[s] = None}
    OBVIOUS
  <2>2. Lacks(t, 0) = Cardinality(N)
    BY <2>1 DEF Lacks
  <2>3. CASE Odd(q, 0)
    <3>1. N = {}
      BY <1>4, <2>1, <2>3
    <3> QED BY <2>2, <2>3, <3>1, FS_EmptySet
  <2>4. CASE ~Odd(q, 0)
    <3>1. N = {"right"}
      BY <1>4, <2>1, <2>4
    <3> QED BY <2>2, <2>4, <3>1, FS_Singleton
  <2> QED BY <2>3, <2>4
<1>6. PICK s, n : s = t.parents /\ n = Len(s)
  OBVIOUS
<1>7. DOMAIN s = 1..n /\ n \in Nat /\ n < Depth /\ q[n + 1] = 0
  BY <1>6, ListIs DEF Frontier
<1>8. ASSUME NEW d \in 1..(Depth - 1)
      PROVE  Lacks(t, d) = (IF Odd(q, d) THEN 0 ELSE 1) /\ (Odd(q, d) => d <= n)
  <2>1. Lacks(t, d) = IF d \in 1..n /\ s[d] # None THEN 0 ELSE 1
    <3>1. d # 0
      OBVIOUS
    <3> QED BY <1>6, <1>7, <3>1 DEF Lacks
  <2>2. CASE d <= n
    <3>1. d \in 1..n
      BY <1>7, <2>2
    <3>2. s[d] = IF Odd(q, d) THEN W[d][q[d] - 1] ELSE None
      BY <1>6, <3>1 DEF Frontier
    <3>3. ASSUME Odd(q, d) PROVE W[d][q[d] - 1] # None
      <4>1. d \in 0..Depth /\ d + 1 \in 0..Depth
        BY <1>1
      <4>2. q[d] \in Nat /\ q[d + 1] \in Nat /\ q[d] = 2 * q[d + 1] + 1
        BY <3>3, <4>1 DEF Above, Odd
      <4>3. q[d] - 1 \in Nat
        BY <4>2
      <4> QED BY <4>1, <4>3 DEF Nodes
    <3> QED BY <2>1, <2>2, <3>1, <3>2, <3>3
  <2>3. CASE d > n
    <3>1. n + 1 \in 0..Depth /\ d \in (n + 1)..Depth /\ d + 1 \in (n + 1)..Depth
      BY <1>1, <1>7, <2>3
    <3>2. q[d] = 0 /\ q[d + 1] = 0
      BY <1>7, <3>1, FirstAbove
    <3>3. ~Odd(q, d)
      BY <3>2 DEF Odd
    <3>4. ~(d \in 1..n)
      BY <1>7, <2>3
    <3> QED BY <2>1, <3>3, <3>4
  <2> QED BY <1>7, <2>2, <2>3
<1>9. ASSUME NEW d \in 0..(Depth - 1) PROVE Lacks(t, d) = IF Odd(q, d) THEN 0 ELSE 1
  <2>1. d = 0 \/ d \in 1..(Depth - 1)
    BY <1>1
  <2> QED BY <1>5, <1>8, <2>1
<1> QED BY <1>4, <1>6, <1>8, <1>9

----------------------------------------------------------------------------
(* How often the filler is called.                                         *)

\* f holds the calls for the levels below each.
Counts(t, n, f) == f[0] = 0 /\ \A i \in 1..n : f[i] = f[i - 1] + Lacks(t, i - 1)

LEMMA CallsIs ==
  ASSUME NEW t, NEW n \in Nat, \A e \in 0..(n - 1) : Lacks(t, e) \in Nat
  PROVE  \E f \in [0..n -> Nat] : Counts(t, n, f) /\ Calls(t, n) = f[n]
<1> DEFINE s == [i \in 1..n |-> i]
           step == [i \in 1..n |-> [x \in Nat |-> x + Lacks(t, i - 1)]]
           D == DOMAIN s
           Eqn(g) == g = [u \in SUBSET D |->
                            IF u = {} THEN 0 ELSE g[u \ {Max(u)}] + Lacks(t, s[Max(u)] - 1)]
<1>1. Calls(t, n) = (CHOOSE g : Eqn(g))[D]
  BY DEF Calls, FoldLeft, MapThenFoldSet
<1>2. \A i \in 1..n : Lacks(t, i - 1) \in Nat
  <2>1. \A i \in 1..n : i - 1 \in 0..(n - 1)
    OBVIOUS
  <2> QED BY <2>1
<1>3. step \in [1..n -> [Nat -> Nat]]
  BY <1>2
<1>4. \A i \in 1..n, x \in Nat : step[i][x] = x + Lacks(t, i - 1)
  OBVIOUS
<1>13. D = 1..n /\ 0 \in Nat /\ \A i \in 1..n : s[i] = i
  OBVIOUS
<1> HIDE DEF s, step, D
<1>5. PICK e \in [SUBSET (1..n) -> Nat] : Table(step, 0, n, e)
  BY <1>3, <1>13, TableExists
<1>6. Eqn(e)
  <2>1. ASSUME NEW u \in SUBSET (1..n), u # {}
        PROVE  e[u] = e[u \ {Max(u)}] + Lacks(t, s[Max(u)] - 1)
    <3>1. PICK m : m = Max(u)
      OBVIOUS
    <3>2. m \in 1..n
      BY <2>1, <3>1, Greatest
    <3>3. u \ {m} \in SUBSET (1..n)
      OBVIOUS
    <3>4. e[u \ {m}] \in Nat
      BY <1>5, <3>3
    <3>5. e[u] = step[m][e[u \ {m}]]
      BY <1>5, <2>1, <3>1 DEF Table
    <3>6. s[m] = m
      BY <1>13, <3>2
    <3> QED BY <1>4, <3>1, <3>2, <3>4, <3>5, <3>6
  <2>2. e[{}] = 0
    BY <1>5 DEF Table
  <2> QED BY <1>5, <1>13, <2>1, <2>2
<1>7. PICK g : g = (CHOOSE h : Eqn(h))
  OBVIOUS
<1>8. Eqn(g)
  BY <1>6, <1>7, Zenon
<1>9. g[{}] = 0
  BY <1>8, <1>13
<1>10. ASSUME NEW i \in 1..n, g[1..(i - 1)] \in Nat PROVE g[1..i] = step[i][g[1..(i - 1)]]
  <2>1. g[1..i] = g[1..(i - 1)] + Lacks(t, i - 1)
    <3>1. PICK u : u = 1..i
      OBVIOUS
    <3>2. u \in SUBSET D /\ u # {} /\ Max(u) = i /\ u \ {i} = 1..(i - 1)
      BY <1>13, <3>1, FirstPlaces
    <3>3. g[u] = g[u \ {Max(u)}] + Lacks(t, s[Max(u)] - 1)
      BY <1>8, <3>2
    <3>4. s[i] = i
      BY <1>13
    <3> QED BY <3>1, <3>2, <3>3, <3>4
  <2> QED BY <1>4, <1>10, <2>1
<1>11. PICK f \in [0..n -> Nat] : Iter(step, 0, n, f) /\ g[1..n] = f[n]
  <2>1. Follows(Nat, step, 0, n, g)
    BY <1>9, <1>10 DEF Follows
  <2>2. PICK S, b : S = Nat /\ b = 0
    OBVIOUS
  <2>3. Follows(S, step, b, n, g)
    BY <2>1, <2>2
  <2>4. b \in S /\ n \in Nat /\ step \in [1..n -> [S -> S]]
    BY <1>3, <1>13, <2>2
  <2>5. \E f \in [0..n -> S] : Iter(step, b, n, f) /\ g[1..n] = f[n]
    BY ONLY <2>3, <2>4, FoldResult
  <2> QED BY <2>2, <2>5
<1>12. Counts(t, n, f)
  <2>1. ASSUME NEW i \in 1..n PROVE f[i] = f[i - 1] + Lacks(t, i - 1)
    <3>1. f[i - 1] \in Nat
      BY <1>11
    <3> QED BY <1>4, <1>11, <3>1 DEF Iter
  <2> QED BY <1>11, <2>1 DEF Iter, Counts
<1> QED BY <1>1, <1>7, <1>11, <1>12, <1>13

LEMMA CallsNext ==
  ASSUME NEW t, NEW n \in Nat, \A e \in 0..n : Lacks(t, e) \in Nat
  PROVE  /\ Calls(t, n) \in Nat /\ Calls(t, n + 1) = Calls(t, n) + Lacks(t, n)
         /\ n = 0 => Calls(t, n) = 0
<1>1. PICK f \in [0..n -> Nat] : Counts(t, n, f) /\ Calls(t, n) = f[n]
  <2>1. \A e \in 0..(n - 1) : Lacks(t, e) \in Nat
    OBVIOUS
  <2> QED BY <2>1, CallsIs
<1>2. PICK m : m = n + 1
  OBVIOUS
<1>3. m \in Nat /\ \A e \in 0..(m - 1) : Lacks(t, e) \in Nat
  BY <1>2
<1>4. PICK g \in [0..m -> Nat] : Counts(t, m, g) /\ Calls(t, m) = g[m]
  BY <1>3, CallsIs
<1> DEFINE T == {i \in Nat : g[i] = f[i]}
<1>5. 0 \in T
  BY <1>1, <1>4 DEF Counts
<1>6. ASSUME NEW i \in 0..(n - 1), i \in T PROVE i + 1 \in T
  <2>1. PICK j : j = i + 1
    OBVIOUS
  <2>2. j \in 1..n /\ j \in 1..m /\ j - 1 = i /\ j \in Nat
    BY <1>2, <2>1
  <2>3. g[j] = g[i] + Lacks(t, i) /\ f[j] = f[i] + Lacks(t, i)
    BY <1>1, <1>4, <2>2 DEF Counts
  <2> QED BY <1>6, <2>1, <2>2, <2>3
<1>7. g[n] = f[n]
  <2> HIDE DEF T
  <2>1. \A i \in 0..n : i \in T
    BY <1>5, <1>6, InductUpTo
  <2> QED BY <2>1 DEF T
<1>8. g[m] = g[n] + Lacks(t, n)
  <2>1. m \in 1..m /\ m - 1 = n
    BY <1>2
  <2> QED BY <1>4, <2>1 DEF Counts
<1> QED BY <1>1, <1>2, <1>4, <1>7, <1>8 DEF Counts

----------------------------------------------------------------------------
(* The root of a frontier.                                                 *)

\* The roots of the frontier's first levels, with the filler's nodes.
Levels(t, left, right, queue, n, r) ==
  /\ r[0] = combine(0, left, right)
  /\ \A d \in 1..n : r[d] = IF Lacks(t, d) = 0 THEN combine(d, t.parents[d], r[d - 1])
                           ELSE combine(d, r[d - 1], next(queue, Calls(t, d) + 1, d))

LEMMA RootInnerIs ==
  ASSUME NEW t, NEW D \in Nat \ {0}, Len(t.parents) \in Nat, Len(t.parents) < D, NEW queue,
         NEW left, left = (IF t.left = None THEN next(queue, 1, 0) ELSE t.left),
         NEW right, right = (IF t.right = None THEN next(queue, Lacks(t, 0), 0) ELSE t.right)
  PROVE  \E r : Levels(t, left, right, queue, D - 1, r) /\ root_inner(t, D, queue) = r[D - 1]
<1> DEFINE Level(d, x) == IF Lacks(t, d) = 0 THEN combine(d, t.parents[d], x)
                          ELSE combine(d, x, next(queue, Calls(t, d) + 1, d))
           Eqn(n, r) == r = [d \in 0..n |-> IF d = 0 THEN combine(0, left, right)
                                           ELSE Level(d, r[d - 1])]
           T == {n \in Nat : \E r : Eqn(n, r)}
<1>1. 0 \in T
  <2>1. PICK r : r = [d \in 0..0 |-> combine(0, left, right)]
    OBVIOUS
  <2>2. Eqn(0, r)
    BY <2>1
  <2> QED BY <2>2
<1>2. ASSUME NEW n \in Nat, n \in T PROVE n + 1 \in T
  <2>1. PICK r : Eqn(n, r)
    BY <1>2
  <2> HIDE DEF Level
  <2>2. PICK x : x = Level(n + 1, r[n])
    OBVIOUS
  <2>3. PICK f : f = [d \in 0..(n + 1) |-> IF d <= n THEN r[d] ELSE x]
    OBVIOUS
  <2>4. \A d \in 0..n : f[d] = r[d]
    BY <2>3
  <2>5. ASSUME NEW d \in 0..(n + 1)
        PROVE  f[d] = IF d = 0 THEN combine(0, left, right) ELSE Level(d, f[d - 1])
    <3>1. CASE d = 0
      BY <2>1, <2>4, <3>1
    <3>2. CASE d \in 1..n
      <4>1. d - 1 \in 0..n /\ d \in 0..n /\ d # 0
        BY <3>2
      <4>2. r[d] = Level(d, r[d - 1])
        BY <2>1, <4>1
      <4> QED BY <2>4, <4>1, <4>2
    <3>3. CASE d = n + 1
      <4>1. d - 1 = n /\ n \in 0..n /\ d # 0 /\ ~(d <= n)
        BY <3>3
      <4>2. f[d] = x
        BY <2>3, <4>1
      <4> QED BY <2>2, <2>4, <3>3, <4>1, <4>2
    <3> QED BY <3>1, <3>2, <3>3
  <2>6. Eqn(n + 1, f)
    BY <2>3, <2>5
  <2> QED BY <2>6
<1>3. PICK top : top = D - 1
  OBVIOUS
<1>4. top \in Nat /\ top \in T
  <2>1. top \in Nat
    BY <1>3
  <2> HIDE DEF T
  <2> QED BY <1>1, <1>2, <2>1, Induct
<1>5. \E r : Eqn(top, r)
  BY <1>4
<1>6. root_inner(t, D, queue) = (CHOOSE r : Eqn(top, r))[top]
  <2>1. ~(Len(t.parents) >= D)
    OBVIOUS
  <2> QED BY <1>3, <2>1 DEF root_inner
<1>7. PICK r : r = CHOOSE x : Eqn(top, x)
  OBVIOUS
<1>8. Eqn(top, r)
  BY <1>5, <1>7, Zenon
<1> HIDE DEF Level
<1>9. r[0] = combine(0, left, right)
  BY <1>4, <1>8
<1>10. ASSUME NEW d \in 1..top PROVE r[d] = Level(d, r[d - 1])
  <2>1. d \in 0..top /\ d # 0
    BY <1>4
  <2> QED BY <1>8, <2>1
<1>11. Levels(t, left, right, queue, top, r)
  BY <1>9, <1>10 DEF Level, Levels
<1> QED BY <1>3, <1>6, <1>7, <1>11

\* The filler has the right sibling of each node over the leaf that is a left child.
Supplies(queue, q, W, t, D) ==
  \A d \in 0..(D - 1) : ~Odd(q, d) => next(queue, Calls(t, d) + 1, d) = W[d][q[d] + 1]

LEMMA RootOf ==
  ASSUME NEW p \in Nat, NEW q, Above(p, q), NEW W, Rows(W), Nodes(W), NEW t, Frontier(q, W, t),
         NEW D \in 1..Depth, Len(t.parents) < D, NEW queue, Supplies(queue, q, W, t, D)
  PROVE  root_inner(t, D, queue) = W[D][q[D]]
<1>1. /\ t.left # None /\ (t.right # None <=> Odd(q, 0))
      /\ \A d \in 0..(Depth - 1) : Lacks(t, d) = IF Odd(q, d) THEN 0 ELSE 1
      /\ \A d \in 1..(Depth - 1) : Odd(q, d) => d <= Len(t.parents)
  BY LacksIs
<1>2. Len(t.parents) \in Nat /\ D \in Nat \ {0} /\ Depth \in Nat
  BY DepthAssumption, ListIs DEF Frontier
<1>3. PICK left, right : /\ left = (IF t.left = None THEN next(queue, 1, 0) ELSE t.left)
                         /\ right = (IF t.right = None THEN next(queue, Lacks(t, 0), 0) ELSE t.right)
  OBVIOUS
<1>4. PICK r : Levels(t, left, right, queue, D - 1, r) /\ root_inner(t, D, queue) = r[D - 1]
  BY <1>2, <1>3, RootInnerIs
<1>5. left = W[0][2 * q[1]] /\ right = W[0][2 * q[1] + 1]
  <2>1. t.left = W[0][2 * q[1]] /\ t.right = IF Odd(q, 0) THEN W[0][q[0]] ELSE None
    <3>1. PICK a, b, c : a = W[0][2 * q[1]] /\ b = (IF Odd(q, 0) THEN W[0][q[0]] ELSE None) /\ c = t.parents
      OBVIOUS
    <3>2. t = [left |-> a, right |-> b, parents |-> c]
      BY <3>1 DEF Frontier
    <3> QED BY <3>1, <3>2
  <2>2. CASE Odd(q, 0)
    BY <1>1, <1>3, <2>1, <2>2 DEF Odd
  <2>3. CASE ~Odd(q, 0)
    <3>1. 0 \in 0..(Depth - 1) /\ 0 \in 0..(D - 1) /\ 0 + 1 = 1
      BY <1>2
    <3>2. Lacks(t, 0) = 1
      BY <1>1, <2>3, <3>1
    <3>3. Calls(t, 0) = 0
      <4>1. \A e \in 0..0 : Lacks(t, e) \in Nat
        BY <3>2
      <4> QED BY <4>1, CallsNext
    <3>4. q[0] = 2 * q[1]
      BY <2>3, <3>1 DEF Odd, Above
    <3>5. next(queue, Calls(t, 0) + 1, 0) = W[0][q[0] + 1]
      BY <2>3, <3>1 DEF Supplies
    <3>6. next(queue, 1, 0) = W[0][2 * q[1] + 1]
      BY <3>3, <3>4, <3>5
    <3> QED BY <1>1, <1>3, <2>1, <2>3, <3>2, <3>6
  <2> QED BY <2>2, <2>3
<1> DEFINE T == {d \in Nat : r[d] = W[d + 1][q[d + 1]]}
<1>6. 0 \in T
  <2>1. q[1] \in Nat /\ 1 \in 1..Depth /\ 1 - 1 = 0
    BY <1>2 DEF Above
  <2>2. W[1][q[1]] = combine(0, W[0][2 * q[1]], W[0][2 * q[1] + 1])
    BY <2>1 DEF Rows
  <2> QED BY <1>4, <1>5, <2>2 DEF Levels
<1>7. ASSUME NEW e \in 0..(D - 2), e \in T PROVE e + 1 \in T
  <2>1. PICK d, f : d = e + 1 /\ f = d + 1
    OBVIOUS
  <2>2. /\ d \in 0..(D - 1) /\ d \in 1..(D - 1) /\ d \in 1..(Depth - 1) /\ d \in 0..(Depth - 1) /\ d \in Nat
        /\ d - 1 = e /\ f \in 1..Depth /\ f - 1 = d /\ d \in 0..Depth
    BY <1>2, <2>1
  <2>3. r[e] = W[d][q[d]]
    BY <1>7, <2>1
  <2>4. /\ q[f] \in Nat /\ q[d] \in Nat /\ (q[d] = 2 * q[f] \/ q[d] = 2 * q[f] + 1)
        /\ (Odd(q, d) <=> q[d] = 2 * q[f] + 1)
    BY <2>1, <2>2 DEF Above, Odd
  <2>5. W[f][q[f]] = combine(d, W[d][2 * q[f]], W[d][2 * q[f] + 1])
    BY <2>2, <2>4 DEF Rows
  <2>6. r[d] = IF Lacks(t, d) = 0 THEN combine(d, t.parents[d], r[e])
               ELSE combine(d, r[e], next(queue, Calls(t, d) + 1, d))
    BY <1>4, <2>2 DEF Levels
  <2>7. CASE Odd(q, d)
    <3>1. Lacks(t, d) = 0 /\ d \in 1..Len(t.parents)
      BY <1>1, <1>2, <2>2, <2>7
    <3>2. t.parents[d] = W[d][q[d] - 1]
      BY <2>7, <3>1 DEF Frontier
    <3>3. q[d] - 1 = 2 * q[f] /\ q[d] = 2 * q[f] + 1
      BY <2>4, <2>7
    <3>4. r[d] = combine(d, W[d][2 * q[f]], W[d][2 * q[f] + 1])
      BY <2>3, <2>6, <3>1, <3>2, <3>3
    <3> QED BY <2>1, <2>2, <2>5, <3>4
  <2>8. CASE ~Odd(q, d)
    <3>1. Lacks(t, d) = 1
      BY <1>1, <2>2, <2>8
    <3>2. next(queue, Calls(t, d) + 1, d) = W[d][q[d] + 1]
      BY <2>2, <2>8 DEF Supplies
    <3>3. q[d] = 2 * q[f]
      BY <2>4, <2>8
    <3>4. r[d] = combine(d, W[d][2 * q[f]], W[d][2 * q[f] + 1])
      BY <2>3, <2>6, <3>1, <3>2, <3>3
    <3> QED BY <2>1, <2>2, <2>5, <3>4
  <2> QED BY <2>7, <2>8
<1>8. PICK n : n = D - 1
  OBVIOUS
<1>9. n \in Nat /\ n - 1 = D - 2 /\ n + 1 = D /\ n \in 0..n
  BY <1>2, <1>8
<1>10. n \in T
  <2> HIDE DEF T
  <2>1. \A i \in 0..n : i \in T
    BY <1>6, <1>7, <1>9, InductUpTo
  <2> QED BY <1>9, <2>1
<1> QED BY <1>4, <1>8, <1>9, <1>10

----------------------------------------------------------------------------
(* A leaf is appended to a frontier.                                       *)

LEMMA FrontierSame ==
  ASSUME NEW p \in Nat, NEW q, Above(p, q), NEW W, Rows(W), NEW V, Rows(V),
         \A i \in Nat : i <= p => V[0][i] = W[0][i], NEW t, Frontier(q, W, t)
  PROVE  Frontier(q, V, t)
<1>1. /\ Depth \in Nat \ {0} /\ q[0] = p /\ q[1] \in Nat /\ 2 * q[1] \in Nat
      /\ (q[0] = 2 * q[1] \/ q[0] = 2 * q[1] + 1)
  <2>1. 0 \in 0..(Depth - 1) /\ 0 + 1 = 1 /\ 1 \in 0..Depth
    BY DepthAssumption
  <2>2. q[0] = 2 * q[1] \/ q[0] = 2 * q[1] + 1
    BY <2>1 DEF Above
  <2> QED BY <2>1, <2>2, DepthAssumption DEF Above
<1>2. \A h \in 0..Depth : \A i \in Nat : i < q[h] => V[h][i] = W[h][i]
  <2>1. \A i \in Nat : i < p => V[0][i] = W[0][i]
    OBVIOUS
  <2> QED BY <2>1, SameBefore
<1>3. 2 * q[1] <= p
  BY <1>1
<1>4. V[0][2 * q[1]] = W[0][2 * q[1]] /\ V[0][q[0]] = W[0][q[0]]
  BY <1>1, <1>3
<1>5. ASSUME NEW d \in 1..Len(t.parents), Odd(q, d) PROVE V[d][q[d] - 1] = W[d][q[d] - 1]
  <2>1. Len(t.parents) \in Nat /\ Len(t.parents) < Depth
    BY ListIs DEF Frontier
  <2>2. d \in 0..Depth /\ d + 1 \in 0..Depth
    BY <1>1, <2>1
  <2>3. q[d] \in Nat /\ q[d + 1] \in Nat /\ q[d] = 2 * q[d + 1] + 1
    BY <1>5, <2>2 DEF Above, Odd
  <2>4. q[d] - 1 \in Nat /\ q[d] - 1 < q[d]
    BY <2>3
  <2> QED BY <1>2, <2>2, <2>4
<1>6. \A d \in 1..Len(t.parents) : t.parents[d] = IF Odd(q, d) THEN V[d][q[d] - 1] ELSE None
  BY <1>5 DEF Frontier
<1> QED BY <1>4, <1>6 DEF Frontier

\* The subtrees that are carried up.
Carried(t, k, u) ==
  /\ u[0] = combine(0, t.left, t.right)
  /\ \A i \in 1..(k - 1) : u[i] = combine(i, t.parents[i], u[i - 1])

LEMMA UpExists ==
  ASSUME NEW t, NEW k \in Nat \ {0},
         NEW up, up = CHOOSE u : u = [i \in 0..(k - 1) |-> IF i = 0 THEN combine(0, t.left, t.right)
                                                        ELSE combine(i, t.parents[i], u[i - 1])]
  PROVE  Carried(t, k, up)
<1> DEFINE Eqn(n, u) == u = [i \in 0..n |-> IF i = 0 THEN combine(0, t.left, t.right)
                                           ELSE combine(i, t.parents[i], u[i - 1])]
           T == {n \in Nat : \E u : Eqn(n, u)}
<1>1. 0 \in T
  <2>1. PICK u : u = [i \in 0..0 |-> combine(0, t.left, t.right)]
    OBVIOUS
  <2>2. Eqn(0, u)
    BY <2>1
  <2> QED BY <2>2
<1>2. ASSUME NEW n \in Nat, n \in T PROVE n + 1 \in T
  <2>1. PICK u : Eqn(n, u)
    BY <1>2
  <2>2. PICK x : x = combine(n + 1, t.parents[n + 1], u[n])
    OBVIOUS
  <2>3. PICK f : f = [i \in 0..(n + 1) |-> IF i <= n THEN u[i] ELSE x]
    OBVIOUS
  <2>4. \A i \in 0..n : f[i] = u[i]
    BY <2>3
  <2>5. ASSUME NEW i \in 0..(n + 1)
        PROVE  f[i] = IF i = 0 THEN combine(0, t.left, t.right) ELSE combine(i, t.parents[i], f[i - 1])
    <3>1. CASE i = 0
      BY <2>1, <2>4, <3>1
    <3>2. CASE i \in 1..n
      <4>1. i - 1 \in 0..n /\ i \in 0..n /\ i # 0
        BY <3>2
      <4>2. u[i] = combine(i, t.parents[i], u[i - 1])
        BY <2>1, <4>1
      <4> QED BY <2>4, <4>1, <4>2
    <3>3. CASE i = n + 1
      <4>1. i - 1 = n /\ n \in 0..n /\ i # 0 /\ ~(i <= n)
        BY <3>3
      <4>2. f[i] = x
        BY <2>3, <4>1
      <4> QED BY <2>2, <2>4, <3>3, <4>1, <4>2
    <3> QED BY <3>1, <3>2, <3>3
  <2>6. Eqn(n + 1, f)
    BY <2>3, <2>5
  <2> QED BY <2>6
<1>3. PICK n : n = k - 1
  OBVIOUS
<1>4. n \in Nat /\ n \in T
  <2>1. n \in Nat
    BY <1>3
  <2> HIDE DEF T
  <2> QED BY <1>1, <1>2, <2>1, Induct
<1>5. \E u : Eqn(n, u)
  BY <1>4
<1>6. Eqn(n, up)
  <2>1. up = CHOOSE u : Eqn(n, u)
    BY <1>3
  <2> QED BY <1>5, <2>1, Zenon
<1>7. up[0] = combine(0, t.left, t.right)
  <2>1. 0 \in 0..n
    BY <1>4
  <2> QED BY ONLY <1>6, <2>1
<1>8. ASSUME NEW i \in 1..n PROVE up[i] = combine(i, t.parents[i], up[i - 1])
  <2>1. i \in 0..n /\ i # 0
    BY <1>4
  <2> QED BY ONLY <1>6, <2>1
<1> QED BY <1>3, <1>7, <1>8 DEF Carried

\* The level that takes the pair is the first without a subtree.
FirstFree(t, k) ==
  /\ k \in 1..(Len(t.parents) + 1) /\ (k = Len(t.parents) + 1 \/ t.parents[k] = None)
  /\ \A j \in 1..(k - 1) : t.parents[j] # None

CarriedTo(t, node, k, u) ==
  [left |-> node, right |-> None,
   parents |-> [i \in 1..(IF k > Len(t.parents) THEN k ELSE Len(t.parents)) |->
                  IF i < k THEN None ELSE IF i = k THEN u[k - 1] ELSE t.parents[i]]]

LEMMA CarryIs ==
  ASSUME NEW t, Len(t.parents) \in Nat, NEW node
  PROVE  \E k, u :
           /\ FirstFree(t, k) /\ Carried(t, k, u)
           /\ Carry(t, node) = CarriedTo(t, node, k, u)
<1> DEFINE n == Len(t.parents)
           Free(i) == (i = n + 1 \/ t.parents[i] = None) /\ \A j \in 1..(i - 1) : t.parents[j] # None
           F == {i \in 1..(n + 1) : i = n + 1 \/ t.parents[i] = None}
           k == CHOOSE i \in 1..(n + 1) : Free(i)
           u == CHOOSE x : x = [i \in 0..(k - 1) |-> IF i = 0 THEN combine(0, t.left, t.right)
                                                   ELSE combine(i, t.parents[i], x[i - 1])]
<1>1. Carry(t, node) = CarriedTo(t, node, k, u)
  BY DEF Carry, CarriedTo
<1>2. k \in 1..(n + 1) /\ Free(k)
  <2>1. n + 1 \in F /\ F \in SUBSET Nat
    OBVIOUS
  <2>2. PICK x \in F : \A y \in F : x <= y
    BY <2>1, Least
  <2>3. ASSUME NEW j \in 1..(x - 1) PROVE t.parents[j] # None
    <3>1. j \in 1..(n + 1) /\ ~(x <= j)
      BY <2>2
    <3> QED BY <2>2, <3>1
  <2>4. Free(x) /\ x \in 1..(n + 1)
    BY <2>2, <2>3
  <2> HIDE DEF Free
  <2> QED BY <2>4, Zenon
<1>3. k \in Nat \ {0}
  <2> HIDE DEF k
  <2> QED BY <1>2
<1>4. u = CHOOSE x : x = [i \in 0..(k - 1) |-> IF i = 0 THEN combine(0, t.left, t.right)
                                            ELSE combine(i, t.parents[i], x[i - 1])]
  OBVIOUS
<1> HIDE DEF k, u
<1>5. Carried(t, k, u)
  BY <1>3, <1>4, UpExists
<1>6. FirstFree(t, k)
  BY <1>2 DEF FirstFree
<1> QED BY <1>1, <1>5, <1>6

\* A left child at each place: the leaf goes to the right, and nothing else moves.
LEMMA AppendRight ==
  ASSUME NEW p \in Nat, NEW q, Above(p, q), NEW r, Above(p + 1, r), ~Odd(q, 0),
         NEW V, Nodes(V), NEW t, Frontier(q, V, t), NEW node, node = V[0][p + 1]
  PROVE  Frontier(r, V, AppendNode(t, node)) /\ AppendNode(t, node).parents = t.parents
<1>1. Depth \in Nat \ {0} /\ q[0] = p /\ r[0] = p + 1 /\ 0 \in 0..(Depth - 1)
  BY DepthAssumption DEF Above
<1>2. \A j \in 1..Depth : r[j] = q[j]
  <2>1. 0 \in 0..Depth /\ \A j \in 0..(0 - 1) : Odd(q, j)
    BY <1>1
  <2>2. 0 < Depth /\ ~Odd(q, 0) => \A j \in (0 + 1)..Depth : r[j] = q[j]
    BY <2>1, NextLeaf
  <2> QED BY <1>1, <2>2
<1>3. r[1] = q[1] /\ q[1] \in Nat /\ p = 2 * q[1]
  <2>1. 1 \in 1..Depth /\ 1 \in 0..Depth /\ 0 + 1 = 1
    BY <1>1
  <2>2. q[0] = 2 * q[1]
    BY <1>1, <2>1 DEF Above, Odd
  <2> QED BY <1>1, <1>2, <2>1, <2>2 DEF Above
<1>4. Odd(r, 0)
  BY <1>1, <1>3 DEF Odd
<1>5. PICK a, s : a = V[0][2 * q[1]] /\ s = t.parents
  OBVIOUS
<1>6. t = [left |-> a, right |-> None, parents |-> s]
  BY <1>5 DEF Frontier
<1>7. a # None
  BY <1>1, <1>3, <1>5 DEF Nodes
<1>8. AppendNode(t, node) = [left |-> a, right |-> node, parents |-> s]
  BY ONLY <1>6, <1>7 DEF AppendNode
<1>9. IsList(s) /\ Len(s) \in Nat /\ Len(s) < Depth /\ r[Len(s) + 1] = 0
  <2>1. Len(s) \in Nat /\ Len(s) < Depth /\ q[Len(s) + 1] = 0 /\ IsList(s)
    BY <1>5, ListIs DEF Frontier
  <2>2. Len(s) + 1 \in 1..Depth
    BY <1>1, <2>1
  <2> QED BY <1>2, <2>1, <2>2
<1>10. ASSUME NEW d \in 1..Len(s) PROVE s[d] = IF Odd(r, d) THEN V[d][r[d] - 1] ELSE None
  <2>1. d \in 1..Depth /\ d + 1 \in 1..Depth
    BY <1>1, <1>9
  <2>2. r[d] = q[d] /\ r[d + 1] = q[d + 1]
    BY <1>2, <2>1
  <2> QED BY <1>5, <2>2 DEF Frontier, Odd
<1>11. PICK c : c = AppendNode(t, node)
  OBVIOUS
<1>12. c.parents = s /\ c = [left |-> a, right |-> node, parents |-> c.parents]
  BY <1>8, <1>11
<1>13. V[0][2 * r[1]] = a /\ V[0][r[0]] = node
  BY <1>1, <1>3, <1>5
<1>14. Frontier(r, V, c)
  BY <1>4, <1>9, <1>10, <1>12, <1>13 DEF Frontier
<1> QED BY <1>5, <1>11, <1>12, <1>14

\* A full pair: it is carried up to the first node that is a left child.
LEMMA AppendCarry ==
  ASSUME NEW p \in Nat, NEW q, Above(p, q), NEW r, Above(p + 1, r), Odd(q, 0),
         NEW V, Rows(V), Nodes(V), NEW t, Frontier(q, V, t), NEW node, node = V[0][p + 1],
         NEW D \in 1..Depth, Len(t.parents) < D, ~is_complete(t, D)
  PROVE  Frontier(r, V, AppendNode(t, node)) /\ Len(AppendNode(t, node).parents) < D
<1>1. /\ Depth \in Nat \ {0} /\ D \in Nat \ {0} /\ D <= Depth
      /\ \A j \in 0..Depth : q[j] \in Nat /\ r[j] \in Nat
      /\ \A j \in 0..(Depth - 1) : q[j] = 2 * q[j + 1] \/ q[j] = 2 * q[j + 1] + 1
  BY DepthAssumption DEF Above
<1>2. PICK s, n : s = t.parents /\ n = Len(s)
  OBVIOUS
<1>3. DOMAIN s = 1..n /\ n \in Nat /\ n < D /\ q[n + 1] = 0
  BY <1>2, ListIs DEF Frontier
<1>4. t.left # None /\ t.right # None
  BY LacksIs
<1>5. t.left = V[0][2 * q[1]] /\ t.right = V[0][q[0]]
  <2>1. PICK a, b, c : a = V[0][2 * q[1]] /\ b = V[0][q[0]] /\ c = t.parents
    OBVIOUS
  <2>2. t = [left |-> a, right |-> b, parents |-> c]
    BY <2>1 DEF Frontier
  <2> QED BY <2>1, <2>2
<1>6. PICK k, u :
        /\ FirstFree(t, k) /\ Carried(t, k, u)
        /\ Carry(t, node) = CarriedTo(t, node, k, u)
  BY <1>2, <1>3, CarryIs
<1>7. k \in 1..(n + 1) /\ (k = n + 1 \/ s[k] = None) /\ \A j \in 1..(k - 1) : s[j] # None
  BY <1>2, <1>6 DEF FirstFree
<1>8. k < D
  <2>1. CASE k <= n
    BY <1>1, <1>3, <1>7, <2>1
  <2>2. CASE k = n + 1
    <3>1. \A j \in DOMAIN s : s[j] # None
      BY <1>3, <1>7, <2>2
    <3>2. n # D - 1
      BY <1>2, <1>4, <3>1 DEF is_complete
    <3> QED BY <1>1, <1>3, <2>2, <3>2
  <2> QED BY <1>3, <1>7, <2>1, <2>2
<1>9. k \in Nat /\ k \in 0..Depth /\ k < Depth /\ k \in 1..(Depth - 1) /\ k + 1 \in 0..Depth
  BY <1>1, <1>3, <1>7, <1>8
<1>10. \A d \in 1..n : s[d] = IF Odd(q, d) THEN V[d][q[d] - 1] ELSE None
  BY <1>2 DEF Frontier
<1>11. \A j \in 0..(k - 1) : Odd(q, j)
  <2>1. ASSUME NEW j \in 0..(k - 1), j # 0 PROVE Odd(q, j)
    <3>1. j \in 1..(k - 1) /\ j \in 1..n
      BY <1>3, <1>7, <1>9, <2>1
    <3> QED BY <1>7, <1>10, <3>1
  <2> QED BY <2>1
<1>12. ~Odd(q, k)
  <2>1. q[k] \in Nat /\ q[k + 1] \in Nat
    BY <1>1, <1>9
  <2>2. CASE k = n + 1
    BY <1>3, <2>1, <2>2 DEF Odd
  <2>3. CASE k <= n /\ s[k] = None
    <3>1. k \in 1..n
      BY <1>3, <1>7, <2>3
    <3>2. ASSUME Odd(q, k) PROVE FALSE
      <4>1. s[k] = V[k][q[k] - 1]
        BY <1>10, <3>1, <3>2
      <4>2. q[k] - 1 \in Nat
        BY <2>1, <3>2 DEF Odd
      <4>3. V[k][q[k] - 1] # None
        BY <1>9, <4>2 DEF Nodes
      <4> QED BY <2>3, <4>1, <4>3
    <3> QED BY <3>2
  <2> QED BY <1>3, <1>7, <2>2, <2>3
<1>13. /\ \A j \in 0..k : r[j] = q[j] + 1
       /\ \A j \in (k + 1)..Depth : r[j] = q[j]
  BY <1>9, <1>11, <1>12, NextLeaf
<1>14. ASSUME NEW i \in 0..(k - 1) PROVE u[i] = V[i + 1][q[i + 1]]
  <2> DEFINE T == {j \in Nat : u[j] = V[j + 1][q[j + 1]]}
  <2>1. 0 \in T
    <3>1. 1 \in 1..Depth /\ 1 - 1 = 0 /\ q[1] \in Nat
      BY <1>1
    <3>2. V[1][q[1]] = combine(0, V[0][2 * q[1]], V[0][2 * q[1] + 1])
      BY <3>1 DEF Rows
    <3>3. q[0] = 2 * q[1] + 1
      BY DEF Odd
    <3>4. u[0] = combine(0, t.left, t.right)
      BY <1>6 DEF Carried
    <3> QED BY <1>5, <3>2, <3>3, <3>4
  <2>2. ASSUME NEW e \in 0..(k - 2), e \in T PROVE e + 1 \in T
    <3>1. PICK d, f : d = e + 1 /\ f = d + 1
      OBVIOUS
    <3>2. /\ d \in 1..(k - 1) /\ d \in 0..(k - 1) /\ d \in 1..n /\ d - 1 = e /\ d \in Nat
          /\ f \in 1..Depth /\ f \in 0..Depth /\ f - 1 = d
      BY <1>1, <1>3, <1>7, <1>9, <3>1
    <3>3. u[e] = V[d][q[d]]
      BY <2>2, <3>1
    <3>4. u[d] = combine(d, s[d], u[e])
      BY <1>2, <1>6, <3>2 DEF Carried
    <3>5. q[d] = 2 * q[f] + 1 /\ q[f] \in Nat
      BY <1>1, <1>11, <3>1, <3>2 DEF Odd
    <3>6. s[d] = V[d][q[d] - 1]
      BY <1>10, <1>11, <3>2
    <3>7. V[f][q[f]] = combine(d, V[d][2 * q[f]], V[d][2 * q[f] + 1])
      BY <3>2, <3>5 DEF Rows
    <3>8. q[d] - 1 = 2 * q[f]
      BY <3>5
    <3>9. u[d] = V[f][q[f]]
      BY <3>3, <3>4, <3>5, <3>6, <3>7, <3>8
    <3> QED BY <3>1, <3>2, <3>9
  <2>3. PICK m : m = k - 1
    OBVIOUS
  <2>4. m \in Nat /\ m - 1 = k - 2
    BY <1>9, <2>3
  <2>5. \A j \in 0..m : j \in T
    <3> HIDE DEF T
    <3> QED BY <2>1, <2>2, <2>4, InductUpTo
  <2> QED BY <2>3, <2>5
<1>15. PICK m : m = IF k > n THEN k ELSE n
  OBVIOUS
<1>16. m \in Nat /\ m >= k /\ m >= n /\ m < D /\ m < Depth /\ m + 1 \in (k + 1)..Depth /\ (m = k \/ m = n)
  BY <1>1, <1>3, <1>8, <1>9, <1>15
<1>17. PICK parents : parents = [i \in 1..m |-> IF i < k THEN None ELSE IF i = k THEN u[k - 1] ELSE s[i]]
  OBVIOUS
<1>18. AppendNode(t, node) = [left |-> node, right |-> None, parents |-> parents]
  BY <1>2, <1>4, <1>6, <1>15, <1>17 DEF AppendNode, CarriedTo
<1>19. IsList(parents) /\ Len(parents) = m
  <2>1. parents = [i \in 1..m |-> parents[i]]
    BY <1>17
  <2> QED BY <1>16, <2>1, IsAList
<1>20. r[m + 1] = 0
  <2>1. r[m + 1] = q[m + 1]
    BY <1>13, <1>16
  <2>2. n + 1 \in 0..Depth /\ m + 1 \in (n + 1)..Depth
    BY <1>1, <1>3, <1>16
  <2>3. q[m + 1] = 0
    BY <1>3, <2>2, FirstAbove
  <2> QED BY <2>1, <2>3
<1>21. ASSUME NEW d \in 1..m PROVE parents[d] = IF Odd(r, d) THEN V[d][r[d] - 1] ELSE None
  <2>1. d \in 0..Depth /\ d + 1 \in 0..Depth /\ q[d] \in Nat /\ q[d + 1] \in Nat
    BY <1>1, <1>16
  <2>2. CASE d < k
    <3>1. d \in 0..(k - 1) /\ d \in 0..k /\ d + 1 \in 0..k
      BY <1>9, <2>2
    <3>2. r[d] = q[d] + 1 /\ r[d + 1] = q[d + 1] + 1 /\ q[d] = 2 * q[d + 1] + 1
      BY <1>11, <1>13, <3>1 DEF Odd
    <3>3. ~Odd(r, d)
      BY SMTT(30), <2>1, <3>2 DEF Odd
    <3> QED BY <1>17, <2>2, <3>3
  <2>3. CASE d = k
    <3>1. d \in 0..k /\ d + 1 \in (k + 1)..Depth /\ d \in 0..(Depth - 1)
      BY <1>9, <2>3
    <3>2. r[d] = q[d] + 1 /\ r[d + 1] = q[d + 1] /\ q[d] = 2 * q[d + 1]
      BY <1>1, <1>12, <1>13, <2>3, <3>1 DEF Odd
    <3>3. Odd(r, d) /\ r[d] - 1 = q[d]
      BY <2>1, <3>2 DEF Odd
    <3>4. u[k - 1] = V[k][q[k]]
      <4>1. k - 1 \in 0..(k - 1) /\ (k - 1) + 1 = k
        BY <1>9
      <4> QED BY <1>14, <4>1
    <3>5. parents[d] = u[k - 1]
      BY <1>9, <1>17, <2>3
    <3> QED BY <2>3, <3>3, <3>4, <3>5
  <2>4. CASE d > k
    <3>1. d \in 1..n /\ d \in (k + 1)..Depth /\ d + 1 \in (k + 1)..Depth
      BY <1>1, <1>9, <1>16, <2>4
    <3>2. r[d] = q[d] /\ r[d + 1] = q[d + 1]
      BY <1>13, <3>1
    <3>3. parents[d] = s[d]
      BY <1>9, <1>17, <2>4
    <3> QED BY <1>10, <3>1, <3>2, <3>3 DEF Odd
  <2> QED BY <1>9, <2>2, <2>3, <2>4
<1>22. PICK c : c = AppendNode(t, node)
  OBVIOUS
<1>23. c.parents = parents /\ c = [left |-> node, right |-> None, parents |-> c.parents]
  BY <1>18, <1>22
<1>24. ~Odd(r, 0) /\ 2 * r[1] = p + 1
  <2>1. r[0] = p + 1 /\ q[0] = p /\ q[0] = 2 * q[1] + 1 /\ q[1] \in Nat
    BY <1>1 DEF Above, Odd
  <2>2. r[1] = q[1] + 1
    BY <1>9, <1>13
  <2> QED BY <2>1, <2>2 DEF Odd
<1>25. Frontier(r, V, c)
  BY <1>16, <1>19, <1>20, <1>21, <1>23, <1>24 DEF Frontier
<1> QED BY <1>16, <1>19, <1>22, <1>23, <1>25

----------------------------------------------------------------------------
(* The tree of the ledger.                                                 *)

\* The frontier of the coins, which fit into a tree of depth D.
TreeInv(D, coins, t) ==
  /\ IsList(coins) /\ \A i \in DOMAIN coins : coins[i] # None
  /\ coins = <<>> => t = empty
  /\ coins # <<>> => \E q : Above(Len(coins) - 1, q) /\ Frontier(q, WholeTree(coins), t) /\ Len(t.parents) < D

LEMMA WholeNodes ==
  ASSUME NEW coins, IsList(coins), \A i \in DOMAIN coins : coins[i] # None
  PROVE  Nodes(WholeTree(coins))
<1>1. PICK W : W = WholeTree(coins)
  OBVIOUS
<1>2. Rows(W) /\ Leaves(W, coins)
  BY <1>1, WholeTreeIs
<1>3. DOMAIN coins = 1..Len(coins) /\ Len(coins) \in Nat
  BY ListIs
<1>4. ASSUME NEW i \in Nat PROVE W[0][i] # None
  <2>1. W[0][i] = IF i < Len(coins) THEN coins[i + 1] ELSE blank
    BY <1>2 DEF Leaves
  <2>2. blank # None
    BY DEF blank, None
  <2>3. i < Len(coins) => i + 1 \in DOMAIN coins
    BY <1>3
  <2> QED BY <2>1, <2>2, <2>3
<1> QED BY <1>1, <1>2, <1>4, NodesIs

LEMMA EmptyList ==
  ASSUME NEW s, IsList(s), Len(s) = 0
  PROVE  s = <<>>
<1>1. PICK S : S = {s[i] : i \in DOMAIN s}
  OBVIOUS
<1>2. s \in Seq(S)
  BY <1>1 DEF IsList
<1> QED BY <1>2, EmptySeq

LEMMA TreeAdded ==
  ASSUME NEW D \in 1..Depth, NEW coins, NEW t, TreeInv(D, coins, t), ~is_complete(t, D),
         NEW coin, coin # None
  PROVE  TreeInv(D, Append(coins, coin), AppendNode(t, coin))
<1>1. PICK n, new : n = Len(coins) /\ new = Append(coins, coin)
  OBVIOUS
<1>2. /\ IsList(new) /\ Len(new) = n + 1 /\ n \in Nat /\ DOMAIN coins = 1..n /\ DOMAIN new = 1..(n + 1)
      /\ new[n + 1] = coin /\ \A i \in 1..n : new[i] = coins[i]
  BY <1>1, ListAppend DEF TreeInv
<1>3. \A i \in DOMAIN new : new[i] # None
  BY <1>2 DEF TreeInv
<1>4. PICK W, V : W = WholeTree(coins) /\ V = WholeTree(new)
  OBVIOUS
<1>5. Rows(W) /\ Leaves(W, coins) /\ Rows(V) /\ Leaves(V, new) /\ Nodes(V)
  BY <1>2, <1>3, <1>4, WholeTreeIs, WholeNodes
<1>6. V[0][n] = coin
  <2>1. V[0][n] = IF n < Len(new) THEN new[n + 1] ELSE blank
    BY <1>2, <1>5 DEF Leaves
  <2> QED BY <1>2, <2>1
<1>7. PICK r : Above(n, r)
  BY <1>2, AboveExists
<1>8. Depth \in Nat \ {0} /\ D \in Nat \ {0}
  BY DepthAssumption
<1>9. new # <<>>
  BY <1>2
<1>10. Frontier(r, V, AppendNode(t, coin)) /\ Len(AppendNode(t, coin).parents) < D
  <2>1. CASE n = 0
    <3>1. coins = <<>> /\ t = empty
      <4>1. coins = <<>>
        BY <1>1, <2>1, EmptyList DEF TreeInv
      <4> QED BY <4>1 DEF TreeInv
    <3>2. PICK c : c = AppendNode(t, coin)
      OBVIOUS
    <3>3. c = [left |-> coin, right |-> None, parents |-> <<>>]
      BY <3>1, <3>2 DEF AppendNode, empty
    <3>4. r[0] = 0 /\ 0 \in 0..Depth /\ 1 \in 0..Depth
      BY <1>7, <1>8, <2>1 DEF Above
    <3>5. r[1] = 0
      <4>1. 1 \in 0..Depth /\ 0 \in Nat
        BY <3>4
      <4> QED BY <1>7, <1>8, <2>1, <3>4, FirstAbove
    <3>6. ~Odd(r, 0)
      BY <3>4, <3>5 DEF Odd
    <3>7. c.parents = <<>> /\ c = [left |-> coin, right |-> None, parents |-> c.parents]
      BY <3>3
    <3>8. IsList(<<>>) /\ Len(<<>>) = 0
      BY DEF IsList
    <3>9. V[0][2 * r[1]] = coin
      BY <1>6, <2>1, <3>5
    <3>10. Len(c.parents) < Depth /\ Len(c.parents) < D /\ IsList(c.parents) /\ r[Len(c.parents) + 1] = 0
      BY <1>8, <3>5, <3>7, <3>8
    <3>11. \A d \in 1..Len(c.parents) : c.parents[d] = IF Odd(r, d) THEN V[d][r[d] - 1] ELSE None
      BY <3>7, <3>8
    <3>12. Frontier(r, V, c)
      BY <3>6, <3>7, <3>9, <3>10, <3>11 DEF Frontier
    <3> QED BY <3>2, <3>10, <3>12
  <2>2. CASE n # 0
    <3>1. PICK p : p = n - 1
      OBVIOUS
    <3>2. p \in Nat /\ p + 1 = n
      BY <1>2, <2>2, <3>1
    <3>3. coins # <<>>
      BY <1>1, <2>2
    <3>4. PICK q : Above(p, q) /\ Frontier(q, W, t) /\ Len(t.parents) < D
      BY <1>1, <1>4, <3>1, <3>3 DEF TreeInv
    <3>5. \A i \in Nat : i <= p => V[0][i] = W[0][i]
      <4>1. ASSUME NEW i \in Nat, i <= p PROVE V[0][i] = W[0][i]
        <5>1. i < Len(new) /\ i < Len(coins) /\ i + 1 \in 1..n
          BY <1>1, <1>2, <3>2, <4>1
        <5> QED BY <1>2, <1>5, <5>1 DEF Leaves
      <4> QED BY <4>1
    <3>6. Frontier(q, V, t)
      BY <1>5, <3>2, <3>4, <3>5, FrontierSame
    <3>7. coin = V[0][p + 1] /\ Above(p + 1, r)
      BY <1>6, <1>7, <3>2
    <3>8. CASE Odd(q, 0)
      BY <1>5, <3>2, <3>4, <3>6, <3>7, <3>8, AppendCarry
    <3>9. CASE ~Odd(q, 0)
      BY <1>5, <3>2, <3>4, <3>6, <3>7, <3>9, AppendRight
    <3> QED BY <3>8, <3>9
  <2> QED BY <2>1, <2>2
<1>11. Len(new) - 1 = n
  BY <1>2
<1> QED BY <1>1, <1>2, <1>3, <1>4, <1>7, <1>9, <1>10, <1>11 DEF TreeInv

\* Without leaves every node is empty.
LEMMA EmptyTree ==
  ASSUME NEW W, Rows(W), \A i \in Nat : W[0][i] = blank
  PROVE  \A h \in 0..Depth : \A i \in Nat : W[h][i] = empty_root[h]
<1> DEFINE T == {h \in Nat : \A i \in Nat : W[h][i] = empty_root[h]}
<1>1. 0 \in T
  BY EmptyRoots
<1>2. ASSUME NEW h \in 0..(Depth - 1), h \in T PROVE h + 1 \in T
  <2>1. h + 1 \in 1..Depth /\ (h + 1) - 1 = h /\ h + 1 \in Nat
    BY DepthAssumption
  <2>2. ASSUME NEW i \in Nat PROVE W[h + 1][i] = empty_root[h + 1]
    <3>1. PICK a, b : a = 2 * i /\ b = 2 * i + 1
      OBVIOUS
    <3>2. a \in Nat /\ b \in Nat
      BY <3>1
    <3>3. W[h][a] = empty_root[h] /\ W[h][b] = empty_root[h]
      BY <1>2, <3>2
    <3>4. W[h + 1][i] = combine(h, W[h][a], W[h][b])
      BY <2>1, <3>1 DEF Rows
    <3>5. empty_root[h + 1] = combine(h, empty_root[h], empty_root[h])
      BY <2>1, EmptyRoots
    <3> QED BY <3>3, <3>4, <3>5
  <2> QED BY <2>1, <2>2
<1> HIDE DEF T
<1>3. \A h \in 0..Depth : h \in T
  BY <1>1, <1>2, DepthAssumption, InductUpTo
<1> QED BY <1>3 DEF T

\* A filler without nodes.
LEMMA NextEmpty ==
  ASSUME NEW n \in Nat \ {0}, NEW d
  PROVE  next(<<>>, n, d) = empty_root[d]
BY DEF next

LEMMA EmptyTreeRoot ==
  ASSUME NEW D \in 1..Depth
  PROVE  root_inner(empty, D, <<>>) = empty_root[D]
<1>1. Depth \in Nat \ {0} /\ D \in Nat \ {0}
  BY DepthAssumption
<1>2. PICK t : t = empty
  OBVIOUS
<1>3. t.left = None /\ t.right = None /\ t.parents = <<>> /\ Len(t.parents) = 0
  BY <1>2 DEF empty
<1>4. \A d \in Nat \ {0} : Lacks(t, d) = 1
  BY <1>3 DEF Lacks
<1>5. Lacks(t, 0) \in Nat \ {0}
  <2>1. PICK N : N = {s \in {"left", "right"} : t[s] = None}
    OBVIOUS
  <2>2. Lacks(t, 0) = Cardinality(N) /\ "left" \in N
    BY <1>3, <2>1 DEF Lacks
  <2>3. IsFiniteSet({"left", "right"}) /\ N \subseteq {"left", "right"}
    <3>1. PICK S, x : S = {"left"} /\ x = "right"
      OBVIOUS
    <3>2. IsFiniteSet(S)
      BY <3>1, FS_Singleton
    <3>3. IsFiniteSet(S \cup {x})
      BY ONLY <3>2, FS_AddElement
    <3>4. S \cup {x} = {"left", "right"}
      BY <3>1
    <3> QED BY <2>1, <3>3, <3>4
  <2>4. IsFiniteSet(N)
    BY <2>3, FS_Subset
  <2> QED BY <2>2, <2>4, FS_CardinalityType, FS_EmptySet
<1>6. PICK left, right : /\ left = (IF t.left = None THEN next(<<>>, 1, 0) ELSE t.left)
                         /\ right = (IF t.right = None THEN next(<<>>, Lacks(t, 0), 0) ELSE t.right)
  OBVIOUS
<1>7. left = blank /\ right = blank
  BY <1>3, <1>5, <1>6, NextEmpty, EmptyRoots
<1>8. PICK r : Levels(t, left, right, <<>>, D - 1, r) /\ root_inner(t, D, <<>>) = r[D - 1]
  BY <1>1, <1>3, <1>6, RootInnerIs
<1> DEFINE T == {d \in Nat : r[d] = empty_root[d + 1]}
<1>9. 0 \in T
  <2>1. 1 \in 1..Depth /\ 1 - 1 = 0
    BY <1>1
  <2>2. empty_root[1] = combine(0, blank, blank)
    BY <2>1, EmptyRoots
  <2> QED BY <1>7, <1>8, <2>2 DEF Levels
<1>10. ASSUME NEW e \in 0..(D - 2), e \in T PROVE e + 1 \in T
  <2>1. PICK d, f : d = e + 1 /\ f = d + 1
    OBVIOUS
  <2>2. d \in 1..(D - 1) /\ d \in Nat \ {0} /\ d - 1 = e /\ f \in 1..Depth /\ f - 1 = d
    BY <1>1, <2>1
  <2>3. r[e] = empty_root[d] /\ Lacks(t, d) = 1
    BY <1>4, <1>10, <2>1, <2>2
  <2>4. r[d] = combine(d, r[e], next(<<>>, Calls(t, d) + 1, d))
    BY <1>8, <2>2, <2>3 DEF Levels
  <2>5. Calls(t, d) \in Nat
    <3>1. ASSUME NEW j \in 0..d PROVE Lacks(t, j) \in Nat
      <4>1. j = 0 \/ j \in Nat \ {0}
        BY <2>2
      <4> QED BY <1>4, <1>5, <4>1
    <3> QED BY <2>2, <3>1, CallsNext
  <2>6. next(<<>>, Calls(t, d) + 1, d) = empty_root[d]
    BY <2>5, NextEmpty
  <2>7. empty_root[f] = combine(d, empty_root[d], empty_root[d])
    BY <2>2, EmptyRoots
  <2> QED BY <2>1, <2>2, <2>3, <2>4, <2>6, <2>7
<1>11. PICK m : m = D - 1
  OBVIOUS
<1>12. m \in Nat /\ m - 1 = D - 2 /\ m + 1 = D /\ m \in 0..m
  BY <1>1, <1>11
<1>13. m \in T
  <2> HIDE DEF T
  <2>1. \A i \in 0..m : i \in T
    BY <1>9, <1>10, <1>12, InductUpTo
  <2> QED BY <1>12, <2>1
<1> QED BY <1>2, <1>8, <1>11, <1>12, <1>13

LEMMA TreeRootIs ==
  ASSUME NEW D \in 1..Depth, NEW coins, NEW t, TreeInv(D, coins, t)
  PROVE  root_inner(t, D, <<>>) = WholeTree(coins)[D][0]
<1>1. PICK W, n : W = WholeTree(coins) /\ n = Len(coins)
  OBVIOUS
<1>2. Rows(W) /\ Leaves(W, coins) /\ Nodes(W)
  BY <1>1, WholeTreeIs, WholeNodes DEF TreeInv
<1>3. n \in Nat /\ Depth \in Nat \ {0} /\ D \in Nat \ {0} /\ D \in 0..Depth
  BY <1>1, ListIs, DepthAssumption DEF TreeInv
<1>4. CASE coins = <<>>
  <2>1. n = 0
    BY <1>1, <1>4
  <2>2. \A i \in Nat : W[0][i] = blank
    BY <1>1, <1>2, <2>1 DEF Leaves
  <2>3. W[D][0] = empty_root[D]
    BY <1>2, <1>3, <2>2, EmptyTree
  <2> QED BY <1>1, <1>4, <2>3, EmptyTreeRoot DEF TreeInv
<1>5. CASE coins # <<>>
  <2>1. PICK p : p = n - 1
    OBVIOUS
  <2>2. p \in Nat /\ p + 1 = n
    <3>1. n # 0
      BY <1>1, <1>5 DEF TreeInv, IsList
    <3> QED BY <1>3, <2>1, <3>1
  <2>3. PICK q : Above(p, q) /\ Frontier(q, W, t) /\ Len(t.parents) < D
    BY <1>1, <1>5, <2>1 DEF TreeInv
  <2>4. Len(t.parents) < D /\ Len(t.parents) \in Nat /\ q[Len(t.parents) + 1] = 0
    BY <2>3, ListIs DEF Frontier
  <2>5. q[D] = 0
    <3>1. Len(t.parents) + 1 \in 0..Depth /\ D \in (Len(t.parents) + 1)..Depth
      BY <1>3, <2>4
    <3> QED BY <2>2, <2>3, <2>4, <3>1, FirstAbove
  <2>6. \A h \in 0..Depth : \A i \in Nat : i > q[h] => W[h][i] = empty_root[h]
    <3>1. ASSUME NEW i \in Nat, i > p PROVE W[0][i] = blank
      <4>1. ~(i < Len(coins))
        BY <1>1, <1>3, <2>2, <3>1
      <4> QED BY <1>2, <4>1 DEF Leaves
    <3> QED BY <1>2, <2>2, <2>3, <3>1, EmptyBeyond
  <2>7. Supplies(<<>>, q, W, t, D)
    <3>1. ASSUME NEW d \in 0..(D - 1) PROVE next(<<>>, Calls(t, d) + 1, d) = W[d][q[d] + 1]
      <4>1. d \in 0..Depth /\ d \in Nat /\ q[d] \in Nat
        BY <1>3, <2>3 DEF Above
      <4>2. W[d][q[d] + 1] = empty_root[d]
        <5>1. q[d] + 1 \in Nat /\ q[d] + 1 > q[d]
          BY <4>1
        <5> QED BY <2>6, <4>1, <5>1
      <4>3. ASSUME NEW e \in 0..d PROVE Lacks(t, e) \in Nat
        <5>1. e \in 0..(Depth - 1)
          BY <1>3
        <5>2. Lacks(t, e) = IF Odd(q, e) THEN 0 ELSE 1
          BY <1>2, <2>2, <2>3, <5>1, LacksIs
        <5> QED BY <5>2
      <4>4. Calls(t, d) \in Nat
        BY <4>1, <4>3, CallsNext
      <4> QED BY <4>2, <4>4, NextEmpty
    <3> QED BY <3>1 DEF Supplies
  <2>8. root_inner(t, D, <<>>) = W[D][q[D]]
    BY <1>2, <1>3, <2>2, <2>3, <2>4, <2>7, RootOf
  <2> QED BY <1>1, <2>5, <2>8
<1> QED BY <1>4, <1>5

----------------------------------------------------------------------------
(* The coins of a transaction are received one after the other.            *)

Gathered(l, outs) == FoldLeft(Received, l, outs)

\* f holds the ledgers in between.
Receives(l, outs, f) == f[0] = l /\ \A i \in 1..Len(outs) : f[i] = Received(f[i - 1], outs[i])

LEMMA ReceivedAll ==
  ASSUME NEW l, NEW outs, IsList(outs)
  PROVE  \E f : Receives(l, outs, f) /\ Gathered(l, outs) = f[Len(outs)]
<1> DEFINE n == Len(outs)
           D == DOMAIN outs
           Eqn(g) == g = [t \in SUBSET D |-> IF t = {} THEN l
                                             ELSE Received(g[t \ {Max(t)}], outs[Max(t)])]
           Stepwise(k, e) == /\ e[{}] = l
                             /\ \A t \in SUBSET (1..k) :
                                  t # {} => e[t] = Received(e[t \ {Max(t)}], outs[Max(t)])
           T == {k \in Nat : \E e : Stepwise(k, e)}
<1>1. Gathered(l, outs) = (CHOOSE g : Eqn(g))[D]
  BY DEF Gathered, FoldLeft, MapThenFoldSet
<1>2. D = 1..n /\ n \in Nat
  BY ListIs
<1> HIDE DEF n, D
<1>3. 0 \in T
  <2>1. PICK e : e = [t \in SUBSET (1..0) |-> l]
    OBVIOUS
  <2>2. 1..0 = {} /\ \A t \in SUBSET (1..0) : t = {}
    OBVIOUS
  <2>3. Stepwise(0, e)
    BY <2>1, <2>2
  <2> QED BY <2>3
<1>4. ASSUME NEW k \in Nat, k \in T PROVE k + 1 \in T
  <2>1. PICK e : Stepwise(k, e)
    BY <1>4
  <2>2. PICK m : m = k + 1
    OBVIOUS
  <2>3. m \in Nat /\ \A t \in SUBSET (1..m) : m \notin t => t \in SUBSET (1..k)
    BY <2>2
  <2>4. PICK d : d = [t \in SUBSET (1..m) |-> IF m \in t THEN Received(e[t \ {m}], outs[m]) ELSE e[t]]
    OBVIOUS
  <2>5. ASSUME NEW t \in SUBSET (1..m), t # {}
        PROVE  d[t] = Received(d[t \ {Max(t)}], outs[Max(t)])
    <3>1. CASE m \in t
      <4>1. Max(t) = m
        BY <2>3, <3>1, MaxIs
      <4>2. t \ {m} \in SUBSET (1..m) /\ m \notin t \ {m}
        OBVIOUS
      <4>3. d[t \ {m}] = e[t \ {m}]
        BY <2>4, <4>2
      <4> QED BY <2>4, <3>1, <4>1, <4>3
    <3>2. CASE m \notin t
      <4>1. t \in SUBSET (1..k)
        BY <2>3, <3>2
      <4>2. PICK x : x = Max(t)
        OBVIOUS
      <4>3. t \ {x} \in SUBSET (1..m) /\ m \notin t \ {x}
        BY <3>2
      <4>4. d[t \ {x}] = e[t \ {x}] /\ d[t] = e[t]
        BY <2>4, <3>2, <4>3
      <4>5. e[t] = Received(e[t \ {x}], outs[x])
        BY <2>1, <2>5, <4>1, <4>2
      <4> QED BY <4>2, <4>4, <4>5
    <3> QED BY <3>1, <3>2
  <2>6. d[{}] = l
    <3>1. {} \in SUBSET (1..m) /\ m \notin {}
      OBVIOUS
    <3> QED BY <2>1, <2>4, <3>1
  <2>7. Stepwise(m, d)
    BY <2>5, <2>6
  <2> QED BY <2>2, <2>3, <2>7
<1>5. n \in T
  <2> HIDE DEF T
  <2> QED BY <1>2, <1>3, <1>4, Induct
<1>6. PICK e : Stepwise(n, e)
  BY <1>5
<1>7. PICK h : h = [t \in SUBSET D |-> e[t]]
  OBVIOUS
<1>8. Eqn(h)
  <2>1. ASSUME NEW t \in SUBSET D, t # {} PROVE h[t] = Received(h[t \ {Max(t)}], outs[Max(t)])
    <3>1. t \ {Max(t)} \in SUBSET D
      OBVIOUS
    <3> QED BY <1>2, <1>6, <1>7, <2>1, <3>1
  <2>2. h[{}] = l
    BY <1>6, <1>7
  <2> QED BY <1>7, <2>1, <2>2
<1>9. PICK g : g = (CHOOSE x : Eqn(x))
  OBVIOUS
<1>10. Eqn(g)
  BY <1>8, <1>9, Zenon
<1>11. g[{}] = l
  BY <1>10
<1>12. PICK f : f = [i \in 0..n |-> g[1..i]]
  OBVIOUS
<1>13. ASSUME NEW i \in 1..n PROVE f[i] = Received(f[i - 1], outs[i])
  <2>1. PICK t, u : t = 1..i /\ u = 1..(i - 1)
    OBVIOUS
  <2>2. t \in SUBSET D /\ t # {} /\ Max(t) = i /\ t \ {i} = u
    BY <1>2, <2>1, FirstPlaces
  <2>3. g[t] = Received(g[t \ {Max(t)}], outs[Max(t)])
    BY <1>10, <2>2
  <2>4. f[i] = g[t] /\ f[i - 1] = g[u]
    BY <1>2, <1>12, <2>1
  <2> QED BY <2>2, <2>3, <2>4
<1>14. f[0] = l
  <2>1. 1..0 = {} /\ 0 \in 0..n
    BY <1>2
  <2> QED BY <1>11, <1>12, <2>1
<1>15. Gathered(l, outs) = f[n]
  BY <1>1, <1>2, <1>9, <1>12
<1> QED BY <1>13, <1>14, <1>15 DEF n, Receives

LEMMA AcceptedCoins ==
  ASSUME IInv, stage = "sent", NEW tx, tx = Decode(data)
  PROVE  IsList(tx.outputs) /\ \A i \in DOMAIN tx.outputs : tx.outputs[i].revealed.coin # None
<1>1. tx.outputs = partial.outputs
  <2>1. Signed(tx)
    BY DEF IInv, Complete
  <2> QED BY <2>1 DEF Signed
<1>2. IsList(tx.outputs)
  BY <1>1 DEF IInv, TypeOK
<1>3. ASSUME NEW i \in DOMAIN tx.outputs PROVE tx.outputs[i].revealed.coin # None
  <2>1. PICK o, r : o = tx.outputs[i] /\ r = o.revealed
    OBVIOUS
  <2>2. BuiltOutput(i)
    BY <1>1, <1>3 DEF IInv, Built
  <2>3. PICK c, a, v, s, b : r = [value_commit |-> c, coin |-> CoinOf(a, v, s, b)]
    BY <1>1, <2>1, <2>2 DEF BuiltOutput
  <2>4. r.coin = <<"CRH_IVK", a, v, s, b>>
    BY ONLY <2>3 DEF CoinOf
  <2>5. r.coin # None
    BY ONLY <2>4 DEF None
  <2> QED BY <2>1, <2>5
<1> QED BY <1>2, <1>3

----------------------------------------------------------------------------
(* Paths of two leaves.                                                    *)

\* What is at most the other stays so, and what is equal too.
LEMMA AboveGrows ==
  ASSUME NEW a \in Nat, NEW q, Above(a, q), NEW p \in Nat, NEW r, Above(p, r), NEW k \in 0..Depth
  PROVE  /\ q[k] <= r[k] => \A j \in k..Depth : q[j] <= r[j]
         /\ q[k] = r[k] => \A j \in k..Depth : q[j] = r[j]
<1>1. k \in Nat /\ Depth \in Nat
  BY DepthAssumption
<1>2. ASSUME NEW j \in 0..(Depth - 1)
      PROVE  /\ q[j] \in Nat /\ r[j] \in Nat /\ q[j + 1] \in Nat /\ r[j + 1] \in Nat
             /\ q[j] <= r[j] => q[j + 1] <= r[j + 1]
             /\ q[j] = r[j] => q[j + 1] = r[j + 1]
  <2>1. j \in 0..Depth /\ j + 1 \in 0..Depth
    BY <1>1
  <2>2. q[j] \in Nat /\ r[j] \in Nat /\ q[j + 1] \in Nat /\ r[j + 1] \in Nat
    BY <2>1 DEF Above
  <2>3. /\ q[j] = 2 * q[j + 1] \/ q[j] = 2 * q[j + 1] + 1
        /\ r[j] = 2 * r[j + 1] \/ r[j] = 2 * r[j + 1] + 1
    BY <2>1 DEF Above
  <2> QED BY <2>2, <2>3
<1>3. ASSUME q[k] <= r[k] PROVE \A j \in k..Depth : q[j] <= r[j]
  <2> DEFINE T == {j \in Nat : j >= k => q[j] <= r[j]}
  <2>1. 0 \in T
    BY <1>1, <1>3
  <2>2. ASSUME NEW j \in 0..(Depth - 1), j \in T PROVE j + 1 \in T
    <3>1. j \in Nat /\ j + 1 \in Nat
      OBVIOUS
    <3>2. CASE j >= k
      BY <1>2, <2>2, <3>1, <3>2
    <3>3. CASE j + 1 = k
      BY <1>3, <3>1, <3>3
    <3>4. CASE j + 1 < k
      BY <1>1, <3>1, <3>4
    <3> QED BY <1>1, <3>1, <3>2, <3>3, <3>4
  <2> HIDE DEF T
  <2>3. \A j \in 0..Depth : j \in T
    BY <1>1, <2>1, <2>2, InductUpTo
  <2> QED BY <1>1, <2>3 DEF T
<1>4. ASSUME q[k] = r[k] PROVE \A j \in k..Depth : q[j] = r[j]
  <2> DEFINE T == {j \in Nat : j >= k => q[j] = r[j]}
  <2>1. 0 \in T
    BY <1>1, <1>4
  <2>2. ASSUME NEW j \in 0..(Depth - 1), j \in T PROVE j + 1 \in T
    <3>1. j \in Nat /\ j + 1 \in Nat
      OBVIOUS
    <3>2. CASE j >= k
      BY <1>2, <2>2, <3>1, <3>2
    <3>3. CASE j + 1 = k
      BY <1>4, <3>1, <3>3
    <3>4. CASE j + 1 < k
      BY <1>1, <3>1, <3>4
    <3> QED BY <1>1, <3>1, <3>2, <3>3, <3>4
  <2> HIDE DEF T
  <2>3. \A j \in 0..Depth : j \in T
    BY <1>1, <2>1, <2>2, InductUpTo
  <2> QED BY <1>1, <2>3 DEF T
<1> QED BY <1>3, <1>4

\* b[h] is the first place of row h under node x of row e.
Start(b, e, x) ==
  b \in [0..e -> Nat] /\ b[e] = x /\ \A h \in 0..(e - 1) : b[h] = 2 * b[h + 1]

\* Leaf p of the subtree is leaf b[0] + p of the tree.
LEMMA ShiftPath ==
  ASSUME NEW e \in 0..Depth, NEW b, NEW x, Start(b, e, x), NEW p \in Nat, NEW q, Above(p, q),
         NEW r, Above(b[0] + p, r)
  PROVE  /\ \A h \in 0..e : r[h] = b[h] + q[h] /\ b[h] \in Nat
         /\ \A h \in 0..(e - 1) : Odd(r, h) <=> Odd(q, h)
<1>1. e \in Nat /\ Depth \in Nat /\ e <= Depth
  BY DepthAssumption
<1>2. \A h \in 0..e : b[h] \in Nat /\ q[h] \in Nat /\ r[h] \in Nat
  BY <1>1 DEF Start, Above
<1> DEFINE T == {h \in Nat : r[h] = b[h] + q[h]}
<1>3. 0 \in T
  BY DEF Above
<1>4. ASSUME NEW h \in 0..(e - 1), h \in T PROVE h + 1 \in T
  <2>1. h \in 0..e /\ h + 1 \in 0..e /\ h \in 0..(Depth - 1) /\ h + 1 \in Nat
    BY <1>1
  <2>2. b[h] = 2 * b[h + 1]
    BY DEF Start
  <2>3. /\ q[h] = 2 * q[h + 1] \/ q[h] = 2 * q[h + 1] + 1
        /\ r[h] = 2 * r[h + 1] \/ r[h] = 2 * r[h + 1] + 1
    BY <2>1 DEF Above
  <2>4. r[h] = b[h] + q[h]
    BY <1>4
  <2>5. r[h + 1] = b[h + 1] + q[h + 1]
    BY <1>2, <2>1, <2>2, <2>3, <2>4
  <2> QED BY <2>1, <2>5
<1>5. \A h \in 0..e : r[h] = b[h] + q[h]
  <2> HIDE DEF T
  <2>1. \A h \in 0..e : h \in T
    BY <1>1, <1>3, <1>4, InductUpTo
  <2> QED BY <2>1 DEF T
<1>6. ASSUME NEW h \in 0..(e - 1) PROVE Odd(r, h) <=> Odd(q, h)
  <2>1. h \in 0..e /\ h + 1 \in 0..e
    BY <1>1
  <2>2. b[h] = 2 * b[h + 1]
    BY DEF Start
  <2>3. r[h] = b[h] + q[h] /\ r[h + 1] = b[h + 1] + q[h + 1]
    BY <1>5, <2>1
  <2> QED BY <1>2, <2>1, <2>2, <2>3 DEF Odd
<1> QED BY <1>2, <1>5, <1>6

\* The leaves from the k-th on, which are those of a tree of their own.
From(coins, k) == [i \in 1..(Len(coins) - k) |-> coins[k + i]]

LEMMA FromIs ==
  ASSUME NEW coins, IsList(coins), NEW k \in 0..Len(coins), NEW coin
  PROVE  /\ IsList(From(coins, k)) /\ Len(From(coins, k)) = Len(coins) - k
         /\ From(Append(coins, coin), k) = Append(From(coins, k), coin)
<1>1. PICK n, new : n = Len(coins) /\ new = Append(coins, coin)
  OBVIOUS
<1>2. n \in Nat /\ Len(new) = n + 1 /\ new[n + 1] = coin /\ \A i \in 1..n : new[i] = coins[i]
  BY <1>1, ListAppend
<1>3. PICK f, m : f = From(coins, k) /\ m = n - k
  OBVIOUS
<1>4. m \in Nat /\ k \in Nat
  BY <1>1, <1>2, <1>3
<1>5. f = [i \in 1..m |-> coins[k + i]]
  BY <1>1, <1>3 DEF From
<1>6. IsList(f) /\ Len(f) = m
  <2>1. f = [i \in 1..m |-> f[i]]
    BY <1>5
  <2> QED BY <1>4, <2>1, IsAList
<1>7. PICK g, h : g = From(new, k) /\ h = Append(f, coin)
  OBVIOUS
<1>8. g = [i \in 1..(m + 1) |-> new[k + i]]
  <2>1. Len(new) - k = m + 1
    BY <1>2, <1>3, <1>4
  <2> QED BY <1>7, <2>1 DEF From
<1>9. /\ IsList(h) /\ Len(h) = m + 1 /\ h[m + 1] = coin /\ \A i \in 1..m : h[i] = f[i]
  BY <1>6, <1>7, ListAppend
<1>10. h = [i \in 1..(m + 1) |-> h[i]]
  BY <1>9, ListIs
<1>11. ASSUME NEW i \in 1..(m + 1) PROVE new[k + i] = h[i]
  <2>1. CASE i = m + 1
    <3>1. k + i = n + 1
      BY <1>2, <1>3, <1>4, <2>1
    <3> QED BY <1>2, <1>9, <2>1, <3>1
  <2>2. CASE i \in 1..m
    <3>1. k + i \in 1..n
      BY <1>2, <1>3, <1>4, <2>2
    <3> QED BY <1>2, <1>5, <1>9, <2>2, <3>1
  <2> QED BY <1>4, <2>1, <2>2
<1>12. g = h
  BY <1>8, <1>10, <1>11
<1> QED BY <1>1, <1>3, <1>6, <1>7, <1>12

LEMMA ShiftTree ==
  ASSUME NEW e \in 0..Depth, NEW b, NEW x, Start(b, e, x), NEW coins, IsList(coins), b[0] <= Len(coins),
         NEW W, W = WholeTree(coins), NEW S, S = WholeTree(From(coins, b[0]))
  PROVE  \A h \in 0..e : \A i \in Nat : S[h][i] = W[h][b[h] + i]
<1>1. e \in Nat /\ Depth \in Nat /\ e <= Depth /\ \A h \in 0..e : b[h] \in Nat
  BY DepthAssumption DEF Start
<1>2. PICK k, n : k = b[0] /\ n = Len(coins)
  OBVIOUS
<1>3. k \in Nat /\ n \in Nat /\ k <= n /\ k \in 0..n
  BY <1>1, <1>2, ListIs
<1>4. PICK f : f = From(coins, k)
  OBVIOUS
<1>5. Len(f) = n - k /\ f = [i \in 1..(n - k) |-> coins[k + i]]
  BY <1>2, <1>3, <1>4, FromIs DEF From
<1>6. Rows(W) /\ Leaves(W, coins) /\ Rows(S) /\ Leaves(S, f)
  BY <1>2, <1>4, WholeTreeIs
<1> DEFINE T == {h \in Nat : \A i \in Nat : S[h][i] = W[h][b[h] + i]}
<1>7. 0 \in T
  <2>1. ASSUME NEW i \in Nat PROVE S[0][i] = W[0][b[0] + i]
    <3>1. k + i \in Nat /\ (k + i < n <=> i < n - k) /\ (k + i) + 1 = k + (i + 1)
      BY <1>3
    <3>2. S[0][i] = IF i < n - k THEN f[i + 1] ELSE blank
      BY <1>5, <1>6 DEF Leaves
    <3>3. W[0][k + i] = IF k + i < n THEN coins[(k + i) + 1] ELSE blank
      BY <1>2, <1>6, <3>1 DEF Leaves
    <3>4. i < n - k => f[i + 1] = coins[k + (i + 1)]
      <4>1. i < n - k => i + 1 \in 1..(n - k)
        BY <1>3
      <4> QED BY <1>5, <4>1
    <3> QED BY <1>2, <3>1, <3>2, <3>3, <3>4
  <2> QED BY <2>1
<1>8. ASSUME NEW h \in 0..(e - 1), h \in T PROVE h + 1 \in T
  <2>1. /\ h + 1 \in 1..Depth /\ (h + 1) - 1 = h /\ h + 1 \in Nat /\ h \in 0..e /\ h + 1 \in 0..e
    BY <1>1
  <2>2. b[h] = 2 * b[h + 1] /\ b[h] \in Nat /\ b[h + 1] \in Nat
    BY <1>1, <2>1 DEF Start
  <2>3. ASSUME NEW i \in Nat PROVE S[h + 1][i] = W[h + 1][b[h + 1] + i]
    <3>1. PICK j, y, z : j = b[h + 1] + i /\ y = 2 * i /\ z = 2 * i + 1
      OBVIOUS
    <3>2. j \in Nat /\ y \in Nat /\ z \in Nat /\ 2 * j = b[h] + y /\ 2 * j + 1 = b[h] + z
      <4>1. PICK c, d : c = b[h] /\ d = b[h + 1]
        OBVIOUS
      <4>2. c = 2 * d /\ d \in Nat /\ j = d + i /\ y = 2 * i /\ z = 2 * i + 1 /\ i \in Nat
        BY <2>2, <3>1, <4>1
      <4>3. j \in Nat /\ y \in Nat /\ z \in Nat /\ 2 * j = c + y /\ 2 * j + 1 = c + z
        BY ONLY <4>2
      <4> QED BY <4>1, <4>3
    <3>3. S[h + 1][i] = combine(h, S[h][y], S[h][z])
      BY <1>6, <2>1, <3>1 DEF Rows
    <3>4. W[h + 1][j] = combine(h, W[h][2 * j], W[h][2 * j + 1])
      BY ZenonT(30), <1>6, <2>1, <3>2 DEF Rows
    <3>5. S[h][y] = W[h][b[h] + y] /\ S[h][z] = W[h][b[h] + z]
      BY <1>8, <3>2
    <3> QED BY <3>1, <3>2, <3>3, <3>4, <3>5
  <2> QED BY <2>1, <2>3
<1> HIDE DEF T
<1>9. \A h \in 0..e : h \in T
  BY <1>1, <1>7, <1>8, InductUpTo
<1> QED BY <1>9 DEF T

----------------------------------------------------------------------------
(* Complete trees.                                                         *)

LEMMA CompleteIs ==
  ASSUME NEW p \in Nat, NEW q, Above(p, q), NEW W, Nodes(W), NEW t, Frontier(q, W, t),
         NEW D \in 1..Depth, Len(t.parents) < D
  PROVE  is_complete(t, D) <=> \A j \in 0..(D - 1) : Odd(q, j)
<1>1. /\ t.left # None /\ (t.right # None <=> Odd(q, 0))
      /\ \A d \in 1..(Depth - 1) : Odd(q, d) => d <= Len(t.parents)
  BY LacksIs
<1>2. PICK s, n : s = t.parents /\ n = Len(s)
  OBVIOUS
<1>3. DOMAIN s = 1..n /\ n \in Nat /\ n < D /\ D \in Nat /\ Depth \in Nat /\ D <= Depth
  BY <1>2, ListIs, DepthAssumption DEF Frontier
<1>4. ASSUME NEW d \in 1..n PROVE s[d] # None <=> Odd(q, d)
  <2>1. s[d] = IF Odd(q, d) THEN W[d][q[d] - 1] ELSE None
    BY <1>2 DEF Frontier
  <2>2. ASSUME Odd(q, d) PROVE W[d][q[d] - 1] # None
    <3>1. d \in 0..Depth /\ d + 1 \in 0..Depth
      BY <1>3
    <3>2. q[d] \in Nat /\ q[d + 1] \in Nat /\ q[d] = 2 * q[d + 1] + 1
      BY <2>2, <3>1 DEF Above, Odd
    <3>3. q[d] - 1 \in Nat
      BY <3>2
    <3> QED BY <3>1, <3>3 DEF Nodes
  <2> QED BY <2>1, <2>2
<1>5. ASSUME is_complete(t, D) PROVE \A j \in 0..(D - 1) : Odd(q, j)
  <2>1. t.right # None /\ n = D - 1 /\ \A i \in 1..n : s[i] # None
    BY <1>2, <1>3, <1>5 DEF is_complete
  <2>2. ASSUME NEW j \in 0..(D - 1), j # 0 PROVE Odd(q, j)
    <3>1. j \in 1..n
      BY <1>3, <2>1, <2>2
    <3> QED BY <1>4, <2>1, <3>1
  <2> QED BY <1>1, <2>1, <2>2
<1>6. ASSUME \A j \in 0..(D - 1) : Odd(q, j) PROVE is_complete(t, D)
  <2>1. 0 \in 0..(D - 1)
    BY <1>3
  <2>2. t.left # None /\ t.right # None
    BY <1>1, <1>6, <2>1
  <2>3. n = D - 1
    <3>1. CASE D = 1
      BY <1>3, <3>1
    <3>2. CASE D # 1
      <4>1. D - 1 \in 0..(D - 1) /\ D - 1 \in 1..(Depth - 1)
        BY <1>3, <3>2
      <4>2. D - 1 <= n
        BY <1>1, <1>2, <1>6, <4>1
      <4> QED BY <1>3, <4>2
    <3> QED BY <3>1, <3>2
  <2>4. ASSUME NEW i \in 1..n PROVE s[i] # None
    <3>1. i \in 0..(D - 1)
      BY <1>3
    <3> QED BY <1>4, <1>6, <3>1
  <2> QED BY <1>2, <1>3, <2>2, <2>3, <2>4 DEF is_complete
<1> QED BY <1>5, <1>6

LEMMA TreeComplete ==
  ASSUME NEW D \in 1..Depth, NEW coins, NEW t, TreeInv(D, coins, t), coins # <<>>,
         NEW q, Above(Len(coins) - 1, q)
  PROVE  /\ q[D] = 0
         /\ is_complete(t, D) <=> \A j \in 0..(D - 1) : Odd(q, j)
<1>1. PICK p : p = Len(coins) - 1
  OBVIOUS
<1>2. p \in Nat /\ 0 \in 0..Depth
  <2>1. Len(coins) \in Nat
    BY ListIs DEF TreeInv
  <2>2. Len(coins) # 0
    BY EmptyList DEF TreeInv
  <2> QED BY <1>1, <2>1, <2>2, DepthAssumption
<1>3. PICK r : Above(p, r) /\ Frontier(r, WholeTree(coins), t) /\ Len(t.parents) < D
  BY <1>1 DEF TreeInv
<1>4. Nodes(WholeTree(coins))
  BY WholeNodes DEF TreeInv
<1>5. is_complete(t, D) <=> \A j \in 0..(D - 1) : Odd(r, j)
  BY <1>2, <1>3, <1>4, CompleteIs
<1>6. \A j \in 0..Depth : q[j] = r[j]
  <2>1. q[0] = r[0]
    BY <1>1, <1>3 DEF Above
  <2> QED BY <1>1, <1>2, <1>3, <2>1, AboveGrows
<1>7. D \in 0..Depth /\ \A j \in 0..(D - 1) : j \in 0..Depth /\ j + 1 \in 0..Depth
  BY DepthAssumption
<1>8. r[D] = 0
  <2>1. Len(t.parents) \in Nat /\ r[Len(t.parents) + 1] = 0
    BY <1>3, ListIs DEF Frontier
  <2>2. Len(t.parents) + 1 \in 0..Depth /\ D \in (Len(t.parents) + 1)..Depth
    BY <1>3, <2>1, DepthAssumption
  <2> QED BY <1>2, <1>3, <2>1, <2>2, FirstAbove
<1> QED BY <1>5, <1>6, <1>7, <1>8 DEF Odd

\* Over the leaves under node x of level e, the first of which is leaf b[0].
UnderNode(coins, e, x, b, c) ==
  Start(b, e, x) /\ b[0] < Len(coins) /\ TreeInv(e, From(coins, b[0]), c)

\* Its root is the node, and it is complete when p is the last leaf.
IsNode(coins, e, x, c, p) ==
  /\ p[e] = x /\ root_inner(c, e, <<>>) = WholeTree(coins)[e][x]
  /\ is_complete(c, e) <=> \A j \in 0..(e - 1) : Odd(p, j)

LEMMA CursorIs ==
  ASSUME NEW e \in 1..Depth, NEW b, NEW x, NEW coins, IsList(coins), NEW c, UnderNode(coins, e, x, b, c),
         NEW m, m = Len(coins) - 1, NEW p, Above(m, p)
  PROVE  IsNode(coins, e, x, c, p)
<1>0. Start(b, e, x) /\ b[0] < Len(coins) /\ TreeInv(e, From(coins, b[0]), c)
  BY DEF UnderNode
<1>a. PICK W : W = WholeTree(coins)
  OBVIOUS
<1> USE <1>0, <1>a
<1>1. PICK k, n, f : k = b[0] /\ n = Len(coins) /\ f = From(coins, k)
  OBVIOUS
<1>2. /\ e \in Nat /\ Depth \in Nat /\ e <= Depth /\ k \in Nat /\ n \in Nat /\ k < n
      /\ e \in 0..Depth /\ e \in 0..e /\ 0 \in 0..e /\ b[e] = x /\ x \in Nat
  BY <1>1, DepthAssumption, ListIs DEF Start
<1>3. Len(f) = n - k
  <2>1. k \in 0..n
    BY <1>2
  <2> QED BY <1>1, <2>1, FromIs
<1>4. f # <<>>
  BY <1>2, <1>3
<1>5. PICK l : l = Len(f) - 1
  OBVIOUS
<1>6. l \in Nat /\ n - 1 = k + l
  BY <1>2, <1>3, <1>5
<1>7. PICK q : Above(l, q)
  BY <1>6, AboveExists
<1>8. q[e] = 0 /\ (is_complete(c, e) <=> \A j \in 0..(e - 1) : Odd(q, j))
  BY <1>1, <1>4, <1>5, <1>7, TreeComplete
<1>9. Above(k + l, p)
  BY <1>1, <1>6
<1>10. /\ \A h \in 0..e : p[h] = b[h] + q[h] /\ b[h] \in Nat
       /\ \A h \in 0..(e - 1) : Odd(p, h) <=> Odd(q, h)
  BY <1>1, <1>2, <1>6, <1>7, <1>9, ShiftPath
<1>11. p[e] = x
  BY <1>2, <1>8, <1>10
<1>12. root_inner(c, e, <<>>) = W[e][x]
  <2>1. PICK S : S = WholeTree(f)
    OBVIOUS
  <2>2. root_inner(c, e, <<>>) = S[e][0]
    BY <1>1, <2>1, TreeRootIs
  <2>3. \A h \in 0..e : \A i \in Nat : S[h][i] = W[h][b[h] + i]
    <3>1. /\ e \in 0..Depth /\ Start(b, e, x) /\ IsList(coins) /\ b[0] <= Len(coins)
          /\ S = WholeTree(From(coins, b[0]))
      BY <1>1, <1>2, <2>1
    <3> QED BY ONLY <1>a, <3>1, ShiftTree
  <2>4. S[e][0] = W[e][b[e] + 0]
    BY <1>2, <2>3
  <2> QED BY <1>2, <2>2, <2>4
<1> QED BY <1>8, <1>10, <1>11, <1>12 DEF IsNode

----------------------------------------------------------------------------
(* The levels at which a frontier lacks a node, counted from below.        *)

Counting(q, C) ==
  /\ C \in [0..Depth -> Nat] /\ C[0] = 0
  /\ \A d \in 0..(Depth - 1) : C[d + 1] = C[d] + (IF Odd(q, d) THEN 0 ELSE 1)

LEMMA CountsAre ==
  ASSUME NEW p \in Nat, NEW q, Above(p, q), NEW W, Nodes(W), NEW t, Frontier(q, W, t)
  PROVE  \E C : Counting(q, C) /\ \A d \in 0..Depth : C[d] = Calls(t, d)
<1>1. Depth \in Nat \ {0}
  BY DepthAssumption
<1>2. \A d \in 0..(Depth - 1) : Lacks(t, d) = IF Odd(q, d) THEN 0 ELSE 1
  BY LacksIs
<1>3. ASSUME NEW d \in 0..(Depth - 1)
      PROVE  /\ Calls(t, d) \in Nat /\ Calls(t, d + 1) = Calls(t, d) + (IF Odd(q, d) THEN 0 ELSE 1)
             /\ Calls(t, d + 1) \in Nat /\ (d = 0 => Calls(t, d) = 0)
  <2>1. d \in Nat /\ \A e \in 0..d : e \in 0..(Depth - 1)
    BY <1>1
  <2>2. \A e \in 0..d : Lacks(t, e) \in Nat
    BY <1>2, <2>1
  <2>3. /\ Calls(t, d) \in Nat /\ Calls(t, d + 1) = Calls(t, d) + Lacks(t, d)
        /\ d = 0 => Calls(t, d) = 0
    BY <2>1, <2>2, CallsNext
  <2>4. Lacks(t, d) = IF Odd(q, d) THEN 0 ELSE 1
    BY <1>2
  <2> QED BY <2>3, <2>4
<1>4. PICK C : C = [d \in 0..Depth |-> Calls(t, d)]
  OBVIOUS
<1>5. ASSUME NEW d \in 0..Depth PROVE C[d] \in Nat /\ C[d] = Calls(t, d)
  <2>1. C[d] = Calls(t, d)
    BY <1>4
  <2>2. CASE d = Depth
    <3>1. PICK e : e = Depth - 1
      OBVIOUS
    <3>2. e \in 0..(Depth - 1) /\ e + 1 = d
      BY <1>1, <2>2, <3>1
    <3> QED BY <1>3, <2>1, <3>2
  <2>3. CASE d # Depth
    <3>1. d \in 0..(Depth - 1)
      BY <1>1, <2>3
    <3> QED BY <1>3, <2>1, <3>1
  <2> QED BY <2>2, <2>3
<1>6. ASSUME NEW d \in 0..(Depth - 1) PROVE C[d + 1] = C[d] + (IF Odd(q, d) THEN 0 ELSE 1)
  <2>1. d \in 0..Depth /\ d + 1 \in 0..Depth
    BY <1>1
  <2> QED BY <1>3, <1>5, <2>1
<1>7. C[0] = 0
  BY <1>1, <1>3, <1>5
<1>8. Counting(q, C)
  BY <1>4, <1>5, <1>6, <1>7 DEF Counting
<1> QED BY <1>5, <1>8

\* The count grows at the levels that lack a node and stays at the others.
LEMMA CountGrows ==
  ASSUME NEW q, NEW C, Counting(q, C), NEW k \in 0..Depth, NEW l \in k..Depth
  PROVE  /\ C[k] <= C[l]
         /\ (\A i \in k..(l - 1) : Odd(q, i)) => C[l] = C[k]
         /\ k < l /\ ~Odd(q, k) => C[k] < C[l]
<1>1. Depth \in Nat /\ k \in Nat /\ l \in Nat /\ k <= l /\ l <= Depth
  BY DepthAssumption
<1>2. \A d \in 0..Depth : C[d] \in Nat
  BY DEF Counting
<1> DEFINE P(j) == /\ C[k] <= C[j]
                   /\ (\A i \in k..(j - 1) : Odd(q, i)) => C[j] = C[k]
                   /\ k < j /\ ~Odd(q, k) => C[k] < C[j]
           T == {j \in Nat : j >= k => P(j)}
<1>3. 0 \in T
  BY <1>1, <1>2
<1>4. ASSUME NEW j \in 0..(Depth - 1), j \in T PROVE j + 1 \in T
  <2>1. j \in Nat /\ j + 1 \in Nat /\ j \in 0..Depth /\ j + 1 \in 0..Depth /\ k \in 0..Depth
    BY <1>1
  <2>2. C[j] \in Nat /\ C[j + 1] \in Nat /\ C[k] \in Nat
    BY <1>2, <2>1
  <2>3. C[j + 1] = C[j] + (IF Odd(q, j) THEN 0 ELSE 1)
    BY DEF Counting
  <2>4. CASE j >= k
    <3>1. P(j)
      BY <1>4, <2>4
    <3>2. C[k] <= C[j + 1]
      BY <2>2, <2>3, <3>1
    <3>3. ASSUME \A i \in k..((j + 1) - 1) : Odd(q, i) PROVE C[j + 1] = C[k]
      <4>1. Odd(q, j) /\ \A i \in k..(j - 1) : Odd(q, i)
        BY <1>1, <2>1, <2>4, <3>3
      <4> QED BY <2>2, <2>3, <3>1, <4>1
    <3>4. ASSUME ~Odd(q, k) PROVE C[k] < C[j + 1]
      <4>1. CASE k = j
        BY <2>2, <2>3, <3>4, <4>1
      <4>2. CASE k < j
        BY <2>2, <2>3, <3>1, <3>4, <4>2
      <4> QED BY <1>1, <2>1, <2>4, <4>1, <4>2
    <3> QED BY <2>1, <3>2, <3>3, <3>4
  <2>5. CASE j + 1 = k
    <3>1. P(j + 1)
      BY <1>1, <2>2, <2>5
    <3> QED BY <2>1, <3>1
  <2>6. CASE j + 1 < k
    BY <1>1, <2>1, <2>6
  <2> QED BY <1>1, <2>1, <2>4, <2>5, <2>6
<1>5. \A j \in 0..Depth : j \in T
  <2> HIDE DEF T
  <2> QED BY <1>1, <1>3, <1>4, InductUpTo
<1> QED BY <1>1, <1>5

\* The top counts as lacking its right sibling.
Lacking(q, e) == e = Depth \/ ~Odd(q, e)

LEMMA NextLacking ==
  ASSUME NEW q, NEW C, Counting(q, C), NEW k \in 0..Depth
  PROVE  \E e \in k..Depth : Lacking(q, e) /\ (\A j \in k..(e - 1) : Odd(q, j)) /\ C[e] = C[k]
<1>1. Depth \in Nat /\ k \in Nat
  BY DepthAssumption
<1> DEFINE F == {e \in k..Depth : Lacking(q, e)}
<1>2. Depth \in F /\ F \in SUBSET Nat
  BY <1>1 DEF Lacking
<1>3. PICK e \in F : \A y \in F : e <= y
  BY <1>2, Least
<1>4. e \in k..Depth /\ Lacking(q, e)
  BY <1>3
<1>5. ASSUME NEW j \in k..(e - 1) PROVE Odd(q, j)
  <2>1. j \in k..Depth /\ ~(e <= j)
    BY <1>1, <1>4
  <2>2. j \notin F
    BY <1>3, <2>1
  <2> QED BY <2>1, <2>2 DEF Lacking
<1>6. C[e] = C[k]
  BY <1>4, <1>5, CountGrows
<1> QED BY <1>4, <1>5, <1>6

\* The levels that lack a node.
LevelsOf(t, n) ==
  FoldLeft(LAMBDA s, d : s \o [i \in 1..Lacks(t, d - 1) |-> d - 1], <<>>, [i \in 1..n |-> i])

LEMMA LevelsAre ==
  ASSUME NEW p \in Nat, NEW q, Above(p, q), NEW W, Nodes(W), NEW t, Frontier(q, W, t),
         NEW C, Counting(q, C), NEW n \in 0..Depth
  PROVE  /\ Len(LevelsOf(t, n)) = C[n]
         /\ \A d \in 0..(n - 1) : ~Odd(q, d) => LevelsOf(t, n)[C[d] + 1] = d
<1>1. Depth \in Nat /\ n \in Nat
  BY DepthAssumption
<1>2. \A d \in 0..(Depth - 1) : Lacks(t, d) = IF Odd(q, d) THEN 0 ELSE 1
  BY LacksIs
<1> DEFINE Q == Seq(Nat)
           s == [i \in 1..n |-> i]
           D == DOMAIN s
           More(i) == [j \in 1..Lacks(t, i - 1) |-> i - 1]
           step == [i \in 1..n |-> [x \in Q |-> x \o More(i)]]
           Eqn(g) == g = [u \in SUBSET D |-> IF u = {} THEN <<>> ELSE g[u \ {Max(u)}] \o More(s[Max(u)])]
<1>3. LevelsOf(t, n) = (CHOOSE g : Eqn(g))[D]
  BY DEF LevelsOf, FoldLeft, MapThenFoldSet
<1>4. ASSUME NEW i \in 1..n
      PROVE  /\ More(i) \in Q /\ Len(More(i)) = IF Odd(q, i - 1) THEN 0 ELSE 1
             /\ ~Odd(q, i - 1) => More(i)[1] = i - 1
  <2>1. PICK k : k = i - 1
    OBVIOUS
  <2>2. k \in 0..(Depth - 1) /\ k \in Nat
    BY <1>1, <2>1
  <2>3. PICK m : m = Lacks(t, k)
    OBVIOUS
  <2>4. m = (IF Odd(q, k) THEN 0 ELSE 1) /\ m \in Nat
    BY <1>2, <2>2, <2>3
  <2>5. PICK f : f = [j \in 1..m |-> k]
    OBVIOUS
  <2>6. f \in [1..m -> Nat]
    BY <2>2, <2>5
  <2>7. f \in Q /\ Len(f) = m
    BY <2>4, <2>6, FunctionIsSeq
  <2>8. ~Odd(q, k) => f[1] = k
    BY <2>4, <2>5
  <2>9. More(i) = f
    BY <2>1, <2>3, <2>5
  <2> QED BY <2>1, <2>4, <2>7, <2>8, <2>9
<1> HIDE DEF More
<1>5. step \in [1..n -> [Q -> Q]]
  <2>1. ASSUME NEW i \in 1..n, NEW x \in Q PROVE x \o More(i) \in Q
    BY <1>4, ConcatProperties
  <2> HIDE DEF Q
  <2> QED BY <2>1
<1>6. \A i \in 1..n, x \in Q : step[i][x] = x \o More(i)
  OBVIOUS
<1>7. D = 1..n /\ <<>> \in Q /\ \A i \in 1..n : s[i] = i
  BY EmptySeq
<1> HIDE DEF Q, s, step, D
<1>8. PICK z : z = <<>>
  OBVIOUS
<1>9. PICK e \in [SUBSET (1..n) -> Q] : Table(step, z, n, e)
  BY <1>1, <1>5, <1>7, <1>8, TableExists
<1>10. Eqn(e)
  <2>1. ASSUME NEW u \in SUBSET (1..n), u # {}
        PROVE  e[u] = e[u \ {Max(u)}] \o More(s[Max(u)])
    <3>1. PICK m : m = Max(u)
      OBVIOUS
    <3>2. m \in 1..n
      BY <1>1, <2>1, <3>1, Greatest
    <3>3. u \ {m} \in SUBSET (1..n)
      OBVIOUS
    <3>4. e[u \ {m}] \in Q
      BY <1>9, <3>3
    <3>5. e[u] = step[m][e[u \ {m}]]
      BY <1>9, <2>1, <3>1 DEF Table
    <3>6. s[m] = m
      BY <1>7, <3>2
    <3> QED BY <1>6, <3>1, <3>2, <3>4, <3>5, <3>6
  <2>2. e[{}] = <<>>
    BY <1>8, <1>9 DEF Table
  <2> QED BY <1>7, <1>9, <2>1, <2>2
<1>11. PICK g : g = (CHOOSE h : Eqn(h))
  OBVIOUS
<1>12. Eqn(g)
  BY <1>10, <1>11, Zenon
<1>13. g[{}] = <<>>
  BY <1>12, <1>7
<1>14. ASSUME NEW i \in 1..n, g[1..(i - 1)] \in Q PROVE g[1..i] = step[i][g[1..(i - 1)]]
  <2>1. PICK u : u = 1..i
    OBVIOUS
  <2>2. u \in SUBSET D /\ u # {} /\ Max(u) = i /\ u \ {i} = 1..(i - 1)
    BY <1>1, <1>7, <2>1, FirstPlaces
  <2>3. g[u] = g[u \ {Max(u)}] \o More(s[Max(u)])
    BY <1>12, <2>2
  <2>4. s[i] = i
    BY <1>7
  <2>5. g[1..i] = g[1..(i - 1)] \o More(i)
    BY <2>1, <2>2, <2>3, <2>4
  <2> QED BY <1>6, <1>14, <2>5
<1>15. PICK f \in [0..n -> Q] : Iter(step, z, n, f) /\ g[1..n] = f[n]
  <2>1. Follows(Q, step, z, n, g)
    BY <1>8, <1>13, <1>14 DEF Follows
  <2>2. z \in Q /\ n \in Nat
    BY <1>1, <1>7, <1>8
  <2> QED BY ONLY <1>5, <2>1, <2>2, FoldResult
<1>16. ASSUME NEW i \in 1..n PROVE f[i] = f[i - 1] \o More(i) /\ f[i - 1] \in Q
  <2>1. f[i - 1] \in Q
    BY <1>1, <1>15
  <2> QED BY <1>6, <1>15, <2>1 DEF Iter
<1> DEFINE P(i) == /\ Len(f[i]) = C[i]
                   /\ \A d \in 0..(i - 1) : ~Odd(q, d) => f[i][C[d] + 1] = d
           T == {i \in Nat : P(i)}
<1>17. \A d \in 0..Depth : C[d] \in Nat
  BY DEF Counting
<1>18. 0 \in T
  <2>1. f[0] = <<>>
    BY <1>8, <1>15 DEF Iter
  <2>2. Len(f[0]) = 0 /\ C[0] = 0
    BY <2>1 DEF Counting
  <2> QED BY <2>2
<1>19. ASSUME NEW i \in 0..(n - 1), i \in T PROVE i + 1 \in T
  <2>1. PICK k : k = i + 1
    OBVIOUS
  <2>2. k \in 1..n /\ k - 1 = i /\ i \in 0..(Depth - 1) /\ i \in 0..Depth /\ k \in Nat
    BY <1>1, <2>1
  <2>3. PICK x, y, m : x = f[i] /\ y = f[k] /\ m = More(k)
    OBVIOUS
  <2>4. y = x \o m /\ x \in Seq(Nat) /\ m \in Seq(Nat)
    BY <1>4, <1>16, <2>2, <2>3 DEF Q
  <2>5. /\ Len(m) = (IF Odd(q, i) THEN 0 ELSE 1) /\ (~Odd(q, i) => m[1] = i)
        /\ Len(x) = C[i] /\ \A d \in 0..(i - 1) : ~Odd(q, d) => x[C[d] + 1] = d
    BY <1>4, <1>19, <2>2, <2>3
  <2>6. C[k] = C[i] + (IF Odd(q, i) THEN 0 ELSE 1) /\ C[i] \in Nat
    BY <1>17, <2>1, <2>2 DEF Counting
  <2>7. /\ Len(y) = Len(x) + Len(m) /\ \A j \in 1..Len(x) : y[j] = x[j]
        /\ \A j \in 1..Len(m) : y[Len(x) + j] = m[j]
    BY ONLY <2>4, Concat
  <2>8. Len(y) = C[k]
    BY <2>5, <2>6, <2>7
  <2>9. ASSUME NEW d \in 0..(k - 1), ~Odd(q, d) PROVE y[C[d] + 1] = d
    <3>1. CASE d = i
      <4>1. 1 \in 1..Len(m)
        BY <2>5, <2>9, <3>1
      <4>2. y[Len(x) + 1] = m[1]
        BY <2>7, <4>1
      <4> QED BY <2>5, <2>9, <3>1, <4>2
    <3>2. CASE d # i
      <4>1. d \in 0..(i - 1) /\ d \in 0..Depth /\ d < i /\ i \in d..Depth
        BY <1>1, <2>2, <3>2
      <4>2. C[d] < C[i] /\ C[d] \in Nat
        BY <1>17, <2>9, <4>1, CountGrows
      <4>3. C[d] + 1 \in 1..Len(x)
        BY <2>5, <2>6, <4>2
      <4> QED BY <2>5, <2>7, <2>9, <4>1, <4>3
    <3> QED BY <3>1, <3>2
  <2> QED BY <2>1, <2>2, <2>3, <2>8, <2>9
<1>20. n \in T
  <2> HIDE DEF T
  <2>1. \A i \in 0..n : i \in T
    BY <1>1, <1>18, <1>19, InductUpTo
  <2> QED BY <1>1, <2>1
<1>21. LevelsOf(t, n) = f[n]
  BY <1>3, <1>7, <1>11, <1>15
<1> QED BY <1>20, <1>21

----------------------------------------------------------------------------
(* The state of a witness.                                                 *)

\* The nodes over leaf p.
Over(p) == CHOOSE q : Above(p, q)

LEMMA OverIs ==
  ASSUME NEW p \in Nat
  PROVE  Above(p, Over(p))
BY AboveExists DEF Over

\* The witness is at leaf q[0]; C[d] nodes are lacking on the levels below d.
Anchored(coins, w, q, C) ==
  /\ Above(q[0], q) /\ q[0] < Len(coins)
  /\ Frontier(q, WholeTree(coins), w.tree)
  /\ Counting(q, C) /\ \A d \in 0..Depth : C[d] = Calls(w.tree, d)

\* Those that are filled are the roots of finished subtrees; the next one
\* is lacking on level e.
FilledTo(coins, w, q, C, e) ==
  /\ IsList(w.filled) /\ e \in 0..Depth /\ Lacking(q, e) /\ C[e] = Len(w.filled)
  /\ \A d \in 0..(Depth - 1) : ~Odd(q, d) /\ C[d] < Len(w.filled) =>
       /\ w.filled[C[d] + 1] = WholeTree(coins)[d][q[d] + 1]
       /\ q[d] + 1 < Over(Len(coins))[d]

\* The last leaf ends what is below level e.
Between(coins, w, q, e) ==
  /\ w.cursor = <<>> /\ Over(Len(coins) - 1)[e] = q[e]
  /\ \A j \in 0..(e - 1) : Odd(Over(Len(coins) - 1), j)

\* The cursor is the tree under the node that is lacking.
Within(coins, w, q, e) ==
  /\ e \in 1..(Depth - 1) /\ w.cursor_depth = e
  /\ \E b, c : w.cursor = <<c>> /\ UnderNode(coins, e, q[e] + 1, b, c) /\ ~is_complete(c, e)

Witness(w) ==
  w = [tree |-> w.tree, filled |-> w.filled, cursor_depth |-> w.cursor_depth, cursor |-> w.cursor]

WitnessAt(coins, w, q, C, e) ==
  /\ Witness(w) /\ Anchored(coins, w, q, C) /\ FilledTo(coins, w, q, C, e)
  /\ Between(coins, w, q, e) \/ Within(coins, w, q, e)

Coins(coins) == IsList(coins) /\ \A i \in DOMAIN coins : coins[i] # None

LEMMA NextDepthIs ==
  ASSUME NEW coins, Coins(coins), NEW w, NEW q, NEW C, Anchored(coins, w, q, C),
         NEW e, FilledTo(coins, w, q, C, e)
  PROVE  next_depth(w) = e
<1>1. PICK t, K, m : t = w.tree /\ K = Len(t.parents) + 1 /\ m = Len(w.filled)
  OBVIOUS
<1>2. Nodes(WholeTree(coins)) /\ Frontier(q, WholeTree(coins), t) /\ Counting(q, C) /\ Above(q[0], q)
  BY <1>1, WholeNodes DEF Coins, Anchored
<1>3. /\ Depth \in Nat /\ K \in 1..Depth /\ q[K] = 0 /\ q[0] \in Nat
      /\ e \in 0..Depth /\ Lacking(q, e) /\ C[e] = m
  <2>1. Len(t.parents) \in Nat
    BY <1>2, ListIs DEF Frontier
  <2>2. 0 \in 0..Depth /\ Depth \in Nat
    BY DepthAssumption
  <2> QED BY <1>1, <1>2, <2>1, <2>2 DEF Frontier, FilledTo, Above
<1>4. \A d \in 0..Depth : C[d] \in Nat
  BY <1>2 DEF Counting
<1>5. PICK L : L = LevelsOf(t, K)
  OBVIOUS
<1>6. Len(L) = C[K] /\ \A d \in 0..(K - 1) : ~Odd(q, d) => L[C[d] + 1] = d
  <2>1. K \in 0..Depth
    BY <1>3
  <2> QED BY <1>2, <1>3, <1>5, <2>1, LevelsAre
<1>7. next_depth(w) = IF m < Len(L) THEN L[m + 1] ELSE K + (m - Len(L))
  <2>1. next_depth(w) =
          IF Len(w.filled) < Len(LevelsOf(w.tree, Len(w.tree.parents) + 1))
            THEN LevelsOf(w.tree, Len(w.tree.parents) + 1)[Len(w.filled) + 1]
            ELSE Len(w.tree.parents) + 1 + (Len(w.filled) - Len(LevelsOf(w.tree, Len(w.tree.parents) + 1)))
    BY DEF next_depth, LevelsOf
  <2> QED BY ONLY <1>1, <1>5, <2>1
<1>8. CASE e < K
  <2>1. ~Odd(q, e) /\ e \in 0..(K - 1) /\ K \in e..Depth
    BY <1>3, <1>8 DEF Lacking
  <2>2. C[e] < C[K]
    BY <1>2, <1>3, <1>8, <2>1, CountGrows
  <2> QED BY <1>3, <1>6, <1>7, <2>1, <2>2
<1>9. CASE K <= e
  <2>1. \A j \in K..Depth : q[j] = 0
    BY <1>2, <1>3, FirstAbove
  <2> DEFINE T == {j \in Nat : j >= K => C[j] = C[K] + (j - K)}
  <2>2. 0 \in T
    BY <1>3, <1>4
  <2>3. ASSUME NEW j \in 0..(Depth - 1), j \in T PROVE j + 1 \in T
    <3>1. j \in 0..Depth /\ j + 1 \in 0..Depth /\ j \in Nat /\ j + 1 \in Nat /\ K \in 0..Depth /\ K \in Nat
      BY <1>3
    <3>2. CASE j >= K
      <4>1. q[j] = 0 /\ q[j + 1] = 0
        BY <2>1, <3>1, <3>2
      <4>2. ~Odd(q, j)
        BY <4>1 DEF Odd
      <4>3. C[j + 1] = C[j] + 1
        BY <1>2, <4>2 DEF Counting
      <4>4. C[j] = C[K] + (j - K)
        BY <2>3, <3>2
      <4>5. C[j + 1] = C[K] + ((j + 1) - K)
        BY <1>4, <3>1, <4>3, <4>4
      <4> QED BY <3>1, <4>5
    <3>3. CASE j + 1 = K
      <4>1. C[j + 1] = C[K] + ((j + 1) - K)
        BY <1>4, <3>1, <3>3
      <4> QED BY <3>1, <4>1
    <3>4. CASE j + 1 < K
      BY <3>1, <3>4
    <3> QED BY <3>1, <3>2, <3>3, <3>4
  <2>4. C[e] = C[K] + (e - K)
    <3> HIDE DEF T
    <3>1. e \in T
      BY <1>3, <2>2, <2>3, InductUpTo
    <3> QED BY <1>9, <3>1 DEF T
  <2>5. C[K] \in Nat /\ e \in Nat /\ K \in Nat
    BY <1>3, <1>4
  <2>6. ~(m < Len(L)) /\ K + (m - Len(L)) = e
    BY ONLY <1>3, <1>6, <1>9, <2>4, <2>5
  <2> QED BY <1>7, <2>6
<1> QED BY <1>3, <1>8, <1>9

\* From its own level on, the last leaf is under the witness's nodes, but for
\* the one that is filled last.
LEMMA LastIs ==
  ASSUME NEW coins, Coins(coins), coins # <<>>, NEW w, NEW q, NEW C, Anchored(coins, w, q, C),
         NEW e, FilledTo(coins, w, q, C, e), NEW P, P = Over(Len(coins) - 1),
         Between(coins, w, q, e) \/ Within(coins, w, q, e)
  PROVE  /\ Len(coins) \in Nat \ {0} /\ Above(Len(coins) - 1, P) /\ Above(Len(coins), Over(Len(coins)))
         /\ P[e] = q[e] \/ P[e] = q[e] + 1
         /\ \A j \in (e + 1)..Depth : P[j] = q[j]
         /\ \A b, c : UnderNode(coins, e, q[e] + 1, b, c) /\ e \in 1..(Depth - 1)
                      => P[e] = q[e] + 1 /\ root_inner(c, e, <<>>) = WholeTree(coins)[e][q[e] + 1]
<1>1. PICK n, p : n = Len(coins) /\ p = n - 1
  OBVIOUS
<1>2. n \in Nat /\ n # 0
  <2>1. n \in Nat
    BY <1>1, ListIs DEF Coins
  <2> QED BY <1>1, <2>1, EmptyList DEF Coins
<1>3. p \in Nat /\ Above(p, P) /\ Above(n, Over(n))
  BY <1>1, <1>2, OverIs
<1>4. ASSUME NEW b, NEW c, UnderNode(coins, e, q[e] + 1, b, c), e \in 1..(Depth - 1)
      PROVE  P[e] = q[e] + 1 /\ root_inner(c, e, <<>>) = WholeTree(coins)[e][q[e] + 1]
  <2>1. e \in 1..Depth
    BY <1>4, DepthAssumption
  <2>2. IsList(coins) /\ p = Len(coins) - 1 /\ Above(p, P)
    BY <1>1, <1>3 DEF Coins
  <2>3. PICK x : x = q[e] + 1
    OBVIOUS
  <2>4. UnderNode(coins, e, x, b, c)
    BY <1>4, <2>3
  <2>5. IsNode(coins, e, x, c, P)
    BY ONLY <2>1, <2>2, <2>4, CursorIs
  <2> QED BY <2>3, <2>5 DEF IsNode
<1>5. e \in 0..Depth /\ Lacking(q, e) /\ Above(q[0], q) /\ q[0] \in Nat /\ Depth \in Nat
  <2>1. 0 \in 0..Depth /\ Depth \in Nat
    BY DepthAssumption
  <2> QED BY <2>1 DEF FilledTo, Anchored, Above
<1>6. P[e] = q[e] \/ (P[e] = q[e] + 1 /\ e # Depth)
  <2>1. CASE Between(coins, w, q, e)
    BY <1>1, <2>1 DEF Between
  <2>2. CASE Within(coins, w, q, e)
    <3>1. PICK b, c : UnderNode(coins, e, q[e] + 1, b, c) /\ e \in 1..(Depth - 1)
      BY <1>1, <2>2 DEF Within
    <3>2. e # Depth
      BY <1>5, <3>1
    <3> QED BY <1>4, <3>1, <3>2
  <2> QED BY <2>1, <2>2
<1>7. \A j \in (e + 1)..Depth : P[j] = q[j]
  <2>1. CASE e = Depth
    BY <1>5, <2>1
  <2>2. CASE e # Depth
    <3>1. PICK k : k = e + 1
      OBVIOUS
    <3>2. /\ k \in 0..Depth /\ q[e] \in Nat /\ q[k] \in Nat /\ P[e] \in Nat /\ P[k] \in Nat
          /\ P[e] = 2 * P[k] \/ P[e] = 2 * P[k] + 1
          /\ q[e] = 2 * q[k] \/ q[e] = 2 * q[k] + 1
          /\ q[e] # 2 * q[k] + 1
      <4>1. e \in 0..(Depth - 1) /\ e \in 0..Depth /\ k \in 0..Depth
        BY <1>5, <2>2, <3>1
      <4> QED BY <1>3, <1>5, <2>2, <3>1, <4>1 DEF Above, Lacking, Odd
    <3>3. P[k] = q[k]
      <4>1. PICK x, y, z, v : x = q[e] /\ y = q[k] /\ z = P[e] /\ v = P[k]
        OBVIOUS
      <4>2. /\ x \in Nat /\ y \in Nat /\ z \in Nat /\ v \in Nat
            /\ z = 2 * v \/ z = 2 * v + 1
            /\ x = 2 * y /\ (z = x \/ z = x + 1)
        BY <1>6, <3>2, <4>1
      <4>3. v = y
        BY ONLY <4>2
      <4> QED BY <4>1, <4>3
    <3>4. \A j \in k..Depth : q[j] = P[j]
      BY <1>3, <1>5, <3>2, <3>3, AboveGrows
    <3> QED BY <3>1, <3>4
  <2> QED BY <2>1, <2>2
<1> QED BY <1>1, <1>2, <1>3, <1>4, <1>6, <1>7

\* The filler has the nodes that are lacking.
LEMMA FillerIs ==
  ASSUME NEW coins, Coins(coins), coins # <<>>, NEW w, NEW q, NEW C, NEW e, WitnessAt(coins, w, q, C, e)
  PROVE  Supplies(filler(w), q, WholeTree(coins), w.tree, Depth)
<1>1. PICK W, P, t, n, m, f : /\ W = WholeTree(coins) /\ P = Over(Len(coins) - 1) /\ t = w.tree
                              /\ n = Len(coins) /\ m = Len(w.filled) /\ f = filler(w)
  OBVIOUS
<1>2. Anchored(coins, w, q, C) /\ FilledTo(coins, w, q, C, e)
  BY DEF WitnessAt
<1>3. Rows(W) /\ Leaves(W, coins) /\ Nodes(W)
  BY <1>1, WholeTreeIs, WholeNodes DEF Coins
<1>4. /\ Depth \in Nat \ {0} /\ e \in 0..Depth /\ Lacking(q, e) /\ C[e] = m /\ m \in Nat /\ IsList(w.filled)
      /\ Above(q[0], q) /\ q[0] \in Nat /\ Frontier(q, W, t) /\ Counting(q, C)
      /\ \A d \in 0..Depth : C[d] = Calls(t, d) /\ C[d] \in Nat
  <2>1. 0 \in 0..Depth /\ Depth \in Nat \ {0}
    BY DepthAssumption
  <2> QED BY <1>1, <1>2, <2>1, ListIs DEF FilledTo, Anchored, Above, Counting
<1>5. /\ n \in Nat \ {0} /\ Above(n - 1, P) /\ n - 1 \in Nat
      /\ \A j \in (e + 1)..Depth : P[j] = q[j]
  BY <1>1, <1>2, LastIs DEF WitnessAt
<1>6. \A h \in 0..Depth : \A i \in Nat : i > P[h] => W[h][i] = empty_root[h]
  <2>1. PICK p : p = n - 1
    OBVIOUS
  <2>2. p \in Nat /\ Above(p, P)
    BY <1>5, <2>1
  <2>3. ASSUME NEW i \in Nat, i > p PROVE W[0][i] = blank
    <3>1. ~(i < n)
      BY <1>5, <2>1, <2>3
    <3> QED BY <1>1, <1>3, <3>1 DEF Leaves
  <2> QED BY <1>3, <2>2, <2>3, EmptyBeyond
<1>7. \A d \in 0..(Depth - 1) : ~Odd(q, d) /\ C[d] < m => w.filled[C[d] + 1] = W[d][q[d] + 1]
  BY <1>1, <1>2 DEF FilledTo
<1>8. /\ Len(f) \in Nat /\ Len(f) >= m /\ \A i \in 1..m : f[i] = w.filled[i]
      /\ Len(f) > m => Len(f) = m + 1 /\ e < Depth /\ f[m + 1] = W[e][q[e] + 1]
      /\ Len(f) = m => P[e] = q[e]
  <2>1. CASE Between(coins, w, q, e)
    <3>1. f = w.filled /\ P[e] = q[e]
      BY <1>1, <2>1 DEF Between, filler
    <3> QED BY <1>1, <1>4, <3>1
  <2>2. CASE Within(coins, w, q, e)
    <3>1. PICK b, c : /\ w.cursor = <<c>> /\ UnderNode(coins, e, q[e] + 1, b, c)
                      /\ e \in 1..(Depth - 1) /\ w.cursor_depth = e
      BY <1>1, <2>2 DEF Within
    <3>2. root_inner(c, e, <<>>) = W[e][q[e] + 1]
      BY <1>1, <1>2, <2>2, <3>1, LastIs
    <3>3. PICK x : x = root_inner(c, e, <<>>)
      OBVIOUS
    <3>4. f = Append(w.filled, x)
      <4>1. w.cursor # <<>> /\ w.cursor[1] = c
        BY <3>1
      <4> QED BY <1>1, <3>1, <3>3, <4>1 DEF filler
    <3>5. Len(f) = m + 1 /\ f[m + 1] = x /\ \A i \in 1..m : f[i] = w.filled[i]
      BY <1>1, <1>4, <3>4, ListAppend
    <3> QED BY <1>4, <3>1, <3>2, <3>3, <3>5
  <2> QED BY <2>1, <2>2 DEF WitnessAt
<1>9. Supplies(f, q, W, t, Depth)
  <2>1. ASSUME NEW d \in 0..(Depth - 1), ~Odd(q, d)
        PROVE  next(f, Calls(t, d) + 1, d) = W[d][q[d] + 1]
    <3>1. PICK k : k = C[d]
      OBVIOUS
    <3>2. k \in Nat /\ Calls(t, d) = k /\ d \in 0..Depth /\ q[d] \in Nat /\ d \in Nat /\ e \in Nat
      <4>1. d \in 0..Depth
        BY <1>4
      <4> QED BY <1>4, <3>1, <4>1 DEF Above
    <3>3. next(f, k + 1, d) = IF k + 1 <= Len(f) THEN f[k + 1] ELSE empty_root[d]
      BY DEF next
    <3>4. CASE d < e
      <4>1. e \in d..Depth
        BY <1>4, <3>2, <3>4
      <4>2. k < m
        BY <1>4, <2>1, <3>1, <3>2, <3>4, <4>1, CountGrows
      <4>3. k + 1 <= Len(f) /\ k + 1 \in 1..m
        BY <1>4, <1>8, <3>2, <4>2
      <4> QED BY <1>7, <1>8, <2>1, <3>1, <3>2, <3>3, <4>2, <4>3
    <3>5. CASE d = e
      <4>1. k = m
        BY <1>4, <3>1, <3>5
      <4>2. CASE Len(f) > m
        BY <1>4, <1>8, <3>2, <3>3, <3>5, <4>1, <4>2
      <4>3. CASE Len(f) = m
        <5>1. P[d] = q[d] /\ ~(k + 1 <= Len(f))
          BY <1>4, <1>8, <3>5, <4>1, <4>3
        <5>2. q[d] + 1 \in Nat /\ q[d] + 1 > P[d]
          BY <3>2, <5>1
        <5> QED BY <1>6, <3>2, <3>3, <5>1, <5>2
      <4> QED BY <1>4, <1>8, <4>2, <4>3
    <3>6. CASE d > e
      <4>1. d \in (e + 1)..Depth /\ d \in e..Depth
        BY <1>4, <3>2, <3>6
      <4>2. P[d] = q[d]
        BY <1>5, <4>1
      <4>3. ~(k + 1 <= Len(f))
        <5>1. ~Odd(q, e)
          BY <1>4, <3>2, <3>6, <4>1 DEF Lacking
        <5>2. m < k
          BY <1>4, <3>1, <3>6, <4>1, <5>1, CountGrows
        <5> QED BY <1>4, <1>8, <3>2, <5>2
      <4>4. q[d] + 1 \in Nat /\ q[d] + 1 > P[d]
        BY <3>2, <4>2
      <4> QED BY <1>6, <3>2, <3>3, <4>3, <4>4
    <3> QED BY <3>2, <3>4, <3>5, <3>6
  <2> QED BY <2>1 DEF Supplies
<1> QED BY <1>1, <1>9

\* Its root is that of the whole tree.
LEMMA WitnessRootIs ==
  ASSUME NEW coins, Coins(coins), coins # <<>>, NEW w, NEW q, NEW C, NEW e, WitnessAt(coins, w, q, C, e)
  PROVE  WitnessRoot(w) = WholeTree(coins)[Depth][0]
<1>1. PICK W, t, f : W = WholeTree(coins) /\ t = w.tree /\ f = filler(w)
  OBVIOUS
<1>2. Rows(W) /\ Nodes(W) /\ Supplies(f, q, W, t, Depth)
  BY <1>1, WholeTreeIs, WholeNodes, FillerIs DEF Coins
<1>3. Depth \in Nat \ {0} /\ 0 \in 0..Depth /\ Depth \in 1..Depth
  BY DepthAssumption
<1>4. PICK p : p = q[0]
  OBVIOUS
<1>5. p \in Nat /\ Above(p, q) /\ Frontier(q, W, t)
  BY <1>1, <1>3, <1>4 DEF WitnessAt, Anchored, Above
<1>6. Len(t.parents) < Depth /\ Len(t.parents) \in Nat /\ q[Len(t.parents) + 1] = 0
  BY <1>5, ListIs DEF Frontier
<1>7. q[Depth] = 0
  <2>1. Len(t.parents) + 1 \in 0..Depth /\ Depth \in (Len(t.parents) + 1)..Depth
    BY <1>3, <1>6
  <2> QED BY <1>5, <1>6, <2>1, FirstAbove
<1>8. root_inner(t, Depth, f) = W[Depth][q[Depth]]
  BY <1>2, <1>3, <1>5, <1>6, RootOf
<1> QED BY <1>1, <1>7, <1>8 DEF WitnessRoot

----------------------------------------------------------------------------
(* A coin more.                                                            *)

Longer(coins, coin, new, n, m, W, V) ==
  /\ Coins(new) /\ new # <<>> /\ n \in Nat /\ Len(new) = m /\ Len(new) - 1 = n
  /\ Rows(W) /\ Rows(V) /\ Nodes(W) /\ Nodes(V) /\ V[0][n] = coin
  /\ \A i \in Nat : i < n => V[0][i] = W[0][i]
  /\ Above(n, Over(n)) /\ Above(m, Over(m))
  /\ \A h \in 0..Depth : Over(n)[h] <= Over(m)[h]
  /\ \A h \in 0..Depth : \A i \in Nat : i < Over(n)[h] => V[h][i] = W[h][i]

LEMMA CoinAdded ==
  ASSUME NEW coins, Coins(coins), NEW coin, coin # None, NEW new, new = Append(coins, coin),
         NEW n, n = Len(coins), NEW m, m = n + 1, NEW W, W = WholeTree(coins), NEW V, V = WholeTree(new)
  PROVE  Longer(coins, coin, new, n, m, W, V)
<1>1. /\ IsList(new) /\ DOMAIN new = 1..(n + 1) /\ DOMAIN coins = 1..n /\ n \in Nat /\ Len(new) = n + 1
      /\ new[n + 1] = coin /\ \A i \in 1..n : new[i] = coins[i]
  BY ListAppend DEF Coins
<1>2. Coins(new)
  BY <1>1 DEF Coins
<1>3. Rows(W) /\ Rows(V) /\ Nodes(W) /\ Nodes(V) /\ Leaves(W, coins) /\ Leaves(V, new)
  BY <1>2, WholeTreeIs, WholeNodes DEF Coins
<1>4. V[0][n] = coin
  BY <1>1, <1>3 DEF Leaves
<1>5. ASSUME NEW i \in Nat, i < n PROVE V[0][i] = W[0][i]
  <2>1. i + 1 \in 1..n /\ i < n + 1
    BY <1>1, <1>5
  <2> QED BY <1>1, <1>3, <1>5, <2>1 DEF Leaves
<1>6. Above(n, Over(n)) /\ Above(m, Over(m))
  BY <1>1, OverIs
<1>7. \A h \in 0..Depth : Over(n)[h] <= Over(m)[h]
  <2>1. PICK q, r : q = Over(n) /\ r = Over(m)
    OBVIOUS
  <2>2. Above(n, q) /\ Above(m, r) /\ m \in Nat /\ 0 \in 0..Depth
    BY <1>1, <1>6, <2>1, DepthAssumption
  <2>3. q[0] <= r[0]
    BY <1>1, <2>1, <2>2 DEF Above
  <2>4. \A h \in 0..Depth : q[h] <= r[h]
    BY <1>1, <2>2, <2>3, AboveGrows
  <2> QED BY <2>1, <2>4
<1>8. \A h \in 0..Depth : \A i \in Nat : i < Over(n)[h] => V[h][i] = W[h][i]
  <2>1. PICK q : q = Over(n)
    OBVIOUS
  <2>2. \A h \in 0..Depth : \A i \in Nat : i < q[h] => V[h][i] = W[h][i]
    BY <1>1, <1>3, <1>5, <1>6, <2>1, SameBefore
  <2> QED BY <2>1, <2>2
<1>9. new # <<>>
  BY <1>1
<1> QED BY <1>1, <1>2, <1>3, <1>4, <1>5, <1>6, <1>7, <1>8, <1>9 DEF Longer

\* What is known of a witness holds on.
LEMMA StillFilled ==
  ASSUME NEW coins, Coins(coins), NEW coin, coin # None, NEW w, NEW q, NEW C, NEW e,
         Anchored(coins, w, q, C), FilledTo(coins, w, q, C, e), NEW new, new = Append(coins, coin)
  PROVE  Anchored(new, w, q, C) /\ FilledTo(new, w, q, C, e)
<1>1. PICK n, W, V, m : n = Len(coins) /\ W = WholeTree(coins) /\ V = WholeTree(new) /\ m = n + 1
  OBVIOUS
<1>2. /\ n \in Nat /\ Len(new) = m /\ Rows(W) /\ Rows(V)
      /\ \A i \in Nat : i < n => V[0][i] = W[0][i]
      /\ Above(n, Over(n)) /\ Above(m, Over(m))
      /\ \A h \in 0..Depth : Over(n)[h] <= Over(m)[h]
      /\ \A h \in 0..Depth : \A i \in Nat : i < Over(n)[h] => V[h][i] = W[h][i]
  <2>1. Longer(coins, coin, new, n, m, W, V)
    BY <1>1, CoinAdded
  <2> QED BY <2>1 DEF Longer
<1>3. PICK p : p = q[0]
  OBVIOUS
<1>4. Above(p, q) /\ p < n /\ p \in Nat /\ Frontier(q, W, w.tree)
  <2>1. 0 \in 0..Depth
    BY DepthAssumption
  <2> QED BY <1>1, <1>3, <2>1 DEF Anchored, Above
<1>5. Frontier(q, V, w.tree)
  <2>1. \A i \in Nat : i <= p => V[0][i] = W[0][i]
    BY <1>2, <1>4
  <2>2. PICK t : t = w.tree
    OBVIOUS
  <2> QED BY <1>2, <1>4, <2>1, <2>2, FrontierSame
<1>6. Anchored(new, w, q, C)
  <2>1. p < m
    BY <1>1, <1>2, <1>4
  <2> QED BY <1>1, <1>2, <1>3, <1>4, <1>5, <2>1 DEF Anchored
<1>7. ASSUME NEW d \in 0..(Depth - 1), ~Odd(q, d), C[d] < Len(w.filled)
      PROVE  w.filled[C[d] + 1] = V[d][q[d] + 1] /\ q[d] + 1 < Over(m)[d]
  <2>1. w.filled[C[d] + 1] = W[d][q[d] + 1] /\ q[d] + 1 < Over(n)[d]
    BY <1>1, <1>7 DEF FilledTo
  <2>2. PICK i : i = q[d] + 1
    OBVIOUS
  <2>3. d \in 0..Depth
    BY DepthAssumption
  <2>4. i \in Nat /\ Over(n)[d] \in Nat /\ Over(m)[d] \in Nat
    BY <1>2, <1>4, <2>2, <2>3 DEF Above
  <2>5. V[d][i] = W[d][i] /\ i < Over(m)[d]
    BY <1>2, <2>1, <2>2, <2>3, <2>4
  <2> QED BY <2>1, <2>2, <2>5
<1>8. FilledTo(new, w, q, C, e)
  BY <1>1, <1>2, <1>7 DEF FilledTo
<1> QED BY <1>6, <1>8

\* The node on level e is the next of those that are filled.
LEMMA Advance ==
  ASSUME NEW coins, Coins(coins), coins # <<>>, NEW w, NEW q, NEW C, NEW e,
         Anchored(coins, w, q, C), FilledTo(coins, w, q, C, e), e # Depth,
         NEW n, n = Len(coins) - 1, NEW P, P = Over(n), P[e] = q[e] + 1, \A j \in 0..(e - 1) : Odd(P, j),
         NEW node, node = WholeTree(coins)[e][q[e] + 1],
         NEW v, Witness(v), v.tree = w.tree, v.cursor = <<>>, v.filled = Append(w.filled, node)
  PROVE  \E f : WitnessAt(coins, v, q, C, f)
<1>1. PICK m, W, k : m = Len(w.filled) /\ W = WholeTree(coins) /\ k = e + 1
  OBVIOUS
<1>2. /\ Depth \in Nat \ {0} /\ e \in 0..(Depth - 1) /\ e \in 0..Depth /\ k \in 0..Depth /\ e \in Nat
      /\ ~Odd(q, e) /\ C[e] = m /\ IsList(w.filled) /\ Above(q[0], q) /\ q[0] \in Nat /\ Counting(q, C)
      /\ m \in Nat
  <2>1. Depth \in Nat \ {0}
    BY DepthAssumption
  <2>2. e \in 0..Depth /\ ~Odd(q, e) /\ C[e] = m /\ IsList(w.filled) /\ Above(q[0], q) /\ Counting(q, C)
    BY <1>1 DEF FilledTo, Anchored, Lacking
  <2>3. 0 \in 0..Depth
    BY <2>1
  <2> QED BY SMTT(30), <1>1, <2>1, <2>2, <2>3, ListIs DEF Above
<1>3. n \in Nat /\ Above(n, P) /\ Len(coins) = n + 1 /\ Above(n + 1, Over(n + 1))
  <2>1. Len(coins) \in Nat /\ Len(coins) # 0
    BY ListIs, EmptyList DEF Coins
  <2> QED BY <2>1, OverIs
<1>4. \A d \in 0..Depth : C[d] \in Nat /\ q[d] \in Nat /\ P[d] \in Nat
  BY <1>2, <1>3 DEF Counting, Above
<1>5. P[k] = q[k] /\ Odd(P, e)
  <2>1. PICK a, b, c, d : a = q[e] /\ b = q[k] /\ c = P[e] /\ d = P[k]
    OBVIOUS
  <2>2. /\ a \in Nat /\ b \in Nat /\ c \in Nat /\ d \in Nat /\ c = a + 1
        /\ a = 2 * b \/ a = 2 * b + 1
        /\ a # 2 * b + 1
        /\ c = 2 * d \/ c = 2 * d + 1
    BY <1>1, <1>2, <1>3, <1>4, <2>1 DEF Above, Odd
  <2>3. d = b /\ c = 2 * d + 1
    BY ONLY <2>2
  <2> QED BY <1>1, <2>1, <2>3 DEF Odd
<1>6. \A j \in k..Depth : P[j] = q[j]
  <2>1. PICK a : a = q[0]
    OBVIOUS
  <2>2. a \in Nat /\ Above(a, q)
    BY <1>2, <2>1
  <2>3. \A j \in k..Depth : P[j] = q[j]
    BY ONLY <1>2, <1>3, <1>5, <2>2, AboveGrows
  <2> QED BY <2>3
<1>7. PICK f \in k..Depth : Lacking(q, f) /\ (\A j \in k..(f - 1) : Odd(q, j)) /\ C[f] = C[k]
  BY ONLY <1>2, NextLacking
<1>8. f \in 0..Depth /\ f \in Nat /\ C[f] = m + 1
  <2>1. C[k] = C[e] + 1
    BY <1>1, <1>2 DEF Counting
  <2> QED BY <1>2, <1>7, <2>1
<1>9. IsList(v.filled) /\ Len(v.filled) = m + 1 /\ v.filled[m + 1] = node /\ \A i \in 1..m : v.filled[i] = w.filled[i]
  BY <1>1, <1>2, ListAppend
<1>10. FilledTo(coins, v, q, C, f)
  <2>1. ASSUME NEW d \in 0..(Depth - 1), ~Odd(q, d), C[d] < m + 1
        PROVE  v.filled[C[d] + 1] = W[d][q[d] + 1] /\ q[d] + 1 < Over(n + 1)[d]
    <3>1. d \in 0..Depth /\ d \in Nat /\ C[d] \in Nat
      BY <1>2, <1>4
    <3>2. CASE C[d] < m
      <4>1. w.filled[C[d] + 1] = W[d][q[d] + 1] /\ q[d] + 1 < Over(n + 1)[d]
        BY <1>1, <1>3, <2>1, <3>2 DEF FilledTo
      <4>2. C[d] + 1 \in 1..m
        BY <1>2, <3>1, <3>2
      <4> QED BY <1>9, <4>1, <4>2
    <3>3. CASE C[d] = m
      <4>1. d = e
        <5>1. ASSUME d < e PROVE FALSE
          <6>1. e \in d..Depth
            BY <1>2, <3>1, <5>1
          <6>2. C[d] < C[e]
            BY <1>2, <2>1, <3>1, <5>1, <6>1, CountGrows
          <6> QED BY <1>2, <3>3, <6>2
        <5>2. ASSUME e < d PROVE FALSE
          <6>1. d \in e..Depth
            BY <1>2, <3>1, <5>2
          <6>2. C[e] < C[d]
            BY <1>2, <3>1, <5>2, <6>1, CountGrows
          <6> QED BY <1>2, <3>3, <6>2
        <5> QED BY <1>2, <3>1, <5>1, <5>2
      <4>2. Over(n + 1)[e] = P[e] + 1
        <5>1. PICK r, l : r = Over(n + 1) /\ l = n + 1
          OBVIOUS
        <5>2. Above(n + 1, r)
          BY <1>3, <5>1
        <5>3. \A j \in 0..e : r[j] = P[j] + 1
          BY <1>2, <1>3, <5>2, NextLeaf
        <5> QED BY <1>2, <5>1, <5>3
      <4>3. q[e] + 1 < Over(n + 1)[e]
        BY <1>2, <1>4, <4>2
      <4>4. v.filled[m + 1] = W[e][q[e] + 1]
        BY <1>1, <1>9
      <4>5. v.filled[C[d] + 1] = W[d][q[d] + 1]
        BY ONLY <3>3, <4>1, <4>4
      <4>6. q[d] + 1 < Over(n + 1)[d]
        BY <4>1, <4>3
      <4> QED BY <4>5, <4>6
    <3>4. C[d] < m \/ C[d] = m
      <4>1. PICK c : c = C[d]
        OBVIOUS
      <4>2. c \in Nat /\ m \in Nat /\ c < m + 1
        BY <1>2, <2>1, <3>1, <4>1
      <4>3. c < m \/ c = m
        BY ONLY <4>2
      <4> QED BY <4>1, <4>3
    <3> QED BY <3>2, <3>3, <3>4, Zenon
  <2> QED BY <1>1, <1>3, <1>7, <1>8, <1>9, <2>1 DEF FilledTo
<1>11. Between(coins, v, q, f)
  <2>1. ASSUME NEW j \in 0..(f - 1) PROVE Odd(P, j)
    <3>1. CASE j \in 0..(e - 1)
      BY <3>1
    <3>2. CASE j = e
      BY <1>5, <3>2
    <3>3. CASE j \in k..(f - 1)
      <4>1. j \in k..Depth /\ j + 1 \in k..Depth
        BY <1>2, <1>7, <3>3
      <4> QED BY <1>6, <1>7, <3>3, <4>1 DEF Odd
    <3> QED BY <1>1, <1>2, <1>8, <3>1, <3>2, <3>3
  <2>2. P[f] = q[f]
    BY <1>6, <1>7
  <2> QED BY <2>1, <2>2 DEF Between
<1>12. Anchored(coins, v, q, C)
  BY DEF Anchored
<1> QED BY <1>10, <1>11, <1>12 DEF WitnessAt

\* A coin for the cursor.
LEMMA GrowsWithin ==
  ASSUME NEW coins, Coins(coins), NEW coin, coin # None, NEW w, Witness(w), NEW q, NEW C, NEW e,
         Anchored(coins, w, q, C), FilledTo(coins, w, q, C, e), Within(coins, w, q, e),
         NEW new, new = Append(coins, coin)
  PROVE  \E f : WitnessAt(new, AppendWitness(w, coin), q, C, f)
<1>1. PICK b, c : /\ w.cursor = <<c>> /\ UnderNode(coins, e, q[e] + 1, b, c) /\ ~is_complete(c, e)
                  /\ e \in 1..(Depth - 1) /\ w.cursor_depth = e
  BY DEF Within
<1>2. PICK x, n, m, W, V : x = q[e] + 1 /\ n = Len(coins) /\ m = n + 1 /\ W = WholeTree(coins) /\ V = WholeTree(new)
  OBVIOUS
<1>3. Longer(coins, coin, new, n, m, W, V)
  BY <1>2, CoinAdded
<1>4. Coins(new) /\ IsList(new) /\ new # <<>> /\ n \in Nat /\ Len(new) = m /\ n = Len(new) - 1 /\ Above(n, Over(n))
  BY <1>3 DEF Longer, Coins
<1>5. e \in 1..Depth /\ e # Depth
  BY <1>1, DepthAssumption
<1>6. PICK d, k, f : d = AppendNode(c, coin) /\ k = b[0] /\ f = From(coins, k)
  OBVIOUS
<1>7. UnderNode(new, e, x, b, d)
  <2>1. Start(b, e, x) /\ k < n /\ TreeInv(e, f, c)
    BY <1>1, <1>2, <1>6 DEF UnderNode
  <2>2. k \in Nat
    BY <1>5, <1>6, <2>1 DEF Start
  <2>3. From(new, k) = Append(f, coin)
    <3>1. k \in 0..Len(coins)
      BY <1>2, <1>4, <2>1, <2>2
    <3> QED BY <1>6, <3>1, FromIs DEF Coins
  <2>4. TreeInv(e, Append(f, coin), d)
    BY <1>1, <1>5, <1>6, <2>1, TreeAdded
  <2>5. k < Len(new)
    BY <1>2, <1>4, <2>1, <2>2
  <2> QED BY <1>6, <2>1, <2>3, <2>4, <2>5 DEF UnderNode
<1>8. Anchored(new, w, q, C) /\ FilledTo(new, w, q, C, e)
  BY StillFilled
<1>9. PICK v, r : v = AppendWitness(w, coin) /\ r = root_inner(d, e, <<>>)
  OBVIOUS
<1>10. v = IF is_complete(d, e) THEN [w EXCEPT !.cursor = <<>>, !.filled = Append(@, r)]
                                ELSE [w EXCEPT !.cursor = <<d>>]
  <2>1. w.cursor # <<>> /\ w.cursor[1] = c
    BY <1>1
  <2> QED BY <1>1, <1>6, <1>9, <2>1 DEF AppendWitness, GrowCursor
<1>11. PICK t, l, g, h : t = w.tree /\ l = w.filled /\ g = w.cursor_depth /\ h = w.cursor
  OBVIOUS
<1>12. w = [tree |-> t, filled |-> l, cursor_depth |-> g, cursor |-> h]
  BY <1>11 DEF Witness
<1>13. CASE ~is_complete(d, e)
  <2>1. v = [w EXCEPT !.cursor = <<d>>]
    BY <1>10, <1>13
  <2>2. v = [tree |-> t, filled |-> l, cursor_depth |-> g, cursor |-> <<d>>]
    BY ONLY <1>12, <2>1
  <2>3. v.tree = t /\ v.filled = l /\ v.cursor_depth = g /\ v.cursor = <<d>>
    BY ONLY <2>2
  <2>4. Witness(v)
    BY <2>2, <2>3 DEF Witness
  <2>5. Anchored(new, v, q, C) /\ FilledTo(new, v, q, C, e)
    BY <1>8, <1>11, <2>3 DEF Anchored, FilledTo
  <2>6. Within(new, v, q, e)
    BY <1>1, <1>2, <1>7, <1>11, <1>13, <2>3 DEF Within
  <2> QED BY <1>9, <2>4, <2>5, <2>6 DEF WitnessAt
<1>14. CASE is_complete(d, e)
  <2>1. v = [w EXCEPT !.cursor = <<>>, !.filled = Append(@, r)]
    BY <1>10, <1>14
  <2>2. v = [tree |-> t, filled |-> Append(l, r), cursor_depth |-> g, cursor |-> <<>>]
    BY ONLY <1>12, <2>1
  <2>3. v.tree = t /\ v.filled = Append(l, r) /\ v.cursor_depth = g /\ v.cursor = <<>>
    BY ONLY <2>2
  <2>4. Witness(v)
    BY <2>2, <2>3 DEF Witness
  <2>5. PICK P : P = Over(n)
    OBVIOUS
  <2>6. IsNode(new, e, x, d, P)
    <3>1. IsList(new) /\ n = Len(new) - 1 /\ Above(n, P)
      BY <1>4, <2>5
    <3>2. e \in 1..Depth
      BY <1>5
    <3> QED BY ONLY <1>7, <3>1, <3>2, CursorIs
  <2>7. r = WholeTree(new)[e][q[e] + 1] /\ P[e] = q[e] + 1 /\ \A j \in 0..(e - 1) : Odd(P, j)
    BY <1>2, <1>9, <1>14, <2>6 DEF IsNode
  <2>8. v.tree = w.tree /\ v.cursor = <<>> /\ v.filled = Append(w.filled, r)
    BY <1>11, <2>3
  <2>9. \E y : WitnessAt(new, v, q, C, y)
    BY ONLY <1>4, <1>5, <1>8, <2>4, <2>5, <2>7, <2>8, Advance
  <2> QED BY <1>9, <2>9
<1> QED BY <1>13, <1>14

\* The first coin under the next node.
LEMMA GrowsBetween ==
  ASSUME NEW coins, Coins(coins), coins # <<>>, NEW coin, coin # None, NEW w, Witness(w), NEW q, NEW C, NEW e,
         Anchored(coins, w, q, C), FilledTo(coins, w, q, C, e), Between(coins, w, q, e), e # Depth,
         NEW new, new = Append(coins, coin)
  PROVE  \E f : WitnessAt(new, AppendWitness(w, coin), q, C, f)
<1>1. next_depth(w) = e
  BY NextDepthIs
<1>2. PICK x, n, m, W, V : x = q[e] + 1 /\ n = Len(coins) /\ m = n + 1 /\ W = WholeTree(coins) /\ V = WholeTree(new)
  OBVIOUS
<1>3. Longer(coins, coin, new, n, m, W, V)
  BY <1>2, CoinAdded
<1>4. /\ Coins(new) /\ IsList(new) /\ new # <<>> /\ n \in Nat /\ Len(new) = m /\ n = Len(new) - 1
      /\ Above(n, Over(n)) /\ V[0][n] = coin
  BY <1>3 DEF Longer, Coins
<1>5. e \in 0..(Depth - 1) /\ e \in 0..Depth /\ Depth \in Nat /\ e \in Nat /\ ~(e >= Depth)
  BY DepthAssumption DEF FilledTo
<1>6. PICK p, P, R : p = n - 1 /\ P = Over(p) /\ R = Over(n)
  OBVIOUS
<1>7. p \in Nat /\ n = p + 1 /\ Above(p, P) /\ Above(p + 1, R)
  <2>1. n # 0
    BY <1>2, EmptyList DEF Coins
  <2> QED BY <1>4, <1>6, <2>1, OverIs
<1>8. w.cursor = <<>> /\ P[e] = q[e] /\ \A j \in 0..(e - 1) : Odd(P, j)
  BY <1>2, <1>6 DEF Between
<1>9. \A j \in 0..e : R[j] = P[j] + 1
  BY <1>5, <1>7, <1>8, NextLeaf
<1>10. R[e] = x
  BY <1>2, <1>5, <1>8, <1>9
<1>11. Anchored(new, w, q, C) /\ FilledTo(new, w, q, C, e)
  BY StillFilled
<1>12. PICK v, d : v = AppendWitness(w, coin) /\ d = AppendNode(empty, coin)
  OBVIOUS
<1>13. v = IF e = 0 THEN [[w EXCEPT !.cursor_depth = e] EXCEPT !.filled = Append(@, coin)]
           ELSE [[w EXCEPT !.cursor_depth = e] EXCEPT !.cursor = <<d>>]
  BY <1>1, <1>5, <1>8, <1>12 DEF AppendWitness, StartSubtree
<1>14. PICK t, l, g : t = w.tree /\ l = w.filled /\ g = w.cursor_depth
  OBVIOUS
<1>15. w = [tree |-> t, filled |-> l, cursor_depth |-> g, cursor |-> <<>>]
  BY <1>8, <1>14 DEF Witness
<1>16. CASE e = 0
  <2>1. v = [[w EXCEPT !.cursor_depth = e] EXCEPT !.filled = Append(@, coin)]
    BY <1>13, <1>16
  <2>2. v = [tree |-> t, filled |-> Append(l, coin), cursor_depth |-> e, cursor |-> <<>>]
    BY ONLY <1>15, <2>1
  <2>3. v.tree = t /\ v.filled = Append(l, coin) /\ v.cursor_depth = e /\ v.cursor = <<>>
    BY ONLY <2>2
  <2>4. Witness(v)
    BY <2>2, <2>3 DEF Witness
  <2>5. coin = WholeTree(new)[e][q[e] + 1]
    <3>1. R[0] = n
      BY <1>6, <1>7 DEF Above
    <3>2. x = n
      BY <1>10, <1>16, <3>1
    <3> QED BY <1>2, <1>4, <1>16, <3>2
  <2>6. R = Over(n) /\ R[e] = q[e] + 1 /\ \A j \in 0..(e - 1) : Odd(R, j)
    BY <1>2, <1>6, <1>10, <1>16
  <2>7. v.tree = w.tree /\ v.cursor = <<>> /\ v.filled = Append(w.filled, coin)
    BY <1>14, <2>3
  <2>8. \E y : WitnessAt(new, v, q, C, y)
    BY ONLY e # Depth, <1>4, <1>11, <2>4, <2>5, <2>6, <2>7, Advance
  <2> QED BY <1>12, <2>8
<1>17. CASE e # 0
  <2>1. v = [[w EXCEPT !.cursor_depth = e] EXCEPT !.cursor = <<d>>]
    BY <1>13, <1>17
  <2>2. v = [tree |-> t, filled |-> l, cursor_depth |-> e, cursor |-> <<d>>]
    BY ONLY <1>15, <2>1
  <2>3. v.tree = t /\ v.filled = l /\ v.cursor_depth = e /\ v.cursor = <<d>>
    BY ONLY <2>2
  <2>4. Witness(v)
    BY <2>2, <2>3 DEF Witness
  <2>5. Anchored(new, v, q, C) /\ FilledTo(new, v, q, C, e)
    BY <1>11, <1>14, <2>3 DEF Anchored, FilledTo
  <2>6. PICK b : b = [h \in 0..e |-> R[h]]
    OBVIOUS
  <2>7. Start(b, e, x) /\ b[0] = n
    <3>1. \A h \in 0..e : h \in 0..Depth /\ R[h] \in Nat
      BY <1>5, <1>7 DEF Above
    <3>2. ASSUME NEW h \in 0..(e - 1) PROVE b[h] = 2 * b[h + 1]
      <4>1. h \in 0..e /\ h + 1 \in 0..e /\ h \in 0..Depth /\ h + 1 \in 0..Depth
        BY <1>5
      <4>2. PICK y, z : y = P[h] /\ z = P[h + 1]
        OBVIOUS
      <4>3. y \in Nat /\ z \in Nat /\ y = 2 * z + 1 /\ R[h] = y + 1 /\ R[h + 1] = z + 1
        BY <1>7, <1>8, <1>9, <4>1, <4>2 DEF Above, Odd
      <4>4. y + 1 = 2 * (z + 1)
        BY ONLY <4>3
      <4> QED BY <2>6, <4>1, <4>3, <4>4
    <3>3. b[e] = x /\ b[0] = n
      <4>1. 0 \in 0..e /\ e \in 0..e /\ R[0] = n
        BY <1>5, <1>7 DEF Above
      <4> QED BY <1>10, <2>6, <4>1
    <3>4. b \in [0..e -> Nat]
      BY <2>6, <3>1
    <3> QED BY <3>2, <3>3, <3>4 DEF Start
  <2>8. From(new, n) = Append(<<>>, coin)
    <3>1. n \in 0..Len(coins) /\ Len(coins) - n = 0
      BY <1>2, <1>4
    <3>2. PICK f : f = From(coins, n)
      OBVIOUS
    <3>3. IsList(f) /\ Len(f) = Len(coins) - n /\ From(Append(coins, coin), n) = Append(f, coin)
      BY <3>1, <3>2, FromIs DEF Coins
    <3>4. f = <<>>
      BY <3>1, <3>3, EmptyList
    <3> QED BY <3>3, <3>4
  <2>9. TreeInv(e, Append(<<>>, coin), d) /\ ~is_complete(d, e)
    <3>1. IsList(<<>>) /\ DOMAIN <<>> = {}
      BY DEF IsList
    <3>2. PICK f, u : f = <<>> /\ u = empty
      OBVIOUS
    <3>3. TreeInv(e, f, u)
      BY <3>1, <3>2 DEF TreeInv
    <3>4. u.left = None /\ u.right = None /\ u = [left |-> None, right |-> None, parents |-> u.parents]
      BY <3>2 DEF empty
    <3>5. ~is_complete(u, e)
      BY <3>4 DEF is_complete
    <3>6. TreeInv(e, Append(f, coin), AppendNode(u, coin))
      <4>1. e \in 1..Depth
        BY <1>5, <1>17
      <4> QED BY <3>3, <3>5, <4>1, TreeAdded
    <3>7. d = [u EXCEPT !.left = coin]
      BY <1>12, <3>2, <3>4 DEF AppendNode
    <3>8. d.right = None
      BY ONLY <3>4, <3>7
    <3>9. ~is_complete(d, e)
      BY <3>8 DEF is_complete
    <3> QED BY <1>12, <3>2, <3>6, <3>9
  <2>10. UnderNode(new, e, x, b, d)
    <3>1. b[0] < Len(new)
      BY <1>2, <1>4, <2>7
    <3> QED BY <2>7, <2>8, <2>9, <3>1 DEF UnderNode
  <2>11. Within(new, v, q, e)
    BY <1>2, <1>5, <1>17, <2>3, <2>9, <2>10 DEF Within
  <2> QED BY <1>12, <2>4, <2>5, <2>11 DEF WitnessAt
<1> QED BY <1>16, <1>17

\* The invariant of a witness.
WitnessInv(coins, w) == \E q, C, e : WitnessAt(coins, w, q, C, e)

\* A coin that fits into the tree.
LEMMA WitnessGrows ==
  ASSUME NEW coins, coins # <<>>, NEW t, TreeInv(Depth, coins, t), ~is_complete(t, Depth), NEW coin, coin # None,
         NEW w, WitnessInv(coins, w), NEW new, new = Append(coins, coin)
  PROVE  WitnessInv(new, AppendWitness(w, coin))
<1>1. Coins(coins)
  BY DEF TreeInv, Coins
<1>2. PICK q, C, e : WitnessAt(coins, w, q, C, e)
  BY DEF WitnessInv
<1>3. Witness(w) /\ Anchored(coins, w, q, C) /\ FilledTo(coins, w, q, C, e)
  BY <1>2 DEF WitnessAt
<1>4. CASE Between(coins, w, q, e)
  <2>1. e # Depth
    <3>1. PICK n, P : n = Len(coins) - 1 /\ P = Over(n)
      OBVIOUS
    <3>2. n \in Nat
      <4>1. Len(coins) \in Nat /\ Len(coins) # 0
        BY <1>1, ListIs, EmptyList DEF Coins
      <4> QED BY <3>1, <4>1
    <3>3. Above(n, P)
      BY <3>1, <3>2, OverIs
    <3>4. /\ P[Depth] = 0
          /\ is_complete(t, Depth) <=> \A j \in 0..(Depth - 1) : Odd(P, j)
      <4>1. Depth \in 1..Depth
        BY DepthAssumption
      <4>2. Above(Len(coins) - 1, P)
        BY <3>1, <3>3
      <4> QED BY <4>1, <4>2, TreeComplete
    <3>5. \A j \in 0..(e - 1) : Odd(P, j)
      BY <1>4, <3>1 DEF Between
    <3> QED BY <3>4, <3>5
  <2>2. \E f : WitnessAt(new, AppendWitness(w, coin), q, C, f)
    BY <1>1, <1>3, <1>4, <2>1, GrowsBetween
  <2> QED BY <2>2 DEF WitnessInv
<1>5. CASE Within(coins, w, q, e)
  <2>1. \E f : WitnessAt(new, AppendWitness(w, coin), q, C, f)
    BY <1>1, <1>3, <1>5, GrowsWithin
  <2> QED BY <2>1 DEF WitnessInv
<1> QED BY <1>2, <1>4, <1>5 DEF WitnessAt

\* A tree that is complete refuses the coin, and so does the witness.
LEMMA WitnessRefuses ==
  ASSUME NEW coins, coins # <<>>, NEW t, TreeInv(Depth, coins, t), is_complete(t, Depth), NEW coin,
         NEW w, WitnessInv(coins, w)
  PROVE  WitnessInv(coins, AppendWitness(w, coin))
<1>1. Coins(coins)
  BY DEF TreeInv, Coins
<1>2. PICK q, C, e : WitnessAt(coins, w, q, C, e)
  BY DEF WitnessInv
<1>3. Witness(w) /\ Anchored(coins, w, q, C) /\ FilledTo(coins, w, q, C, e)
  BY <1>2 DEF WitnessAt
<1>4. PICK n, P : n = Len(coins) - 1 /\ P = Over(n)
  OBVIOUS
<1>5. n \in Nat /\ Above(n, P)
  <2>1. Len(coins) \in Nat /\ Len(coins) # 0
    BY <1>1, ListIs, EmptyList DEF Coins
  <2> QED BY <1>4, <2>1, OverIs
<1>6. \A j \in 0..(Depth - 1) : Odd(P, j)
  <2>1. /\ P[Depth] = 0
        /\ is_complete(t, Depth) <=> \A j \in 0..(Depth - 1) : Odd(P, j)
    <3>1. Depth \in 1..Depth
      BY DepthAssumption
    <3>2. Above(Len(coins) - 1, P)
      BY <1>4, <1>5
    <3> QED BY <3>1, <3>2, TreeComplete
  <2> QED BY <2>1
<1>7. /\ Depth \in Nat \ {0} /\ e \in 0..Depth /\ Lacking(q, e)
      /\ P[e] = q[e] \/ P[e] = q[e] + 1
      /\ \A j \in (e + 1)..Depth : P[j] = q[j]
  <2>1. \A j \in (e + 1)..Depth : P[j] = q[j]
    BY <1>1, <1>2, <1>3, <1>4, LastIs DEF WitnessAt
  <2>2. P[e] = q[e] \/ P[e] = q[e] + 1
    BY <1>1, <1>2, <1>3, <1>4, LastIs DEF WitnessAt
  <2> QED BY <1>3, <2>1, <2>2, DepthAssumption DEF FilledTo
<1>8. ~Within(coins, w, q, e)
  <2> SUFFICES ASSUME Within(coins, w, q, e) PROVE FALSE
    OBVIOUS
  <2>1. PICK b, c : UnderNode(coins, e, q[e] + 1, b, c) /\ ~is_complete(c, e) /\ e \in 1..(Depth - 1)
    BY DEF Within
  <2>2. PICK x : x = q[e] + 1
    OBVIOUS
  <2>3. IsNode(coins, e, x, c, P)
    <3>1. UnderNode(coins, e, x, b, c) /\ e \in 1..Depth
      BY <1>7, <2>1, <2>2
    <3>2. IsList(coins) /\ n = Len(coins) - 1 /\ Above(n, P)
      BY <1>1, <1>4, <1>5 DEF Coins
    <3> QED BY ONLY <3>1, <3>2, CursorIs
  <2>4. \A j \in 0..(e - 1) : j \in 0..(Depth - 1)
    BY <1>7
  <2> QED BY <1>6, <2>1, <2>3, <2>4 DEF IsNode
<1>9. Between(coins, w, q, e)
  BY <1>2, <1>8 DEF WitnessAt
<1>10. e = Depth
  <2> SUFFICES ASSUME e # Depth PROVE FALSE
    OBVIOUS
  <2>1. e \in 0..(Depth - 1) /\ e + 1 \in (e + 1)..Depth
    BY <1>7
  <2>2. P[e] = q[e] /\ P[e + 1] = q[e + 1] /\ Odd(P, e)
    BY <1>4, <1>6, <1>7, <1>9, <2>1 DEF Between
  <2> QED BY <1>7, <2>2 DEF Odd, Lacking
<1>11. next_depth(w) = Depth
  BY <1>1, <1>3, <1>10, NextDepthIs
<1>12. PICK v, t0, l, g : v = AppendWitness(w, coin) /\ t0 = w.tree /\ l = w.filled /\ g = w.cursor_depth
  OBVIOUS
<1>13. w = [tree |-> t0, filled |-> l, cursor_depth |-> g, cursor |-> <<>>]
  BY <1>3, <1>9, <1>12 DEF Witness, Between
<1>14. v = [w EXCEPT !.cursor_depth = Depth]
  <2>1. w.cursor = <<>> /\ Depth >= Depth
    BY <1>7, <1>9 DEF Between
  <2> QED BY <1>11, <1>12, <2>1 DEF AppendWitness, StartSubtree
<1>15. v = [tree |-> t0, filled |-> l, cursor_depth |-> Depth, cursor |-> <<>>]
  BY ONLY <1>13, <1>14
<1>16. v.tree = t0 /\ v.filled = l /\ v.cursor_depth = Depth /\ v.cursor = <<>>
  BY ONLY <1>15
<1>17. WitnessAt(coins, v, q, C, e)
  <2>1. Witness(v)
    BY <1>15, <1>16 DEF Witness
  <2>2. Anchored(coins, v, q, C) /\ FilledTo(coins, v, q, C, e) /\ Between(coins, v, q, e)
    BY <1>3, <1>9, <1>12, <1>16 DEF Anchored, FilledTo, Between
  <2> QED BY <2>1, <2>2 DEF WitnessAt
<1> QED BY <1>12, <1>17 DEF WitnessInv

\* The witness of the last coin.
LEMMA WitnessStarts ==
  ASSUME NEW coins, coins # <<>>, NEW t, TreeInv(Depth, coins, t)
  PROVE  WitnessInv(coins, from_tree(t))
<1>1. Coins(coins)
  BY DEF TreeInv, Coins
<1>2. PICK p, W, w : p = Len(coins) - 1 /\ W = WholeTree(coins) /\ w = from_tree(t)
  OBVIOUS
<1>3. p \in Nat /\ p < Len(coins)
  <2>1. Len(coins) \in Nat /\ Len(coins) # 0
    BY <1>1, ListIs, EmptyList DEF Coins
  <2> QED BY <1>2, <2>1
<1>4. PICK q : Above(p, q) /\ Frontier(q, W, t)
  BY <1>2 DEF TreeInv
<1>5. w = [tree |-> t, filled |-> <<>>, cursor_depth |-> 0, cursor |-> <<>>]
  BY <1>2 DEF from_tree
<1>6. w.tree = t /\ w.filled = <<>> /\ w.cursor_depth = 0 /\ w.cursor = <<>>
  BY ONLY <1>5
<1>7. Nodes(W) /\ q[0] = p
  BY <1>1, <1>2, <1>4, WholeNodes DEF Coins, Above
<1>8. PICK C : Counting(q, C) /\ \A d \in 0..Depth : C[d] = Calls(t, d)
  BY <1>3, <1>4, <1>7, CountsAre
<1>9. Depth \in Nat /\ 0 \in 0..Depth
  BY DepthAssumption
<1>10. PICK e \in 0..Depth : Lacking(q, e) /\ (\A j \in 0..(e - 1) : Odd(q, j)) /\ C[e] = C[0]
  BY ONLY <1>8, <1>9, NextLacking
<1>11. Anchored(coins, w, q, C)
  BY <1>2, <1>3, <1>4, <1>6, <1>7, <1>8 DEF Anchored
<1>12. FilledTo(coins, w, q, C, e)
  <2>1. IsList(<<>>) /\ Len(<<>>) = 0
    BY DEF IsList
  <2>2. C[0] = 0 /\ \A d \in 0..Depth : C[d] \in Nat
    BY <1>8 DEF Counting
  <2>3. ASSUME NEW d \in 0..(Depth - 1), C[d] < Len(w.filled) PROVE FALSE
    <3>1. d \in 0..Depth
      BY <1>9
    <3> QED BY <1>6, <2>1, <2>2, <2>3, <3>1
  <2> QED BY <1>6, <1>10, <2>1, <2>2, <2>3 DEF FilledTo
<1>13. Between(coins, w, q, e)
  <2>1. PICK P : P = Over(p)
    OBVIOUS
  <2>2. Above(p, P)
    BY <1>3, <2>1, OverIs
  <2>3. \A j \in 0..Depth : P[j] = q[j]
    <3>1. P[0] = q[0]
      BY <1>7, <2>2 DEF Above
    <3> QED BY ONLY <1>3, <1>4, <1>9, <2>2, <3>1, AboveGrows
  <2>4. ASSUME NEW j \in 0..(e - 1) PROVE Odd(P, j)
    <3>1. j \in 0..Depth /\ j + 1 \in 0..Depth
      BY <1>9
    <3> QED BY <1>10, <2>3, <3>1 DEF Odd
  <2> QED BY <1>2, <1>6, <2>1, <2>3, <2>4 DEF Between
<1>14. Witness(w)
  BY <1>5, <1>6 DEF Witness
<1>15. WitnessAt(coins, w, q, C, e)
  BY <1>11, <1>12, <1>13, <1>14 DEF WitnessAt
<1> QED BY <1>2, <1>15 DEF WitnessInv

----------------------------------------------------------------------------
(* The ledger.                                                             *)

LedgerInv(l) ==
  /\ TreeInv(Depth, l.leaves, l.tree)
  /\ \A w \in l.witnesses : l.leaves # <<>> /\ WitnessInv(l.leaves, w)

LEMMA AddedKeeps ==
  ASSUME NEW l, LedgerInv(l), NEW coin, coin # None, NEW a, a = Added(l, coin), a.fits
  PROVE  LedgerInv(a) /\ a.leaves # <<>> /\ l.fits
<1>1. /\ a.leaves = Append(l.leaves, coin) /\ a.tree = AppendNode(l.tree, coin)
      /\ a.witnesses = {AppendWitness(w, coin) : w \in l.witnesses}
      /\ a.fits = (l.fits /\ ~is_complete(l.tree, Depth))
  BY DEF Added
<1>2. l.fits /\ ~is_complete(l.tree, Depth)
  BY <1>1
<1>3. TreeInv(Depth, l.leaves, l.tree)
  BY DEF LedgerInv
<1>4. TreeInv(Depth, a.leaves, a.tree)
  <2>1. Depth \in 1..Depth
    BY DepthAssumption
  <2> QED BY <1>1, <1>2, <1>3, <2>1, TreeAdded
<1>5. a.leaves # <<>>
  <2>1. Len(a.leaves) = Len(l.leaves) + 1 /\ Len(l.leaves) \in Nat
    BY <1>1, <1>3, ListAppend DEF TreeInv
  <2> QED BY <2>1
<1>6. ASSUME NEW w \in l.witnesses PROVE WitnessInv(a.leaves, AppendWitness(w, coin))
  <2>1. PICK coins, t, new : coins = l.leaves /\ t = l.tree /\ new = a.leaves
    OBVIOUS
  <2>2. coins # <<>> /\ WitnessInv(coins, w)
    BY <2>1 DEF LedgerInv
  <2>3. /\ TreeInv(Depth, coins, t) /\ ~is_complete(t, Depth) /\ coin # None
        /\ new = Append(coins, coin)
    BY <1>1, <1>2, <1>3, <2>1
  <2>4. WitnessInv(new, AppendWitness(w, coin))
    BY ONLY <2>2, <2>3, WitnessGrows
  <2> QED BY <2>1, <2>4
<1>7. \A w \in a.witnesses : WitnessInv(a.leaves, w)
  BY <1>1, <1>6
<1> QED BY <1>2, <1>4, <1>5, <1>7 DEF LedgerInv

LEMMA ReceivedKeeps ==
  ASSUME NEW l, LedgerInv(l), NEW out, out.revealed.coin # None, NEW r, r = Received(l, out), r.fits
  PROVE  LedgerInv(r)
<1>1. PICK coin, a : coin = out.revealed.coin /\ a = Added(l, coin)
  OBVIOUS
<1>2. r = a \/ r = [a EXCEPT !.witnesses = @ \cup {from_tree(a.tree)}]
  BY <1>1 DEF Received
<1>3. PICK x, y, z, u : a = [leaves |-> x, tree |-> y, witnesses |-> z, fits |-> u]
  BY <1>1 DEF Added
<1>4. PICK v : v = from_tree(y)
  OBVIOUS
<1>5. /\ r.leaves = x /\ r.tree = y /\ r.fits = u /\ (r.witnesses = z \/ r.witnesses = z \cup {v})
      /\ a.leaves = x /\ a.tree = y /\ a.witnesses = z /\ a.fits = u
  <2>1. a.leaves = x /\ a.tree = y /\ a.witnesses = z /\ a.fits = u
    BY ONLY <1>3
  <2>2. CASE r = [a EXCEPT !.witnesses = @ \cup {from_tree(a.tree)}]
    <3>1. r = [a EXCEPT !.witnesses = z \cup {v}]
      BY <1>4, <2>1, <2>2
    <3>2. r.leaves = x /\ r.tree = y /\ r.fits = u /\ r.witnesses = z \cup {v}
      BY ONLY <1>3, <3>1
    <3> QED BY <2>1, <3>2
  <2> QED BY <1>2, <2>1, <2>2
<1>6. LedgerInv(a) /\ a.leaves # <<>>
  BY <1>1, <1>5, AddedKeeps
<1>7. TreeInv(Depth, x, y) /\ x # <<>> /\ \A w \in z : WitnessInv(x, w)
  BY <1>5, <1>6 DEF LedgerInv
<1>8. WitnessInv(x, v)
  BY <1>4, <1>7, WitnessStarts
<1> QED BY <1>5, <1>7, <1>8 DEF LedgerInv

LEMMA AcceptKeeps ==
  ASSUME IInv, Accept, LedgerInv(Ledger)
  PROVE  \E l : LedgerInv(l) /\ leaves' = l.leaves /\ tree' = l.tree /\ witnesses' = l.witnesses
<1>1. PICK tx : tx = Decode(data)
  OBVIOUS
<1>2. PICK l : l = AllReceived(tx)
  OBVIOUS
<1>3. stage = "sent" /\ l.fits /\ leaves' = l.leaves /\ tree' = l.tree /\ witnesses' = l.witnesses
  BY <1>1, <1>2 DEF Accept
<1>4. PICK outs, n : outs = tx.outputs /\ n = Len(outs)
  OBVIOUS
<1>5. IsList(outs) /\ DOMAIN outs = 1..n /\ n \in Nat /\ \A i \in 1..n : outs[i].revealed.coin # None
  BY <1>1, <1>3, <1>4, AcceptedCoins, ListIs
<1>6. PICK f : /\ f[0] = Ledger /\ \A i \in 1..n : f[i] = Received(f[i - 1], outs[i])
               /\ l = f[n]
  <2>1. PICK k : k = Ledger
    OBVIOUS
  <2>2. l = Gathered(k, outs)
    BY <1>2, <1>4, <2>1 DEF AllReceived, Gathered
  <2>3. PICK f : Receives(k, outs, f) /\ Gathered(k, outs) = f[n]
    BY ONLY <1>4, <1>5, ReceivedAll
  <2> QED BY <1>4, <2>1, <2>2, <2>3 DEF Receives
<1> DEFINE T == {i \in Nat : i <= n /\ f[i].fits => LedgerInv(f[i])}
<1>7. 0 \in T
  BY <1>6
<1>8. ASSUME NEW i \in Nat, i \in T PROVE i + 1 \in T
  <2> SUFFICES ASSUME i + 1 <= n, f[i + 1].fits PROVE LedgerInv(f[i + 1])
    OBVIOUS
  <2>1. PICK j : j = i + 1
    OBVIOUS
  <2>2. j \in 1..n /\ j - 1 = i /\ i <= n
    BY <1>5, <2>1
  <2>3. PICK d, out, r : d = f[i] /\ out = outs[j] /\ r = f[j]
    OBVIOUS
  <2>4. r = Received(d, out) /\ out.revealed.coin # None /\ r.fits
    BY <1>5, <1>6, <2>1, <2>2, <2>3
  <2>5. d.fits
    <3>1. PICK a, coin : a = Added(d, coin) /\ coin = out.revealed.coin
      OBVIOUS
    <3>2. a.fits = (d.fits /\ ~is_complete(d.tree, Depth))
      BY <3>1 DEF Added
    <3>3. r.fits = a.fits
      BY <2>4, <3>1 DEF Received, Added
    <3> QED BY <2>4, <3>2, <3>3
  <2>6. LedgerInv(d)
    BY <1>8, <2>2, <2>3, <2>5
  <2>7. LedgerInv(r)
    BY ONLY <2>4, <2>6, ReceivedKeeps
  <2> QED BY <2>1, <2>3, <2>7
<1>9. n \in T
  <2> HIDE DEF T
  <2> QED BY <1>5, <1>7, <1>8, Induct
<1>10. LedgerInv(l)
  BY <1>3, <1>5, <1>6, <1>9
<1> QED BY <1>3, <1>10

LEMMA LedgerInductive == Spec => []LedgerInv(Ledger)
<1>1. \A x, y, z : LedgerInv([leaves |-> x, tree |-> y, witnesses |-> z, fits |-> TRUE]) <=>
                     /\ TreeInv(Depth, x, y)
                     /\ \A w \in z : x # <<>> /\ WitnessInv(x, w)
  BY DEF LedgerInv
<1>2. LedgerInv(Ledger) <=> /\ TreeInv(Depth, leaves, tree)
                            /\ \A w \in witnesses : leaves # <<>> /\ WitnessInv(leaves, w)
  BY <1>1 DEF Ledger
<1>3. LedgerInv(Ledger)' <=> /\ TreeInv(Depth, leaves', tree')
                             /\ \A w \in witnesses' : leaves' # <<>> /\ WitnessInv(leaves', w)
  BY <1>1 DEF Ledger
<1>4. Init => LedgerInv(Ledger)
  <2>1. IsList(<<>>) /\ DOMAIN <<>> = {}
    BY DEF IsList
  <2> QED BY <1>2, <2>1 DEF Init, TreeInv
<1>5. ASSUME IInv, LedgerInv(Ledger), [Next]_vars PROVE LedgerInv(Ledger)'
  <2>1. CASE UNCHANGED ledger
    BY <1>2, <1>3, <1>5, <2>1 DEF ledger
  <2>2. CASE Begin \/ BuildClearInput \/ BuildInput \/ BuildOutput \/ SignAndEncode \/ Refuse
    BY <2>1, <2>2 DEF Begin, BuildClearInput, BuildInput, BuildOutput, SignAndEncode, Refuse
  <2>3. CASE Accept
    <3>1. PICK l : LedgerInv(l) /\ leaves' = l.leaves /\ tree' = l.tree /\ witnesses' = l.witnesses
      BY <1>5, <2>3, AcceptKeeps
    <3> QED BY <1>3, <3>1 DEF LedgerInv
  <2>4. CASE FakeCoin
    <3>1. PICK coin, l : coin = <<"random", Len(leaves)>> /\ l = Added(Ledger, coin)
      OBVIOUS
    <3>2. leaves' = l.leaves /\ tree' = l.tree /\ witnesses' = l.witnesses /\ l.fits
      BY <2>4, <3>1 DEF FakeCoin
    <3>3. coin # None
      BY ONLY <3>1 DEF None
    <3>4. LedgerInv(l)
      BY <1>5, <3>1, <3>2, <3>3, AddedKeeps
    <3> QED BY <1>3, <3>2, <3>4 DEF LedgerInv
  <2>5. CASE FakeRefused
    <3>1. PICK coin : coin = <<"random", Len(leaves)>>
      OBVIOUS
    <3>2. /\ is_complete(tree, Depth) /\ leaves' = leaves /\ tree' = tree
          /\ witnesses' = {AppendWitness(w, coin) : w \in witnesses}
      BY <2>5, <3>1 DEF FakeRefused
    <3>3. ASSUME NEW w \in witnesses PROVE leaves # <<>> /\ WitnessInv(leaves, AppendWitness(w, coin))
      <4>1. TreeInv(Depth, leaves, tree) /\ leaves # <<>> /\ WitnessInv(leaves, w)
        BY <1>2, <1>5
      <4> QED BY <3>2, <4>1, WitnessRefuses
    <3>4. TreeInv(Depth, leaves, tree)
      BY <1>2, <1>5
    <3> QED BY <1>3, <3>2, <3>3, <3>4
  <2>6. CASE UNCHANGED vars
    BY <2>1, <2>6 DEF vars
  <2> QED BY <1>5, <2>2, <2>3, <2>4, <2>5, <2>6 DEF Next
<1> QED BY <1>4, <1>5, InductiveInvariant, PTL DEF Spec

LEMMA LedgerIs ==
  ASSUME LedgerInv(Ledger)
  PROVE  /\ TreeInv(Depth, leaves, tree)
         /\ \A w \in witnesses : leaves # <<>> /\ WitnessInv(leaves, w)
<1>1. Ledger.leaves = leaves /\ Ledger.tree = tree /\ Ledger.witnesses = witnesses
  BY DEF Ledger
<1> QED BY <1>1 DEF LedgerInv

(* For a tree of any depth, the root that is computed from the frontier is *)
(* that of the whole tree over the coins so far.                           *)
THEOREM RootsAreReference == Spec => []RootIsReference
<1>1. LedgerInv(Ledger) => RootIsReference
  <2>1. Depth \in 1..Depth
    BY DepthAssumption
  <2> QED BY <2>1, LedgerIs, TreeRootIs DEF RootIsReference, TreeRoot
<1> QED BY <1>1, LedgerInductive, PTL

(* For a tree of any depth, whichever coins have been appended since, the  *)
(* root that a witness computes is that of the updated tree.               *)
THEOREM WitnessesFollow == Spec => []WitnessFollows
<1>1. ASSUME LedgerInv(Ledger), NEW w \in witnesses PROVE WitnessRoot(w) = TreeRoot(tree)
  <2>1. TreeInv(Depth, leaves, tree) /\ leaves # <<>> /\ WitnessInv(leaves, w)
    BY <1>1, LedgerIs
  <2>2. Coins(leaves)
    BY <2>1 DEF TreeInv, Coins
  <2>3. WitnessRoot(w) = WholeTree(leaves)[Depth][0]
    BY <2>1, <2>2, WitnessRootIs DEF WitnessInv
  <2>4. Depth \in 1..Depth
    BY DepthAssumption
  <2> QED BY <2>1, <2>3, <2>4, TreeRootIs DEF TreeRoot
<1>2. LedgerInv(Ledger) => WitnessFollows
  BY <1>1 DEF WitnessFollows
<1> QED BY <1>2, LedgerInductive, PTL

----------------------------------------------------------------------------
(* The bits of a place.                                                    *)

\* s[h] is what the bits below h are worth.
Bits(q, s) ==
  /\ s \in [0..Depth -> Nat] /\ s[0] = 0
  /\ \A h \in 0..(Depth - 1) : s[h + 1] = s[h] + (IF Odd(q, h) THEN 2 ^ h ELSE 0)

LEMMA BitsExist ==
  ASSUME NEW q
  PROVE  \E s : Bits(q, s)
<1>1. Depth \in Nat
  BY DepthAssumption
<1>2. PICK step : step = [i \in 1..Depth |-> [x \in Nat |-> x + (IF Odd(q, i - 1) THEN 2 ^ (i - 1) ELSE 0)]]
  OBVIOUS
<1>3. ASSUME NEW i \in 1..Depth, NEW x \in Nat
      PROVE  x + (IF Odd(q, i - 1) THEN 2 ^ (i - 1) ELSE 0) \in Nat
  <2>1. i - 1 \in Nat
    BY <1>1
  <2>2. 2 ^ (i - 1) \in Nat
    BY <2>1, Powers
  <2> QED BY <2>2
<1>4. step \in [1..Depth -> [Nat -> Nat]]
  BY <1>2, <1>3
<1>5. PICK s \in [0..Depth -> Nat] : Iter(step, 0, Depth, s)
  BY <1>1, <1>4, IterExists
<1>6. ASSUME NEW h \in 0..(Depth - 1) PROVE s[h + 1] = s[h] + (IF Odd(q, h) THEN 2 ^ h ELSE 0)
  <2>1. PICK i : i = h + 1
    OBVIOUS
  <2>2. i \in 1..Depth /\ i - 1 = h /\ s[h] \in Nat
    BY <1>1, <1>5, <2>1
  <2>3. s[i] = step[i][s[i - 1]]
    BY <1>5, <2>2 DEF Iter
  <2> QED BY <1>2, <2>1, <2>2, <2>3
<1> QED BY <1>5, <1>6 DEF Bits, Iter

LEMMA BitsAre ==
  ASSUME NEW p \in Nat, NEW q, Above(p, q), NEW s, Bits(q, s), NEW h \in 0..Depth
  PROVE  p = s[h] + (2 ^ h) * q[h] /\ s[h] < 2 ^ h
<1>1. Depth \in Nat
  BY DepthAssumption
<1> DEFINE P(j) == p = s[j] + (2 ^ j) * q[j] /\ s[j] < 2 ^ j
           T == {j \in Nat : P(j)}
<1>2. 0 \in T
  BY Powers DEF Bits, Above
<1>3. ASSUME NEW j \in 0..(Depth - 1), j \in T PROVE j + 1 \in T
  <2>1. j \in Nat /\ j + 1 \in Nat /\ j \in 0..Depth /\ j + 1 \in 0..Depth
    BY <1>1
  <2>2. PICK w, v, x, y, a, b : /\ w = 2 ^ j /\ v = 2 ^ (j + 1) /\ x = q[j] /\ y = q[j + 1]
                                /\ a = s[j] /\ b = s[j + 1]
    OBVIOUS
  <2>3. w \in Nat /\ v = 2 * w
    BY <2>1, <2>2, Powers
  <2>4. /\ x \in Nat /\ y \in Nat /\ a \in Nat /\ b \in Nat
        /\ x = 2 * y \/ x = 2 * y + 1
        /\ b = a + (IF x = 2 * y + 1 THEN w ELSE 0)
    BY <2>1, <2>2 DEF Above, Bits, Odd
  <2>5. p = a + w * x /\ a < w
    BY <1>3, <2>2
  <2>6. CASE x = 2 * y + 1
    <3>1. w * x = 2 * w * y + w
      BY ONLY <2>3, <2>4, <2>6
    <3>2. b = a + w
      BY ONLY <2>3, <2>4, <2>6
    <3>3. PICK z : z = w * y
      OBVIOUS
    <3>4. z \in Nat /\ w * x = 2 * z + w /\ v * y = 2 * z
      BY ONLY <2>3, <2>4, <3>1, <3>3
    <3>5. p = b + v * y /\ b < v
      BY ONLY <2>3, <2>4, <2>5, <3>2, <3>4
    <3> QED BY <2>1, <2>2, <3>5
  <2>7. CASE x # 2 * y + 1
    <3>1. w * x = 2 * w * y
      BY ONLY <2>3, <2>4, <2>7
    <3>2. b = a
      BY ONLY <2>3, <2>4, <2>7
    <3>3. PICK z : z = w * y
      OBVIOUS
    <3>4. z \in Nat /\ w * x = 2 * z /\ v * y = 2 * z
      BY ONLY <2>3, <2>4, <3>1, <3>3
    <3>5. p = b + v * y /\ b < v
      BY ONLY <2>3, <2>4, <2>5, <3>2, <3>4
    <3> QED BY <2>1, <2>2, <3>5
  <2> QED BY <2>6, <2>7
<1> HIDE DEF T
<1>4. \A j \in 0..Depth : j \in T
  BY <1>1, <1>2, <1>3, InductUpTo
<1> QED BY <1>4 DEF T

\* The bits of p say where its path turns.
LEMMA BitIs ==
  ASSUME NEW p \in Nat, NEW q, Above(p, q), NEW h \in 0..(Depth - 1)
  PROVE  (p \div 2 ^ h) % 2 = 1 <=> Odd(q, h)
<1>1. PICK s : Bits(q, s)
  BY BitsExist
<1>2. h \in Nat /\ h \in 0..Depth /\ h + 1 \in 0..Depth
  BY DepthAssumption
<1>3. p = s[h] + (2 ^ h) * q[h] /\ s[h] < 2 ^ h
  BY <1>1, <1>2, BitsAre
<1>4. PICK w, x, y, r : w = 2 ^ h /\ x = q[h] /\ y = q[h + 1] /\ r = s[h]
  OBVIOUS
<1>5. /\ w \in Nat /\ x \in Nat /\ y \in Nat /\ r \in Nat /\ r < w
      /\ x = 2 * y \/ x = 2 * y + 1
  BY <1>1, <1>2, <1>3, <1>4, Powers DEF Above, Bits
<1>6. (w * x + r) \div w = x
  <2>1. w \in Nat \ {0}
    BY ONLY <1>5
  <2> QED BY ONLY <1>5, <2>1
<1>7. p = w * x + r
  <2>1. PICK z : z = w * x
    OBVIOUS
  <2>2. z \in Nat /\ p = r + z
    BY <1>3, <1>4, <1>5, <2>1
  <2>3. r + z = z + r
    BY ONLY <1>5, <2>2
  <2> QED BY <2>1, <2>2, <2>3
<1>8. x % 2 = 1 <=> x = 2 * y + 1
  BY ONLY <1>5
<1> QED BY <1>4, <1>6, <1>7, <1>8 DEF Odd

----------------------------------------------------------------------------
(* The position of a witness.                                              *)

\* What a subtree counts for.
Worth(t, i) == (IF t.parents[i] = None THEN 0 ELSE 1) * 2 ^ i

Subtrees(t) ==
  FoldLeftDomain(LAMBDA acc, i : acc + (IF t.parents[i] = None THEN 0 ELSE 1) * 2^i, 0, t.parents)

LEMMA SubtreesAre ==
  ASSUME NEW t, IsList(t.parents), NEW n, n = Len(t.parents)
  PROVE  \E f \in [0..n -> Nat] :
           /\ f[0] = 0 /\ \A i \in 1..n : f[i] = f[i - 1] + Worth(t, i)
           /\ Subtrees(t) = f[n]
<1>1. n \in Nat /\ DOMAIN t.parents = 1..n
  BY ListIs
<1> DEFINE s == [i \in DOMAIN t.parents |-> i]
           D == DOMAIN s
           step == [i \in 1..n |-> [x \in Nat |-> x + Worth(t, i)]]
           Eqn(g) == g = [u \in SUBSET D |-> IF u = {} THEN 0 ELSE g[u \ {Max(u)}] + Worth(t, s[Max(u)])]
<1>2. Subtrees(t) = (CHOOSE g : Eqn(g))[D]
  BY DEF Subtrees, Worth, FoldLeftDomain, FoldLeft, MapThenFoldSet
<1>3. ASSUME NEW i \in 1..n PROVE Worth(t, i) \in Nat
  <2>1. 2 ^ i \in Nat
    BY <1>1, Powers
  <2> QED BY <2>1 DEF Worth
<1> HIDE DEF s
<1>4. step \in [1..n -> [Nat -> Nat]]
  <2>1. ASSUME NEW i \in 1..n, NEW x \in Nat PROVE x + Worth(t, i) \in Nat
    BY <1>3
  <2> QED BY <2>1
<1>5. \A i \in 1..n, x \in Nat : step[i][x] = x + Worth(t, i)
  OBVIOUS
<1>6. D = 1..n /\ \A i \in 1..n : s[i] = i
  BY <1>1 DEF s
<1> HIDE DEF step, D
<1>7. PICK z : z = 0
  OBVIOUS
<1>8. PICK e \in [SUBSET (1..n) -> Nat] : Table(step, z, n, e)
  BY <1>1, <1>4, <1>7, TableExists
<1>9. Eqn(e)
  <2>1. ASSUME NEW u \in SUBSET (1..n), u # {}
        PROVE  e[u] = e[u \ {Max(u)}] + Worth(t, s[Max(u)])
    <3>1. PICK m : m = Max(u)
      OBVIOUS
    <3>2. m \in 1..n
      BY <1>1, <2>1, <3>1, Greatest
    <3>3. u \ {m} \in SUBSET (1..n)
      OBVIOUS
    <3>4. e[u \ {m}] \in Nat
      BY <1>8, <3>3
    <3>5. e[u] = step[m][e[u \ {m}]]
      BY <1>8, <2>1, <3>1 DEF Table
    <3>6. s[m] = m
      BY <1>6, <3>2
    <3> QED BY <1>5, <3>1, <3>2, <3>4, <3>5, <3>6
  <2>2. e[{}] = 0
    BY <1>7, <1>8 DEF Table
  <2> QED BY <1>6, <1>8, <2>1, <2>2
<1>10. PICK g : g = (CHOOSE h : Eqn(h))
  OBVIOUS
<1>11. Eqn(g)
  BY <1>9, <1>10, Zenon
<1>12. g[{}] = 0
  BY <1>6, <1>11
<1>13. ASSUME NEW i \in 1..n, g[1..(i - 1)] \in Nat PROVE g[1..i] = step[i][g[1..(i - 1)]]
  <2>1. PICK u : u = 1..i
    OBVIOUS
  <2>2. u \in SUBSET D /\ u # {} /\ Max(u) = i /\ u \ {i} = 1..(i - 1)
    BY <1>1, <1>6, <2>1, FirstPlaces
  <2>3. g[u] = g[u \ {Max(u)}] + Worth(t, s[Max(u)])
    BY <1>11, <2>2
  <2>4. s[i] = i
    BY <1>6
  <2>5. g[1..i] = g[1..(i - 1)] + Worth(t, i)
    BY <2>1, <2>2, <2>3, <2>4
  <2> QED BY <1>5, <1>13, <2>5
<1>14. PICK f \in [0..n -> Nat] : Iter(step, z, n, f) /\ g[1..n] = f[n]
  <2>1. PICK N : N = Nat
    OBVIOUS
  <2>2. Follows(N, step, z, n, g)
    BY <1>7, <1>12, <1>13, <2>1 DEF Follows
  <2>3. z \in N /\ n \in Nat /\ step \in [1..n -> [N -> N]]
    BY <1>1, <1>4, <1>7, <2>1
  <2>4. \E f \in [0..n -> N] : Iter(step, z, n, f) /\ g[1..n] = f[n]
    BY ONLY <2>2, <2>3, FoldResult
  <2> QED BY <2>1, <2>4
<1>15. ASSUME NEW i \in 1..n PROVE f[i] = f[i - 1] + Worth(t, i)
  <2>1. f[i - 1] \in Nat
    BY <1>1, <1>14
  <2> QED BY <1>5, <1>14, <2>1 DEF Iter
<1>16. f[0] = 0 /\ Subtrees(t) = f[n]
  BY <1>2, <1>6, <1>7, <1>10, <1>14 DEF Iter
<1> QED BY <1>15, <1>16

\* The frontier at leaf p holds p + 1 leaves.
LEMMA SizeIs ==
  ASSUME NEW p \in Nat, NEW q, Above(p, q), NEW W, Nodes(W), NEW t, Frontier(q, W, t)
  PROVE  size(t) = p + 1
<1>1. /\ t.left # None /\ (t.right # None <=> Odd(q, 0))
      /\ \A d \in 0..(Depth - 1) : Lacks(t, d) = IF Odd(q, d) THEN 0 ELSE 1
  BY LacksIs
<1>2. PICK n, m : n = Len(t.parents) /\ m = n + 1
  OBVIOUS
<1>3. /\ Depth \in Nat \ {0} /\ IsList(t.parents) /\ DOMAIN t.parents = 1..n /\ n \in Nat /\ n < Depth
      /\ m \in 0..Depth /\ q[m] = 0
  BY <1>2, ListIs, DepthAssumption DEF Frontier
<1>4. PICK f \in [0..n -> Nat] : /\ f[0] = 0 /\ \A i \in 1..n : f[i] = f[i - 1] + Worth(t, i)
                                 /\ Subtrees(t) = f[n]
  BY <1>2, <1>3, SubtreesAre
<1>5. PICK s : Bits(q, s)
  BY BitsExist
<1>6. PICK r : r = IF Odd(q, 0) THEN 1 ELSE 0
  OBVIOUS
<1>7. ASSUME NEW i \in 1..n PROVE Worth(t, i) = IF Odd(q, i) THEN 2 ^ i ELSE 0
  <2>1. i \in 0..(Depth - 1) /\ i \in DOMAIN t.parents /\ i # 0 /\ 2 ^ i \in Nat
    BY <1>3, Powers
  <2>2. Lacks(t, i) = IF t.parents[i] # None THEN 0 ELSE 1
    BY <2>1 DEF Lacks
  <2>3. t.parents[i] # None <=> Odd(q, i)
    BY <1>1, <2>1, <2>2
  <2>4. PICK x : x = 2 ^ i
    OBVIOUS
  <2>5. x \in Nat /\ 1 * x = x /\ 0 * x = 0
    BY <2>1, <2>4
  <2> QED BY <2>3, <2>4, <2>5 DEF Worth
<1> DEFINE T == {i \in Nat : i <= n => s[i + 1] = r + f[i]}
<1>8. 0 \in T
  <2>1. 0 \in 0..(Depth - 1) /\ s[0] = 0 /\ 0 + 1 = 1
    BY <1>3, <1>5 DEF Bits
  <2>2. s[1] = s[0] + (IF Odd(q, 0) THEN 2 ^ 0 ELSE 0)
    BY <1>5, <2>1 DEF Bits
  <2>3. s[1] = r /\ r \in Nat
    BY <1>6, <2>1, <2>2, Powers
  <2> QED BY <1>4, <2>1, <2>3
<1>9. ASSUME NEW i \in Nat, i \in T PROVE i + 1 \in T
  <2> SUFFICES ASSUME i + 1 <= n PROVE s[i + 1 + 1] = r + f[i + 1]
    OBVIOUS
  <2>1. PICK j : j = i + 1
    OBVIOUS
  <2>2. j \in 1..n /\ j - 1 = i /\ i \in 0..n /\ j \in 0..(Depth - 1) /\ j \in 0..Depth /\ i <= n
    BY <1>3, <2>1
  <2>3. PICK x : x = IF Odd(q, j) THEN 2 ^ j ELSE 0
    OBVIOUS
  <2>4. x \in Nat
    <3>1. 2 ^ j \in Nat
      BY <2>2, Powers
    <3> QED BY <2>3, <3>1
  <2>5. s[j + 1] = s[j] + x /\ f[j] = f[i] + x /\ s[j] = r + f[i] /\ f[i] \in Nat /\ r \in Nat
    BY <1>4, <1>5, <1>6, <1>7, <1>9, <2>1, <2>2, <2>3 DEF Bits
  <2>6. s[j + 1] = r + f[j]
    BY <2>4, <2>5
  <2> QED BY <2>1, <2>6
<1>10. s[m] = r + f[n]
  <2> HIDE DEF T
  <2>1. n \in T
    BY <1>3, <1>8, <1>9, Induct
  <2> QED BY <1>2, <1>3, <2>1 DEF T
<1>11. p = s[m]
  <2>1. p = s[m] + (2 ^ m) * q[m]
    BY <1>3, <1>5, BitsAre
  <2>2. PICK x, y : x = 2 ^ m /\ y = s[m]
    OBVIOUS
  <2>3. x \in Nat /\ y \in Nat /\ p = y + x * 0
    BY <1>3, <1>5, <2>1, <2>2, Powers DEF Bits
  <2>4. p = y
    BY ONLY <2>3
  <2> QED BY <2>2, <2>4
<1>12. size(t) = 1 + r + f[n]
  <2>1. size(t) = (IF t.left = None THEN 0 ELSE 1) + (IF t.right = None THEN 0 ELSE 1) + Subtrees(t)
    BY DEF size, Subtrees
  <2> QED BY <1>1, <1>4, <1>6, <2>1
<1>13. f[n] \in Nat /\ r \in Nat
  BY <1>3, <1>4, <1>6
<1> QED BY <1>10, <1>11, <1>12, <1>13

----------------------------------------------------------------------------
(* The path of a witness.                                                  *)

\* On each level the sibling of the node over leaf q[0].
Siblings(q, W, path) ==
  /\ path = [i \in 1..Depth |-> path[i]]
  /\ \A d \in 0..(Depth - 1) :
       /\ path[d + 1].is_right <=> Odd(q, d)
       /\ path[d + 1].node = IF Odd(q, d) THEN W[d][q[d] - 1] ELSE W[d][q[d] + 1]

LEMMA PathIs ==
  ASSUME NEW coins, Coins(coins), coins # <<>>, NEW w, NEW q, NEW C, NEW e, WitnessAt(coins, w, q, C, e)
  PROVE  Siblings(q, WholeTree(coins), path_inner(w))
<1>1. PICK W, t, f, s, n : /\ W = WholeTree(coins) /\ t = w.tree /\ f = filler(w)
                           /\ s = t.parents /\ n = Len(s)
  OBVIOUS
<1>2. Nodes(W) /\ Supplies(f, q, W, t, Depth)
  BY <1>1, WholeNodes, FillerIs DEF Coins
<1>3. Depth \in Nat \ {0} /\ 0 \in 0..Depth
  BY DepthAssumption
<1>4. PICK p : p = q[0]
  OBVIOUS
<1>5. p \in Nat /\ Above(p, q) /\ Frontier(q, W, t)
  BY <1>1, <1>3, <1>4 DEF WitnessAt, Anchored, Above
<1>6. /\ t.left # None /\ (t.right # None <=> Odd(q, 0))
      /\ \A d \in 0..(Depth - 1) : Lacks(t, d) = IF Odd(q, d) THEN 0 ELSE 1
      /\ \A d \in 1..(Depth - 1) : Odd(q, d) => d <= n
  <2>1. /\ t.left # None /\ (t.right # None <=> Odd(q, 0))
        /\ \A d \in 0..(Depth - 1) : Lacks(t, d) = IF Odd(q, d) THEN 0 ELSE 1
        /\ \A d \in 1..(Depth - 1) : Odd(q, d) => d <= Len(t.parents)
    BY ONLY <1>2, <1>5, LacksIs
  <2> QED BY <1>1, <2>1
<1>7. n \in Nat /\ n < Depth /\ t.left = W[0][2 * q[1]]
  <2>1. PICK x, y, z : t = [left |-> x, right |-> y, parents |-> z] /\ x = W[0][2 * q[1]]
    BY <1>5 DEF Frontier
  <2>2. t.left = x
    BY ONLY <2>1
  <2> QED BY <1>1, <1>5, <2>1, <2>2, ListIs DEF Frontier
<1> DEFINE Kept(d) == IF d = 0 THEN (IF t.right # None THEN t.left ELSE None)
                      ELSE IF Lacks(t, d) = 0 THEN t.parents[d] ELSE None
           Entry(d) == IF Kept(d) # None THEN [node |-> Kept(d), is_right |-> TRUE]
                       ELSE [node |-> next(f, Calls(t, d) + 1, d), is_right |-> FALSE]
<1>8. PICK path : path = path_inner(w)
  OBVIOUS
<1>9. path = [i \in 1..Depth |-> Entry(i - 1)]
  <2>1. PICK top : top = IF Len(t.parents) >= Depth THEN Len(t.parents) ELSE Depth - 1
    OBVIOUS
  <2>2. top + 1 = Depth
    BY <1>1, <1>3, <1>7, <2>1
  <2>3. path = [i \in 1..(top + 1) |-> Entry(i - 1)]
    BY <1>1, <1>8, <2>1 DEF path_inner
  <2> QED BY <2>2, <2>3
<1>10. ASSUME NEW d \in 0..(Depth - 1)
       PROVE  Kept(d) = IF Odd(q, d) THEN W[d][q[d] - 1] ELSE None
  <2>1. CASE d = 0
    <3>1. Odd(q, 0) => q[0] - 1 = 2 * q[1]
      <4>1. q[0] \in Nat /\ q[1] \in Nat
        BY <1>3, <1>5 DEF Above
      <4> QED BY <4>1 DEF Odd
    <3> QED BY <1>6, <1>7, <2>1, <3>1
  <2>2. CASE d # 0
    <3>1. d \in 1..(Depth - 1)
      BY <2>2
    <3>2. Lacks(t, d) = 0 <=> Odd(q, d)
      BY <1>6
    <3>3. ASSUME Odd(q, d) PROVE t.parents[d] = W[d][q[d] - 1]
      <4>1. d \in 1..Len(t.parents)
        BY <1>1, <1>6, <1>7, <3>1, <3>3
      <4> QED BY <1>5, <3>3, <4>1 DEF Frontier
    <3> QED BY <2>2, <3>2, <3>3
  <2> QED BY <2>1, <2>2
<1>11. ASSUME NEW d \in 0..(Depth - 1), Odd(q, d) PROVE W[d][q[d] - 1] # None
  <2>1. d \in 0..Depth /\ d + 1 \in 0..Depth
    BY <1>3
  <2>2. q[d] \in Nat /\ q[d + 1] \in Nat /\ q[d] = 2 * q[d + 1] + 1
    BY <1>5, <1>11, <2>1 DEF Above, Odd
  <2>3. q[d] - 1 \in Nat
    BY <2>2
  <2> QED BY <1>2, <2>1, <2>3 DEF Nodes
<1> HIDE DEF Kept
<1>12. ASSUME NEW d \in 0..(Depth - 1)
       PROVE  /\ path[d + 1].is_right <=> Odd(q, d)
              /\ path[d + 1].node = IF Odd(q, d) THEN W[d][q[d] - 1] ELSE W[d][q[d] + 1]
  <2>1. PICK i, x : i = d + 1 /\ x = Entry(d)
    OBVIOUS
  <2>2. i \in 1..Depth /\ i - 1 = d
    BY <1>3, <2>1
  <2>3. path[i] = x
    BY <1>9, <2>1, <2>2
  <2>4. CASE Odd(q, d)
    <3>1. x = [node |-> Kept(d), is_right |-> TRUE] /\ Kept(d) = W[d][q[d] - 1]
      BY <1>10, <1>11, <2>1, <2>4
    <3>2. x.is_right /\ x.node = Kept(d)
      BY <3>1
    <3> QED BY <2>1, <2>3, <2>4, <3>1, <3>2
  <2>5. CASE ~Odd(q, d)
    <3>1. PICK y : y = next(f, Calls(t, d) + 1, d)
      OBVIOUS
    <3>2. x = [node |-> y, is_right |-> FALSE]
      BY <1>10, <2>1, <2>5, <3>1
    <3>3. ~x.is_right /\ x.node = y
      BY <3>2
    <3>4. y = W[d][q[d] + 1]
      BY <1>2, <2>5, <3>1 DEF Supplies
    <3> QED BY <2>1, <2>3, <2>5, <3>3, <3>4
  <2> QED BY <2>4, <2>5
<1>13. path = [i \in 1..Depth |-> path[i]]
  BY <1>9
<1> QED BY <1>1, <1>8, <1>12, <1>13 DEF Siblings

\* The node over the i-th entry of a path.
Turned(path, node, i) ==
  IF path[i].is_right THEN merkle_hash(i - 1, path[i].node, node)
                      ELSE merkle_hash(i - 1, node, path[i].node)

Climbs(leaf, path, f) == f[0] = leaf /\ \A i \in 1..Len(path) : f[i] = Turned(path, f[i - 1], i)

LEMMA PathClimbs ==
  ASSUME NEW leaf, NEW path, IsList(path)
  PROVE  \E f : Climbs(leaf, path, f) /\ PathRoot(leaf, path) = f[Len(path)]
<1> DEFINE n == Len(path)
           s == [i \in DOMAIN path |-> i]
           D == DOMAIN s
           Eqn(g) == g = [t \in SUBSET D |-> IF t = {} THEN leaf
                                             ELSE Turned(path, g[t \ {Max(t)}], s[Max(t)])]
           Stepwise(k, e) == /\ e[{}] = leaf
                             /\ \A t \in SUBSET (1..k) :
                                  t # {} => e[t] = Turned(path, e[t \ {Max(t)}], Max(t))
           T == {k \in Nat : \E e : Stepwise(k, e)}
<1>1. PathRoot(leaf, path) = (CHOOSE g : Eqn(g))[D]
  BY DEF PathRoot, Turned, FoldLeftDomain, FoldLeft, MapThenFoldSet
<1>2. D = 1..n /\ n \in Nat /\ \A i \in 1..n : s[i] = i
  BY ListIs
<1> HIDE DEF n, D, s
<1>3. 0 \in T
  <2>1. PICK e : e = [t \in SUBSET (1..0) |-> leaf]
    OBVIOUS
  <2>2. 1..0 = {} /\ \A t \in SUBSET (1..0) : t = {}
    OBVIOUS
  <2>3. Stepwise(0, e)
    BY <2>1, <2>2
  <2> QED BY <2>3
<1>4. ASSUME NEW k \in Nat, k \in T PROVE k + 1 \in T
  <2>1. PICK e : Stepwise(k, e)
    BY <1>4
  <2>2. PICK m : m = k + 1
    OBVIOUS
  <2>3. m \in Nat /\ \A t \in SUBSET (1..m) : m \notin t => t \in SUBSET (1..k)
    BY <2>2
  <2>4. PICK d : d = [t \in SUBSET (1..m) |-> IF m \in t THEN Turned(path, e[t \ {m}], m) ELSE e[t]]
    OBVIOUS
  <2>5. ASSUME NEW t \in SUBSET (1..m), t # {}
        PROVE  d[t] = Turned(path, d[t \ {Max(t)}], Max(t))
    <3>1. CASE m \in t
      <4>1. Max(t) = m
        BY <2>3, <3>1, MaxIs
      <4>2. t \ {m} \in SUBSET (1..m) /\ m \notin t \ {m}
        OBVIOUS
      <4>3. d[t \ {m}] = e[t \ {m}]
        BY <2>4, <4>2
      <4> QED BY <2>4, <3>1, <4>1, <4>3
    <3>2. CASE m \notin t
      <4>1. t \in SUBSET (1..k)
        BY <2>3, <3>2
      <4>2. PICK x : x = Max(t)
        OBVIOUS
      <4>3. t \ {x} \in SUBSET (1..m) /\ m \notin t \ {x}
        BY <3>2
      <4>4. d[t \ {x}] = e[t \ {x}] /\ d[t] = e[t]
        BY <2>4, <3>2, <4>3
      <4>5. e[t] = Turned(path, e[t \ {x}], x)
        BY <2>1, <2>5, <4>1, <4>2
      <4> QED BY <4>2, <4>4, <4>5
    <3> QED BY <3>1, <3>2
  <2>6. d[{}] = leaf
    <3>1. {} \in SUBSET (1..m) /\ m \notin {}
      OBVIOUS
    <3> QED BY <2>1, <2>4, <3>1
  <2>7. Stepwise(m, d)
    BY <2>5, <2>6
  <2> QED BY <2>2, <2>3, <2>7
<1>5. n \in T
  <2> HIDE DEF T
  <2> QED BY <1>2, <1>3, <1>4, Induct
<1>6. PICK e : Stepwise(n, e)
  BY <1>5
<1>7. PICK h : h = [t \in SUBSET D |-> e[t]]
  OBVIOUS
<1>8. Eqn(h)
  <2>1. ASSUME NEW t \in SUBSET D, t # {} PROVE h[t] = Turned(path, h[t \ {Max(t)}], s[Max(t)])
    <3>1. t \ {Max(t)} \in SUBSET D
      OBVIOUS
    <3>2. s[Max(t)] = Max(t)
      BY <1>2, <2>1, Greatest
    <3> QED BY <1>2, <1>6, <1>7, <2>1, <3>1, <3>2
  <2>2. h[{}] = leaf
    BY <1>6, <1>7
  <2> QED BY <1>7, <2>1, <2>2
<1>9. PICK g : g = (CHOOSE x : Eqn(x))
  OBVIOUS
<1>10. Eqn(g)
  BY <1>8, <1>9, Zenon
<1>11. g[{}] = leaf
  BY <1>10
<1>12. PICK f : f = [i \in 0..n |-> g[1..i]]
  OBVIOUS
<1>13. ASSUME NEW i \in 1..n PROVE f[i] = Turned(path, f[i - 1], i)
  <2>1. PICK t, u : t = 1..i /\ u = 1..(i - 1)
    OBVIOUS
  <2>2. t \in SUBSET D /\ t # {} /\ Max(t) = i /\ t \ {i} = u /\ s[i] = i
    BY <1>2, <2>1, FirstPlaces
  <2>3. g[t] = Turned(path, g[t \ {Max(t)}], s[Max(t)])
    BY <1>10, <2>2
  <2>4. f[i] = g[t] /\ f[i - 1] = g[u]
    BY <1>2, <1>12, <2>1
  <2> QED BY <2>2, <2>3, <2>4
<1>14. f[0] = leaf
  <2>1. 1..0 = {} /\ 0 \in 0..n
    BY <1>2
  <2> QED BY <1>11, <1>12, <2>1
<1>15. PathRoot(leaf, path) = f[n]
  BY <1>1, <1>2, <1>9, <1>12
<1> QED BY <1>13, <1>14, <1>15 DEF n, Climbs

\* A path of siblings climbs from the leaf to the root.
LEMMA SiblingsLead ==
  ASSUME NEW W, Rows(W), NEW p \in Nat, NEW q, Above(p, q), NEW path, Siblings(q, W, path),
         NEW leaf, leaf = W[0][p]
  PROVE  Len(path) = Depth /\ PathRoot(leaf, path) = W[Depth][q[Depth]]
<1>1. Depth \in Nat
  BY DepthAssumption
<1>2. IsList(path) /\ Len(path) = Depth
  BY <1>1, IsAList DEF Siblings
<1>3. PICK f : Climbs(leaf, path, f) /\ PathRoot(leaf, path) = f[Depth]
  BY <1>2, PathClimbs
<1> DEFINE T == {i \in Nat : f[i] = W[i][q[i]]}
<1>4. 0 \in T
  BY <1>3 DEF Climbs, Above
<1>5. ASSUME NEW d \in 0..(Depth - 1), d \in T PROVE d + 1 \in T
  <2>1. PICK i : i = d + 1
    OBVIOUS
  <2>2. i \in 1..Depth /\ i - 1 = d /\ d \in 0..Depth /\ i \in 0..Depth /\ i \in Nat
    BY <1>1, <2>1
  <2>3. PICK x, y : x = q[d] /\ y = q[i]
    OBVIOUS
  <2>4. x \in Nat /\ y \in Nat /\ (x = 2 * y \/ x = 2 * y + 1) /\ (Odd(q, d) <=> x = 2 * y + 1)
    BY <2>1, <2>2, <2>3 DEF Above, Odd
  <2>5. f[i] = Turned(path, W[d][x], i)
    BY <1>2, <1>3, <1>5, <2>2, <2>3 DEF Climbs
  <2>6. W[i][y] = merkle_hash(d, W[d][2 * y], W[d][2 * y + 1])
    BY <2>2, <2>4 DEF Rows, combine
  <2>7. /\ path[i].is_right <=> Odd(q, d)
        /\ path[i].node = IF Odd(q, d) THEN W[d][x - 1] ELSE W[d][x + 1]
    BY <2>1, <2>3 DEF Siblings
  <2>8. CASE Odd(q, d)
    <3>1. x = 2 * y + 1 /\ x - 1 = 2 * y
      BY <2>4, <2>8
    <3> QED BY <2>1, <2>2, <2>3, <2>5, <2>6, <2>7, <2>8, <3>1 DEF Turned
  <2>9. CASE ~Odd(q, d)
    <3>1. x = 2 * y /\ x + 1 = 2 * y + 1
      BY <2>4, <2>9
    <3> QED BY <2>1, <2>2, <2>3, <2>5, <2>6, <2>7, <2>9, <3>1 DEF Turned
  <2> QED BY <2>8, <2>9
<1>6. Depth \in T
  <2> HIDE DEF T
  <2>1. \A i \in 0..Depth : i \in T
    BY <1>1, <1>4, <1>5, InductUpTo
  <2> QED BY <1>1, <2>1
<1> QED BY <1>2, <1>3, <1>6

(* For a tree of any depth, the path of a witness has an entry for every   *)
(* level, leads from its coin to the root of the updated tree, and turns   *)
(* as the bits of its position do.                                         *)
THEOREM PathsProve == Spec => []PathProves
<1>1. ASSUME LedgerInv(Ledger), NEW w \in witnesses
      PROVE  LET path == path_inner(w) IN
             /\ Len(path) = Depth
             /\ PathRoot(leaves[position(w) + 1], path) = TreeRoot(tree)
             /\ \A i \in 1..Depth : path[i].is_right <=> (position(w) \div 2 ^ (i - 1)) % 2 = 1
  <2>1. TreeInv(Depth, leaves, tree) /\ leaves # <<>> /\ WitnessInv(leaves, w) /\ Coins(leaves)
    BY <1>1, LedgerIs DEF TreeInv, Coins
  <2>2. PICK q, C, e : WitnessAt(leaves, w, q, C, e)
    BY <2>1 DEF WitnessInv
  <2>3. PICK W, p, path : W = WholeTree(leaves) /\ p = q[0] /\ path = path_inner(w)
    OBVIOUS
  <2>4. Siblings(q, W, path)
    BY <2>1, <2>2, <2>3, PathIs
  <2>5. /\ Rows(W) /\ Nodes(W) /\ Leaves(W, leaves) /\ Depth \in Nat \ {0}
        /\ p \in Nat /\ Above(p, q) /\ p < Len(leaves) /\ Frontier(q, W, w.tree)
    <3>1. Depth \in Nat \ {0} /\ 0 \in 0..Depth
      BY DepthAssumption
    <3> QED BY <2>1, <2>2, <2>3, <3>1, WholeTreeIs, WholeNodes DEF WitnessAt, Anchored, Above, Coins
  <2>6. position(w) = p
    <3>1. PICK t : t = w.tree
      OBVIOUS
    <3>2. size(t) = p + 1
      BY <2>5, <3>1, SizeIs
    <3> QED BY <2>5, <3>1, <3>2 DEF position
  <2>7. leaves[p + 1] = W[0][p]
    BY <2>5 DEF Leaves
  <2>8. Len(path) = Depth /\ PathRoot(leaves[p + 1], path) = W[Depth][q[Depth]]
    BY <2>4, <2>5, <2>7, SiblingsLead
  <2>9. q[Depth] = 0
    <3>1. PICK n : n = Len(w.tree.parents) + 1
      OBVIOUS
    <3>2. n \in 0..Depth /\ Depth \in n..Depth /\ q[n] = 0
      BY <2>5, <3>1, ListIs DEF Frontier
    <3> QED BY <2>5, <3>2, FirstAbove
  <2>10. TreeRoot(tree) = W[Depth][0]
    <3>1. Depth \in 1..Depth
      BY <2>5
    <3> QED BY <2>1, <2>3, <3>1, TreeRootIs DEF TreeRoot
  <2>11. ASSUME NEW i \in 1..Depth PROVE path[i].is_right <=> (p \div 2 ^ (i - 1)) % 2 = 1
    <3>1. PICK d : d = i - 1
      OBVIOUS
    <3>2. d \in 0..(Depth - 1) /\ d + 1 = i
      BY <2>5, <3>1
    <3>3. (p \div 2 ^ d) % 2 = 1 <=> Odd(q, d)
      BY <2>5, <3>2, BitIs
    <3>4. path[d + 1].is_right <=> Odd(q, d)
      BY <2>4, <3>2 DEF Siblings
    <3> QED BY <3>1, <3>2, <3>3, <3>4
  <2> QED BY <2>3, <2>6, <2>8, <2>9, <2>10, <2>11
<1>2. LedgerInv(Ledger) => PathProves
  BY <1>1 DEF PathProves
<1> QED BY <1>2, LedgerInductive, PTL

=============================================================================
