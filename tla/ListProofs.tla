----------------------------- MODULE ListProofs -----------------------------
(***************************************************************************)
(* What the other proofs have to know about natural numbers and about      *)
(* sequences: induction, powers of two, division, the queue of a FIFO      *)
(* channel, the elements an std::remove keeps, lists that lead from place  *)
(* to place.                                                               *)
(***************************************************************************)
EXTENDS Lists, SequenceTheorems, FiniteSetTheorems, WellFoundedInduction, TLAPS

(***************************************************************************)
(* Induction, as a fact about sets of numbers: what a set of naturals that *)
(* is not empty has is a least element.                                    *)
(***************************************************************************)
LEMMA Least ==
  ASSUME NEW T \in SUBSET Nat, T # {}
  PROVE  \E n \in T : \A m \in T : n <= m
<1> DEFINE R == {ss \in Nat \X Nat : ss[1] < ss[2]}
<1>1. IsWellFoundedOn(R, Nat)
  BY NatLessThanWellFounded DEF OpToRel
<1>2. ASSUME NEW m \in Nat, NEW n \in Nat, <<m, n>> \notin R
      PROVE  n <= m
  <2>1. <<m, n>> \in Nat \X Nat
    BY Zenon
  <2> QED
    BY <1>2, <2>1, <<m, n>>[1] = m, <<m, n>>[2] = n
<1> HIDE DEF R
<1>3. PICK n \in T : \A m \in T : ~ (<<m, n>> \in R)
  BY <1>1, WFMin
<1>4. \A m \in T : n <= m
  BY <1>2, <1>3
<1> QED
  BY <1>4

\* A set that holds 0, and n + 1 with every n below a bound, holds all up to it.
LEMMA Induction ==
  ASSUME NEW bound \in Nat, NEW Good, 0 \in Good,
         \A n \in 0 .. bound : n < bound /\ n \in Good => n + 1 \in Good
  PROVE  \A n \in 0 .. bound : n \in Good
<1> DEFINE Bad == {n \in 0 .. bound : n \notin Good}
<1> SUFFICES ASSUME Bad # {}
             PROVE  FALSE
  OBVIOUS
<1>1. Bad \in SUBSET Nat
  OBVIOUS
<1>2. PICK n \in Bad : \A m \in Bad : n <= m
  BY <1>1, Least
<1>3. n # 0 /\ n \in 1 .. bound
  BY <1>2
<1>4. n - 1 \in 0 .. bound /\ n - 1 < bound /\ (n - 1) + 1 = n /\ ~ (n <= n - 1)
  BY <1>3
<1>5. n - 1 \in Good
  BY <1>2, <1>4
<1> QED
  BY <1>2, <1>4, <1>5
-----------------------------------------------------------------------------
(***************************************************************************)
(* Powers of two: a set of n elements has 2^n subsets.                     *)
(***************************************************************************)
LEMMA Subsets ==
  ASSUME NEW m \in Nat, NEW n \in Nat
  PROVE  /\ IsFiniteSet(SUBSET (m + 1 .. m + n))
         /\ Cardinality(SUBSET (m + 1 .. m + n)) = 2^n
<1>1. IsFiniteSet(m + 1 .. m + n) /\ Cardinality(m + 1 .. m + n) = n
  <2>1. (m + n) - (m + 1) + 1 = n /\ (m + 1 > m + n <=> n = 0)
    OBVIOUS
  <2> QED
    BY <2>1, FS_Interval
<1> QED
  BY <1>1, FS_SUBSET

LEMMA PowerTyped ==
  ASSUME NEW n \in Nat
  PROVE  2^n \in Nat \ {0}
<1> DEFINE S == SUBSET (0 + 1 .. 0 + n)
<1>1. IsFiniteSet(S) /\ Cardinality(S) = 2^n
  BY Subsets
<1>2. {} \in S
  OBVIOUS
<1> HIDE DEF S
<1>3. Cardinality(S) \in Nat
  BY <1>1, FS_CardinalityType
<1>4. Cardinality(S) # 0
  BY <1>1, <1>2, FS_EmptySet
<1> QED
  BY <1>1, <1>3, <1>4

LEMMA Pairs ==
  ASSUME NEW X, NEW Y, NEW p \in X \X Y
  PROVE  p[1] \in X /\ p[2] \in Y /\ p = <<p[1], p[2]>>
OBVIOUS

LEMMA PowerSum ==
  ASSUME NEW m \in Nat, NEW n \in Nat
  PROVE  2^(m + n) = 2^m * 2^n
<1> DEFINE A == 1 .. m
           B == m + 1 .. m + n
           X == SUBSET A
           Y == SUBSET B
           T == SUBSET (1 .. m + n)
           f == [p \in X \X Y |-> p[1] \cup p[2]]
<1>1. IsFiniteSet(X) /\ Cardinality(X) = 2^m
  <2>1. 0 + 1 = 1 /\ 0 + m = m
    OBVIOUS
  <2> QED
    BY <2>1, Subsets
<1>2. IsFiniteSet(Y) /\ Cardinality(Y) = 2^n
  BY Subsets
<1>3. Cardinality(T) = 2^(m + n)
  <2>1. 0 + 1 = 1 /\ 0 + (m + n) = m + n /\ m + n \in Nat
    OBVIOUS
  <2> QED
    BY <2>1, Subsets
<1>4. A \cup B = 1 .. m + n /\ A \cap B = {}
  OBVIOUS
<1>5. /\ \A x \in X, y \in Y : x \cup y \in T
      /\ \A x \in X, y \in Y : x = (x \cup y) \cap A /\ y = (x \cup y) \cap B
      /\ \A t \in T : t \cap A \in X /\ t \cap B \in Y /\ t = (t \cap A) \cup (t \cap B)
  <2>1. \A x : (x \in X <=> x \subseteq A) /\ (x \in Y <=> x \subseteq B)
                 /\ (x \in T <=> x \subseteq A \cup B)
    BY <1>4
  <2> HIDE DEF A, B, X, Y, T
  <2>2. \A x \in X, y \in Y : x \cup y \in T
    BY <2>1
  <2>3. \A x \in X, y \in Y : x = (x \cup y) \cap A /\ y = (x \cup y) \cap B
    BY <1>4, <2>1
  <2>4. \A t \in T : t \cap A \in X /\ t \cap B \in Y /\ t = (t \cap A) \cup (t \cap B)
    BY <2>1
  <2> QED
    BY <2>2, <2>3, <2>4
<1> HIDE DEF A, B, X, Y, T
<1>6. IsFiniteSet(X \X Y) /\ Cardinality(X \X Y) = 2^m * 2^n
  BY <1>1, <1>2, FS_Product
<1>7. f \in [X \X Y -> T]
  <2>1. \A p \in X \X Y : p[1] \cup p[2] \in T
    BY <1>5, Pairs
  <2> QED
    BY <2>1
<1>8. \A p, q \in X \X Y : f[p] = f[q] => p = q
  <2> SUFFICES ASSUME NEW p \in X \X Y, NEW q \in X \X Y, p[1] \cup p[2] = q[1] \cup q[2]
               PROVE  p = q
    BY DEF f
  <2>1. p[1] \in X /\ q[1] \in X /\ p[2] \in Y /\ q[2] \in Y
    BY Pairs
  <2>2. /\ p[1] = (p[1] \cup p[2]) \cap A /\ p[2] = (p[1] \cup p[2]) \cap B
        /\ q[1] = (q[1] \cup q[2]) \cap A /\ q[2] = (q[1] \cup q[2]) \cap B
    BY <1>5, <2>1, Zenon
  <2>3. p[1] = q[1] /\ p[2] = q[2]
    BY <2>2, Zenon
  <2> QED
    BY <2>3, Pairs
<1>9. \A t \in T : \E p \in X \X Y : f[p] = t
  <2> SUFFICES ASSUME NEW t \in T
               PROVE  \E p \in X \X Y : f[p] = t
    OBVIOUS
  <2>1. <<t \cap A, t \cap B>> \in X \X Y
    BY <1>5
  <2>2. f[<<t \cap A, t \cap B>>] = t
    BY <1>5, <2>1
  <2> QED
    BY <2>1, <2>2
<1> HIDE DEF f
<1>10. f \in Bijection(X \X Y, T)
  BY <1>7, <1>8, <1>9 DEF Bijection, Injection, Surjection, IsInjective
<1>11. Cardinality(T) = Cardinality(X \X Y)
  BY <1>6, <1>10, FS_Bijection DEF ExistsBijection
<1> QED
  BY <1>3, <1>6, <1>11

LEMMA PowerZero == 2^0 = 1 /\ 2^1 = 2 /\ 2^2 = 4 /\ 2^3 = 8
OBVIOUS

LEMMA PowerOrder ==
  ASSUME NEW m \in Nat, NEW n \in Nat, m <= n
  PROVE  /\ n - m \in Nat /\ 2^n = 2^m * 2^(n - m) /\ 2^m <= 2^n
         /\ m < n => 2 * 2^m <= 2^n
<1>1. n - m \in Nat /\ m + (n - m) = n
  OBVIOUS
<1>2. 2^n = 2^m * 2^(n - m)
  BY <1>1, PowerSum
<1>3. 2^m \in Nat \ {0} /\ 2^(n - m) \in Nat \ {0}
  BY <1>1, PowerTyped
<1>4. ASSUME m < n
      PROVE  2^(n - m) >= 2
  <2>1. (n - m) - 1 \in Nat /\ ((n - m) - 1) + 1 = n - m
    BY <1>4
  <2>2. 2^(n - m) = 2^((n - m) - 1) * 2^1 /\ 2^((n - m) - 1) \in Nat \ {0}
    BY <2>1, PowerSum, PowerTyped
  <2> QED
    BY <2>2, PowerZero
<1>5. \A a, b \in Nat \ {0} : a <= a * b /\ (b >= 2 => 2 * a <= a * b)
  OBVIOUS
<1> QED
  BY <1>1, <1>2, <1>3, <1>4, <1>5
-----------------------------------------------------------------------------
(***************************************************************************)
(* Division: quotients and rests, which SMT does not find by itself when   *)
(* the divisor is no number.                                               *)
(***************************************************************************)
LEMMA DivMod ==
  ASSUME NEW n \in Int, NEW u \in Nat \ {0}
  PROVE  /\ n \div u \in Int /\ n % u \in 0 .. u - 1
         /\ n = (n \div u) * u + (n % u)
OBVIOUS

\* Facts about products.
LEMMA Products ==
  ASSUME NEW p \in Int, NEW q \in Int, NEW u \in Nat \ {0}
  PROVE  /\ p * u \in Int /\ (p + 1) * u = p * u + u
         /\ p * u < q * u <=> p < q
         /\ p * u <= q * u <=> p <= q
OBVIOUS

LEMMA RestIs ==
  ASSUME NEW c \in Nat \ {0}, NEW p \in Int, NEW r \in 0 .. c - 1
  PROVE  (p * c + r) % c = r
<1> DEFINE n == p * c + r
<1>1. n \in Int /\ p * c \in Int /\ (p + 1) * c = p * c + c
  OBVIOUS
<1>2. n \div c \in Int /\ n % c \in 0 .. c - 1 /\ n = (n \div c) * c + (n % c)
  BY <1>1, DivMod
<1> DEFINE q == n \div c
<1>3. q * c \in Int /\ (q + 1) * c = q * c + c
  BY <1>2
<1> HIDE DEF q
<1>4. q * c < (p + 1) * c /\ p * c < (q + 1) * c
  BY <1>1, <1>2, <1>3 DEF q
<1>5. q \in Int /\ q < p + 1 /\ p < q + 1
  BY <1>2, <1>4, Products DEF q
<1>6. q = p
  BY <1>5
<1> QED
  BY <1>1, <1>2, <1>6 DEF q

\* One more digit: the rest of a division by u * w.
LEMMA Digits ==
  ASSUME NEW n \in Nat, NEW u \in Nat \ {0}, NEW w \in Nat \ {0}
  PROVE  n % (u * w) = (n % u) + ((n \div u) % w) * u
<1> DEFINE q == n \div u
           r == n % u
           p == q \div w
           s == q % w
<1>1. q \in Int /\ r \in 0 .. u - 1 /\ n = q * u + r
  BY DivMod
<1>2. p \in Int /\ s \in 0 .. w - 1 /\ q = p * w + s
  BY <1>1, DivMod
<1> HIDE DEF q, r, p, s
<1>3. u * w \in Nat \ {0}
  OBVIOUS
<1>4. s * u \in Nat /\ s * u <= (w - 1) * u /\ (w - 1) * u = u * w - u
  BY <1>2
<1>5. s * u + r \in 0 .. u * w - 1
  BY <1>1, <1>3, <1>4
<1>6. n = p * (u * w) + (s * u + r)
  <2>1. (p * w + s) * u = p * (u * w) + s * u
    BY <1>2
  <2> QED
    BY <1>1, <1>2, <2>1
<1>7. n % (u * w) = s * u + r
  BY <1>2, <1>3, <1>5, <1>6, RestIs
<1> QED
  BY <1>1, <1>4, <1>7 DEF q, r, s
-----------------------------------------------------------------------------
(***************************************************************************)
(* What was sent on a FIFO channel is what was received followed by what   *)
(* is queued.                                                              *)
(***************************************************************************)
\* Moving the first item of the queue to the received ones keeps the equation.
LEMMA MoveHead ==
  ASSUME NEW S, NEW s \in Seq(S), NEW q \in Seq(S), q # <<>>
  PROVE  Append(s, Head(q)) \o Tail(q) = s \o q
<1>1. q = <<Head(q)>> \o Tail(q)
  BY HeadTailProperties, ConcatProperties
<1>2. Append(s, Head(q)) = s \o <<Head(q)>>
  BY AppendIsConcat, HeadTailProperties
<1>3. (s \o <<Head(q)>>) \o Tail(q) = s \o (<<Head(q)>> \o Tail(q))
  <2>1. <<Head(q)>> \in Seq(S) /\ Tail(q) \in Seq(S)
    BY HeadTailProperties
  <2> QED BY <2>1, ConcatAssociative
<1> QED BY <1>1, <1>2, <1>3

\* The first item of the queue is the next one to receive.
LEMMA HeadIsNext ==
  ASSUME NEW S, NEW s \in Seq(S), NEW q \in Seq(S), q # <<>>
  PROVE  Len(s) < Len(s \o q) /\ (s \o q)[Len(s) + 1] = Head(q)
<1>1. Len(q) \in Nat \ {0} /\ Len(s) \in Nat /\ Head(q) = q[1]
  BY LenProperties
<1>2. Len(s \o q) = Len(s) + Len(q)
  BY ConcatProperties
<1>3. (s \o q)[Len(s) + 1] = q[1]
  <2>1. Len(s) + 1 \in 1 .. Len(s) + Len(q)
    BY <1>1
  <2>2. (s \o q)[Len(s) + 1] =
          IF Len(s) + 1 <= Len(s) THEN s[Len(s) + 1] ELSE q[Len(s) + 1 - Len(s)]
    BY <2>1, ConcatProperties
  <2> QED BY <1>1, <2>2
<1> QED BY <1>1, <1>2, <1>3
-----------------------------------------------------------------------------
(***************************************************************************)
(* Without.                                                                *)
(***************************************************************************)
Keep(list, x, f, n) ==
  IF n = 0 THEN <<>>
  ELSE IF list[n] = x THEN f[n - 1]
  ELSE Append(f[n - 1], list[n])

\* The function Without chooses exists.
LEMMA KeptExists ==
  ASSUME NEW list, NEW x, NEW m \in Nat
  PROVE  \E f : f = [n \in 0 .. m |-> Keep(list, x, f, n)]
<1> DEFINE Good == {k \in Nat : \E f : f = [n \in 0 .. k |-> Keep(list, x, f, n)]}
<1>1. 0 \in Good
  <2> DEFINE f == [n \in 0 .. 0 |-> <<>>]
  <2>1. f = [n \in 0 .. 0 |-> Keep(list, x, f, n)]
    BY DEF Keep
  <2> QED
    BY <2>1
<1>2. ASSUME NEW k \in 0 .. m, k \in Good
      PROVE  k + 1 \in Good
  <2>1. PICK f : f = [n \in 0 .. k |-> Keep(list, x, f, n)]
    BY <1>2
  <2> DEFINE g == [n \in 0 .. k + 1 |->
                     IF n = k + 1 THEN Keep(list, x, f, n) ELSE f[n]]
  <2>2. ASSUME NEW n \in 0 .. k + 1
        PROVE  g[n] = Keep(list, x, g, n)
    <3>1. n # 0 => g[n - 1] = f[n - 1]
      OBVIOUS
    <3>2. Keep(list, x, g, n) = Keep(list, x, f, n)
      BY <3>1 DEF Keep
    <3>3. n # k + 1 => f[n] = Keep(list, x, f, n)
      BY <2>1
    <3> QED
      BY <3>2, <3>3
  <2>3. g = [n \in 0 .. k + 1 |-> Keep(list, x, g, n)]
    BY <2>2
  <2> HIDE DEF g
  <2> QED
    BY <2>3
<1> HIDE DEF Good
<1>3. m \in Good
  BY <1>1, <1>2, Induction
<1> QED
  BY <1>3 DEF Good

IsKept(list, x, f) ==
  /\ f[0] = <<>>
  /\ \A n \in 0 .. Len(list) : n < Len(list) =>
       f[n + 1] = (IF list[n + 1] = x THEN f[n] ELSE Append(f[n], list[n + 1]))

LEMMA WithoutIsKept ==
  ASSUME NEW S, NEW list \in Seq(S), NEW x
  PROVE  \E f : IsKept(list, x, f) /\ Without(list, x) = f[Len(list)]
<1> DEFINE f == CHOOSE f : f = [n \in 0 .. Len(list) |-> Keep(list, x, f, n)]
<1>1. Len(list) \in Nat
  OBVIOUS
<1>2. f = [n \in 0 .. Len(list) |-> Keep(list, x, f, n)]
  BY <1>1, KeptExists, Zenon
<1>3. Without(list, x) = f[Len(list)]
  BY Zenon DEF Without, Keep
<1> HIDE DEF f
<1>4. f[0] = <<>>
  BY <1>1, <1>2 DEF Keep
<1>5. ASSUME NEW n \in 0 .. Len(list), n < Len(list)
      PROVE  f[n + 1] = IF list[n + 1] = x THEN f[n] ELSE Append(f[n], list[n + 1])
  <2>1. n + 1 \in 0 .. Len(list) /\ n + 1 # 0 /\ (n + 1) - 1 = n
    BY <1>1, <1>5
  <2>2. f[n + 1] = Keep(list, x, f, n + 1)
    BY <1>2, <2>1
  <2> QED
    BY <2>1, <2>2 DEF Keep
<1>6. IsKept(list, x, f)
  BY <1>4, <1>5 DEF IsKept
<1> QED
  BY <1>3, <1>6

\* kept is what is left of the first n elements of list: place holds where its
\* elements come from.
Selects(list, x, n, kept, place) ==
  /\ place \in [1 .. Len(kept) -> 1 .. n]
  /\ \A i \in 1 .. Len(kept) : kept[i] = list[place[i]] /\ list[place[i]] # x
  /\ \A i, j \in 1 .. Len(kept) : i < j => place[i] < place[j]
  /\ \A k \in 1 .. n : list[k] # x => \E i \in 1 .. Len(kept) : place[i] = k

LEMMA SelectsOneMore ==
  ASSUME NEW S, NEW list \in Seq(S), NEW x, NEW n \in Nat, n < Len(list),
         NEW kept \in Seq(S), NEW place, Selects(list, x, n, kept, place),
         NEW more,
         more = IF list[n + 1] = x THEN kept ELSE Append(kept, list[n + 1])
  PROVE  more \in Seq(S) /\ \E p : Selects(list, x, n + 1, more, p)
<1>0. Len(kept) \in Nat /\ n + 1 \in 1 .. Len(list) /\ list[n + 1] \in S
  OBVIOUS
<1>1. CASE list[n + 1] = x
  <2>1. Selects(list, x, n + 1, kept, place)
    BY <1>0, <1>1 DEF Selects
  <2> QED
    BY <1>1, <2>1
<1>2. CASE list[n + 1] # x
  <2> DEFINE l == Len(kept)
             p == [i \in 1 .. l + 1 |-> IF i = l + 1 THEN n + 1 ELSE place[i]]
  <2>1. /\ more \in Seq(S)
        /\ Len(more) = l + 1
        /\ \A i \in 1 .. l : more[i] = kept[i]
        /\ more[l + 1] = list[n + 1]
    BY <1>0, <1>2, AppendProperties
  <2>2. /\ \A i \in 1 .. l : p[i] = place[i] /\ place[i] \in 1 .. n
        /\ p[l + 1] = n + 1
    BY <1>0 DEF Selects
  <2>3. p \in [1 .. l + 1 -> 1 .. n + 1]
    <3>1. \A i \in 1 .. l + 1 : i \in 1 .. l \/ i = l + 1
      BY <1>0
    <3>2. \A i \in 1 .. l + 1 : p[i] \in 1 .. n + 1
      <4> HIDE DEF p
      <4>1. \A i \in 1 .. n : i \in 1 .. n + 1
        OBVIOUS
      <4> QED
        BY <2>2, <3>1, <4>1
    <3> QED
      BY <3>2
  <2> HIDE DEF p
  <2>4. \A i \in 1 .. l + 1 : more[i] = list[p[i]] /\ list[p[i]] # x
    <3>1. \A i \in 1 .. l + 1 : i \in 1 .. l \/ i = l + 1
      BY <1>0
    <3> QED
      BY <1>0, <1>2, <2>1, <2>2, <3>1 DEF Selects
  <2>5. \A i, j \in 1 .. l + 1 : i < j => p[i] < p[j]
    <3>1. \A i, j \in 1 .. l + 1 : i < j => i \in 1 .. l /\ (j \in 1 .. l \/ j = l + 1)
      BY <1>0
    <3> QED
      BY <1>0, <2>2, <3>1 DEF Selects
  <2>6. \A k \in 1 .. n + 1 : list[k] # x => \E i \in 1 .. l + 1 : p[i] = k
    <3>1. \A k \in 1 .. n + 1 : k \in 1 .. n \/ k = n + 1
      OBVIOUS
    <3>2. l + 1 \in 1 .. l + 1 /\ \A i \in 1 .. l : i \in 1 .. l + 1
      BY <1>0
    <3> QED
      BY <2>2, <3>1, <3>2 DEF Selects
  <2>7. Selects(list, x, n + 1, more, p)
    <3> HIDE DEF l
    <3> QED
      BY <2>1, <2>3, <2>4, <2>5, <2>6 DEF Selects
  <2> QED
    BY <2>1, <2>7
<1> QED
  BY <1>1, <1>2

LEMMA WithoutSelects ==
  ASSUME NEW S, NEW list \in Seq(S), NEW x
  PROVE  /\ Without(list, x) \in Seq(S)
         /\ \E place : Selects(list, x, Len(list), Without(list, x), place)
<1>1. PICK f : IsKept(list, x, f) /\ Without(list, x) = f[Len(list)]
  BY WithoutIsKept
<1> DEFINE Good == {n \in 0 .. Len(list) :
                      f[n] \in Seq(S) /\ \E place : Selects(list, x, n, f[n], place)}
<1>2. Len(list) \in Nat
  OBVIOUS
<1>3. 0 \in Good
  <2>1. f[0] = <<>>
    BY <1>1 DEF IsKept
  <2>2. Selects(list, x, 0, <<>>, <<>>)
    BY DEF Selects
  <2>3. f[0] \in Seq(S) /\ \E place : Selects(list, x, 0, f[0], place)
    BY <2>1, <2>2
  <2> QED
    BY <1>2, <2>3
<1>4. ASSUME NEW n \in 0 .. Len(list), n < Len(list), n \in Good
      PROVE  n + 1 \in Good
  <2>1. n \in Nat /\ n + 1 \in 0 .. Len(list) /\ n + 1 # 0 /\ (n + 1) - 1 = n
    BY <1>2, <1>4
  <2>2. f[n + 1] = IF list[n + 1] = x THEN f[n] ELSE Append(f[n], list[n + 1])
    BY <1>1, <1>4 DEF IsKept
  <2>3. PICK place : Selects(list, x, n, f[n], place)
    BY <1>4
  <2>4. f[n + 1] \in Seq(S) /\ \E p : Selects(list, x, n + 1, f[n + 1], p)
    BY <1>4, <2>1, <2>2, <2>3, SelectsOneMore
  <2> QED
    BY <2>1, <2>4
<1> HIDE DEF Good
<1>5. Len(list) \in Good
  <2>1. \A n \in 0 .. Len(list) : n \in Good
    BY <1>2, <1>3, <1>4, Induction
  <2> QED
    BY <1>2, <2>1
<1> QED
  BY <1>1, <1>5 DEF Good

\* What is removed occurs once: one element goes, and those behind it move up.
LEMMA WithoutOne ==
  ASSUME NEW S, NEW list \in Seq(S), NEW x, NEW k \in 1 .. Len(list), list[k] = x,
         \A j \in 1 .. Len(list) : list[j] = x => j = k
  PROVE  /\ Without(list, x) \in Seq(S)
         /\ Len(Without(list, x)) = Len(list) - 1
         /\ \A i \in 1 .. Len(list) - 1 :
              Without(list, x)[i] = list[IF i < k THEN i ELSE i + 1]
<1>1. PICK f : IsKept(list, x, f) /\ Without(list, x) = f[Len(list)]
  BY WithoutIsKept
<1> DEFINE left(n) == IF n < k THEN n ELSE n - 1
           Shifted(n) == /\ f[n] \in Seq(S)
                         /\ Len(f[n]) = left(n)
                         /\ \A i \in 1 .. left(n) :
                              f[n][i] = list[IF i < k THEN i ELSE i + 1]
           Good == {n \in 0 .. Len(list) : Shifted(n)}
<1>2. Len(list) \in Nat /\ Len(list) >= k /\ k \in Nat /\ k >= 1
  OBVIOUS
<1>3. 0 \in Good
  <2>1. f[0] = <<>>
    BY <1>1 DEF IsKept
  <2>2. left(0) = 0
    BY <1>2
  <2>3. Shifted(0)
    BY <2>1, <2>2
  <2> QED
    BY <1>2, <2>3
<1>4. ASSUME NEW n \in 0 .. Len(list), n < Len(list), n \in Good
      PROVE  n + 1 \in Good
  <2>1. n \in Nat /\ n + 1 \in 1 .. Len(list) /\ (n + 1) - 1 = n /\ list[n + 1] \in S
    BY <1>2, <1>4
  <2>2. f[n + 1] = IF list[n + 1] = x THEN f[n] ELSE Append(f[n], list[n + 1])
    BY <1>1, <1>4 DEF IsKept
  <2>3. CASE n + 1 = k
    <3>1. f[n + 1] = f[n] /\ left(n + 1) = left(n) /\ left(n) = n
      BY <1>2, <2>1, <2>2, <2>3
    <3> QED
      BY <1>4, <2>1, <3>1
  <2>4. CASE n + 1 # k
    <3>1. f[n + 1] = Append(f[n], list[n + 1])
      BY <2>1, <2>2, <2>4
    <3>2. /\ f[n + 1] \in Seq(S)
          /\ Len(f[n + 1]) = left(n) + 1
          /\ \A i \in 1 .. left(n) : f[n + 1][i] = f[n][i]
          /\ f[n + 1][left(n) + 1] = list[n + 1]
      <4>1. f[n] \in Seq(S) /\ Len(f[n]) = left(n)
        BY <1>4
      <4> HIDE DEF left, Good
      <4> QED
        BY <2>1, <3>1, <4>1, AppendProperties
    <3>3. left(n + 1) = left(n) + 1 /\ left(n) \in Nat
      BY <1>2, <2>1, <2>4
    <3>4. n + 1 = IF left(n) + 1 < k THEN left(n) + 1 ELSE (left(n) + 1) + 1
      BY <1>2, <2>1, <2>4
    <3>5. \A i \in 1 .. left(n) : f[n][i] = list[IF i < k THEN i ELSE i + 1]
      BY <1>4
    <3>6. \A i \in 1 .. left(n) + 1 : f[n + 1][i] = list[IF i < k THEN i ELSE i + 1]
      <4> HIDE DEF left, Good
      <4>1. \A i \in 1 .. left(n) + 1 : i \in 1 .. left(n) \/ i = left(n) + 1
        BY <3>3
      <4> QED
        BY <3>2, <3>4, <3>5, <4>1
    <3>7. Shifted(n + 1)
      <4> HIDE DEF left, Good
      <4> QED
        BY <3>2, <3>3, <3>6
    <3> QED
      BY <2>1, <3>7
  <2> QED
    BY <2>3, <2>4
<1>5. left(Len(list)) = Len(list) - 1
  BY <1>2
<1>6. Len(list) \in Good
  <2> HIDE DEF Good
  <2>1. \A n \in 0 .. Len(list) : n \in Good
    BY <1>2, <1>3, <1>4, Induction
  <2> QED
    BY <1>2, <2>1
<1> QED
  BY <1>1, <1>5, <1>6

\* The same in terms of elements: none is lost but x, none is new or moved
\* behind a later one.
LEMMA WithoutKeeps ==
  ASSUME NEW S, NEW list \in Seq(S), NEW x
  PROVE  /\ Without(list, x) \in Seq(S)
         /\ \A i \in DOMAIN Without(list, x) :
              /\ Without(list, x)[i] # x
              /\ \E k \in DOMAIN list : list[k] = Without(list, x)[i]
         /\ \A k \in DOMAIN list :
              list[k] # x => \E i \in DOMAIN Without(list, x) : Without(list, x)[i] = list[k]
<1> DEFINE w == Without(list, x)
<1>1. w \in Seq(S) /\ \E place : Selects(list, x, Len(list), w, place)
  BY WithoutSelects
<1> HIDE DEF w
<1>2. PICK place : Selects(list, x, Len(list), w, place)
  BY <1>1
<1>3. DOMAIN w = 1 .. Len(w) /\ DOMAIN list = 1 .. Len(list)
  BY <1>1
<1>4. \A i \in DOMAIN w : w[i] # x /\ \E k \in DOMAIN list : list[k] = w[i]
  BY <1>2, <1>3 DEF Selects
<1>5. \A k \in DOMAIN list : list[k] # x => \E i \in DOMAIN w : w[i] = list[k]
  BY <1>2, <1>3 DEF Selects
<1> QED
  BY <1>1, <1>4, <1>5 DEF w

LEMMA WithoutDistinct ==
  ASSUME NEW S, NEW list \in Seq(S), NEW x,
         \A j, k \in DOMAIN list : list[j] # x /\ list[j] = list[k] => j = k
  PROVE  \A i, j \in DOMAIN Without(list, x) :
           Without(list, x)[i] = Without(list, x)[j] => i = j
<1> DEFINE w == Without(list, x)
<1>1. w \in Seq(S) /\ \E place : Selects(list, x, Len(list), w, place)
  BY WithoutSelects
<1> HIDE DEF w
<1>2. PICK place : Selects(list, x, Len(list), w, place)
  BY <1>1
<1>3. DOMAIN w = 1 .. Len(w) /\ DOMAIN list = 1 .. Len(list) /\ Len(w) \in Nat
  BY <1>1
<1>4. ASSUME NEW i \in DOMAIN w, NEW j \in DOMAIN w, w[i] = w[j]
      PROVE  i = j
  <2>1. /\ place[i] \in DOMAIN list /\ place[j] \in DOMAIN list
        /\ list[place[i]] = w[i] /\ list[place[j]] = w[j] /\ w[i] # x
    BY <1>2, <1>3 DEF Selects
  <2>2. place[i] = place[j]
    BY <1>4, <2>1
  <2>3. /\ i < j => place[i] < place[j]
        /\ j < i => place[j] < place[i]
    BY <1>2, <1>3 DEF Selects
  <2> QED
    BY <1>3, <2>1, <2>2, <2>3
<1> QED
  BY <1>4 DEF w

LEMMA WithoutLast ==
  ASSUME NEW S, NEW list \in Seq(S), NEW x, list # <<>>, list[Len(list)] # x
  PROVE  /\ Without(list, x) # <<>>
         /\ Without(list, x)[Len(Without(list, x))] = list[Len(list)]
<1> DEFINE w == Without(list, x)
<1>1. w \in Seq(S) /\ \E place : Selects(list, x, Len(list), w, place)
  BY WithoutSelects
<1> HIDE DEF w
<1>2. PICK place : Selects(list, x, Len(list), w, place)
  BY <1>1
<1>3. Len(w) \in Nat /\ Len(list) \in 1 .. Len(list)
  BY <1>1
<1>4. PICK i \in 1 .. Len(w) : place[i] = Len(list)
  BY <1>2, <1>3 DEF Selects
<1>5. i = Len(w)
  <2> SUFFICES ASSUME i < Len(w)
               PROVE  FALSE
    BY <1>3
  <2>1. Len(w) \in 1 .. Len(w) /\ place[i] < place[Len(w)] /\ place[Len(w)] \in 1 .. Len(list)
    BY <1>2, <1>3 DEF Selects
  <2> QED
    BY <1>3, <1>4, <2>1
<1>6. w[Len(w)] = list[Len(list)]
  BY <1>2, <1>4, <1>5 DEF Selects
<1>7. w # <<>>
  BY <1>1, <1>4, <1>5
<1> QED
  BY <1>6, <1>7 DEF w
-----------------------------------------------------------------------------
(***************************************************************************)
(* A list that leads from x to y: each of its items is a step of R, a set  *)
(* of triples of a place, an item and the next place.                      *)
(***************************************************************************)
IsPath(R, w, p) == \A k \in 1 .. Len(w) : <<p[k], w[k], p[k + 1]>> \in R

Path(R, w, x, y) == \E p : p[1] = x /\ p[Len(w) + 1] = y /\ IsPath(R, w, p)

LEMMA PathEmpty ==
  ASSUME NEW R, NEW x
  PROVE  Path(R, <<>>, x, x)
<1> DEFINE p == [k \in {1} |-> x]
<1>1. p[1] = x /\ IsPath(R, <<>>, p) /\ Len(<<>>) + 1 = 1
  BY DEF IsPath
<1> QED
  BY <1>1 DEF Path

LEMMA PathAppend ==
  ASSUME NEW S, NEW w \in Seq(S), NEW e \in S, NEW R, NEW x, NEW y, NEW z,
         Path(R, w, x, y), <<y, e, z>> \in R
  PROVE  Path(R, Append(w, e), x, z)
<1> DEFINE l == Len(w)
           v == Append(w, e)
<1>1. PICK p : p[1] = x /\ p[l + 1] = y /\ IsPath(R, w, p)
  BY DEF Path
<1>2. /\ l \in Nat
      /\ Len(v) = l + 1
      /\ \A k \in 1 .. l : v[k] = w[k]
      /\ v[l + 1] = e
  BY AppendProperties
<1> DEFINE g == [k \in 1 .. l + 2 |-> IF k = l + 2 THEN z ELSE p[k]]
<1> HIDE DEF l, v
<1>3. /\ g[l + 2] = z
      /\ \A k \in 1 .. l + 1 : g[k] = p[k]
  BY <1>2
<1>4. g[1] = x /\ g[l + 1] = y
  BY <1>1, <1>2, <1>3
<1> HIDE DEF g
<1>5. ASSUME NEW k \in 1 .. l + 1
      PROVE  <<g[k], v[k], g[k + 1]>> \in R
  <2>1. CASE k = l + 1
    <3>1. (l + 1) + 1 = l + 2
      BY <1>2
    <3> QED
      BY <1>2, <1>3, <1>4, <2>1, <3>1
  <2>2. CASE k \in 1 .. l
    <3>1. <<p[k], w[k], p[k + 1]>> \in R
      BY <1>1, <2>2 DEF IsPath, l
    <3>2. g[k] = p[k] /\ g[k + 1] = p[k + 1] /\ v[k] = w[k]
      BY <1>2, <1>3, <2>2
    <3> QED
      BY <3>1, <3>2
  <2> QED
    BY <1>2, <2>1, <2>2
<1>6. IsPath(R, v, g)
  BY <1>2, <1>5 DEF IsPath
<1>7. g[1] = x /\ g[Len(v) + 1] = z
  BY <1>2, <1>3, <1>4
<1> QED
  BY <1>6, <1>7 DEF Path, v

\* What a list that is not empty leads through after its first item.
LEMMA PathTail ==
  ASSUME NEW S, NEW w \in Seq(S), w # <<>>, NEW R, NEW x, NEW y, Path(R, w, x, y)
  PROVE  \E z : <<x, Head(w), z>> \in R /\ Path(R, Tail(w), z, y)
<1> DEFINE l == Len(w)
           v == Tail(w)
<1>1. PICK p : p[1] = x /\ p[l + 1] = y /\ IsPath(R, w, p)
  BY DEF Path
<1>2. /\ l \in Nat \ {0}
      /\ Head(w) = w[1]
      /\ Len(v) = l - 1
      /\ \A k \in 1 .. l - 1 : v[k] = w[k + 1]
  BY HeadTailProperties
<1> DEFINE g == [k \in 1 .. l |-> p[k + 1]]
<1> HIDE DEF l, v
<1>3. <<x, Head(w), p[2]>> \in R
  <2>1. 1 \in 1 .. l /\ 1 + 1 = 2
    BY <1>2
  <2>2. <<p[1], w[1], p[1 + 1]>> \in R
    BY <1>1, <2>1 DEF IsPath, l
  <2> QED
    BY <1>1, <1>2, <2>1, <2>2
<1>4. g[1] = p[2] /\ g[l] = y /\ Len(v) + 1 = l
  BY <1>1, <1>2
<1>5. ASSUME NEW k \in 1 .. l - 1
      PROVE  <<g[k], v[k], g[k + 1]>> \in R
  <2>1. k + 1 \in 1 .. l
    BY <1>2
  <2>2. <<p[k + 1], w[k + 1], p[(k + 1) + 1]>> \in R
    BY <1>1, <2>1 DEF IsPath, l
  <2>3. g[k] = p[k + 1] /\ g[k + 1] = p[(k + 1) + 1] /\ v[k] = w[k + 1]
    BY <1>2, <2>1
  <2> QED
    BY <2>2, <2>3
<1> HIDE DEF g
<1>6. IsPath(R, v, g)
  BY <1>2, <1>5 DEF IsPath
<1>7. Path(R, v, p[2], y)
  BY <1>4, <1>6 DEF Path
<1> QED
  BY <1>3, <1>7 DEF v

LEMMA PathPrefix ==
  ASSUME NEW S, NEW w \in Seq(S), NEW n \in 0 .. Len(w), NEW R, NEW x, NEW y,
         Path(R, w, x, y)
  PROVE  \E z : Path(R, SubSeq(w, 1, n), x, z)
<1> DEFINE v == SubSeq(w, 1, n)
<1>1. PICK p : p[1] = x /\ IsPath(R, w, p)
  BY DEF Path
<1>2. Len(v) = n /\ (\A k \in 1 .. n : v[k] = w[k]) /\ Len(w) \in Nat /\ n \in Nat
  OBVIOUS
<1> HIDE DEF v
<1>3. IsPath(R, v, p)
  BY <1>1, <1>2 DEF IsPath
<1>4. Path(R, v, x, p[n + 1])
  BY <1>1, <1>2, <1>3 DEF Path
<1> QED
  BY <1>4 DEF v

LEMMA PathGrows ==
  ASSUME NEW w, NEW R, NEW Q, R \subseteq Q, NEW x, NEW y, Path(R, w, x, y)
  PROVE  Path(Q, w, x, y)
<1>1. PICK p : p[1] = x /\ p[Len(w) + 1] = y /\ IsPath(R, w, p)
  BY DEF Path
<1>2. IsPath(Q, w, p)
  BY <1>1 DEF IsPath
<1> QED
  BY <1>1, <1>2 DEF Path
=============================================================================
