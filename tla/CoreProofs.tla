----------------------------- MODULE CoreProofs -----------------------------
(***************************************************************************)
(* Proofs about the classes of the core library that no thread shares:     *)
(* SnapshotPair and the messages of its snapshots and deltas in            *)
(* SerializedPair, ValuePair, and Events, for every set of ids, classes,   *)
(* values, objects and draw instances, and every width of int and float.   *)
(***************************************************************************)
EXTENDS Core, SnapshotsProofs, ListProofs

(***************************************************************************)
(* A copy, and a copy that is worked on, are snapshots one tick apart.     *)
(***************************************************************************)
THEOREM PairTypeCorrect == Spec => []TypeOK
<1>1. Init => TypeOK
  <2> SUFFICES ASSUME Init PROVE TypeOK
    OBVIOUS
  <2>1. NoObjects \in [{} -> Object]
    BY DEF NoObjects
  <2>2. NoObjects \in Objects
    BY <2>1 DEF Objects
  <2> QED
    BY <2>2 DEF Init, TypeOK, Snapshot, CopyOf
<1>2. TypeOK /\ [Next]_vars => TypeOK'
  <2> SUFFICES ASSUME TypeOK, [Next]_vars PROVE TypeOK'
    OBVIOUS
  <2> DEFINE ids == DOMAIN next.objects
  <2>1. /\ next = [tick |-> next.tick, objects |-> next.objects]
        /\ next.tick \in Nat
        /\ ids \subseteq Id
        /\ next.objects \in [ids -> Object]
    BY SnapshotParts DEF TypeOK
  <2>2. ASSUME NEW i \in Id, Delete(i), UNCHANGED prev
        PROVE  TypeOK'
    <3>1. [j \in ids \ {i} |-> next.objects[j]] \in Objects
      <4>1. [j \in ids \ {i} |-> next.objects[j]] \in [ids \ {i} -> Object]
        BY <2>1
      <4>2. ids \ {i} \subseteq Id
        BY <2>1
      <4> QED
        BY <4>1, <4>2 DEF Objects
    <3>2. next' = [tick |-> next.tick, objects |-> [j \in ids \ {i} |-> next.objects[j]]]
      BY <2>1, <2>2 DEF Delete
    <3> QED
      BY <2>1, <2>2, <3>1, <3>2 DEF TypeOK, Snapshot
  <2>3. ASSUME NEW i \in Id, NEW o \in Object, Put(i, o), UNCHANGED prev
        PROVE  TypeOK'
    <3> DEFINE objects == [j \in ids \cup {i} |-> IF j = i THEN o ELSE next.objects[j]]
    <3>1. objects \in Objects
      <4>1. objects \in [ids \cup {i} -> Object]
        BY <2>1
      <4>2. ids \cup {i} \subseteq Id
        BY <2>1
      <4> QED
        BY <4>1, <4>2 DEF Objects
    <3>2. next' = [tick |-> next.tick, objects |-> objects]
      BY <2>1, <2>3 DEF Put
    <3> QED
      BY <2>1, <2>3, <3>1, <3>2 DEF TypeOK, Snapshot
  <2>4. CASE Turn
    <3>1. next.objects \in Objects
      BY <2>1 DEF Objects
    <3>2. prev' = [tick |-> 0, objects |-> next.objects]
      BY <2>1, <2>4 DEF Turn
    <3>3. next' = [tick |-> 1, objects |-> next.objects]
      <4>1. next' = [prev' EXCEPT !.tick = prev'.tick + 1]
        BY <2>4 DEF Turn, CopyOf
      <4> QED
        BY <3>2, <4>1
    <3> QED
      BY <3>1, <3>2, <3>3 DEF TypeOK, Snapshot
  <2>5. CASE UNCHANGED vars
    BY <2>5 DEF TypeOK, vars
  <2> QED
    BY <2>2, <2>3, <2>4, <2>5 DEF Next
<1> QED
  BY <1>1, <1>2, PTL DEF Spec

(***************************************************************************)
(* A full apply of a delta gives the snapshot the delta was evaluated      *)
(* from, whatever was added, deleted and changed, if full interpolation of *)
(* every single value is exact and no two lists of values have the same    *)
(* checksum (snapshot.cpp:55-86, 140-180; game_object.cpp:13-47).          *)
(***************************************************************************)
THEOREM DeltasRoundTrip ==
  ASSUME ExactValues, FaithfulCrc
  PROVE  Spec => []RoundTrip
<1>1. TypeOK => RoundTrip
  <2> SUFFICES ASSUME TypeOK, SameClasses(prev, next)
               PROVE  Applicable(prev, Delta) /\ Apply(prev, Delta, Full) = next
    BY DEF RoundTrip
  <2> QED
    BY ApplyUndoesEvaluate DEF TypeOK, Delta
<1> QED
  BY <1>1, PairTypeCorrect, PTL

\* One object between two ticks: o becomes p, or stays as it was.
LEMMA ObjectOnItsWay ==
  ASSUME ValuesInterpolate, NEW o \in Object, NEW p \in Object, o.class = p.class,
         NEW t \in Time \ {Full}, NEW v, v \in {o, Interpolate(o, Compare(o, p), t)}
  PROVE  /\ v.class = o.class /\ DOMAIN v.values = DOMAIN o.values
         /\ \A n \in DOMAIN v.values :
              v.values[n] \in o.values[n] .. p.values[n] \cup p.values[n] .. o.values[n]
<1> DEFINE N == NamesOf[o.class]
           diff == Compare(o, p)
<1>1. /\ o.values \in [N -> Value] /\ p.values \in [N -> Value]
      /\ o = [class |-> o.class, values |-> o.values]
  BY ObjectParts
<1>2. \A n \in N : o.values[n] \in Value /\ p.values[n] \in Value
  BY <1>1
<1>3. CASE v = o
  <2>1. \A n \in N : o.values[n] \in Int /\ p.values[n] \in Int
    BY <1>2 DEF ValuesInterpolate
  <2> QED
    BY <1>1, <1>3, <2>1
<1>4. CASE v = Interpolate(o, diff, t)
  <2>1. diff = [n \in N |-> GetDelta(o.values[n], p.values[n])]
    BY <1>1 DEF Compare
  <2> HIDE DEF diff
  <2>2. v = [o EXCEPT !.values = [n \in N |-> Interp(o.values[n], diff[n], t)]]
    BY <1>1, <1>4, <2>1 DEF Interpolate
  <2>3. v.class = o.class /\ v.values = [n \in N |-> Interp(o.values[n], diff[n], t)]
    BY <1>1, <2>2
  <2>4. \A n \in N : v.values[n] = Interp(o.values[n], GetDelta(o.values[n], p.values[n]), t)
    BY <2>1, <2>3
  <2>5. ASSUME NEW n \in N
        PROVE  v.values[n] \in o.values[n] .. p.values[n] \cup p.values[n] .. o.values[n]
    <3>1. o.values[n] \in Value /\ p.values[n] \in Value
      BY <1>2
    <3>2. \A a, b \in Value :
            Interp(a, GetDelta(a, b), t) \in a .. b \cup b .. a
      BY DEF ValuesInterpolate
    <3> QED
      BY <2>4, <3>1, <3>2
  <2> QED
    BY <1>1, <2>3, <2>5
<1> QED
  BY <1>3, <1>4

(***************************************************************************)
(* Before the time 1.0 an apply adds and removes nothing, keeps classes,   *)
(* and leaves every value between its old and its new one, whatever the    *)
(* checksums missed, if single values interpolate (snapshot.hpp:48-51,     *)
(* snapshot.cpp:140-180).                                                  *)
(***************************************************************************)
THEOREM ViewsInterpolate ==
  ASSUME ValuesInterpolate
  PROVE  Spec => []InterpolatedView
<1>1. TypeOK => InterpolatedView
  <2> SUFFICES ASSUME TypeOK, NEW t \in Time \ {Full}, SameClasses(prev, next),
                      NEW view, view = Apply(prev, Delta, t).objects
               PROVE  /\ DOMAIN view = DOMAIN prev.objects
                      /\ \A i \in DOMAIN view :
                           /\ view[i].class = prev.objects[i].class
                           /\ \A n \in DOMAIN view[i].values :
                                LET from == prev.objects[i].values[n]
                                    to   == IF i \in DOMAIN next.objects
                                            THEN next.objects[i].values[n] ELSE from
                                IN  view[i].values[n] \in from .. to \cup to .. from
    BY DEF InterpolatedView
  <2> DEFINE P == DOMAIN prev.objects
             N == DOMAIN next.objects
             C == Changed(prev.objects, next.objects)
  <2>1. prev.objects \in [P -> Object] /\ next.objects \in [N -> Object]
    BY SnapshotParts DEF TypeOK
  <2>2. /\ DOMAIN Delta.values = C /\ DOMAIN Delta.added = N \ P /\ C \subseteq P \cap N
        /\ \A i \in C : Delta.values[i] = Compare(prev.objects[i], next.objects[i])
    BY DEF Delta, Evaluate, Changed
  <2>3. view = [i \in P |-> IF i \in C
                            THEN Interpolate(prev.objects[i], Delta.values[i], t)
                            ELSE prev.objects[i]]
    <3>1. IdsAt(prev, Delta, t) = P /\ P \cup C = P
      BY <2>2 DEF IdsAt
    <3> HIDE DEF C
    <3> QED
      BY <2>2, <3>1 DEF Apply
  <2> HIDE DEF C
  <2>4. DOMAIN view = P
    BY <2>3
  <2>5. ASSUME NEW i \in P
        PROVE  /\ view[i].class = prev.objects[i].class
               /\ \A n \in DOMAIN view[i].values :
                    LET from == prev.objects[i].values[n]
                        to   == IF i \in N THEN next.objects[i].values[n] ELSE from
                    IN  view[i].values[n] \in from .. to \cup to .. from
    <3> DEFINE o == prev.objects[i]
               p == IF i \in N THEN next.objects[i] ELSE o
    <3>1. o \in Object /\ p \in Object /\ o.class = p.class
      BY <2>1 DEF SameClasses
    <3>2. view[i] \in {o, Interpolate(o, Compare(o, p), t)}
      BY <2>2, <2>3
    <3> HIDE DEF o, p
    <3>3. /\ view[i].class = o.class
          /\ \A n \in DOMAIN view[i].values :
               view[i].values[n] \in o.values[n] .. p.values[n] \cup p.values[n] .. o.values[n]
      BY <3>1, <3>2, ObjectOnItsWay
    <3> QED
      BY <3>3 DEF o, p
  <2> QED
    BY <2>4, <2>5
<1> QED
  BY <1>1, PairTypeCorrect, PTL
-----------------------------------------------------------------------------
(***************************************************************************)
(* Who holds prev makes next of the message of their delta, whatever was   *)
(* added, deleted and changed: reading it by the objects of prev takes     *)
(* nothing from the delta and adds nothing to it (snapshot.cpp:196-272,    *)
(* game_object.cpp:74-122).                                                *)
(***************************************************************************)
THEOREM DeltasTravel ==
  ASSUME ExactValues, FaithfulCrc, ExactBytes
  PROVE  Spec => []DeltaOverWire
<1>1. TypeOK => DeltaOverWire
  <2> SUFFICES ASSUME TypeOK, ~ EvaluateThrows(prev, next)
               PROVE  DeltaOverWire
    BY DEF DeltaOverWire
  <2> DEFINE m == SerializeDelta(Delta)
  <2>1. prev \in Snapshot /\ next \in Snapshot /\ next.tick = prev.tick + 1
    BY DEF TypeOK
  <2>2. DeserializeDelta(m) = Evaluate(prev, next)
    BY <2>1, DeltaTravels DEF Delta
  <2>3. SameClasses(prev, next) => Apply(prev, DeserializeDelta(m), Full) = next
    BY <2>1, <2>2, ApplyUndoesEvaluate
  <2>4. HasReference(m, prev)
    BY <2>1, DeltaReadable DEF Delta
  <2>5. \A registry \in SUBSET Class :
          DeltaThrows(m, prev, registry)
            <=> ~ ({next.objects[i].class : i \in DOMAIN next.objects \ DOMAIN prev.objects}
                     \subseteq registry)
    BY <2>1, DeltaReadable DEF Delta
  <2> HIDE DEF m
  <2> QED
    BY <2>3, <2>4, <2>5 DEF DeltaOverWire, m
<1> QED
  BY <1>1, PairTypeCorrect, PTL

(***************************************************************************)
(* The message of a snapshot gives it back, tick included, although every  *)
(* copy of a snapshot counts the tick up (snapshot.cpp:97-121).            *)
(***************************************************************************)
THEOREM SnapshotsTravel ==
  ASSUME ExactBytes
  PROVE  Spec => []SnapshotOverWire
<1>1. TypeOK => SnapshotOverWire
  BY SnapshotTravels DEF TypeOK, SnapshotOverWire
<1> QED
  BY <1>1, PairTypeCorrect, PTL
-----------------------------------------------------------------------------
(***************************************************************************)
(* Game values: what Round does to an int.                                 *)
(***************************************************************************)
\* n is multiple q of u and a rest; the nearest multiple is next to it.
Nearest(n, u, q) ==
  LET r == n - q * u
  IN  IF 2 * r < u \/ (2 * r = u /\ q % 2 = 0) THEN q * u ELSE (q + 1) * u

LEMMA RoundIs ==
  ASSUME NEW n \in Int, NEW u \in Nat \ {0}, Ulp(n) = u
  PROVE  \E q \in Int : /\ q * u <= n /\ n < (q + 1) * u
                        /\ Round(n) = Nearest(n, u, q)
<1>1. /\ n \div u \in Int /\ n % u \in 0 .. u - 1
      /\ n = (n \div u) * u + (n % u)
  BY DivMod
<1> DEFINE q == n \div u
<1>2. q \in Int /\ n % u = n - q * u /\ q * u <= n /\ n < (q + 1) * u
  <2>1. q * u \in Int /\ (q + 1) * u = q * u + u
    BY <1>1, Products
  <2> HIDE DEF q
  <2> QED
    BY <1>1, <2>1 DEF q
<1>3. Round(n) = Nearest(n, u, q)
  BY <1>2 DEF Round, Nearest
<1> QED
  BY <1>2, <1>3

(***************************************************************************)
(* The floats.                                                             *)
(***************************************************************************)
IsFloat(x) == \E m \in Int, j \in Nat : x = m * 2^j /\ Abs(m) <= 2^Precision

Exponents == 0 .. 2 * Width + 4

IsExponent(n, e) ==
  /\ Abs(n) < 2^(Precision + e)
  /\ e > 0 => Abs(n) >= 2^(Precision + e - 1)

\* Numbers an operation on ints may produce.
Computed == {n \in Int : Abs(n) < 2^(Precision + 2 * Width + 4)}

LEMMA Magnitude ==
  /\ Precision \in Nat \ {0} /\ Width \in Nat \ {0}
  /\ 2^Precision \in Nat \ {0}
  /\ \A e \in Nat : 2^e \in Nat \ {0} /\ 2^(Precision + e) = 2^Precision * 2^e
BY ValueAssumption, PowerTyped, PowerSum

LEMMA HasExponent ==
  ASSUME NEW n \in Computed
  PROVE  \E e \in Exponents : IsExponent(n, e) /\ Ulp(n) = 2^e
<1> DEFINE T == {e \in Exponents : Abs(n) < 2^(Precision + e)}
<1>1. 2 * Width + 4 \in T
  <2>1. 2 * Width + 4 \in Exponents /\ Precision + (2 * Width + 4) = Precision + 2 * Width + 4
    BY Magnitude DEF Exponents
  <2> QED
    BY <2>1 DEF Computed
<1>2. PICK e \in T : \A m \in T : e <= m
  <2>1. T \in SUBSET Nat
    BY DEF Exponents
  <2> QED
    BY <1>1, <2>1, Least
<1>3. IsExponent(n, e)
  <2>1. ASSUME e > 0
        PROVE  Abs(n) >= 2^(Precision + e - 1)
    <3>1. e - 1 \in Exponents /\ Precision + (e - 1) = Precision + e - 1
      BY <2>1, Magnitude DEF Exponents
    <3>2. e - 1 \notin T
      BY <1>2, <3>1 DEF Exponents
    <3>3. Abs(n) \in Int /\ 2^(Precision + e - 1) \in Int
      BY <3>1, Magnitude DEF Abs, Computed, Exponents
    <3> QED
      BY <3>1, <3>2, <3>3
  <2> QED
    BY <1>2, <2>1 DEF IsExponent
<1>4. \E f \in Exponents : IsExponent(n, f)
  BY <1>3
<1>5. Ulp(n) = 2^(CHOOSE f \in Exponents : IsExponent(n, f))
  BY DEF Ulp, Exponents, IsExponent
<1> QED
  BY <1>4, <1>5

LEMMA OneExponent ==
  ASSUME NEW n \in Int, NEW e \in Nat, NEW f \in Nat, IsExponent(n, e), IsExponent(n, f)
  PROVE  e = f
<1>1. ASSUME NEW g \in Nat, NEW h \in Nat, g < h, IsExponent(n, g), IsExponent(n, h)
      PROVE  FALSE
  <2>1. Precision + g \in Nat /\ Precision + h - 1 \in Nat /\ Precision + g <= Precision + h - 1
    BY <1>1, Magnitude
  <2>2. 2^(Precision + g) <= 2^(Precision + h - 1)
    BY <2>1, PowerOrder
  <2>3. Abs(n) \in Int /\ 2^(Precision + g) \in Int /\ 2^(Precision + h - 1) \in Int
    BY <2>1, PowerTyped DEF Abs
  <2> QED
    BY <1>1, <2>2, <2>3 DEF IsExponent
<1> QED
  BY <1>1

\* Around n, whose gap is u, the floats are multiples of u.
LEMMA Grid ==
  ASSUME NEW n \in Int, NEW e \in Nat, IsExponent(n, e), NEW q \in Int,
         q * 2^e <= n, n < (q + 1) * 2^e,
         NEW x \in Int, IsFloat(x)
  PROVE  /\ x <= n => x <= q * 2^e
         /\ n <= x => n = q * 2^e \/ (q + 1) * 2^e <= x
<1> DEFINE u == 2^e
<1>1. u \in Nat \ {0} /\ q * u \in Int /\ (q + 1) * u = q * u + u
  BY PowerTyped
<1>2. PICK m \in Int, j \in Nat : x = m * 2^j /\ Abs(m) <= 2^Precision
  BY DEF IsFloat
<1>3. CASE e <= j
  <2>1. j - e \in Nat /\ 2^j = u * 2^(j - e) /\ 2^(j - e) \in Nat
    BY <1>3, PowerOrder, PowerTyped
  <2> DEFINE k == m * 2^(j - e)
  <2>2. k \in Int /\ x = k * u
    <3>1. \A a, b, c \in Int : a * (b * c) = (a * c) * b
      OBVIOUS
    <3> QED
      BY <1>1, <1>2, <2>1, <3>1
  <2> HIDE DEF k, u
  <2>3. \A p, r \in Int : p * u < r * u <=> p < r
    BY <1>1, Products
  <2>4. x <= n => k < q + 1
    BY <1>1, <2>2, <2>3 DEF u
  <2>5. n <= x => q * u <= k * u
    BY <1>1, <2>2 DEF u
  <2>6. n <= x => q <= k
    BY <1>1, <2>2, <2>5, Products
  <2>7. x <= n => k * u <= q * u
    <3>1. x <= n => k <= q
      BY <2>2, <2>4
    <3> QED
      BY <1>1, <2>2, <3>1, Products
  <2>8. n <= x => q = k \/ (q + 1) * u <= k * u
    <3>1. n <= x => q = k \/ q + 1 <= k
      BY <2>2, <2>6
    <3> QED
      BY <1>1, <2>2, <3>1, Products
  <2> QED
    BY <1>1, <2>2, <2>7, <2>8 DEF u
<1>4. CASE j < e
  <2> DEFINE b == 2^(Precision - 1)
             B == b * u
  <2>1. Precision - 1 \in Nat /\ b \in Nat \ {0}
    BY Magnitude, PowerTyped
  <2>2. 2^(Precision + e - 1) = B
    <3>1. (Precision - 1) + e = Precision + e - 1
      BY Magnitude
    <3> QED
      BY <2>1, <3>1, PowerSum
  <2>3. Abs(n) >= B
    BY <1>4, <2>2 DEF IsExponent
  <2>4. Abs(x) <= B
    <3>1. Precision + j \in Nat /\ Precision + e - 1 \in Nat /\ Precision + j <= Precision + e - 1
      BY <1>4, Magnitude
    <3>2. 2^Precision * 2^j <= B
      BY <2>2, <3>1, PowerOrder, Magnitude
    <3>3. \A a \in Int, p, c \in Nat : Abs(a) <= p => Abs(a * c) <= p * c
      <4> SUFFICES ASSUME NEW a \in Int, NEW p \in Nat, NEW c \in Nat, Abs(a) <= p
                   PROVE  Abs(a * c) <= p * c
        OBVIOUS
      <4>1. - p <= a /\ a <= p
        BY DEF Abs
      <4>2. - (p * c) <= a * c /\ a * c <= p * c /\ a * c \in Int
        BY <4>1
      <4> QED
        BY <4>2 DEF Abs
    <3>4. Abs(x) <= 2^Precision * 2^j
      BY <1>2, <3>3, Magnitude
    <3>5. Abs(x) \in Int /\ 2^Precision * 2^j \in Int /\ B \in Int
      BY <1>1, <2>1, Magnitude DEF Abs
    <3> QED
      BY <3>2, <3>4, <3>5
  <2>5. B \in Nat
    BY <1>1, <2>1
  <2>6. CASE n >= 0
    <3>1. n >= B /\ x <= B
      BY <2>3, <2>4, <2>5, <2>6 DEF Abs
    <3>2. b < q + 1
      <4>1. b * u < (q + 1) * u
        BY <1>1, <2>5, <3>1
      <4> HIDE DEF b, u
      <4> QED
        BY <1>1, <2>1, <4>1, Products
    <3>3. b * u <= q * u
      <4> HIDE DEF b, u
      <4>1. b <= q
        BY <2>1, <3>2
      <4> QED
        BY <1>1, <2>1, <4>1, Products
    <3> HIDE DEF u
    <3> QED
      BY <1>1, <2>5, <3>1, <3>3 DEF u
  <2>7. CASE n < 0
    <3>1. n <= - B /\ - B <= x
      BY <2>3, <2>4, <2>5, <2>7 DEF Abs
    <3>2. - B = (- b) * u
      BY <1>1, <2>1
    <3>3. q <= - b
      <4>1. q * u <= (- b) * u
        BY <1>1, <2>5, <3>1, <3>2
      <4> HIDE DEF b, u
      <4> QED
        BY <1>1, <2>1, <4>1, Products
    <3>4. q = - b \/ (q + 1) * u <= (- b) * u
      <4>1. q = - b \/ q + 1 <= - b
        BY <2>1, <3>3
      <4> HIDE DEF b, u
      <4> QED
        BY <1>1, <2>1, <4>1, Products
    <3> HIDE DEF u
    <3> QED
      BY <1>1, <2>5, <3>1, <3>2, <3>4 DEF u
  <2> QED
    BY <2>6, <2>7
<1> QED
  BY <1>3, <1>4
(***************************************************************************)
(* Round.                                                                  *)
(***************************************************************************)
LEMMA RoundOnGrid ==
  ASSUME NEW n \in Computed
  PROVE  \E e \in Exponents, q \in Int :
           /\ IsExponent(n, e) /\ Ulp(n) = 2^e /\ 2^e \in Nat \ {0}
           /\ q * 2^e \in Int /\ (q + 1) * 2^e = q * 2^e + 2^e
           /\ q * 2^e <= n /\ n < (q + 1) * 2^e
           /\ Round(n) = Nearest(n, 2^e, q)
<1>1. PICK e \in Exponents : IsExponent(n, e) /\ Ulp(n) = 2^e
  BY HasExponent
<1>2. e \in Nat /\ n \in Int
  BY DEF Exponents, Computed
<1>3. 2^e \in Nat \ {0}
  BY <1>2, PowerTyped
<1>4. PICK q \in Int : q * 2^e <= n /\ n < (q + 1) * 2^e /\ Round(n) = Nearest(n, 2^e, q)
  BY <1>1, <1>2, <1>3, RoundIs
<1>5. q * 2^e \in Int /\ (q + 1) * 2^e = q * 2^e + 2^e
  BY <1>3
<1> QED
  BY <1>1, <1>3, <1>4, <1>5

\* Round gives the float nearest to n: none lies between them, and none is nearer.
LEMMA RoundNearest ==
  ASSUME NEW n \in Computed, NEW x \in Int, IsFloat(x)
  PROVE  /\ Round(n) \in Int
         /\ x <= n => x <= Round(n)
         /\ n <= x => Round(n) <= x
         /\ Abs(Round(n) - n) <= Abs(x - n)
<1>1. PICK e \in Exponents, q \in Int :
        /\ IsExponent(n, e) /\ 2^e \in Nat \ {0}
        /\ q * 2^e \in Int /\ (q + 1) * 2^e = q * 2^e + 2^e
        /\ q * 2^e <= n /\ n < (q + 1) * 2^e
        /\ Round(n) = Nearest(n, 2^e, q)
  BY RoundOnGrid
<1>2. e \in Nat /\ n \in Int
  BY DEF Exponents, Computed
<1>3. /\ x <= n => x <= q * 2^e
      /\ n <= x => n = q * 2^e \/ (q + 1) * 2^e <= x
  BY <1>1, <1>2, Grid
<1> DEFINE u == 2^e
           z == q * u
<1>4. /\ u \in Nat \ {0} /\ z \in Int /\ z <= n /\ n < z + u
      /\ x <= n => x <= z
      /\ n <= x => n = z \/ z + u <= x
  BY <1>1, <1>3
<1>5. \/ Round(n) = z /\ 2 * (n - z) <= u
      \/ Round(n) = z + u /\ 2 * (n - z) >= u
  <2>1. Round(n) = IF 2 * (n - z) < u \/ (2 * (n - z) = u /\ q % 2 = 0) THEN z ELSE z + u
    BY <1>1 DEF Nearest
  <2> HIDE DEF u, z
  <2> QED
    BY <1>2, <1>4, <2>1
<1> HIDE DEF u, z
<1> QED
  BY <1>2, <1>4, <1>5 DEF Abs

LEMMA RoundExact ==
  ASSUME NEW n \in Computed, IsFloat(n)
  PROVE  Round(n) = n
BY RoundNearest DEF Computed

LEMMA RoundError ==
  ASSUME NEW n \in Computed
  PROVE  /\ Round(n) \in Int /\ Ulp(n) \in Nat \ {0}
         /\ 2 * Abs(Round(n) - n) <= Ulp(n)
<1>1. PICK e \in Exponents, q \in Int :
        /\ Ulp(n) = 2^e /\ 2^e \in Nat \ {0}
        /\ q * 2^e \in Int /\ (q + 1) * 2^e = q * 2^e + 2^e
        /\ q * 2^e <= n /\ n < (q + 1) * 2^e
        /\ Round(n) = Nearest(n, 2^e, q)
  BY RoundOnGrid
<1> DEFINE u == 2^e
           z == q * u
<1>2. u \in Nat \ {0} /\ z \in Int /\ z <= n /\ n < z + u /\ n \in Int
  BY <1>1 DEF Computed
<1>3. Round(n) = IF 2 * (n - z) < u \/ (2 * (n - z) = u /\ q % 2 = 0) THEN z ELSE z + u
  BY <1>1 DEF Nearest
<1>4. Ulp(n) = u
  BY <1>1
<1> HIDE DEF u, z
<1> QED
  BY <1>2, <1>3, <1>4 DEF Abs

LEMMA RoundIsFloat ==
  ASSUME NEW n \in Computed
  PROVE  IsFloat(Round(n))
<1>1. PICK e \in Exponents, q \in Int :
        /\ IsExponent(n, e) /\ 2^e \in Nat \ {0}
        /\ q * 2^e \in Int /\ (q + 1) * 2^e = q * 2^e + 2^e
        /\ q * 2^e <= n /\ n < (q + 1) * 2^e
        /\ Round(n) = Nearest(n, 2^e, q)
  BY RoundOnGrid
<1>2. e \in Nat /\ n \in Int
  BY DEF Exponents, Computed
<1> DEFINE u == 2^e
           p == 2^Precision
<1>3. /\ u \in Nat \ {0} /\ p \in Nat \ {0} /\ p * u \in Nat /\ (- p) * u = - (p * u)
      /\ - (p * u) < n /\ n < p * u
  <2>1. Abs(n) < p * u /\ u \in Nat \ {0} /\ p \in Nat \ {0}
    BY <1>1, <1>2, Magnitude DEF IsExponent
  <2> HIDE DEF u, p
  <2> QED
    BY <1>2, <2>1 DEF Abs
<1>4. q < p /\ - p <= q
  <2>1. q * u < p * u /\ (- p) * u < (q + 1) * u
    BY <1>1, <1>2, <1>3
  <2> HIDE DEF u, p
  <2>2. q < p /\ - p < q + 1
    BY <1>3, <2>1, Products
  <2> QED
    BY <1>3, <2>2
<1>5. PICK k \in {q, q + 1} : Round(n) = k * 2^e
  BY <1>1 DEF Nearest
<1>6. k \in Int /\ Abs(k) <= 2^Precision
  <2>1. k \in Int /\ Abs(k) <= p
    <3> HIDE DEF p
    <3> QED
      BY <1>3, <1>4 DEF Abs
  <2> QED
    BY <2>1
<1> QED
  BY <1>2, <1>5, <1>6 DEF IsFloat
(***************************************************************************)
(* Which numbers are computed, and which are floats.                       *)
(***************************************************************************)
Half == 2^(Width - 1)

LEMMA IntRange ==
  /\ Half \in Nat \ {0} /\ 2 * Half = 2^Width /\ MinInt = - Half /\ Ints = - Half .. Half - 1
  /\ 2 * 2^Precision <= Half
  /\ \A n \in Int : - 256 * Half <= n /\ n <= 256 * Half => n \in Computed
<1>1. Width - 1 \in Nat /\ (Width - 1) + 1 = Width
  BY ValueAssumption
<1>2. Half \in Nat \ {0} /\ 2 * Half = 2^Width
  <2>1. 2^(Width - 1) \in Nat \ {0}
    BY <1>1, PowerTyped
  <2>2. 2^((Width - 1) + 1) = 2^(Width - 1) * 2^1
    BY <1>1, PowerSum
  <2> QED
    BY <1>1, <2>1, <2>2, PowerZero DEF Half
<1>3. MinInt = - Half
  BY DEF MinInt, Half
<1>4. Ints = - Half .. Half - 1
  BY <1>2, <1>3 DEF Ints
<1>5. 2 * 2^Precision <= Half
  <2>1. Precision \in Nat /\ Width - 1 \in Nat /\ Precision < Width - 1
    BY ValueAssumption
  <2> QED
    BY <2>1, PowerOrder DEF Half
<1>6. ASSUME NEW n \in Int, - 256 * Half <= n, n <= 256 * Half
      PROVE  n \in Computed
  <2>1. 2^9 = 512
    OBVIOUS
  <2>2. (Width - 1) + 9 \in Nat /\ 2^((Width - 1) + 9) = Half * 512
    <3>1. (Width - 1) + 9 \in Nat
      BY <1>1
    <3>2. 2^((Width - 1) + 9) = 2^(Width - 1) * 2^9
      BY <1>1, PowerSum
    <3> QED
      BY <2>1, <3>1, <3>2 DEF Half
  <2>3. 2^((Width - 1) + 9) <= 2^(Precision + 2 * Width + 4)
    <3>1. /\ Precision + 2 * Width + 4 \in Nat
          /\ (Width - 1) + 9 <= Precision + 2 * Width + 4
      BY ValueAssumption
    <3> QED
      BY <2>2, <3>1, PowerOrder
  <2>4. 2^(Precision + 2 * Width + 4) \in Nat
    BY PowerTyped, ValueAssumption
  <2>5. Abs(n) < Half * 512 /\ Abs(n) \in Int
    BY <1>2, <1>6 DEF Abs
  <2> QED
    BY <1>2, <2>2, <2>3, <2>4, <2>5 DEF Computed
<1> QED
  BY <1>2, <1>3, <1>4, <1>5, <1>6

LEMMA SmallIsFloat ==
  ASSUME NEW n \in Int, NEW j \in Nat, Abs(n) <= 2^Precision
  PROVE  IsFloat(n * 2^j) /\ IsFloat(n)
<1>1. n = n * 2^0
  BY PowerZero
<1> QED
  BY <1>1 DEF IsFloat

LEMMA PowerIsFloat ==
  ASSUME NEW j \in Nat
  PROVE  IsFloat(2^j) /\ IsFloat(- 2^j) /\ IsFloat(0)
<1>1. 2^j \in Nat /\ 2^j = 1 * 2^j /\ - 2^j = (- 1) * 2^j
  BY PowerTyped
<1>2. Abs(1) <= 2^Precision /\ Abs(- 1) <= 2^Precision /\ Abs(0) <= 2^Precision
  BY Magnitude DEF Abs
<1>3. IsFloat(1 * 2^j) /\ IsFloat((- 1) * 2^j) /\ IsFloat(0)
  BY <1>2, SmallIsFloat
<1> QED
  BY <1>1, <1>3

LEMMA ScaledIsFloat ==
  ASSUME NEW x \in Int, IsFloat(x)
  PROVE  IsFloat(x * Steps)
<1>1. PICK m \in Int, j \in Nat : x = m * 2^j /\ Abs(m) <= 2^Precision
  BY DEF IsFloat
<1>2. PICK s \in 0 .. 3 : Steps = 2^s
  BY PowerZero, ValueAssumption
<1>3. j + s \in Nat /\ 2^(j + s) = 2^j * 2^s /\ 2^j \in Int /\ 2^s \in Int
  <2>1. s \in Nat
    OBVIOUS
  <2>2. 2^j \in Nat /\ 2^s \in Nat
    BY <2>1, PowerTyped
  <2>3. 2^(j + s) = 2^j * 2^s
    BY <2>1, PowerSum
  <2> QED
    BY <2>1, <2>2, <2>3
<1>4. x * Steps = m * 2^(j + s)
  <2>1. \A a, b, c \in Int : (a * b) * c = a * (b * c)
    OBVIOUS
  <2> QED
    BY <1>1, <1>2, <1>3, <2>1
<1> QED
  BY <1>1, <1>3, <1>4 DEF IsFloat

\* Rounding leaves a number between two powers of two.
LEMMA RoundBounded ==
  ASSUME NEW n \in Computed, NEW j \in Nat, - 2^j <= n, n <= 2^j
  PROVE  Round(n) \in Int /\ - 2^j <= Round(n) /\ Round(n) <= 2^j
<1>1. 2^j \in Int /\ - 2^j \in Int
  BY PowerTyped
<1> QED
  BY <1>1, PowerIsFloat, RoundNearest

(***************************************************************************)
(* Floats that are applied in full.                                        *)
(***************************************************************************)
\* The difference of two floats of about the same size is a float.
LEMMA CloseFloats ==
  ASSUME NEW a \in Int, NEW b \in Int, IsFloat(a), IsFloat(b),
         a <= 2 * b, b <= 2 * a
  PROVE  IsFloat(b - a)
<1>1. PICK m \in Int, i \in Nat : a = m * 2^i /\ Abs(m) <= 2^Precision
  BY DEF IsFloat
<1>2. PICK n \in Int, j \in Nat : b = n * 2^j /\ Abs(n) <= 2^Precision
  BY DEF IsFloat
<1>3. /\ 0 <= a /\ 0 <= b
      /\ - a <= b - a /\ b - a <= a /\ - b <= b - a /\ b - a <= b
  OBVIOUS
<1>4. ASSUME NEW x \in Int, NEW y \in Int, NEW k \in Nat, NEW l \in Nat, NEW c \in Int,
             l <= k, Abs(y) <= 2^Precision,
             c = x * 2^k - y * 2^l \/ c = y * 2^l - x * 2^k,
             - (y * 2^l) <= c, c <= y * 2^l
      PROVE  IsFloat(c)
  <2>1. k - l \in Nat /\ 2^k = 2^l * 2^(k - l) /\ 2^l \in Nat \ {0} /\ 2^(k - l) \in Nat
    BY <1>4, PowerOrder, PowerTyped
  <2> DEFINE z == x * 2^(k - l)
  <2>2. z \in Int /\ x * 2^k = z * 2^l
    <3>1. \A p, q, r \in Int : p * (q * r) = (p * r) * q
      OBVIOUS
    <3> QED
      BY <2>1, <3>1
  <2> HIDE DEF z
  <2>3. PICK d \in {z - y, y - z} : c = d * 2^l
    <3>1. \A p, q, r \in Int : (p - q) * r = p * r - q * r
      OBVIOUS
    <3> QED
      BY <1>4, <2>1, <2>2, <3>1
  <2>4. - y <= d /\ d <= y
    <3>1. (- y) * 2^l <= d * 2^l /\ d * 2^l <= y * 2^l
      BY <1>4, <2>1, <2>3
    <3>2. d \in Int /\ - y \in Int
      BY <2>2, <2>3
    <3> QED
      BY <2>1, <3>1, <3>2, Products
  <2>5. d \in Int /\ Abs(d) <= 2^Precision
    BY <1>4, <2>2, <2>3, <2>4, Magnitude DEF Abs
  <2> QED
    BY <2>3, <2>5 DEF IsFloat
<1>5. CASE i <= j
  BY <1>1, <1>2, <1>3, <1>4, <1>5
<1>6. CASE j <= i
  BY <1>1, <1>2, <1>3, <1>4, <1>6
<1> QED
  BY <1>5, <1>6

LEMMA FloatsApplied ==
  ASSUME NEW a \in Ints, NEW b \in Ints, Round(a) = a, Round(b) = b
  PROVE  LET applied == InterpFloat(a, DeltaFloat(a, b))
         IN  /\ Abs(applied - b) <= Ulp(b - a)
             /\ a <= 2 * b /\ b <= 2 * a => applied = b
<1> DEFINE d == b - a
           r == Round(d)
           applied == Round(a + r)
<1>1. a \in Int /\ b \in Int /\ a \in Computed /\ b \in Computed /\ d \in Computed
  BY IntRange
<1>2. IsFloat(a) /\ IsFloat(b)
  BY <1>1, RoundIsFloat
<1>3. /\ r \in Int /\ Ulp(d) \in Nat \ {0} /\ 2 * Abs(r - d) <= Ulp(d)
  BY <1>1, RoundError
<1>4. a + r \in Computed
  <2>1. - 2^Width <= d /\ d <= 2^Width
    BY IntRange
  <2>2. - 2^Width <= r /\ r <= 2^Width
    BY <1>1, <2>1, RoundBounded, Magnitude
  <2> HIDE DEF r
  <2> QED
    BY <1>1, <1>3, <2>2, IntRange
<1>5. applied \in Int /\ Abs(applied - (a + r)) <= Abs(b - (a + r))
  BY <1>1, <1>2, <1>4, RoundNearest
<1>6. a <= 2 * b /\ b <= 2 * a => applied = b
  <2> SUFFICES ASSUME a <= 2 * b, b <= 2 * a
               PROVE  applied = b
    OBVIOUS
  <2>1. r = d
    BY <1>1, <1>2, CloseFloats, RoundExact
  <2>2. a + r = b
    BY <1>1, <2>1
  <2> QED
    BY <2>2
<1>7. Abs(applied - b) <= Ulp(d)
  <2> HIDE DEF applied, r
  <2>1. b - (a + r) = - (r - d)
    BY <1>1, <1>3
  <2> HIDE DEF d
  <2>2. d = b - a
    BY DEF d
  <2> QED
    BY <1>1, <1>3, <1>5, <2>1, <2>2 DEF Abs
<1> QED
  BY <1>6, <1>7 DEF InterpFloat, DeltaFloat
(***************************************************************************)
(* Ints.                                                                   *)
(***************************************************************************)
LEMMA WrapsNot ==
  ASSUME NEW d \in Ints
  PROVE  Wrap(d) = d
<1>1. /\ 2^Width = 2 * Half /\ Half \in Nat \ {0} /\ MinInt = - Half
      /\ d \in Int /\ - Half <= d /\ d < Half
  BY IntRange
<1>2. (d + Half) % (2 * Half) = d + Half
  <2> DEFINE u == 2 * Half
             n == d + Half
  <2>1. n \in Int /\ u \in Nat \ {0} /\ 0 <= n /\ n < u
    BY <1>1
  <2> HIDE DEF u, n
  <2>2. n % u = n
    BY <2>1
  <2> QED
    BY <2>2 DEF u, n
<1> QED
  BY <1>1, <1>2 DEF Wrap

LEMMA Truncates ==
  ASSUME NEW f \in Int, NEW a \in Ints, NEW b \in Ints, a * Steps <= f, f <= b * Steps
  PROVE  ToInt(f) \in a .. b
<1> DEFINE n == IF f < 0 THEN - ((- f) \div Steps) ELSE f \div Steps
<1>1. a \in Int /\ b \in Int
  BY IntRange
<1>2. n \in a .. b
  <2>1. CASE Steps = 1
    BY <1>1, <2>1
  <2>2. CASE Steps = 2
    BY <1>1, <2>2
  <2>3. CASE Steps = 4
    BY <1>1, <2>3
  <2>4. CASE Steps = 8
    BY <1>1, <2>4
  <2> QED
    BY <2>1, <2>2, <2>3, <2>4, ValueAssumption
<1>3. n \in Ints
  BY <1>1, <1>2, IntRange
<1> QED
  BY <1>2, <1>3 DEF ToInt

LEMMA SmallIntsApplied ==
  ASSUME NEW a \in Ints, NEW b \in Ints, NEW t \in Times,
         Abs(a) <= 2^Precision, Abs(b) <= 2^Precision, Abs(b - a) <= 2^Precision
  PROVE  LET interpolated == InterpInt(a, DeltaInt(a, b), t)
         IN  /\ a <= b => interpolated \in a .. b
             /\ b <= a => interpolated \in b .. a
             /\ t = Steps => interpolated = b
<1> DEFINE d == b - a
           r == Round(d * t)
           f == Round(a * Steps + r)
<1>1. /\ a \in Int /\ b \in Int /\ d \in Int /\ t \in Nat
      /\ Steps \in Nat /\ Steps <= 8 /\ t <= Steps
      /\ 2^Precision \in Nat /\ 2 * 2^Precision <= Half /\ Half \in Nat \ {0}
  BY IntRange, Magnitude, ValueAssumption DEF Times
<1>2. /\ - Half < a /\ a < Half /\ - Half < b /\ b < Half /\ - Half < d /\ d < Half
  <2> HIDE DEF d
  <2>1. Abs(d) <= 2^Precision
    BY DEF d
  <2> QED
    BY <1>1, <2>1 DEF Abs
<1>3. Wrap(d) = d
  BY <1>1, <1>2, IntRange, WrapsNot
<1>4. Round(a) = a /\ Round(d) = d
  <2>1. IsFloat(a) /\ IsFloat(d)
    BY <1>1, PowerZero, SmallIsFloat
  <2> HIDE DEF d
  <2>2. a \in Computed /\ d \in Computed
    BY <1>1, <1>2, IntRange
  <2> QED
    BY <2>1, <2>2, RoundExact
<1>5. IsFloat(a) /\ IsFloat(b) /\ IsFloat(d) /\ IsFloat(0)
  BY <1>1, SmallIsFloat, PowerIsFloat
<1>6. IsFloat(a * Steps) /\ IsFloat(b * Steps) /\ IsFloat(d * Steps)
  BY <1>1, <1>5, ScaledIsFloat
<1>7. /\ b * Steps = a * Steps + d * Steps
      /\ a * Steps \in Int /\ b * Steps \in Int /\ d * Steps \in Int /\ d * t \in Int
  BY <1>1
<1>8. d * t \in Computed
  <2> HIDE DEF d
  <2>1. - 8 * Half <= d * t /\ d * t <= 8 * Half
    BY <1>1, <1>2
  <2> QED
    BY <1>1, <1>7, <2>1, IntRange
<1>9. /\ r \in Int
      /\ d >= 0 => 0 <= r /\ r <= d * Steps
      /\ d <= 0 => d * Steps <= r /\ r <= 0
      /\ t = Steps => r = d * Steps
  <2> HIDE DEF d
  <2>1. /\ d >= 0 => 0 <= d * t /\ d * t <= d * Steps
        /\ d <= 0 => d * Steps <= d * t /\ d * t <= 0
    BY <1>1
  <2>2. t = Steps => r = d * Steps
    BY <1>6, <1>8, RoundExact
  <2> QED
    BY <1>5, <1>6, <1>7, <1>8, <2>1, <2>2, RoundNearest
<1>10. a * Steps + r \in Computed
  <2>1. /\ - 8 * Half <= a * Steps /\ a * Steps <= 8 * Half
        /\ - 8 * Half <= d * Steps /\ d * Steps <= 8 * Half
    <3> HIDE DEF d
    <3> QED
      BY <1>1, <1>2
  <2> HIDE DEF d, r
  <2>2. - 16 * Half <= a * Steps + r /\ a * Steps + r <= 16 * Half
    BY <1>1, <1>7, <1>9, <2>1
  <2> QED
    BY <1>1, <1>7, <1>9, <2>2, IntRange
<1>11. /\ f \in Int
       /\ d >= 0 => a * Steps <= f /\ f <= b * Steps
       /\ d <= 0 => b * Steps <= f /\ f <= a * Steps
       /\ t = Steps => f = b * Steps
  <2> HIDE DEF d, r
  <2>1. /\ d >= 0 => a * Steps <= a * Steps + r /\ a * Steps + r <= b * Steps
        /\ d <= 0 => b * Steps <= a * Steps + r /\ a * Steps + r <= a * Steps
        /\ t = Steps => a * Steps + r = b * Steps
    BY <1>7, <1>9
  <2>2. t = Steps => f = b * Steps
    BY <1>6, <1>10, <2>1, RoundExact
  <2> QED
    BY <1>6, <1>7, <1>10, <2>1, <2>2, RoundNearest
<1>12. InterpInt(a, DeltaInt(a, b), t) = ToInt(f)
  BY <1>3, <1>4 DEF InterpInt, DeltaInt
<1>13. (a <= b <=> d >= 0) /\ (b <= a <=> d <= 0)
  BY <1>1
<1> HIDE DEF d, f
<1>14. t = Steps => ToInt(f) \in b .. b
  <2> SUFFICES ASSUME t = Steps
               PROVE  ToInt(f) \in b .. b
    OBVIOUS
  <2>1. b * Steps <= f /\ f <= b * Steps
    BY <1>7, <1>11
  <2> QED
    BY <1>11, <2>1, Truncates
<1>15. /\ a <= b => ToInt(f) \in a .. b
       /\ b <= a => ToInt(f) \in b .. a
  BY <1>11, <1>13, Truncates
<1> QED
  BY <1>1, <1>12, <1>14, <1>15
\* Rounding to the multiple of the gap that is nearest.
LEMMA RoundTo ==
  ASSUME NEW n \in Computed, NEW e \in Nat, IsExponent(n, e), NEW k \in Int,
         2 * Abs(n - k * 2^e) < 2^e
  PROVE  Round(n) = k * 2^e
<1>1. PICK f \in Exponents, q \in Int :
        /\ IsExponent(n, f) /\ 2^f \in Nat \ {0}
        /\ q * 2^f \in Int /\ (q + 1) * 2^f = q * 2^f + 2^f
        /\ q * 2^f <= n /\ n < (q + 1) * 2^f
        /\ Round(n) = Nearest(n, 2^f, q)
  BY RoundOnGrid
<1>2. f = e /\ n \in Int
  BY <1>1, OneExponent DEF Exponents, Computed
<1> DEFINE u == 2^e
           z == q * u
           w == k * u
<1>3. /\ u \in Nat \ {0} /\ z \in Int /\ w \in Int /\ (q + 1) * u = z + u
      /\ (k - 1) * u = w - u /\ (k + 1) * u = w + u
      /\ z <= n /\ n < z + u /\ 2 * Abs(n - w) < u
  BY <1>1, <1>2
<1>4. Round(n) = IF 2 * (n - z) < u \/ (2 * (n - z) = u /\ q % 2 = 0) THEN z ELSE z + u
  BY <1>1, <1>2 DEF Nearest
<1>5. (k - 1) * u < (q + 1) * u /\ q * u < (k + 1) * u
  <2>1. w - u < z + u /\ z < w + u
    <3> HIDE DEF u, z, w
    <3> QED
      BY <1>2, <1>3 DEF Abs
  <2> QED
    BY <1>3, <2>1
<1>6. q = k \/ q + 1 = k
  <2> HIDE DEF u, z, w
  <2>1. k - 1 < q + 1 /\ q < k + 1
    BY <1>3, <1>5, Products
  <2> QED
    BY <2>1
<1>7. z = w \/ z + u = w
  BY <1>3, <1>6
<1> HIDE DEF u, z, w
<1>8. Round(n) = w
  BY <1>2, <1>3, <1>4, <1>7 DEF Abs
<1> QED
  BY <1>8 DEF w, u

\* The rounding error of a number below a power of two.
LEMMA RoundErrorBelow ==
  ASSUME NEW n \in Computed, NEW j \in Nat, Abs(n) < 2^(Precision + j)
  PROVE  2 * Abs(Round(n) - n) <= 2^j
<1>1. PICK e \in Exponents : IsExponent(n, e) /\ Ulp(n) = 2^e
  BY HasExponent
<1>2. e \in Nat /\ n \in Int /\ Abs(n) \in Int
  BY DEF Exponents, Computed, Abs
<1>3. e <= j
  <2> SUFFICES ASSUME j < e
               PROVE  FALSE
    BY <1>2
  <2>1. /\ Precision + j \in Nat /\ Precision + e - 1 \in Nat
        /\ Precision + j <= Precision + e - 1
    BY <1>2, Magnitude
  <2>2. 2^(Precision + j) <= 2^(Precision + e - 1)
    BY <2>1, PowerOrder
  <2>3. 2^(Precision + j) \in Int /\ 2^(Precision + e - 1) \in Int
    BY <2>1, PowerTyped
  <2>4. Abs(n) >= 2^(Precision + e - 1)
    BY <1>1, <1>2 DEF IsExponent
  <2> QED
    BY <1>2, <2>2, <2>3, <2>4
<1>4. Ulp(n) <= 2^j /\ 2^j \in Int
  BY <1>1, <1>2, <1>3, PowerOrder, PowerTyped
<1>5. Round(n) \in Int /\ Ulp(n) \in Nat /\ 2 * Abs(Round(n) - n) <= Ulp(n)
  BY RoundError
<1>6. Abs(Round(n) - n) \in Int
  BY <1>2, <1>5 DEF Abs
<1> QED
  BY <1>4, <1>5, <1>6

\* Floats are spread the same way at every scale.
LEMMA RoundScales ==
  ASSUME NEW n \in Int, - 16 * Half <= n, n <= 16 * Half
  PROVE  Round(n * Steps) = Round(n) * Steps
<1>1. /\ Half \in Nat \ {0} /\ Steps \in Nat \ {0} /\ Steps <= 8
      /\ n * Steps \in Int /\ n \in Computed
  BY IntRange, ValueAssumption
<1>2. n * Steps \in Computed
  <2>1. - 128 * Half <= n * Steps /\ n * Steps <= 128 * Half
    BY <1>1
  <2> QED
    BY <1>1, <2>1, IntRange
<1>3. CASE IsFloat(n)
  BY <1>1, <1>2, <1>3, ScaledIsFloat, RoundExact
<1>4. CASE ~ IsFloat(n)
  <2>1. PICK e \in Exponents, q \in Int :
          /\ IsExponent(n, e) /\ 2^e \in Nat \ {0}
          /\ q * 2^e \in Int /\ (q + 1) * 2^e = q * 2^e + 2^e
          /\ q * 2^e <= n /\ n < (q + 1) * 2^e
          /\ Round(n) = Nearest(n, 2^e, q)
    BY <1>1, RoundOnGrid
  <2>2. e \in Nat /\ e > 0
    <3>1. e \in Nat
      BY DEF Exponents
    <3>2. ASSUME e = 0
          PROVE  IsFloat(n)
      <4>1. Abs(n) < 2^(Precision + 0) /\ Precision + 0 = Precision
        BY <2>1, <3>2, Magnitude DEF IsExponent
      <4>2. Abs(n) <= 2^Precision
        BY <4>1, Magnitude DEF Abs
      <4> QED
        BY <4>2, PowerZero, SmallIsFloat
    <3> QED
      BY <1>4, <3>1, <3>2
  <2>3. PICK s \in 0 .. 3 : Steps = 2^s
    BY PowerZero, ValueAssumption
  <2>4. e + s \in Nat /\ 2^(e + s) = 2^e * Steps
    <3>1. s \in Nat /\ e + s \in Nat
      BY <2>2
    <3> QED
      BY <2>2, <2>3, <3>1, PowerSum
  <2>5. IsExponent(n * Steps, e + s)
    <3>1. Precision + e \in Nat /\ Precision + e - 1 \in Nat /\ s \in Nat
      BY <2>2, Magnitude
    <3>2. /\ 2^((Precision + e) + s) = 2^(Precision + e) * Steps
          /\ 2^((Precision + e - 1) + s) = 2^(Precision + e - 1) * Steps
      <4>1. /\ 2^((Precision + e) + s) = 2^(Precision + e) * 2^s
            /\ 2^((Precision + e - 1) + s) = 2^(Precision + e - 1) * 2^s
        BY <3>1, PowerSum
      <4> QED
        BY <2>3, <4>1
    <3>3. /\ Precision + (e + s) = (Precision + e) + s
          /\ Precision + (e + s) - 1 = (Precision + e - 1) + s
      BY <2>2, Magnitude
    <3>4. /\ 2^(Precision + e) \in Nat /\ 2^(Precision + e - 1) \in Nat
      BY <3>1, PowerTyped
    <3>5. /\ Abs(n) < 2^(Precision + e) /\ Abs(n) >= 2^(Precision + e - 1)
      BY <2>1, <2>2 DEF IsExponent
    <3>6. Abs(n * Steps) = Abs(n) * Steps /\ Abs(n) \in Int
      <4>1. (n >= 0 => n * Steps >= 0) /\ (n < 0 => n * Steps < 0)
        BY <1>1
      <4>2. - (n * Steps) = (- n) * Steps
        BY <1>1
      <4> QED
        BY <1>1, <4>1, <4>2 DEF Abs
    <3>7. \A x, y \in Int : /\ x < y => x * Steps < y * Steps
                            /\ x <= y => x * Steps <= y * Steps
      BY <1>1
    <3> QED
      BY <3>2, <3>3, <3>4, <3>5, <3>6, <3>7 DEF IsExponent
  <2>6. Ulp(n * Steps) = 2^e * Steps
    <3>1. PICK f \in Exponents : IsExponent(n * Steps, f) /\ Ulp(n * Steps) = 2^f
      BY <1>2, HasExponent
    <3>2. f = e + s
      BY <1>1, <2>4, <2>5, <3>1, OneExponent DEF Exponents
    <3> QED
      BY <2>4, <3>1, <3>2
  <2> DEFINE u == 2^e
             z == q * u
             v == u * Steps
  <2>7. v \in Nat \ {0} /\ u \in Nat \ {0}
    BY <1>1, <2>1
  <2>8. PICK p \in Int : /\ p * v <= n * Steps /\ n * Steps < (p + 1) * v
                         /\ Round(n * Steps) = Nearest(n * Steps, v, p)
    BY <1>1, <2>6, <2>7, RoundIs
  <2>9. /\ z * Steps = q * v /\ (z + u) * Steps = (q + 1) * v
        /\ q * v <= n * Steps /\ n * Steps < (q + 1) * v
    <3>1. z * Steps = q * v
      <4>1. \A x, y, w \in Int : (x * y) * w = x * (y * w)
        OBVIOUS
      <4> QED
        BY <1>1, <2>1, <4>1
    <3>2. (z + u) * Steps = z * Steps + u * Steps
      BY <1>1, <2>1
    <3>3. (q + 1) * v = q * v + v
      BY <2>7, Products
    <3>4. z <= n /\ n < z + u /\ z \in Int
      BY <2>1
    <3> HIDE DEF z, u
    <3>5. z * Steps <= n * Steps /\ n * Steps < (z + u) * Steps
      BY <1>1, <2>7, <3>4
    <3> HIDE DEF v
    <3> QED
      BY <3>1, <3>2, <3>3, <3>5 DEF v
  <2>10. p = q
    <3> HIDE DEF v, u, z
    <3>1. /\ p * v \in Int /\ q * v \in Int /\ (p + 1) * v \in Int /\ (q + 1) * v \in Int
      BY <2>7
    <3>2. p * v < (q + 1) * v /\ q * v < (p + 1) * v
      BY <1>1, <2>8, <2>9, <3>1
    <3>3. p < q + 1 /\ q < p + 1
      BY <2>7, <3>2, Products
    <3> QED
      BY <3>3
  <2>11. Round(n) = IF 2 * (n - z) < u \/ (2 * (n - z) = u /\ q % 2 = 0) THEN z ELSE z + u
    BY <2>1 DEF Nearest
  <2>12. Round(n * Steps) = IF 2 * (n * Steps - z * Steps) < u * Steps
                               \/ (2 * (n * Steps - z * Steps) = u * Steps /\ q % 2 = 0)
                            THEN z * Steps ELSE (z + u) * Steps
    BY <2>8, <2>9, <2>10 DEF Nearest
  <2>13. /\ z \in Int
         /\ 2 * (n * Steps - z * Steps) < u * Steps <=> 2 * (n - z) < u
         /\ 2 * (n * Steps - z * Steps) = u * Steps <=> 2 * (n - z) = u
    <3>1. z \in Int
      BY <2>1
    <3> HIDE DEF z, u
    <3> QED
      BY <2>7, <3>1, ValueAssumption
  <2> QED
    BY <2>11, <2>12, <2>13
<1> QED
  BY <1>3, <1>4
\* A float of the uppermost binade is a multiple of its gap.
LEMMA RoundUppermost ==
  ASSUME NEW n \in Computed, NEW e \in Nat, IsExponent(n, e), e > 0,
         NEW M \in Nat, M = 2^(Precision + e - 1)
  PROVE  /\ \E k \in Int : Round(n) = k * 2^e
         /\ n >= 0 => M <= Round(n) /\ Round(n) <= 2 * M
         /\ n < 0 => - (2 * M) <= Round(n) /\ Round(n) <= - M
<1>1. PICK f \in Exponents, q \in Int :
        /\ IsExponent(n, f)
        /\ Round(n) = Nearest(n, 2^f, q)
  BY RoundOnGrid
<1>2. f = e /\ n \in Int
  BY <1>1, OneExponent DEF Exponents, Computed
<1>3. \E k \in Int : Round(n) = k * 2^e
  <2>1. PICK k \in {q, q + 1} : Round(n) = k * 2^e
    BY <1>1, <1>2 DEF Nearest
  <2>2. k \in Int
    OBVIOUS
  <2> QED
    BY <2>1, <2>2
<1>4. Precision + e - 1 \in Nat /\ Precision + e \in Nat /\ (Precision + e - 1) + 1 = Precision + e
  BY Magnitude
<1>5. 2^(Precision + e) = 2 * M
  <2>1. 2^((Precision + e - 1) + 1) = M * 2^1
    BY <1>4, PowerSum
  <2> QED
    BY <1>4, <2>1, PowerZero
<1>6. M <= Abs(n) /\ Abs(n) < 2 * M
  BY <1>5 DEF IsExponent
<1>7. IsFloat(M) /\ IsFloat(- M) /\ IsFloat(2 * M) /\ IsFloat(- (2 * M))
  <2>1. /\ IsFloat(2^(Precision + e - 1)) /\ IsFloat(- 2^(Precision + e - 1))
        /\ IsFloat(2^(Precision + e)) /\ IsFloat(- 2^(Precision + e))
    BY <1>4, PowerIsFloat
  <2> QED
    BY <1>5, <2>1
<1>8. n >= 0 => M <= Round(n) /\ Round(n) <= 2 * M
  BY <1>2, <1>6, <1>7, RoundNearest DEF Abs
<1>9. n < 0 => - (2 * M) <= Round(n) /\ Round(n) <= - M
  BY <1>2, <1>6, <1>7, RoundNearest DEF Abs
<1> QED
  BY <1>3, <1>8, <1>9

\* A sum of two rounded numbers, rounded once more, where one gap is U = 2 * V
\* below 2 * M.
LEMMA SumRounded ==
  ASSUME NEW a \in Ints, NEW d \in Ints, NEW e \in Nat, e > 0,
         NEW M \in Nat, NEW V \in Nat \ {0},
         M = 2^(Precision + e - 1), V = 2^(e - 1),
         Abs(a) < 2 * M, Abs(d) < 2 * M, Abs(a + d) < 2 * M
  PROVE  4 * Abs(Round(Round(a) + Round(d)) - (a + d)) <= 10 * V
<1> DEFINE ra == Round(a)
           rd == Round(d)
           T == ra + rd
           b == a + d
<1>1. a \in Int /\ d \in Int /\ a \in Computed /\ d \in Computed /\ Half \in Nat \ {0}
  BY IntRange
<1>2. /\ Precision + e - 1 \in Nat /\ e - 1 \in Nat
      /\ 2^(Precision + e) = 2 * M /\ 2^e = 2 * V /\ M = 2^(Precision - 1) * (2 * V)
      /\ 2^(Precision - 1) \in Nat \ {0} /\ 2^(Precision - 1) <= 2^Precision
      /\ 2^(Precision + e + 1) = 4 * M /\ 2^(e + 1) = 4 * V
      /\ M = 2^Precision * V /\ 2^Precision >= 2
  <2>1. /\ Precision - 1 \in Nat /\ Precision + e - 1 \in Nat /\ e - 1 \in Nat
        /\ (Precision + e - 1) + 1 = Precision + e /\ (e - 1) + 1 = e
        /\ (Precision - 1) + e = Precision + e - 1 /\ (Precision - 1) + 1 = Precision
        /\ Precision + (e - 1) = Precision + e - 1
    BY Magnitude
  <2>2. 2^((Precision + e - 1) + 1) = 2^(Precision + e - 1) * 2^1
    BY <2>1, PowerSum
  <2>3. 2^((e - 1) + 1) = 2^(e - 1) * 2^1
    BY <2>1, PowerSum
  <2>4. 2^((Precision - 1) + e) = 2^(Precision - 1) * 2^e
    BY <2>1, PowerSum
  <2>5. 2^(Precision - 1) \in Nat \ {0} /\ 2^((Precision - 1) + 1) = 2^(Precision - 1) * 2^1
    BY <2>1, PowerSum, PowerTyped
  <2>6. 2^((Precision + e) + 1) = 2^(Precision + e) * 2^1 /\ 2^(e + 1) = 2^e * 2^1
    <3>1. Precision + e \in Nat
      BY Magnitude
    <3> QED
      BY <3>1, PowerSum
  <2>7. 2^(Precision + (e - 1)) = 2^Precision * 2^(e - 1)
    BY <2>1, PowerSum, Magnitude
  <2>8. 2^(Precision + e) = 2 * M
    BY <2>1, <2>2, PowerZero
  <2>9. 2^e = 2 * V
    BY <2>1, <2>3, PowerZero
  <2>10. M = 2^(Precision - 1) * (2 * V)
    BY <2>1, <2>4, <2>9
  <2>11. 2^Precision = 2 * 2^(Precision - 1)
    BY <2>1, <2>5, PowerZero
  <2>12. 2^(Precision - 1) <= 2^Precision /\ 2^Precision >= 2
    BY <2>5, <2>11
  <2>13. 2^(Precision + e + 1) = 4 * M /\ 2^(e + 1) = 4 * V
    BY <2>6, <2>8, <2>9, PowerZero
  <2>14. M = 2^Precision * V
    BY <2>1, <2>7
  <2> QED
    BY <2>1, <2>5, <2>8, <2>9, <2>10, <2>12, <2>13, <2>14
<1>3. M >= 2 * V
  BY <1>2
<1>4. ra \in Int /\ rd \in Int /\ 2 * Abs(ra - a) <= 2 * V /\ 2 * Abs(rd - d) <= 2 * V
  BY <1>1, <1>2, RoundError, RoundErrorBelow
<1>5. /\ Abs(a) < M => 2 * Abs(ra - a) <= V
      /\ Abs(d) < M => 2 * Abs(rd - d) <= V
  <2>1. Precision + (e - 1) = Precision + e - 1
    BY Magnitude
  <2> QED
    BY <1>1, <1>2, <2>1, RoundErrorBelow
<1>6. T \in Computed
  <2>1. - 2^Width <= a /\ a <= 2^Width /\ - 2^Width <= d /\ d <= 2^Width
    BY IntRange
  <2>2. - 2^Width <= ra /\ ra <= 2^Width /\ - 2^Width <= rd /\ rd <= 2^Width
    BY <1>1, <2>1, RoundBounded, Magnitude
  <2>3. - 4 * Half <= T /\ T <= 4 * Half /\ T \in Int
    <3> HIDE DEF ra, rd
    <3> QED
      BY <1>1, <1>4, <2>2, IntRange
  <2> HIDE DEF T
  <2>4. - 256 * Half <= T /\ T <= 256 * Half
    BY <1>1, <2>3
  <2> QED
    BY <2>3, <2>4, IntRange
<1>7. CASE Abs(a) >= M /\ Abs(d) >= M
  <2>1. IsExponent(a, e) /\ IsExponent(d, e)
    BY <1>2, <1>7 DEF IsExponent
  <2>2. /\ \E k \in Int : ra = k * 2^e
        /\ a >= 0 => M <= ra /\ ra <= 2 * M
        /\ a < 0 => - (2 * M) <= ra /\ ra <= - M
    BY <1>1, <2>1, RoundUppermost
  <2>3. /\ \E l \in Int : rd = l * 2^e
        /\ d >= 0 => M <= rd /\ rd <= 2 * M
        /\ d < 0 => - (2 * M) <= rd /\ rd <= - M
    BY <1>1, <2>1, RoundUppermost
  <2>4. (a >= 0 /\ d < 0) \/ (a < 0 /\ d >= 0)
    BY <1>1, <1>7 DEF Abs
  <2>5. - M <= T /\ T <= M
    <3> HIDE DEF ra, rd
    <3> QED
      BY <1>4, <2>2, <2>3, <2>4
  <2>6. PICK k \in Int, l \in Int : ra = k * 2^e /\ rd = l * 2^e
    BY <2>2, <2>3
  <2>7. IsFloat(T)
    <3> DEFINE u == 2^e
               h == 2^(Precision - 1)
    <3>1. T = (k + l) * u
      <4>1. \A x, y, z \in Int : x * z + y * z = (x + y) * z
        OBVIOUS
      <4>2. u \in Int
        BY <1>2
      <4> QED
        BY <2>6, <4>1, <4>2
    <3>2. u \in Nat \ {0} /\ h \in Nat \ {0} /\ M = h * u /\ - M = (- h) * u
      BY <1>2
    <3>3. (- h) * u <= (k + l) * u /\ (k + l) * u <= h * u
      BY <2>5, <3>1, <3>2
    <3> HIDE DEF u, h
    <3>4. - h <= k + l /\ k + l <= h
      BY <3>2, <3>3, Products
    <3>5. Abs(k + l) <= h
      BY <3>2, <3>4 DEF Abs
    <3>6. Abs(k + l) <= 2^Precision
      <4>1. h <= 2^Precision /\ 2^Precision \in Int
        BY <1>2, Magnitude DEF h
      <4> QED
        BY <3>2, <3>5, <4>1 DEF Abs
    <3> QED
      BY <3>1, <3>6 DEF IsFloat, u
  <2>8. Round(T) = T
    BY <1>6, <2>7, RoundExact
  <2>9. 4 * Abs(T - b) <= 10 * V
    <3> HIDE DEF ra, rd
    <3>1. - V <= ra - a /\ ra - a <= V /\ - V <= rd - d /\ rd - d <= V
      BY <1>1, <1>4 DEF Abs
    <3>2. T - b = (ra - a) + (rd - d)
      BY <1>1, <1>4
    <3> HIDE DEF T, b
    <3> QED
      BY <1>1, <1>4, <3>1, <3>2 DEF Abs
  <2> QED
    BY <2>8, <2>9
<1>8. CASE ~ (Abs(a) >= M /\ Abs(d) >= M)
  <2>1. 2 * Abs(T - b) <= 3 * V /\ T \in Int /\ b \in Int
    <3>1. Abs(a) \in Int /\ Abs(d) \in Int
      BY <1>1 DEF Abs
    <3> HIDE DEF ra, rd
    <3> QED
      BY <1>1, <1>4, <1>5, <1>8, <3>1 DEF Abs
  <2>2. Abs(b) < 2 * M
    OBVIOUS
  <2> HIDE DEF T, b
  <2>3. CASE Abs(T) < 2 * M
    <3>1. Round(T) \in Int /\ 2 * Abs(Round(T) - T) <= 2 * V
      BY <1>2, <1>6, <2>3, RoundError, RoundErrorBelow
    <3>2. 4 * Abs(Round(T) - b) <= 10 * V
      BY <2>1, <3>1 DEF Abs
    <3> QED
      BY <3>2 DEF T, b
  <2>4. CASE Abs(T) >= 2 * M
    <3> DEFINE f == e + 1
               u == 2^f
               h == 2^(Precision - 1)
    <3>1. f \in Nat /\ u = 4 * V /\ h \in Int /\ 2 * M = h * u /\ - (2 * M) = (- h) * u
      <4>1. f \in Nat /\ u = 4 * V /\ h \in Int /\ M = h * (2 * V)
        BY <1>2
      <4>2. h * (4 * V) = 2 * (h * (2 * V)) /\ (- h) * (4 * V) = - (h * (4 * V))
        <5> HIDE DEF h
        <5> QED
          BY <4>1
      <4> QED
        BY <4>1, <4>2
    <3>2. IsExponent(T, f)
      <4>1. Precision + f = Precision + e + 1 /\ Precision + f - 1 = Precision + e
        BY Magnitude
      <4>2. Abs(T) < 4 * M
        BY <1>3, <2>1, <2>2 DEF Abs
      <4> QED
        BY <1>2, <2>4, <4>1, <4>2 DEF IsExponent
    <3> HIDE DEF f, u, h
    <3>3. CASE T >= 0
      <4>1. /\ 2 * Abs(T - h * u) < u
            /\ 4 * Abs(2 * M - b) <= 10 * V
        BY <2>1, <2>2, <2>4, <3>1, <3>3 DEF Abs
      <4>2. Round(T) = h * u
        BY <1>6, <3>1, <3>2, <4>1, RoundTo DEF u
      <4> QED
        BY <3>1, <4>1, <4>2 DEF T, b
    <3>4. CASE T < 0
      <4>1. /\ 2 * Abs(T - (- h) * u) < u
            /\ 4 * Abs(- (2 * M) - b) <= 10 * V
        BY <2>1, <2>2, <2>4, <3>1, <3>4 DEF Abs
      <4>2. - h \in Int
        BY <3>1
      <4>3. 2 * Abs(T - (- h) * 2^f) < 2^f
        BY <4>1 DEF u
      <4>4. Round(T) = (- h) * u
        BY <1>6, <3>1, <3>2, <4>2, <4>3, RoundTo DEF u
      <4> QED
        BY <3>1, <4>1, <4>4 DEF T, b
    <3> QED
      BY <2>1, <3>3, <3>4
  <2>5. Abs(T) \in Int
    BY <2>1 DEF Abs
  <2> QED
    BY <2>3, <2>4, <2>5
<1> QED
  BY <1>7, <1>8
LEMMA IntsApplied ==
  ASSUME NEW a \in Ints, NEW b \in Ints, b - a \in Ints,
         Round(Round(a) + Round(b - a)) \in Ints,
         NEW largest \in {a, b, b - a},
         Abs(a) <= Abs(largest), Abs(b) <= Abs(largest), Abs(b - a) <= Abs(largest)
  PROVE  4 * Abs(InterpInt(a, DeltaInt(a, b), Steps) - b) <= 5 * Ulp(largest)
<1> DEFINE d == b - a
           ra == Round(a)
           rd == Round(d)
           T == ra + rd
           sum == Round(T)
<1>1. /\ a \in Int /\ b \in Int /\ d \in Int /\ a \in Computed /\ b \in Computed /\ d \in Computed
      /\ largest \in Int /\ largest \in Computed /\ a + d = b /\ d \in Ints
      /\ Half \in Nat \ {0} /\ Steps \in Nat \ {0} /\ Steps <= 8 /\ sum \in Ints /\ sum \in Int
  BY IntRange, ValueAssumption
<1>2. PICK e \in Exponents : IsExponent(largest, e) /\ Ulp(largest) = 2^e
  BY <1>1, HasExponent
<1>3. e \in Nat /\ Precision + e \in Nat /\ 2^(Precision + e) \in Nat /\ Abs(largest) < 2^(Precision + e)
  BY <1>2, Magnitude, PowerTyped DEF IsExponent, Exponents
<1>4. /\ Abs(a) < 2^(Precision + e) /\ Abs(d) < 2^(Precision + e) /\ Abs(b) < 2^(Precision + e)
  <2>1. Abs(a) \in Int /\ Abs(b) \in Int /\ Abs(d) \in Int /\ Abs(largest) \in Int
    <3> HIDE DEF d
    <3> QED
      BY <1>1 DEF Abs
  <2>2. Abs(d) <= Abs(largest)
    OBVIOUS
  <2> HIDE DEF d
  <2> QED
    BY <1>3, <2>1, <2>2
<1>5. 4 * Abs(sum - b) <= 5 * Ulp(largest)
  <2>1. CASE e = 0
    <3>1. Abs(a) <= 2^Precision /\ Abs(d) <= 2^Precision /\ Abs(b) <= 2^Precision
      <4>1. Precision + e = Precision
        BY <2>1, Magnitude
      <4> HIDE DEF d
      <4> QED
        BY <1>1, <1>4, <4>1, Magnitude DEF Abs
    <3>2. IsFloat(a) /\ IsFloat(d) /\ IsFloat(b)
      BY <1>1, <3>1, PowerZero, SmallIsFloat
    <3>3. ra = a /\ rd = d
      BY <1>1, <3>2, RoundExact
    <3>4. T = b
      BY <1>1, <3>3
    <3>5. sum = b
      BY <1>1, <3>2, <3>4, RoundExact
    <3>6. Ulp(largest) \in Nat
      BY <1>2, <1>3, PowerTyped
    <3> QED
      BY <1>1, <3>5, <3>6 DEF Abs
  <2>2. CASE e > 0
    <3> DEFINE M == 2^(Precision + e - 1)
               V == 2^(e - 1)
    <3>1. /\ Precision + e - 1 \in Nat /\ e - 1 \in Nat
          /\ (Precision + e - 1) + 1 = Precision + e /\ (e - 1) + 1 = e
      BY <1>3, <2>2, Magnitude
    <3>2. M \in Nat /\ V \in Nat \ {0}
      BY <3>1, PowerTyped
    <3>3. 2^(Precision + e) = 2 * M
      <4>1. 2^((Precision + e - 1) + 1) = M * 2^1
        BY <3>1, PowerSum
      <4> QED
        BY <3>1, <3>2, <4>1, PowerZero
    <3>4. 2^e = 2 * V
      <4>1. 2^((e - 1) + 1) = V * 2^1
        BY <3>1, PowerSum
      <4> QED
        BY <3>1, <3>2, <4>1, PowerZero
    <3>5. Abs(a) < 2 * M /\ Abs(d) < 2 * M /\ Abs(a + d) < 2 * M
      BY <1>1, <1>4, <3>3
    <3>6. 4 * Abs(sum - (a + d)) <= 10 * V
      <4>1. M = 2^(Precision + e - 1) /\ V = 2^(e - 1)
        OBVIOUS
      <4> HIDE DEF M, V, d
      <4> QED
        BY <1>1, <1>3, <2>2, <3>2, <3>5, <4>1, SumRounded
    <3>7. Ulp(largest) = 2 * V
      BY <1>2, <3>4
    <3> HIDE DEF sum, V
    <3> QED
      BY <1>1, <3>2, <3>6, <3>7
  <2> QED
    BY <1>3, <2>1, <2>2
<1>6. InterpInt(a, DeltaInt(a, b), Steps) = sum
  <2>1. DeltaInt(a, b) = d
    BY <1>1, WrapsNot DEF DeltaInt
  <2>2. /\ ra \in Int /\ rd \in Int /\ - 2 * Half <= ra /\ ra <= 2 * Half
        /\ - 2 * Half <= rd /\ rd <= 2 * Half
    <3>1. - 2^Width <= a /\ a <= 2^Width /\ - 2^Width <= d /\ d <= 2^Width
      BY <1>1, IntRange
    <3>2. - 2^Width <= ra /\ ra <= 2^Width /\ - 2^Width <= rd /\ rd <= 2^Width /\ ra \in Int /\ rd \in Int
      <4> HIDE DEF d
      <4> QED
        BY <1>1, <3>1, RoundBounded, Magnitude
    <3> HIDE DEF ra, rd
    <3> QED
      BY <1>1, <3>2, IntRange
  <2>3. Round(rd * Steps) = rd * Steps
    <3>1. IsFloat(rd)
      BY <1>1, RoundIsFloat
    <3> HIDE DEF rd
    <3>2. - 16 * Half <= rd * Steps /\ rd * Steps <= 16 * Half
      BY <1>1, <2>2
    <3>3. rd * Steps \in Int
      BY <1>1, <2>2
    <3>4. rd * Steps \in Computed
      <4> DEFINE x == rd * Steps
      <4> HIDE DEF x
      <4>1. x \in Int /\ - 256 * Half <= x /\ x <= 256 * Half
        BY <1>1, <3>2, <3>3 DEF x
      <4> QED
        BY <4>1, IntRange DEF x
    <3> QED
      BY <2>2, <3>1, <3>4, ScaledIsFloat, RoundExact
  <2>4. T \in Int /\ - 16 * Half <= T /\ T <= 16 * Half /\ ra * Steps + rd * Steps = T * Steps
    <3> HIDE DEF ra, rd
    <3> QED
      BY <1>1, <2>2
  <2>5. Round(T * Steps) = sum * Steps
    <3> HIDE DEF T
    <3> QED
      BY <2>4, RoundScales DEF T
  <2>6. ToInt(sum * Steps) = sum
    <3> HIDE DEF sum
    <3>1. sum * Steps \in Int /\ sum * Steps <= sum * Steps
      BY <1>1
    <3>2. ToInt(sum * Steps) \in sum .. sum
      BY <1>1, <3>1, Truncates
    <3> QED
      BY <1>1, <3>2
  <2>7. InterpInt(a, d, Steps) = ToInt(Round(ra * Steps + Round(rd * Steps)))
    BY DEF InterpInt
  <2> QED
    BY <2>1, <2>3, <2>4, <2>5, <2>6, <2>7
<1> QED
  BY <1>5, <1>6
(***************************************************************************)
(* The bytes of an int.                                                    *)
(***************************************************************************)

LEMMA WrapTyped ==
  ASSUME NEW n \in Int
  PROVE  Wrap(n) \in Ints
<1>1. Half \in Nat \ {0} /\ 2 * Half = 2^Width /\ MinInt = - Half /\ Ints = - Half .. Half - 1
  BY IntRange
<1>2. (n + Half) % (2 * Half) \in 0 .. 2 * Half - 1
  <2>1. n + Half \in Int /\ 2 * Half \in Nat \ {0}
    BY <1>1
  <2> QED
    BY <2>1, DivMod
<1>3. Wrap(n) = ((n + Half) % (2 * Half)) - Half
  BY <1>1 DEF Wrap
<1> QED
  BY <1>1, <1>2, <1>3

\* An int is the unsigned int of the same bits, wrapped.
LEMMA UnsignedWraps ==
  ASSUME NEW v \in Ints
  PROVE  v % 2^Width \in 0 .. 2^Width - 1 /\ Wrap(v % 2^Width) = v
<1> DEFINE c == 2 * Half
<1>1. /\ Half \in Nat \ {0} /\ c = 2^Width /\ MinInt = - Half
      /\ v \in Int /\ - Half <= v /\ v < Half /\ c \in Nat \ {0}
  BY IntRange
<1>2. v % c \in 0 .. c - 1
  BY <1>1, DivMod
<1>3. CASE v >= 0
  <2>1. v = 0 * c + v /\ v \in 0 .. c - 1
    BY <1>1, <1>3
  <2>2. v + Half = 0 * c + (v + Half) /\ v + Half \in 0 .. c - 1
    BY <1>1, <1>3
  <2> HIDE DEF c
  <2>3. v % c = v
    BY <1>1, <2>1, RestIs
  <2>4. (v + Half) % c = v + Half
    BY <1>1, <2>2, RestIs
  <2> QED
    BY <1>1, <2>1, <2>3, <2>4 DEF Wrap
<1>4. CASE v < 0
  <2>1. v = (- 1) * c + (v + c) /\ v + c \in 0 .. c - 1
    BY <1>1, <1>4
  <2>2. (v + c) + Half = 1 * c + (v + Half) /\ v + Half \in 0 .. c - 1
    BY <1>1, <1>4
  <2> HIDE DEF c
  <2>3. v % c = v + c
    BY <1>1, <2>1, RestIs
  <2>4. ((v + c) + Half) % c = v + Half
    BY <1>1, <2>2, RestIs
  <2> QED
    BY <1>1, <2>1, <2>3, <2>4 DEF Wrap
<1> QED
  BY <1>1, <1>2, <1>3, <1>4

\* deserialize() gives back the int that serialize() wrote, whatever it is.
LEMMA IntsTravel ==
  ASSUME NEW v \in Ints
  PROVE  ParseInt(BytesInt(v)) = v
<1> DEFINE B == ByteWidth
           K == Width \div B
           N == v % 2^Width
           bytes == BytesInt(v)
           Step(f) == [k \in 0 .. K |->
              IF k = 0 THEN 0
              ELSE f[k - 1] + (IF k \in DOMAIN bytes
                               THEN bytes[k] * 2^(B * (k - 1)) ELSE 0)]
           rests == [k \in 0 .. K |-> N % 2^(B * k)]
           value == CHOOSE f : f = Step(f)
<1>1. B \in Nat \ {0} /\ K \in Nat /\ Width = B * K
  <2>1. Width \in Int /\ ByteWidth \in Nat \ {0} /\ Width >= 0 /\ Width % ByteWidth = 0
    BY ValueAssumption
  <2>2. K \in Int /\ Width = K * B + (Width % B)
    BY <2>1, DivMod
  <2> HIDE DEF K, B
  <2>3. Width = B * K
    BY <2>1, <2>2 DEF B
  <2>4. K >= 0
    BY <2>1, <2>2, <2>3 DEF B
  <2> QED
    BY <2>1, <2>2, <2>3, <2>4 DEF B
<1>2. N \in 0 .. 2^Width - 1 /\ Wrap(N) = v
  BY UnsignedWraps
<1>3. bytes = [k \in 1 .. K |-> (N \div 2^(B * (k - 1))) % 2^B]
  BY DEF BytesInt
<1> HIDE DEF B, K, N, bytes
<1>4. 2^Width \in Nat \ {0} /\ N \in Nat
  BY <1>2, Magnitude, PowerTyped
<1>5. ASSUME NEW k \in 1 .. K
      PROVE  /\ k \in DOMAIN bytes /\ k - 1 \in 0 .. K
             /\ N % 2^(B * k) = (N % 2^(B * (k - 1))) + bytes[k] * 2^(B * (k - 1))
  <2>1. B * (k - 1) \in Nat /\ B * k = B * (k - 1) + B /\ B \in Nat
    BY <1>1
  <2>2. 2^(B * (k - 1)) \in Nat \ {0} /\ 2^B \in Nat \ {0}
    BY <2>1, PowerTyped
  <2>3. 2^(B * k) = 2^(B * (k - 1)) * 2^B
    BY <2>1, PowerSum
  <2>4. bytes[k] = (N \div 2^(B * (k - 1))) % 2^B /\ k \in DOMAIN bytes
    BY <1>3
  <2>5. N % (2^(B * (k - 1)) * 2^B)
          = (N % 2^(B * (k - 1))) + ((N \div 2^(B * (k - 1))) % 2^B) * 2^(B * (k - 1))
    BY <1>4, <2>2, Digits
  <2>6. k - 1 \in 0 .. K
    BY <1>1
  <2> QED
    BY <2>3, <2>4, <2>5, <2>6
<1>6. N % 2^(B * 0) = 0
  <2>1. B * 0 = 0
    BY <1>1
  <2>2. N % 1 = 0
    BY <1>4
  <2> QED
    BY <2>1, <2>2, PowerZero
<1>7. rests = Step(rests)
  <2>1. \A k \in 0 .. K :
          rests[k] = IF k = 0 THEN 0
                     ELSE rests[k - 1] + (IF k \in DOMAIN bytes
                                          THEN bytes[k] * 2^(B * (k - 1)) ELSE 0)
    <3> SUFFICES ASSUME NEW k \in 0 .. K
                 PROVE  rests[k] = IF k = 0 THEN 0
                                   ELSE rests[k - 1] + (IF k \in DOMAIN bytes
                                                        THEN bytes[k] * 2^(B * (k - 1)) ELSE 0)
      OBVIOUS
    <3>1. CASE k = 0
      BY <1>1, <1>6, <3>1
    <3>2. CASE k # 0
      <4>1. k \in 1 .. K
        BY <1>1, <3>2
      <4> QED
        BY <1>5, <3>2, <4>1
    <3> QED
      BY <3>1, <3>2
  <2> QED
    BY <2>1
<1>8. value = Step(value)
  BY <1>7
<1>9. \A k \in 0 .. K : value[k] = N % 2^(B * k)
  <2> DEFINE Good == {k \in 0 .. K : value[k] = N % 2^(B * k)}
  <2>1. /\ value[0] = 0
        /\ \A k \in 1 .. K : value[k] = value[k - 1] + (IF k \in DOMAIN bytes
                                                       THEN bytes[k] * 2^(B * (k - 1)) ELSE 0)
    <3> HIDE DEF value
    <3>1. \A k \in 1 .. K : k \in 0 .. K /\ k # 0
      BY <1>1
    <3>2. 0 \in 0 .. K
      BY <1>1
    <3> QED
      BY <1>8, <3>1, <3>2
  <2> HIDE DEF value
  <2>2. 0 \in Good
    BY <1>1, <1>6, <2>1
  <2>3. ASSUME NEW k \in 0 .. K, k < K, k \in Good
        PROVE  k + 1 \in Good
    <3>1. k + 1 \in 1 .. K /\ k + 1 \in 0 .. K /\ (k + 1) - 1 = k
      BY <1>1, <2>3
    <3>2. value[k + 1] = value[k] + bytes[k + 1] * 2^(B * k)
      BY <1>5, <2>1, <3>1
    <3>3. N % 2^(B * (k + 1)) = (N % 2^(B * k)) + bytes[k + 1] * 2^(B * k)
      BY <1>5, <3>1
    <3> QED
      BY <2>3, <3>1, <3>2, <3>3
  <2> HIDE DEF Good
  <2>4. \A k \in 0 .. K : k \in Good
    BY <1>1, <2>2, <2>3, Induction
  <2> QED
    BY <2>4 DEF Good
<1>10. value[K] = N
  <2>1. value[K] = N % 2^Width
    <3> HIDE DEF value
    <3>1. K \in 0 .. K
      BY <1>1
    <3> QED
      BY <1>1, <1>9, <3>1
  <2>2. N % 2^Width = N
    <3> DEFINE c == 2^Width
    <3>1. c \in Nat \ {0} /\ N \in 0 .. c - 1 /\ N = 0 * c + N
      BY <1>2, <1>4
    <3> HIDE DEF c
    <3>2. N % c = N
      BY <3>1, RestIs
    <3> QED
      BY <3>2 DEF c
  <2> QED
    BY <2>1, <2>2
<1>11. ParseInt(bytes) = Wrap(value[K])
  BY DEF ParseInt, K, B
<1> QED
  BY <1>2, <1>10, <1>11 DEF bytes

(***************************************************************************)
(* The game values of ValuePair are those of GameValues.                   *)
(***************************************************************************)
LEMMA SameValues ==
  ASSUME NEW v, NEW w, NEW t
  PROVE  /\ AValue!Ints = Ints /\ AValue!Times = Times
         /\ AValue!Abs(v) = Abs(v) /\ AValue!Ulp(v) = Ulp(v) /\ AValue!Round(v) = Round(v)
         /\ AValue!DeltaInt(v, w) = DeltaInt(v, w)
         /\ AValue!InterpInt(v, w, t) = InterpInt(v, w, t)
         /\ AValue!DeltaFloat(v, w) = DeltaFloat(v, w)
         /\ AValue!InterpFloat(v, w) = InterpFloat(v, w)
<1>1. AValue!Ints = Ints /\ AValue!MinInt = MinInt /\ AValue!Times = Times
  BY DEF AValue!Ints, AValue!MinInt, AValue!Times, Ints, MinInt, Times
<1>2. \A x : AValue!Abs(x) = Abs(x)
  BY DEF AValue!Abs, Abs
<1>3. \A x : AValue!Ulp(x) = Ulp(x)
  BY <1>2 DEF AValue!Ulp, Ulp
<1>4. \A x : AValue!Round(x) = Round(x)
  BY <1>3 DEF AValue!Round, Round
<1>5. \A x : AValue!ToInt(x) = ToInt(x)
  BY <1>1 DEF AValue!ToInt, ToInt
<1>6. \A x : AValue!Wrap(x) = Wrap(x)
  BY <1>1 DEF AValue!Wrap, Wrap
<1>7. AValue!DeltaInt(v, w) = DeltaInt(v, w) /\ AValue!DeltaFloat(v, w) = DeltaFloat(v, w)
  BY <1>4, <1>6 DEF AValue!DeltaInt, DeltaInt, AValue!DeltaFloat, DeltaFloat
<1>8. AValue!InterpInt(v, w, t) = InterpInt(v, w, t)
  BY <1>4, <1>5 DEF AValue!InterpInt, InterpInt
<1>9. AValue!InterpFloat(v, w) = InterpFloat(v, w)
  BY <1>4 DEF AValue!InterpFloat, InterpFloat
<1> QED
  BY <1>1, <1>2, <1>3, <1>4, <1>7, <1>8, <1>9

LEMMA ValueTypeCorrect == AValue!Spec => [](old \in Ints /\ new \in Ints /\ time \in Times)
<1> DEFINE ValueTyped == old \in Ints /\ new \in Ints /\ time \in Times
<1>1. AValue!Init => ValueTyped
  <2>1. 0 \in Ints /\ 0 \in Times
    BY IntRange, ValueAssumption DEF Times
  <2> QED
    BY <2>1 DEF AValue!Init
<1>2. ValueTyped /\ [AValue!Next]_(AValue!vars) => ValueTyped'
  BY SameValues DEF AValue!Next, AValue!Tick, AValue!Sample, AValue!vars
<1> QED
  BY <1>1, <1>2, PTL DEF AValue!Spec

(***************************************************************************)
(* Small ints interpolate, whatever the widths of int and float: between   *)
(* two ticks such a value is between the two it had, and at the time 1.0   *)
(* it is the new one (types.hpp:154-161).                                  *)
(***************************************************************************)
THEOREM SmallInts == AValue!Spec => []SmallIntsInterpolate
<1>1. old \in Ints /\ new \in Ints /\ time \in Times => AValue!SmallIntsInterpolate
  <2> SUFFICES ASSUME old \in Ints, new \in Ints, time \in Times, AValue!Small
               PROVE  AValue!SmallIntsInterpolate
    BY DEF AValue!SmallIntsInterpolate
  <2>1. Abs(old) <= 2^Precision /\ Abs(new) <= 2^Precision /\ Abs(new - old) <= 2^Precision
    BY SameValues DEF AValue!Small
  <2>2. AValue!Interpolated = InterpInt(old, DeltaInt(old, new), time)
    BY SameValues DEF AValue!Interpolated
  <2> QED
    BY <2>1, <2>2, SmallIntsApplied DEF AValue!SmallIntsInterpolate
<1> QED
  BY <1>1, ValueTypeCorrect, PTL DEF SmallIntsInterpolate

(***************************************************************************)
(* Any int applied in full is off by at most 5/4 of a gap between floats   *)
(* (types.hpp:147-161): two numbers of the uppermost binade are both       *)
(* rounded by up to half a gap only if their sum then is exact.            *)
(***************************************************************************)
THEOREM IntsAreClose == AValue!Spec => []IntsApplyClosely
<1>1. old \in Ints /\ new \in Ints /\ time \in Times => AValue!IntsApplyClosely
  <2> SUFFICES ASSUME old \in Ints, new \in Ints
               PROVE  AValue!IntsApplyClosely
    OBVIOUS
  <2> DEFINE three == {old, new, new - old}
             Largest(n) == \A m \in three : AValue!Abs(m) <= AValue!Abs(n)
             largest == CHOOSE n \in three : Largest(n)
  <2>1. old \in Int /\ new \in Int /\ new - old \in Int
    BY IntRange
  <2>2. Abs(old) \in Int /\ Abs(new) \in Int /\ Abs(new - old) \in Int
    <3>1. \A x \in Int : Abs(x) \in Int
      BY DEF Abs
    <3> QED
      BY <2>1, <3>1
  <2>3. \E n \in three : Largest(n)
    <3>1. \A x : AValue!Abs(x) = Abs(x)
      BY SameValues
    <3>2. \A i, j, l \in Int : (i >= j /\ i >= l) \/ (j >= i /\ j >= l) \/ (l >= i /\ l >= j)
      OBVIOUS
    <3>3. CASE Abs(old) >= Abs(new) /\ Abs(old) >= Abs(new - old)
      BY <2>2, <3>1, <3>3
    <3>4. CASE Abs(new) >= Abs(old) /\ Abs(new) >= Abs(new - old)
      BY <2>2, <3>1, <3>4
    <3>5. CASE Abs(new - old) >= Abs(old) /\ Abs(new - old) >= Abs(new)
      BY <2>2, <3>1, <3>5
    <3> QED
      BY <2>2, <3>2, <3>3, <3>4, <3>5
  <2>4. largest \in three /\ Largest(largest)
    BY <2>3
  <2>5. AValue!IntsApplyClosely =
          (time = Steps /\ new - old \in AValue!Ints
             /\ AValue!Round(AValue!Round(old) + AValue!Round(new - old)) \in AValue!Ints
           => 4 * AValue!Abs(AValue!Interpolated - new) <= 5 * AValue!Ulp(largest))
    BY DEF AValue!IntsApplyClosely
  <2> HIDE DEF largest
  <2>6. Abs(old) <= Abs(largest) /\ Abs(new) <= Abs(largest) /\ Abs(new - old) <= Abs(largest)
    BY <2>4, SameValues
  <2>7. ASSUME time = Steps, new - old \in Ints, Round(Round(old) + Round(new - old)) \in Ints
        PROVE  4 * Abs(InterpInt(old, DeltaInt(old, new), Steps) - new) <= 5 * Ulp(largest)
    BY <2>4, <2>6, <2>7, IntsApplied
  <2>8. time = Steps =>
          AValue!Interpolated = InterpInt(old, DeltaInt(old, new), Steps)
    BY SameValues DEF AValue!Interpolated
  <2>9. /\ AValue!Ints = Ints
        /\ \A x : AValue!Abs(x) = Abs(x) /\ AValue!Ulp(x) = Ulp(x) /\ AValue!Round(x) = Round(x)
    BY SameValues
  <2>10. ASSUME time = Steps, new - old \in Ints, Round(Round(old) + Round(new - old)) \in Ints
         PROVE  4 * Abs(AValue!Interpolated - new) <= 5 * Ulp(largest)
    BY <2>7, <2>8, <2>10
  <2> QED
    BY <2>5, <2>9, <2>10, Zenon
<1> QED
  BY <1>1, ValueTypeCorrect, PTL DEF IntsApplyClosely

(***************************************************************************)
(* A float applied in full is off by what the difference is rounded by, at *)
(* most, and exact if the two values are close (types.hpp:147-161).        *)
(***************************************************************************)
THEOREM FloatsAreClose == AValue!Spec => []FloatsApplyClosely
<1>1. old \in Ints /\ new \in Ints /\ time \in Times => AValue!FloatsApplyClosely
  <2> SUFFICES ASSUME old \in Ints, new \in Ints, Round(old) = old, Round(new) = new
               PROVE  AValue!FloatsApplyClosely
    BY SameValues DEF AValue!FloatsApplyClosely
  <2>1. /\ Abs(InterpFloat(old, DeltaFloat(old, new)) - new) <= Ulp(new - old)
        /\ old <= 2 * new /\ new <= 2 * old => InterpFloat(old, DeltaFloat(old, new)) = new
    BY FloatsApplied
  <2> QED
    BY <2>1, SameValues DEF AValue!FloatsApplyClosely
<1> QED
  BY <1>1, ValueTypeCorrect, PTL DEF FloatsApplyClosely

(***************************************************************************)
(* Objects whose values are ints.                                          *)
(***************************************************************************)
\* The values are ints at most half as large as those a float holds exactly, and
\* are handled as PrimitiveValue<int> does.
SmallIntValues ==
  /\ Value \subseteq {n \in Ints : 2 * Abs(n) <= 2^Precision}
  /\ Time = Times /\ Full = Steps
  /\ \A v, w \in Value : GetDelta(v, w) = DeltaInt(v, w)
  /\ \A v \in Value, d \in Ints, t \in Time : Interp(v, d, t) = InterpInt(v, d, t)
  /\ \A n \in Ints : Bytes(n) = BytesInt(n) /\ Parse(Bytes(n)) = ParseInt(BytesInt(n))

\* They have what snapshots and messages ask of their values.
LEMMA SmallIntsServe ==
  ASSUME SmallIntValues
  PROVE  ExactValues /\ ValuesInterpolate /\ ExactBytes
<1>1. ASSUME NEW v \in Value, NEW w \in Value
      PROVE  /\ v \in Ints /\ w \in Ints /\ v \in Int /\ w \in Int
             /\ Abs(v) <= 2^Precision /\ Abs(w) <= 2^Precision /\ Abs(w - v) <= 2^Precision
             /\ GetDelta(v, w) = DeltaInt(v, w) /\ DeltaInt(v, w) \in Ints
  <2>1. /\ v \in Ints /\ w \in Ints /\ v \in Int /\ w \in Int
        /\ 2 * Abs(v) <= 2^Precision /\ 2 * Abs(w) <= 2^Precision
    BY IntRange DEF SmallIntValues
  <2>2. Abs(v) <= 2^Precision /\ Abs(w) <= 2^Precision /\ Abs(w - v) <= 2^Precision
    BY <2>1, Magnitude DEF Abs
  <2>3. w - v \in Int
    BY <2>1
  <2>4. DeltaInt(v, w) \in Ints
    BY <2>3, WrapTyped DEF DeltaInt
  <2> QED
    BY <2>1, <2>2, <2>4 DEF SmallIntValues
<1>2. ASSUME NEW v \in Value, NEW w \in Value, NEW t \in Time
      PROVE  /\ v <= w => Interp(v, GetDelta(v, w), t) \in v .. w
             /\ w <= v => Interp(v, GetDelta(v, w), t) \in w .. v
             /\ t = Full => Interp(v, GetDelta(v, w), t) = w
  <2>1. t \in Times /\ Full = Steps
    BY DEF SmallIntValues
  <2>2. Interp(v, GetDelta(v, w), t) = InterpInt(v, DeltaInt(v, w), t)
    BY <1>1 DEF SmallIntValues
  <2> QED
    BY <1>1, <2>1, <2>2, SmallIntsApplied
<1>3. ExactValues
  BY <1>2, SnapshotAssumption DEF ExactValues
<1>4. ValuesInterpolate
  <2>1. Value \subseteq Int
    BY <1>1
  <2>2. \A v, w \in Value, t \in Time \ {Full} :
          Interp(v, GetDelta(v, w), t) \in v .. w \cup w .. v
    <3> SUFFICES ASSUME NEW v \in Value, NEW w \in Value, NEW t \in Time
                 PROVE  Interp(v, GetDelta(v, w), t) \in v .. w \cup w .. v
      OBVIOUS
    <3>1. v <= w \/ w <= v
      BY <2>1
    <3> QED
      BY <1>2, <3>1
  <2> QED
    BY <2>1, <2>2 DEF ValuesInterpolate
<1>5. ExactBytes
  <2>1. \A n \in Ints : Parse(Bytes(n)) = n
    BY IntsTravel DEF SmallIntValues
  <2> QED
    BY <1>1, <2>1 DEF ExactBytes
<1> QED
  BY <1>3, <1>4, <1>5

(***************************************************************************)
(* Objects of small ints, then, need no assumption but that of the         *)
(* checksum: deltas round trip, in memory and as messages, and what is     *)
(* drawn between two ticks is between them.                                *)
(***************************************************************************)
THEOREM SmallIntSnapshots ==
  ASSUME SmallIntValues, FaithfulCrc
  PROVE  Spec => [](RoundTrip /\ InterpolatedView /\ DeltaOverWire /\ SnapshotOverWire)
<1>1. ExactValues /\ ValuesInterpolate /\ ExactBytes
  BY SmallIntsServe
<1>2. Spec => []RoundTrip
  BY <1>1, DeltasRoundTrip
<1>3. Spec => []InterpolatedView
  BY <1>1, ViewsInterpolate
<1>4. Spec => []DeltaOverWire
  BY <1>1, DeltasTravel
<1>5. Spec => []SnapshotOverWire
  BY <1>1, SnapshotsTravel
<1> QED
  BY <1>2, <1>3, <1>4, <1>5, PTL
-----------------------------------------------------------------------------
(***************************************************************************)
(* Observers.  A draw instance is in the list of the object it shows and   *)
(* in no other, so that its destructor finds it there, once.               *)
(***************************************************************************)
ListsTyped ==
  /\ observers \in [GameObject -> Seq(Instance)]
  /\ object \in [Instance -> GameObject \cup {Nobody}]

DrawsInv == ListsTyped /\ Draws!ObserversExist

LEMMA Elements ==
  ASSUME NEW S, NEW q \in Seq(S), NEW k \in DOMAIN q
  PROVE  q[k] \in S
OBVIOUS

\* remove_if and the erase of one element: the list without it.
LEMMA ObserverRemoved ==
  ASSUME NEW list \in Seq(Instance), NEW d \in Instance,
         NEW k \in DOMAIN list, list[k] = d,
         \A i, j \in DOMAIN list : list[i] = list[j] => i = j
  PROVE  Draws!RemoveObserver(list, d) = Without(list, d)
<1> DEFINE others == Without(list, d)
<1>1. k \in 1 .. Len(list) /\ Len(list) \in Nat
  OBVIOUS
<1>2. others \in Seq(Instance) /\ Len(others) = Len(list) - 1
  <2>1. \A j \in 1 .. Len(list) : list[j] = d => j = k
    BY <1>1
  <2> QED
    BY <1>1, <2>1, WithoutOne
<1>3. Draws!RemoveObserver(list, d) = others \o SubSeq(list, Len(others) + 2, Len(list))
  BY Zenon DEF Draws!RemoveObserver, Draws!Without, Without
<1> HIDE DEF others
<1>4. SubSeq(list, Len(others) + 2, Len(list)) = <<>>
  BY <1>1, <1>2
<1>5. others \o <<>> = others
  BY <1>2
<1> QED
  BY <1>3, <1>4, <1>5 DEF others

LEMMA CreateStep ==
  ASSUME Nobody \notin GameObject, DrawsInv,
         NEW d \in Instance, NEW o \in GameObject, Draws!Create(d, o)
  PROVE  DrawsInv'
<1> USE DEF DrawsInv
<1> DEFINE list == observers[o]
<1>1. /\ object[d] = Nobody
      /\ object' = [object EXCEPT ![d] = o]
      /\ observers' = [observers EXCEPT ![o] = Append(list, d)]
  BY DEF Draws!Create, Draws!AddObserver
<1>2. list \in Seq(Instance) /\ Len(list) \in Nat /\ DOMAIN list = 1 .. Len(list)
  BY DEF ListsTyped
<1>3. /\ Append(list, d) \in Seq(Instance)
      /\ DOMAIN Append(list, d) = 1 .. Len(list) + 1
      /\ \A k \in DOMAIN list : Append(list, d)[k] = list[k]
      /\ Append(list, d)[Len(list) + 1] = d
  BY <1>2, AppendProperties
<1>4. ListsTyped'
  BY <1>1, <1>3 DEF ListsTyped
<1>5. \A p \in GameObject : observers'[p] = IF p = o THEN Append(list, d) ELSE observers[p]
  BY <1>1 DEF ListsTyped
<1>6. \A e \in Instance : object'[e] = IF e = d THEN o ELSE object[e]
  BY <1>1 DEF ListsTyped
<1>7. ASSUME NEW p \in GameObject, NEW k \in DOMAIN observers[p]
      PROVE  observers[p][k] \in Instance /\ observers[p][k] # d /\ object[observers[p][k]] = p
  <2>1. observers[p] \in Seq(Instance)
    BY DEF ListsTyped
  <2>2. observers[p][k] \in Instance
    BY <2>1, Elements
  <2>3. object[observers[p][k]] = p
    BY DEF Draws!ObserversExist
  <2> QED
    BY <1>1, <2>2, <2>3
<1>8. ASSUME NEW p \in GameObject, p # o
      PROVE  /\ \A k \in DOMAIN observers'[p] : object'[observers'[p][k]] = p
             /\ \A j, k \in DOMAIN observers'[p] : observers'[p][j] = observers'[p][k] => j = k
             /\ \A e \in Instance : object'[e] = p =>
                  \E k \in DOMAIN observers'[p] : observers'[p][k] = e
  BY <1>5, <1>6, <1>7, <1>8 DEF Draws!ObserversExist
<1>9. /\ \A k \in DOMAIN Append(list, d) : object'[Append(list, d)[k]] = o
      /\ \A j, k \in DOMAIN Append(list, d) : Append(list, d)[j] = Append(list, d)[k] => j = k
      /\ \A e \in Instance : object'[e] = o =>
           \E k \in DOMAIN Append(list, d) : Append(list, d)[k] = e
  <2>1. \A k \in DOMAIN Append(list, d) : k \in DOMAIN list \/ k = Len(list) + 1
    BY <1>2, <1>3
  <2>2. /\ \A j, k \in DOMAIN list : list[j] = list[k] => j = k
        /\ \A e \in Instance : object[e] = o => \E k \in DOMAIN list : list[k] = e
    BY DEF Draws!ObserversExist
  <2>3. \A k \in DOMAIN list : list[k] \in Instance /\ list[k] # d /\ object[list[k]] = o
    BY <1>7
  <2>4. DOMAIN list \subseteq DOMAIN Append(list, d) /\ Len(list) + 1 \in DOMAIN Append(list, d)
    BY <1>2, <1>3
  <2> HIDE DEF list
  <2> QED
    BY <1>3, <1>6, <2>1, <2>2, <2>3, <2>4
<1>10. Draws!ObserversExist'
  <2> HIDE DEF list
  <2> QED
    BY <1>5, <1>8, <1>9 DEF Draws!ObserversExist
<1> QED
  BY <1>4, <1>10

LEMMA DestroyStep ==
  ASSUME Nobody \notin GameObject, DrawsInv, NEW d \in Instance, Draws!Destroy(d)
  PROVE  DrawsInv'
<1> USE DEF DrawsInv
<1> DEFINE o == object[d]
           list == observers[o]
           others == Without(list, d)
<1>1. /\ o # Nobody
      /\ object' = [object EXCEPT ![d] = Nobody]
      /\ observers' = [observers EXCEPT ![o] = Draws!RemoveObserver(list, d)]
  BY DEF Draws!Destroy
<1>2. o \in GameObject
  BY <1>1 DEF ListsTyped
<1>3. list \in Seq(Instance)
  BY <1>2 DEF ListsTyped
<1>4. /\ \A k \in DOMAIN list : object[list[k]] = o
      /\ \A j, k \in DOMAIN list : list[j] = list[k] => j = k
      /\ \A e \in Instance : object[e] = o => \E k \in DOMAIN list : list[k] = e
  BY <1>2 DEF Draws!ObserversExist
<1> HIDE DEF list
<1>5. PICK k \in DOMAIN list : list[k] = d
  BY <1>4
<1>6. Draws!RemoveObserver(list, d) = others
  BY <1>3, <1>4, <1>5, ObserverRemoved
<1>7. /\ others \in Seq(Instance)
      /\ \A i \in DOMAIN others :
           others[i] # d /\ \E j \in DOMAIN list : list[j] = others[i]
      /\ \A j \in DOMAIN list :
           list[j] # d => \E i \in DOMAIN others : others[i] = list[j]
  BY <1>3, WithoutKeeps
<1>8. \A i, j \in DOMAIN others : others[i] = others[j] => i = j
  BY <1>3, <1>4, WithoutDistinct
<1>9. \A i \in DOMAIN others : others[i] \in Instance
  BY <1>7, Elements
<1> HIDE DEF others
<1>10. ListsTyped'
  BY <1>1, <1>2, <1>6, <1>7 DEF ListsTyped
<1>11. \A p \in GameObject : observers'[p] = IF p = o THEN others ELSE observers[p]
  BY <1>1, <1>6 DEF ListsTyped
<1>12. \A e \in Instance : object'[e] = IF e = d THEN Nobody ELSE object[e]
  BY <1>1 DEF ListsTyped
<1>13. ASSUME NEW p \in GameObject, p # o
       PROVE  /\ \A i \in DOMAIN observers'[p] : object'[observers'[p][i]] = p
              /\ \A i, j \in DOMAIN observers'[p] : observers'[p][i] = observers'[p][j] => i = j
              /\ \A e \in Instance : object'[e] = p =>
                   \E i \in DOMAIN observers'[p] : observers'[p][i] = e
  <2>1. observers[p] \in Seq(Instance)
    BY DEF ListsTyped
  <2>2. \A i \in DOMAIN observers[p] : observers[p][i] \in Instance
    BY <2>1, Elements
  <2>3. \A i \in DOMAIN observers[p] : object[observers[p][i]] = p /\ observers[p][i] # d
    BY <1>13 DEF Draws!ObserversExist
  <2> HIDE DEF o
  <2> QED
    BY <1>11, <1>12, <1>13, <2>2, <2>3 DEF Draws!ObserversExist
<1>14. /\ \A i \in DOMAIN others : object'[others[i]] = o
       /\ \A e \in Instance : object'[e] = o => \E i \in DOMAIN others : others[i] = e
  <2> HIDE DEF o
  <2> QED
    BY <1>1, <1>2, <1>4, <1>7, <1>9, <1>12
<1>15. Draws!ObserversExist'
  <2> HIDE DEF o
  <2> QED
    BY <1>8, <1>11, <1>13, <1>14 DEF Draws!ObserversExist
<1> QED
  BY <1>10, <1>15

(***************************************************************************)
(* Creating, destroying and notifying draw instances, in any order and for *)
(* any number of them, leaves no pointer to a destroyed one in a list and  *)
(* loses none that exists: the erase of one element behind remove_if is    *)
(* enough, because nobody is in a list twice (events.cpp:10-21,            *)
(* draw_instance.cpp:3-21).                                                *)
(***************************************************************************)
THEOREM ObserversAreKept ==
  ASSUME Nobody \notin GameObject
  PROVE  Draws!Spec => []ObserversExist
<1>1. Draws!Init => DrawsInv
  BY DEF Draws!Init, DrawsInv, ListsTyped, Draws!ObserversExist
<1>2. DrawsInv /\ [Draws!Next]_(Draws!vars) => DrawsInv'
  <2> SUFFICES ASSUME DrawsInv, [Draws!Next]_(Draws!vars)
               PROVE  DrawsInv'
    OBVIOUS
  <2>1. ASSUME NEW d \in Instance, NEW o \in GameObject, Draws!Create(d, o)
        PROVE  DrawsInv'
    BY <2>1, CreateStep
  <2>2. ASSUME NEW d \in Instance, Draws!Destroy(d)
        PROVE  DrawsInv'
    BY <2>2, DestroyStep
  <2>3. CASE UNCHANGED <<observers, object>>
    BY <2>3 DEF DrawsInv, ListsTyped, Draws!ObserversExist
  <2> QED
    BY <2>1, <2>2, <2>3
       DEF Draws!Next, Draws!Notify, Draws!React, Draws!NotifyReturns, Draws!vars
<1>3. DrawsInv => ObserversExist
  BY DEF DrawsInv, ObserversExist
<1> QED
  BY <1>1, <1>2, <1>3, PTL DEF Draws!Spec
=============================================================================
